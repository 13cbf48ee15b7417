--------------------------- MODULE CodexControlPlane ---------------------------
(***************************************************************************)
(* The Codex control plane around the provider-job table: the runner's     *)
(* three routes (apps/api/src/routes/codex-provider.ts), the maintenance   *)
(* pass (services/codex-provider-maintenance.ts), the Daily execution that *)
(* enqueues, parks and adopts (services/codex-reading-publisher.ts,        *)
(* queue.ts), the nudge (services/codex-provider-domain.ts), the encrypted *)
(* exchange objects in R2 and the call budget (db/provider-usage.ts).      *)
(*                                                                         *)
(* Every Worker invocation is a call that performs one D1, R2 or Queue     *)
(* operation per step; calls interleave, and may die between two steps.    *)
(* Jobs are the attempts 1, 2, ... of one Daily owner.                     *)
(***************************************************************************)
EXTENDS CodexProviderJobs, DailyOwner

CONSTANTS DailyCallLimit,  \* budget of provider calls of the (single) UTC day
          MaxSends,        \* copies of one answer the network may deliver
          Departures,      \* how admission may end for good
          Interruptions,   \* how admission may end for a while
          MaxPauses,       \* bound: how often it does
          MaxDeaths,       \* bound: how many invocations die
          MaxThrows        \* bound: how many Queue sends throw

ASSUME PlaneAssumption == /\ Jobs = 1 .. MaxAttempts
                          /\ DailyCallLimit \in Nat
                          /\ MaxSends \in Nat \ {0}
                          /\ Departures \subseteq {"revoked", "closed"}
                          /\ Interruptions \subseteq {"rollout", "freeze"}
                          /\ MaxPauses \in Nat
                          /\ MaxDeaths \in Nat
                          /\ MaxThrows \in Nat

VARIABLES call,      \* call[c]: invocation c; Claims name invocations too
          answers,   \* answers[t]: what the holder of t is going to send
          used,      \* provider calls charged today
          requests,  \* jobs whose request object exists
          objects,   \* <<job, token>> of the response objects that exist
          denied,    \* history: what an interruption has turned away
          pauses, deaths, throws

storeVars == <<requests, objects>>
runnerVars == <<answers, used>>
boundVars == <<pauses, deaths, throws>>
planeVars == <<jobVars, ownerVars, call, runnerVars, storeVars, denied, boundVars>>

NotHanded == [verdict |-> "none", left |-> 0]
Idle == [pc |-> "idle", job |-> 0, tok |-> NoToken, at |-> 0, seen |-> Absent]

ClaimSteps == {"claimed", "fetch", "release", "refuse", "charge", "reply"}
AnswerSteps == {"checkBeforeReserve", "reserve", "checkBeforePut", "put",
                "checkBeforeCommit", "commit", "checkBeforeFail", "fail"}
NudgeSteps == {"nudge", "wake", "send", "mark"}
MaintenanceSteps == {"dropObject", "headObject", "dropUpload", "checkStale",
                     "cancelStale", "purgeCheck", "dropExchange",
                     "headExchange", "dropJob"}
ExecutorSteps == {"request", "enqueue", "consult", "adopt", "retry", "park"}
Steps == ClaimSteps \cup AnswerSteps \cup NudgeSteps \cup MaintenanceSteps
            \cup ExecutorSteps \cup {"cancel", "recheck", "dispatch", "stamp"}

PlaneInit == /\ JobsInit
             /\ OwnerInit
             /\ call = [c \in Claims |-> Idle]
             /\ answers = [t \in Tokens |-> NotHanded]
             /\ used = 0
             /\ requests = {}
             /\ objects = {}
             /\ denied = {}
             /\ pauses = 0
             /\ deaths = 0
             /\ throws = 0

At(c, pc) == call[c].pc = pc
Free(c) == At(c, "idle")
BeginAt(c, pc, j, t, at) ==
    call' = [call EXCEPT ![c] = [Idle EXCEPT !.pc = pc, !.job = j, !.tok = t,
                                             !.at = at]]
Begin(c, pc, j, t) == BeginAt(c, pc, j, t, now)
Goto(c, pc) == call' = [call EXCEPT ![c].pc = pc]
End(c) == call' = [call EXCEPT ![c] = Idle]

\* The holder of the Daily claim is no longer executing: its lease runs out.
ClaimLost == /\ daily.status = "running"
             /\ call[daily.holder].pc \notin ExecutorSteps
-----------------------------------------------------------------------------
(* POST /v1/jobs/claim *)

ClaimCall(c) ==
    /\ Free(c)
    /\ \E j \in Jobs, t \in Tokens : ClaimJob(j, t, now) /\ Begin(c, "claimed", j, t)
    /\ UNCHANGED <<ownerVars, runnerVars, storeVars>>

\* One owner check of the routes: on to the next step, or cancel the job.
CheckOwner(c, pc, next) ==
    /\ At(c, pc)
    /\ Goto(c, IF OwnerCurrent(call[c].job) THEN next ELSE "cancel")
    /\ UNCHANGED <<tableVars, ownerVars, runnerVars, storeVars>>

Cancel(c) ==
    LET k == call[c] IN
    /\ At(c, "cancel")
    /\ \/ CancelJob(k.job, k.tok, k.at)
       \/ ~HoldsLease(k.job, k.tok, k.at) /\ UNCHANGED tableVars
    /\ End(c)
    /\ UNCHANGED <<ownerVars, runnerVars, storeVars>>

\* The request is read and parsed: readable, unreadable or malformed.
Fetch(c) ==
    /\ At(c, "fetch")
    /\ \E next \in {"charge", "release", "refuse"} :
          /\ next # "release" => call[c].job \in requests
          /\ Goto(c, next)
    /\ UNCHANGED <<tableVars, ownerVars, runnerVars, storeVars>>

Release(c) ==
    LET k == call[c] IN
    /\ At(c, "release")
    /\ \/ ReleaseLease(k.job, k.tok, k.at)
       \/ ~HoldsLease(k.job, k.tok, k.at) /\ UNCHANGED tableVars
    /\ End(c)
    /\ UNCHANGED <<ownerVars, runnerVars, storeVars>>

\* Mutant: the ledger admits one call above its ceiling.
ChargeOneTooMany(c) ==
    /\ At(c, "charge")
    /\ \/ /\ used <= DailyCallLimit
          /\ used' = used + 1
          /\ Goto(c, "reply")
       \/ /\ used > DailyCallLimit
          /\ Goto(c, "refuse")
          /\ UNCHANGED used
    /\ UNCHANGED <<tableVars, ownerVars, answers, storeVars>>

Charge(c) ==
    /\ At(c, "charge")
    /\ \/ /\ used < DailyCallLimit
          /\ used' = used + 1
          /\ Goto(c, "reply")
       \/ /\ used >= DailyCallLimit
          /\ Goto(c, "refuse")
          /\ UNCHANGED used
    /\ UNCHANGED <<tableVars, ownerVars, answers, storeVars>>

\* The result of failCodexProviderJob is not looked at: the nudge follows.
Refuse(c) ==
    LET k == call[c] IN
    /\ At(c, "refuse")
    /\ \/ FailJob(k.job, k.tok, k.at)
       \/ ~HoldsLease(k.job, k.tok, k.at) /\ UNCHANGED tableVars
    /\ Goto(c, "nudge")
    /\ UNCHANGED <<ownerVars, runnerVars, storeVars>>

\* The runner has the plaintext invocation and the lease token; it will
\* answer with one verdict, of which the network may deliver copies.
Reply(c) ==
    /\ At(c, "reply")
    /\ \E verdict \in {"complete", "fail"} :
          answers' = [answers EXCEPT ![call[c].tok] =
                        [verdict |-> verdict, left |-> MaxSends]]
    /\ End(c)
    /\ UNCHANGED <<tableVars, ownerVars, used, storeVars>>
-----------------------------------------------------------------------------
(* POST /v1/jobs/:jobId/complete and /fail *)

Arrives(t, verdict) == /\ answers[t].verdict = verdict
                       /\ answers[t].left > 0
                       /\ answers' = [answers EXCEPT ![t].left = @ - 1]

\* authorizeCodexProviderTerminalWrite.  A replay of a committed completion
\* changes nothing, and neither does a refused one.
CompleteCall(c, j, t) ==
    /\ Free(c)
    /\ issued[t] = {j}
    /\ Arrives(t, "complete")
    /\ IF HoldsLease(j, t, now) THEN Begin(c, "checkBeforeReserve", j, t)
                               ELSE UNCHANGED call
    /\ UNCHANGED <<tableVars, ownerVars, used, storeVars>>

Reserve(c) ==
    LET k == call[c] IN
    /\ At(c, "reserve")
    /\ \/ /\ AccountServes
          /\ ReserveUpload(k.job, k.tok, k.at)
          /\ Goto(c, "checkBeforePut")
       \/ /\ ~AccountServes
          /\ RefuseUpload(k.job, k.tok, k.at)
          /\ End(c)
       \/ /\ ~HoldsLease(k.job, k.tok, k.at)
          /\ UNCHANGED tableVars
          /\ End(c)
    /\ UNCHANGED <<ownerVars, runnerVars, storeVars>>

\* Create-only; an object with the same plaintext is adopted.  A put that
\* fails leaves the lease as it is.
PutResponse(c) ==
    /\ At(c, "put")
    /\ \/ /\ objects' = objects \cup {<<call[c].job, call[c].tok>>}
          /\ Goto(c, "checkBeforeCommit")
       \/ End(c) /\ UNCHANGED objects
    /\ UNCHANGED <<tableVars, ownerVars, runnerVars, requests>>

\* A fresh instant, commitNow, is sampled for the rest of the handler.
CheckBeforeCommit(c) ==
    /\ At(c, "checkBeforeCommit")
    /\ call' = [call EXCEPT ![c].at = now,
                            ![c].pc = IF OwnerCurrent(call[c].job)
                                      THEN "commit" ELSE "cancel"]
    /\ UNCHANGED <<tableVars, ownerVars, runnerVars, storeVars>>

Commit(c) ==
    LET k == call[c] IN
    /\ At(c, "commit")
    /\ \/ CompleteJob(k.job, k.tok, k.at) /\ Goto(c, "nudge")
       \/ /\ ~HoldsLease(k.job, k.tok, k.at)
          /\ Goto(c, IF UploadIsCommitted(<<k.job, k.tok>>) THEN "nudge"
                                                          ELSE "cancel")
          /\ UNCHANGED tableVars
    /\ UNCHANGED <<ownerVars, runnerVars, storeVars>>

HasFailed(j, t) == row[j].status = "failed" /\ row[j].token = t

\* An identical replay of a failure goes through to a second nudge.
FailCall(c, j, t) ==
    /\ Free(c)
    /\ issued[t] = {j}
    /\ Arrives(t, "fail")
    /\ CASE HoldsLease(j, t, now) -> Begin(c, "checkBeforeFail", j, t)
         [] HasFailed(j, t) -> Begin(c, "fail", j, t)
         [] OTHER -> UNCHANGED call
    /\ UNCHANGED <<tableVars, ownerVars, used, storeVars>>

Fail(c) ==
    LET k == call[c] IN
    /\ At(c, "fail")
    /\ \/ FailJob(k.job, k.tok, k.at) /\ Goto(c, "nudge")
       \/ /\ ~HoldsLease(k.job, k.tok, k.at)
          /\ IF HasFailed(k.job, k.tok) THEN Goto(c, "nudge") ELSE End(c)
          /\ UNCHANGED tableVars
    /\ UNCHANGED <<ownerVars, runnerVars, storeVars>>
-----------------------------------------------------------------------------
(* nudgeCodexProviderOwner: wake the Daily job of a terminal provider job *)

Nudge(c) ==
    /\ At(c, "nudge")
    /\ IF OwnerCurrent(call[c].job) THEN Goto(c, "wake") ELSE End(c)
    /\ UNCHANGED <<tableVars, ownerVars, runnerVars, storeVars>>

\* Zero rows cleared means somebody else owns the claim: nothing is sent.
Wake(c) ==
    /\ At(c, "wake")
    /\ \/ ClearMarker /\ Goto(c, "send")
       \/ daily.status # "queued" /\ End(c) /\ UNCHANGED daily
    /\ UNCHANGED <<tableVars, inbox, admission, frozen, runnerVars, storeVars>>

SendMessage(c, pc, next) ==
    /\ At(c, pc)
    /\ inbox' = TRUE
    /\ Goto(c, next)
    /\ UNCHANGED <<tableVars, daily, admission, frozen, runnerVars, storeVars>>

\* The nudge stamps the instant it was called with.
Mark(c) ==
    /\ At(c, "mark")
    /\ IF Unmarked THEN SetMarker(call[c].at) ELSE UNCHANGED daily
    /\ End(c)
    /\ UNCHANGED <<tableVars, inbox, admission, frozen, runnerVars, storeVars>>
-----------------------------------------------------------------------------
(* The Daily execution: queue.ts, generate-daily-reading-v5.ts, the publisher *)

\* A delivery under rollout-off pauses the job instead of claiming it.
PauseDelivery ==
    /\ inbox
    /\ admission = "paused"
    /\ inbox' = FALSE
    /\ IF Takeable(ClaimLost) /\ daily.result # "rollout_paused"
       THEN PauseOwner(ClaimLost)
       ELSE UNCHANGED daily
    /\ UNCHANGED <<tableVars, admission, frozen, call, runnerVars, storeVars>>

\* A delivery that finds the row claimed or settled, or the account closed or
\* frozen, is acknowledged.
Deliver(c) ==
    /\ Free(c)
    /\ inbox
    /\ admission # "paused"
    /\ inbox' = FALSE
    /\ IF Takeable(ClaimLost) /\ AccountServes
       THEN /\ NextAttempt <= MaxAttempts
            /\ ClaimOwner(c, now, ClaimLost)
            /\ Begin(c, "request", NextAttempt, NoToken)
       ELSE UNCHANGED <<daily, call>>
    /\ UNCHANGED <<tableVars, admission, frozen, runnerVars, storeVars>>

\* Mutant: the row is enqueued without waiting for its request.
PutRequestNotAwaited(c) ==
    /\ At(c, "request")
    /\ Goto(c, "enqueue")
    /\ UNCHANGED <<tableVars, ownerVars, runnerVars, storeVars>>

\* Consent is read again before the provider work, and a refusal is terminal.
\* Everything else that fails on the way to the provider job, the lease that
\* is too short for it included, is a failure of the attempt.
PutRequest(c) ==
    /\ At(c, "request")
    /\ \/ /\ admission \notin {"revoked", "closed"}
          /\ requests' = requests \cup {call[c].job}
          /\ Goto(c, "enqueue")
          /\ UNCHANGED daily
       \/ /\ admission \in {"revoked", "closed"}
          /\ SettleOwner(c, "failed")
          /\ End(c)
          /\ UNCHANGED requests
       \/ Goto(c, "retry") /\ UNCHANGED <<daily, requests>>
    /\ UNCHANGED <<tableVars, inbox, admission, frozen, runnerVars, objects>>

\* INSERT OR IGNORE: a row that exists is adopted.
Enqueue(c) ==
    /\ At(c, "enqueue")
    /\ \/ EnqueueJob(call[c].job, now) /\ Goto(c, "consult")
       \/ /\ row[call[c].job].status # "absent"
          /\ Goto(c, "consult")
          /\ UNCHANGED tableVars
       \/ Goto(c, "retry") /\ UNCHANGED tableVars
    /\ UNCHANGED <<ownerVars, runnerVars, storeVars>>

CommittedUpload(j) == <<j, row[j].answer>>

\* The row as enqueue returns it decides: wait, adopt the response, or give
\* the attempt up.  A response that cannot be read, or fails validation, is a
\* failure of the attempt.
Consult(c) ==
    LET j == call[c].job IN
    /\ At(c, "consult")
    /\ \/ row[j].status \in {"pending", "leased"} /\ Goto(c, "park")
       \/ /\ row[j].status = "completed"
          /\ CommittedUpload(j) \in objects
          /\ Goto(c, "adopt")
       \/ row[j].status \notin {"pending", "leased"} /\ Goto(c, "retry")
    /\ UNCHANGED <<tableVars, ownerVars, runnerVars, storeVars>>

Adopt(c) ==
    /\ At(c, "adopt")
    /\ IF AccountServes
       THEN SettleOwner(c, "published") /\ End(c)
       ELSE Goto(c, "retry") /\ UNCHANGED daily
    /\ UNCHANGED <<tableVars, inbox, admission, frozen, runnerVars, storeVars>>

\* retryOrFail: a retry releases the claim and asks for a redelivery.
Retry(c) ==
    /\ At(c, "retry")
    /\ \/ /\ daily.attempts < MaxAttempts
          /\ ReleaseOwnerForRetry(c)
          /\ inbox' = TRUE
       \/ SettleOwner(c, "failed") /\ UNCHANGED inbox
    /\ End(c)
    /\ UNCHANGED <<tableVars, admission, frozen, runnerVars, storeVars>>

Park(c) ==
    /\ At(c, "park")
    /\ ParkOwner(c)
    /\ Goto(c, "recheck")
    /\ UNCHANGED <<tableVars, inbox, admission, frozen, runnerVars, storeVars>>

\* Close the enqueue/release race: a runner may have finished meanwhile.
Recheck(c) ==
    /\ At(c, "recheck")
    /\ IF row[call[c].job].status \in {"completed", "failed"}
       THEN Begin(c, "nudge", call[c].job, NoToken)
       ELSE End(c)
    /\ UNCHANGED <<tableVars, ownerVars, runnerVars, storeVars>>

\* The outbox sweep: undispatched rows, and claims whose lease ran out.
Sweep(c) ==
    /\ Free(c)
    /\ Undispatched \/ ClaimLost
    /\ Begin(c, "dispatch", 0, NoToken)
    /\ UNCHANGED <<tableVars, ownerVars, runnerVars, storeVars>>

Stamp(c) ==
    /\ At(c, "stamp")
    /\ IF Undispatched THEN SetMarker(now) ELSE UNCHANGED daily
    /\ End(c)
    /\ UNCHANGED <<tableVars, inbox, admission, frozen, runnerVars, storeVars>>

\* The scheduler resumes paused rows of active accounts in bulk and leaves the
\* sending to the sweep; a reader who opens the app resumes the row and has it
\* sent.  The statement of the latter does not ask for the account again.
ResumePaused ==
    /\ admission = "open"
    /\ ~frozen
    /\ ResumeOwner(daily.dispatchedAt)
    /\ UNCHANGED <<tableVars, inbox, admission, frozen, call, runnerVars, storeVars>>

ResumeForFirstOpen(c) ==
    /\ Free(c)
    /\ admission = "open"
    /\ ResumeOwner(0)
    /\ Begin(c, "dispatch", 0, NoToken)
    /\ UNCHANGED <<tableVars, inbox, admission, frozen, runnerVars, storeVars>>
-----------------------------------------------------------------------------
(* maintainCodexProviderJobs, from two cron schedules: each call is one item *)
(* of one work list, processed step by step under the scheduled instant.     *)

SelectUpload(c, u) ==
    /\ Free(c)
    /\ u \in uploads
    /\ \E at \in Sampled : /\ UploadIsStale(u, at)
                          /\ BeginAt(c, "dropObject", u[1], u[2], at)
    /\ UNCHANGED <<tableVars, ownerVars, runnerVars, storeVars>>

DropObject(c) ==
    /\ At(c, "dropObject")
    /\ objects' = objects \ {<<call[c].job, call[c].tok>>}
    /\ Goto(c, "headObject")
    /\ UNCHANGED <<tableVars, ownerVars, runnerVars, requests>>

HeadObject(c) ==
    /\ At(c, "headObject")
    /\ IF <<call[c].job, call[c].tok>> \in objects THEN End(c)
                                                  ELSE Goto(c, "dropUpload")
    /\ UNCHANGED <<tableVars, ownerVars, runnerVars, storeVars>>

DropUpload(c) ==
    LET k == call[c]
        u == <<k.job, k.tok>> IN
    /\ At(c, "dropUpload")
    /\ \/ DeleteUpload(u, k.at)
       \/ (u \notin uploads \/ ~UploadIsStale(u, k.at)) /\ UNCHANGED tableVars
    /\ End(c)
    /\ UNCHANGED <<ownerVars, runnerVars, storeVars>>

Unheld(j, at) == \/ row[j].status = "pending"
                 \/ row[j].status = "leased" /\ row[j].leaseUntil <= at

SelectUnheld(c, j) ==
    /\ Free(c)
    /\ \E at \in Sampled : /\ Unheld(j, at)
                          /\ BeginAt(c, "checkStale", j, NoToken, at)
    /\ UNCHANGED <<tableVars, ownerVars, runnerVars, storeVars>>

CheckStale(c) ==
    /\ At(c, "checkStale")
    /\ IF row[call[c].job].status = "absent" \/ OwnerCurrent(call[c].job)
       THEN End(c)
       ELSE Goto(c, "cancelStale")
    /\ UNCHANGED <<tableVars, ownerVars, runnerVars, storeVars>>

\* Mutant: the owner check is trusted, and the row is not compared again.
CancelStaleBlindly(c) ==
    /\ At(c, "cancelStale")
    /\ Cancelled(call[c].job, call[c].at)
    /\ End(c)
    /\ UNCHANGED <<issued, uploads, ownerVars, runnerVars, storeVars>>

CancelStale(c) ==
    LET k == call[c] IN
    /\ At(c, "cancelStale")
    /\ \/ CancelStaleJob(k.job, k.at)
       \/ ~Unheld(k.job, k.at) /\ UNCHANGED tableVars
    /\ End(c)
    /\ UNCHANGED <<ownerVars, runnerVars, storeVars>>

\* Mutant: only an owner without a marker is repaired.
NudgeIsOverdueIfUnmarked(j) ==
    /\ row[j].status \in {"completed", "failed"}
    /\ daily.status = "queued"
    /\ daily.result = "publisher_pending"
    /\ daily.dispatchedAt = 0

\* READING_NUDGE_REPAIR_SQL, for the job of any attempt of the owner.
NudgeIsOverdue(j) ==
    /\ row[j].status \in {"completed", "failed"}
    /\ daily.status = "queued"
    /\ daily.result = "publisher_pending"
    /\ daily.dispatchedAt <= row[j].completedAt

SelectOverdue(c, j) ==
    /\ Free(c)
    /\ NudgeIsOverdue(j)
    /\ \E at \in Sampled : BeginAt(c, "nudge", j, NoToken, at)
    /\ UNCHANGED <<tableVars, ownerVars, runnerVars, storeVars>>

\* Mutant: a terminal job is purged whether or not its owner is live.
SelectSettledOfLiveOwner(c, j) ==
    /\ Free(c)
    /\ row[j].status \in Terminal
    /\ Begin(c, "purgeCheck", j, NoToken)
    /\ UNCHANGED <<tableVars, ownerVars, runnerVars, storeVars>>

\* READING_PURGE_SQL
SelectSettled(c, j) ==
    /\ Free(c)
    /\ row[j].status \in Terminal
    /\ ~OwnerLive
    /\ Begin(c, "purgeCheck", j, NoToken)
    /\ UNCHANGED <<tableVars, ownerVars, runnerVars, storeVars>>

Uncommitted(j) == {u \in uploads : u[1] = j /\ ~UploadIsCommitted(u)}

PurgeCheck(c) ==
    LET j == call[c].job IN
    /\ At(c, "purgeCheck")
    /\ IF \/ row[j].completedAt = 0
          \/ OwnerCurrent(j)
          \/ Uncommitted(j) # {}
       THEN End(c)
       ELSE call' = [call EXCEPT ![c].pc = "dropExchange", ![c].seen = row[j]]
    /\ UNCHANGED <<tableVars, ownerVars, runnerVars, storeVars>>

ExchangeObjects(k) ==
    IF k.seen.status = "completed" THEN {<<k.job, k.seen.answer>>} ELSE {}

DropExchange(c) ==
    LET k == call[c] IN
    /\ At(c, "dropExchange")
    /\ requests' = requests \ {k.job}
    /\ objects' = objects \ ExchangeObjects(k)
    /\ Goto(c, "headExchange")
    /\ UNCHANGED <<tableVars, ownerVars, runnerVars>>

HeadExchange(c) ==
    LET k == call[c] IN
    /\ At(c, "headExchange")
    /\ IF k.job \in requests \/ ExchangeObjects(k) \cap objects # {}
       THEN End(c)
       ELSE Goto(c, "dropJob")
    /\ UNCHANGED <<tableVars, ownerVars, runnerVars, storeVars>>

DropJob(c) ==
    LET k == call[c] IN
    /\ At(c, "dropJob")
    /\ \/ DeleteJob(k.job, k.seen.status, k.seen.completedAt)
       \/ /\ <<row[k.job].status, row[k.job].completedAt>>
                # <<k.seen.status, k.seen.completedAt>>
          /\ UNCHANGED tableVars
    /\ End(c)
    /\ UNCHANGED <<ownerVars, runnerVars, storeVars>>
-----------------------------------------------------------------------------
(* The environment: rollout, consent, account, and invocations that die    *)

Switch(to) ==
    /\ admission' = to
    /\ UNCHANGED <<tableVars, daily, inbox, frozen, call, runnerVars, storeVars>>

Interrupt(how) == /\ how \in Interruptions /\ pauses < MaxPauses
                  /\ pauses' = pauses + 1 /\ UNCHANGED <<deaths, throws>>

RolloutOff == admission = "open" /\ Interrupt("rollout") /\ Switch("paused")
RolloutOn == admission = "paused" /\ Switch("open") /\ UNCHANGED boundVars
Depart == /\ admission \in {"open", "paused"}
          /\ \E how \in Departures : Switch(how)
          /\ UNCHANGED boundVars

\* A data-key rotation begins, or consent to account processing is withdrawn;
\* the account is active again when the rotation ends, or consent is renewed.
Freezing(to) ==
    /\ frozen' = to
    /\ UNCHANGED <<tableVars, daily, inbox, admission, call, runnerVars, storeVars>>

Freeze == ~frozen /\ admission # "closed" /\ Interrupt("freeze") /\ Freezing(TRUE)
Thaw == frozen /\ Freezing(FALSE) /\ UNCHANGED boundVars

Abort(c) == /\ End(c)
            /\ UNCHANGED <<jobVars, daily, admission, frozen, runnerVars, storeVars,
                            denied, pauses>>

\* A Queue send throws: the call is over and no marker is written.
SendThrows(c) == /\ call[c].pc \in {"send", "dispatch"}
                 /\ throws < MaxThrows
                 /\ throws' = throws + 1
                 /\ Abort(c)
                 /\ UNCHANGED <<inbox, deaths>>

\* The isolate is evicted, or another binding throws out of the handler.  A
\* message whose execution died unacknowledged comes back while retries last.
Die(c) == /\ ~Free(c)
          /\ deaths < MaxDeaths
          /\ deaths' = deaths + 1
          /\ Abort(c)
          /\ \/ UNCHANGED inbox
             \/ call[c].pc \in ExecutorSteps /\ inbox' = TRUE
          /\ UNCHANGED throws

\* No handler outlives MaxLag after the last instant it sampled.
PlaneTick == /\ \A c \in Claims : Free(c) \/ now < call[c].at + MaxLag
             /\ Tick
             /\ UNCHANGED <<ownerVars, call, runnerVars, storeVars, denied, boundVars>>

ClaimRoute(c) == \/ ClaimCall(c)
                 \/ CheckOwner(c, "claimed", "fetch")
                 \/ Fetch(c)
                 \/ Release(c)
                 \/ Charge(c)
                 \/ Refuse(c)
                 \/ Reply(c)
AnswerRoutes(c) == \/ \E j \in Jobs, t \in Tokens : CompleteCall(c, j, t)
                   \/ CheckOwner(c, "checkBeforeReserve", "reserve")
                   \/ Reserve(c)
                   \/ CheckOwner(c, "checkBeforePut", "put")
                   \/ PutResponse(c)
                   \/ CheckBeforeCommit(c)
                   \/ Commit(c)
                   \/ \E j \in Jobs, t \in Tokens : FailCall(c, j, t)
                   \/ CheckOwner(c, "checkBeforeFail", "fail")
                   \/ Fail(c)
                   \/ Cancel(c)
WakeUp(c) == \/ Nudge(c)
             \/ Wake(c)
             \/ SendMessage(c, "send", "mark")
             \/ Mark(c)
             \/ Sweep(c)
             \/ ResumeForFirstOpen(c)
             \/ SendMessage(c, "dispatch", "stamp")
             \/ Stamp(c)
Execution(c) == \/ Deliver(c)
                \/ PutRequest(c)
                \/ Enqueue(c)
                \/ Consult(c)
                \/ Adopt(c)
                \/ Retry(c)
                \/ Park(c)
                \/ Recheck(c)
Maintenance(c) == \/ \E u \in uploads : SelectUpload(c, u)
                  \/ DropObject(c)
                  \/ HeadObject(c)
                  \/ DropUpload(c)
                  \/ \E j \in Jobs : \/ SelectUnheld(c, j)
                                     \/ SelectOverdue(c, j)
                                     \/ SelectSettled(c, j)
                  \/ CheckStale(c)
                  \/ CancelStale(c)
                  \/ PurgeCheck(c)
                  \/ DropExchange(c)
                  \/ HeadExchange(c)
                  \/ DropJob(c)

\* The step of call c found the account frozen or the rollout off, and for that
\* alone left a message unclaimed or took the owner for stale.
OwnerReads == {"claimed", "checkBeforeReserve", "checkBeforePut",
               "checkBeforeCommit", "checkBeforeFail", "nudge", "checkStale",
               "purgeCheck"}
TurnedAway(c) ==
    (IF frozen /\ inbox /\ ~inbox' /\ Takeable(ClaimLost) /\ admission # "closed"
     THEN {"delivery"} ELSE {})
    \cup (IF /\ call[c].pc \in OwnerReads
             /\ Entitled(call[c].job) /\ ~OwnerCurrent(call[c].job)
          THEN {"check"} ELSE {})

Invocation(c) == /\ \/ ClaimRoute(c)
                    \/ AnswerRoutes(c)
                    \/ WakeUp(c)
                    \/ Execution(c)
                    \/ Maintenance(c)
                 /\ denied' = denied \cup TurnedAway(c)
                 /\ UNCHANGED <<now, boundVars>>

PlaneNext == \/ PlaneTick
             \/ \E c \in Claims : Invocation(c) \/ SendThrows(c) \/ Die(c)
             \/ /\ PauseDelivery
                /\ denied' = denied \cup IF Takeable(ClaimLost) THEN {"pause"} ELSE {}
                /\ UNCHANGED <<now, boundVars>>
             \/ ResumePaused /\ UNCHANGED <<now, denied, boundVars>>
             \/ /\ RolloutOff \/ RolloutOn \/ Depart \/ Freeze \/ Thaw
                /\ UNCHANGED <<now, denied>>

PlaneSpec == PlaneInit /\ [][PlaneNext]_planeVars
-----------------------------------------------------------------------------
CallType == [pc : Steps \cup {"idle"}, job : Jobs \cup {0},
             tok : Tokens \cup {NoToken}, at : Nat, seen : RowType]

\* Every variable holds a value of its kind.
PlaneTypeOK ==
    /\ TypeOK
    /\ daily \in OwnerType
    /\ inbox \in BOOLEAN /\ admission \in Admissions /\ frozen \in BOOLEAN
    /\ denied \subseteq {"delivery", "check", "pause"}
    /\ call \in [Claims -> CallType]
    /\ answers \in [Tokens -> [verdict : {"none", "complete", "fail"},
                               left : 0 .. MaxSends]]
    /\ used \in Nat
    /\ requests \subseteq Jobs /\ objects \subseteq Jobs \X Tokens
    /\ pauses \in 0 .. MaxPauses /\ deaths \in 0 .. MaxDeaths
    /\ throws \in 0 .. MaxThrows

HandedOut == {t \in Tokens : answers[t].verdict # "none"}

\* Every plaintext invocation handed to a runner was charged first, and the
\* charges never pass the ceiling, however often a lease is reclaimed.
SpendIsBounded ==
    /\ Cardinality(HandedOut) + Cardinality({c \in Claims : At(c, "reply")})
         <= used
    /\ used <= DailyCallLimit

\* A job somebody may still claim or hold has its request in the store.
RequestPrecedesJob ==
    \A j \in Jobs : row[j].status \in {"pending", "leased"} => j \in requests

\* Every response object can be found again: by its upload row.
ObjectsAreInventoried == objects \subseteq uploads

\* The response a live owner is about to adopt has not been swept away.
AdoptableResponseExists ==
    \A j \in Jobs : row[j].status = "completed" /\ OwnerCurrent(j)
                    => CommittedUpload(j) \in objects

\* Whatever the routes, the executions and the maintenance pass do to the
\* table, in whatever order, is an operation of the table with an instant that
\* is not older than a handler may be.
OperatesTheTable == JobsSpec

\* Someone is about to send the owner a message.
Waking == \E c \in Claims :
             call[c].pc \in {"recheck", "nudge", "wake", "send", "dispatch"}

Waits == daily.status = "queued" /\ daily.result = "publisher_pending"
Provider == row[daily.attempts]

\* A queued owner that may run is never forgotten: a message, a call, the
\* outbox sweep or the repair pass will wake it, or its job is still open.  So
\* it is while the rollout is off or the account is frozen, until that turns
\* something away: a message that is acknowledged or pauses the row, or a check
\* that withdraws the job or gives the wake-up up.
QueuedOwnerIsReachable ==
    /\ daily.status = "queued" /\ admission \in {"open", "paused"}
    /\ denied = {}
    => \/ inbox \/ Waking \/ Undispatched
       \/ Waits /\ Provider.status \in {"pending", "leased"}
       \/ Waits /\ NudgeIsOverdue(daily.attempts)

VerdictIsIn == Waits /\ OwnerCurrent(daily.attempts)
                     /\ Provider.status \in {"completed", "failed"}

\* A parked owner whose provider job has a verdict is woken by somebody, unless
\* a freeze had its message acknowledged.  On the first attempt this holds even
\* when the rollout went off and on, the account was frozen, or consent ended
\* in between.  On a later one it needs that no check failed meanwhile: a nudge
\* left over from the attempt before may clear this attempt's marker, and the
\* marker that replaces it be younger than the verdict.
VerdictReachesOwner ==
    VerdictIsIn /\ "delivery" \notin denied
    => inbox \/ Waking \/ Undispatched \/ NudgeIsOverdue(daily.attempts)

\* queue.ts:320: a claim of no rows means that the delivery is a duplicate, so
\* that acknowledging it leaves the owner somebody to wake it.
UnclaimedDeliveryIsDuplicate ==
    VerdictIsIn /\ "delivery" \in denied
    => inbox \/ Waking \/ Undispatched \/ NudgeIsOverdue(daily.attempts)

\* codex-provider-domain.ts:303: a send that throws leaves `dispatched_at`
\* NULL, so that a lost message is a delay and never a stranded reading.
LostMessageOnlyDelays ==
    VerdictIsIn /\ throws > 0
    => inbox \/ Waking \/ Undispatched \/ NudgeIsOverdue(daily.attempts)

\* The design of 2026-08-27, line 350: when rollout-off makes the owner stale
\* its provider job is cancelled and the owner cannot remain stranded.
CancelledOwnerIsWoken ==
    Waits /\ OwnerCurrent(daily.attempts) /\ Provider.status = "cancelled"
    => inbox \/ Waking \/ Undispatched

ResumesUndispatched ==
    /\ daily.result = "rollout_paused"
    /\ daily'.result = "none"
    /\ daily'.status = "queued"
    => Undispatched'

\* generation.ts:1286: a resumed row is back in the undispatched lane.
ResumedRowIsUndispatched == [][ResumesUndispatched]_planeVars
=============================================================================
