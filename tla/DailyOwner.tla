------------------------------ MODULE DailyOwner ------------------------------
(***************************************************************************)
(* One Daily job as the Codex control plane sees it: the `jobs` row of     *)
(* type generate_daily_reading whose reading is pending, its Queue message *)
(* and the reader's admission: rollout, consent, account and its freeze.   *)
(* apps/api/src/db/generation.ts, apps/api/src/queue.ts.                   *)
(*                                                                         *)
(* Operators only: CodexControlPlane composes them into steps.  The lease  *)
(* of a Daily claim is abstracted to `lost`: a claim can be taken over     *)
(* exactly when the execution that held it is gone.                        *)
(***************************************************************************)
EXTENDS Integers

CONSTANTS Claims,       \* claim tokens
          NoClaim,      \* SQL NULL
          MaxAttempts   \* bound on `attempts`; MAX_JOB_ATTEMPTS in queue.ts

ASSUME ClaimAssumption == NoClaim \notin Claims /\ MaxAttempts \in Nat \ {0}

VARIABLES daily,      \* the columns of the row
          inbox,      \* a message for the job is in READING_QUEUE
          admission,  \* may the pinned command still run?
          frozen      \* users.status = 'frozen', for the time being: a data-key
                      \* rotation, or account-processing consent withdrawn

ownerVars == <<daily, inbox, admission, frozen>>

Results == {"none", "publisher_pending", "rollout_paused"}
Admissions == {"open",      \* rollout on, consent granted, account active
               "paused",    \* rollout off
               "revoked",   \* AI consent revoked; a new grant has another id
               "closed"}    \* the account is no longer active
OwnerType == [status : {"queued", "running", "published", "failed"},
              holder : Claims \cup {NoClaim},
              attempts : 0 .. MaxAttempts,
              result : Results,
              dispatchedAt : Nat]   \* 0 is NULL

OwnerInit == /\ daily = [status |-> "queued", holder |-> NoClaim, attempts |-> 0,
                         result |-> "none", dispatchedAt |-> 0]
             /\ inbox = FALSE
             /\ admission = "open"
             /\ frozen = FALSE

OwnerLive == daily.status \in {"queued", "running"}

\* stageAttempt === attempts - 1, the pin, the consent id, the live pair; the
\* provider jobs of this owner are named by the attempt that enqueued them.
Entitled(j) == /\ admission \in {"open", "paused"}
               /\ OwnerLive /\ daily.attempts = j

\* The rollout is on, and the snapshot is joined with users.status = 'active'.
OwnerCurrent(j) == Entitled(j) /\ admission = "open" /\ ~frozen

\* Reacquiring a parked job is not a new attempt.
NextAttempt == IF daily.result = "publisher_pending" THEN daily.attempts
                                                     ELSE daily.attempts + 1

\* What claimJob and the rollout pause may take: a queued row, or a running
\* one whose lease ran out.
Takeable(lost) == \/ daily.status = "queued"
                  \/ (daily.status = "running" /\ lost)

\* users.status = 'active' and no crypto_write_fence.
AccountServes == admission # "closed" /\ ~frozen

ClaimOwner(c, at, lost) ==
    /\ Takeable(lost)
    /\ AccountServes
    /\ daily' = [daily EXCEPT !.status = "running",
                              !.holder = c,
                              !.attempts = NextAttempt,
                              !.dispatchedAt = IF @ = 0 THEN at ELSE @]

HoldsOwner(c) == daily.status = "running" /\ daily.holder = c

\* Mutant: a parked row is not told from one that waits for a retry.
ParkOwnerUnnamed(c) ==
    /\ HoldsOwner(c)
    /\ daily' = [daily EXCEPT !.status = "queued", !.holder = NoClaim]

ParkOwner(c) ==
    /\ HoldsOwner(c)
    /\ daily' = [daily EXCEPT !.status = "queued",
                              !.holder = NoClaim,
                              !.result = "publisher_pending"]

ReleaseOwnerForRetry(c) ==
    /\ HoldsOwner(c)
    /\ daily' = [daily EXCEPT !.status = "queued",
                              !.holder = NoClaim,
                              !.dispatchedAt = 0,
                              !.result = IF @ = "publisher_pending"
                                         THEN "none" ELSE @]

SettleOwner(c, status) ==
    /\ HoldsOwner(c)
    /\ daily' = [daily EXCEPT !.status = status, !.holder = NoClaim]

PauseOwner(lost) ==
    /\ Takeable(lost)
    /\ daily.result # "rollout_paused"
    /\ daily' = [daily EXCEPT !.status = "queued",
                              !.holder = NoClaim,
                              !.dispatchedAt = 0,
                              !.result = "rollout_paused"]

ResumeOwner(marker) ==
    /\ daily.status = "queued"
    /\ daily.result = "rollout_paused"
    /\ daily' = [daily EXCEPT !.result = "none", !.dispatchedAt = marker]

\* findUndispatched: what the outbox sweep, and it alone, can see.
Undispatched == /\ daily.status = "queued"
                /\ daily.dispatchedAt = 0
                /\ daily.result # "rollout_paused"

ClearMarker == /\ daily.status = "queued"
               /\ daily' = [daily EXCEPT !.dispatchedAt = 0]

Unmarked == daily.status = "queued" /\ daily.dispatchedAt = 0

SetMarker(at) == /\ Unmarked
                 /\ daily' = [daily EXCEPT !.dispatchedAt = at]
=============================================================================
