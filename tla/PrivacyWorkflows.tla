--------------------------- MODULE PrivacyWorkflows ---------------------------
(***************************************************************************)
(* Account deletion and privacy exports over one account, one D1 database  *)
(* and one R2 bucket: reservation and dispatch (apps/api/src/routes/       *)
(* privacy.ts, db/privacy-jobs.ts, db/deletion-jobs.ts), the consumers     *)
(* (services/privacy-jobs.ts, services/account-deletion.ts) and the        *)
(* scheduled maintenance (services/privacy-maintenance.ts).                *)
(*                                                                         *)
(* A Worker invocation is a call that performs one D1, R2 or Queue         *)
(* operation per step.  A claim token is minted by the UPDATE that         *)
(* increments `attempts`, so the attempt number stands for the token.      *)
(* Instants are counted down: 0 is an instant that has passed, or NULL.    *)
(***************************************************************************)
EXTENDS Integers, FiniteSets

CONSTANTS Exports,      \* export requests the reader may make
          Deletion,     \* the job of the (single) deletion request
          Calls,        \* Worker invocations that can run at one time
          Lease,        \* PRIVACY_CLAIM_LEASE_MS, DELETION_CLAIM_LEASE_MS
          RetryDelay,   \* PRIVACY_RETRY_DELAY_SECONDS, deletion backoff
          ExportTtl,    \* seven days
          FenceTtl,     \* DELETION_ARTIFACT_FENCE_TTL_SECONDS, eight days
          CallLife,     \* how long an invocation may run
          MaxRetries,   \* max_retries of the queue, then the dead-letter queue
          MaxAttempts,  \* PRIVACY_MAX_JOB_ATTEMPTS
          MaxClaims,    \* bound: claims of one job
          MaxDisplaced, \* bound: how many of them may be displaced while the
                        \* call that made them still runs
          MaxDeaths,    \* bound: how many invocations die
          MaxThrows     \* bound: how many operations throw

ASSUME PrivacyAssumption ==
    /\ Deletion \notin Exports
    /\ {Lease, RetryDelay, ExportTtl, FenceTtl} \subseteq Nat \ {0}
    /\ {CallLife, MaxRetries, MaxAttempts, MaxClaims, MaxDisplaced, MaxDeaths,
        MaxThrows} \subseteq Nat
    /\ CallLife < FenceTtl /\ CallLife < ExportTtl
    /\ CallLife < MaxRetries * RetryDelay

VARIABLES user,     \* users.status; "active" stands for active and frozen
          keys,     \* do the reader's keys exist? (user_keys.wrapped_dek)
          rows,     \* do the reader's rows exist? (DELETED_USER_TABLES)
          fenced,   \* users.crypto_write_fence is set: a data-key rotation
          turned,   \* history: queued exports whose message a fence turned away
          job,      \* the jobs rows
          command,  \* the deletion job's payload_enc is not NULL
          req,      \* the export_requests rows
          del,      \* the deletion_requests row
          object,   \* publication_attempt of the stored export, 0: none
          inbox,    \* copies of a message: delay that is left, retries used
          call, deaths, throws

fenceVars == <<fenced, turned>>
accountVars == <<user, keys, rows, fenceVars>>
deletionVars == <<command, del>>
exportVars == <<req, object>>
faultVars == <<deaths, throws>>
vars == <<accountVars, deletionVars, exportVars, job, inbox, call, faultVars>>

Jobs == Exports \cup {Deletion}

\* deletion_requests.checkpoint, in the order of the workflow.
Accepted == 0
ExportsFenced == 1
ObjectsDeleted == 2
RowsDeleted == 3
KeysErased == 4
Completed == 5

NoJob == [status |-> "absent", attempts |-> 0, lease |-> 0, wait |-> 0,
          sent |-> FALSE]
NoRequest == [status |-> "absent", key |-> 0, ttl |-> 0, cleaned |-> FALSE]
NoDeletion == [status |-> "absent", checkpoint |-> Accepted, dek |-> FALSE,
               manifest |-> {}, fence |-> 0]
Idle == [pc |-> "idle", job |-> Deletion, tries |-> 0, attempt |-> 0,
         checkpoint |-> 0, keys |-> {}, etag |-> 0, row |-> NoJob, age |-> 0]

RouteSteps == {"send", "mark"}
ExportSteps == {"build", "check", "head", "put", "publish", "ownerCheck",
                "dropLate", "fail", "dropFailed", "markFailed", "releaseExport"}
DeletionSteps == {"decrypt", "probe", "liveCheck", "collect", "fence",
                  "collectAgain", "dropObjects", "deleteRows", "deleteJobs",
                  "advance", "erase", "finalize", "releaseDeletion"}
MaintenanceSteps == {"expireDrop", "expireMark", "sweepDrop", "sweepClear",
                     "recoverSend", "recoverMark", "cleanDrop", "cleanMark"}
ConsumerSteps == {"start", "load"} \cup ExportSteps \cup DeletionSteps
Steps == RouteSteps \cup ConsumerSteps \cup MaintenanceSteps

Init == /\ user = "active" /\ keys = TRUE /\ rows = TRUE
        /\ fenced = FALSE /\ turned = {}
        /\ job = [j \in Jobs |-> NoJob]
        /\ command = FALSE
        /\ req = [x \in Exports |-> NoRequest]
        /\ del = NoDeletion
        /\ object = [x \in Exports |-> 0]
        /\ inbox = [j \in Jobs |-> {}]
        /\ call = [c \in Calls |-> Idle]
        /\ deaths = 0 /\ throws = 0

At(c, pc) == call[c].pc = pc
Begin(c, pc, j) == /\ At(c, "idle")
                   /\ call' = [call EXCEPT ![c] = [Idle EXCEPT !.pc = pc,
                                                               !.job = j]]
Goto(c, pc) == call' = [call EXCEPT ![c].pc = pc]
End(c) == call' = [call EXCEPT ![c] = Idle]

\* status = 'running' AND claim_token = ?
Holds(c) == /\ job[call[c].job].status = "running"
            /\ job[call[c].job].attempts = call[c].attempt

Message(delay, tries) == [delay |-> delay, tries |-> tries]
Post(j, m) == inbox' = [inbox EXCEPT ![j] = @ \cup {m}]
\* A message that has used its retries goes to the dead-letter queue.
Retry(c, delay) == IF call[c].tries < MaxRetries
                   THEN Post(call[c].job, Message(delay, call[c].tries + 1))
                   ELSE inbox' = inbox
\* An exception outside the consumer's try: the Queue delivers again.
Redeliver(c) == Retry(c, 0) /\ End(c)
-----------------------------------------------------------------------------
(* Reservation and dispatch: POST /v1/exports and DELETE /v1/account.      *)

Queued == [NoJob EXCEPT !.status = "queued"]

ReserveExport(c, x) ==
    /\ user = "active" /\ ~fenced /\ job[x] = NoJob /\ req[x] = NoRequest
    /\ job' = [job EXCEPT ![x] = Queued]
    /\ req' = [req EXCEPT ![x].status = "queued"]
    /\ Begin(c, "send", x)
    /\ UNCHANGED <<accountVars, deletionVars, object, inbox, faultVars>>

\* A rotation in progress is abandoned, and its fence goes with it.
ReserveDeletion(c) ==
    /\ user = "active"
    /\ user' = "pending"
    /\ fenced' = FALSE
    /\ job' = [j \in Jobs |-> IF j = Deletion THEN Queued
                              ELSE IF job[j].status = "queued"
                              THEN [job[j] EXCEPT !.status = "cancelled"]
                              ELSE job[j]]
    /\ turned' = {}
    /\ command' = TRUE
    /\ del' = [NoDeletion EXCEPT !.status = "queued"]
    /\ Begin(c, "send", Deletion)
    /\ UNCHANGED <<keys, rows, exportVars, inbox, faultVars>>

Send(c) == /\ At(c, "send")
           /\ Post(call[c].job, Message(0, 0))
           /\ Goto(c, "mark")
           /\ UNCHANGED <<accountVars, deletionVars, exportVars, job, faultVars>>

Mark(c) == /\ At(c, "mark")
           /\ job' = [job EXCEPT ![call[c].job].sent =
                          @ \/ job[call[c].job].status = "queued"]
           /\ End(c)
           /\ UNCHANGED <<accountVars, deletionVars, exportVars, inbox, faultVars>>
-----------------------------------------------------------------------------
(* Claims.  The message is consumed by the first statement of its call.    *)

\* The status that the claim asks for; an export may not be fenced either.
Owned(j) == user = IF j = Deletion THEN "pending" ELSE "active"
OwnerAdmits(j) == Owned(j) /\ (j # Deletion => ~fenced)

Takeable(j) == /\ job[j].wait = 0
               /\ \/ job[j].status = "queued"
                  \/ job[j].status = "running" /\ job[j].lease = 0

Claimable(j) == Takeable(j) /\ OwnerAdmits(j)

\* The call that holds the claim of j still runs.
HolderRuns(j) == /\ job[j].status = "running"
                 /\ \E c \in Calls : /\ ~At(c, "idle") /\ call[c].job = j
                                     /\ call[c].attempt = job[j].attempts

Take(j, tries) == /\ Message(0, tries) \in inbox[j]
                  /\ inbox' = [inbox EXCEPT ![j] = @ \ {Message(0, tries)}]

ClaimJob(c, j) ==
    /\ Claimable(j)
    /\ job[j].attempts < MaxClaims
    /\ HolderRuns(j) => job[j].attempts <= MaxDisplaced
    /\ job' = [job EXCEPT ![j].status = "running",
                          ![j].lease = Lease,
                          ![j].attempts = @ + 1,
                          ![j].sent = TRUE]
    /\ At(c, "idle")
    /\ \E tries \in 0 .. MaxRetries :
          /\ Take(j, tries)
          /\ call' = [call EXCEPT ![c] = [Idle EXCEPT !.pc = "start", !.job = j,
                                          !.tries = tries,
                                          !.attempt = job[j].attempts + 1]]
    /\ turned' = turned \ {j}
    /\ UNCHANGED <<user, keys, rows, fenced, deletionVars, exportVars, faultVars>>

\* "The claim failed" acknowledges the message.
IgnoreMessage(j) ==
    /\ ~Claimable(j)
    /\ \E tries \in 0 .. MaxRetries : Take(j, tries)
    /\ turned' = IF j # Deletion /\ job[j].status = "queued" /\ Takeable(j) /\ Owned(j)
                 THEN turned \cup {j} ELSE turned
    /\ UNCHANGED <<user, keys, rows, fenced, deletionVars, exportVars, job, call,
                   faultVars>>

\* The statement of the claim itself throws: a retry is used, no row changes.
ClaimThrows(j) ==
    /\ throws < MaxThrows
    /\ throws' = throws + 1
    /\ \E m \in inbox[j] :
          /\ m.delay = 0
          /\ inbox' = [inbox EXCEPT ![j] = (@ \ {m}) \cup
                          (IF m.tries < MaxRetries
                           THEN {Message(0, m.tries + 1)} ELSE {})]
    /\ UNCHANGED <<accountVars, deletionVars, exportVars, job, call, deaths>>

\* The second statement of a claim, which does not repeat the token.
MarkRunning(c) ==
    /\ At(c, "start")
    /\ LET j == call[c].job
           Running(r) == IF r.status = "queued"
                         THEN [r EXCEPT !.status = "running"] ELSE r
       IN IF j = Deletion
          THEN del' = Running(del) /\ req' = req
          ELSE del' = del /\ req' = [req EXCEPT ![j] = Running(@)]
    /\ Goto(c, "load")
    /\ UNCHANGED <<accountVars, command, object, job, inbox, faultVars>>

LoadExport(c) ==
    /\ At(c, "load") /\ call[c].job # Deletion
    /\ IF Holds(c) /\ req[call[c].job].status # "absent" /\ keys
       THEN Goto(c, "build") /\ inbox' = inbox
       ELSE Redeliver(c)
    /\ UNCHANGED <<accountVars, deletionVars, exportVars, job, faultVars>>

FirstStep(cp) == IF cp = Accepted THEN "liveCheck" ELSE "probe"

LoadDeletion(c) ==
    /\ At(c, "load") /\ call[c].job = Deletion
    /\ IF Holds(c)
       THEN /\ call' = [call EXCEPT ![c].checkpoint = del.checkpoint,
                                    ![c].pc = IF del.checkpoint = KeysErased
                                              THEN "probe" ELSE "decrypt"]
            /\ inbox' = inbox
       ELSE Redeliver(c)
    /\ UNCHANGED <<accountVars, deletionVars, exportVars, job, faultVars>>
-----------------------------------------------------------------------------
(* processExportMessage.                                                   *)

SealExport(c) == /\ At(c, "build")
                 /\ \/ Goto(c, "check")
                    \/ Goto(c, "fail")      \* ExportTooLargeError
                 /\ UNCHANGED <<accountVars, deletionVars, exportVars, job, inbox,
                                faultVars>>

\* Mutant: the owner's status is not asked for.
CanPublishForAnyOwner(c) == req[call[c].job].status = "running" /\ Holds(c)

CanPublish(c) == /\ req[call[c].job].status = "running"
                 /\ user = "active"
                 /\ Holds(c)

CheckExport(c) == /\ At(c, "check")
                  /\ IF CanPublish(c) THEN Goto(c, "head") ELSE End(c)
                  /\ UNCHANGED <<accountVars, deletionVars, exportVars, job, inbox,
                                 faultVars>>

\* A stored object of a later attempt makes this publication stale.
HeadExport(c) ==
    /\ At(c, "head")
    /\ LET stored == object[call[c].job]
       IN IF stored > call[c].attempt
          THEN End(c)
          ELSE call' = [call EXCEPT ![c].pc = "put", ![c].etag = stored]
    /\ UNCHANGED <<accountVars, deletionVars, exportVars, job, inbox, faultVars>>

\* Mutant: the PUT is unconditional.
PutBlindly(c) ==
    /\ At(c, "put")
    /\ object' = [object EXCEPT ![call[c].job] = call[c].attempt]
    /\ Goto(c, "publish")
    /\ UNCHANGED <<accountVars, deletionVars, req, job, inbox, faultVars>>

\* onlyIf the etag is the one that was seen; a lost race looks again.
PutExport(c) ==
    /\ At(c, "put")
    /\ LET x == call[c].job
       IN IF object[x] = call[c].etag
          THEN /\ object' = [object EXCEPT ![x] = call[c].attempt]
               /\ Goto(c, "publish")
          ELSE object' = object /\ Goto(c, "head")
    /\ UNCHANGED <<accountVars, deletionVars, req, job, inbox, faultVars>>

Settled(j, status) ==
    job' = [job EXCEPT ![j].status = status, ![j].lease = 0]

PublishExport(c) ==
    /\ At(c, "publish")
    /\ LET x == call[c].job
       IN IF CanPublish(c)
          THEN /\ req' = [req EXCEPT ![x] = [status |-> "ready",
                                             key |-> call[c].attempt,
                                             ttl |-> ExportTtl,
                                             cleaned |-> FALSE]]
               /\ Settled(x, "succeeded")
               /\ End(c)
          ELSE Goto(c, "ownerCheck") /\ UNCHANGED <<req, job>>
    /\ UNCHANGED <<accountVars, deletionVars, object, inbox, faultVars>>

\* Deletion owns the key of a fenced account; a late PUT must be removed.
CheckFencedOwner(c) ==
    /\ At(c, "ownerCheck")
    /\ IF user = "active" THEN End(c) ELSE Goto(c, "dropLate")
    /\ UNCHANGED <<accountVars, deletionVars, exportVars, job, inbox, faultVars>>

Remove(xs) == object' = [x \in Exports |-> IF x \in xs THEN 0 ELSE object[x]]

DropLateExport(c) ==
    /\ At(c, "dropLate")
    /\ Remove({call[c].job})
    /\ End(c)
    /\ UNCHANGED <<accountVars, deletionVars, req, job, inbox, faultVars>>

FailExport(c) ==
    /\ At(c, "fail")
    /\ LET x == call[c].job
       IN IF CanPublish(c)
          THEN /\ req' = [req EXCEPT ![x] = [NoRequest EXCEPT !.status = "failed"]]
               /\ Settled(x, "failed")
               /\ Goto(c, "dropFailed")
          ELSE End(c) /\ UNCHANGED <<req, job>>
    /\ UNCHANGED <<accountVars, deletionVars, object, inbox, faultVars>>

DropFailedExport(c) ==
    /\ \/ At(c, "dropFailed") /\ Goto(c, "markFailed")
       \/ At(c, "cleanDrop") /\ Goto(c, "cleanMark")
    /\ Remove({call[c].job})
    /\ UNCHANGED <<accountVars, deletionVars, req, job, inbox, faultVars>>

MarkFailedExport(c) ==
    /\ At(c, "markFailed") \/ At(c, "cleanMark")
    /\ LET x == call[c].job
       IN req' = [req EXCEPT ![x].cleaned = @ \/ req[x].status = "failed"]
    /\ End(c)
    /\ UNCHANGED <<accountVars, deletionVars, object, job, inbox, faultVars>>

Released(j) == job' = [job EXCEPT ![j].status = "queued", ![j].lease = 0,
                                  ![j].wait = RetryDelay, ![j].sent = FALSE]

ReleaseExport(c) ==
    /\ At(c, "releaseExport")
    /\ LET x == call[c].job
       IN IF CanPublish(c)
          THEN /\ req' = [req EXCEPT ![x].status = "queued"]
               /\ Released(x)
               /\ Retry(c, RetryDelay)
          ELSE UNCHANGED <<req, job, inbox>>
    /\ End(c)
    /\ UNCHANGED <<accountVars, deletionVars, object, faultVars>>

ThrowInExport(c) ==
    /\ call[c].pc \in {"build", "check", "head", "put", "publish", "ownerCheck",
                       "dropLate"}
    /\ throws < MaxThrows
    /\ throws' = throws + 1
    /\ Goto(c, IF call[c].attempt >= MaxAttempts THEN "fail" ELSE "releaseExport")
    /\ UNCHANGED <<accountVars, deletionVars, exportVars, job, inbox, deaths>>
-----------------------------------------------------------------------------
(* processDeletionMessage.                                                 *)

\* The request and its job are running under this call's token.
OwnsDeletion(c) == Holds(c) /\ del.status = "running"

\* The command cannot be opened once the keys are erased; this is outside
\* the try of the consumer.
DecryptCommand(c) ==
    /\ At(c, "decrypt")
    /\ IF keys THEN Goto(c, FirstStep(call[c].checkpoint)) /\ inbox' = inbox
               ELSE Redeliver(c)
    /\ UNCHANGED <<accountVars, deletionVars, exportVars, job, faultVars>>

\* Where processDeletionMessage goes on with a checkpoint in memory.
StepAfter(cp) == CASE cp = ExportsFenced -> "collectAgain"
                   [] cp = ObjectsDeleted -> "deleteRows"
                   [] cp = RowsDeleted -> "erase"
                   [] cp = KeysErased -> "finalize"

\* ensureAccountReplayReceipt.
ProbeClaim(c) ==
    /\ At(c, "probe")
    /\ Goto(c, IF Holds(c) THEN StepAfter(call[c].checkpoint)
                           ELSE "releaseDeletion")
    /\ UNCHANGED <<accountVars, deletionVars, exportVars, job, inbox, faultVars>>

\* fenceExports: a live export makes the deletion wait.
CheckLiveExport(c) ==
    /\ At(c, "liveCheck")
    /\ Goto(c, IF \E x \in Exports : job[x].status = "running" /\ job[x].lease > 0
               THEN "releaseDeletion" ELSE "collect")
    /\ UNCHANGED <<accountVars, deletionVars, exportVars, job, inbox, faultVars>>

\* collectDeletionArtifactKeys: the exports that have a row.
Registered == {x \in Exports : req[x].status # "absent"}

\* Mutant: the objects that exist are listed, not those that may still come.
CollectStoredKeys(c) ==
    /\ At(c, "collect") \/ At(c, "collectAgain")
    /\ call' = [call EXCEPT ![c].keys = {x \in Registered : object[x] # 0},
                            ![c].pc = IF @ = "collect" THEN "fence"
                                                       ELSE "dropObjects"]
    /\ UNCHANGED <<accountVars, deletionVars, exportVars, job, inbox, faultVars>>

CollectKeys(c) ==
    /\ At(c, "collect") \/ At(c, "collectAgain")
    /\ call' = [call EXCEPT ![c].keys = Registered,
                            ![c].pc = IF @ = "collect" THEN "fence"
                                                       ELSE "dropObjects"]
    /\ UNCHANGED <<accountVars, deletionVars, exportVars, job, inbox, faultVars>>

Cancelled(j) == IF j # Deletion /\ job[j].status \in {"queued", "running"}
                THEN [job[j] EXCEPT !.status = "cancelled", !.lease = 0]
                ELSE job[j]

FenceExports(c) ==
    /\ At(c, "fence")
    /\ IF OwnsDeletion(c)
       THEN /\ job' = [j \in Jobs |-> Cancelled(j)]
            /\ del' = [del EXCEPT !.checkpoint = ExportsFenced,
                                  !.manifest = call[c].keys,
                                  !.fence = IF call[c].keys = {} THEN 0
                                                                 ELSE FenceTtl]
            /\ call' = [call EXCEPT ![c].checkpoint = ExportsFenced,
                                    ![c].pc = StepAfter(ExportsFenced)]
       ELSE Goto(c, "releaseDeletion") /\ UNCHANGED <<job, del>>
    /\ UNCHANGED <<accountVars, command, exportVars, inbox, faultVars>>

DropRegisteredObjects(c) ==
    /\ At(c, "dropObjects")
    /\ Remove(call[c].keys)
    /\ Goto(c, "advance")
    /\ UNCHANGED <<accountVars, deletionVars, req, job, inbox, faultVars>>

\* deleteUserRows asks for no claim; the jobs go after the other tables.
DeleteUserRows(c) ==
    /\ At(c, "deleteRows")
    /\ rows' = FALSE
    /\ req' = [x \in Exports |-> NoRequest]
    /\ Goto(c, "deleteJobs")
    /\ UNCHANGED <<user, keys, fenceVars, deletionVars, object, job, inbox, faultVars>>

DeleteUserJobs(c) ==
    /\ At(c, "deleteJobs")
    /\ job' = [j \in Jobs |-> IF j = Deletion THEN job[j] ELSE NoJob]
    /\ Goto(c, "advance")
    /\ UNCHANGED <<accountVars, deletionVars, exportVars, inbox, faultVars>>

\* Mutant: the checkpoint is written without asking for the claim.
AdvanceUnclaimed(c) ==
    /\ At(c, "advance")
    /\ LET next == call[c].checkpoint + 1
       IN IF del.status = "running"
          THEN /\ del' = [del EXCEPT !.checkpoint = next]
               /\ call' = [call EXCEPT ![c].checkpoint = next,
                                       ![c].pc = StepAfter(next)]
          ELSE del' = del /\ End(c)
    /\ UNCHANGED <<accountVars, command, exportVars, job, inbox, faultVars>>

\* The checkpoint in memory moves with the row; a call that lost its claim
\* matches no further step and acknowledges.
Advance(c) ==
    /\ At(c, "advance")
    /\ LET next == call[c].checkpoint + 1
       IN IF OwnsDeletion(c)
          THEN /\ del' = [del EXCEPT !.checkpoint = next]
               /\ call' = [call EXCEPT ![c].checkpoint = next,
                                       ![c].pc = StepAfter(next)]
          ELSE del' = del /\ End(c)
    /\ UNCHANGED <<accountVars, command, exportVars, job, inbox, faultVars>>

\* The payload and the checkpoint ask for the claim, the keys do not.
EraseKeys(c) ==
    /\ At(c, "erase")
    /\ keys' = FALSE
    /\ command' = (command /\ ~Holds(c))
    /\ del' = IF OwnsDeletion(c)
              THEN [del EXCEPT !.checkpoint = KeysErased, !.dek = TRUE]
              ELSE del
    /\ call' = [call EXCEPT ![c].checkpoint = KeysErased, ![c].pc = "finalize"]
    /\ UNCHANGED <<user, rows, fenceVars, exportVars, job, inbox, faultVars>>

FinalizeDeletion(c) ==
    /\ At(c, "finalize")
    /\ IF Holds(c) /\ ~command
       THEN /\ user' = IF user = "pending" THEN "deleted" ELSE user
            /\ del' = IF del.status = "running" /\ del.dek
                      THEN [del EXCEPT !.status = "completed",
                                       !.checkpoint = Completed]
                      ELSE del
            /\ job' = [job EXCEPT ![Deletion] = NoJob]
            /\ End(c)
       ELSE Goto(c, "releaseDeletion") /\ UNCHANGED <<user, del, job>>
    /\ UNCHANGED <<keys, rows, fenceVars, command, exportVars, inbox, faultVars>>

ReleaseDeletion(c) ==
    /\ At(c, "releaseDeletion")
    /\ IF OwnsDeletion(c)
       THEN del' = [del EXCEPT !.status = "queued"] /\ Released(Deletion)
       ELSE UNCHANGED <<del, job>>
    /\ Retry(c, RetryDelay)
    /\ End(c)
    /\ UNCHANGED <<accountVars, command, exportVars, faultVars>>

ThrowInDeletion(c) ==
    /\ call[c].pc \in DeletionSteps \ {"decrypt", "releaseDeletion"}
    /\ throws < MaxThrows
    /\ throws' = throws + 1
    /\ Goto(c, "releaseDeletion")
    /\ UNCHANGED <<accountVars, deletionVars, exportVars, job, inbox, deaths>>
-----------------------------------------------------------------------------
(* runPrivacyMaintenance: one call per row that a lane selects.            *)

\* Shared by the cron and by a read of an elapsed export.
SelectExpired(c, x) ==
    /\ req[x].status = "ready" /\ req[x].ttl = 0
    /\ Begin(c, "expireDrop", x)
    /\ UNCHANGED <<accountVars, deletionVars, exportVars, job, inbox, faultVars>>

DropExpired(c) == /\ At(c, "expireDrop")
                  /\ Remove({call[c].job})
                  /\ Goto(c, "expireMark")
                  /\ UNCHANGED <<accountVars, deletionVars, req, job, inbox,
                                 faultVars>>

MarkExpired(c) ==
    /\ At(c, "expireMark")
    /\ LET x == call[c].job
       IN req' = IF req[x].status = "ready" /\ req[x].ttl = 0
                 THEN [req EXCEPT ![x].status = "expired", ![x].key = 0,
                                  ![x].cleaned = TRUE]
                 ELSE req
    /\ End(c)
    /\ UNCHANGED <<accountVars, deletionVars, object, job, inbox, faultVars>>

SelectFailed(c, x) ==
    /\ req[x].status = "failed" /\ ~req[x].cleaned
    /\ Begin(c, "cleanDrop", x)
    /\ UNCHANGED <<accountVars, deletionVars, exportVars, job, inbox, faultVars>>

\* etag remembers whether the fence had elapsed when the row was read.
SelectManifest(c) ==
    /\ del.manifest # {} /\ user \in {"pending", "deleted"}
    /\ At(c, "idle")
    /\ call' = [call EXCEPT ![c] = [Idle EXCEPT !.pc = "sweepDrop",
                                    !.keys = del.manifest,
                                    !.etag = IF del.fence = 0 THEN 1 ELSE 0]]
    /\ UNCHANGED <<accountVars, deletionVars, exportVars, job, inbox, faultVars>>

\* Mutant: the manifest is cleared by the first sweep, not by the last.
SweepOnce(c) ==
    /\ At(c, "sweepDrop")
    /\ Remove(call[c].keys)
    /\ Goto(c, "sweepClear")
    /\ UNCHANGED <<accountVars, deletionVars, req, job, inbox, faultVars>>

SweepObjects(c) ==
    /\ At(c, "sweepDrop")
    /\ Remove(call[c].keys)
    /\ IF call[c].etag = 1 THEN Goto(c, "sweepClear") ELSE End(c)
    /\ UNCHANGED <<accountVars, deletionVars, req, job, inbox, faultVars>>

ClearManifest(c) ==
    /\ At(c, "sweepClear")
    /\ del' = IF del.manifest = call[c].keys
              THEN [del EXCEPT !.manifest = {}] ELSE del
    /\ End(c)
    /\ UNCHANGED <<accountVars, command, exportVars, job, inbox, faultVars>>

\* Mutant: the lane of claims whose lease ran out is missing.
RecoverableIfQueued(j) == job[j].status = "queued" /\ ~job[j].sent /\ job[j].wait = 0

\* What the outbox lane of the cron looks for.
Recoverable(j) == \/ job[j].status = "queued" /\ ~job[j].sent /\ job[j].wait = 0
                  \/ job[j].status = "running" /\ job[j].lease = 0

SelectRecoverable(c, j) ==
    /\ Recoverable(j)
    /\ At(c, "idle")
    /\ call' = [call EXCEPT ![c] = [Idle EXCEPT !.pc = "recoverSend", !.job = j,
                                                !.row = job[j]]]
    /\ UNCHANGED <<accountVars, deletionVars, exportVars, job, inbox, faultVars>>

RecoverSend(c) ==
    /\ At(c, "recoverSend")
    /\ Post(call[c].job, Message(0, 0))
    /\ Goto(c, "recoverMark")
    /\ UNCHANGED <<accountVars, deletionVars, exportVars, job, faultVars>>

\* The conditions are repeated at the instant the pass began; a row that was
\* claimed in between has a later lease or delay.
RecoverMark(c) ==
    /\ At(c, "recoverMark")
    /\ LET j == call[c].job
       IN job' = IF Recoverable(j) /\ job[j] = call[c].row
                 THEN [job EXCEPT ![j].sent = TRUE] ELSE job
    /\ End(c)
    /\ UNCHANGED <<accountVars, deletionVars, exportVars, inbox, faultVars>>
-----------------------------------------------------------------------------
(* Data-key rotations, faults and time.                                    *)

\* startDekRotation installs the fence; the step that ends the rotation, or
\* that fails it before a key was made, lifts it.
Fence == /\ user = "active" /\ ~fenced
         /\ fenced' = TRUE
         /\ UNCHANGED <<user, keys, rows, turned, deletionVars, exportVars, job, inbox,
                        call, faultVars>>

Lift == /\ fenced
        /\ fenced' = FALSE
        /\ UNCHANGED <<user, keys, rows, turned, deletionVars, exportVars, job, inbox,
                       call, faultVars>>

\* The invocation is evicted; a message it was consuming comes back.
Die(c) == /\ ~At(c, "idle")
          /\ deaths < MaxDeaths
          /\ deaths' = deaths + 1
          /\ IF call[c].pc \in ConsumerSteps THEN Retry(c, 0)
                                             ELSE inbox' = inbox
          /\ End(c)
          /\ UNCHANGED <<accountVars, deletionVars, exportVars, job, throws>>

\* Mutant: the route goes on to the marker when the send has failed.
SendThrowsUnnoticed(c) ==
    /\ At(c, "send") \/ At(c, "recoverSend")
    /\ throws < MaxThrows
    /\ throws' = throws + 1
    /\ Goto(c, "mark")
    /\ UNCHANGED <<accountVars, deletionVars, exportVars, job, inbox, deaths>>

SendThrows(c) == /\ At(c, "send") \/ At(c, "recoverSend")
                 /\ throws < MaxThrows
                 /\ throws' = throws + 1
                 /\ End(c)
                 /\ UNCHANGED <<accountVars, deletionVars, exportVars, job, inbox,
                                deaths>>

\* Mutant: an instant that has passed goes on passing.
LessForever(n) == n - 1

Less(n) == IF n = 0 THEN 0 ELSE n - 1

\* Time passes; an invocation that has lived CallLife ends before it does.
Tick == /\ \A c \in Calls : At(c, "idle") \/ call[c].age < CallLife
        /\ job' = [j \in Jobs |-> [job[j] EXCEPT !.lease = Less(@), !.wait = Less(@)]]
        /\ req' = [x \in Exports |-> [req[x] EXCEPT !.ttl = Less(@)]]
        /\ del' = [del EXCEPT !.fence = Less(@)]
        /\ inbox' = [j \in Jobs |-> {[m EXCEPT !.delay = Less(@)] : m \in inbox[j]}]
        /\ call' = [c \in Calls |-> IF At(c, "idle") THEN call[c]
                                    ELSE [call[c] EXCEPT !.age = @ + 1]]
        /\ UNCHANGED <<accountVars, command, object, faultVars>>
-----------------------------------------------------------------------------
RouteStep(c) == Send(c) \/ Mark(c)
ClaimStep(c) == MarkRunning(c) \/ LoadExport(c) \/ LoadDeletion(c)
ExportStep(c) == \/ SealExport(c) \/ CheckExport(c) \/ HeadExport(c) \/ PutExport(c)
                 \/ PublishExport(c) \/ CheckFencedOwner(c) \/ DropLateExport(c)
                 \/ FailExport(c) \/ DropFailedExport(c) \/ MarkFailedExport(c)
                 \/ ReleaseExport(c)
DeletionStep(c) == \/ DecryptCommand(c) \/ ProbeClaim(c) \/ CheckLiveExport(c)
                   \/ CollectKeys(c) \/ FenceExports(c) \/ DropRegisteredObjects(c)
                   \/ DeleteUserRows(c) \/ DeleteUserJobs(c) \/ Advance(c)
                   \/ EraseKeys(c) \/ FinalizeDeletion(c) \/ ReleaseDeletion(c)
MaintenanceStep(c) == \/ DropExpired(c) \/ MarkExpired(c) \/ SweepObjects(c)
                      \/ ClearManifest(c) \/ RecoverSend(c) \/ RecoverMark(c)
CallStep(c) == \/ RouteStep(c) \/ ClaimStep(c) \/ ExportStep(c) \/ DeletionStep(c)
               \/ MaintenanceStep(c)
Fault(c) == ThrowInExport(c) \/ ThrowInDeletion(c) \/ Die(c) \/ SendThrows(c)

Start(c) == \/ ReserveDeletion(c) \/ SelectManifest(c)
            \/ \E x \in Exports : \/ ReserveExport(c, x) \/ SelectExpired(c, x)
                                  \/ SelectFailed(c, x)
            \/ \E j \in Jobs : ClaimJob(c, j) \/ SelectRecoverable(c, j)

Next == \/ \E c \in Calls : CallStep(c) \/ Start(c) \/ Fault(c)
        \/ \E j \in Jobs : IgnoreMessage(j) \/ ClaimThrows(j)
        \/ Fence \/ Lift
        \/ Tick

Spec == Init /\ [][Next]_vars
-----------------------------------------------------------------------------
(* Properties.                                                             *)

JobType == [status : {"absent", "queued", "running", "succeeded", "failed",
                      "cancelled"},
            attempts : Nat, lease : Nat, wait : Nat, sent : BOOLEAN]
CallType == [pc : Steps \cup {"idle"}, job : Jobs, tries : Nat, attempt : Nat,
             checkpoint : Accepted .. Completed, keys : SUBSET Exports,
             etag : Nat, row : JobType, age : Nat]

\* The shape of the state; the tables of apps/api/src/db and the bucket.
TypeOK ==
    /\ user \in {"active", "pending", "deleted"}
    /\ keys \in BOOLEAN /\ rows \in BOOLEAN /\ command \in BOOLEAN
    /\ fenced \in BOOLEAN /\ turned \subseteq Exports
    /\ job \in [Jobs -> JobType]
    /\ req \in [Exports -> [status : {"absent", "queued", "running", "ready",
                                     "failed", "expired"},
                            key : Nat, ttl : Nat, cleaned : BOOLEAN]]
    /\ del \in [status : {"absent", "queued", "running", "completed"},
               checkpoint : Accepted .. Completed, dek : BOOLEAN,
               manifest : SUBSET Exports, fence : Nat]
    /\ object \in [Exports -> Nat]
    /\ inbox \in [Jobs -> SUBSET [delay : Nat, tries : Nat]]
    /\ call \in [Calls -> CallType]
    /\ deaths \in Nat /\ throws \in Nat

\* An export that a download may still open has the object that was sealed
\* under the key of its row, whatever a displaced attempt, a failed one or a
\* cleanup was doing to the same R2 key (putExportArtifact's CAS).
ReadyIsServed == \A x \in Exports :
    (user = "active" /\ req[x].status = "ready" /\ req[x].ttl > 0)
        => (object[x] = req[x].key /\ req[x].key > 0)

\* Once the exports are fenced, an object of the account is on the manifest
\* that the cron deletes again and again: a PUT that lands late cannot hide
\* (fenceExports, cleanupDeletionArtifacts).
LateObjectsAreListed == \A x \in Exports :
    (del.checkpoint >= ExportsFenced /\ object[x] # 0) => x \in del.manifest

\* A queued job that may run has a copy of its message on the way, or the
\* outbox lane can see it (markPrivacyDispatched against releaseExportClaim
\* and releaseDeletionClaim), unless a fence turned its message away.
QueuedJobHasWaker == \A j \in Jobs \ turned :
    (job[j].status = "queued" /\ Owned(j)) => (inbox[j] # {} \/ ~job[j].sent)

\* user-dek-rotation.md:35 says that work remains available for reclaim after
\* the account is restored.
QueuedExportOutlivesFence == \A x \in Exports :
    (job[x].status = "queued" /\ OwnerAdmits(x)) => (inbox[x] # {} \/ ~job[x].sent)

\* The recorded checkpoint never goes back, whichever of several claimants
\* writes it (advanceDeletionCheckpoint).
CheckpointsAdvance == [][del'.checkpoint >= del.checkpoint]_vars

\* A download opens a ready, unexpired row with the object it was sealed for.
Readable == {x \in Exports : /\ req[x].status = "ready" /\ req[x].ttl > 0
                            /\ object[x] = req[x].key}
Phase == CASE user = "active" -> "open"
           [] user = "pending" -> "closing"
           [] user = "deleted" -> "erased"

\* The workflows implement the promise of Erasure: no export becomes readable
\* once deletion was requested, and the account is tombstoned only when rows,
\* keys and exports are gone.
Promise == INSTANCE Erasure WITH phase <- Phase, readable <- Readable,
                                 data <- rows \/ keys
KeepsErasurePromise == Promise!ErasureSpec

\* account-deletion.ts says that once key erasure has committed, the command
\* no longer exists and the next claim resumes from the clear checkpoint.
ErasureIsCheckpointed ==
    (~keys /\ job[Deletion].status # "absent") => del.checkpoint = KeysErased

\* privacy-jobs.ts says that nothing sealed for an export that failed may
\* survive, whatever an earlier delivery wrote under the deterministic key.
FailedExportIsRemoved == \A x \in Exports :
    (req[x].status = "failed" /\ req[x].cleaned) => object[x] = 0
-----------------------------------------------------------------------------
(* Fairness: the platform runs an invocation to its end, delivers a message *)
(* that stays deliverable and fires the cron.  Strong fairness where all   *)
(* the call slots of an instance may be taken by others in between.        *)

Fairness ==
    /\ WF_vars(Tick)
    /\ \A c \in Calls : WF_vars(CallStep(c))
    /\ SF_vars(\E c \in Calls : SelectManifest(c))
    /\ \A j \in Jobs : /\ SF_vars(\E c \in Calls : ClaimJob(c, j))
                      /\ SF_vars(\E c \in Calls : SelectRecoverable(c, j))
FairSpec == Spec /\ Fairness

\* A displaced call erased the keys: they ask for no claim, the checkpoint
\* does, and no claim after it can open the command.
ErasedUnderClaim ==
    /\ ~keys /\ job[Deletion].status # "absent" /\ del.checkpoint < KeysErased
    /\ \A c \in Calls : call[c].pc \in DeletionSteps \ {"decrypt"} => ~OwnsDeletion(c)

\* A requested deletion completes, through evicted invocations, operations
\* that throw, dead-lettered messages and displaced claims, unless a displaced
\* call erased the keys before the call that holds the claim could.
DeletionCompletes == (user = "pending") ~> (user = "deleted" \/ ErasedUnderClaim)

\* Nothing of a deleted account stays in the bucket.
BucketIsEmptied == (user = "deleted") ~> [](\A x \in Exports : object[x] = 0)

\* A requested export is answered: ready, failed, cancelled or erased; unless
\* a fence turns its message away, or rotations come for ever.
ExportsAreAnswered == \A x \in Exports :
    (job[x].status = "queued")
        ~> (job[x].status \notin {"queued", "running"} \/ x \in turned
            \/ []<>fenced)
=============================================================================
