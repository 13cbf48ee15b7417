----------------------- MODULE PrivacyWorkflows_proofs -----------------------
(***************************************************************************)
(* What the runs show of account deletion and privacy exports for one or   *)
(* two exports and two invocations, proved for every number of them, every *)
(* lease, delay and lifetime and any number of claims, deaths and throws.  *)
(***************************************************************************)
EXTENDS PrivacyWorkflows, TLAPS

-----------------------------------------------------------------------------
(* The invariant.  Its parts speak of an invocation as the record k.       *)

\* The claim that k carries is the current one.
HeldBy(k) == job[k.job].status = "running" /\ job[k.job].attempts = k.attempt

\* The checkpoints that a call has in memory at a step.
CheckpointsAt(pc) ==
  CASE pc = "decrypt" -> Accepted .. RowsDeleted
    [] pc = "probe" -> ExportsFenced .. KeysErased
    [] pc \in {"liveCheck", "collect", "fence"} -> {Accepted}
    [] pc \in {"collectAgain", "dropObjects"} -> {ExportsFenced}
    [] pc \in {"deleteRows", "deleteJobs"} -> {ObjectsDeleted}
    [] pc = "advance" -> {ExportsFenced, ObjectsDeleted}
    [] pc = "erase" -> {RowsDeleted}
    [] pc = "finalize" -> {KeysErased}
    [] OTHER -> Accepted .. Completed

ExportWork == ExportSteps \cup {"expireDrop", "expireMark", "cleanDrop", "cleanMark"}

\* The deletion that k performs has got past the rows.
PastRows(k) == /\ k.pc \in DeletionSteps
               /\ \/ k.checkpoint >= RowsDeleted
                  \/ k.pc = "deleteJobs"
                  \/ k.pc = "advance" /\ k.checkpoint = ObjectsDeleted

\* What k has at its step, and what it has done of the deletion by then.
StepOK(k) ==
  /\ k.pc \in DeletionSteps => k.job = Deletion /\ k.checkpoint \in CheckpointsAt(k.pc)
  /\ k.pc \in ExportWork => k.job \in Exports
  /\ k.pc \in ConsumerSteps => k.attempt > 0
  /\ k.pc = "put" => k.etag <= k.attempt
  /\ k.pc \in DeletionSteps \cup {"dropLate", "sweepDrop", "sweepClear"} => user # "active"
  /\ k.pc \in {"start", "load"} /\ k.job = Deletion => user # "active"
  /\ PastRows(k) => ~rows
  /\ k.pc \in DeletionSteps /\ k.checkpoint >= KeysErased => ~keys

\* A job that was deleted with its account is not made again.
Gone(j) == user # "active" /\ job[j].status = "absent"

\* Attempts are tokens: none is ahead of its job and no two calls have the same.
AttemptOK(k) == k.pc \in ConsumerSteps => k.attempt <= job[k.job].attempts \/ Gone(k.job)
TokensDiffer == \A c, d \in Calls :
  /\ call[c].pc \in ConsumerSteps /\ call[d].pc \in ConsumerSteps
  /\ call[c].job = call[d].job /\ call[c].attempt = call[d].attempt
  => c = d

\* The checkpoint of the row is not ahead of the one in its owner's memory.
OwnerOK(k) == k.pc \in DeletionSteps /\ HeldBy(k) => del.checkpoint <= k.checkpoint

\* The attempt that made a request ready is over.
Early == {"start", "load", "build", "check", "head", "put", "publish"}
KeyOK(k) == k.pc \in Early /\ k.job \in Exports /\ req[k.job].status = "ready"
              => k.attempt # req[k.job].key

\* While the account is open, who is about to remove an object does it for a
\* request that is not to be served, and who is about to publish has stored it.
ObjectOK(k) == user = "active" =>
  /\ k.pc \in {"dropFailed", "markFailed", "cleanDrop", "cleanMark"}
       => job[k.job].status = "failed"
  /\ k.pc \in {"expireDrop", "expireMark"}
       => job[k.job].status = "succeeded" /\ (req[k.job].status = "ready" => req[k.job].ttl = 0)
  /\ k.pc = "publish" /\ HeldBy(k) => object[k.job] = k.attempt

CallOK(k) == StepOK(k) /\ AttemptOK(k) /\ OwnerOK(k) /\ KeyOK(k) /\ ObjectOK(k)

\* Nothing comes back: neither the account, nor its rows, nor its keys.
AccountOK ==
  /\ ~rows => user # "active" /\ \A x \in Exports : req[x].status = "absent"
  /\ ~keys => user # "active"
  /\ user = "deleted" => ~rows /\ ~keys
  /\ user = "active" => del.checkpoint = Accepted
  /\ del.checkpoint >= RowsDeleted => ~rows
  /\ del.checkpoint >= KeysErased => ~keys
  /\ del.checkpoint = Completed => job[Deletion].status = "absent"

\* A request that was answered has a job that ended, and a ready one the
\* object that its row names, as long as the account is open.
AnsweredOK(x) ==
  /\ req[x].status = "ready" => req[x].key > 0
  /\ user = "active" =>
       /\ req[x].status = "failed" => job[x].status = "failed"
       /\ req[x].status = "ready" => job[x].status = "succeeded" /\ req[x].key = job[x].attempts
       /\ req[x].status = "ready" /\ req[x].ttl > 0 => object[x] = req[x].key

Inv == /\ TypeOK /\ AccountOK /\ TokensDiffer
       /\ \A c \in Calls : CallOK(call[c])
       /\ \A x \in Exports : AnsweredOK(x)
-----------------------------------------------------------------------------
(* Types.                                                                  *)

MessageType == [delay : Nat, tries : Nat]
RequestType == [status : {"absent", "queued", "running", "ready", "failed", "expired"},
                key : Nat, ttl : Nat, cleaned : BOOLEAN]
DeletionType == [status : {"absent", "queued", "running", "completed"},
                 checkpoint : Accepted .. Completed, dek : BOOLEAN,
                 manifest : SUBSET Exports, fence : Nat]

\* TypeOK, as what follows reads it, and the checkpoints, which are numbers.
LEMMA Typing ==
  ASSUME TypeOK
  PROVE  /\ user \in {"active", "pending", "deleted"}
         /\ keys \in BOOLEAN /\ rows \in BOOLEAN /\ command \in BOOLEAN
         /\ job \in [Jobs -> JobType] /\ req \in [Exports -> RequestType]
         /\ del \in DeletionType /\ object \in [Exports -> Nat]
         /\ inbox \in [Jobs -> SUBSET MessageType] /\ call \in [Calls -> CallType]
         /\ fenced \in BOOLEAN /\ turned \subseteq Exports
         /\ deaths \in Nat /\ throws \in Nat
BY DEF TypeOK, RequestType, DeletionType, MessageType

\* The converse.
LEMMA Typed ==
  ASSUME user \in {"active", "pending", "deleted"},
         keys \in BOOLEAN, rows \in BOOLEAN, command \in BOOLEAN,
         job \in [Jobs -> JobType], req \in [Exports -> RequestType],
         del \in DeletionType, object \in [Exports -> Nat],
         inbox \in [Jobs -> SUBSET MessageType], call \in [Calls -> CallType],
         fenced \in BOOLEAN, turned \subseteq Exports,
         deaths \in Nat, throws \in Nat
  PROVE  TypeOK
BY DEF TypeOK, RequestType, DeletionType, MessageType

\* What is assumed of the constants, and the values that things start from.
LEMMA Beginnings ==
  /\ Deletion \notin Exports /\ Deletion \in Jobs /\ Exports \subseteq Jobs
  /\ \A j \in Jobs : j # Deletion => j \in Exports
  /\ Lease \in Nat /\ RetryDelay \in Nat /\ ExportTtl \in Nat /\ FenceTtl \in Nat
  /\ MaxRetries \in Nat /\ MaxAttempts \in Nat /\ MaxClaims \in Nat
  /\ MaxDeaths \in Nat /\ MaxThrows \in Nat
  /\ NoJob \in JobType /\ Queued \in JobType /\ NoRequest \in RequestType
  /\ NoDeletion \in DeletionType /\ Idle \in CallType /\ Idle.pc = "idle"
  /\ NoJob.status = "absent" /\ Queued.status = "queued" /\ Queued.attempts = 0
<1>1. /\ Deletion \notin Exports /\ Deletion \in Jobs /\ Exports \subseteq Jobs
      /\ \A j \in Jobs : j # Deletion => j \in Exports
  BY PrivacyAssumption DEF Jobs
<1>2. /\ Lease \in Nat /\ RetryDelay \in Nat /\ ExportTtl \in Nat /\ FenceTtl \in Nat
      /\ MaxRetries \in Nat /\ MaxAttempts \in Nat /\ MaxClaims \in Nat
      /\ MaxDeaths \in Nat /\ MaxThrows \in Nat
  BY PrivacyAssumption
<1>3. /\ NoJob \in JobType /\ Queued \in JobType
      /\ NoJob.status = "absent" /\ Queued.status = "queued" /\ Queued.attempts = 0
  BY DEF NoJob, Queued, JobType
<1>4. NoRequest \in RequestType /\ NoDeletion \in DeletionType
  BY DEF NoRequest, NoDeletion, RequestType, DeletionType, Accepted, Completed
<1>5. Idle \in CallType /\ Idle.pc = "idle"
  BY <1>1, <1>3 DEF Idle, CallType, Accepted, Completed
<1> QED BY <1>1, <1>2, <1>3, <1>4, <1>5

\* One call moves to the record k and the others do not.
MovesTo(c, k) == /\ call' \in [Calls -> CallType] /\ call'[c] = k
                 /\ \A d \in Calls \ {c} : call'[d] = call[d]

\* The three ways in which actions write a call.
LEMMA Moving ==
  ASSUME call \in [Calls -> CallType], NEW c \in Calls
  PROVE  /\ \A k \in CallType : call' = [call EXCEPT ![c] = k] => MovesTo(c, k)
         /\ \A pc \in Steps : Goto(c, pc) => MovesTo(c, [call[c] EXCEPT !.pc = pc])
         /\ End(c) => MovesTo(c, Idle)
<1>1. \A k \in CallType : call' = [call EXCEPT ![c] = k] => MovesTo(c, k)
  BY DEF MovesTo
<1>2. ASSUME NEW pc \in Steps, Goto(c, pc) PROVE MovesTo(c, [call[c] EXCEPT !.pc = pc])
  <2>1. [call[c] EXCEPT !.pc = pc] \in CallType
    BY DEF CallType
  <2>2. call' = [call EXCEPT ![c] = [call[c] EXCEPT !.pc = pc]]
    BY <1>2 DEF Goto
  <2> QED BY <1>1, <2>1, <2>2
<1>3. End(c) => MovesTo(c, Idle)
  BY <1>1, Beginnings DEF End
<1> QED BY <1>1, <1>2, <1>3

\* What a call has at its step, read off its type.
LEMMA CallTyping ==
  ASSUME NEW k \in CallType
  PROVE  /\ k.pc \in Steps \cup {"idle"} /\ k.job \in Jobs /\ k.tries \in Nat
         /\ k.attempt \in Nat /\ k.checkpoint \in 0 .. 5 /\ k.checkpoint \in Int
         /\ k.keys \subseteq Exports /\ k.etag \in Nat /\ k.age \in Nat
         /\ \A pc \in Steps : [k EXCEPT !.pc = pc] \in CallType
BY DEF CallType, Accepted, Completed

\* Messages that are posted keep the shape of the queue.
LEMMA Posting ==
  ASSUME TypeOK, NEW c \in Calls, NEW delay \in Nat
  PROVE  /\ Retry(c, delay) => inbox' \in [Jobs -> SUBSET MessageType]
         /\ Post(call[c].job, Message(0, 0)) => inbox' \in [Jobs -> SUBSET MessageType]
<1>1. call[c].job \in Jobs /\ call[c].tries \in Nat
  BY Typing, CallTyping
<1>2. \A m \in MessageType : Post(call[c].job, m) => inbox' \in [Jobs -> SUBSET MessageType]
  BY <1>1, Typing DEF Post
<1>3. Message(delay, call[c].tries + 1) \in MessageType /\ Message(0, 0) \in MessageType
  BY <1>1 DEF Message, MessageType
<1> QED BY <1>2, <1>3, Typing DEF Retry
-----------------------------------------------------------------------------
(* What each action does to its call.                                      *)

Goes(c, pc) == MovesTo(c, [call[c] EXCEPT !.pc = pc])
Ends(c) == MovesTo(c, Idle)

\* The routes and the claims.
LEMMA ClaimCalls ==
  ASSUME TypeOK, NEW c \in Calls
  PROVE  /\ Send(c) => At(c, "send") /\ Goes(c, "mark")
         /\ Mark(c) => At(c, "mark") /\ Ends(c)
         /\ MarkRunning(c) => At(c, "start") /\ Goes(c, "load")
         /\ LoadExport(c) => /\ At(c, "load") /\ call[c].job # Deletion
                             /\ Goes(c, "build") \/ Ends(c)
         /\ LoadDeletion(c) =>
              /\ At(c, "load") /\ call[c].job = Deletion
              /\ \/ Ends(c)
                 \/ /\ Holds(c)
                    /\ MovesTo(c, [call[c] EXCEPT !.checkpoint = del.checkpoint,
                                     !.pc = IF del.checkpoint = KeysErased THEN "probe"
                                            ELSE "decrypt"])
<1>m. /\ call \in [Calls -> CallType]
      /\ \A k \in CallType : call' = [call EXCEPT ![c] = k] => MovesTo(c, k)
      /\ \A pc \in Steps : Goto(c, pc) => Goes(c, pc)
      /\ End(c) => Ends(c)
  BY Typing, Moving DEF Goes, Ends
<1>s. {"mark", "load", "build", "probe", "decrypt"} \subseteq Steps
  BY DEF Steps, RouteSteps, ConsumerSteps, ExportSteps, DeletionSteps
<1>1. Send(c) => At(c, "send") /\ Goes(c, "mark")
  BY <1>m, <1>s DEF Send
<1>2. Mark(c) => At(c, "mark") /\ Ends(c)
  BY <1>m DEF Mark
<1>3. MarkRunning(c) => At(c, "start") /\ Goes(c, "load")
  BY <1>m, <1>s DEF MarkRunning
<1>4. LoadExport(c) => /\ At(c, "load") /\ call[c].job # Deletion
                       /\ Goes(c, "build") \/ Ends(c)
  BY <1>m, <1>s DEF LoadExport, Redeliver
<1>5. ASSUME LoadDeletion(c), ~Ends(c)
      PROVE  /\ Holds(c)
             /\ MovesTo(c, [call[c] EXCEPT !.checkpoint = del.checkpoint,
                              !.pc = IF del.checkpoint = KeysErased THEN "probe" ELSE "decrypt"])
  <2> DEFINE pc == IF del.checkpoint = KeysErased THEN "probe" ELSE "decrypt"
             k == [call[c] EXCEPT !.checkpoint = del.checkpoint, !.pc = pc]
  <2>1. Holds(c) /\ call' = [call EXCEPT ![c].checkpoint = del.checkpoint, ![c].pc = pc]
    BY <1>5, <1>m DEF LoadDeletion, Redeliver
  <2>2. pc \in Steps /\ del.checkpoint \in Accepted .. Completed
    BY <1>s, Typing DEF DeletionType
  <2> HIDE DEF pc
  <2>3. k \in CallType
    BY <2>2, <1>m DEF CallType
  <2>4. call' = [call EXCEPT ![c] = k]
    BY <2>1, <1>m
  <2>5. MovesTo(c, k)
    BY <2>3, <2>4, <1>m
  <2> QED BY <2>1, <2>5 DEF pc
<1>6. LoadDeletion(c) => At(c, "load") /\ call[c].job = Deletion
  BY DEF LoadDeletion
<1> QED BY <1>1, <1>2, <1>3, <1>4, <1>5, <1>6

\* The export consumer.
LEMMA ExportCalls ==
  ASSUME TypeOK, NEW c \in Calls, StepOK(call[c])
  PROVE  /\ SealExport(c) => At(c, "build") /\ (Goes(c, "check") \/ Goes(c, "fail"))
         /\ CheckExport(c) => At(c, "check") /\ (Goes(c, "head") \/ Ends(c))
         /\ HeadExport(c) =>
              /\ At(c, "head")
              /\ \/ Ends(c)
                 \/ /\ object[call[c].job] <= call[c].attempt
                    /\ MovesTo(c, [call[c] EXCEPT !.pc = "put", !.etag = object[call[c].job]])
         /\ PutExport(c) =>
              /\ At(c, "put")
              /\ \/ /\ object[call[c].job] = call[c].etag
                    /\ object' = [object EXCEPT ![call[c].job] = call[c].attempt]
                    /\ Goes(c, "publish")
                 \/ object' = object /\ Goes(c, "head")
         /\ PublishExport(c) => /\ At(c, "publish")
                                /\ \/ CanPublish(c) /\ Ends(c)
                                   \/ Goes(c, "ownerCheck") /\ UNCHANGED <<req, job>>
         /\ CheckFencedOwner(c) => /\ At(c, "ownerCheck")
                                   /\ Ends(c) \/ (user # "active" /\ Goes(c, "dropLate"))
         /\ DropLateExport(c) => At(c, "dropLate") /\ Ends(c)
         /\ FailExport(c) => /\ At(c, "fail")
                             /\ \/ CanPublish(c) /\ Goes(c, "dropFailed")
                                \/ Ends(c) /\ UNCHANGED <<req, job>>
         /\ DropFailedExport(c) => \/ At(c, "dropFailed") /\ Goes(c, "markFailed")
                                   \/ At(c, "cleanDrop") /\ Goes(c, "cleanMark")
         /\ MarkFailedExport(c) => (At(c, "markFailed") \/ At(c, "cleanMark")) /\ Ends(c)
         /\ ReleaseExport(c) => At(c, "releaseExport") /\ Ends(c)
<1>m. /\ call \in [Calls -> CallType]
      /\ \A k \in CallType : call' = [call EXCEPT ![c] = k] => MovesTo(c, k)
      /\ \A pc \in Steps : Goto(c, pc) => Goes(c, pc)
      /\ End(c) => Ends(c)
  BY Typing, Moving DEF Goes, Ends
<1>s. {"check", "fail", "head", "put", "publish", "ownerCheck", "dropLate", "dropFailed",
       "markFailed", "cleanMark"} \subseteq Steps
  BY DEF Steps, ConsumerSteps, ExportSteps, MaintenanceSteps
<1>1. SealExport(c) => At(c, "build") /\ (Goes(c, "check") \/ Goes(c, "fail"))
  BY <1>m, <1>s DEF SealExport
<1>2. CheckExport(c) => At(c, "check") /\ (Goes(c, "head") \/ Ends(c))
  BY <1>m, <1>s DEF CheckExport
<1>3. HeadExport(c) => At(c, "head")
  BY DEF HeadExport
<1>4. ASSUME HeadExport(c), ~Ends(c)
      PROVE  /\ object[call[c].job] <= call[c].attempt
             /\ MovesTo(c, [call[c] EXCEPT !.pc = "put", !.etag = object[call[c].job]])
  <2> DEFINE stored == object[call[c].job]
             k == [call[c] EXCEPT !.pc = "put", !.etag = stored]
  <2>1. ~(stored > call[c].attempt) /\ call' = [call EXCEPT ![c].pc = "put", ![c].etag = stored]
    BY <1>4, <1>m DEF HeadExport
  <2>2. call[c].job \in Exports
    BY <1>4 DEF HeadExport, StepOK, At, ExportWork, ExportSteps
  <2>3. stored \in Nat /\ call[c].attempt \in Nat
    BY <1>m, <2>2, Typing, CallTyping
  <2> HIDE DEF stored
  <2>4. k \in CallType
    BY <2>3, <1>m, <1>s DEF CallType
  <2>5. call' = [call EXCEPT ![c] = k]
    BY <2>1, <1>m
  <2>6. MovesTo(c, k)
    BY <2>4, <2>5, <1>m
  <2> QED BY <2>1, <2>3, <2>6 DEF stored
<1>5. PutExport(c) =>
        /\ At(c, "put")
        /\ \/ /\ object[call[c].job] = call[c].etag
              /\ object' = [object EXCEPT ![call[c].job] = call[c].attempt]
              /\ Goes(c, "publish")
           \/ object' = object /\ Goes(c, "head")
  BY <1>m, <1>s DEF PutExport
<1>6. PublishExport(c) => /\ At(c, "publish")
                          /\ \/ CanPublish(c) /\ Ends(c)
                             \/ Goes(c, "ownerCheck") /\ UNCHANGED <<req, job>>
  BY <1>m, <1>s DEF PublishExport
<1>7. CheckFencedOwner(c) => /\ At(c, "ownerCheck")
                             /\ Ends(c) \/ (user # "active" /\ Goes(c, "dropLate"))
  BY <1>m, <1>s DEF CheckFencedOwner
<1>8. /\ DropLateExport(c) => At(c, "dropLate") /\ Ends(c)
      /\ MarkFailedExport(c) => (At(c, "markFailed") \/ At(c, "cleanMark")) /\ Ends(c)
      /\ ReleaseExport(c) => At(c, "releaseExport") /\ Ends(c)
  BY <1>m DEF DropLateExport, MarkFailedExport, ReleaseExport
<1>9. FailExport(c) => /\ At(c, "fail")
                       /\ \/ CanPublish(c) /\ Goes(c, "dropFailed")
                          \/ Ends(c) /\ UNCHANGED <<req, job>>
  BY <1>m, <1>s DEF FailExport
<1>10. DropFailedExport(c) => \/ At(c, "dropFailed") /\ Goes(c, "markFailed")
                              \/ At(c, "cleanDrop") /\ Goes(c, "cleanMark")
  BY <1>m, <1>s DEF DropFailedExport
<1> QED BY <1>1, <1>2, <1>3, <1>4, <1>5, <1>6, <1>7, <1>8, <1>9, <1>10

\* The deletion consumer.
LEMMA DeletionCalls ==
  ASSUME TypeOK, NEW c \in Calls, StepOK(call[c])
  PROVE  /\ DecryptCommand(c) => /\ At(c, "decrypt")
                                 /\ Ends(c) \/ Goes(c, FirstStep(call[c].checkpoint))
         /\ ProbeClaim(c) => /\ At(c, "probe")
                             /\ \/ Goes(c, "releaseDeletion")
                                \/ Goes(c, StepAfter(call[c].checkpoint))
         /\ CheckLiveExport(c) => /\ At(c, "liveCheck")
                                  /\ Goes(c, "releaseDeletion") \/ Goes(c, "collect")
         /\ CollectKeys(c) => \E pc \in {"collect", "collectAgain"} :
              /\ At(c, pc)
              /\ MovesTo(c, [call[c] EXCEPT !.keys = Registered,
                               !.pc = IF pc = "collect" THEN "fence" ELSE "dropObjects"])
         /\ FenceExports(c) =>
              /\ At(c, "fence")
              /\ \/ /\ OwnsDeletion(c)
                    /\ MovesTo(c, [call[c] EXCEPT !.checkpoint = ExportsFenced,
                                                  !.pc = "collectAgain"])
                 \/ Goes(c, "releaseDeletion") /\ UNCHANGED <<job, del>>
         /\ DropRegisteredObjects(c) => At(c, "dropObjects") /\ Goes(c, "advance")
         /\ DeleteUserRows(c) => At(c, "deleteRows") /\ Goes(c, "deleteJobs")
         /\ DeleteUserJobs(c) => At(c, "deleteJobs") /\ Goes(c, "advance")
         /\ Advance(c) =>
              /\ At(c, "advance")
              /\ \/ /\ OwnsDeletion(c)
                    /\ del' = [del EXCEPT !.checkpoint = call[c].checkpoint + 1]
                    /\ MovesTo(c, [call[c] EXCEPT !.checkpoint = call[c].checkpoint + 1,
                                     !.pc = IF call[c].checkpoint = ExportsFenced
                                            THEN "deleteRows" ELSE "erase"])
                 \/ del' = del /\ Ends(c)
         /\ EraseKeys(c) => /\ At(c, "erase")
                            /\ MovesTo(c, [call[c] EXCEPT !.checkpoint = KeysErased,
                                                          !.pc = "finalize"])
         /\ FinalizeDeletion(c) =>
              /\ At(c, "finalize")
              /\ \/ Holds(c) /\ Ends(c)
                 \/ Goes(c, "releaseDeletion") /\ UNCHANGED <<user, del, job>>
         /\ ReleaseDeletion(c) => At(c, "releaseDeletion") /\ Ends(c)
<1>m. /\ call \in [Calls -> CallType]
      /\ \A k \in CallType : call' = [call EXCEPT ![c] = k] => MovesTo(c, k)
      /\ \A pc \in Steps : Goto(c, pc) => Goes(c, pc)
      /\ End(c) => Ends(c)
  BY Typing, Moving DEF Goes, Ends
<1>s. /\ DeletionSteps \subseteq Steps
      /\ {"collect", "fence", "collectAgain", "dropObjects", "deleteRows", "deleteJobs", "erase",
          "finalize", "releaseDeletion", "advance", "probe", "liveCheck"} \subseteq Steps
  BY DEF Steps, ConsumerSteps, DeletionSteps
<1>k. /\ call[c] \in CallType /\ call[c].checkpoint \in 0 .. 5
      /\ \A cp \in 0 .. 5, pc \in Steps :
           /\ [call[c] EXCEPT !.checkpoint = cp, !.pc = pc] \in CallType
           /\ call' = [call EXCEPT ![c].checkpoint = cp, ![c].pc = pc]
                => MovesTo(c, [call[c] EXCEPT !.checkpoint = cp, !.pc = pc])
  <2>1. call[c] \in CallType /\ call[c].checkpoint \in 0 .. 5
    BY <1>m, CallTyping
  <2>2. ASSUME NEW cp \in 0 .. 5, NEW pc \in Steps
        PROVE  /\ [call[c] EXCEPT !.checkpoint = cp, !.pc = pc] \in CallType
               /\ call' = [call EXCEPT ![c].checkpoint = cp, ![c].pc = pc]
                    => MovesTo(c, [call[c] EXCEPT !.checkpoint = cp, !.pc = pc])
    <3>1. [call[c] EXCEPT !.checkpoint = cp, !.pc = pc] \in CallType
      BY <2>1 DEF CallType, Accepted, Completed
    <3>2. call' = [call EXCEPT ![c].checkpoint = cp, ![c].pc = pc]
            => call' = [call EXCEPT ![c] = [call[c] EXCEPT !.checkpoint = cp, !.pc = pc]]
      BY <1>m
    <3> QED BY <1>m, <3>1, <3>2
  <2> QED BY <2>1, <2>2
<1>c. \A pc \in DeletionSteps : At(c, pc) => call[c].checkpoint \in CheckpointsAt(pc)
  BY DEF StepOK, At
<1>1. DecryptCommand(c) => /\ At(c, "decrypt")
                           /\ Ends(c) \/ Goes(c, FirstStep(call[c].checkpoint))
  <2>1. FirstStep(call[c].checkpoint) \in Steps
    BY <1>s DEF FirstStep
  <2> QED BY <1>m, <2>1 DEF DecryptCommand, Redeliver
<1>2. ASSUME ProbeClaim(c)
      PROVE  /\ At(c, "probe")
             /\ \/ Goes(c, "releaseDeletion")
                \/ Goes(c, StepAfter(call[c].checkpoint))
  <2>1. At(c, "probe")
    BY <1>2 DEF ProbeClaim
  <2>2. call[c].checkpoint \in 1 .. 4
    BY <1>c, <2>1 DEF DeletionSteps, CheckpointsAt, ExportsFenced, KeysErased
  <2>3. StepAfter(call[c].checkpoint) \in Steps
    BY <2>2, <1>s DEF StepAfter, ExportsFenced, ObjectsDeleted, RowsDeleted, KeysErased
  <2> QED BY <1>2, <1>m, <1>s, <2>1, <2>3 DEF ProbeClaim
<1>3. CheckLiveExport(c) => /\ At(c, "liveCheck")
                            /\ Goes(c, "releaseDeletion") \/ Goes(c, "collect")
  BY <1>m, <1>s DEF CheckLiveExport
<1>4. ASSUME CollectKeys(c)
      PROVE  \E pc \in {"collect", "collectAgain"} :
               /\ At(c, pc)
               /\ MovesTo(c, [call[c] EXCEPT !.keys = Registered,
                                !.pc = IF pc = "collect" THEN "fence" ELSE "dropObjects"])
  <2>1. PICK pc \in {"collect", "collectAgain"} : At(c, pc)
    BY <1>4 DEF CollectKeys
  <2> DEFINE next == IF pc = "collect" THEN "fence" ELSE "dropObjects"
             k == [call[c] EXCEPT !.keys = Registered, !.pc = next]
  <2>2. call' = [call EXCEPT ![c].keys = Registered,
                             ![c].pc = IF @ = "collect" THEN "fence" ELSE "dropObjects"]
    BY <1>4 DEF CollectKeys
  <2>3. call' = [call EXCEPT ![c] = k]
    BY <2>1, <2>2, <1>m DEF At, CallType
  <2>4. next \in Steps
    BY <1>s
  <2>r. Registered \subseteq Exports
    BY DEF Registered
  <2> HIDE DEF next
  <2>5. k \in CallType
    BY <2>4, <1>k, <2>r DEF CallType
  <2>6. MovesTo(c, k)
    BY <1>m, <2>3, <2>5
  <2> QED BY <2>1, <2>6 DEF next
<1>5. FenceExports(c) =>
        /\ At(c, "fence")
        /\ \/ /\ OwnsDeletion(c)
              /\ MovesTo(c, [call[c] EXCEPT !.checkpoint = ExportsFenced, !.pc = "collectAgain"])
           \/ Goes(c, "releaseDeletion") /\ UNCHANGED <<job, del>>
  <2>1. StepAfter(ExportsFenced) = "collectAgain" /\ ExportsFenced \in 0 .. 5
    BY DEF StepAfter, ExportsFenced, ObjectsDeleted, RowsDeleted, KeysErased
  <2> QED BY <1>m, <1>s, <1>k, <2>1 DEF FenceExports
<1>6. /\ DropRegisteredObjects(c) => At(c, "dropObjects") /\ Goes(c, "advance")
      /\ DeleteUserRows(c) => At(c, "deleteRows") /\ Goes(c, "deleteJobs")
      /\ DeleteUserJobs(c) => At(c, "deleteJobs") /\ Goes(c, "advance")
      /\ ReleaseDeletion(c) => At(c, "releaseDeletion") /\ Ends(c)
  BY <1>m, <1>s DEF DropRegisteredObjects, DeleteUserRows, DeleteUserJobs, ReleaseDeletion
<1>7. ASSUME Advance(c)
      PROVE  /\ At(c, "advance")
             /\ \/ /\ OwnsDeletion(c)
                   /\ del' = [del EXCEPT !.checkpoint = call[c].checkpoint + 1]
                   /\ MovesTo(c, [call[c] EXCEPT !.checkpoint = call[c].checkpoint + 1,
                                    !.pc = IF call[c].checkpoint = ExportsFenced
                                           THEN "deleteRows" ELSE "erase"])
                \/ del' = del /\ Ends(c)
  <2>1. At(c, "advance")
    BY <1>7 DEF Advance
  <2>2. call[c].checkpoint \in {1, 2}
    BY <1>c, <2>1 DEF DeletionSteps, CheckpointsAt, ExportsFenced, ObjectsDeleted
  <2> DEFINE next == call[c].checkpoint + 1
  <2>3. next \in 0 .. 5
    BY <2>2
  <2>4. StepAfter(next) = IF call[c].checkpoint = ExportsFenced THEN "deleteRows" ELSE "erase"
    BY <2>2 DEF StepAfter, ExportsFenced, ObjectsDeleted, RowsDeleted, KeysErased
  <2>5. StepAfter(next) \in Steps
    BY <2>4, <1>s
  <2>6. \/ /\ OwnsDeletion(c)
           /\ del' = [del EXCEPT !.checkpoint = next]
           /\ call' = [call EXCEPT ![c].checkpoint = next, ![c].pc = StepAfter(next)]
        \/ del' = del /\ End(c)
    BY <1>7 DEF Advance
  <2> HIDE DEF next
  <2>7. \/ /\ OwnsDeletion(c)
           /\ del' = [del EXCEPT !.checkpoint = next]
           /\ MovesTo(c, [call[c] EXCEPT !.checkpoint = next, !.pc = StepAfter(next)])
        \/ del' = del /\ Ends(c)
    BY <1>k, <1>m, <2>3, <2>5, <2>6
  <2> QED BY <2>1, <2>4, <2>7 DEF next
<1>8. EraseKeys(c) => /\ At(c, "erase")
                      /\ MovesTo(c, [call[c] EXCEPT !.checkpoint = KeysErased, !.pc = "finalize"])
  <2>1. KeysErased \in 0 .. 5
    BY DEF KeysErased
  <2> QED BY <1>s, <1>k, <2>1 DEF EraseKeys
<1>9. FinalizeDeletion(c) =>
        /\ At(c, "finalize")
        /\ \/ Holds(c) /\ Ends(c)
           \/ Goes(c, "releaseDeletion") /\ UNCHANGED <<user, del, job>>
  BY <1>m, <1>s DEF FinalizeDeletion
<1> QED BY <1>1, <1>2, <1>3, <1>4, <1>5, <1>6, <1>7, <1>8, <1>9

\* The cron, and what begins a call.
LEMMA MaintenanceCalls ==
  ASSUME TypeOK, NEW c \in Calls
  PROVE  /\ DropExpired(c) => At(c, "expireDrop") /\ Goes(c, "expireMark")
         /\ MarkExpired(c) => At(c, "expireMark") /\ Ends(c)
         /\ SweepObjects(c) => At(c, "sweepDrop") /\ (Goes(c, "sweepClear") \/ Ends(c))
         /\ ClearManifest(c) => At(c, "sweepClear") /\ Ends(c)
         /\ RecoverSend(c) => At(c, "recoverSend") /\ Goes(c, "recoverMark")
         /\ RecoverMark(c) => At(c, "recoverMark") /\ Ends(c)
<1>m. /\ \A pc \in Steps : Goto(c, pc) => Goes(c, pc)
      /\ End(c) => Ends(c)
  BY Typing, Moving DEF Goes, Ends
<1>s. {"expireMark", "sweepClear", "recoverMark"} \subseteq Steps
  BY DEF Steps, MaintenanceSteps
<1>1. /\ DropExpired(c) => At(c, "expireDrop") /\ Goes(c, "expireMark")
      /\ RecoverSend(c) => At(c, "recoverSend") /\ Goes(c, "recoverMark")
  BY <1>m, <1>s DEF DropExpired, RecoverSend
<1>2. SweepObjects(c) => At(c, "sweepDrop") /\ (Goes(c, "sweepClear") \/ Ends(c))
  BY <1>m, <1>s DEF SweepObjects
<1>3. /\ MarkExpired(c) => At(c, "expireMark") /\ Ends(c)
      /\ ClearManifest(c) => At(c, "sweepClear") /\ Ends(c)
      /\ RecoverMark(c) => At(c, "recoverMark") /\ Ends(c)
  BY <1>m DEF MarkExpired, ClearManifest, RecoverMark
<1> QED BY <1>1, <1>2, <1>3

\* A call that begins on the job j at the step pc.
Begins(c, pc, j) == At(c, "idle") /\ MovesTo(c, [Idle EXCEPT !.pc = pc, !.job = j])

\* What begins a call.
LEMMA StartCalls ==
  ASSUME TypeOK, NEW c \in Calls
  PROVE  /\ ReserveDeletion(c) => Begins(c, "send", Deletion)
         /\ \A x \in Exports : /\ ReserveExport(c, x) => Begins(c, "send", x)
                               /\ SelectExpired(c, x) => Begins(c, "expireDrop", x)
                               /\ SelectFailed(c, x) => Begins(c, "cleanDrop", x)
         /\ SelectManifest(c) => \E late \in {0, 1} :
              /\ At(c, "idle")
              /\ MovesTo(c, [Idle EXCEPT !.pc = "sweepDrop", !.keys = del.manifest,
                                         !.etag = late])
         /\ \A j \in Jobs :
              /\ SelectRecoverable(c, j) =>
                   /\ At(c, "idle")
                   /\ MovesTo(c, [Idle EXCEPT !.pc = "recoverSend", !.job = j, !.row = job[j]])
              /\ ClaimJob(c, j) => \E tries \in 0 .. MaxRetries :
                   /\ At(c, "idle")
                   /\ MovesTo(c, [Idle EXCEPT !.pc = "start", !.job = j, !.tries = tries,
                                              !.attempt = job[j].attempts + 1])
<1>m. /\ call \in [Calls -> CallType] /\ Idle \in CallType /\ Exports \subseteq Jobs
      /\ Deletion \in Jobs
      /\ \A k \in CallType : call' = [call EXCEPT ![c] = k] => MovesTo(c, k)
  BY Typing, Moving, Beginnings
<1>s. {"send", "expireDrop", "cleanDrop", "sweepDrop", "recoverSend", "start"} \subseteq Steps
  BY DEF Steps, RouteSteps, ConsumerSteps, MaintenanceSteps
<1>b. ASSUME NEW pc \in Steps, NEW j \in Jobs, Begin(c, pc, j) PROVE Begins(c, pc, j)
  <2>1. [Idle EXCEPT !.pc = pc, !.job = j] \in CallType
    BY <1>m DEF CallType
  <2> QED BY <1>b, <1>m, <2>1 DEF Begin, Begins
<1>1. ReserveDeletion(c) => Begins(c, "send", Deletion)
  BY <1>b, <1>m, <1>s DEF ReserveDeletion
<1>2. \A x \in Exports : /\ ReserveExport(c, x) => Begins(c, "send", x)
                         /\ SelectExpired(c, x) => Begins(c, "expireDrop", x)
                         /\ SelectFailed(c, x) => Begins(c, "cleanDrop", x)
  BY <1>b, <1>m, <1>s DEF ReserveExport, SelectExpired, SelectFailed
<1>3. ASSUME SelectManifest(c)
      PROVE  \E late \in {0, 1} :
               /\ At(c, "idle")
               /\ MovesTo(c, [Idle EXCEPT !.pc = "sweepDrop", !.keys = del.manifest,
                                          !.etag = late])
  <2> DEFINE late == IF del.fence = 0 THEN 1 ELSE 0
             listed == del.manifest
             k == [Idle EXCEPT !.pc = "sweepDrop", !.keys = listed, !.etag = late]
  <2>1. At(c, "idle") /\ call' = [call EXCEPT ![c] = k]
    BY <1>3 DEF SelectManifest
  <2>2. listed \in SUBSET Exports /\ late \in {0, 1} /\ late \in Nat
    BY Typing DEF DeletionType
  <2> HIDE DEF late, listed
  <2>3. k \in CallType
    BY <2>2, <1>m, <1>s DEF CallType
  <2>4. MovesTo(c, k)
    BY <1>m, <2>1, <2>3
  <2> QED BY <2>1, <2>2, <2>4 DEF listed
<1>4. ASSUME NEW j \in Jobs, SelectRecoverable(c, j)
      PROVE  /\ At(c, "idle")
             /\ MovesTo(c, [Idle EXCEPT !.pc = "recoverSend", !.job = j, !.row = job[j]])
  <2>1. [Idle EXCEPT !.pc = "recoverSend", !.job = j, !.row = job[j]] \in CallType
    BY <1>m, <1>s, Typing DEF CallType
  <2> QED BY <1>4, <1>m, <2>1 DEF SelectRecoverable
<1>5. ASSUME NEW j \in Jobs, ClaimJob(c, j)
      PROVE  \E tries \in 0 .. MaxRetries :
               /\ At(c, "idle")
               /\ MovesTo(c, [Idle EXCEPT !.pc = "start", !.job = j, !.tries = tries,
                                          !.attempt = job[j].attempts + 1])
  <2>1. PICK tries \in 0 .. MaxRetries :
           call' = [call EXCEPT ![c] = [Idle EXCEPT !.pc = "start", !.job = j, !.tries = tries,
                                                    !.attempt = job[j].attempts + 1]]
    BY <1>5 DEF ClaimJob
  <2>2. tries \in Nat /\ job[j].attempts + 1 \in Nat
    BY Beginnings, Typing DEF JobType
  <2> DEFINE next == job[j].attempts + 1
             k == [Idle EXCEPT !.pc = "start", !.job = j, !.tries = tries, !.attempt = next]
  <2> HIDE DEF next
  <2>3. next \in Nat
    BY <2>2 DEF next
  <2>4. k \in CallType
    BY <1>m, <1>s, <2>2, <2>3 DEF CallType
  <2>5. MovesTo(c, k)
    BY <1>m, <2>1, <2>4 DEF next
  <2> QED BY <1>5, <2>5 DEF ClaimJob, next
<1> QED BY <1>1, <1>2, <1>3, <1>4, <1>5

\* What interrupts a call.
LEMMA FaultCalls ==
  ASSUME TypeOK, NEW c \in Calls
  PROVE  /\ ThrowInExport(c) =>
              /\ call[c].pc \in {"build", "check", "head", "put", "publish", "ownerCheck",
                                 "dropLate"}
              /\ Goes(c, "fail") \/ Goes(c, "releaseExport")
         /\ ThrowInDeletion(c) => /\ call[c].pc \in DeletionSteps
                                  /\ Goes(c, "releaseDeletion")
         /\ Die(c) \/ SendThrows(c) => Ends(c)
<1>m. /\ \A pc \in Steps : Goto(c, pc) => Goes(c, pc)
      /\ End(c) => Ends(c)
  BY Typing, Moving DEF Goes, Ends
<1>s. {"fail", "releaseExport", "releaseDeletion"} \subseteq Steps
  BY DEF Steps, ConsumerSteps, ExportSteps, DeletionSteps
<1>1. ThrowInExport(c) => /\ call[c].pc \in {"build", "check", "head", "put", "publish",
                                             "ownerCheck", "dropLate"}
                          /\ Goes(c, "fail") \/ Goes(c, "releaseExport")
  BY <1>m, <1>s DEF ThrowInExport
<1>2. ThrowInDeletion(c) => call[c].pc \in DeletionSteps /\ Goes(c, "releaseDeletion")
  BY <1>m, <1>s DEF ThrowInDeletion
<1>3. Die(c) \/ SendThrows(c) => Ends(c)
  BY <1>m DEF Die, SendThrows
<1> QED BY <1>1, <1>2, <1>3
-----------------------------------------------------------------------------
(* What each action leaves alone of the database and the bucket.           *)

stored == <<user, keys, rows, deletionVars, exportVars, job>>

\* The actions that write, by what they write.
JobWrite(c) == \/ Mark(c) \/ RecoverMark(c) \/ DeleteUserJobs(c)
               \/ \E j \in Jobs : ClaimJob(c, j)
Removal(c) == \/ DropLateExport(c) \/ DropFailedExport(c) \/ DropRegisteredObjects(c)
              \/ DropExpired(c) \/ SweepObjects(c)
ObjectWrite(c) == PutExport(c) \/ Removal(c)
AnswerWrite(c) == PublishExport(c) \/ FailExport(c) \/ ReleaseExport(c)
RequestWrite(c) == MarkFailedExport(c) \/ MarkExpired(c)
Reservation(c) == \E x \in Exports : ReserveExport(c, x)
Write(c) == \/ JobWrite(c) \/ ObjectWrite(c) \/ AnswerWrite(c) \/ RequestWrite(c)
            \/ Reservation(c) \/ ReserveDeletion(c) \/ MarkRunning(c) \/ FenceExports(c)
            \/ DeleteUserRows(c) \/ Advance(c) \/ ClearManifest(c) \/ EraseKeys(c)
            \/ FinalizeDeletion(c) \/ ReleaseDeletion(c)

\* The variables that a write leaves alone.
LEMMA Frames ==
  ASSUME NEW c \in Calls
  PROVE  /\ JobWrite(c) => UNCHANGED <<user, keys, rows, deletionVars, exportVars>>
         /\ ObjectWrite(c) => UNCHANGED <<accountVars, deletionVars, req, job>>
         /\ AnswerWrite(c) => UNCHANGED <<accountVars, deletionVars, object>>
         /\ RequestWrite(c) => UNCHANGED <<accountVars, deletionVars, object, job>>
         /\ Reservation(c) => UNCHANGED <<accountVars, deletionVars, object>>
         /\ ReserveDeletion(c) => UNCHANGED <<keys, rows, exportVars>>
         /\ MarkRunning(c) => UNCHANGED <<accountVars, command, object, job>>
         /\ FenceExports(c) => UNCHANGED <<accountVars, command, exportVars>>
         /\ DeleteUserRows(c) => UNCHANGED <<user, keys, deletionVars, object, job>>
         /\ Advance(c) \/ ClearManifest(c) => UNCHANGED <<accountVars, command, exportVars, job>>
         /\ EraseKeys(c) => UNCHANGED <<user, rows, exportVars, job>>
         /\ FinalizeDeletion(c) => UNCHANGED <<keys, rows, command, exportVars>>
         /\ ReleaseDeletion(c) => UNCHANGED <<accountVars, command, exportVars>>
<1>1. JobWrite(c) => UNCHANGED <<user, keys, rows, deletionVars, exportVars>>
  BY DEF JobWrite, Mark, RecoverMark, DeleteUserJobs, ClaimJob, accountVars
<1>2. PutExport(c) => UNCHANGED <<accountVars, deletionVars, req, job>>
  BY DEF PutExport
<1>3. Removal(c) => UNCHANGED <<accountVars, deletionVars, req, job>>
  BY DEF Removal, DropLateExport, DropFailedExport, DropRegisteredObjects, DropExpired,
         SweepObjects
<1>4. AnswerWrite(c) => UNCHANGED <<accountVars, deletionVars, object>>
  BY DEF AnswerWrite, PublishExport, FailExport, ReleaseExport
<1>5. RequestWrite(c) => UNCHANGED <<accountVars, deletionVars, object, job>>
  BY DEF RequestWrite, MarkFailedExport, MarkExpired
<1>6. Reservation(c) => UNCHANGED <<accountVars, deletionVars, object>>
  BY DEF Reservation, ReserveExport
<1>7. /\ ReserveDeletion(c) => UNCHANGED <<keys, rows, exportVars>>
      /\ MarkRunning(c) => UNCHANGED <<accountVars, command, object, job>>
      /\ FenceExports(c) => UNCHANGED <<accountVars, command, exportVars>>
  BY DEF ReserveDeletion, MarkRunning, FenceExports
<1>8. /\ DeleteUserRows(c) => UNCHANGED <<user, keys, deletionVars, object, job>>
      /\ Advance(c) \/ ClearManifest(c) => UNCHANGED <<accountVars, command, exportVars, job>>
  BY DEF DeleteUserRows, Advance, ClearManifest
<1>9. /\ EraseKeys(c) => UNCHANGED <<user, rows, exportVars, job>>
      /\ FinalizeDeletion(c) => UNCHANGED <<keys, rows, command, exportVars>>
      /\ ReleaseDeletion(c) => UNCHANGED <<accountVars, command, exportVars>>
  BY DEF EraseKeys, FinalizeDeletion, ReleaseDeletion
<1> QED BY <1>1, <1>2, <1>3, <1>4, <1>5, <1>6, <1>7, <1>8, <1>9 DEF ObjectWrite

\* Every step writes, or lets time pass, or leaves all of that alone.
LEMMA Writers ==
  ASSUME [Next]_vars
  PROVE  UNCHANGED stored \/ Tick \/ \E c \in Calls : Write(c)
<1>1. ASSUME NEW c \in Calls,
             \/ Send(c) \/ LoadExport(c) \/ LoadDeletion(c) \/ RecoverSend(c)
             \/ ThrowInExport(c) \/ ThrowInDeletion(c) \/ Die(c) \/ SendThrows(c)
      PROVE  UNCHANGED stored
  BY <1>1 DEF stored, Send, LoadExport, LoadDeletion, RecoverSend, ThrowInExport, ThrowInDeletion,
              Die, SendThrows, accountVars
<1>2. ASSUME NEW c \in Calls,
             \/ SealExport(c) \/ CheckExport(c) \/ HeadExport(c) \/ CheckFencedOwner(c)
             \/ DecryptCommand(c) \/ ProbeClaim(c) \/ CheckLiveExport(c) \/ CollectKeys(c)
      PROVE  UNCHANGED stored
  BY <1>2 DEF stored, SealExport, CheckExport, HeadExport, CheckFencedOwner, DecryptCommand,
              ProbeClaim, CheckLiveExport, CollectKeys, accountVars
<1>3. ASSUME NEW c \in Calls,
             \/ SelectManifest(c)
             \/ \E x \in Exports : SelectExpired(c, x) \/ SelectFailed(c, x)
             \/ \E j \in Jobs : SelectRecoverable(c, j)
      PROVE  UNCHANGED stored
  BY <1>3 DEF stored, SelectManifest, SelectExpired, SelectFailed, SelectRecoverable, accountVars
<1>4. ASSUME NEW j \in Jobs, IgnoreMessage(j) \/ ClaimThrows(j) PROVE UNCHANGED stored
  BY <1>4 DEF stored, IgnoreMessage, ClaimThrows, accountVars
<1>5. UNCHANGED vars \/ Fence \/ Lift => UNCHANGED stored
  BY DEF vars, stored, accountVars, Fence, Lift
<1>6. ASSUME NEW c \in Calls, RouteStep(c) \/ ClaimStep(c) \/ Fault(c)
      PROVE  UNCHANGED stored \/ Write(c)
  BY <1>1, <1>6 DEF RouteStep, ClaimStep, Fault, Write, JobWrite
<1>7. ASSUME NEW c \in Calls, ExportStep(c) PROVE UNCHANGED stored \/ Write(c)
  BY <1>2, <1>7 DEF ExportStep, Write, ObjectWrite, Removal, AnswerWrite, RequestWrite
<1>8. ASSUME NEW c \in Calls, DeletionStep(c) PROVE UNCHANGED stored \/ Write(c)
  BY <1>2, <1>8 DEF DeletionStep, Write, JobWrite, ObjectWrite, Removal
<1>9. ASSUME NEW c \in Calls, MaintenanceStep(c) PROVE UNCHANGED stored \/ Write(c)
  BY <1>1, <1>9 DEF MaintenanceStep, Write, JobWrite, ObjectWrite, Removal, RequestWrite
<1>10. ASSUME NEW c \in Calls, Start(c) PROVE UNCHANGED stored \/ Write(c)
  BY <1>3, <1>10 DEF Start, Write, JobWrite, Reservation
<1> QED BY <1>4, <1>5, <1>6, <1>7, <1>8, <1>9, <1>10 DEF Next, CallStep
-----------------------------------------------------------------------------
(* How calls and jobs move.                                                *)

\* Only the age of the call changes.
Waits(k, l) == /\ l.pc = k.pc /\ l.job = k.job /\ l.attempt = k.attempt
               /\ l.checkpoint = k.checkpoint /\ l.keys = k.keys /\ l.etag = k.etag
\* A consumer goes on under its claim, and never back to an early step.
Continues(k, l) == /\ k.pc \in ConsumerSteps
                   /\ l.job = k.job /\ l.attempt = k.attempt
                   /\ l.pc \in Early => k.pc \in Early
ClaimedBy(c, j) == /\ ClaimJob(c, j)
                   /\ call'[c].pc = "start" /\ call'[c].job = j
                   /\ call'[c].attempt = job[j].attempts + 1
Moved(c) == /\ \A d \in Calls \ {c} : call'[d] = call[d]
            /\ \/ call'[c].pc \notin ConsumerSteps
               \/ Continues(call[c], call'[c])
               \/ \E j \in Jobs : ClaimedBy(c, j)

\* The steps at which an export or a deletion can be.
LEMMA StepSets ==
  /\ Early \subseteq ConsumerSteps /\ ExportSteps \subseteq ConsumerSteps
  /\ DeletionSteps \subseteq ConsumerSteps /\ ConsumerSteps \subseteq Steps
  /\ DeletionSteps \cap Early = {} /\ DeletionSteps \cap ExportWork = {}
  /\ ConsumerSteps \cap {"idle", "send", "mark", "expireDrop", "expireMark", "sweepDrop",
                         "sweepClear", "recoverSend", "recoverMark", "cleanDrop",
                         "cleanMark"} = {}
  /\ "idle" \notin ExportWork
BY DEF Early, ExportSteps, DeletionSteps, ConsumerSteps, Steps, ExportWork

\* Every step moves at most one call, under its claim or to a new one.
LEMMA CallMoves ==
  ASSUME TypeOK, \A c \in Calls : StepOK(call[c]), [Next]_vars
  PROVE  /\ call' \in [Calls -> CallType]
         /\ \/ \A c \in Calls : Waits(call[c], call'[c])
            \/ \E c \in Calls : Moved(c)
<1> DEFINE Goal == /\ call' \in [Calls -> CallType]
                   /\ \/ \A c \in Calls : Waits(call[c], call'[c])
                      \/ \E c \in Calls : Moved(c)
<1>t. call \in [Calls -> CallType] /\ Idle \in CallType /\ Idle.pc = "idle"
  BY Typing, Beginnings
<1>g. ASSUME NEW c \in Calls, NEW pc \in Steps, Goes(c, pc),
             \/ pc \notin ConsumerSteps
             \/ call[c].pc \in ConsumerSteps /\ (pc \in Early => call[c].pc \in Early)
      PROVE  Goal
  <2>1. /\ call'[c].pc = pc /\ call'[c].job = call[c].job
        /\ call'[c].attempt = call[c].attempt
    BY <1>g, <1>t DEF Goes, MovesTo, CallType
  <2> QED BY <1>g, <2>1 DEF Goes, MovesTo, Moved, Continues
<1>e. ASSUME NEW c \in Calls, Ends(c) PROVE Goal
  BY <1>e, <1>t, StepSets DEF Ends, MovesTo, Moved
<1>k. ASSUME NEW c \in Calls, NEW k \in CallType, MovesTo(c, k),
             k.pc \notin ConsumerSteps \/ Continues(call[c], k)
      PROVE  Goal
  BY <1>k DEF MovesTo, Moved
<1>u. ASSUME UNCHANGED call PROVE Goal
  BY <1>u, <1>t DEF Waits
<1> SUFFICES Goal
  OBVIOUS
<1> HIDE DEF Goal
<1>1. ASSUME NEW c \in Calls, RouteStep(c) \/ ClaimStep(c) PROVE Goal
  <2>1. {"mark", "load", "build"} \subseteq Steps /\ "mark" \notin ConsumerSteps
    BY DEF Steps, RouteSteps, ConsumerSteps, ExportSteps, DeletionSteps
  <2>2. {"start", "load"} \subseteq ConsumerSteps \cap Early
    BY DEF ConsumerSteps, Early
  <2>3. CASE LoadDeletion(c)
    <3> DEFINE pc == IF del.checkpoint = KeysErased THEN "probe" ELSE "decrypt"
               k == [call[c] EXCEPT !.checkpoint = del.checkpoint, !.pc = pc]
    <3>1. Ends(c) \/ (At(c, "load") /\ MovesTo(c, k))
      BY <2>3, ClaimCalls
    <3>2. CASE At(c, "load") /\ MovesTo(c, k)
      <4>1. k \in CallType
        BY <3>2 DEF MovesTo
      <4>2. pc \notin Early
        BY DEF Early
      <4> HIDE DEF pc
      <4>3. Continues(call[c], k)
        BY <1>t, <2>2, <3>2, <4>2 DEF Continues, At, CallType
      <4> QED BY <1>k, <3>2, <4>1, <4>3
    <3> QED BY <1>e, <3>1, <3>2
  <2>4. CASE Send(c) \/ Mark(c) \/ MarkRunning(c) \/ LoadExport(c)
    BY <1>e, <1>g, <2>1, <2>2, <2>4, ClaimCalls DEF At
  <2> QED BY <1>1, <2>3, <2>4 DEF RouteStep, ClaimStep
<1>2. ASSUME NEW c \in Calls, ExportStep(c) PROVE Goal
  <2>1. /\ {"check", "head", "publish"} \subseteq Steps
        /\ {"fail", "ownerCheck", "dropLate", "dropFailed", "markFailed", "cleanMark"}
             \subseteq Steps \ Early
        /\ "cleanMark" \notin ConsumerSteps
    BY DEF Steps, ConsumerSteps, ExportSteps, DeletionSteps, MaintenanceSteps, Early
  <2>2. {"build", "check", "head", "put", "publish"} \subseteq ConsumerSteps \cap Early
    BY DEF ConsumerSteps, ExportSteps, Early
  <2>3. {"ownerCheck", "fail", "dropFailed"} \subseteq ConsumerSteps
    BY DEF ConsumerSteps, ExportSteps
  <2>4. CASE HeadExport(c)
    <3> DEFINE k == [call[c] EXCEPT !.pc = "put", !.etag = object[call[c].job]]
    <3>1. Ends(c) \/ (At(c, "head") /\ MovesTo(c, k))
      BY <2>4, ExportCalls
    <3>2. CASE At(c, "head") /\ MovesTo(c, k)
      <4>1. k \in CallType
        BY <3>2 DEF MovesTo
      <4>2. Continues(call[c], k)
        BY <1>t, <2>2, <3>2 DEF Continues, At, CallType
      <4> QED BY <1>k, <3>2, <4>1, <4>2
    <3> QED BY <1>e, <3>1, <3>2
  <2>5. CASE SealExport(c) \/ CheckExport(c) \/ PutExport(c)
    BY <1>e, <1>g, <2>1, <2>2, <2>5, ExportCalls DEF At
  <2>6. CASE PublishExport(c) \/ CheckFencedOwner(c) \/ DropLateExport(c) \/ FailExport(c)
    BY <1>e, <1>g, <2>1, <2>2, <2>3, <2>6, ExportCalls DEF At
  <2>7. CASE DropFailedExport(c) \/ MarkFailedExport(c) \/ ReleaseExport(c)
    BY <1>e, <1>g, <2>1, <2>3, <2>7, ExportCalls DEF At
  <2> QED BY <1>2, <2>4, <2>5, <2>6, <2>7 DEF ExportStep
<1>3. ASSUME NEW c \in Calls, DeletionStep(c) PROVE Goal
  <2>1. \A pc \in DeletionSteps :
          At(c, pc) => call[c].pc \in ConsumerSteps /\ call[c].checkpoint \in CheckpointsAt(pc)
    BY StepSets DEF At, StepOK
  <2>2. ASSUME NEW pc \in DeletionSteps, NEW next \in DeletionSteps, At(c, pc), Goes(c, next)
        PROVE  Goal
    BY <1>g, <2>1, <2>2, StepSets
  <2>3. ASSUME NEW pc \in DeletionSteps, At(c, pc), NEW k \in CallType, MovesTo(c, k),
               k.job = call[c].job, k.attempt = call[c].attempt, k.pc \in DeletionSteps
        PROVE  Goal
    BY <1>k, <2>1, <2>3, StepSets DEF Continues
  <2>4. {"decrypt", "probe", "liveCheck", "collect", "fence", "collectAgain", "dropObjects",
         "deleteRows", "deleteJobs", "advance", "erase", "finalize", "releaseDeletion"}
          = DeletionSteps
    BY DEF DeletionSteps
  <2>5. CASE DecryptCommand(c)
    <3>1. FirstStep(call[c].checkpoint) \in DeletionSteps
      BY <2>4 DEF FirstStep
    <3> QED BY <1>e, <2>2, <2>4, <2>5, <3>1, DeletionCalls
  <2>6. CASE ProbeClaim(c)
    <3>1. At(c, "probe")
      BY <2>6, DeletionCalls
    <3>2. call[c].checkpoint \in 1 .. 4
      BY <2>1, <2>4, <3>1 DEF CheckpointsAt, ExportsFenced, KeysErased
    <3>3. StepAfter(call[c].checkpoint) \in DeletionSteps
      BY <2>4, <3>2 DEF StepAfter, ExportsFenced, ObjectsDeleted, RowsDeleted, KeysErased
    <3> QED BY <2>2, <2>4, <2>6, <3>1, <3>3, DeletionCalls
  <2>7. CASE CheckLiveExport(c) \/ DropRegisteredObjects(c) \/ DeleteUserRows(c)
             \/ DeleteUserJobs(c) \/ FinalizeDeletion(c) \/ ReleaseDeletion(c)
    BY <1>e, <2>2, <2>4, <2>7, DeletionCalls
  <2>8. CASE CollectKeys(c)
    <3>1. PICK pc \in {"collect", "collectAgain"} :
             /\ At(c, pc)
             /\ MovesTo(c, [call[c] EXCEPT !.keys = Registered,
                              !.pc = IF pc = "collect" THEN "fence" ELSE "dropObjects"])
      BY <2>8, DeletionCalls
    <3> DEFINE next == IF pc = "collect" THEN "fence" ELSE "dropObjects"
               k == [call[c] EXCEPT !.keys = Registered, !.pc = next]
    <3>2. next \in DeletionSteps /\ pc \in DeletionSteps
      BY <2>4
    <3>3. k \in CallType
      BY <3>1 DEF MovesTo
    <3>5. At(c, pc) /\ MovesTo(c, k)
      BY <3>1
    <3> HIDE DEF next
    <3>4. k.job = call[c].job /\ k.attempt = call[c].attempt /\ k.pc = next
      BY <1>t DEF CallType
    <3> QED BY <2>3, <3>2, <3>3, <3>4, <3>5
  <2>9. CASE FenceExports(c)
    <3> DEFINE k == [call[c] EXCEPT !.checkpoint = ExportsFenced, !.pc = "collectAgain"]
    <3>1. At(c, "fence") /\ (MovesTo(c, k) \/ Goes(c, "releaseDeletion"))
      BY <2>9, DeletionCalls
    <3>2. k.job = call[c].job /\ k.attempt = call[c].attempt /\ k.pc = "collectAgain"
      BY <1>t DEF CallType
    <3>3. MovesTo(c, k) => k \in CallType
      BY DEF MovesTo
    <3> HIDE DEF k
    <3> QED BY <2>2, <2>3, <2>4, <3>1, <3>2, <3>3
  <2>10. CASE Advance(c)
    <3> DEFINE next == IF call[c].checkpoint = ExportsFenced THEN "deleteRows" ELSE "erase"
               k == [call[c] EXCEPT !.checkpoint = call[c].checkpoint + 1, !.pc = next]
    <3>1. At(c, "advance") /\ (MovesTo(c, k) \/ Ends(c))
      BY <2>10, DeletionCalls
    <3>2. next \in DeletionSteps
      BY <2>4
    <3>3. MovesTo(c, k) => k \in CallType
      BY DEF MovesTo
    <3> HIDE DEF next
    <3>4. k.job = call[c].job /\ k.attempt = call[c].attempt /\ k.pc = next
      BY <1>t DEF CallType
    <3> HIDE DEF k
    <3> QED BY <1>e, <2>3, <2>4, <3>1, <3>2, <3>3, <3>4
  <2>11. CASE EraseKeys(c)
    <3> DEFINE k == [call[c] EXCEPT !.checkpoint = KeysErased, !.pc = "finalize"]
    <3>1. At(c, "erase") /\ MovesTo(c, k)
      BY <2>11, DeletionCalls
    <3>2. k.job = call[c].job /\ k.attempt = call[c].attempt /\ k.pc = "finalize"
      BY <1>t DEF CallType
    <3>3. k \in CallType
      BY <3>1 DEF MovesTo
    <3> HIDE DEF k
    <3> QED BY <2>3, <2>4, <3>1, <3>2, <3>3
  <2> QED BY <1>3, <2>5, <2>6, <2>7, <2>8, <2>9, <2>10, <2>11 DEF DeletionStep
<1>4. ASSUME NEW c \in Calls, MaintenanceStep(c) PROVE Goal
  <2>1. {"expireMark", "sweepClear", "recoverMark"} \subseteq Steps \ ConsumerSteps
    BY StepSets DEF Steps, MaintenanceSteps
  <2> QED BY <1>4, <1>e, <1>g, <2>1, MaintenanceCalls DEF MaintenanceStep
<1>5. ASSUME NEW c \in Calls, Fault(c) PROVE Goal
  <2>1. /\ {"fail", "releaseExport", "releaseDeletion"} \subseteq Steps \ Early
        /\ {"build", "check", "head", "put", "publish", "ownerCheck", "dropLate"}
             \subseteq ConsumerSteps
    BY DEF Steps, ConsumerSteps, ExportSteps, DeletionSteps, Early
  <2> QED BY <1>5, <1>e, <1>g, <2>1, StepSets, FaultCalls DEF Fault
<1>6. ASSUME NEW c \in Calls, Start(c) PROVE Goal
  <2>1. ASSUME NEW pc, NEW j, pc \notin ConsumerSteps, Begins(c, pc, j) PROVE Goal
    <3> DEFINE k == [Idle EXCEPT !.pc = pc, !.job = j]
    <3>1. MovesTo(c, k) /\ k \in CallType
      BY <2>1 DEF Begins, MovesTo
    <3>2. k.pc = pc
      BY DEF Idle
    <3> HIDE DEF k
    <3> QED BY <1>k, <2>1, <3>1, <3>2
  <2>2. CASE SelectManifest(c)
    <3>1. PICK late \in {0, 1} :
             MovesTo(c, [Idle EXCEPT !.pc = "sweepDrop", !.keys = del.manifest, !.etag = late])
      BY <2>2, StartCalls
    <3> DEFINE k == [Idle EXCEPT !.pc = "sweepDrop", !.keys = del.manifest, !.etag = late]
    <3>2. MovesTo(c, k) /\ k \in CallType /\ k.pc = "sweepDrop"
      BY <3>1 DEF MovesTo, Idle
    <3> HIDE DEF k
    <3> QED BY <1>k, <3>2, StepSets
  <2>3. ASSUME NEW j \in Jobs, SelectRecoverable(c, j) PROVE Goal
    <3> DEFINE k == [Idle EXCEPT !.pc = "recoverSend", !.job = j, !.row = job[j]]
    <3>1. MovesTo(c, k)
      BY <2>3, StartCalls
    <3>2. k \in CallType /\ k.pc = "recoverSend"
      BY <3>1 DEF MovesTo, Idle
    <3> HIDE DEF k
    <3> QED BY <1>k, <3>1, <3>2, StepSets
  <2>4. ASSUME NEW j \in Jobs, ClaimJob(c, j) PROVE Goal
    <3>1. PICK tries \in 0 .. MaxRetries :
             MovesTo(c, [Idle EXCEPT !.pc = "start", !.job = j, !.tries = tries,
                                     !.attempt = job[j].attempts + 1])
      BY <2>4, StartCalls
    <3>2. /\ call'[c].pc = "start" /\ call'[c].job = j
          /\ call'[c].attempt = job[j].attempts + 1
      BY <3>1 DEF MovesTo, Idle
    <3> QED BY <2>4, <3>1, <3>2 DEF Goal, Moved, MovesTo, ClaimedBy
  <2>5. {"send", "expireDrop", "cleanDrop"} \cap ConsumerSteps = {}
    BY StepSets
  <2> QED BY <1>6, <2>1, <2>2, <2>3, <2>4, <2>5, StartCalls DEF Start
<1>7. ASSUME NEW j \in Jobs, IgnoreMessage(j) \/ ClaimThrows(j) PROVE Goal
  BY <1>7, <1>u DEF IgnoreMessage, ClaimThrows
<1>8. CASE Tick
  <2>1. \A c \in Calls : call'[c] \in CallType /\ Waits(call[c], call'[c])
    <3> TAKE c \in Calls
    <3>1. call'[c] = IF At(c, "idle") THEN call[c] ELSE [call[c] EXCEPT !.age = @ + 1]
      BY <1>8 DEF Tick
    <3>2. call[c] \in CallType
      BY <1>t
    <3> QED BY <3>1, <3>2 DEF Waits, CallType
  <2>2. call' = [c \in Calls |-> IF At(c, "idle") THEN call[c]
                                 ELSE [call[c] EXCEPT !.age = @ + 1]]
    BY <1>8 DEF Tick
  <2>3. call' \in [Calls -> CallType]
    BY <2>1, <2>2
  <2> QED BY <2>1, <2>3 DEF Goal
<1>9. CASE UNCHANGED vars \/ Fence \/ Lift
  BY <1>9, <1>u DEF vars, Fence, Lift
<1> QED BY <1>1, <1>2, <1>3, <1>4, <1>5, <1>6, <1>7, <1>8, <1>9 DEF Next, CallStep

\* The account, its rows and its keys never come back.
LEMMA AccountMoves ==
  ASSUME TypeOK, [Next]_vars
  PROVE  /\ user' \in {"active", "pending", "deleted"}
         /\ keys' \in BOOLEAN /\ rows' \in BOOLEAN /\ command' \in BOOLEAN
         /\ user' = "active" => user = "active"
         /\ user = "deleted" => user' = "deleted"
         /\ ~rows => ~rows'
         /\ ~keys => ~keys'
<1>t. /\ user \in {"active", "pending", "deleted"}
      /\ keys \in BOOLEAN /\ rows \in BOOLEAN /\ command \in BOOLEAN
  BY Typing
<1>1. CASE UNCHANGED <<user, keys, rows, command>>
  BY <1>t, <1>1
<1>2. ASSUME NEW c \in Calls, ReserveDeletion(c)
      PROVE  user = "active" /\ user' = "pending" /\ command' = TRUE /\ UNCHANGED <<keys, rows>>
  BY <1>2 DEF ReserveDeletion
<1>3. ASSUME NEW c \in Calls, DeleteUserRows(c)
      PROVE  rows' = FALSE /\ UNCHANGED <<user, keys, command>>
  BY <1>3 DEF DeleteUserRows, deletionVars
<1>4. ASSUME NEW c \in Calls, EraseKeys(c)
      PROVE  keys' = FALSE /\ command' \in BOOLEAN /\ UNCHANGED <<user, rows>>
  BY <1>4, <1>t DEF EraseKeys
<1>5. ASSUME NEW c \in Calls, FinalizeDeletion(c)
      PROVE  /\ user' = user \/ (user = "pending" /\ user' = "deleted")
             /\ UNCHANGED <<keys, rows, command>>
  BY <1>5 DEF FinalizeDeletion
<1>6. \/ UNCHANGED <<user, keys, rows, command>>
      \/ \E c \in Calls : \/ ReserveDeletion(c) \/ DeleteUserRows(c) \/ EraseKeys(c)
                          \/ FinalizeDeletion(c)
  <2>1. Tick \/ UNCHANGED stored => UNCHANGED <<user, keys, rows, command>>
    BY DEF Tick, stored, deletionVars, accountVars
  <2>2. ASSUME NEW c \in Calls, Write(c)
        PROVE  \/ UNCHANGED <<user, keys, rows, command>>
               \/ ReserveDeletion(c) \/ DeleteUserRows(c) \/ EraseKeys(c) \/ FinalizeDeletion(c)
    BY <2>2, Frames DEF Write, deletionVars, accountVars
  <2> QED BY <2>1, <2>2, Writers
<1> QED BY <1>t, <1>1, <1>2, <1>3, <1>4, <1>5, <1>6

\* A job keeps its status and its attempts, or is claimed, settled or
\* released, cancelled, deleted with its account, or reserved.
JobKept(j) == job'[j].status = job[j].status /\ job'[j].attempts = job[j].attempts
JobMove(j) ==
  \/ JobKept(j)
  \/ /\ job[j].status \in {"queued", "running"}
     /\ job'[j].status = "running" /\ job'[j].attempts = job[j].attempts + 1
  \/ /\ job[j].status = "running" /\ job'[j].status \in {"queued", "succeeded", "failed"}
     /\ job'[j].attempts = job[j].attempts
  \/ /\ job[j].status \in {"queued", "running"} /\ user' # "active"
     /\ job'[j].status = "cancelled" /\ job'[j].attempts = job[j].attempts
  \/ job'[j].status = "absent" /\ user' # "active"
  \/ /\ job[j].status = "absent" /\ user = "active"
     /\ job'[j].status = "queued" /\ job'[j].attempts = job[j].attempts
  \/ j = Deletion /\ user = "active" /\ user' # "active"

\* One job is written and the others are not.
WritesJob(j, r) == job' = [job EXCEPT ![j] = r]

\* Every step moves jobs in one of these ways.
LEMMA JobMoves ==
  ASSUME TypeOK, \A c \in Calls : StepOK(call[c]), [Next]_vars
  PROVE  job' \in [Jobs -> JobType] /\ \A j \in Jobs : JobMove(j)
<1> DEFINE Goal == job' \in [Jobs -> JobType] /\ \A j \in Jobs : JobMove(j)
<1>t. /\ job \in [Jobs -> JobType] /\ \A c \in Calls : call[c] \in CallType
      /\ NoJob \in JobType /\ Queued \in JobType
  BY Typing, Beginnings
<1>i. ASSUME NEW c \in Calls PROVE call[c].job \in Jobs
  BY <1>t, CallTyping
<1>w. ASSUME NEW j \in Jobs, NEW r \in JobType, WritesJob(j, r), JobMove(j) PROVE Goal
  BY <1>w, <1>t DEF WritesJob, JobMove, JobKept
<1>u. ASSUME UNCHANGED job PROVE Goal
  BY <1>u, <1>t DEF JobMove, JobKept
<1> SUFFICES Goal
  OBVIOUS
<1> HIDE DEF Goal
<1>r. ASSUME NEW j \in Jobs, Released(j), job[j].status = "running" PROVE Goal
  <2> DEFINE r == [job[j] EXCEPT !.status = "queued", !.lease = 0, !.wait = RetryDelay,
                                 !.sent = FALSE]
  <2>1. r \in JobType /\ r.status = "queued" /\ r.attempts = job[j].attempts
    BY <1>t, Beginnings DEF JobType
  <2>2. WritesJob(j, r)
    BY <1>r, <1>t DEF Released, WritesJob
  <2>3. job'[j] = r
    BY <2>2, <1>t DEF WritesJob
  <2> HIDE DEF r
  <2> QED BY <1>r, <1>w, <2>1, <2>2, <2>3 DEF JobMove
<1>s. ASSUME NEW j \in Jobs, NEW status \in {"succeeded", "failed"}, Settled(j, status),
             job[j].status = "running"
      PROVE  Goal
  <2> DEFINE r == [job[j] EXCEPT !.status = status, !.lease = 0]
  <2>1. r \in JobType /\ r.status = status /\ r.attempts = job[j].attempts
    BY <1>t DEF JobType
  <2>2. WritesJob(j, r)
    BY <1>s, <1>t DEF Settled, WritesJob
  <2>3. job'[j] = r
    BY <2>2, <1>t DEF WritesJob
  <2> HIDE DEF r
  <2> QED BY <1>s, <1>w, <2>1, <2>2, <2>3 DEF JobMove
<1>m. ASSUME NEW j \in Jobs, NEW b \in BOOLEAN, job' = [job EXCEPT ![j].sent = b] PROVE Goal
  <2> DEFINE r == [job[j] EXCEPT !.sent = b]
  <2>1. r \in JobType /\ r.status = job[j].status /\ r.attempts = job[j].attempts
    BY <1>t DEF JobType
  <2>2. WritesJob(j, r)
    BY <1>m, <1>t DEF WritesJob
  <2>3. job'[j] = r
    BY <2>2, <1>t DEF WritesJob
  <2> HIDE DEF r
  <2> QED BY <1>w, <2>1, <2>2, <2>3 DEF JobMove, JobKept
<1>1. ASSUME NEW c \in Calls, Mark(c) \/ RecoverMark(c) PROVE Goal
  <2>1. PICK j \in Jobs : j = call[c].job
    BY <1>i
  <2>2. CASE Mark(c)
    <3>1. (job[j].sent \/ job[j].status = "queued") \in BOOLEAN
      BY <1>t DEF JobType
    <3>2. job' = [job EXCEPT ![j].sent = job[j].sent \/ job[j].status = "queued"]
      BY <2>1, <2>2, <1>t DEF Mark
    <3> QED BY <1>m, <3>1, <3>2
  <2>3. CASE RecoverMark(c)
    <3>1. job' = [job EXCEPT ![j].sent = TRUE] \/ job' = job
      BY <2>1, <2>3 DEF RecoverMark
    <3> QED BY <1>m, <1>u, <3>1
  <2> QED BY <1>1, <2>2, <2>3
<1>2. ASSUME NEW c \in Calls, NEW j \in Jobs, ClaimJob(c, j) PROVE Goal
  <2> DEFINE n == job[j].attempts + 1
             r == [job[j] EXCEPT !.status = "running", !.lease = Lease, !.attempts = n,
                                 !.sent = TRUE]
  <2>1. job[j].status \in {"queued", "running"}
    BY <1>2 DEF ClaimJob, Claimable, Takeable
  <2>2. n \in Nat
    BY <1>t DEF JobType
  <2>3. WritesJob(j, r)
    BY <1>2, <1>t DEF ClaimJob, WritesJob
  <2>4. job'[j] = r
    BY <2>3, <1>t DEF WritesJob
  <2> HIDE DEF n
  <2>5. r \in JobType /\ r.status = "running" /\ r.attempts = n
    BY <1>t, <2>2, Beginnings DEF JobType
  <2> HIDE DEF r
  <2> QED BY <1>w, <2>1, <2>3, <2>4, <2>5 DEF JobMove, n
<1>3. ASSUME NEW c \in Calls, AnswerWrite(c) PROVE Goal
  <2>1. PICK x \in Jobs : x = call[c].job
    BY <1>i
  <2>2. CanPublish(c) => job[x].status = "running"
    BY <2>1 DEF CanPublish, Holds
  <2>3. UNCHANGED job \/ Settled(x, "succeeded") \/ Settled(x, "failed") \/ Released(x)
    BY <1>3, <2>1 DEF AnswerWrite, PublishExport, FailExport, ReleaseExport
  <2>4. UNCHANGED job \/ CanPublish(c)
    BY <1>3, <2>1 DEF AnswerWrite, PublishExport, FailExport, ReleaseExport
  <2> QED BY <1>r, <1>s, <1>u, <2>2, <2>3, <2>4
<1>4. ASSUME NEW c \in Calls, ReleaseDeletion(c) PROVE Goal
  <2>1. call[c].job = Deletion /\ Deletion \in Jobs
    BY <1>4, Beginnings DEF ReleaseDeletion, At, StepOK, DeletionSteps
  <2>2. UNCHANGED job \/ (OwnsDeletion(c) /\ Released(Deletion))
    BY <1>4 DEF ReleaseDeletion
  <2> QED BY <1>r, <1>u, <2>1, <2>2 DEF OwnsDeletion, Holds
<1>5. ASSUME NEW c \in Calls, NEW x \in Exports, ReserveExport(c, x) PROVE Goal
  <2>1. x \in Jobs
    BY Beginnings
  <2>2. WritesJob(x, Queued) /\ job[x] = NoJob /\ user = "active"
    BY <1>5 DEF ReserveExport, WritesJob
  <2>3. job'[x] = Queued
    BY <1>t, <2>1, <2>2 DEF WritesJob
  <2>4. NoJob.status = "absent" /\ Queued.status = "queued" /\ Queued.attempts = NoJob.attempts
    BY DEF NoJob, Queued
  <2> QED BY <1>t, <1>w, <2>1, <2>2, <2>3, <2>4 DEF JobMove
<1>6. ASSUME NEW c \in Calls, ReserveDeletion(c) PROVE Goal
  <2>1. user = "active" /\ user' # "active"
    BY <1>6 DEF ReserveDeletion
  <2>2. ASSUME NEW j \in Jobs
        PROVE  job'[j] \in JobType /\ JobMove(j)
    <3>1. job'[j] = IF j = Deletion THEN Queued
                    ELSE IF job[j].status = "queued" THEN [job[j] EXCEPT !.status = "cancelled"]
                    ELSE job[j]
      BY <1>6 DEF ReserveDeletion
    <3>2. job[j] \in JobType
      BY <1>t
    <3> QED BY <1>t, <2>1, <3>1, <3>2 DEF JobMove, JobKept, JobType
  <2>3. job' = [j \in Jobs |-> job'[j]]
    BY <1>6 DEF ReserveDeletion
  <2> QED BY <2>2, <2>3 DEF Goal
<1>7. ASSUME NEW c \in Calls, FenceExports(c) PROVE Goal
  <2>1. user' # "active"
    BY <1>7, Frames DEF FenceExports, At, StepOK, DeletionSteps, accountVars
  <2>2. CASE UNCHANGED job
    BY <1>u, <2>2
  <2>3. CASE job' = [j \in Jobs |-> Cancelled(j)]
    <3>1. ASSUME NEW j \in Jobs PROVE job'[j] \in JobType /\ JobMove(j)
      <4>1. job'[j] = IF j # Deletion /\ job[j].status \in {"queued", "running"}
                      THEN [job[j] EXCEPT !.status = "cancelled", !.lease = 0] ELSE job[j]
        BY <2>3 DEF Cancelled
      <4> DEFINE r == [job[j] EXCEPT !.status = "cancelled", !.lease = 0]
      <4>2. /\ r \in JobType /\ r.status = "cancelled"
            /\ job[j] \in JobType /\ r.attempts = job[j].attempts
        BY <1>t DEF JobType
      <4>3. \/ job'[j] = job[j]
            \/ job'[j] = r /\ job[j].status \in {"queued", "running"}
        BY <4>1
      <4> HIDE DEF r
      <4> QED BY <2>1, <4>2, <4>3 DEF JobMove, JobKept
    <3> QED BY <2>3, <3>1 DEF Goal
  <2> QED BY <1>7, <2>2, <2>3 DEF FenceExports
<1>8. ASSUME NEW c \in Calls, DeleteUserJobs(c) PROVE Goal
  <2>1. user' # "active"
    BY <1>8 DEF DeleteUserJobs, At, StepOK, DeletionSteps, accountVars
  <2>2. job' = [j \in Jobs |-> IF j = Deletion THEN job[j] ELSE NoJob]
    BY <1>8 DEF DeleteUserJobs
  <2>3. ASSUME NEW j \in Jobs PROVE job'[j] \in JobType /\ JobMove(j)
    BY <1>t, <2>1, <2>2, Beginnings DEF JobMove, JobKept
  <2> QED BY <2>2, <2>3 DEF Goal
<1>9. ASSUME NEW c \in Calls, FinalizeDeletion(c) PROVE Goal
  <2>1. user' # "active"
    BY <1>9, AccountMoves DEF FinalizeDeletion, At, StepOK, DeletionSteps
  <2>2. UNCHANGED job \/ WritesJob(Deletion, NoJob)
    BY <1>9 DEF FinalizeDeletion, WritesJob
  <2>3. WritesJob(Deletion, NoJob) => job'[Deletion] = NoJob
    BY <1>t, Beginnings DEF WritesJob
  <2> QED BY <1>t, <1>u, <1>w, <2>1, <2>2, <2>3, Beginnings DEF JobMove
<1>10. CASE Tick
  <2>1. job' = [j \in Jobs |-> [job[j] EXCEPT !.lease = Less(@), !.wait = Less(@)]]
    BY <1>10 DEF Tick
  <2>2. ASSUME NEW j \in Jobs PROVE job'[j] \in JobType /\ JobMove(j)
    <3>1. job[j] \in JobType
      BY <1>t
    <3>2. Less(job[j].lease) \in Nat /\ Less(job[j].wait) \in Nat
      BY <3>1 DEF Less, JobType
    <3>3. job'[j] = [job[j] EXCEPT !.lease = Less(job[j].lease), !.wait = Less(job[j].wait)]
      BY <2>1, <3>1
    <3> QED BY <3>1, <3>2, <3>3 DEF JobMove, JobKept, JobType
  <2> QED BY <2>1, <2>2 DEF Goal
<1>11. CASE UNCHANGED stored
  BY <1>11, <1>u DEF stored
<1>12. ASSUME NEW c \in Calls, Write(c) PROVE Goal
  <2>1. ASSUME JobWrite(c) PROVE Goal
    BY <1>1, <1>2, <1>8, <2>1 DEF JobWrite
  <2>2. CASE Reservation(c)
    BY <1>5, <2>2 DEF Reservation
  <2> QED BY <1>3, <1>4, <1>6, <1>7, <1>9, <1>12, <1>u, <2>1, <2>2, Frames
           DEF Write, deletionVars, exportVars
<1> QED BY <1>10, <1>11, <1>12, Writers
-----------------------------------------------------------------------------
(* Attempts are tokens.                                                    *)

\* The deletion has no consumer while the account is open.
LEMMA DeletionConsumed ==
  ASSUME NEW k, StepOK(k), k.pc \in ConsumerSteps, k.job = Deletion
  PROVE  user # "active"
<1>1. k.pc \notin ExportSteps
  BY Beginnings DEF StepOK, ExportWork
<1>2. k.pc \in {"start", "load"} \/ k.pc \in DeletionSteps
  BY <1>1 DEF ConsumerSteps
<1> QED BY <1>2 DEF StepOK

\* A claim of the job j: it was not gone, and the attempt is new.
LEMMA Claiming ==
  ASSUME TypeOK, NEW c \in Calls, NEW j \in Jobs, ClaimJob(c, j)
  PROVE  /\ job[j].status \in {"queued", "running"}
         /\ job'[j].status = "running" /\ job'[j].attempts = job[j].attempts + 1
         /\ job[j].attempts \in Nat
         /\ user = IF j = Deletion THEN "pending" ELSE "active"
         /\ UNCHANGED <<user, keys, rows, deletionVars, exportVars>>
         /\ \A i \in Jobs \ {j} : job'[i] = job[i]
<1>1. job \in [Jobs -> JobType]
  BY Typing
<1>2. job' = [job EXCEPT ![j].status = "running", ![j].lease = Lease,
                         ![j].attempts = @ + 1, ![j].sent = TRUE]
  BY DEF ClaimJob
<1>3. job'[j] = [job[j] EXCEPT !.status = "running", !.lease = Lease,
                               !.attempts = @ + 1, !.sent = TRUE]
  BY <1>1, <1>2
<1>4. job'[j].status = "running" /\ job'[j].attempts = job[j].attempts + 1
  BY <1>1, <1>3 DEF JobType
<1>5. job[j].attempts \in Nat
  BY <1>1 DEF JobType
<1>6. \A i \in Jobs \ {j} : job'[i] = job[i]
  BY <1>1, <1>2
<1>7. /\ job[j].status \in {"queued", "running"}
      /\ user = IF j = Deletion THEN "pending" ELSE "active"
      /\ UNCHANGED <<user, keys, rows, deletionVars, exportVars>>
  BY DEF ClaimJob, Claimable, Takeable, OwnerAdmits, Owned
<1> QED BY <1>4, <1>5, <1>6, <1>7

\* An attempt that was not ahead of its job is not ahead of it after a step.
LEMMA AttemptKept ==
  ASSUME TypeOK, \A c \in Calls : StepOK(call[c]), [Next]_vars,
         NEW k \in CallType, k.pc \in ConsumerSteps, StepOK(k), AttemptOK(k)
  PROVE  k.attempt <= job'[k.job].attempts \/ Gone(k.job)'
<1>1. /\ k.job \in Jobs /\ k.attempt \in Nat
      /\ job[k.job].attempts \in Nat /\ job'[k.job].attempts \in Nat
  BY CallTyping, Typing, JobMoves DEF JobType
<1>2. JobMove(k.job)
  BY <1>1, JobMoves
<1>3. k.job = Deletion => user # "active"
  BY DeletionConsumed
<1>4. user' = "active" => user = "active"
  BY AccountMoves
<1>5. k.attempt <= job[k.job].attempts \/ Gone(k.job)
  BY DEF AttemptOK
<1> QED BY <1>1, <1>2, <1>3, <1>4, <1>5 DEF JobMove, JobKept, Gone

\* Tokens stay tokens.
LEMMA TokenStep ==
  ASSUME TypeOK, TokensDiffer, \A c \in Calls : StepOK(call[c]) /\ AttemptOK(call[c]),
         [Next]_vars
  PROVE  TokensDiffer' /\ \A c \in Calls : AttemptOK(call[c])'
<1>t. /\ call \in [Calls -> CallType] /\ call' \in [Calls -> CallType]
      /\ \/ \A c \in Calls : Waits(call[c], call'[c])
         \/ \E c \in Calls : Moved(c)
  BY Typing, CallMoves
<1>a. \A c \in Calls : call[c].pc \in ConsumerSteps =>
        \/ call[c].attempt <= job'[call[c].job].attempts
        \/ user' # "active" /\ job'[call[c].job].status = "absent"
  BY <1>t, AttemptKept DEF Gone
<1>1. CASE \A c \in Calls : Waits(call[c], call'[c])
  BY <1>1, <1>a DEF Waits, TokensDiffer, AttemptOK, Gone
<1>2. ASSUME NEW c \in Calls, Moved(c) PROVE TokensDiffer' /\ \A d \in Calls : AttemptOK(call[d])'
  <2>1. \A d \in Calls \ {c} : call'[d] = call[d]
    BY <1>2 DEF Moved
  <2>2. CASE call'[c].pc \notin ConsumerSteps
    BY <1>a, <2>1, <2>2 DEF TokensDiffer, AttemptOK, Gone
  <2>3. CASE Continues(call[c], call'[c])
    BY <1>a, <2>1, <2>3 DEF Continues, TokensDiffer, AttemptOK, Gone
  <2>4. ASSUME NEW j \in Jobs, ClaimedBy(c, j)
        PROVE  TokensDiffer' /\ \A d \in Calls : AttemptOK(call[d])'
    <3>1. /\ ClaimJob(c, j) /\ call'[c].pc = "start" /\ call'[c].job = j
          /\ call'[c].attempt = job[j].attempts + 1
      BY <2>4 DEF ClaimedBy
    <3>2. /\ job[j].status \in {"queued", "running"}
          /\ job'[j].attempts = job[j].attempts + 1 /\ job[j].attempts \in Nat
      BY <3>1, Claiming
    <3>3. \A d \in Calls : call[d].pc \in ConsumerSteps /\ call[d].job = j
                             => call[d].attempt <= job[j].attempts
      BY <3>2 DEF AttemptOK, Gone
    <3>4. \A d \in Calls : call[d].attempt \in Nat
      BY <1>t, CallTyping
    <3>5. TokensDiffer'
      BY <2>1, <3>1, <3>2, <3>3, <3>4 DEF TokensDiffer
    <3>6. \A d \in Calls : AttemptOK(call[d])'
      BY <1>a, <2>1, <3>1, <3>2 DEF AttemptOK, Gone
    <3> QED BY <3>5, <3>6
  <2> QED BY <1>2, <2>2, <2>3, <2>4 DEF Moved
<1> QED BY <1>t, <1>1, <1>2

\* A token that is current after a step and was out already was current before.
LEMMA HeldBefore ==
  ASSUME TypeOK, \A c \in Calls : StepOK(call[c]), [Next]_vars,
         NEW k \in CallType, k.pc \in ConsumerSteps, StepOK(k), AttemptOK(k), HeldBy(k)'
  PROVE  HeldBy(k)
<1>1. /\ k.job \in Jobs /\ k.attempt \in Nat
      /\ job[k.job].attempts \in Nat /\ job'[k.job].attempts \in Nat
  BY CallTyping, Typing, JobMoves DEF JobType
<1>2. JobMove(k.job)
  BY <1>1, JobMoves
<1>3. k.job = Deletion => user # "active"
  BY DeletionConsumed
<1>4. job'[k.job].status = "running" /\ job'[k.job].attempts = k.attempt
  BY DEF HeldBy
<1>5. k.attempt <= job[k.job].attempts \/ Gone(k.job)
  BY DEF AttemptOK
<1> QED BY <1>1, <1>2, <1>3, <1>4, <1>5 DEF JobMove, JobKept, Gone, HeldBy
-----------------------------------------------------------------------------
(* How requests, objects and the deletion move.                            *)

\* The call c publishes the request x under the attempt that it holds.
PublishedBy(c, x) ==
  /\ call[c].pc = "publish" /\ call[c].job = x /\ HeldBy(call[c]) /\ Ends(c)
  /\ req'[x].status = "ready" /\ req'[x].key = call[c].attempt /\ req[x].status = "running"
  /\ job'[x].status = "succeeded" /\ job'[x].attempts = call[c].attempt

RequestKept(x) == /\ req'[x].status = req[x].status /\ req'[x].key = req[x].key
                  /\ req'[x].ttl <= req[x].ttl
RequestMove(x) ==
  \/ RequestKept(x)
  \/ /\ req[x].status \in {"queued", "running"} /\ req'[x].status \in {"queued", "running"}
  \/ req[x].status = "ready" /\ req'[x].status = "expired"
  \/ user = "active" /\ user' = "active" /\ object' = object /\ \E c \in Calls : PublishedBy(c, x)
  \/ req[x].status = "running" /\ req'[x].status = "failed" /\ job'[x].status = "failed"
  \/ ~rows' /\ user # "active" /\ req'[x].status = "absent"
  \/ user = "active" /\ req[x].status = "absent" /\ req'[x].status = "queued"

WritesRequest(x, r) == req' = [req EXCEPT ![x] = r]

\* Every step moves requests in one of these ways.
LEMMA RequestMoves ==
  ASSUME TypeOK, \A c \in Calls : StepOK(call[c]), [Next]_vars
  PROVE  req' \in [Exports -> RequestType] /\ \A x \in Exports : RequestMove(x)
<1> DEFINE Goal == req' \in [Exports -> RequestType] /\ \A x \in Exports : RequestMove(x)
<1>t. /\ req \in [Exports -> RequestType] /\ \A c \in Calls : call[c] \in CallType
      /\ NoRequest \in RequestType
  BY Typing, Beginnings
<1>n. \A x \in Exports : req[x].ttl \in Nat /\ req[x].ttl <= req[x].ttl
  BY <1>t DEF RequestType
<1>i. ASSUME NEW c \in Calls, NEW pc \in ExportWork, At(c, pc) PROVE call[c].job \in Exports
  BY <1>i DEF At, StepOK
<1>s. ExportSteps \cup {"expireMark", "cleanMark"} \subseteq ExportWork
  BY DEF ExportWork
<1>w. ASSUME NEW x \in Exports, NEW r \in RequestType, WritesRequest(x, r), RequestMove(x)
      PROVE  Goal
  BY <1>w, <1>t, <1>n DEF WritesRequest, RequestMove, RequestKept
<1>u. ASSUME UNCHANGED req PROVE Goal
  BY <1>u, <1>t, <1>n DEF RequestMove, RequestKept
<1> SUFFICES Goal
  OBVIOUS
<1> HIDE DEF Goal
<1>1. ASSUME NEW c \in Calls, MarkRunning(c) PROVE Goal
  <2>1. call[c].job \in Jobs
    BY <1>t, CallTyping
  <2>2. CASE call[c].job = Deletion
    BY <1>1, <1>u, <2>2 DEF MarkRunning
  <2>3. CASE call[c].job # Deletion
    <3>1. PICK x \in Exports : x = call[c].job
      BY <2>1, <2>3, Beginnings
    <3> DEFINE r == IF req[x].status = "queued" THEN [req[x] EXCEPT !.status = "running"]
                    ELSE req[x]
    <3>2. WritesRequest(x, r)
      BY <1>1, <1>t, <2>3, <3>1 DEF MarkRunning, WritesRequest
    <3>3. /\ r \in RequestType
          /\ \/ r = req[x]
             \/ req[x].status = "queued" /\ r.status = "running"
      BY <1>t DEF RequestType
    <3>4. req'[x] = r
      BY <1>t, <3>2 DEF WritesRequest
    <3> HIDE DEF r
    <3>5. RequestMove(x)
      BY <1>n, <3>3, <3>4 DEF RequestMove, RequestKept
    <3> QED BY <1>w, <3>2, <3>3, <3>5
  <2> QED BY <2>2, <2>3
<1>2. ASSUME NEW c \in Calls, PublishExport(c) PROVE Goal
  <2>1. call[c].pc = "publish" /\ At(c, "publish")
    BY <1>2 DEF PublishExport, At
  <2>2. PICK x \in Exports : x = call[c].job
    BY <1>i, <1>s, <2>1 DEF ExportSteps
  <2>3. CASE CanPublish(c)
    <3> DEFINE r == [status |-> "ready", key |-> call[c].attempt, ttl |-> ExportTtl,
                     cleaned |-> FALSE]
    <3>1. r \in RequestType /\ r.status = "ready" /\ r.key = call[c].attempt
      BY <1>t, CallTyping, Beginnings DEF RequestType
    <3>2. WritesRequest(x, r) /\ End(c) /\ Settled(x, "succeeded")
      BY <1>2, <2>2, <2>3 DEF PublishExport, WritesRequest
    <3>3. Ends(c)
      BY <3>2, Moving, Typing DEF Ends
    <3>4. req'[x] = r
      BY <1>t, <3>2 DEF WritesRequest
    <3> HIDE DEF r
    <3>5. HeldBy(call[c]) /\ req[x].status = "running" /\ user = "active"
      BY <2>2, <2>3 DEF CanPublish, Holds, HeldBy
    <3>6. user' = "active" /\ object' = object
      BY <1>2, <3>5 DEF PublishExport, accountVars
    <3>7. x \in Jobs /\ job \in [Jobs -> JobType]
      BY Typing, Beginnings
    <3>8. job'[x].status = "succeeded" /\ job'[x].attempts = job[x].attempts
      BY <3>2, <3>7 DEF Settled, JobType
    <3>9. PublishedBy(c, x)
      BY <2>1, <2>2, <3>1, <3>3, <3>4, <3>5, <3>8 DEF PublishedBy, HeldBy
    <3>10. RequestMove(x)
      BY <3>5, <3>6, <3>9 DEF RequestMove
    <3> QED BY <1>w, <3>1, <3>2, <3>10
  <2>4. CASE ~CanPublish(c)
    BY <1>2, <1>u, <2>4 DEF PublishExport
  <2> QED BY <2>3, <2>4
<1>3. ASSUME NEW c \in Calls, FailExport(c) PROVE Goal
  <2>1. At(c, "fail")
    BY <1>3 DEF FailExport
  <2>2. PICK x \in Exports : x = call[c].job
    BY <1>i, <1>s, <2>1 DEF ExportSteps
  <2>3. CASE CanPublish(c)
    <3> DEFINE r == [NoRequest EXCEPT !.status = "failed"]
    <3>1. r \in RequestType /\ r.status = "failed"
      BY <1>t DEF RequestType, NoRequest
    <3>2. WritesRequest(x, r) /\ Settled(x, "failed")
      BY <1>3, <2>2, <2>3 DEF FailExport, WritesRequest
    <3>3. req'[x] = r
      BY <1>t, <3>2 DEF WritesRequest
    <3> HIDE DEF r
    <3>4. x \in Jobs /\ job \in [Jobs -> JobType]
      BY Typing, Beginnings
    <3>5. job'[x].status = "failed"
      BY <3>2, <3>4 DEF Settled, JobType
    <3>6. req[x].status = "running"
      BY <2>2, <2>3 DEF CanPublish
    <3>7. RequestMove(x)
      BY <3>1, <3>3, <3>5, <3>6 DEF RequestMove
    <3> QED BY <1>w, <3>1, <3>2, <3>7
  <2>4. CASE ~CanPublish(c)
    BY <1>3, <1>u, <2>4 DEF FailExport
  <2> QED BY <2>3, <2>4
<1>4. ASSUME NEW c \in Calls, ReleaseExport(c) PROVE Goal
  <2>1. At(c, "releaseExport")
    BY <1>4 DEF ReleaseExport
  <2>2. PICK x \in Exports : x = call[c].job
    BY <1>i, <1>s, <2>1 DEF ExportSteps
  <2>3. CASE CanPublish(c)
    <3> DEFINE r == [req[x] EXCEPT !.status = "queued"]
    <3>1. r \in RequestType /\ r.status = "queued"
      BY <1>t DEF RequestType
    <3>2. WritesRequest(x, r)
      BY <1>4, <1>t, <2>2, <2>3 DEF ReleaseExport, WritesRequest
    <3>3. req'[x] = r
      BY <1>t, <3>2 DEF WritesRequest
    <3> HIDE DEF r
    <3>4. req[x].status = "running"
      BY <2>2, <2>3 DEF CanPublish
    <3>5. RequestMove(x)
      BY <3>1, <3>3, <3>4 DEF RequestMove
    <3> QED BY <1>w, <3>1, <3>2, <3>5
  <2>4. CASE ~CanPublish(c)
    BY <1>4, <1>u, <2>4 DEF ReleaseExport
  <2> QED BY <2>3, <2>4
<1>5. ASSUME NEW c \in Calls, MarkFailedExport(c) PROVE Goal
  <2>1. At(c, "markFailed") \/ At(c, "cleanMark")
    BY <1>5 DEF MarkFailedExport
  <2>2. PICK x \in Exports : x = call[c].job
    BY <1>i, <1>s, <2>1 DEF ExportSteps
  <2> DEFINE done == req[x].cleaned \/ req[x].status = "failed"
             r == [req[x] EXCEPT !.cleaned = done]
  <2>3. done \in BOOLEAN
    BY <1>t DEF RequestType
  <2>4. WritesRequest(x, r)
    BY <1>5, <1>t, <2>2 DEF MarkFailedExport, WritesRequest
  <2> HIDE DEF done
  <2>5. /\ r \in RequestType /\ r.status = req[x].status /\ r.key = req[x].key
        /\ r.ttl = req[x].ttl
    BY <1>t, <2>3 DEF RequestType
  <2>6. req'[x] = r
    BY <1>t, <2>4 DEF WritesRequest
  <2> HIDE DEF r
  <2>7. RequestMove(x)
    BY <1>n, <2>5, <2>6 DEF RequestMove, RequestKept
  <2> QED BY <1>w, <2>4, <2>5, <2>7
<1>6. ASSUME NEW c \in Calls, MarkExpired(c) PROVE Goal
  <2>1. At(c, "expireMark")
    BY <1>6 DEF MarkExpired
  <2>2. PICK x \in Exports : x = call[c].job
    BY <1>i, <1>s, <2>1
  <2>3. CASE req[x].status = "ready" /\ req[x].ttl = 0
    <3> DEFINE r == [req[x] EXCEPT !.status = "expired", !.key = 0, !.cleaned = TRUE]
    <3>1. r \in RequestType /\ r.status = "expired"
      BY <1>t DEF RequestType
    <3>2. WritesRequest(x, r)
      BY <1>6, <1>t, <2>2, <2>3 DEF MarkExpired, WritesRequest
    <3>3. req'[x] = r
      BY <1>t, <3>2 DEF WritesRequest
    <3> HIDE DEF r
    <3>4. RequestMove(x)
      BY <2>3, <3>1, <3>3 DEF RequestMove
    <3> QED BY <1>w, <3>1, <3>2, <3>4
  <2>4. CASE ~(req[x].status = "ready" /\ req[x].ttl = 0)
    BY <1>6, <1>u, <2>2, <2>4 DEF MarkExpired
  <2> QED BY <2>3, <2>4
<1>7. ASSUME NEW c \in Calls, DeleteUserRows(c) PROVE Goal
  <2>1. user # "active" /\ ~rows'
    BY <1>7 DEF DeleteUserRows, At, StepOK, DeletionSteps
  <2>2. req' = [x \in Exports |-> NoRequest]
    BY <1>7 DEF DeleteUserRows
  <2>3. NoRequest.status = "absent"
    BY DEF NoRequest
  <2> QED BY <1>t, <2>1, <2>2, <2>3 DEF Goal, RequestMove
<1>8. ASSUME NEW c \in Calls, NEW x \in Exports, ReserveExport(c, x) PROVE Goal
  <2> DEFINE r == [req[x] EXCEPT !.status = "queued"]
  <2>1. user = "active" /\ req[x].status = "absent"
    BY <1>8 DEF ReserveExport, NoRequest
  <2>2. WritesRequest(x, r)
    BY <1>8, <1>t DEF ReserveExport, WritesRequest
  <2>3. r \in RequestType /\ r.status = "queued"
    BY <1>t DEF RequestType
  <2>4. req'[x] = r
    BY <1>t, <2>2 DEF WritesRequest
  <2> HIDE DEF r
  <2>5. RequestMove(x)
    BY <2>1, <2>3, <2>4 DEF RequestMove
  <2> QED BY <1>w, <2>2, <2>3, <2>5
<1>9. CASE Tick
  <2>1. req' = [x \in Exports |-> [req[x] EXCEPT !.ttl = Less(@)]]
    BY <1>9 DEF Tick
  <2>2. ASSUME NEW x \in Exports PROVE req'[x] \in RequestType /\ RequestMove(x)
    <3>1. Less(req[x].ttl) \in Nat /\ Less(req[x].ttl) <= req[x].ttl
      BY <1>t DEF Less, RequestType
    <3>2. req'[x] = [req[x] EXCEPT !.ttl = Less(req[x].ttl)]
      BY <2>1, <1>t
    <3> QED BY <1>t, <3>1, <3>2 DEF RequestMove, RequestKept, RequestType
  <2> QED BY <2>1, <2>2 DEF Goal
<1>10. CASE UNCHANGED stored
  BY <1>10, <1>u DEF stored, exportVars
<1>11. ASSUME NEW c \in Calls, Write(c) PROVE Goal
  <2>1. CASE AnswerWrite(c)
    BY <1>2, <1>3, <1>4, <2>1 DEF AnswerWrite
  <2>2. CASE RequestWrite(c)
    BY <1>5, <1>6, <2>2 DEF RequestWrite
  <2>3. CASE Reservation(c)
    BY <1>8, <2>3 DEF Reservation
  <2>4. CASE \/ JobWrite(c) \/ ObjectWrite(c) \/ ReserveDeletion(c) \/ FenceExports(c)
             \/ Advance(c) \/ ClearManifest(c) \/ EraseKeys(c) \/ FinalizeDeletion(c)
             \/ ReleaseDeletion(c)
    BY <1>u, <2>4, Frames DEF exportVars
  <2> QED BY <1>1, <1>7, <1>11, <2>1, <2>2, <2>3, <2>4 DEF Write
<1> QED BY <1>9, <1>10, <1>11, Writers

\* The call c stores the object of x, over the one that it saw.
StoredBy(c, x) == /\ call[c].pc = "put" /\ call[c].job = x /\ call[c].etag = object[x]
                  /\ object'[x] = call[c].attempt /\ Goes(c, "publish")
ObjectMove(x) ==
  \/ object'[x] = object[x]
  \/ /\ UNCHANGED <<accountVars, req, job>>
     /\ \E c \in Calls : StoredBy(c, x)
  \/ /\ UNCHANGED <<accountVars, req, job>> /\ object'[x] = 0
     /\ \/ user # "active"
        \/ \E c \in Calls : /\ call[c].job = x
                            /\ call[c].pc \in {"dropFailed", "cleanDrop", "expireDrop"}

\* Every step moves objects in one of these ways.
LEMMA ObjectMoves ==
  ASSUME TypeOK, \A c \in Calls : StepOK(call[c]), [Next]_vars
  PROVE  object' \in [Exports -> Nat] /\ \A x \in Exports : ObjectMove(x)
<1> DEFINE Goal == object' \in [Exports -> Nat] /\ \A x \in Exports : ObjectMove(x)
<1>t. object \in [Exports -> Nat] /\ \A c \in Calls : call[c] \in CallType
  BY Typing
<1>i. ASSUME NEW c \in Calls, NEW pc \in ExportWork, At(c, pc) PROVE call[c].job \in Exports
  BY <1>i DEF At, StepOK
<1>s. ExportSteps \cup {"expireDrop", "cleanDrop"} \subseteq ExportWork
  BY DEF ExportWork
<1>u. ASSUME UNCHANGED object PROVE Goal
  BY <1>u, <1>t DEF ObjectMove
<1>r. ASSUME NEW xs, Remove(xs), UNCHANGED <<accountVars, req, job>>,
             \/ user # "active"
             \/ \A x \in xs : \E c \in Calls :
                  /\ call[c].job = x
                  /\ call[c].pc \in {"dropFailed", "cleanDrop", "expireDrop"}
      PROVE  Goal
  <2>1. object' \in [Exports -> Nat]
    BY <1>r, <1>t DEF Remove
  <2>2. \A x \in Exports : object'[x] = IF x \in xs THEN 0 ELSE object[x]
    BY <1>r DEF Remove
  <2> QED BY <1>r, <2>1, <2>2 DEF ObjectMove
<1> SUFFICES Goal
  OBVIOUS
<1> HIDE DEF Goal
<1>1. ASSUME NEW c \in Calls, PutExport(c) PROVE Goal
  <2>1. At(c, "put")
    BY <1>1 DEF PutExport
  <2>2. PICK x \in Exports : x = call[c].job
    BY <1>i, <1>s, <2>1 DEF ExportSteps
  <2>3. CASE object[x] = call[c].etag
    <3>1. object' = [object EXCEPT ![x] = call[c].attempt] /\ Goto(c, "publish")
      BY <1>1, <2>2, <2>3 DEF PutExport
    <3>2. Goes(c, "publish")
      BY <3>1, Moving, Typing DEF Goes, Steps, ConsumerSteps, ExportSteps
    <3>3. call[c].attempt \in Nat
      BY <1>t, CallTyping
    <3>4. UNCHANGED <<accountVars, req, job>>
      BY <1>1, Frames DEF ObjectWrite
    <3>5. object' \in [Exports -> Nat] /\ object'[x] = call[c].attempt
      BY <1>t, <3>1, <3>3
    <3>6. StoredBy(c, x)
      BY <2>1, <2>2, <2>3, <3>2, <3>5 DEF StoredBy, At
    <3>7. \A y \in Exports \ {x} : object'[y] = object[y]
      BY <1>t, <3>1
    <3> QED BY <3>4, <3>5, <3>6, <3>7 DEF Goal, ObjectMove
  <2>4. CASE object[x] # call[c].etag
    BY <1>1, <1>u, <2>2, <2>4 DEF PutExport
  <2> QED BY <2>3, <2>4
<1>2. ASSUME NEW c \in Calls, Removal(c) PROVE Goal
  <2>1. UNCHANGED <<accountVars, req, job>>
    BY <1>2, Frames DEF ObjectWrite
  <2>2. CASE DropLateExport(c) \/ DropRegisteredObjects(c) \/ SweepObjects(c)
    <3>1. user # "active"
      BY <2>2 DEF DropLateExport, DropRegisteredObjects, SweepObjects, At, StepOK, DeletionSteps
    <3>2. \E xs : Remove(xs)
      BY <2>2 DEF DropLateExport, DropRegisteredObjects, SweepObjects
    <3> QED BY <1>r, <2>1, <3>1, <3>2
  <2>3. CASE DropFailedExport(c) \/ DropExpired(c)
    <3>1. Remove({call[c].job}) /\ call[c].pc \in {"dropFailed", "cleanDrop", "expireDrop"}
      BY <2>3 DEF DropFailedExport, DropExpired, At
    <3> QED BY <1>r, <2>1, <3>1
  <2> QED BY <1>2, <2>2, <2>3 DEF Removal
<1>3. CASE UNCHANGED stored \/ Tick
  BY <1>3, <1>u DEF stored, exportVars, Tick
<1>4. ASSUME NEW c \in Calls, Write(c) PROVE Goal
  <2>1. CASE ObjectWrite(c)
    BY <1>1, <1>2, <2>1 DEF ObjectWrite
  <2> QED BY <1>4, <1>u, <2>1, Frames DEF Write, exportVars
<1> QED BY <1>3, <1>4, Writers

\* The owner c of the deletion records the checkpoint that it goes on with.
AdvancedBy(c) == /\ call[c].pc \in {"fence", "advance", "erase"} /\ HeldBy(call[c])
                 /\ call'[c].pc \in DeletionSteps
                 /\ del'.checkpoint = call'[c].checkpoint
                 /\ call[c].checkpoint < call'[c].checkpoint
                 /\ del'.checkpoint < Completed
DeletionMove ==
  \/ del'.checkpoint = del.checkpoint
  \/ user = "active" /\ del'.checkpoint = Accepted
  \/ \E c \in Calls : AdvancedBy(c)
  \/ /\ del'.checkpoint = Completed /\ job'[Deletion].status = "absent"
     /\ user # "active" /\ ~rows' /\ ~keys'

\* Every step moves the deletion request in one of these ways.
LEMMA DeletionMoves ==
  ASSUME TypeOK, \A c \in Calls : StepOK(call[c]), [Next]_vars
  PROVE  del' \in DeletionType /\ DeletionMove
<1> DEFINE Goal == del' \in DeletionType /\ DeletionMove
<1>t. /\ del \in DeletionType /\ call \in [Calls -> CallType]
      /\ \A c \in Calls : call[c] \in CallType
  BY Typing
<1>k. ASSUME del' \in DeletionType, del'.checkpoint = del.checkpoint PROVE Goal
  BY <1>k DEF DeletionMove
<1>u. ASSUME UNCHANGED del PROVE Goal
  BY <1>k, <1>t, <1>u
<1>a. ASSUME del' \in DeletionType, NEW c \in Calls, AdvancedBy(c) PROVE Goal
  BY <1>a DEF DeletionMove
<1>c. ASSUME NEW c \in Calls, NEW pc \in DeletionSteps, At(c, pc)
      PROVE  call[c].checkpoint \in CheckpointsAt(pc) /\ call[c].job = Deletion
  BY <1>c DEF At, StepOK
<1>p. {ExportsFenced, KeysErased, Completed} \subseteq Accepted .. Completed
  BY DEF Accepted, ExportsFenced, KeysErased, Completed
<1> SUFFICES Goal
  OBVIOUS
<1> HIDE DEF Goal
<1>1. ASSUME NEW c \in Calls, ReserveDeletion(c) PROVE Goal
  <2>1. user = "active" /\ del' = [NoDeletion EXCEPT !.status = "queued"]
    BY <1>1 DEF ReserveDeletion
  <2>2. NoDeletion \in DeletionType /\ NoDeletion.checkpoint = Accepted
    BY Beginnings DEF NoDeletion
  <2>3. del' \in DeletionType /\ del'.checkpoint = Accepted
    BY <2>1, <2>2 DEF DeletionType
  <2> QED BY <2>1, <2>3 DEF Goal, DeletionMove
<1>2. ASSUME NEW c \in Calls, MarkRunning(c) PROVE Goal
  <2>1. \/ del' = del
        \/ del' = [del EXCEPT !.status = "running"]
    BY <1>2 DEF MarkRunning
  <2> QED BY <1>k, <1>t, <2>1 DEF DeletionType
<1>3. ASSUME NEW c \in Calls, FenceExports(c) PROVE Goal
  <2>1. At(c, "fence")
    BY <1>3 DEF FenceExports
  <2>2. CASE OwnsDeletion(c)
    <3> DEFINE lifetime == IF call[c].keys = {} THEN 0 ELSE FenceTtl
               listed == call[c].keys
    <3>1. del' = [del EXCEPT !.checkpoint = ExportsFenced, !.manifest = listed, !.fence = lifetime]
      BY <1>3, <2>2 DEF FenceExports
    <3>2. lifetime \in Nat /\ listed \in SUBSET Exports
      BY <1>t, CallTyping, Beginnings
    <3> HIDE DEF lifetime, listed
    <3>3. del' \in DeletionType /\ del'.checkpoint = ExportsFenced
      BY <1>p, <1>t, <3>1, <3>2 DEF DeletionType
    <3>4. call' = [call EXCEPT ![c].checkpoint = ExportsFenced,
                               ![c].pc = StepAfter(ExportsFenced)]
      BY <1>3, <2>2 DEF FenceExports
    <3>5. StepAfter(ExportsFenced) \in DeletionSteps
      BY DEF StepAfter, ExportsFenced, ObjectsDeleted, RowsDeleted, KeysErased, DeletionSteps
    <3>6. call'[c].checkpoint = ExportsFenced /\ call'[c].pc \in DeletionSteps
      BY <1>t, <3>4, <3>5 DEF CallType
    <3>7. call[c].checkpoint = Accepted
      BY <1>c, <2>1 DEF CheckpointsAt, DeletionSteps
    <3>8. AdvancedBy(c)
      BY <2>1, <2>2, <3>3, <3>6, <3>7
         DEF AdvancedBy, OwnsDeletion, Holds, HeldBy, At, Accepted, ExportsFenced, Completed
    <3> QED BY <1>a, <3>3, <3>8
  <2>3. CASE ~OwnsDeletion(c)
    BY <1>3, <1>u, <2>3 DEF FenceExports
  <2> QED BY <2>2, <2>3
<1>4. ASSUME NEW c \in Calls, Advance(c) PROVE Goal
  <2>1. At(c, "advance")
    BY <1>4 DEF Advance
  <2>2. call[c].checkpoint \in {1, 2}
    BY <1>c, <2>1 DEF CheckpointsAt, DeletionSteps, ExportsFenced, ObjectsDeleted
  <2> DEFINE next == call[c].checkpoint + 1
             pc == StepAfter(next)
  <2>3. CASE OwnsDeletion(c)
    <3>1. /\ del' = [del EXCEPT !.checkpoint = next]
          /\ call' = [call EXCEPT ![c].checkpoint = next, ![c].pc = pc]
      BY <1>4, <2>3 DEF Advance
    <3>2. next \in 0 .. 5 /\ call[c].checkpoint < next /\ next < Completed
      BY <2>2 DEF Completed
    <3>3. pc \in DeletionSteps
      BY <2>2 DEF StepAfter, ExportsFenced, ObjectsDeleted, RowsDeleted, KeysErased, DeletionSteps
    <3> HIDE DEF next, pc
    <3>4. del' \in DeletionType /\ del'.checkpoint = next
      BY <1>t, <3>1, <3>2 DEF DeletionType, Accepted, Completed
    <3>5. call'[c].checkpoint = next /\ call'[c].pc = pc
      BY <1>t, <3>1 DEF CallType
    <3>6. AdvancedBy(c)
      BY <2>1, <2>3, <3>2, <3>3, <3>4, <3>5 DEF AdvancedBy, OwnsDeletion, Holds, HeldBy, At
    <3> QED BY <1>a, <3>4, <3>6
  <2>4. CASE ~OwnsDeletion(c)
    BY <1>4, <1>u, <2>4 DEF Advance
  <2> QED BY <2>3, <2>4
<1>5. ASSUME NEW c \in Calls, ClearManifest(c) PROVE Goal
  <2>1. del' = [del EXCEPT !.manifest = {}] \/ del' = del
    BY <1>5 DEF ClearManifest
  <2> QED BY <1>k, <1>t, <2>1 DEF DeletionType
<1>6. ASSUME NEW c \in Calls, EraseKeys(c) PROVE Goal
  <2>1. At(c, "erase")
    BY <1>6 DEF EraseKeys
  <2>2. call[c].checkpoint = RowsDeleted
    BY <1>c, <2>1 DEF CheckpointsAt, DeletionSteps
  <2>3. CASE OwnsDeletion(c)
    <3>1. /\ del' = [del EXCEPT !.checkpoint = KeysErased, !.dek = TRUE]
          /\ call' = [call EXCEPT ![c].checkpoint = KeysErased, ![c].pc = "finalize"]
      BY <1>6, <2>3 DEF EraseKeys
    <3>2. del' \in DeletionType /\ del'.checkpoint = KeysErased
      BY <1>p, <1>t, <3>1 DEF DeletionType
    <3>3. call'[c].checkpoint = KeysErased /\ call'[c].pc \in DeletionSteps
      BY <1>t, <3>1 DEF CallType, DeletionSteps
    <3>4. AdvancedBy(c)
      BY <2>1, <2>2, <2>3, <3>2, <3>3
         DEF AdvancedBy, OwnsDeletion, Holds, HeldBy, At, RowsDeleted, KeysErased, Completed
    <3> QED BY <1>a, <3>2, <3>4
  <2>4. CASE ~OwnsDeletion(c)
    BY <1>6, <1>u, <2>4 DEF EraseKeys
  <2> QED BY <2>3, <2>4
<1>7. ASSUME NEW c \in Calls, FinalizeDeletion(c) PROVE Goal
  <2>1. \/ UNCHANGED del
        \/ /\ del' = [del EXCEPT !.status = "completed", !.checkpoint = Completed]
           /\ job' = [job EXCEPT ![Deletion] = NoJob]
    BY <1>7 DEF FinalizeDeletion
  <2>2. ASSUME del' = [del EXCEPT !.status = "completed", !.checkpoint = Completed],
               job' = [job EXCEPT ![Deletion] = NoJob]
        PROVE  Goal
    <3>1. del' \in DeletionType /\ del'.checkpoint = Completed
      BY <1>p, <1>t, <2>2 DEF DeletionType
    <3>2. job'[Deletion].status = "absent"
      BY <2>2, Typing, Beginnings
    <3>3. At(c, "finalize") /\ call[c].checkpoint = KeysErased /\ user # "active"
      BY <1>7, <1>c DEF FinalizeDeletion, CheckpointsAt, DeletionSteps, At, StepOK
    <3>4. PastRows(call[c])
      BY <3>3 DEF PastRows, At, DeletionSteps, KeysErased, RowsDeleted
    <3>5. ~rows /\ ~keys
      BY <3>3, <3>4 DEF StepOK, At, DeletionSteps, KeysErased
    <3> QED BY <3>1, <3>2, <3>3, <3>5, AccountMoves DEF Goal, DeletionMove
  <2> QED BY <1>u, <2>1, <2>2
<1>8. ASSUME NEW c \in Calls, ReleaseDeletion(c) PROVE Goal
  <2>1. del' = [del EXCEPT !.status = "queued"] \/ del' = del
    BY <1>8 DEF ReleaseDeletion
  <2> QED BY <1>k, <1>t, <2>1 DEF DeletionType
<1>9. CASE Tick
  <2>1. Less(del.fence) \in Nat
    BY <1>t DEF Less, DeletionType
  <2>2. del' = [del EXCEPT !.fence = Less(del.fence)]
    BY <1>9, <1>t DEF Tick, DeletionType
  <2> QED BY <1>k, <1>t, <2>1, <2>2 DEF DeletionType
<1>10. CASE UNCHANGED stored
  BY <1>10, <1>u DEF stored, deletionVars
<1>11. ASSUME NEW c \in Calls, Write(c) PROVE Goal
  <2>1. CASE \/ JobWrite(c) \/ ObjectWrite(c) \/ AnswerWrite(c) \/ RequestWrite(c)
             \/ Reservation(c) \/ DeleteUserRows(c)
    BY <1>u, <2>1, Frames DEF deletionVars
  <2> QED BY <1>1, <1>2, <1>3, <1>4, <1>5, <1>6, <1>7, <1>8, <1>11, <2>1 DEF Write
<1> QED BY <1>9, <1>10, <1>11, Writers
-----------------------------------------------------------------------------
(* Types, at last.                                                         *)

\* The queue and the counters of faults keep their types.
LEMMA QueueTypes ==
  ASSUME TypeOK, [Next]_vars
  PROVE  inbox' \in [Jobs -> SUBSET MessageType] /\ deaths' \in Nat /\ throws' \in Nat
<1> DEFINE Goal == inbox' \in [Jobs -> SUBSET MessageType] /\ deaths' \in Nat /\ throws' \in Nat
<1>t. inbox \in [Jobs -> SUBSET MessageType] /\ deaths \in Nat /\ throws \in Nat
  BY Typing
<1>u. ASSUME UNCHANGED <<inbox, faultVars>> PROVE Goal
  BY <1>u, <1>t DEF faultVars
<1>m. ASSUME inbox' \in [Jobs -> SUBSET MessageType], UNCHANGED faultVars PROVE Goal
  BY <1>m, <1>t DEF faultVars
<1>p. ASSUME NEW c \in Calls
      PROVE  /\ Redeliver(c) => inbox' \in [Jobs -> SUBSET MessageType]
             /\ Retry(c, 0) => inbox' \in [Jobs -> SUBSET MessageType]
             /\ Retry(c, RetryDelay) => inbox' \in [Jobs -> SUBSET MessageType]
             /\ Post(call[c].job, Message(0, 0)) => inbox' \in [Jobs -> SUBSET MessageType]
             /\ inbox' = inbox => inbox' \in [Jobs -> SUBSET MessageType]
  BY <1>t, Posting, Beginnings DEF Redeliver
<1>f. ASSUME inbox' \in [Jobs -> SUBSET MessageType],
             \/ throws' = throws + 1 /\ deaths' = deaths
             \/ deaths' = deaths + 1 /\ throws' = throws
      PROVE  Goal
  BY <1>f, <1>t
<1> SUFFICES Goal
  OBVIOUS
<1> HIDE DEF Goal
<1>1. ASSUME NEW c \in Calls, Send(c) \/ RecoverSend(c) PROVE Goal
  BY <1>1, <1>m, <1>p DEF Send, RecoverSend
<1>2. ASSUME NEW c \in Calls, LoadExport(c) \/ LoadDeletion(c) \/ DecryptCommand(c) PROVE Goal
  <2>1. UNCHANGED faultVars
    BY <1>2 DEF LoadExport, LoadDeletion, DecryptCommand
  <2>2. Redeliver(c) \/ inbox' = inbox
    BY <1>2 DEF LoadExport, LoadDeletion, DecryptCommand
  <2> QED BY <1>m, <1>p, <2>1, <2>2
<1>3. ASSUME NEW c \in Calls, ReleaseExport(c) \/ ReleaseDeletion(c) PROVE Goal
  <2>1. UNCHANGED faultVars
    BY <1>3 DEF ReleaseExport, ReleaseDeletion
  <2>2. Retry(c, RetryDelay) \/ inbox' = inbox
    BY <1>3 DEF ReleaseExport, ReleaseDeletion
  <2> QED BY <1>m, <1>p, <2>1, <2>2
<1>4. ASSUME NEW c \in Calls, Mark(c) \/ MarkRunning(c) PROVE Goal
  BY <1>4, <1>u DEF Mark, MarkRunning
<1>5. ASSUME NEW c \in Calls, ExportStep(c), ~ReleaseExport(c) PROVE Goal
  BY <1>5, <1>u DEF ExportStep, SealExport, CheckExport, HeadExport, PutExport, PublishExport,
       CheckFencedOwner, DropLateExport, FailExport, DropFailedExport, MarkFailedExport
<1>6. ASSUME NEW c \in Calls, DeletionStep(c), ~ReleaseDeletion(c), ~DecryptCommand(c) PROVE Goal
  BY <1>6, <1>u DEF DeletionStep, ProbeClaim, CheckLiveExport, CollectKeys, FenceExports,
       DropRegisteredObjects, DeleteUserRows, DeleteUserJobs, Advance, EraseKeys, FinalizeDeletion
<1>7. ASSUME NEW c \in Calls, MaintenanceStep(c), ~RecoverSend(c) PROVE Goal
  BY <1>7, <1>u DEF MaintenanceStep, DropExpired, MarkExpired, SweepObjects, ClearManifest,
       RecoverMark
<1>8. ASSUME NEW c \in Calls, Fault(c) PROVE Goal
  <2>1. CASE Die(c)
    <3>1. deaths' = deaths + 1 /\ throws' = throws /\ (Retry(c, 0) \/ inbox' = inbox)
      BY <2>1 DEF Die
    <3> QED BY <1>f, <1>p, <3>1
  <2>2. CASE ThrowInExport(c) \/ ThrowInDeletion(c) \/ SendThrows(c)
    <3>1. throws' = throws + 1 /\ deaths' = deaths /\ inbox' = inbox
      BY <2>2 DEF ThrowInExport, ThrowInDeletion, SendThrows
    <3> QED BY <1>f, <1>p, <3>1
  <2> QED BY <1>8, <2>1, <2>2 DEF Fault
<1>9. ASSUME NEW c \in Calls, NEW j \in Jobs, ClaimJob(c, j) PROVE Goal
  <2>1. PICK tries : Take(j, tries)
    BY <1>9 DEF ClaimJob
  <2>2. inbox' \in [Jobs -> SUBSET MessageType]
    BY <1>t, <2>1 DEF Take
  <2> QED BY <1>9, <1>m, <2>2 DEF ClaimJob
<1>10. ASSUME NEW j \in Jobs, IgnoreMessage(j) PROVE Goal
  <2>1. PICK tries : Take(j, tries)
    BY <1>10 DEF IgnoreMessage
  <2>2. inbox' \in [Jobs -> SUBSET MessageType]
    BY <1>t, <2>1 DEF Take
  <2> QED BY <1>10, <1>m, <2>2 DEF IgnoreMessage
<1>11. ASSUME NEW j \in Jobs, ClaimThrows(j) PROVE Goal
  <2>1. PICK m \in inbox[j] :
           inbox' = [inbox EXCEPT ![j] = (@ \ {m}) \cup
                        (IF m.tries < MaxRetries THEN {Message(0, m.tries + 1)} ELSE {})]
    BY <1>11 DEF ClaimThrows
  <2>2. m \in MessageType
    BY <1>t, <2>1
  <2>3. Message(0, m.tries + 1) \in MessageType
    BY <2>2 DEF Message, MessageType
  <2>4. inbox' \in [Jobs -> SUBSET MessageType]
    BY <1>t, <2>1, <2>3
  <2> QED BY <1>11, <1>f, <2>4 DEF ClaimThrows
<1>12. ASSUME NEW c \in Calls,
              \/ ReserveDeletion(c) \/ SelectManifest(c)
              \/ \E x \in Exports : ReserveExport(c, x) \/ SelectExpired(c, x) \/ SelectFailed(c, x)
              \/ \E j \in Jobs : SelectRecoverable(c, j)
       PROVE  Goal
  BY <1>12, <1>u DEF ReserveDeletion, SelectManifest, ReserveExport, SelectExpired, SelectFailed,
       SelectRecoverable
<1>13. CASE Tick
  <2>1. ASSUME NEW j \in Jobs, NEW m \in inbox[j]
        PROVE  [m EXCEPT !.delay = Less(@)] \in MessageType
    <3>1. m \in MessageType
      BY <1>t
    <3>2. Less(m.delay) \in Nat
      BY <3>1 DEF Less, MessageType
    <3> QED BY <3>1, <3>2 DEF MessageType
  <2>2. inbox' = [j \in Jobs |-> {[m EXCEPT !.delay = Less(@)] : m \in inbox[j]}]
    BY <1>13 DEF Tick
  <2>3. inbox' \in [Jobs -> SUBSET MessageType]
    BY <2>1, <2>2
  <2> QED BY <1>13, <1>m, <2>3 DEF Tick
<1>14. CASE UNCHANGED vars \/ Fence \/ Lift
  BY <1>14, <1>u DEF vars, Fence, Lift
<1>15. ASSUME NEW c \in Calls, CallStep(c) \/ Start(c) PROVE Goal
  <2>1. CASE RouteStep(c) \/ ClaimStep(c)
    BY <1>1, <1>2, <1>4, <2>1 DEF RouteStep, ClaimStep
  <2>2. CASE Start(c)
    BY <1>9, <1>12, <2>2 DEF Start
  <2> QED BY <1>1, <1>2, <1>3, <1>5, <1>6, <1>7, <1>15, <2>1, <2>2 DEF CallStep
<1> QED BY <1>8, <1>10, <1>11, <1>13, <1>14, <1>15 DEF Next

\* The actions that write the fence of a rotation or the history of its victims.
LEMMA RotationMoves ==
  ASSUME [Next]_vars
  PROVE  \/ UNCHANGED fenceVars
         \/ Fence \/ Lift
         \/ \E c \in Calls : ReserveDeletion(c)
         \/ \E j \in Jobs : IgnoreMessage(j) \/ \E c \in Calls : ClaimJob(c, j)
<1> DEFINE Goal == \/ UNCHANGED fenceVars
                   \/ Fence \/ Lift
                   \/ \E c \in Calls : ReserveDeletion(c)
                   \/ \E j \in Jobs : IgnoreMessage(j) \/ \E c \in Calls : ClaimJob(c, j)
<1>1. ASSUME NEW c \in Calls, RouteStep(c) \/ ClaimStep(c) \/ ExportStep(c) PROVE UNCHANGED fenceVars
  BY <1>1 DEF RouteStep, ClaimStep, ExportStep, Send, Mark, MarkRunning, LoadExport, LoadDeletion,
       SealExport, CheckExport, HeadExport, PutExport, PublishExport, CheckFencedOwner,
       DropLateExport, FailExport, DropFailedExport, MarkFailedExport, ReleaseExport, accountVars
<1>2. ASSUME NEW c \in Calls, DeletionStep(c) PROVE UNCHANGED fenceVars
  BY <1>2 DEF DeletionStep, DecryptCommand, ProbeClaim, CheckLiveExport, CollectKeys, FenceExports,
       DropRegisteredObjects, DeleteUserRows, DeleteUserJobs, Advance, EraseKeys, FinalizeDeletion,
       ReleaseDeletion, accountVars
<1>3. ASSUME NEW c \in Calls, MaintenanceStep(c) \/ Fault(c) PROVE UNCHANGED fenceVars
  BY <1>3 DEF MaintenanceStep, Fault, DropExpired, MarkExpired, SweepObjects, ClearManifest,
       RecoverSend, RecoverMark, ThrowInExport, ThrowInDeletion, Die, SendThrows, accountVars
<1>4. ASSUME NEW c \in Calls, Start(c) PROVE Goal
  BY <1>4 DEF Start, SelectManifest, ReserveExport, SelectExpired, SelectFailed, SelectRecoverable,
       accountVars
<1>5. Tick \/ UNCHANGED vars \/ (\E j \in Jobs : ClaimThrows(j)) => UNCHANGED fenceVars
  BY DEF Tick, vars, ClaimThrows, accountVars
<1> QED BY <1>1, <1>2, <1>3, <1>4, <1>5 DEF Next, CallStep

\* They keep its types.
LEMMA RotationTypes ==
  ASSUME TypeOK, [Next]_vars
  PROVE  fenced' \in BOOLEAN /\ turned' \subseteq Exports
<1>1. fenced \in BOOLEAN /\ turned \subseteq Exports
  BY Typing
<1>2. ASSUME NEW j \in Jobs, IgnoreMessage(j)
      PROVE  fenced' = fenced /\ turned' \subseteq Exports
  BY <1>1, <1>2, Beginnings DEF IgnoreMessage
<1>3. ASSUME NEW j \in Jobs, NEW c \in Calls, ClaimJob(c, j)
      PROVE  fenced' = fenced /\ turned' = turned \ {j}
  BY <1>3 DEF ClaimJob
<1>4. ASSUME NEW c \in Calls, ReserveDeletion(c) PROVE fenced' = FALSE /\ turned' = {}
  BY <1>4 DEF ReserveDeletion
<1>5. UNCHANGED fenceVars \/ Fence \/ Lift => fenced' \in BOOLEAN /\ turned' = turned
  BY <1>1 DEF fenceVars, Fence, Lift
<1> QED BY <1>1, <1>2, <1>3, <1>4, <1>5, RotationMoves

\* Every step keeps the types.
LEMMA TypeStep ==
  ASSUME TypeOK, \A c \in Calls : StepOK(call[c]), [Next]_vars
  PROVE  TypeOK'
<1>1. /\ user' \in {"active", "pending", "deleted"}
      /\ keys' \in BOOLEAN /\ rows' \in BOOLEAN /\ command' \in BOOLEAN
  BY AccountMoves
<1>2. /\ job' \in [Jobs -> JobType] /\ req' \in [Exports -> RequestType]
      /\ del' \in DeletionType /\ object' \in [Exports -> Nat]
  BY JobMoves, RequestMoves, DeletionMoves, ObjectMoves
<1>3. /\ call' \in [Calls -> CallType] /\ inbox' \in [Jobs -> SUBSET MessageType]
      /\ deaths' \in Nat /\ throws' \in Nat
  BY CallMoves, QueueTypes
<1>4. fenced' \in BOOLEAN /\ turned' \subseteq Exports
  BY RotationTypes
<1> QED BY <1>1, <1>2, <1>3, <1>4 DEF TypeOK, RequestType, DeletionType, MessageType
-----------------------------------------------------------------------------
(* What a call has at its step.                                            *)

\* What k has does not go away, whatever the others do.
LEMMA StepKept ==
  ASSUME TypeOK, [Next]_vars, NEW k, StepOK(k)
  PROVE  StepOK(k)'
<1>1. /\ user' = "active" => user = "active"
      /\ ~rows => ~rows'
      /\ ~keys => ~keys'
  BY AccountMoves
<1>2. PastRows(k)' <=> PastRows(k)
  BY DEF PastRows
<1> QED BY <1>1, <1>2 DEF StepOK

\* At most steps a call has its export and its token, or nothing at all.
LEMMA PlainSteps ==
  ASSUME NEW k \in CallType,
         \/ k.pc \in {"idle", "send", "mark", "recoverSend", "recoverMark"}
         \/ /\ k.pc \in ExportWork \ {"put", "dropLate"} /\ k.job \in Exports
            /\ k.pc \in ConsumerSteps => k.attempt > 0
  PROVE  StepOK(k)'
<1>1. k.pc \notin DeletionSteps
  BY StepSets DEF DeletionSteps
<1>2. k.pc \notin {"put", "dropLate", "sweepDrop", "sweepClear", "start", "load"}
  BY DEF ExportWork, ExportSteps
<1>3. k.pc \in ExportWork => k.job \in Exports
  BY DEF ExportWork, ExportSteps
<1>4. k.pc \in ConsumerSteps => k.attempt > 0
  BY StepSets
<1> QED BY <1>1, <1>2, <1>3, <1>4 DEF StepOK, PastRows

\* At a step of the deletion it has a checkpoint and what comes before it.
LEMMA DeletionEntry ==
  ASSUME NEW k, NEW pc \in DeletionSteps, k.pc = pc, k.job = Deletion, k.attempt > 0,
         k.checkpoint \in CheckpointsAt(pc), user' # "active",
         PastRows(k) => ~rows', k.checkpoint >= KeysErased => ~keys'
  PROVE  StepOK(k)'
<1>1. pc \notin ExportWork /\ pc \notin {"put", "start", "load"}
  BY StepSets DEF DeletionSteps
<1> QED BY <1>1 DEF StepOK, PastRows

\* Every call has at its next step what it needs there.
LEMMA StepStep ==
  ASSUME TypeOK, AccountOK, \A c \in Calls : StepOK(call[c]), [Next]_vars
  PROVE  \A c \in Calls : StepOK(call[c])'
<1> DEFINE Goal == \A d \in Calls : StepOK(call[d])'
<1>t. /\ call \in [Calls -> CallType] /\ \A c \in Calls : call[c] \in CallType
      /\ Idle \in CallType /\ Idle.pc = "idle"
  BY Typing, Beginnings
<1>o. \A c \in Calls : StepOK(call[c]) /\ call[c] \in CallType
  BY <1>t
<1>m. ASSUME NEW c \in Calls, NEW k \in CallType, MovesTo(c, k), StepOK(k)' PROVE Goal
  <2>1. ASSUME NEW d \in Calls \ {c} PROVE StepOK(call[d])'
    <3>1. PICK l : l = call[d] /\ StepOK(l)
      BY <1>o
    <3>2. l = call'[d] /\ StepOK(l)'
      BY <1>m, <3>1, StepKept DEF MovesTo
    <3> QED BY <3>2
  <2>2. StepOK(call[c])'
    BY <1>m DEF MovesTo
  <2> QED BY <2>1, <2>2
<1>w. ASSUME \A c \in Calls : Waits(call[c], call'[c]) PROVE Goal
  <2> SUFFICES ASSUME NEW d \in Calls PROVE StepOK(call[d])'
    OBVIOUS
  <2>1. PICK l : l = call[d] /\ StepOK(l)
    BY <1>o
  <2>2. StepOK(l)'
    BY <2>1, StepKept
  <2>3. Waits(l, call'[d])
    BY <1>w, <2>1
  <2>4. PICK k : k = call'[d]
    OBVIOUS
  <2>5. StepOK(k)'
    BY <2>2, <2>3, <2>4 DEF Waits, StepOK, PastRows
  <2> QED BY <2>4, <2>5
<1>e. ASSUME NEW c \in Calls, Ends(c) PROVE Goal
  <2>1. StepOK(Idle)'
    BY <1>t, PlainSteps
  <2> QED BY <1>e, <1>m, <1>t, <2>1 DEF Ends
<1>p. ASSUME NEW c \in Calls, NEW pc \in {"mark", "recoverMark"}, Goes(c, pc) PROVE Goal
  <2>1. PICK k \in CallType : k = [call[c] EXCEPT !.pc = pc] /\ MovesTo(c, k)
    BY <1>p DEF Goes, MovesTo
  <2>2. k.pc = pc
    BY <1>t, <2>1 DEF CallType
  <2> QED BY <1>m, <2>1, <2>2, PlainSteps
<1>x. ASSUME NEW c \in Calls, NEW pc \in ExportWork \ {"put", "dropLate"}, Goes(c, pc),
             call[c].job \in Exports,
             pc \in ConsumerSteps => call[c].attempt > 0
      PROVE  Goal
  <2>1. PICK k \in CallType : k = [call[c] EXCEPT !.pc = pc] /\ MovesTo(c, k)
    BY <1>x DEF Goes, MovesTo
  <2>2. k.pc = pc /\ k.job = call[c].job /\ k.attempt = call[c].attempt
    BY <1>t, <2>1 DEF CallType
  <2> QED BY <1>m, <1>x, <2>1, <2>2, PlainSteps
<1>c. ASSUME NEW c \in Calls, NEW pc \in ExportWork, At(c, pc)
      PROVE  /\ call[c].job \in Exports
             /\ pc \in ConsumerSteps => call[c].attempt > 0
             /\ call[c].pc = pc
  BY <1>c DEF At, StepOK
<1>d. ASSUME NEW c \in Calls, NEW k \in CallType, MovesTo(c, k), NEW pc \in DeletionSteps,
             k.pc = pc, k.job = Deletion, k.attempt > 0, k.checkpoint \in CheckpointsAt(pc),
             user # "active", PastRows(k) => ~rows', k.checkpoint >= KeysErased => ~keys'
      PROVE  Goal
  <2>1. user' # "active"
    BY <1>d, AccountMoves
  <2> QED BY <1>d, <1>m, <2>1, DeletionEntry
<1>a. ASSUME NEW c \in Calls, NEW pc \in DeletionSteps, At(c, pc)
      PROVE  /\ call[c].job = Deletion /\ call[c].attempt > 0 /\ user # "active"
             /\ call[c].checkpoint \in CheckpointsAt(pc) /\ call[c].checkpoint \in 0 .. 5
             /\ PastRows(call[c]) => ~rows'
             /\ call[c].checkpoint >= KeysErased => ~keys'
             /\ call[c].checkpoint >= RowsDeleted => PastRows(call[c])
             /\ call[c].pc = pc
  <2>1. /\ ~rows => ~rows'
        /\ ~keys => ~keys'
    BY AccountMoves
  <2>2. call[c].checkpoint \in 0 .. 5
    BY <1>t, CallTyping
  <2> QED BY <1>a, <2>1, <2>2, StepSets DEF At, StepOK, PastRows
<1>n. ASSUME NEW c \in Calls, NEW pc \in DeletionSteps, At(c, pc), NEW next \in DeletionSteps,
             Goes(c, next), call[c].checkpoint \in CheckpointsAt(next),
             next = "deleteJobs" \/ (next = "advance" /\ call[c].checkpoint = ObjectsDeleted)
               => ~rows'
      PROVE  Goal
  <2>1. PICK k \in CallType : k = [call[c] EXCEPT !.pc = next] /\ MovesTo(c, k)
    BY <1>n DEF Goes, MovesTo
  <2>2. /\ k.pc = next /\ k.job = call[c].job /\ k.attempt = call[c].attempt
        /\ k.checkpoint = call[c].checkpoint
    BY <1>t, <2>1 DEF CallType
  <2>3. PastRows(k) => ~rows'
    BY <1>a, <1>n, <2>2 DEF PastRows
  <2>4. /\ k.job = Deletion /\ k.attempt > 0 /\ user # "active"
        /\ k.checkpoint >= KeysErased => ~keys'
    BY <1>a, <1>n, <2>2
  <2> QED BY <1>d, <1>n, <2>1, <2>2, <2>3, <2>4
<1> SUFFICES Goal
  OBVIOUS
<1> HIDE DEF Goal
<1>1. ASSUME NEW c \in Calls, RouteStep(c) \/ MarkRunning(c) \/ LoadExport(c) PROVE Goal
  <2>1. CASE MarkRunning(c)
    <3>1. At(c, "start") /\ Goes(c, "load")
      BY <2>1, ClaimCalls
    <3>2. PICK k \in CallType : k = [call[c] EXCEPT !.pc = "load"] /\ MovesTo(c, k)
      BY <3>1 DEF Goes, MovesTo
    <3>3. /\ k.pc = "load" /\ k.job = call[c].job /\ k.attempt = call[c].attempt
      BY <1>t, <3>2 DEF CallType
    <3>4. /\ call[c].attempt > 0
          /\ call[c].job = Deletion => user' # "active"
      BY <3>1, AccountMoves DEF At, StepOK, ConsumerSteps
    <3>5. StepOK(k)'
      BY <3>3, <3>4 DEF StepOK, PastRows, DeletionSteps, ExportWork, ExportSteps
    <3> QED BY <1>m, <3>2, <3>5
  <2>2. CASE LoadExport(c)
    <3>1. At(c, "load") /\ call[c].job # Deletion /\ (Goes(c, "build") \/ Ends(c))
      BY <2>2, ClaimCalls
    <3>2. call[c].job \in Exports /\ call[c].attempt > 0
      BY <1>t, <3>1, CallTyping, Beginnings DEF At, StepOK, ConsumerSteps
    <3>3. "build" \in ExportWork
      BY DEF ExportWork, ExportSteps
    <3> QED BY <1>e, <1>x, <3>1, <3>2, <3>3
  <2> QED BY <1>1, <1>e, <1>p, <2>1, <2>2, ClaimCalls DEF RouteStep
<1>2. ASSUME NEW c \in Calls, LoadDeletion(c) PROVE Goal
  <2>1. At(c, "load") /\ call[c].job = Deletion
    BY <1>2, ClaimCalls
  <2>2. CASE Ends(c)
    BY <1>e, <2>2
  <2>3. CASE ~Ends(c)
    <3>1. Holds(c) /\ del \in DeletionType
      BY <1>2, <2>3, ClaimCalls, Typing
    <3>2. del.checkpoint \in 0 .. 4
      <4>1. del.checkpoint \in 0 .. 5 /\ del.checkpoint # Completed
        BY <2>1, <3>1 DEF DeletionType, AccountOK, Holds, Accepted, Completed
      <4> QED BY <4>1 DEF Completed
    <3> DEFINE pc == IF del.checkpoint = KeysErased THEN "probe" ELSE "decrypt"
    <3>3. PICK k \in CallType :
             k = [call[c] EXCEPT !.checkpoint = del.checkpoint, !.pc = pc] /\ MovesTo(c, k)
      BY <1>2, <2>3, ClaimCalls DEF MovesTo
    <3>4. pc \in DeletionSteps /\ pc # "deleteJobs" /\ pc # "advance"
      BY DEF DeletionSteps
    <3>5. del.checkpoint \in CheckpointsAt(pc)
      BY <3>2 DEF CheckpointsAt, Accepted, ExportsFenced, RowsDeleted, KeysErased
    <3> HIDE DEF pc
    <3>6. /\ k.pc = pc /\ k.job = call[c].job /\ k.attempt = call[c].attempt
          /\ k.checkpoint = del.checkpoint
      BY <1>t, <3>3 DEF CallType
    <3>7. call[c].attempt > 0 /\ user # "active"
      BY <2>1 DEF At, StepOK, ConsumerSteps
    <3>8. /\ PastRows(k) => ~rows'
          /\ k.checkpoint >= KeysErased => ~keys'
      BY <3>4, <3>6, AccountMoves DEF PastRows, AccountOK
    <3> QED BY <1>d, <2>1, <3>3, <3>4, <3>5, <3>6, <3>7, <3>8
  <2> QED BY <2>2, <2>3
<1>3. ASSUME NEW c \in Calls, ExportStep(c) PROVE Goal
  <2>1. /\ {"build", "check", "head", "put", "publish", "ownerCheck", "dropLate", "fail",
            "dropFailed", "markFailed", "releaseExport"} \subseteq ExportWork \cap ConsumerSteps
        /\ {"cleanDrop", "cleanMark"} \subseteq ExportWork \ ConsumerSteps
    BY StepSets DEF ExportWork, ExportSteps, ConsumerSteps
  <2>2. CASE HeadExport(c)
    <3>1. At(c, "head")
      BY <2>2, ExportCalls
    <3>2. CASE Ends(c)
      BY <1>e, <3>2
    <3>3. CASE ~Ends(c)
      <4>1. call[c].job \in Exports /\ call[c].attempt > 0
        BY <1>c, <2>1, <3>1
      <4>2. PICK k \in CallType :
               k = [call[c] EXCEPT !.pc = "put", !.etag = object[call[c].job]] /\ MovesTo(c, k)
        BY <2>2, <3>3, ExportCalls DEF MovesTo
      <4>3. object[call[c].job] <= call[c].attempt
        BY <2>2, <3>3, ExportCalls
      <4>4. /\ k.pc = "put" /\ k.job = call[c].job /\ k.attempt = call[c].attempt
            /\ k.etag = object[call[c].job]
        BY <1>t, <4>2 DEF CallType
      <4>5. StepOK(k)'
        BY <4>1, <4>3, <4>4 DEF StepOK, PastRows, DeletionSteps
      <4> QED BY <1>m, <4>2, <4>5
    <3> QED BY <3>2, <3>3
  <2>3. CASE CheckFencedOwner(c)
    <3>1. At(c, "ownerCheck") /\ (Ends(c) \/ (user # "active" /\ Goes(c, "dropLate")))
      BY <2>3, ExportCalls
    <3>2. CASE user # "active" /\ Goes(c, "dropLate")
      <4>1. call[c].job \in Exports /\ call[c].attempt > 0
        BY <1>c, <2>1, <3>1
      <4>2. PICK k \in CallType : k = [call[c] EXCEPT !.pc = "dropLate"] /\ MovesTo(c, k)
        BY <3>2 DEF Goes, MovesTo
      <4>3. k.pc = "dropLate" /\ k.job = call[c].job /\ k.attempt = call[c].attempt
        BY <1>t, <4>2 DEF CallType
      <4>4. user' # "active"
        BY <3>2, AccountMoves
      <4>5. StepOK(k)'
        BY <4>1, <4>3, <4>4 DEF StepOK, PastRows, DeletionSteps
      <4> QED BY <1>m, <4>2, <4>5
    <3> QED BY <1>e, <3>1, <3>2
  <2>4. ASSUME NEW pc \in {"build", "check", "head", "put", "publish", "ownerCheck", "fail",
                           "dropFailed"},
               NEW next \in {"check", "head", "publish", "ownerCheck", "fail", "dropFailed",
                             "markFailed"}, At(c, pc), Goes(c, next)
        PROVE  Goal
    <3>1. call[c].job \in Exports /\ call[c].attempt > 0
      BY <1>c, <2>1, <2>4
    <3> QED BY <1>x, <2>1, <2>4, <3>1
  <2>5. CASE SealExport(c) \/ CheckExport(c) \/ PutExport(c)
    BY <1>e, <2>4, <2>5, ExportCalls
  <2>6. CASE PublishExport(c) \/ DropLateExport(c) \/ FailExport(c)
    BY <1>e, <2>4, <2>6, ExportCalls
  <2>7. CASE DropFailedExport(c)
    <3>1. CASE At(c, "cleanDrop") /\ Goes(c, "cleanMark")
      <4>1. call[c].job \in Exports
        BY <1>c, <2>1, <3>1
      <4> QED BY <1>x, <2>1, <3>1, <4>1
    <3> QED BY <2>4, <2>7, <3>1, ExportCalls
  <2>8. CASE MarkFailedExport(c) \/ ReleaseExport(c)
    BY <1>e, <2>8, ExportCalls
  <2> QED BY <1>3, <2>2, <2>3, <2>5, <2>6, <2>7, <2>8 DEF ExportStep
<1>4. ASSUME NEW c \in Calls, DeletionStep(c) PROVE Goal
  <2> DEFINE cp == call[c].checkpoint
  <2>1. {"decrypt", "probe", "liveCheck", "collect", "fence", "collectAgain", "dropObjects",
         "deleteRows", "deleteJobs", "advance", "erase", "finalize", "releaseDeletion"}
          = DeletionSteps
    BY DEF DeletionSteps
  <2>2. \A pc \in DeletionSteps : At(c, pc) => cp \in CheckpointsAt(pc) /\ cp \in 0 .. 5
    BY <1>a
  <2>r. ASSUME NEW pc \in DeletionSteps, At(c, pc), Goes(c, "releaseDeletion") PROVE Goal
    <3>1. cp \in CheckpointsAt("releaseDeletion")
      BY <2>2, <2>r DEF CheckpointsAt, Accepted, Completed
    <3> QED BY <1>n, <2>1, <2>r, <3>1
  <2>3. CASE DecryptCommand(c)
    <3>1. At(c, "decrypt") /\ (Ends(c) \/ Goes(c, FirstStep(cp)))
      BY <2>3, DeletionCalls
    <3>2. cp \in 0 .. 3
      BY <2>1, <2>2, <3>1 DEF CheckpointsAt, Accepted, RowsDeleted
    <3>3. /\ cp \in CheckpointsAt(FirstStep(cp))
          /\ FirstStep(cp) \in DeletionSteps \ {"deleteJobs", "advance"}
      BY <2>1, <3>2 DEF FirstStep, CheckpointsAt, Accepted, ExportsFenced, KeysErased
    <3> HIDE DEF cp
    <3>4. PICK next \in DeletionSteps : next = FirstStep(cp) /\ next \notin {"deleteJobs", "advance"}
      BY <3>3
    <3> QED BY <1>e, <1>n, <2>1, <3>1, <3>3, <3>4 DEF cp
  <2>4. CASE ProbeClaim(c)
    <3>1. At(c, "probe") /\ (Goes(c, "releaseDeletion") \/ Goes(c, StepAfter(cp)))
      BY <2>4, DeletionCalls
    <3>2. cp \in 1 .. 4
      BY <2>1, <2>2, <3>1 DEF CheckpointsAt, ExportsFenced, KeysErased
    <3>3. /\ cp \in CheckpointsAt(StepAfter(cp))
          /\ StepAfter(cp) \in DeletionSteps \ {"deleteJobs", "advance"}
      BY <2>1, <3>2 DEF StepAfter, CheckpointsAt, Accepted, ExportsFenced, ObjectsDeleted,
                        RowsDeleted, KeysErased
    <3> HIDE DEF cp
    <3>4. PICK next \in DeletionSteps : next = StepAfter(cp) /\ next \notin {"deleteJobs", "advance"}
      BY <3>3
    <3> QED BY <1>n, <2>1, <2>r, <3>1, <3>3, <3>4 DEF cp
  <2>5. CASE CheckLiveExport(c)
    <3>1. At(c, "liveCheck") /\ (Goes(c, "releaseDeletion") \/ Goes(c, "collect"))
      BY <2>5, DeletionCalls
    <3>2. cp \in CheckpointsAt("collect")
      BY <2>1, <2>2, <3>1 DEF CheckpointsAt
    <3> QED BY <1>n, <2>1, <2>r, <3>1, <3>2
  <2>6. CASE CollectKeys(c)
    <3>1. PICK pc \in {"collect", "collectAgain"} :
             /\ At(c, pc)
             /\ MovesTo(c, [call[c] EXCEPT !.keys = Registered,
                              !.pc = IF pc = "collect" THEN "fence" ELSE "dropObjects"])
      BY <2>6, DeletionCalls
    <3>2. PICK next : next = IF pc = "collect" THEN "fence" ELSE "dropObjects"
      OBVIOUS
    <3>3. PICK k \in CallType :
             MovesTo(c, k) /\ k = [call[c] EXCEPT !.keys = Registered, !.pc = next]
      BY <3>1, <3>2 DEF MovesTo
    <3>4. /\ k.pc = next /\ k.job = call[c].job /\ k.attempt = call[c].attempt
          /\ k.checkpoint = cp
      BY <1>t, <3>3 DEF CallType
    <3>5. pc \in DeletionSteps /\ next \in DeletionSteps \ {"deleteJobs", "advance"}
      BY <2>1, <3>2
    <3>6. cp \in CheckpointsAt(next)
      BY <2>2, <3>1, <3>2, <3>5 DEF CheckpointsAt
    <3>7. PastRows(k) => PastRows(call[c])
      BY <1>a, <3>1, <3>4, <3>5 DEF PastRows
    <3>8. /\ k.job = Deletion /\ k.attempt > 0 /\ user # "active"
          /\ PastRows(k) => ~rows'
          /\ k.checkpoint >= KeysErased => ~keys'
      BY <1>a, <3>1, <3>4, <3>5, <3>7
    <3> QED BY <1>d, <3>3, <3>4, <3>5, <3>6, <3>8
  <2>7. CASE FenceExports(c)
    <3>1. At(c, "fence")
      BY <2>7, DeletionCalls
    <3>2. CASE Goes(c, "releaseDeletion")
      BY <2>1, <2>r, <3>1, <3>2
    <3>3. CASE ~Goes(c, "releaseDeletion")
      <4>1. PICK k \in CallType :
               /\ MovesTo(c, k)
               /\ k = [call[c] EXCEPT !.checkpoint = ExportsFenced, !.pc = "collectAgain"]
        BY <2>7, <3>3, DeletionCalls DEF MovesTo
      <4>2. /\ k.pc = "collectAgain" /\ k.job = call[c].job /\ k.attempt = call[c].attempt
            /\ k.checkpoint = ExportsFenced
        BY <1>t, <4>1 DEF CallType
      <4>3. ExportsFenced \in CheckpointsAt("collectAgain")
        BY DEF CheckpointsAt
      <4>4. ~PastRows(k) /\ ~(k.checkpoint >= KeysErased)
        BY <4>2 DEF PastRows, ExportsFenced, RowsDeleted, KeysErased
      <4>5. k.job = Deletion /\ k.attempt > 0 /\ user # "active"
        BY <1>a, <2>1, <3>1, <4>2
      <4> QED BY <1>d, <2>1, <4>1, <4>2, <4>3, <4>4, <4>5
    <3> QED BY <3>2, <3>3
  <2>8. CASE DropRegisteredObjects(c)
    <3>1. At(c, "dropObjects") /\ Goes(c, "advance")
      BY <2>8, DeletionCalls
    <3>2. cp = ExportsFenced
      BY <2>1, <2>2, <3>1 DEF CheckpointsAt
    <3>3. cp \in CheckpointsAt("advance") /\ cp # ObjectsDeleted
      BY <3>2 DEF CheckpointsAt, ExportsFenced, ObjectsDeleted
    <3> QED BY <1>n, <2>1, <3>1, <3>3
  <2>9. CASE DeleteUserRows(c)
    <3>1. At(c, "deleteRows") /\ Goes(c, "deleteJobs") /\ ~rows'
      BY <2>9, DeletionCalls DEF DeleteUserRows
    <3>2. cp \in CheckpointsAt("deleteJobs")
      BY <2>1, <2>2, <3>1 DEF CheckpointsAt
    <3> QED BY <1>n, <2>1, <3>1, <3>2
  <2>10. CASE DeleteUserJobs(c)
    <3>1. At(c, "deleteJobs") /\ Goes(c, "advance")
      BY <2>10, DeletionCalls
    <3>2. cp = ObjectsDeleted
      BY <2>1, <2>2, <3>1 DEF CheckpointsAt
    <3>3. cp \in CheckpointsAt("advance")
      BY <3>2 DEF CheckpointsAt
    <3>4. PastRows(call[c])
      BY <2>1, <3>1 DEF PastRows, At
    <3> QED BY <1>a, <1>n, <2>1, <3>1, <3>3, <3>4
  <2>11. CASE Advance(c)
    <3>1. At(c, "advance")
      BY <2>11, DeletionCalls
    <3>2. CASE Ends(c)
      BY <1>e, <3>2
    <3>3. CASE ~Ends(c)
      <4>1. PICK next : next = IF cp = ExportsFenced THEN "deleteRows" ELSE "erase"
        OBVIOUS
      <4>2. PICK k \in CallType :
               MovesTo(c, k) /\ k = [call[c] EXCEPT !.checkpoint = cp + 1, !.pc = next]
        BY <2>11, <3>3, <4>1, DeletionCalls DEF MovesTo
      <4>3. /\ k.pc = next /\ k.job = call[c].job /\ k.attempt = call[c].attempt
            /\ k.checkpoint = cp + 1
        BY <1>t, <4>2 DEF CallType
      <4>4. cp \in {1, 2}
        BY <2>1, <2>2, <3>1 DEF CheckpointsAt, ExportsFenced, ObjectsDeleted
      <4>5. cp + 1 \in CheckpointsAt(next) /\ next \in DeletionSteps \ {"deleteJobs", "advance"}
        BY <2>1, <4>1, <4>4 DEF CheckpointsAt, ExportsFenced, ObjectsDeleted, RowsDeleted
      <4>6. ~(k.checkpoint >= KeysErased)
        BY <4>3, <4>4 DEF KeysErased
      <4>7. PastRows(k) => PastRows(call[c])
        BY <2>1, <3>1, <4>3, <4>4, <4>5 DEF PastRows, At, RowsDeleted, ObjectsDeleted
      <4>8. /\ k.job = Deletion /\ k.attempt > 0 /\ user # "active"
            /\ PastRows(k) => ~rows'
        BY <1>a, <2>1, <3>1, <4>3, <4>7
      <4> HIDE DEF cp
      <4> QED BY <1>d, <4>2, <4>3, <4>5, <4>6, <4>8
    <3> QED BY <3>2, <3>3
  <2>12. CASE EraseKeys(c)
    <3>1. At(c, "erase") /\ ~keys'
      BY <2>12, DeletionCalls DEF EraseKeys
    <3>2. PICK k \in CallType :
             MovesTo(c, k) /\ k = [call[c] EXCEPT !.checkpoint = KeysErased, !.pc = "finalize"]
      BY <2>12, DeletionCalls DEF MovesTo
    <3>3. /\ k.pc = "finalize" /\ k.job = call[c].job /\ k.attempt = call[c].attempt
          /\ k.checkpoint = KeysErased
      BY <1>t, <3>2 DEF CallType
    <3>4. cp = RowsDeleted
      BY <2>1, <2>2, <3>1 DEF CheckpointsAt
    <3>5. PastRows(call[c])
      BY <2>1, <3>1, <3>4 DEF PastRows, At, RowsDeleted
    <3>6. KeysErased \in CheckpointsAt("finalize")
      BY DEF CheckpointsAt
    <3>7. k.job = Deletion /\ k.attempt > 0 /\ user # "active" /\ ~rows'
      BY <1>a, <2>1, <3>1, <3>3, <3>5
    <3> QED BY <1>d, <2>1, <3>1, <3>2, <3>3, <3>6, <3>7
  <2>13. CASE FinalizeDeletion(c) \/ ReleaseDeletion(c)
    BY <1>e, <2>1, <2>r, <2>13, DeletionCalls
  <2> QED BY <1>4, <2>3, <2>4, <2>5, <2>6, <2>7, <2>8, <2>9, <2>10, <2>11, <2>12, <2>13
           DEF DeletionStep
<1>5. ASSUME NEW c \in Calls, MaintenanceStep(c) PROVE Goal
  <2>1. {"expireDrop", "expireMark"} \subseteq ExportWork \ ConsumerSteps
    BY StepSets DEF ExportWork
  <2>2. CASE DropExpired(c)
    <3>1. At(c, "expireDrop") /\ Goes(c, "expireMark")
      BY <2>2, MaintenanceCalls
    <3>2. call[c].job \in Exports
      BY <1>c, <2>1, <3>1
    <3> QED BY <1>x, <2>1, <3>1, <3>2
  <2>3. CASE SweepObjects(c)
    <3>1. At(c, "sweepDrop") /\ (Goes(c, "sweepClear") \/ Ends(c))
      BY <2>3, MaintenanceCalls
    <3>2. CASE Goes(c, "sweepClear")
      <4>1. PICK k \in CallType : k = [call[c] EXCEPT !.pc = "sweepClear"] /\ MovesTo(c, k)
        BY <3>2 DEF Goes, MovesTo
      <4>2. k.pc = "sweepClear"
        BY <1>t, <4>1 DEF CallType
      <4>3. user' # "active"
        BY <3>1, AccountMoves DEF At, StepOK
      <4>4. StepOK(k)'
        BY <4>2, <4>3, StepSets DEF StepOK, PastRows, DeletionSteps, ExportWork, ExportSteps
      <4> QED BY <1>m, <4>1, <4>4
    <3> QED BY <1>e, <3>1, <3>2
  <2> QED BY <1>5, <1>e, <1>p, <2>2, <2>3, MaintenanceCalls DEF MaintenanceStep
<1>6. ASSUME NEW c \in Calls, Fault(c) PROVE Goal
  <2>1. CASE ThrowInExport(c)
    <3>1. /\ call[c].pc \in {"build", "check", "head", "put", "publish", "ownerCheck", "dropLate"}
          /\ Goes(c, "fail") \/ Goes(c, "releaseExport")
      BY <2>1, FaultCalls
    <3>2. /\ {"build", "check", "head", "put", "publish", "ownerCheck", "dropLate"}
               \subseteq ExportWork \cap ConsumerSteps
          /\ {"fail", "releaseExport"} \subseteq ExportWork \ {"put", "dropLate"}
      BY DEF ExportWork, ExportSteps, ConsumerSteps
    <3>3. call[c].job \in Exports /\ call[c].attempt > 0
      BY <3>1, <3>2 DEF StepOK
    <3> QED BY <1>x, <3>1, <3>2, <3>3
  <2>2. CASE ThrowInDeletion(c)
    <3>1. PICK pc \in DeletionSteps : At(c, pc) /\ Goes(c, "releaseDeletion")
      BY <2>2, FaultCalls DEF At
    <3>2. call[c].checkpoint \in CheckpointsAt("releaseDeletion")
      BY <1>a, <3>1 DEF CheckpointsAt, Accepted, Completed
    <3> QED BY <1>n, <3>1, <3>2 DEF DeletionSteps
  <2> QED BY <1>6, <1>e, <2>1, <2>2, FaultCalls DEF Fault
<1>7. ASSUME NEW c \in Calls, Start(c) PROVE Goal
  <2>1. ASSUME NEW pc, NEW j \in Jobs, Begins(c, pc, j),
               pc = "send" \/ (pc \in {"expireDrop", "cleanDrop"} /\ j \in Exports)
        PROVE  Goal
    <3>1. PICK k \in CallType : k = [Idle EXCEPT !.pc = pc, !.job = j] /\ MovesTo(c, k)
      BY <2>1 DEF Begins, MovesTo
    <3>2. k.pc = pc /\ k.job = j
      BY <3>1 DEF Idle
    <3>3. {"expireDrop", "cleanDrop"} \subseteq ExportWork \ ConsumerSteps
      BY StepSets DEF ExportWork
    <3> QED BY <1>m, <2>1, <3>1, <3>2, <3>3, PlainSteps
  <2>2. CASE SelectManifest(c)
    <3>1. PICK late \in {0, 1} :
             MovesTo(c, [Idle EXCEPT !.pc = "sweepDrop", !.keys = del.manifest, !.etag = late])
      BY <2>2, StartCalls
    <3>2. PICK k \in CallType :
             k = [Idle EXCEPT !.pc = "sweepDrop", !.keys = del.manifest, !.etag = late]
             /\ MovesTo(c, k)
      BY <3>1 DEF MovesTo
    <3>3. k.pc = "sweepDrop"
      BY <3>2 DEF Idle
    <3>4. user' # "active"
      BY <2>2, AccountMoves DEF SelectManifest
    <3>5. StepOK(k)'
      BY <3>3, <3>4, StepSets DEF StepOK, PastRows, DeletionSteps, ExportWork, ExportSteps
    <3> QED BY <1>m, <3>2, <3>5
  <2>3. ASSUME NEW j \in Jobs, SelectRecoverable(c, j) PROVE Goal
    <3>1. PICK k \in CallType :
             /\ k = [Idle EXCEPT !.pc = "recoverSend", !.job = j, !.row = job[j]]
             /\ MovesTo(c, k)
      BY <2>3, StartCalls DEF MovesTo
    <3>2. k.pc = "recoverSend"
      BY <3>1 DEF Idle
    <3> QED BY <1>m, <3>1, <3>2, PlainSteps
  <2>4. ASSUME NEW j \in Jobs, ClaimJob(c, j) PROVE Goal
    <3>1. PICK tries \in 0 .. MaxRetries :
             MovesTo(c, [Idle EXCEPT !.pc = "start", !.job = j, !.tries = tries,
                                     !.attempt = job[j].attempts + 1])
      BY <2>4, StartCalls
    <3>2. PICK k \in CallType :
             /\ MovesTo(c, k) /\ k = [Idle EXCEPT !.pc = "start", !.job = j, !.tries = tries,
                                                  !.attempt = job[j].attempts + 1]
      BY <3>1 DEF MovesTo
    <3>3. k.pc = "start" /\ k.job = j /\ k.attempt = job[j].attempts + 1
      BY <3>2 DEF Idle
    <3>4. k.attempt > 0
      BY <2>4, <3>3, Claiming
    <3>5. j = Deletion => user' # "active"
      BY <2>4, Claiming, AccountMoves
    <3>6. StepOK(k)'
      BY <3>3, <3>4, <3>5 DEF StepOK, PastRows, DeletionSteps, ExportWork, ExportSteps
    <3> QED BY <1>m, <3>2, <3>6
  <2>5. Deletion \in Jobs /\ Exports \subseteq Jobs
    BY Beginnings
  <2> QED BY <1>7, <2>1, <2>2, <2>3, <2>4, <2>5, StartCalls DEF Start
<1>8. ASSUME UNCHANGED call PROVE Goal
  BY <1>8, <1>w DEF Waits
<1>9. ASSUME NEW j \in Jobs, IgnoreMessage(j) \/ ClaimThrows(j) PROVE Goal
  BY <1>8, <1>9 DEF IgnoreMessage, ClaimThrows
<1>10. CASE Tick
  <2>1. ASSUME NEW c \in Calls PROVE Waits(call[c], call'[c])
    <3>1. call'[c] = IF At(c, "idle") THEN call[c] ELSE [call[c] EXCEPT !.age = @ + 1]
      BY <1>10 DEF Tick
    <3> QED BY <1>t, <3>1 DEF Waits, CallType
  <2> QED BY <1>w, <2>1
<1>11. CASE UNCHANGED vars \/ Fence \/ Lift
  BY <1>8, <1>11 DEF vars, Fence, Lift
<1>12. ASSUME NEW c \in Calls, ClaimStep(c) \/ RouteStep(c) PROVE Goal
  BY <1>1, <1>2, <1>12 DEF ClaimStep
<1> QED BY <1>3, <1>4, <1>5, <1>6, <1>7, <1>9, <1>10, <1>11, <1>12 DEF Next, CallStep
-----------------------------------------------------------------------------
(* Which steps a call may come to, and what holds when it does.            *)

Withdrawing == {"dropFailed", "markFailed", "cleanDrop", "cleanMark"}
Expiring == {"expireDrop", "expireMark"}
Guarded == {"publish"} \cup Withdrawing \cup Expiring

\* The call is where it was, at a step that needs nothing, at a step of the
\* deletion with a checkpoint no older, or about to publish or to remove.
OldCheckpoint(c) == /\ call[c].pc \in DeletionSteps
                    /\ call'[c].job = call[c].job /\ call'[c].attempt = call[c].attempt
                    /\ call[c].checkpoint <= call'[c].checkpoint
LoadedCheckpoint(c) == UNCHANGED del /\ call'[c].checkpoint = del.checkpoint
Entry(c) ==
  \/ Waits(call[c], call'[c])
  \/ call'[c].pc \notin Guarded \cup DeletionSteps
  \/ call'[c].pc \in DeletionSteps /\ (OldCheckpoint(c) \/ LoadedCheckpoint(c))
  \/ call'[c].pc = "publish" /\ object'[call'[c].job] = call'[c].attempt
  \/ call'[c].pc \in Withdrawing /\ (user' = "active" => job'[call'[c].job].status = "failed")
  \/ /\ call'[c].pc \in Expiring
     /\ user' = "active" => /\ job'[call'[c].job].status = "succeeded"
                            /\ req'[call'[c].job].status = "ready" => req'[call'[c].job].ttl = 0

\* Every step brings calls to such places.
LEMMA Entries ==
  ASSUME TypeOK, \A c \in Calls : StepOK(call[c]) /\ ObjectOK(call[c]),
         \A x \in Exports : AnsweredOK(x), [Next]_vars
  PROVE  \A c \in Calls : Entry(c)
<1> DEFINE Goal == \A c \in Calls : Entry(c)
<1>t. /\ call \in [Calls -> CallType] /\ \A c \in Calls : call[c] \in CallType
      /\ Idle \in CallType /\ Idle.pc = "idle"
  BY Typing, Beginnings
<1>w. ASSUME \A c \in Calls : Waits(call[c], call'[c]) PROVE Goal
  BY <1>w DEF Entry
<1>m. ASSUME NEW c \in Calls, NEW k, MovesTo(c, k), Entry(c) PROVE Goal
  BY <1>m DEF MovesTo, Entry, Waits
<1>n. ASSUME NEW c \in Calls, NEW k, MovesTo(c, k), k.pc \notin Guarded \cup DeletionSteps
      PROVE  Goal
  BY <1>m, <1>n DEF MovesTo, Entry
<1>e. ASSUME NEW c \in Calls, Ends(c) PROVE Goal
  BY <1>e, <1>n, <1>t DEF Ends, Guarded, Withdrawing, Expiring, DeletionSteps
<1>g. ASSUME NEW c \in Calls, NEW pc, Goes(c, pc)
      PROVE  /\ MovesTo(c, call'[c]) /\ call'[c].pc = pc /\ call'[c].job = call[c].job
             /\ call'[c].attempt = call[c].attempt /\ call'[c].checkpoint = call[c].checkpoint
  BY <1>g, <1>t DEF Goes, MovesTo, CallType
<1>p. ASSUME NEW c \in Calls, NEW pc, Goes(c, pc), pc \notin Guarded \cup DeletionSteps PROVE Goal
  <2>1. PICK k : k = call'[c] /\ MovesTo(c, k)
    BY <1>g, <1>p
  <2> QED BY <1>g, <1>n, <1>p, <2>1
<1>q. ASSUME NEW c \in Calls, NEW pc, Goes(c, pc), Entry(c) PROVE Goal
  <2>1. PICK k : k = call'[c] /\ MovesTo(c, k)
    BY <1>g, <1>q
  <2> QED BY <1>m, <1>q, <2>1
<1>d. ASSUME NEW c \in Calls, NEW pc \in DeletionSteps, NEW next \in DeletionSteps, At(c, pc),
             Goes(c, next)
      PROVE  Goal
  <2>1. call[c].checkpoint <= call[c].checkpoint
    BY <1>t, CallTyping
  <2>2. OldCheckpoint(c) /\ call'[c].pc \in DeletionSteps
    BY <1>d, <1>g, <2>1 DEF OldCheckpoint, At
  <2> QED BY <1>d, <1>q, <2>2 DEF Entry
<1>o. ASSUME NEW c \in Calls, NEW pc \in DeletionSteps, At(c, pc), NEW k, MovesTo(c, k),
             k.pc \in DeletionSteps, k.job = call[c].job, k.attempt = call[c].attempt,
             call[c].checkpoint <= k.checkpoint
      PROVE  Goal
  <2>1. OldCheckpoint(c) /\ call'[c].pc \in DeletionSteps
    BY <1>o DEF OldCheckpoint, At, MovesTo
  <2> QED BY <1>o, <1>m, <2>1 DEF Entry
<1>i. ASSUME NEW c \in Calls, NEW pc \in ExportWork, At(c, pc)
      PROVE  call[c].job \in Exports /\ call[c].pc = pc
  BY <1>i DEF At, StepOK
<1>s. /\ {"idle", "mark", "load", "build", "check", "head", "put", "ownerCheck", "dropLate", "fail",
          "releaseExport", "recoverMark", "sweepClear", "send", "recoverSend", "sweepDrop",
          "start"} \cap (Guarded \cup DeletionSteps) = {}
      /\ Withdrawing \cup Expiring \cup {"put", "fail"} \subseteq ExportWork
  BY DEF Guarded, Withdrawing, Expiring, DeletionSteps, ExportWork, ExportSteps
<1> SUFFICES Goal
  OBVIOUS
<1> HIDE DEF Goal
<1>1. ASSUME NEW c \in Calls, RouteStep(c) \/ MarkRunning(c) \/ LoadExport(c) PROVE Goal
  BY <1>1, <1>e, <1>p, <1>s, ClaimCalls DEF RouteStep
<1>2. ASSUME NEW c \in Calls, LoadDeletion(c) PROVE Goal
  <2>1. CASE ~Ends(c)
    <3> DEFINE pc == IF del.checkpoint = KeysErased THEN "probe" ELSE "decrypt"
    <3>1. PICK k : k = [call[c] EXCEPT !.checkpoint = del.checkpoint, !.pc = pc] /\ MovesTo(c, k)
      BY <1>2, <2>1, ClaimCalls
    <3>2. pc \in DeletionSteps
      BY DEF DeletionSteps
    <3> HIDE DEF pc
    <3>3. k.pc = pc /\ k.checkpoint = del.checkpoint
      BY <1>t, <3>1 DEF CallType
    <3>4. UNCHANGED del
      BY <1>2 DEF LoadDeletion, deletionVars
    <3>5. call'[c].pc \in DeletionSteps /\ LoadedCheckpoint(c)
      BY <3>1, <3>2, <3>3, <3>4 DEF MovesTo, LoadedCheckpoint
    <3> QED BY <1>m, <3>1, <3>5 DEF Entry
  <2> QED BY <1>2, <1>e, <2>1
<1>3. ASSUME NEW c \in Calls, ExportStep(c) PROVE Goal
  <2>1. CASE \/ SealExport(c) \/ CheckExport(c) \/ PublishExport(c) \/ CheckFencedOwner(c)
             \/ DropLateExport(c) \/ MarkFailedExport(c) \/ ReleaseExport(c)
    BY <1>e, <1>p, <1>s, <2>1, ExportCalls
  <2>2. CASE HeadExport(c)
    <3>1. CASE ~Ends(c)
      <4>1. PICK k : k = [call[c] EXCEPT !.pc = "put", !.etag = object[call[c].job]]
                     /\ MovesTo(c, k)
        BY <2>2, <3>1, ExportCalls
      <4>2. k.pc = "put"
        BY <1>t, <4>1 DEF CallType
      <4> QED BY <1>n, <1>s, <4>1, <4>2
    <3> QED BY <1>e, <2>2, <3>1
  <2>3. CASE PutExport(c)
    <3>1. CASE Goes(c, "head")
      BY <1>p, <1>s, <3>1
    <3>2. CASE ~Goes(c, "head")
      <4>1. /\ At(c, "put") /\ Goes(c, "publish")
            /\ object' = [object EXCEPT ![call[c].job] = call[c].attempt]
        BY <2>3, <3>2, ExportCalls
      <4>2. call[c].job \in Exports /\ object \in [Exports -> Nat]
        BY <1>i, <1>s, <4>1, Typing
      <4>3. object'[call[c].job] = call[c].attempt
        BY <4>1, <4>2
      <4>4. call'[c].pc = "publish" /\ object'[call'[c].job] = call'[c].attempt
        BY <1>g, <4>1, <4>3
      <4> QED BY <1>q, <4>1, <4>4 DEF Entry
    <3> QED BY <3>1, <3>2
  <2>4. CASE FailExport(c)
    <3>1. CASE CanPublish(c)
      <4>1. At(c, "fail") /\ Settled(call[c].job, "failed")
        BY <2>4, <3>1 DEF FailExport
      <4>2. Goes(c, "dropFailed")
        <5>1. Goto(c, "dropFailed")
          BY <2>4, <3>1 DEF FailExport
        <5>2. "dropFailed" \in Steps
          BY DEF Steps, ConsumerSteps, ExportSteps
        <5> QED BY <1>t, <5>1, <5>2, Moving DEF Goes
      <4>3. call[c].job \in Jobs /\ job \in [Jobs -> JobType]
        BY <1>t, CallTyping, Typing
      <4>4. job'[call[c].job].status = "failed"
        BY <4>1, <4>3 DEF Settled, JobType
      <4>5. call'[c].pc \in Withdrawing /\ job'[call'[c].job].status = "failed"
        BY <1>g, <4>2, <4>4 DEF Withdrawing
      <4> QED BY <1>q, <4>2, <4>5 DEF Entry
    <3> QED BY <1>e, <2>4, <3>1, ExportCalls
  <2>5. CASE DropFailedExport(c)
    <3>1. PICK pc \in Withdrawing, next \in Withdrawing : At(c, pc) /\ Goes(c, next)
      BY <2>5, ExportCalls DEF Withdrawing
    <3>2. UNCHANGED <<accountVars, job>>
      BY <2>5, Frames DEF ObjectWrite, Removal
    <3>3. user = "active" => job[call[c].job].status = "failed"
      BY <3>1 DEF ObjectOK, Withdrawing, At
    <3>4. call'[c].pc \in Withdrawing /\ call'[c].job = call[c].job
      BY <1>g, <3>1
    <3> QED BY <1>q, <3>1, <3>2, <3>3, <3>4 DEF Entry, accountVars
  <2> QED BY <1>3, <2>1, <2>2, <2>3, <2>4, <2>5 DEF ExportStep
<1>4. ASSUME NEW c \in Calls, DeletionStep(c) PROVE Goal
  <2> DEFINE cp == call[c].checkpoint
  <2>1. {"decrypt", "probe", "liveCheck", "collect", "fence", "collectAgain", "dropObjects",
         "deleteRows", "deleteJobs", "advance", "erase", "finalize", "releaseDeletion"}
          = DeletionSteps
    BY DEF DeletionSteps
  <2>2. \A pc \in DeletionSteps : At(c, pc) => cp \in CheckpointsAt(pc) /\ cp \in 0 .. 5
    BY <1>t, CallTyping DEF At, StepOK
  <2>3. CASE DecryptCommand(c)
    <3>1. PICK next : next = FirstStep(cp)
      OBVIOUS
    <3>2. next \in DeletionSteps
      BY <2>1, <3>1 DEF FirstStep
    <3> QED BY <1>d, <1>e, <2>1, <2>3, <3>1, <3>2, DeletionCalls
  <2>4. CASE ProbeClaim(c)
    <3>1. At(c, "probe") /\ (Goes(c, "releaseDeletion") \/ Goes(c, StepAfter(cp)))
      BY <2>4, DeletionCalls
    <3>2. cp \in 1 .. 4
      BY <2>1, <2>2, <3>1 DEF CheckpointsAt, ExportsFenced, KeysErased
    <3>3. PICK next : next = StepAfter(cp)
      OBVIOUS
    <3>4. next \in DeletionSteps
      BY <2>1, <3>2, <3>3 DEF StepAfter, ExportsFenced, ObjectsDeleted, RowsDeleted, KeysErased
    <3> QED BY <1>d, <2>1, <3>1, <3>3, <3>4
  <2>5. CASE \/ CheckLiveExport(c) \/ DropRegisteredObjects(c) \/ DeleteUserRows(c)
             \/ DeleteUserJobs(c) \/ FinalizeDeletion(c) \/ ReleaseDeletion(c)
    BY <1>d, <1>e, <2>1, <2>5, DeletionCalls
  <2>6. CASE CollectKeys(c)
    <3>1. PICK pc \in {"collect", "collectAgain"} :
             /\ At(c, pc)
             /\ MovesTo(c, [call[c] EXCEPT !.keys = Registered,
                              !.pc = IF pc = "collect" THEN "fence" ELSE "dropObjects"])
      BY <2>6, DeletionCalls
    <3>2. PICK next : next = IF pc = "collect" THEN "fence" ELSE "dropObjects"
      OBVIOUS
    <3>3. PICK k : MovesTo(c, k) /\ k = [call[c] EXCEPT !.keys = Registered, !.pc = next]
      BY <3>1, <3>2
    <3>4. /\ k.pc = next /\ k.job = call[c].job /\ k.attempt = call[c].attempt
          /\ k.checkpoint = call[c].checkpoint /\ call[c].checkpoint <= k.checkpoint
      BY <1>t, <3>3, CallTyping DEF CallType
    <3>5. pc \in DeletionSteps /\ k.pc \in DeletionSteps /\ At(c, pc) /\ MovesTo(c, k)
      BY <2>1, <3>1, <3>2, <3>3, <3>4
    <3> HIDE DEF cp
    <3> QED BY <1>o, <3>4, <3>5
  <2>7. CASE FenceExports(c) /\ ~Goes(c, "releaseDeletion")
    <3>1. At(c, "fence")
      BY <2>7, DeletionCalls
    <3>2. PICK k : /\ MovesTo(c, k)
                   /\ k = [call[c] EXCEPT !.checkpoint = ExportsFenced, !.pc = "collectAgain"]
      BY <2>7, DeletionCalls
    <3>3. /\ k.pc = "collectAgain" /\ k.job = call[c].job /\ k.attempt = call[c].attempt
          /\ k.checkpoint = ExportsFenced
      BY <1>t, <3>2 DEF CallType
    <3>4. call[c].checkpoint <= k.checkpoint
      BY <2>1, <2>2, <3>1, <3>3 DEF CheckpointsAt, Accepted, ExportsFenced
    <3>5. "fence" \in DeletionSteps /\ k.pc \in DeletionSteps
      BY <2>1, <3>3
    <3> HIDE DEF cp
    <3> QED BY <1>o, <3>1, <3>2, <3>3, <3>4, <3>5
  <2>8. CASE FenceExports(c) /\ Goes(c, "releaseDeletion")
    BY <1>d, <2>1, <2>8, DeletionCalls
  <2>9. CASE Advance(c) /\ ~Ends(c)
    <3>1. At(c, "advance")
      BY <2>9, DeletionCalls
    <3>2. PICK next : next = IF cp = ExportsFenced THEN "deleteRows" ELSE "erase"
      OBVIOUS
    <3>3. PICK k : MovesTo(c, k) /\ k = [call[c] EXCEPT !.checkpoint = cp + 1, !.pc = next]
      BY <2>9, <3>2, DeletionCalls
    <3>4. /\ k.pc = next /\ k.job = call[c].job /\ k.attempt = call[c].attempt
          /\ k.checkpoint = cp + 1
      BY <1>t, <3>3 DEF CallType
    <3>5. cp <= cp + 1 /\ next \in DeletionSteps
      BY <2>1, <2>2, <3>1, <3>2
    <3> HIDE DEF cp
    <3> QED BY <1>o, <2>1, <3>1, <3>3, <3>4, <3>5 DEF cp
  <2>10. CASE Advance(c) /\ Ends(c)
    BY <1>e, <2>10
  <2>11. CASE EraseKeys(c)
    <3>1. At(c, "erase")
      BY <2>11, DeletionCalls
    <3>2. PICK k : MovesTo(c, k) /\ k = [call[c] EXCEPT !.checkpoint = KeysErased, !.pc = "finalize"]
      BY <2>11, DeletionCalls
    <3>3. /\ k.pc = "finalize" /\ k.job = call[c].job /\ k.attempt = call[c].attempt
          /\ k.checkpoint = KeysErased
      BY <1>t, <3>2 DEF CallType
    <3>4. call[c].checkpoint <= k.checkpoint
      BY <2>1, <2>2, <3>1, <3>3 DEF CheckpointsAt, RowsDeleted, KeysErased
    <3>5. "erase" \in DeletionSteps /\ k.pc \in DeletionSteps
      BY <2>1, <3>3
    <3> HIDE DEF cp
    <3> QED BY <1>o, <3>1, <3>2, <3>3, <3>4, <3>5
  <2> QED BY <1>4, <2>3, <2>4, <2>5, <2>6, <2>7, <2>8, <2>9, <2>10, <2>11 DEF DeletionStep
<1>5. ASSUME NEW c \in Calls, MaintenanceStep(c) PROVE Goal
  <2>1. CASE DropExpired(c)
    <3>1. At(c, "expireDrop") /\ Goes(c, "expireMark")
      BY <2>1, MaintenanceCalls
    <3>2. UNCHANGED <<accountVars, req, job>>
      BY <2>1, Frames DEF ObjectWrite, Removal
    <3>3. user = "active" => /\ job[call[c].job].status = "succeeded"
                             /\ req[call[c].job].status = "ready" => req[call[c].job].ttl = 0
      BY <3>1 DEF ObjectOK, At
    <3>4. call'[c].pc \in Expiring /\ call'[c].job = call[c].job
      BY <1>g, <3>1 DEF Expiring
    <3> QED BY <1>q, <3>1, <3>2, <3>3, <3>4 DEF Entry, accountVars
  <2> QED BY <1>5, <1>e, <1>p, <1>s, <2>1, MaintenanceCalls DEF MaintenanceStep
<1>6. ASSUME NEW c \in Calls, Fault(c) PROVE Goal
  <2>1. CASE ThrowInDeletion(c)
    <3>1. PICK pc \in DeletionSteps : At(c, pc) /\ Goes(c, "releaseDeletion")
      BY <2>1, FaultCalls DEF At
    <3> QED BY <1>d, <3>1 DEF DeletionSteps
  <2> QED BY <1>6, <1>e, <1>p, <1>s, <2>1, FaultCalls DEF Fault
<1>7. ASSUME NEW c \in Calls, Start(c) PROVE Goal
  <2>b. ASSUME NEW pc, NEW j, Begins(c, pc, j)
        PROVE  \E k : MovesTo(c, k) /\ k.pc = pc /\ k.job = j
    <3>1. PICK k : k = [Idle EXCEPT !.pc = pc, !.job = j] /\ MovesTo(c, k)
      BY <2>b DEF Begins
    <3>2. k.pc = pc /\ k.job = j
      BY <3>1 DEF Idle
    <3> QED BY <3>1, <3>2
  <2>1. CASE ReserveDeletion(c) \/ \E x \in Exports : ReserveExport(c, x)
    <3>b. \E j : Begins(c, "send", j)
      BY <2>1, StartCalls
    <3>1. PICK k : MovesTo(c, k) /\ k.pc = "send"
      BY <2>b, <3>b
    <3> QED BY <1>n, <1>s, <3>1
  <2>2. CASE SelectManifest(c)
    <3>1. PICK late \in {0, 1} :
             MovesTo(c, [Idle EXCEPT !.pc = "sweepDrop", !.keys = del.manifest, !.etag = late])
      BY <2>2, StartCalls
    <3>2. PICK k : /\ MovesTo(c, k)
                   /\ k = [Idle EXCEPT !.pc = "sweepDrop", !.keys = del.manifest, !.etag = late]
      BY <3>1
    <3>3. k.pc = "sweepDrop"
      BY <3>2 DEF Idle
    <3> QED BY <1>n, <1>s, <3>2, <3>3
  <2>3. ASSUME NEW x \in Exports, SelectExpired(c, x) PROVE Goal
    <3>b. Begins(c, "expireDrop", x)
      BY <2>3, StartCalls
    <3>1. PICK k : MovesTo(c, k) /\ k.pc = "expireDrop" /\ k.job = x
      BY <2>b, <3>b
    <3>2. req[x].status = "ready" /\ req[x].ttl = 0 /\ UNCHANGED <<user, job, req>>
      BY <2>3 DEF SelectExpired, accountVars, exportVars
    <3>3. call'[c].pc = "expireDrop" /\ call'[c].job = x
      BY <3>1 DEF MovesTo
    <3> QED BY <1>m, <3>1, <3>2, <3>3 DEF Entry, AnsweredOK, Expiring
  <2>4. ASSUME NEW x \in Exports, SelectFailed(c, x) PROVE Goal
    <3>b. Begins(c, "cleanDrop", x)
      BY <2>4, StartCalls
    <3>1. PICK k : MovesTo(c, k) /\ k.pc = "cleanDrop" /\ k.job = x
      BY <2>b, <3>b
    <3>2. req[x].status = "failed" /\ UNCHANGED <<user, job>>
      BY <2>4 DEF SelectFailed, accountVars
    <3>3. call'[c].pc = "cleanDrop" /\ call'[c].job = x
      BY <3>1 DEF MovesTo
    <3> QED BY <1>m, <3>1, <3>2, <3>3 DEF Entry, AnsweredOK, Withdrawing
  <2>5. ASSUME NEW j \in Jobs, SelectRecoverable(c, j) PROVE Goal
    <3>1. PICK k : /\ MovesTo(c, k)
                   /\ k = [Idle EXCEPT !.pc = "recoverSend", !.job = j, !.row = job[j]]
      BY <2>5, StartCalls
    <3>2. k.pc = "recoverSend"
      BY <3>1 DEF Idle
    <3> QED BY <1>n, <1>s, <3>1, <3>2
  <2>6. ASSUME NEW j \in Jobs, ClaimJob(c, j) PROVE Goal
    <3>1. PICK tries \in 0 .. MaxRetries :
             MovesTo(c, [Idle EXCEPT !.pc = "start", !.job = j, !.tries = tries,
                                     !.attempt = job[j].attempts + 1])
      BY <2>6, StartCalls
    <3>2. PICK k : /\ MovesTo(c, k)
                   /\ k = [Idle EXCEPT !.pc = "start", !.job = j, !.tries = tries,
                                       !.attempt = job[j].attempts + 1]
      BY <3>1
    <3>3. k.pc = "start"
      BY <3>2 DEF Idle
    <3> QED BY <1>n, <1>s, <3>2, <3>3
  <2> QED BY <1>7, <2>1, <2>2, <2>3, <2>4, <2>5, <2>6 DEF Start
<1>8. ASSUME UNCHANGED call PROVE Goal
  BY <1>8, <1>w DEF Waits
<1>9. ASSUME NEW j \in Jobs, IgnoreMessage(j) \/ ClaimThrows(j) PROVE Goal
  BY <1>8, <1>9 DEF IgnoreMessage, ClaimThrows
<1>10. CASE Tick
  <2>1. ASSUME NEW c \in Calls PROVE Waits(call[c], call'[c])
    <3>1. call'[c] = IF At(c, "idle") THEN call[c] ELSE [call[c] EXCEPT !.age = @ + 1]
      BY <1>10 DEF Tick
    <3> QED BY <1>t, <3>1 DEF Waits, CallType
  <2> QED BY <1>w, <2>1
<1>11. CASE UNCHANGED vars \/ Fence \/ Lift
  BY <1>8, <1>11 DEF vars, Fence, Lift
<1>12. ASSUME NEW c \in Calls, ClaimStep(c) \/ RouteStep(c) PROVE Goal
  BY <1>1, <1>2, <1>12 DEF ClaimStep
<1> QED BY <1>3, <1>4, <1>5, <1>6, <1>7, <1>9, <1>10, <1>11, <1>12 DEF Next, CallStep
-----------------------------------------------------------------------------
(* The account and the answers.                                            *)

\* How the rows, the keys and the account come to an end.
LEMMA Losses ==
  ASSUME TypeOK, \A c \in Calls : StepOK(call[c]), [Next]_vars
  PROVE  /\ ~rows' => ~rows \/ (user # "active" /\ \A x \in Exports : req'[x].status = "absent")
         /\ ~keys' => ~keys \/ user # "active"
         /\ user' = "deleted" => user = "deleted" \/ (~rows /\ ~keys)
<1> DEFINE Goal ==
      /\ ~rows' => ~rows \/ (user # "active" /\ \A x \in Exports : req'[x].status = "absent")
      /\ ~keys' => ~keys \/ user # "active"
      /\ user' = "deleted" => user = "deleted" \/ (~rows /\ ~keys)
<1>u. ASSUME UNCHANGED accountVars PROVE Goal
  BY <1>u DEF accountVars
<1>1. CASE UNCHANGED stored
  BY <1>1, <1>u DEF stored
<1>2. CASE Tick
  BY <1>2, <1>u DEF Tick
<1>3. ASSUME NEW c \in Calls, Write(c) PROVE Goal
  <2>1. CASE \/ JobWrite(c) \/ ObjectWrite(c) \/ AnswerWrite(c) \/ RequestWrite(c)
             \/ Reservation(c) \/ MarkRunning(c) \/ FenceExports(c) \/ Advance(c)
             \/ ClearManifest(c) \/ ReleaseDeletion(c)
    BY <1>u, <2>1, Frames
  <2>2. CASE ReserveDeletion(c)
    <3>1. UNCHANGED <<keys, rows>> /\ user' = "pending"
      BY <2>2 DEF ReserveDeletion
    <3> QED BY <3>1
  <2>3. CASE DeleteUserRows(c)
    <3>1. call[c].pc = "deleteRows" /\ UNCHANGED <<user, keys>> /\ req' = [x \in Exports |-> NoRequest]
      BY <2>3 DEF DeleteUserRows, At
    <3>2. user # "active"
      BY <3>1 DEF StepOK, DeletionSteps
    <3> QED BY <3>1, <3>2 DEF NoRequest
  <2>4. CASE EraseKeys(c)
    <3>1. call[c].pc = "erase" /\ UNCHANGED <<user, rows>>
      BY <2>4 DEF EraseKeys, At
    <3>2. user # "active"
      BY <3>1 DEF StepOK, DeletionSteps
    <3> QED BY <3>1, <3>2
  <2>5. CASE FinalizeDeletion(c)
    <3>1. call[c].pc = "finalize" /\ UNCHANGED <<keys, rows>>
      BY <2>5 DEF FinalizeDeletion, At
    <3>2. ~rows /\ ~keys
      BY <3>1 DEF StepOK, DeletionSteps, PastRows, CheckpointsAt, RowsDeleted, KeysErased
    <3> QED BY <3>1, <3>2
  <2> QED BY <1>3, <2>1, <2>2, <2>3, <2>4, <2>5 DEF Write
<1> QED BY <1>1, <1>2, <1>3, Writers

\* What was destroyed stays so, and the checkpoint does not run ahead of it.
LEMMA AccountStep ==
  ASSUME TypeOK, AccountOK, \A c \in Calls : StepOK(call[c]), [Next]_vars
  PROVE  AccountOK'
<1>m. /\ user' = "active" => user = "active"
      /\ user = "deleted" => user' = "deleted"
      /\ ~rows => ~rows' /\ (~keys => ~keys')
  BY AccountMoves
<1>l. /\ ~rows' => ~rows \/ (user # "active" /\ \A x \in Exports : req'[x].status = "absent")
      /\ ~keys' => ~keys \/ user # "active"
      /\ user' = "deleted" => user = "deleted" \/ (~rows /\ ~keys)
  BY Losses
<1>k. ~keys => ~keys'
  BY AccountMoves
<1>d. DeletionMove
  BY DeletionMoves
<1>n. /\ Accepted = 0 /\ RowsDeleted = 3 /\ KeysErased = 4 /\ Completed = 5
  BY DEF Accepted, RowsDeleted, KeysErased, Completed
<1>a. ASSUME NEW c \in Calls, AdvancedBy(c)
      PROVE  /\ user # "active" /\ del'.checkpoint < Completed
             /\ del'.checkpoint >= RowsDeleted => ~rows'
             /\ del'.checkpoint >= KeysErased => ~keys'
  <2>1. user # "active"
    <3>1. call[c].pc \in DeletionSteps
      BY <1>a DEF AdvancedBy, DeletionSteps
    <3> QED BY <3>1 DEF StepOK
  <2>2. StepOK(call[c])'
    BY StepStep
  <2>3. call'[c].pc \in DeletionSteps /\ del'.checkpoint = call'[c].checkpoint
    BY <1>a DEF AdvancedBy
  <2>4. /\ del'.checkpoint >= RowsDeleted => ~rows'
        /\ del'.checkpoint >= KeysErased => ~keys'
    BY <2>2, <2>3 DEF StepOK, PastRows
  <2> QED BY <1>a, <2>1, <2>4 DEF AdvancedBy
<1>1. ASSUME ~rows' PROVE user' # "active" /\ \A x \in Exports : req'[x].status = "absent"
  <2>1. CASE ~rows
    <3>1. user # "active" /\ \A x \in Exports : req[x].status = "absent"
      BY <2>1 DEF AccountOK
    <3>2. ASSUME NEW x \in Exports PROVE req'[x].status = "absent"
      <4>1. RequestMove(x)
        BY RequestMoves
      <4> QED BY <3>1, <4>1 DEF RequestMove, RequestKept
    <3> QED BY <1>m, <3>1, <3>2
  <2> QED BY <1>1, <1>l, <1>m, <2>1
<1>2. ~keys' => user' # "active"
  BY <1>l, <1>m DEF AccountOK
<1>3. user' = "deleted" => ~rows' /\ ~keys'
  BY <1>l, <1>m, <1>k DEF AccountOK
<1>4. user' = "active" => del'.checkpoint = Accepted
  BY <1>m, <1>d, <1>a DEF AccountOK, DeletionMove
<1>5. del'.checkpoint >= RowsDeleted => ~rows'
  BY <1>m, <1>d, <1>a, <1>n DEF AccountOK, DeletionMove
<1>6. del'.checkpoint >= KeysErased => ~keys'
  BY <1>k, <1>d, <1>a, <1>n DEF AccountOK, DeletionMove
<1>7. del'.checkpoint = Completed => job'[Deletion].status = "absent"
  <2>1. CASE del'.checkpoint = del.checkpoint /\ del.checkpoint = Completed
    <3>1. user # "active" /\ job[Deletion].status = "absent"
      BY <2>1, <1>n DEF AccountOK
    <3>2. JobMove(Deletion)
      BY JobMoves, Beginnings
    <3> QED BY <3>1, <3>2 DEF JobMove, JobKept
  <2>2. ASSUME NEW c \in Calls, AdvancedBy(c) PROVE del'.checkpoint # Completed
    <3>1. del'.checkpoint < Completed /\ del'.checkpoint \in 0 .. 5
      BY <1>a, <2>2, <1>n, DeletionMoves DEF DeletionType
    <3> QED BY <1>n, <3>1
  <2> QED BY <1>d, <1>n, <2>1, <2>2 DEF DeletionMove
<1> QED BY <1>1, <1>2, <1>3, <1>4, <1>5, <1>6, <1>7 DEF AccountOK

\* An answer keeps its job, and a ready one its object.
LEMMA AnswerStep ==
  ASSUME Inv, [Next]_vars
  PROVE  \A x \in Exports : AnsweredOK(x)'
<1> SUFFICES ASSUME NEW x \in Exports
             PROVE  AnsweredOK(x)'
  OBVIOUS
<1>i. /\ TypeOK /\ AnsweredOK(x)
      /\ \A c \in Calls : /\ StepOK(call[c]) /\ AttemptOK(call[c])
                          /\ KeyOK(call[c]) /\ ObjectOK(call[c])
  BY DEF Inv, CallOK
<1>t. /\ call \in [Calls -> CallType] /\ \A c \in Calls : call[c].attempt \in Nat
      /\ req \in [Exports -> RequestType] /\ req' \in [Exports -> RequestType]
      /\ req[x].ttl \in Nat /\ req'[x].ttl \in Nat /\ x \in Jobs /\ x # Deletion
  <2>1. call \in [Calls -> CallType] /\ req \in [Exports -> RequestType]
    BY <1>i, Typing
  <2>2. req' \in [Exports -> RequestType]
    BY <1>i, RequestMoves
  <2>3. \A c \in Calls : call[c].attempt \in Nat
    BY <2>1, CallTyping
  <2>4. req[x].ttl \in Nat /\ req'[x].ttl \in Nat
    BY <2>1, <2>2 DEF RequestType
  <2> QED BY <2>1, <2>2, <2>3, <2>4, Beginnings
<1>m. RequestMove(x) /\ JobMove(x) /\ ObjectMove(x) /\ (user' = "active" => user = "active")
  BY <1>i, <1>t, RequestMoves, JobMoves, ObjectMoves, AccountMoves
<1>p. ASSUME NEW c \in Calls, PublishedBy(c, x)
      PROVE  /\ call[c].attempt > 0
             /\ user = "active" => object[x] = call[c].attempt
  <2>1. call[c].pc = "publish" /\ call[c].job = x /\ HeldBy(call[c])
    BY <1>p DEF PublishedBy
  <2>2. "publish" \in ConsumerSteps
    BY DEF ConsumerSteps, ExportSteps
  <2> QED BY <1>i, <2>1, <2>2 DEF StepOK, ObjectOK
<1>1. req'[x].status = "ready" => req'[x].key > 0
  BY <1>i, <1>m, <1>p DEF RequestMove, RequestKept, PublishedBy, AnsweredOK
<1>2. ASSUME user' = "active", req'[x].status = "failed" PROVE job'[x].status = "failed"
  <2>1. CASE RequestKept(x)
    BY <1>i, <1>m, <1>t, <1>2, <2>1 DEF RequestKept, AnsweredOK, JobMove, JobKept
  <2>2. CASE ~RequestKept(x)
    BY <1>m, <1>2, <2>2 DEF RequestMove, PublishedBy
  <2> QED BY <2>1, <2>2
<1>3. ASSUME user' = "active", req'[x].status = "ready"
      PROVE  job'[x].status = "succeeded" /\ req'[x].key = job'[x].attempts
  <2>1. CASE RequestKept(x)
    BY <1>i, <1>m, <1>t, <1>3, <2>1 DEF RequestKept, AnsweredOK, JobMove, JobKept
  <2>2. CASE ~RequestKept(x)
    BY <1>m, <1>3, <2>2 DEF RequestMove, PublishedBy
  <2> QED BY <2>1, <2>2
<1>4. ASSUME user' = "active", req'[x].status = "ready", req'[x].ttl > 0
      PROVE  object'[x] = req'[x].key
  <2>1. CASE RequestKept(x)
    <3>1. /\ user = "active" /\ req[x].status = "ready" /\ req[x].ttl > 0
          /\ req'[x].key = req[x].key /\ object[x] = req[x].key
          /\ job[x].status = "succeeded" /\ req[x].key = job[x].attempts
      BY <1>i, <1>m, <1>t, <1>4, <2>1 DEF RequestKept, AnsweredOK
    <3>2. ASSUME NEW c \in Calls, StoredBy(c, x) PROVE FALSE
      <4>1. call[c].pc = "put" /\ call[c].job = x /\ call[c].etag = object[x]
        BY <3>2 DEF StoredBy
      <4>2. "put" \in ConsumerSteps /\ "put" \in Early
        BY DEF ConsumerSteps, ExportSteps, Early
      <4>3. call[c].etag <= call[c].attempt
        BY <1>i, <4>1 DEF StepOK
      <4>4. call[c].attempt <= job[x].attempts
        BY <1>i, <3>1, <4>1, <4>2 DEF AttemptOK, Gone
      <4>5. call[c].attempt # req[x].key
        BY <1>i, <3>1, <4>1, <4>2 DEF KeyOK
      <4>6. req[x].key \in Nat
        BY <1>t DEF RequestType
      <4> QED BY <1>t, <3>1, <4>1, <4>3, <4>4, <4>5, <4>6
    <3>3. ASSUME NEW c \in Calls, call[c].job = x,
                 call[c].pc \in {"dropFailed", "cleanDrop", "expireDrop"}
          PROVE  FALSE
      <4>1. req[x].ttl # 0
        BY <1>t, <3>1
      <4> QED BY <1>i, <3>1, <3>3, <4>1 DEF ObjectOK
    <3> QED BY <1>m, <3>1, <3>2, <3>3 DEF ObjectMove
  <2>2. CASE ~RequestKept(x)
    <3>1. PICK c \in Calls : PublishedBy(c, x) /\ object' = object /\ user = "active"
      BY <1>m, <1>4, <2>2 DEF RequestMove
    <3> QED BY <1>p, <3>1 DEF PublishedBy
  <2> QED BY <2>1, <2>2
<1> QED BY <1>1, <1>2, <1>3, <1>4 DEF AnsweredOK
-----------------------------------------------------------------------------
(* What the calls know of the others.                                      *)

\* The recorded checkpoint stays behind the one of the owner.
LEMMA OwnerStep ==
  ASSUME Inv, [Next]_vars
  PROVE  \A c \in Calls : OwnerOK(call[c])'
<1> SUFFICES ASSUME NEW c \in Calls, call'[c].pc \in DeletionSteps, HeldBy(call[c])'
             PROVE  del'.checkpoint <= call'[c].checkpoint
  BY DEF OwnerOK
<1>i. /\ TypeOK /\ AccountOK /\ TokensDiffer /\ \A x \in Exports : AnsweredOK(x)
      /\ \A d \in Calls : /\ StepOK(call[d]) /\ AttemptOK(call[d]) /\ OwnerOK(call[d])
                          /\ ObjectOK(call[d])
  BY DEF Inv, CallOK
<1>t. /\ call \in [Calls -> CallType] /\ call' \in [Calls -> CallType]
      /\ del \in DeletionType /\ del' \in DeletionType
  BY <1>i, Typing, CallMoves, DeletionMoves
<1>n. /\ del.checkpoint \in 0 .. 5 /\ del'.checkpoint \in 0 .. 5
      /\ \A d \in Calls : call[d].checkpoint \in 0 .. 5 /\ call'[d].checkpoint \in 0 .. 5
  BY <1>t, CallTyping DEF DeletionType, Accepted, Completed
<1>e. Entry(c)
  BY <1>i, Entries
<1>o. CASE /\ call[c].pc \in DeletionSteps
           /\ call'[c].job = call[c].job /\ call'[c].attempt = call[c].attempt
           /\ call[c].checkpoint <= call'[c].checkpoint
  <2>1. call[c].job = Deletion /\ user # "active" /\ call[c].pc \in ConsumerSteps
    BY <1>i, <1>o, StepSets DEF StepOK
  <2>2. HeldBy(call[c])
    <3>1. PICK k : k = call[c]
      OBVIOUS
    <3>2. HeldBy(k)'
      BY <1>o, <3>1 DEF HeldBy
    <3>3. k \in CallType /\ k.pc \in ConsumerSteps /\ StepOK(k) /\ AttemptOK(k)
      BY <1>i, <1>t, <2>1, <3>1
    <3>4. HeldBy(k)
      BY <1>i, <3>2, <3>3, HeldBefore
    <3> QED BY <3>1, <3>4
  <2>3. del.checkpoint <= call[c].checkpoint
    BY <1>i, <1>o, <2>2 DEF OwnerOK
  <2>4. del.checkpoint <= call'[c].checkpoint
    BY <1>n, <1>o, <2>3
  <2>5. ASSUME NEW d \in Calls, AdvancedBy(d) PROVE del'.checkpoint = call'[c].checkpoint
    <3>1. call[d].pc \in DeletionSteps /\ HeldBy(call[d])
      BY <2>5 DEF AdvancedBy, DeletionSteps
    <3>2. call[d].job = Deletion /\ call[d].pc \in ConsumerSteps
      BY <1>i, <3>1, StepSets DEF StepOK
    <3>3. call[d].attempt = call[c].attempt
      BY <2>1, <2>2, <3>1, <3>2 DEF HeldBy
    <3>4. c = d
      BY <1>i, <2>1, <3>2, <3>3 DEF TokensDiffer
    <3> QED BY <2>5, <3>4 DEF AdvancedBy
  <2>6. job'[Deletion].status = "running"
    BY <1>o, <2>1 DEF HeldBy
  <2>7. DeletionMove
    BY <1>i, DeletionMoves
  <2> QED BY <1>n, <2>1, <2>4, <2>5, <2>6, <2>7 DEF DeletionMove
<1>1. CASE Waits(call[c], call'[c])
  BY <1>n, <1>o, <1>1 DEF Waits
<1>2. CASE OldCheckpoint(c)
  BY <1>o, <1>2 DEF OldCheckpoint
<1>3. CASE LoadedCheckpoint(c)
  BY <1>n, <1>3 DEF LoadedCheckpoint
<1>4. DeletionSteps \cap ({"publish"} \cup Withdrawing \cup Expiring) = {}
  BY DEF DeletionSteps, Withdrawing, Expiring
<1> QED BY <1>e, <1>1, <1>2, <1>3, <1>4 DEF Entry

\* No attempt that has yet to publish is the one that made the request ready.
LEMMA KeyStep ==
  ASSUME Inv, [Next]_vars
  PROVE  \A c \in Calls : KeyOK(call[c])'
<1> SUFFICES ASSUME NEW c \in Calls, NEW x \in Exports, call'[c].pc \in Early,
                    call'[c].job = x, req'[x].status = "ready"
             PROVE  call'[c].attempt # req'[x].key
  BY DEF KeyOK
<1>i. /\ TypeOK /\ TokensDiffer /\ AnsweredOK(x)
      /\ \A d \in Calls : StepOK(call[d]) /\ KeyOK(call[d])
  BY DEF Inv, CallOK
<1>t. /\ call \in [Calls -> CallType] /\ Idle.pc = "idle" /\ x \in Jobs /\ x # Deletion
  BY <1>i, Typing, Beginnings
<1>s. Early \subseteq ConsumerSteps /\ "idle" \notin Early
  BY StepSets DEF Early
<1>r. RequestMove(x)
  BY <1>i, RequestMoves
<1>o. CASE /\ call[c].pc \in Early
           /\ call'[c].job = call[c].job /\ call'[c].attempt = call[c].attempt
  <2>1. call[c].job = x
    BY <1>o
  <2>2. CASE RequestKept(x)
    BY <1>i, <1>o, <2>1, <2>2 DEF KeyOK, RequestKept
  <2>3. ASSUME NEW d \in Calls, PublishedBy(d, x) PROVE call'[c].attempt # req'[x].key
    <3>1. call[d].pc = "publish" /\ call[d].job = x /\ Ends(d) /\ req'[x].key = call[d].attempt
      BY <2>3 DEF PublishedBy
    <3>2. call'[d].pc = "idle"
      BY <1>t, <3>1 DEF Ends, MovesTo
    <3>3. c # d
      BY <1>s, <3>2
    <3>4. call[d].pc \in ConsumerSteps /\ call[c].pc \in ConsumerSteps
      BY <1>o, <1>s, <3>1 DEF Early
    <3>5. call[c].attempt # call[d].attempt
      BY <1>i, <2>1, <3>1, <3>3, <3>4 DEF TokensDiffer
    <3> QED BY <1>o, <3>1, <3>5
  <2> QED BY <1>r, <2>2, <2>3 DEF RequestMove
<1>1. CASE Waits(call[c], call'[c])
  BY <1>o, <1>1 DEF Waits
<1>2. ASSUME NEW d \in Calls, Moved(d) PROVE call'[c].attempt # req'[x].key
  <2>1. CASE c # d
    BY <1>o, <1>2, <2>1 DEF Moved
  <2>2. CASE Continues(call[c], call'[c])
    BY <1>o, <2>2 DEF Continues
  <2>3. ASSUME NEW j \in Jobs, ClaimedBy(c, j) PROVE FALSE
    <3>1. j = x /\ ClaimJob(c, x)
      BY <2>3 DEF ClaimedBy
    <3>2. user = "active" /\ req' = req /\ job[x].status \in {"queued", "running"}
      BY <1>i, <1>t, <3>1, Claiming DEF exportVars
    <3> QED BY <1>i, <3>2 DEF AnsweredOK
  <2> QED BY <1>s, <1>2, <2>1, <2>2, <2>3 DEF Moved
<1>3. \/ \A d \in Calls : Waits(call[d], call'[d])
      \/ \E d \in Calls : Moved(d)
  BY <1>i, CallMoves
<1> QED BY <1>1, <1>2, <1>3

\* While the account is open, removals are of what is not to be served.
LEMMA ObjectStep ==
  ASSUME Inv, [Next]_vars
  PROVE  \A c \in Calls : ObjectOK(call[c])'
<1> SUFFICES ASSUME NEW c \in Calls, user' = "active"
             PROVE  ObjectOK(call[c])'
  BY DEF ObjectOK
<1> DEFINE k == call[c]
           x == call'[c].job
<1>i. /\ TypeOK /\ \A y \in Exports : AnsweredOK(y)
      /\ \A d \in Calls : /\ StepOK(call[d]) /\ AttemptOK(call[d]) /\ ObjectOK(call[d])
  BY DEF Inv, CallOK
<1>t. /\ call \in [Calls -> CallType] /\ req' \in [Exports -> RequestType]
      /\ job \in [Jobs -> JobType] /\ user = "active"
      /\ \A y \in Exports : y \in Jobs /\ y # Deletion
  BY <1>i, Typing, Beginnings, RequestMoves, AccountMoves
<1>e. Entry(c)
  BY <1>i, Entries
<1>s. /\ {"dropFailed", "markFailed", "cleanDrop", "cleanMark"} = Withdrawing
      /\ {"expireDrop", "expireMark"} = Expiring
      /\ "publish" \in ConsumerSteps
      /\ {"publish"} \cup Withdrawing \cup Expiring \subseteq ExportWork
      /\ DeletionSteps \cap ({"publish"} \cup Withdrawing \cup Expiring) = {}
      /\ Withdrawing \cap Expiring = {} /\ "publish" \notin Withdrawing \cup Expiring
  BY DEF Withdrawing, Expiring, DeletionSteps, ExportWork, ExportSteps, ConsumerSteps
<1>w. ASSUME Waits(call[c], call'[c]), call'[c].pc \in {"publish"} \cup Withdrawing \cup Expiring
      PROVE  /\ x \in Exports /\ call[c].job = x /\ call[c].pc = call'[c].pc
             /\ call[c].attempt = call'[c].attempt
             /\ JobMove(x) /\ RequestMove(x) /\ ObjectMove(x)
             /\ req'[x].ttl \in Nat
  <2>1. call[c].job = x /\ call[c].pc = call'[c].pc /\ call[c].attempt = call'[c].attempt
    BY <1>w DEF Waits
  <2>2. x \in Exports
    BY <1>i, <1>s, <1>w, <2>1 DEF StepOK
  <2>3. req'[x].ttl \in Nat
    BY <1>t, <2>2 DEF RequestType
  <2>4. JobMove(x) /\ RequestMove(x) /\ ObjectMove(x)
    BY <1>i, <1>t, <2>2, JobMoves, RequestMoves, ObjectMoves
  <2> QED BY <2>1, <2>2, <2>3, <2>4
<1>1. ASSUME call'[c].pc \in Withdrawing PROVE job'[x].status = "failed"
  <2>1. CASE Waits(call[c], call'[c])
    <3>1. job[x].status = "failed" /\ x # Deletion /\ JobMove(x)
      BY <1>i, <1>s, <1>t, <1>w, <1>1, <2>1 DEF ObjectOK
    <3> HIDE DEF x
    <3> QED BY <1>t, <3>1 DEF JobMove, JobKept
  <2>2. CASE ~Waits(call[c], call'[c])
    BY <1>e, <1>s, <1>1, <2>2 DEF Entry, Guarded
  <2> QED BY <2>1, <2>2
<1>2. ASSUME call'[c].pc \in Expiring
      PROVE  /\ job'[x].status = "succeeded"
             /\ req'[x].status = "ready" => req'[x].ttl = 0
  <2>1. CASE Waits(call[c], call'[c])
    <3>1. /\ job[x].status = "succeeded" /\ (req[x].status = "ready" => req[x].ttl = 0)
          /\ x # Deletion /\ JobMove(x) /\ RequestMove(x) /\ req'[x].ttl \in Nat
      BY <1>i, <1>s, <1>t, <1>w, <1>2, <2>1 DEF ObjectOK
    <3> HIDE DEF x
    <3>2. job'[x].status = "succeeded"
      BY <1>t, <3>1 DEF JobMove, JobKept
    <3>3. \A d \in Calls : ~PublishedBy(d, x)
      BY <3>1 DEF PublishedBy, HeldBy
    <3>4. ASSUME req'[x].status = "ready" PROVE req'[x].ttl = 0
      <4>1. RequestKept(x)
        BY <3>1, <3>3, <3>4 DEF RequestMove
      <4> QED BY <3>1, <3>4, <4>1 DEF RequestKept
    <3> QED BY <3>2, <3>4
  <2>2. CASE ~Waits(call[c], call'[c])
    BY <1>e, <1>s, <1>t, <1>2, <2>2 DEF Entry, Guarded
  <2> QED BY <2>1, <2>2
<1>3. ASSUME call'[c].pc = "publish", HeldBy(call[c])' PROVE object'[x] = call'[c].attempt
  <2>1. CASE Waits(call[c], call'[c])
    <3>1. /\ x \in Exports /\ call[c].job = x /\ call[c].pc = "publish"
          /\ call[c].attempt = call'[c].attempt /\ ObjectMove(x)
      BY <1>w, <1>3, <2>1
    <3>2. HeldBy(call[c])
      <4>1. PICK l : l = call[c]
        OBVIOUS
      <4>2. HeldBy(l)'
        BY <1>3, <3>1, <4>1 DEF HeldBy
      <4>3. l \in CallType /\ l.pc \in ConsumerSteps /\ StepOK(l) /\ AttemptOK(l)
        BY <1>i, <1>s, <1>t, <3>1, <4>1
      <4>4. HeldBy(l)
        BY <1>i, <4>2, <4>3, HeldBefore
      <4> QED BY <4>1, <4>4
    <3>3. object[x] = call[c].attempt
      BY <1>i, <1>t, <3>1, <3>2 DEF ObjectOK
    <3>4. job[x].status = "running" /\ job[x].attempts = call[c].attempt
      BY <3>1, <3>2 DEF HeldBy
    <3>5. ASSUME NEW d \in Calls, StoredBy(d, x) PROVE object'[x] = call[c].attempt
      <4>1. /\ call[d].pc = "put" /\ call[d].job = x /\ call[d].etag = object[x]
            /\ object'[x] = call[d].attempt
        BY <3>5 DEF StoredBy
      <4>2. call[d].etag <= call[d].attempt
        BY <1>i, <4>1 DEF StepOK
      <4>3. call[d].attempt <= job[x].attempts
        BY <1>i, <1>t, <4>1 DEF AttemptOK, Gone, ConsumerSteps, ExportSteps
      <4>4. call[d].attempt \in Nat /\ call[c].attempt \in Nat
        BY <1>t, CallTyping
      <4> HIDE DEF x
      <4> QED BY <3>3, <3>4, <4>1, <4>2, <4>3, <4>4
    <3>6. ASSUME NEW d \in Calls, call[d].job = x,
                 call[d].pc \in {"dropFailed", "cleanDrop", "expireDrop"}
          PROVE  FALSE
      BY <1>i, <1>t, <3>4, <3>6 DEF ObjectOK
    <3> QED BY <1>t, <3>1, <3>3, <3>5, <3>6 DEF ObjectMove
  <2>2. CASE ~Waits(call[c], call'[c])
    BY <1>e, <1>s, <1>3, <2>2 DEF Entry, Guarded
  <2> QED BY <2>1, <2>2
<1> QED BY <1>s, <1>1, <1>2, <1>3 DEF ObjectOK
-----------------------------------------------------------------------------
(* The theorems.                                                           *)

\* The invariant holds of a new account.
LEMMA InvInit == Init => Inv
<1> SUFFICES ASSUME Init PROVE Inv
  OBVIOUS
<1>1. TypeOK
  BY Typed, Beginnings DEF Init
<1>2. /\ \A c \in Calls : call[c] = Idle
      /\ \A x \in Exports : req[x] = NoRequest
      /\ user = "active" /\ keys = TRUE /\ rows = TRUE /\ del = NoDeletion
  BY DEF Init
<1>3. AccountOK
  BY <1>2 DEF AccountOK, NoDeletion, Accepted, RowsDeleted, KeysErased, Completed
<1>4. "idle" \notin ConsumerSteps \cup DeletionSteps \cup ExportWork \cup Early
  BY StepSets DEF Early, DeletionSteps
<1>5. TokensDiffer
  BY <1>2, <1>4, Beginnings DEF TokensDiffer
<1>6. StepOK(Idle) /\ AttemptOK(Idle)
  BY <1>4, Beginnings DEF StepOK, AttemptOK, PastRows
<1>7. OwnerOK(Idle) /\ KeyOK(Idle) /\ ObjectOK(Idle)
  BY <1>4, Beginnings DEF OwnerOK, KeyOK, ObjectOK
<1>8. \A x \in Exports : AnsweredOK(x)
  BY <1>2 DEF AnsweredOK, NoRequest
<1> QED BY <1>1, <1>2, <1>3, <1>5, <1>6, <1>7, <1>8 DEF Inv, CallOK

\* Every step keeps the invariant; its parts are the lemmas above.
LEMMA InvStep == Inv /\ [Next]_vars => Inv'
<1> SUFFICES ASSUME Inv, [Next]_vars PROVE Inv'
  OBVIOUS
<1>1. /\ TypeOK /\ AccountOK /\ TokensDiffer
      /\ \A c \in Calls : StepOK(call[c]) /\ AttemptOK(call[c])
  BY DEF Inv, CallOK
<1>2. TypeOK' /\ AccountOK'
  BY <1>1, TypeStep, AccountStep
<1>3. TokensDiffer' /\ \A c \in Calls : AttemptOK(call[c])'
  BY <1>1, TokenStep
<1>4. \A c \in Calls : StepOK(call[c])'
  BY <1>1, StepStep
<1>5. \A c \in Calls : OwnerOK(call[c])' /\ KeyOK(call[c])' /\ ObjectOK(call[c])'
  BY OwnerStep, KeyStep, ObjectStep
<1>6. \A x \in Exports : AnsweredOK(x)'
  BY AnswerStep
<1> QED BY <1>2, <1>3, <1>4, <1>5, <1>6 DEF Inv, CallOK

\* The invariant holds throughout.
THEOREM Invariance == Spec => []Inv
BY InvInit, InvStep, PTL DEF Spec

\* Every column, object, message and call holds a value of its kind.
THEOREM TypeCorrect == Spec => []TypeOK
<1>1. Inv => TypeOK
  BY DEF Inv
<1> QED BY <1>1, Invariance, PTL

\* An export that a download may open has the object of its row, through
\* takeovers, failures, late stores and cleanups (putExportArtifact).
THEOREM ServedExports == Spec => []ReadyIsServed
<1>1. Inv => ReadyIsServed
  BY DEF Inv, AnsweredOK, ReadyIsServed
<1> QED BY <1>1, Invariance, PTL

\* The recorded checkpoint never goes back, although a displaced claim goes on
\* with its next statement (advanceDeletionCheckpoint).
THEOREM CheckpointsNeverGoBack == Spec => CheckpointsAdvance
<1>1. ASSUME Inv, [Next]_vars PROVE del'.checkpoint >= del.checkpoint
  <2>1. /\ TypeOK /\ AccountOK
        /\ \A c \in Calls : StepOK(call[c]) /\ OwnerOK(call[c])
    BY <1>1 DEF Inv, CallOK
  <2>2. del \in DeletionType /\ del' \in DeletionType /\ DeletionMove
    BY <1>1, <2>1, Typing, DeletionMoves
  <2>3. /\ del.checkpoint \in 0 .. 5 /\ del'.checkpoint \in 0 .. 5
        /\ Accepted = 0 /\ Completed = 5
    BY <2>2 DEF DeletionType, Accepted, Completed
  <2>4. ASSUME NEW c \in Calls, AdvancedBy(c) PROVE del'.checkpoint >= del.checkpoint
    <3>1. call[c].pc \in DeletionSteps /\ HeldBy(call[c])
      BY <2>4 DEF AdvancedBy, DeletionSteps
    <3>2. del.checkpoint <= call[c].checkpoint
      BY <2>1, <3>1 DEF OwnerOK
    <3>3. call[c].checkpoint \in Int /\ call[c].checkpoint < del'.checkpoint
      BY <2>1, <2>4, Typing, CallTyping DEF AdvancedBy
    <3> QED BY <2>3, <3>2, <3>3
  <2> QED BY <2>1, <2>2, <2>3, <2>4 DEF AccountOK, DeletionMove
<1> QED BY <1>1, Invariance, PTL DEF Spec, CheckpointsAdvance

\* An export becomes readable by its publication only: neither a store of
\* another attempt nor a removal makes its object the one that the row names.
LEMMA Withdrawals ==
  ASSUME Inv, [Next]_vars,
         \A x \in Exports : req'[x].status = "ready" => req[x].status = "ready"
  PROVE  Readable' \subseteq Readable
<1>i. /\ TypeOK /\ \A x \in Exports : AnsweredOK(x)
      /\ \A c \in Calls : StepOK(call[c]) /\ KeyOK(call[c])
  BY DEF Inv, CallOK
<1>1. ASSUME NEW x \in Exports, req'[x].status = "ready", req'[x].ttl > 0,
             object'[x] = req'[x].key
      PROVE  req[x].status = "ready" /\ req[x].ttl > 0 /\ object[x] = req[x].key
  <2>1. req[x].status = "ready" /\ req[x].key > 0
    BY <1>i, <1>1 DEF AnsweredOK
  <2>2. RequestMove(x) /\ ObjectMove(x) /\ req' \in [Exports -> RequestType]
    BY <1>i, RequestMoves, ObjectMoves
  <2>3. RequestKept(x)
    BY <1>1, <2>1, <2>2 DEF RequestMove, PublishedBy
  <2>4. req[x].ttl \in Nat /\ req'[x].ttl \in Nat
    BY <1>i, <2>2, Typing DEF RequestType
  <2>5. req[x].ttl > 0 /\ req'[x].key = req[x].key
    BY <1>1, <2>3, <2>4 DEF RequestKept
  <2>6. ASSUME NEW c \in Calls, StoredBy(c, x) PROVE FALSE
    <3>1. call[c].pc = "put" /\ call[c].job = x /\ object'[x] = call[c].attempt
      BY <2>6 DEF StoredBy
    <3>2. call[c].attempt # req[x].key
      BY <1>i, <2>1, <3>1 DEF KeyOK, Early
    <3> QED BY <1>1, <2>5, <3>1, <3>2
  <2>7. object'[x] # 0
    BY <1>1, <2>1, <2>5
  <2> QED BY <1>1, <2>1, <2>2, <2>5, <2>6, <2>7 DEF ObjectMove
<1> QED BY <1>1 DEF Readable

\* What publishes.
LEMMA Publication ==
  ASSUME Inv, [Next]_vars, NEW c \in Calls, PublishExport(c), CanPublish(c)
  PROVE  /\ user = "active" /\ UNCHANGED accountVars
         /\ \E x \in Exports : Readable' = Readable \cup {x}
<1> DEFINE x == call[c].job
<1>i. /\ TypeOK /\ StepOK(call[c]) /\ ObjectOK(call[c])
  BY DEF Inv, CallOK
<1>1. /\ call[c].pc = "publish" /\ object' = object /\ UNCHANGED accountVars
      /\ req' = [req EXCEPT ![x] = [status |-> "ready", key |-> call[c].attempt,
                                    ttl |-> ExportTtl, cleaned |-> FALSE]]
  BY DEF PublishExport, At
<1>2. user = "active" /\ HeldBy(call[c])
  BY DEF CanPublish, Holds, HeldBy
<1>3. x \in Exports /\ object[x] = call[c].attempt
  BY <1>i, <1>1, <1>2 DEF StepOK, ObjectOK, ExportWork, ExportSteps
<1>4. ExportTtl > 0
  BY PrivacyAssumption
<1>5. req \in [Exports -> RequestType]
  BY <1>i, Typing
<1>6. /\ req'[x].status = "ready" /\ req'[x].key = call[c].attempt /\ req'[x].ttl = ExportTtl
      /\ \A y \in Exports \ {x} : req'[y] = req[y]
  BY <1>1, <1>3, <1>5
<1> HIDE DEF x
<1>7. Readable' = Readable \cup {x}
  BY <1>1, <1>3, <1>4, <1>6 DEF Readable
<1> QED BY <1>1, <1>2, <1>3, <1>7

\* Nothing else makes a request ready.
LEMMA NotPublished ==
  ASSUME TypeOK, NEW c \in Calls, Write(c), ~(PublishExport(c) /\ CanPublish(c))
  PROVE  \A x \in Exports : req'[x].status = "ready" => req[x].status = "ready"
<1> DEFINE Goal == \A x \in Exports : req'[x].status = "ready" => req[x].status = "ready"
<1>t. req \in [Exports -> RequestType]
  BY Typing
<1>u. req' = req => Goal
  OBVIOUS
<1> SUFFICES Goal
  OBVIOUS
<1> HIDE DEF Goal
<1>1. CASE \/ JobWrite(c) \/ ObjectWrite(c) \/ ReserveDeletion(c) \/ FenceExports(c) \/ Advance(c)
           \/ ClearManifest(c) \/ EraseKeys(c) \/ FinalizeDeletion(c)
  <2>1. req' = req
    BY <1>1, Frames DEF exportVars
  <2> QED BY <1>u, <2>1
<1>2. CASE ReleaseDeletion(c)
  <2>1. req' = req
    BY <1>2 DEF ReleaseDeletion, exportVars
  <2> QED BY <1>u, <2>1
<1>3. CASE PublishExport(c)
  <2>1. req' = req
    BY <1>3 DEF PublishExport
  <2> QED BY <1>u, <2>1
<1>4. CASE FailExport(c) \/ ReleaseExport(c)
  BY <1>4, <1>t DEF Goal, FailExport, ReleaseExport, NoRequest, RequestType
<1>5. CASE MarkFailedExport(c) \/ MarkExpired(c)
  BY <1>5, <1>t DEF Goal, MarkFailedExport, MarkExpired, RequestType
<1>6. CASE Reservation(c) \/ MarkRunning(c)
  BY <1>6, <1>t DEF Goal, Reservation, ReserveExport, MarkRunning, RequestType
<1>7. CASE DeleteUserRows(c)
  BY <1>7 DEF Goal, DeleteUserRows, NoRequest
<1> QED BY <1>1, <1>2, <1>3, <1>4, <1>5, <1>6, <1>7 DEF Write, AnswerWrite, RequestWrite

-----------------------------------------------------------------------------
(* The promise.                                                            *)

\* A step of the promise, or none.
Kept == Promise!ErasureNext \/ UNCHANGED Promise!erasureVars

\* Every step of the workflows is one of the promise.
LEMMA PromiseStep ==
  ASSUME Inv, [Next]_vars
  PROVE  Kept
<1>i. /\ TypeOK /\ AccountOK /\ \A c \in Calls : StepOK(call[c])
  BY DEF Inv, CallOK
<1>t. keys \in BOOLEAN /\ rows \in BOOLEAN /\ user \in {"active", "pending", "deleted"}
      /\ keys' \in BOOLEAN /\ rows' \in BOOLEAN
  BY <1>i, Typing, AccountMoves
<1>p. UNCHANGED user => UNCHANGED Phase
  BY DEF Phase
<1>w. ASSUME UNCHANGED <<user, rows \/ keys>>, Readable' \subseteq Readable PROVE Kept
  BY <1>p, <1>w DEF Kept, Promise!ErasureNext, Promise!WithdrawReadable
<1>x. UNCHANGED exportVars => Readable' = Readable
  BY DEF exportVars, Readable
<1>a. UNCHANGED <<user, keys, rows>> => UNCHANGED <<user, rows \/ keys>>
  OBVIOUS
<1>1. CASE UNCHANGED stored
  BY <1>1, <1>a, <1>w, <1>x DEF stored
<1>2. CASE Tick
  <2>1. UNCHANGED <<user, keys, rows>>
    BY <1>2 DEF Tick, accountVars
  <2>2. \A x \in Exports : req'[x].status = "ready" => req[x].status = "ready"
    BY <1>2, <1>i, Typing DEF Tick, RequestType
  <2> QED BY <1>a, <1>w, <2>1, <2>2, Withdrawals
<1>3. ASSUME NEW c \in Calls, PublishExport(c), CanPublish(c) PROVE Kept
  <2>1. PICK x \in Exports : Readable' = Readable \cup {x}
    BY <1>3, Publication
  <2>2. user = "active" /\ UNCHANGED <<user, keys, rows>>
    BY <1>3, Publication DEF accountVars
  <2>3. Phase = "open"
    BY <2>2 DEF Phase
  <2>4. Promise!PublishReadable(x)
    BY <1>a, <1>p, <2>1, <2>2, <2>3 DEF Promise!PublishReadable
  <2> QED BY <2>4 DEF Kept, Promise!ErasureNext
<1>4. ASSUME NEW c \in Calls, Write(c), ~(PublishExport(c) /\ CanPublish(c)) PROVE Kept
  <2>r. Readable' \subseteq Readable
    <3>1. \A x \in Exports : req'[x].status = "ready" => req[x].status = "ready"
      BY <1>i, <1>4, NotPublished
    <3> QED BY <3>1, Withdrawals
  <2>1. CASE UNCHANGED <<user, keys, rows>>
    BY <1>a, <1>w, <2>1, <2>r
  <2>2. CASE ReserveDeletion(c)
    <3>1. user = "active" /\ user' = "pending" /\ UNCHANGED <<keys, rows, exportVars>>
      BY <2>2 DEF ReserveDeletion
    <3>2. Phase = "open" /\ Phase' = "closing"
      BY <3>1 DEF Phase
    <3>3. Promise!CloseAccount
      BY <1>x, <3>1, <3>2 DEF Promise!CloseAccount
    <3> QED BY <3>3 DEF Kept, Promise!ErasureNext
  <2>3. ASSUME UNCHANGED user, user # "active", ~(UNCHANGED (rows \/ keys)), ~rows' /\ ~keys'
        PROVE  Kept
    <3>1. rows \/ keys
      BY <2>3
    <3>2. user = "pending"
      BY <1>i, <1>t, <2>3, <3>1 DEF AccountOK
    <3>3. Phase = "closing" /\ UNCHANGED Phase
      BY <1>p, <2>3, <3>2 DEF Phase
    <3>4. Promise!DestroyData
      BY <2>3, <2>r, <3>3 DEF Promise!DestroyData
    <3> QED BY <3>4 DEF Kept, Promise!ErasureNext
  <2>4. CASE DeleteUserRows(c)
    <3>1. call[c].pc = "deleteRows" /\ UNCHANGED <<user, keys>> /\ ~rows'
      BY <2>4 DEF DeleteUserRows, At
    <3>2. user # "active"
      BY <1>i, <3>1 DEF StepOK, DeletionSteps
    <3>3. CASE keys
      <4>1. UNCHANGED (rows \/ keys)
        BY <3>1, <3>3
      <4> QED BY <1>w, <2>r, <3>1, <4>1
    <3>4. CASE ~keys
      BY <1>w, <2>3, <2>r, <3>1, <3>2, <3>4
    <3> QED BY <3>3, <3>4
  <2>5. CASE EraseKeys(c)
    <3>1. call[c].pc = "erase" /\ UNCHANGED <<user, rows>> /\ ~keys'
      BY <2>5 DEF EraseKeys, At
    <3>2. user # "active"
      BY <1>i, <3>1 DEF StepOK, DeletionSteps
    <3>3. CASE rows
      <4>1. UNCHANGED (rows \/ keys)
        BY <3>1, <3>3
      <4> QED BY <1>w, <2>r, <3>1, <4>1
    <3>4. CASE ~rows
      BY <1>w, <2>3, <2>r, <3>1, <3>2, <3>4
    <3> QED BY <3>3, <3>4
  <2>6. CASE FinalizeDeletion(c)
    <3>1. /\ call[c].pc = "finalize" /\ UNCHANGED <<keys, rows, exportVars>>
          /\ \/ UNCHANGED user
             \/ user = "pending" /\ user' = "deleted"
      BY <2>6 DEF FinalizeDeletion, At
    <3>2. CASE UNCHANGED user
      BY <1>w, <2>r, <3>1, <3>2
    <3>3. CASE user = "pending" /\ user' = "deleted"
      <4>1. ~rows /\ ~keys
        BY <1>i, <3>1 DEF StepOK, DeletionSteps, PastRows, CheckpointsAt, RowsDeleted, KeysErased
      <4>2. Readable = {}
        BY <1>i, <4>1 DEF AccountOK, Readable
      <4>3. Phase = "closing" /\ Phase' = "erased"
        BY <3>3 DEF Phase
      <4>4. Promise!CallErased
        BY <1>x, <3>1, <4>1, <4>2, <4>3 DEF Promise!CallErased
      <4> QED BY <4>4 DEF Kept, Promise!ErasureNext
    <3> QED BY <3>1, <3>2, <3>3
  <2>7. \/ UNCHANGED <<user, keys, rows>> \/ ReserveDeletion(c) \/ DeleteUserRows(c)
        \/ EraseKeys(c) \/ FinalizeDeletion(c)
    BY <1>4, Frames DEF Write, accountVars
  <2> QED BY <2>1, <2>2, <2>4, <2>5, <2>6, <2>7
<1> QED BY <1>1, <1>2, <1>3, <1>4, Writers

\* Deletion and exports implement the promise of Erasure: nothing becomes
\* readable once deletion was asked for, and an account is called erased only
\* when its rows, its keys and its exports are gone (account-deletion.ts).
THEOREM ImplementsErasure == Spec => KeepsErasurePromise
<1>1. Init => Promise!ErasureInit
  <2> SUFFICES ASSUME Init PROVE Promise!ErasureInit
    OBVIOUS
  <2>1. user = "active" /\ rows = TRUE /\ keys = TRUE /\ \A x \in Exports : req[x] = NoRequest
    BY DEF Init
  <2>2. Phase = "open"
    BY <2>1 DEF Phase
  <2>3. Readable = {}
    BY <2>1 DEF Readable, NoRequest
  <2> QED BY <2>1, <2>2, <2>3 DEF Promise!ErasureInit
<1>2. Inv /\ [Next]_vars => [Promise!ErasureNext]_(Promise!erasureVars)
  BY PromiseStep DEF Kept
<1> QED BY <1>1, <1>2, Invariance, PTL DEF Spec, KeepsErasurePromise, Promise!ErasureSpec
-----------------------------------------------------------------------------
(* Late objects.                                                           *)
(*                                                                         *)
(* Once the exports are fenced no export is claimed, so what may still be  *)
(* stored is stored by an invocation that began before; it is over before  *)
(* the fence is (CallLife < FenceTtl), and until then its key is on the    *)
(* manifest: the keys are collected after the account was closed.          *)

\* An export that may still store its object.
Putting == {"start", "load", "build", "check", "head", "put"}

Fenced == del.checkpoint >= ExportsFenced

LateCall(k) ==
    /\ k.pc # "idle" => k.age <= CallLife
    /\ k.pc \in Putting /\ k.job \in Exports =>
          IF Fenced THEN k.job \in del.manifest /\ del.fence + k.age > CallLife
                    ELSE k.job \in Registered
    /\ k.pc \in DeletionSteps /\ k.checkpoint # Accepted => Fenced
    /\ k.pc = "fence" /\ ~Fenced => Registered \subseteq k.keys
    /\ k.pc \in {"sweepDrop", "sweepClear"} => Fenced /\ (k.etag = 1 => del.fence = 0)
    /\ k.pc = "sweepClear" => k.etag = 1 /\ \A x \in k.keys : object[x] = 0

LateAccount ==
    /\ ~Fenced => del.manifest = {}
    /\ \A x \in Exports : object[x] # 0 => x \in IF Fenced THEN del.manifest ELSE Registered
    /\ user = "active" => \A x \in Exports : job[x].status # "absent" => x \in Registered

LateOK == LateAccount /\ \A c \in Calls : LateCall(call[c])

\* The deletion request, as far as late objects go.
Steady == /\ Fenced' <=> Fenced
          /\ del'.manifest = del.manifest
          /\ Fenced => del'.fence = del.fence

\* Being fenced is having got past the first checkpoint.
LEMMA FencedChecks ==
  ASSUME TypeOK
  PROVE  /\ Fenced <=> del.checkpoint # Accepted
         /\ del.checkpoint \in 0 .. 5 /\ del.fence \in Nat /\ del.manifest \in SUBSET Exports
         /\ \A x \in Exports : object[x] \in Nat
         /\ ExportsFenced = 1 /\ Accepted = 0
BY Typing DEF Fenced, DeletionType, Accepted, ExportsFenced, Completed

\* The steps that matter to the fence and the manifest.
LEMMA FenceMoves ==
  ASSUME Inv, LateOK, [Next]_vars
  PROVE  \/ Steady
         \/ Tick
         \/ \E c \in Calls : FenceExports(c) /\ OwnsDeletion(c)
         \/ \E c \in Calls : ClearManifest(c)
<1>i. TypeOK /\ AccountOK /\ \A c \in Calls : StepOK(call[c]) /\ LateCall(call[c])
  BY DEF Inv, CallOK, LateOK
<1>f. /\ Fenced <=> del.checkpoint # Accepted
      /\ del.checkpoint \in 0 .. 5 /\ ExportsFenced = 1 /\ Accepted = 0
  BY <1>i, FencedChecks
<1>t. del \in DeletionType
  BY <1>i, Typing
<1>u. UNCHANGED del => Steady
  BY DEF Steady, Fenced
<1>1. ASSUME NEW c \in Calls, ReserveDeletion(c) PROVE Steady
  <2>1. /\ user = "active" /\ del' = [NoDeletion EXCEPT !.status = "queued"]
    BY <1>1 DEF ReserveDeletion
  <2>2. ~Fenced /\ del.manifest = {}
    BY <1>i, <1>f, <2>1 DEF AccountOK, LateOK, LateAccount
  <2>3. del'.checkpoint = Accepted /\ del'.manifest = {}
    BY <2>1 DEF NoDeletion
  <2> QED BY <1>f, <2>2, <2>3 DEF Steady, Fenced
<1>2. ASSUME NEW c \in Calls, NEW pc \in DeletionSteps, At(c, pc),
             call[c].checkpoint # Accepted, NEW cp \in 1 .. 5,
             del' = [del EXCEPT !.checkpoint = cp]
      PROVE  Steady
  <2>1. Fenced
    BY <1>i, <1>2 DEF LateCall, At
  <2>2. del'.checkpoint = cp /\ del'.manifest = del.manifest /\ del'.fence = del.fence
    BY <1>2, <1>t DEF DeletionType
  <2> QED BY <1>f, <1>2, <2>1, <2>2 DEF Steady, Fenced
<1>c. ASSUME NEW c \in Calls, NEW pc \in DeletionSteps, At(c, pc)
      PROVE  call[c].checkpoint \in CheckpointsAt(pc)
  BY <1>c, <1>i DEF At, StepOK
<1>3. ASSUME NEW c \in Calls, MarkRunning(c) \/ ReleaseDeletion(c) PROVE Steady
  <2>1. del' = del \/ \E st \in {"queued", "running"} : del' = [del EXCEPT !.status = st]
    BY <1>3 DEF MarkRunning, ReleaseDeletion
  <2>2. /\ del'.checkpoint = del.checkpoint /\ del'.manifest = del.manifest
        /\ del'.fence = del.fence
    BY <1>t, <2>1 DEF DeletionType
  <2> QED BY <2>2 DEF Steady, Fenced
<1>4. ASSUME NEW c \in Calls, Advance(c) PROVE Steady
  <2>1. At(c, "advance") /\ "advance" \in DeletionSteps
    BY <1>4 DEF Advance, DeletionSteps
  <2>2. call[c].checkpoint \in {1, 2}
    BY <1>c, <2>1 DEF CheckpointsAt, ExportsFenced, ObjectsDeleted
  <2>3. UNCHANGED del \/ del' = [del EXCEPT !.checkpoint = call[c].checkpoint + 1]
    BY <1>4 DEF Advance
  <2>4. call[c].checkpoint + 1 \in 1 .. 5
    BY <2>2
  <2> QED BY <1>f, <1>u, <1>2, <2>1, <2>2, <2>3, <2>4
<1>5. ASSUME NEW c \in Calls, EraseKeys(c) PROVE Steady
  <2>1. At(c, "erase") /\ "erase" \in DeletionSteps
    BY <1>5 DEF EraseKeys, DeletionSteps
  <2>2. call[c].checkpoint = 3
    BY <1>c, <2>1 DEF CheckpointsAt, RowsDeleted
  <2>3. Fenced
    BY <1>f, <1>i, <2>1, <2>2 DEF LateCall, At
  <2>4. UNCHANGED del \/ del' = [del EXCEPT !.checkpoint = KeysErased, !.dek = TRUE]
    BY <1>5 DEF EraseKeys
  <2>5. del' = [del EXCEPT !.checkpoint = KeysErased, !.dek = TRUE]
          => del'.checkpoint = 4 /\ del'.manifest = del.manifest /\ del'.fence = del.fence
    BY <1>t DEF DeletionType, KeysErased
  <2> QED BY <1>f, <1>u, <2>3, <2>4, <2>5 DEF Steady, Fenced
<1>6. ASSUME NEW c \in Calls, FinalizeDeletion(c) PROVE Steady
  <2>1. At(c, "finalize") /\ "finalize" \in DeletionSteps
    BY <1>6 DEF FinalizeDeletion, DeletionSteps
  <2>2. call[c].checkpoint = 4
    BY <1>c, <2>1 DEF CheckpointsAt, KeysErased
  <2>3. Fenced
    BY <1>f, <1>i, <2>1, <2>2 DEF LateCall, At
  <2>4. UNCHANGED del \/ del' = [del EXCEPT !.status = "completed", !.checkpoint = Completed]
    BY <1>6 DEF FinalizeDeletion
  <2>5. del' = [del EXCEPT !.status = "completed", !.checkpoint = Completed]
          => del'.checkpoint = 5 /\ del'.manifest = del.manifest /\ del'.fence = del.fence
    BY <1>t DEF DeletionType, Completed
  <2> QED BY <1>f, <1>u, <2>3, <2>4, <2>5 DEF Steady, Fenced
<1>7. ASSUME NEW c \in Calls, FenceExports(c) PROVE Steady \/ OwnsDeletion(c)
  BY <1>7, <1>u DEF FenceExports
<1>8. ASSUME UNCHANGED stored PROVE Steady
  BY <1>8, <1>u DEF stored, deletionVars
<1>9. ASSUME NEW c \in Calls,
             \/ JobWrite(c) \/ ObjectWrite(c) \/ AnswerWrite(c) \/ RequestWrite(c)
             \/ Reservation(c) \/ DeleteUserRows(c)
      PROVE  Steady
  BY <1>9, <1>u, Frames DEF deletionVars
<1> QED BY <1>1, <1>3, <1>4, <1>5, <1>6, <1>7, <1>8, <1>9, Writers DEF Write

\* Requests are made while the account is open, and go with its rows.
LEMMA RegisteredMoves ==
  ASSUME Inv, LateOK, [Next]_vars
  PROVE  /\ ~Fenced => Registered \subseteq Registered'
         /\ user # "active" => Registered' \subseteq Registered
<1>i. /\ TypeOK /\ AccountOK /\ \A c \in Calls : StepOK(call[c]) /\ LateCall(call[c])
      /\ \A x \in Exports : RequestMove(x)
  BY RequestMoves DEF Inv, CallOK, LateOK
<1>1. user # "active" => Registered' \subseteq Registered
  BY <1>i DEF Registered, RequestMove, RequestKept
<1>2. ASSUME ~Fenced, rows PROVE rows'
  <2>1. ASSUME NEW c \in Calls, DeleteUserRows(c) PROVE FALSE
    <3>1. At(c, "deleteRows")
      BY <2>1 DEF DeleteUserRows
    <3>2. call[c].pc \in DeletionSteps /\ call[c].checkpoint = 2
      BY <1>i, <3>1 DEF At, StepOK, CheckpointsAt, DeletionSteps, ObjectsDeleted
    <3> QED BY <1>i, <1>2, <3>2 DEF LateCall, Accepted
  <2>2. Tick => UNCHANGED rows
    BY DEF Tick, accountVars
  <2>3. UNCHANGED stored => UNCHANGED rows
    BY DEF stored, accountVars
  <2>4. \A c \in Calls : Write(c) /\ ~DeleteUserRows(c) => UNCHANGED rows
    BY Frames DEF Write, accountVars
  <2> QED BY <1>2, <2>1, <2>2, <2>3, <2>4, Writers
<1>3. ASSUME ~Fenced, NEW x \in Registered PROVE x \in Registered'
  <2>1. rows
    BY <1>i, <1>3 DEF AccountOK, Registered
  <2>2. rows' /\ x \in Exports /\ req[x].status # "absent"
    BY <1>2, <1>3, <2>1 DEF Registered
  <2>3. req'[x].status # "absent"
    BY <1>i, <2>2 DEF RequestMove, RequestKept, PublishedBy
  <2> QED BY <2>2, <2>3 DEF Registered
<1> QED BY <1>1, <1>3

\* What a call that did not move, or moved, is as to late objects.
LateEntry(c) ==
  \/ call'[c] = call[c]
  \/ /\ call'[c].age = 0 \/ (call[c].pc # "idle" /\ call'[c].age = call[c].age)
     /\ call'[c].pc \in Putting /\ call'[c].job \in Exports =>
          \/ /\ call[c].pc \in Putting /\ call[c].job = call'[c].job
             /\ call'[c].age = call[c].age
          \/ user = "active" /\ call'[c].job \in Registered /\ UNCHANGED <<req, del>>
     /\ call'[c].pc \in DeletionSteps =>
          \/ call[c].pc \in DeletionSteps /\ call[c].checkpoint # Accepted
          \/ call'[c].checkpoint = Accepted
          \/ call'[c].checkpoint = del.checkpoint
     /\ call'[c].pc = "fence" => call'[c].keys = Registered /\ UNCHANGED <<req, del>>
     /\ call'[c].pc = "sweepDrop" => /\ del.manifest # {} /\ UNCHANGED del
                                     /\ call'[c].etag = 1 => del.fence = 0
     /\ call'[c].pc = "sweepClear" => /\ call[c].pc = "sweepDrop"
                                      /\ call[c].etag = 1 /\ call'[c].etag = 1
                                      /\ call'[c].keys = call[c].keys
                                      /\ \A x \in call[c].keys : object'[x] = 0

\* Every step but the fence and the clock brings calls to such places.
LEMMA LateEntries ==
  ASSUME Inv, LateOK, [Next]_vars, ~Tick,
         \A c \in Calls : ~(FenceExports(c) /\ OwnsDeletion(c))
  PROVE  \A c \in Calls : LateEntry(c)
<1> DEFINE Goal == \A c \in Calls : LateEntry(c)
<1>i. TypeOK /\ AccountOK /\ LateAccount /\ \A c \in Calls : StepOK(call[c]) /\ LateCall(call[c])
  BY DEF Inv, CallOK, LateOK
<1>t. /\ call \in [Calls -> CallType] /\ \A c \in Calls : call[c] \in CallType
      /\ Idle \in CallType /\ Idle.pc = "idle" /\ Idle.age = 0
  BY <1>i, Typing, Beginnings DEF Idle
<1>s. /\ Putting \subseteq ConsumerSteps /\ Putting \cap DeletionSteps = {}
      /\ "idle" \notin Putting \cup DeletionSteps
      /\ {"sweepDrop", "sweepClear"} \cap (Putting \cup DeletionSteps) = {}
      /\ "fence" \in DeletionSteps
  BY DEF Putting, DeletionSteps, ConsumerSteps, ExportSteps
<1>m. ASSUME NEW c \in Calls, NEW k, MovesTo(c, k), LateEntry(c) PROVE Goal
  BY <1>m DEF MovesTo, LateEntry
<1>u. ASSUME UNCHANGED call PROVE Goal
  BY <1>u DEF LateEntry
<1>n. ASSUME NEW c \in Calls, NEW k \in CallType, MovesTo(c, k), k.age = 0,
             k.pc \notin Putting \cup DeletionSteps \cup {"sweepDrop", "sweepClear"}
      PROVE  Goal
  <2>1. LateEntry(c)
    BY <1>n, <1>s DEF MovesTo, LateEntry
  <2> QED BY <1>m, <1>n, <2>1
<1>e. ASSUME NEW c \in Calls, Ends(c) PROVE Goal
  BY <1>e, <1>n, <1>s, <1>t DEF Ends
<1>g. ASSUME NEW c \in Calls, NEW pc, Goes(c, pc)
      PROVE  /\ MovesTo(c, call'[c]) /\ call'[c].pc = pc /\ call'[c].job = call[c].job
             /\ call'[c].checkpoint = call[c].checkpoint /\ call'[c].age = call[c].age
             /\ call'[c].keys = call[c].keys /\ call'[c].etag = call[c].etag
  BY <1>g, <1>t DEF Goes, MovesTo, CallType
<1>p. ASSUME NEW c \in Calls, NEW pc, Goes(c, pc), call[c].pc # "idle",
             pc \notin {"fence", "sweepDrop", "sweepClear"},
             pc \in Putting => call[c].pc \in Putting,
             pc \in DeletionSteps => call[c].pc \in DeletionSteps
      PROVE  Goal
  <2>1. LateEntry(c)
    BY <1>g, <1>p DEF LateEntry
  <2>2. PICK k : k = call'[c] /\ MovesTo(c, k)
    BY <1>g, <1>p
  <2> QED BY <1>m, <2>1, <2>2
<1>a. \A c \in Calls : call[c].pc \in Steps => call[c].pc # "idle"
  BY DEF Steps, RouteSteps, ConsumerSteps, ExportSteps, DeletionSteps, MaintenanceSteps
<1>1. ASSUME NEW c \in Calls, RouteStep(c) PROVE Goal
  BY <1>1, <1>e, <1>i, <1>p, ClaimCalls DEF RouteStep, At, Putting, DeletionSteps
<1>2. ASSUME NEW c \in Calls, MarkRunning(c) \/ LoadExport(c) PROVE Goal
  BY <1>2, <1>e, <1>i, <1>p, ClaimCalls DEF At, Putting, DeletionSteps
<1>3. ASSUME NEW c \in Calls, LoadDeletion(c) PROVE Goal
  <2>1. \/ Ends(c)
        \/ /\ At(c, "load")
           /\ MovesTo(c, [call[c] EXCEPT !.checkpoint = del.checkpoint,
                            !.pc = IF del.checkpoint = KeysErased THEN "probe" ELSE "decrypt"])
    BY <1>3, <1>i, ClaimCalls
  <2>2. ASSUME At(c, "load"),
               MovesTo(c, [call[c] EXCEPT !.checkpoint = del.checkpoint,
                             !.pc = IF del.checkpoint = KeysErased THEN "probe" ELSE "decrypt"])
        PROVE  Goal
    <3>1. /\ call'[c].pc \in {"probe", "decrypt"} /\ call'[c].checkpoint = del.checkpoint
          /\ call'[c].age = call[c].age /\ call[c].pc # "idle"
      BY <1>t, <2>2 DEF MovesTo, CallType, At
    <3>2. LateEntry(c)
      BY <3>1 DEF LateEntry, Putting
    <3> QED BY <1>m, <2>2, <3>2
  <2> QED BY <1>e, <2>1, <2>2
<1>4. ASSUME NEW c \in Calls,
             \/ SealExport(c) \/ CheckExport(c) \/ PublishExport(c) \/ CheckFencedOwner(c)
             \/ DropLateExport(c) \/ FailExport(c) \/ DropFailedExport(c)
             \/ MarkFailedExport(c) \/ ReleaseExport(c)
      PROVE  Goal
  BY <1>4, <1>e, <1>i, <1>p, ExportCalls DEF At, Putting, DeletionSteps
<1>5. ASSUME NEW c \in Calls, HeadExport(c) PROVE Goal
  <2>1. /\ At(c, "head")
        /\ \/ Ends(c)
           \/ MovesTo(c, [call[c] EXCEPT !.pc = "put", !.etag = object[call[c].job]])
    BY <1>5, <1>i, ExportCalls
  <2>2. ASSUME MovesTo(c, [call[c] EXCEPT !.pc = "put", !.etag = object[call[c].job]])
        PROVE  Goal
    <3>1. /\ call'[c].pc = "put" /\ call'[c].job = call[c].job
          /\ call'[c].age = call[c].age /\ call[c].pc = "head"
      BY <1>t, <2>1, <2>2 DEF MovesTo, CallType, At
    <3>2. LateEntry(c)
      BY <3>1 DEF LateEntry, Putting, DeletionSteps
    <3> QED BY <1>m, <2>2, <3>2
  <2> QED BY <1>e, <2>1, <2>2
<1>6. ASSUME NEW c \in Calls, PutExport(c) PROVE Goal
  <2>1. At(c, "put") /\ (Goes(c, "publish") \/ Goes(c, "head"))
    BY <1>6, <1>i, ExportCalls
  <2> QED BY <1>p, <2>1 DEF At, Putting, DeletionSteps
<1>7. ASSUME NEW c \in Calls, NEW pc \in DeletionSteps, NEW next \in DeletionSteps \ {"fence"},
             At(c, pc), Goes(c, next)
      PROVE  Goal
  BY <1>7, <1>p, <1>s DEF At
<1>8. ASSUME NEW c \in Calls,
             \/ CheckLiveExport(c) \/ DropRegisteredObjects(c) \/ DeleteUserRows(c)
             \/ DeleteUserJobs(c) \/ FinalizeDeletion(c) \/ ReleaseDeletion(c)
      PROVE  Goal
  BY <1>8, <1>e, <1>i, <1>p, DeletionCalls DEF At, Putting, DeletionSteps
<1>9. ASSUME NEW c \in Calls, DecryptCommand(c) \/ ProbeClaim(c) PROVE Goal
  <2>1. FirstStep(call[c].checkpoint) \in DeletionSteps \ {"fence"}
    BY DEF FirstStep, DeletionSteps
  <2>2. ASSUME ProbeClaim(c) PROVE StepAfter(call[c].checkpoint) \in DeletionSteps \ {"fence"}
    <3>1. call[c].checkpoint \in ExportsFenced .. KeysErased
      BY <1>i, <2>2 DEF ProbeClaim, At, StepOK, CheckpointsAt, DeletionSteps
    <3> QED BY <3>1 DEF StepAfter, DeletionSteps, ExportsFenced, ObjectsDeleted, RowsDeleted, KeysErased
  <2>3. DecryptCommand(c) => At(c, "decrypt") /\ (Ends(c) \/ Goes(c, FirstStep(call[c].checkpoint)))
    BY <1>i, DeletionCalls
  <2>4. ProbeClaim(c) => /\ At(c, "probe")
                         /\ \/ Goes(c, "releaseDeletion")
                            \/ Goes(c, StepAfter(call[c].checkpoint))
    BY <1>i, DeletionCalls
  <2>5. {"decrypt", "probe", "releaseDeletion"} \subseteq DeletionSteps \ {"fence"}
    BY DEF DeletionSteps
  <2> QED BY <1>e, <1>7, <1>9, <2>1, <2>2, <2>3, <2>4, <2>5
<1>10. ASSUME NEW c \in Calls, CollectKeys(c) PROVE Goal
  <2>1. PICK pc \in {"collect", "collectAgain"} :
          /\ At(c, pc)
          /\ MovesTo(c, [call[c] EXCEPT !.keys = Registered,
                           !.pc = IF pc = "collect" THEN "fence" ELSE "dropObjects"])
    BY <1>10, <1>i, DeletionCalls
  <2>2. /\ call'[c].pc \in {"fence", "dropObjects"} /\ call'[c].keys = Registered
        /\ call'[c].checkpoint = call[c].checkpoint
        /\ call'[c].age = call[c].age /\ call[c].pc \in {"collect", "collectAgain"}
    BY <1>t, <2>1 DEF MovesTo, CallType, At
  <2>3. UNCHANGED <<req, del>>
    BY <1>10 DEF CollectKeys, deletionVars, exportVars
  <2>4. LateEntry(c)
    BY <2>2, <2>3 DEF LateEntry, Putting, DeletionSteps
  <2> QED BY <1>m, <2>1, <2>4
<1>11. ASSUME NEW c \in Calls, FenceExports(c) PROVE Goal
  <2>1. At(c, "fence") /\ Goes(c, "releaseDeletion")
    BY <1>11, <1>i, DeletionCalls
  <2> QED BY <1>7, <1>s, <2>1 DEF DeletionSteps
<1>12. ASSUME NEW c \in Calls, NEW pc \in DeletionSteps, NEW k, At(c, pc), MovesTo(c, k),
              k.pc \in DeletionSteps \ {"fence"}, k.age = call[c].age,
              call[c].checkpoint # Accepted
       PROVE  Goal
  <2>1. LateEntry(c)
    BY <1>12, <1>s DEF LateEntry, MovesTo, At
  <2> QED BY <1>m, <1>12, <2>1
<1>13. ASSUME NEW c \in Calls, Advance(c) \/ EraseKeys(c) PROVE Goal
  <2>1. ASSUME Advance(c) PROVE Goal
    <3>1. /\ At(c, "advance")
          /\ \/ MovesTo(c, [call[c] EXCEPT !.checkpoint = call[c].checkpoint + 1,
                              !.pc = IF call[c].checkpoint = ExportsFenced
                                     THEN "deleteRows" ELSE "erase"])
             \/ Ends(c)
      BY <1>i, <2>1, DeletionCalls
    <3>2. call[c].checkpoint # Accepted /\ "advance" \in DeletionSteps
      BY <1>i, <3>1 DEF At, StepOK, CheckpointsAt, DeletionSteps, Accepted, ExportsFenced,
                        ObjectsDeleted
    <3> DEFINE k == [call[c] EXCEPT !.checkpoint = call[c].checkpoint + 1,
                       !.pc = IF call[c].checkpoint = ExportsFenced THEN "deleteRows" ELSE "erase"]
    <3>3. k.pc \in DeletionSteps \ {"fence"} /\ k.age = call[c].age
      BY <1>t DEF CallType, DeletionSteps
    <3> HIDE DEF k
    <3>4. MovesTo(c, k) => Goal
      BY <1>12, <3>1, <3>2, <3>3
    <3> QED BY <1>e, <3>1, <3>4 DEF k
  <2>2. ASSUME EraseKeys(c) PROVE Goal
    <3>1. /\ At(c, "erase")
          /\ MovesTo(c, [call[c] EXCEPT !.checkpoint = KeysErased, !.pc = "finalize"])
      BY <1>i, <2>2, DeletionCalls
    <3>2. call[c].checkpoint # Accepted /\ "erase" \in DeletionSteps
      BY <1>i, <3>1 DEF At, StepOK, CheckpointsAt, DeletionSteps, Accepted, RowsDeleted
    <3> DEFINE k == [call[c] EXCEPT !.checkpoint = KeysErased, !.pc = "finalize"]
    <3>3. k.pc \in DeletionSteps \ {"fence"} /\ k.age = call[c].age
      BY <1>t DEF CallType, DeletionSteps
    <3>4. MovesTo(c, k)
      BY <3>1
    <3> HIDE DEF k
    <3> QED BY <1>12, <3>1, <3>2, <3>3, <3>4
  <2> QED BY <1>13, <2>1, <2>2
<1>14. ASSUME NEW c \in Calls,
              DropExpired(c) \/ MarkExpired(c) \/ ClearManifest(c) \/ RecoverSend(c) \/ RecoverMark(c)
       PROVE  Goal
  BY <1>14, <1>e, <1>i, <1>p, MaintenanceCalls DEF At, Putting, DeletionSteps
<1>15. ASSUME NEW c \in Calls, SweepObjects(c) PROVE Goal
  <2>1. CASE call[c].etag = 1
    <3>1. At(c, "sweepDrop") /\ Goto(c, "sweepClear") /\ Remove(call[c].keys)
      BY <1>15, <2>1 DEF SweepObjects
    <3>2. Goes(c, "sweepClear")
      BY <1>i, <3>1, Moving, Typing DEF Goes, Steps, MaintenanceSteps
    <3>3. \A x \in call[c].keys : object'[x] = 0
      BY <1>t, <3>1, CallTyping DEF Remove
    <3>4. LateEntry(c)
      BY <1>g, <1>s, <2>1, <3>1, <3>2, <3>3 DEF LateEntry, At
    <3>5. PICK k : k = call'[c] /\ MovesTo(c, k)
      BY <1>g, <3>2
    <3> QED BY <1>m, <3>4, <3>5
  <2>2. CASE call[c].etag # 1
    <3>1. Ends(c)
      BY <1>15, <1>i, <2>2, Moving, Typing DEF SweepObjects, Ends
    <3> QED BY <1>e, <3>1
  <2> QED BY <2>1, <2>2
<1>16. ASSUME NEW c \in Calls, NEW pc \in {"send", "expireDrop", "cleanDrop"}, NEW j \in Jobs,
              Begins(c, pc, j)
       PROVE  Goal
  <2> DEFINE k == [Idle EXCEPT !.pc = pc, !.job = j]
  <2>1. MovesTo(c, k)
    BY <1>16 DEF Begins
  <2>2. k \in CallType
    BY <2>1 DEF MovesTo
  <2>3. k.age = 0 /\ k.pc = pc
    BY <1>t DEF Idle
  <2>4. pc \notin Putting \cup DeletionSteps \cup {"sweepDrop", "sweepClear"}
    BY DEF Putting, DeletionSteps
  <2> HIDE DEF k
  <2> QED BY <1>n, <2>1, <2>2, <2>3, <2>4
<1>17. ASSUME NEW c \in Calls, NEW j \in Jobs, SelectRecoverable(c, j) PROVE Goal
  <2> DEFINE k == [Idle EXCEPT !.pc = "recoverSend", !.job = j, !.row = job[j]]
  <2>1. MovesTo(c, k)
    BY <1>17, <1>i, StartCalls
  <2>2. k \in CallType
    BY <2>1 DEF MovesTo
  <2>3. k.age = 0 /\ k.pc = "recoverSend"
    BY DEF Idle
  <2>4. "recoverSend" \notin Putting \cup DeletionSteps \cup {"sweepDrop", "sweepClear"}
    BY DEF Putting, DeletionSteps
  <2> HIDE DEF k
  <2> QED BY <1>n, <2>1, <2>2, <2>3, <2>4
<1>18. ASSUME NEW c \in Calls, SelectManifest(c) PROVE Goal
  <2> DEFINE late == IF del.fence = 0 THEN 1 ELSE 0
             listed == del.manifest
             k == [Idle EXCEPT !.pc = "sweepDrop", !.keys = listed, !.etag = late]
  <2>1. call' = [call EXCEPT ![c] = k] /\ listed # {} /\ UNCHANGED del
    BY <1>18 DEF SelectManifest, deletionVars
  <2>2. listed \in SUBSET Exports /\ late \in Nat /\ (late = 1 => del.fence = 0)
    BY <1>i, FencedChecks
  <2>3. "sweepDrop" \in Steps
    BY DEF Steps, MaintenanceSteps
  <2>4. listed = del.manifest
    OBVIOUS
  <2> HIDE DEF late, listed
  <2>5. k \in CallType /\ k.pc = "sweepDrop" /\ k.etag = late /\ k.age = 0
    BY <1>t, <2>2, <2>3 DEF CallType, Idle
  <2>6. MovesTo(c, k)
    BY <1>t, <2>1, <2>5 DEF MovesTo
  <2> HIDE DEF k
  <2>7. LateEntry(c)
    BY <1>s, <2>1, <2>2, <2>4, <2>5, <2>6 DEF LateEntry, MovesTo
  <2> QED BY <1>m, <2>6, <2>7
<1>19. ASSUME NEW c \in Calls, NEW j \in Jobs, ClaimJob(c, j) PROVE Goal
  <2>1. PICK tries \in 0 .. MaxRetries :
          MovesTo(c, [Idle EXCEPT !.pc = "start", !.job = j, !.tries = tries,
                                  !.attempt = job[j].attempts + 1])
    BY <1>19, <1>i, StartCalls
  <2>2. call'[c].pc = "start" /\ call'[c].job = j /\ call'[c].age = 0
    BY <1>t, <2>1 DEF MovesTo, CallType
  <2>3. ASSUME j \in Exports PROVE user = "active" /\ j \in Registered
    <3>1. user = "active" /\ job[j].status # "absent"
      BY <1>19, <2>3, Beginnings DEF ClaimJob, Claimable, Takeable, OwnerAdmits, Owned
    <3> QED BY <1>i, <2>3, <3>1 DEF LateAccount
  <2>4. UNCHANGED <<req, del>>
    BY <1>19 DEF ClaimJob, deletionVars, exportVars
  <2>5. LateEntry(c)
    BY <2>2, <2>3, <2>4 DEF LateEntry, DeletionSteps
  <2> QED BY <1>m, <2>1, <2>5
<1>20. ASSUME NEW c \in Calls, Fault(c) PROVE Goal
  <2>1. ASSUME ThrowInExport(c) PROVE Goal
    <3>1. /\ call[c].pc \in {"build", "check", "head", "put", "publish", "ownerCheck", "dropLate"}
          /\ Goes(c, "fail") \/ Goes(c, "releaseExport")
      BY <1>i, <2>1, FaultCalls
    <3> QED BY <1>p, <3>1 DEF Putting, DeletionSteps
  <2>2. ASSUME ThrowInDeletion(c) PROVE Goal
    <3>1. call[c].pc \in DeletionSteps /\ Goes(c, "releaseDeletion")
      BY <1>i, <2>2, FaultCalls
    <3> QED BY <1>7, <3>1 DEF DeletionSteps, At
  <2>3. Die(c) \/ SendThrows(c) => Goal
    BY <1>e, <1>i, FaultCalls
  <2> QED BY <1>20, <2>1, <2>2, <2>3 DEF Fault
<1>21. ASSUME NEW c \in Calls, Start(c) PROVE Goal
  <2>1. ASSUME ReserveDeletion(c) PROVE Goal
    BY <1>16, <1>i, <2>1, StartCalls, Beginnings
  <2>2. ASSUME NEW x \in Exports, ReserveExport(c, x) \/ SelectExpired(c, x) \/ SelectFailed(c, x)
        PROVE  Goal
    BY <1>16, <1>i, <2>2, StartCalls, Beginnings
  <2> QED BY <1>17, <1>18, <1>19, <1>21, <2>1, <2>2 DEF Start
<1>22. ASSUME NEW j \in Jobs, IgnoreMessage(j) \/ ClaimThrows(j) PROVE Goal
  BY <1>22, <1>u DEF IgnoreMessage, ClaimThrows
<1>23. ASSUME NEW c \in Calls, CallStep(c) PROVE Goal
  BY <1>1, <1>2, <1>3, <1>4, <1>5, <1>6, <1>8, <1>9, <1>10, <1>11, <1>13, <1>14, <1>15, <1>23
     DEF CallStep, ClaimStep, ExportStep, DeletionStep, MaintenanceStep
<1>24. CASE Fence \/ Lift
  BY <1>24, <1>u DEF Fence, Lift
<1> QED BY <1>20, <1>21, <1>22, <1>23, <1>24, <1>u DEF Next, vars

\* An object is new only where an export was about to store it.
LEMMA LateStores ==
  ASSUME Inv, LateOK, [Next]_vars, NEW x \in Exports
  PROVE  /\ object'[x] # 0 => x \in IF Fenced THEN del.manifest ELSE Registered
         /\ Fenced /\ del.fence = 0 /\ object[x] = 0 => object'[x] = 0
<1>i. /\ TypeOK /\ LateAccount /\ \A c \in Calls : StepOK(call[c]) /\ LateCall(call[c])
      /\ \A c \in Calls : call[c] \in CallType
  BY Typing DEF Inv, CallOK, LateOK
<1>1. \/ object'[x] \in {object[x], 0}
      \/ \E c \in Calls : call[c].pc = "put" /\ call[c].job = x
  BY <1>i, ObjectMoves DEF ObjectMove, StoredBy
<1>2. ASSUME NEW c \in Calls, call[c].pc = "put", call[c].job = x
      PROVE  /\ x \in IF Fenced THEN del.manifest ELSE Registered
             /\ ~(Fenced /\ del.fence = 0)
  <2>1. call[c].pc \in Putting /\ call[c].pc # "idle"
    BY <1>2 DEF Putting
  <2>2. call[c].age \in Nat /\ CallLife \in Nat
    BY <1>i, CallTyping, PrivacyAssumption
  <2> QED BY <1>i, <1>2, <2>1, <2>2 DEF LateCall
<1> QED BY <1>i, <1>1, <1>2 DEF LateAccount

\* While the account is open, every export job has its request.
LEMMA LateRequests ==
  ASSUME Inv, LateOK, [Next]_vars, user' = "active", NEW x \in Exports,
         job'[x].status # "absent"
  PROVE  x \in Registered'
<1>i. /\ TypeOK /\ AccountOK /\ LateAccount /\ \A c \in Calls : StepOK(call[c])
      /\ job \in [Jobs -> JobType] /\ req \in [Exports -> RequestType] /\ x \in Jobs
  BY Typing, Beginnings DEF Inv, CallOK, LateOK
<1>a. user = "active" /\ ~Fenced
  BY <1>i, AccountMoves, FencedChecks DEF AccountOK
<1>k. CASE job[x].status # "absent"
  BY <1>a, <1>i, <1>k, RegisteredMoves DEF LateAccount
<1>n. CASE job[x].status = "absent"
  <2>1. UNCHANGED stored \/ Tick => FALSE
    <3>1. UNCHANGED stored => FALSE
      BY <1>n DEF stored
    <3>2. Tick => job'[x].status = job[x].status
      BY <1>i DEF Tick, JobType
    <3> QED BY <1>n, <3>1, <3>2
  <2>2. ASSUME NEW c \in Calls, Mark(c) \/ RecoverMark(c) PROVE FALSE
    <3>1. call[c].job \in Jobs
      BY <1>i, CallTyping, Typing
    <3>2. job[call[c].job] \in JobType
      BY <1>i, <3>1
    <3>3. job'[x].status = job[x].status
      <4>1. CASE Mark(c)
        BY <1>i, <3>1, <3>2, <4>1 DEF Mark, JobType
      <4>2. CASE RecoverMark(c)
        BY <1>i, <3>1, <3>2, <4>2 DEF RecoverMark, JobType
      <4> QED BY <2>2, <4>1, <4>2
    <3> QED BY <1>n, <3>3
  <2>3. ASSUME NEW c \in Calls, NEW j \in Jobs, ClaimJob(c, j) PROVE FALSE
    <3>1. j # x
      BY <1>n, <2>3 DEF ClaimJob, Claimable, Takeable
    <3> QED BY <1>i, <1>n, <2>3, <3>1 DEF ClaimJob
  <2>4. ASSUME NEW c \in Calls, AnswerWrite(c) PROVE FALSE
    <3>1. \/ job' = job
          \/ /\ Holds(c)
             /\ \/ \E st \in {"succeeded", "failed"} : Settled(call[c].job, st)
                \/ Released(call[c].job)
      BY <2>4 DEF AnswerWrite, PublishExport, FailExport, ReleaseExport, CanPublish
    <3>2. Holds(c) => call[c].job # x
      BY <1>n DEF Holds
    <3> QED BY <1>i, <1>n, <3>1, <3>2 DEF Settled, Released
  <2>5. ASSUME NEW c \in Calls, NEW y \in Exports, ReserveExport(c, y) PROVE x \in Registered'
    <3>1. job' = [job EXCEPT ![y] = Queued] /\ req' = [req EXCEPT ![y].status = "queued"]
      BY <2>5 DEF ReserveExport
    <3>2. x = y
      BY <1>i, <1>n, <3>1
    <3>3. req'[x].status = "queued"
      BY <1>i, <3>1, <3>2 DEF RequestType
    <3> QED BY <3>3 DEF Registered
  <2>6. ASSUME NEW c \in Calls,
               FenceExports(c) \/ FinalizeDeletion(c) \/ ReleaseDeletion(c) \/ DeleteUserJobs(c)
        PROVE  FALSE
    BY <1>a, <1>i, <2>6
       DEF FenceExports, FinalizeDeletion, ReleaseDeletion, DeleteUserJobs, At, StepOK, DeletionSteps
  <2>7. ASSUME NEW c \in Calls, ReserveDeletion(c) PROVE FALSE
    BY <2>7 DEF ReserveDeletion
  <2>8. ASSUME NEW c \in Calls, UNCHANGED job PROVE FALSE
    BY <1>n, <2>8
  <2>9. ASSUME NEW c \in Calls, Write(c) PROVE x \in Registered'
    BY <2>2, <2>3, <2>4, <2>5, <2>6, <2>7, <2>8, <2>9, Frames DEF Write, JobWrite, Reservation
  <2> QED BY <2>1, <2>9, Writers
<1> QED BY <1>k, <1>n

\* The three ways of a step with late objects: the first, in which the fence
\* and the manifest stay.
LEMMA SteadyStep ==
  ASSUME Inv, LateOK, [Next]_vars, ~Tick, Steady,
         \A c \in Calls : ~(FenceExports(c) /\ OwnsDeletion(c))
  PROVE  LateOK'
<1>i. /\ TypeOK /\ LateAccount /\ \A c \in Calls : StepOK(call[c]) /\ LateCall(call[c])
      /\ \A c \in Calls : call[c] \in CallType /\ call[c].age \in Nat
      /\ CallLife \in Nat
  BY Typing, CallTyping, PrivacyAssumption DEF Inv, CallOK, LateOK
<1>f. Fenced <=> del.checkpoint # Accepted
  BY <1>i, FencedChecks
<1>g. /\ ~Fenced => Registered \subseteq Registered'
      /\ user # "active" => Registered' \subseteq Registered
  BY RegisteredMoves
<1>s. /\ "idle" \notin Putting \cup DeletionSteps /\ "fence" \in DeletionSteps
      /\ {"sweepDrop", "sweepClear"} \cap (Putting \cup DeletionSteps) = {}
      /\ Putting \cap DeletionSteps = {}
  BY DEF Putting, DeletionSteps
<1>1. LateAccount'
  BY <1>g, <1>i, LateStores, LateRequests DEF LateAccount, Steady
<1>2. ASSUME NEW c \in Calls PROVE LateCall(call[c])'
  <2> DEFINE k == call[c]
             l == call'[c]
  <2>1. CASE l = k
    <3>1. LateCall(k) /\ StepOK(k)
      BY <1>i
    <3>2. k.pc = "fence" => user # "active"
      BY <3>1, <1>s DEF StepOK
    <3>3. k.pc = "sweepClear" => k.keys \subseteq Exports
      BY <1>i, CallTyping
    <3> QED BY <1>g, <2>1, <3>1, <3>2, <3>3, LateStores DEF LateCall, Steady
  <2>2. CASE l # k
    <3>1. LateEntry(c)
      BY LateEntries
    <3>2. /\ l.age = 0 \/ (k.pc # "idle" /\ l.age = k.age)
          /\ l.pc \in Putting /\ l.job \in Exports =>
               \/ k.pc \in Putting /\ k.job = l.job /\ l.age = k.age
               \/ user = "active" /\ l.job \in Registered /\ UNCHANGED <<req, del>>
          /\ l.pc \in DeletionSteps =>
               \/ k.pc \in DeletionSteps /\ k.checkpoint # Accepted
               \/ l.checkpoint = Accepted \/ l.checkpoint = del.checkpoint
          /\ l.pc = "fence" => l.keys = Registered /\ UNCHANGED <<req, del>>
          /\ l.pc = "sweepDrop" => del.manifest # {} /\ (l.etag = 1 => del.fence = 0)
          /\ l.pc = "sweepClear" => /\ k.pc = "sweepDrop" /\ k.etag = 1 /\ l.etag = 1
                                    /\ \A x \in l.keys : object'[x] = 0
      BY <2>2, <3>1 DEF LateEntry
    <3>3. LateCall(k)
      BY <1>i
    <3>4. l.pc # "idle" => l.age <= CallLife
      BY <1>i, <3>2, <3>3 DEF LateCall
    <3>5. l.pc \in Putting /\ l.job \in Exports =>
            IF Fenced' THEN l.job \in del'.manifest /\ del'.fence + l.age > CallLife
                       ELSE l.job \in Registered'
      <4>1. user = "active" => ~Fenced
        BY <1>f DEF Inv, AccountOK
      <4> QED BY <1>g, <3>2, <3>3, <4>1 DEF LateCall, Steady
    <3>6. l.pc \in DeletionSteps /\ l.checkpoint # Accepted => Fenced'
      BY <1>f, <3>2, <3>3 DEF LateCall, Steady
    <3>7. l.pc = "fence" => Registered' \subseteq l.keys
      BY <3>2 DEF Registered
    <3>8. l.pc \in {"sweepDrop", "sweepClear"} => Fenced' /\ (l.etag = 1 => del'.fence = 0)
      BY <1>i, <3>2, <3>3 DEF LateCall, LateAccount, Steady
    <3> QED BY <3>2, <3>4, <3>5, <3>6, <3>7, <3>8 DEF LateCall
  <2> QED BY <2>1, <2>2
<1> QED BY <1>1, <1>2 DEF LateOK

\* The second: the fence is written, with the keys that were collected after
\* the account was closed on the manifest.
LEMMA FenceStep ==
  ASSUME Inv, LateOK, NEW c \in Calls, FenceExports(c), OwnsDeletion(c)
  PROVE  LateOK'
<1>i. /\ TypeOK /\ LateAccount /\ \A d \in Calls : StepOK(call[d]) /\ LateCall(call[d])
      /\ \A d \in Calls : call[d] \in CallType /\ call[d].age \in Nat
      /\ CallLife \in Nat /\ FenceTtl \in Nat /\ CallLife < FenceTtl
      /\ OwnerOK(call[c]) /\ del \in DeletionType
  BY Typing, CallTyping, PrivacyAssumption DEF Inv, CallOK, LateOK
<1>f. /\ Fenced <=> del.checkpoint # Accepted
      /\ ExportsFenced = 1 /\ Accepted = 0 /\ del.checkpoint \in 0 .. 5
  BY <1>i, FencedChecks
<1>1. /\ call[c].pc = "fence" /\ "fence" \in DeletionSteps
      /\ del' = [del EXCEPT !.checkpoint = ExportsFenced, !.manifest = call[c].keys,
                            !.fence = IF call[c].keys = {} THEN 0 ELSE FenceTtl]
      /\ UNCHANGED <<user, req, object>>
  BY DEF FenceExports, At, DeletionSteps, accountVars, exportVars
<1>2. /\ user # "active" /\ call[c].checkpoint = Accepted
  BY <1>1, <1>i DEF StepOK, CheckpointsAt
<1>3. ~Fenced
  BY <1>1, <1>2, <1>f, <1>i DEF OwnerOK, HeldBy, OwnsDeletion, Holds
<1>4. Registered \subseteq call[c].keys
  BY <1>1, <1>3, <1>i DEF LateCall
<1>5. Fenced' /\ del'.manifest = call[c].keys
      /\ del'.fence = IF call[c].keys = {} THEN 0 ELSE FenceTtl
  BY <1>1, <1>f, <1>i DEF Fenced, DeletionType
<1>6. MovesTo(c, [call[c] EXCEPT !.checkpoint = ExportsFenced, !.pc = "collectAgain"])
  <2>1. \/ MovesTo(c, [call[c] EXCEPT !.checkpoint = ExportsFenced, !.pc = "collectAgain"])
        \/ UNCHANGED del
    BY <1>i, DeletionCalls
  <2> QED BY <1>3, <1>5, <2>1 DEF Fenced
<1>7. /\ call'[c].pc = "collectAgain" /\ call'[c].age = call[c].age
      /\ \A d \in Calls \ {c} : call'[d] = call[d]
  BY <1>6, <1>i DEF MovesTo, CallType
<1>8. LateAccount'
  BY <1>1, <1>2, <1>3, <1>4, <1>5, <1>i DEF LateAccount
<1>9. LateCall(call[c])'
  BY <1>1, <1>5, <1>7, <1>i DEF LateCall, Putting
<1>10. ASSUME NEW d \in Calls \ {c} PROVE LateCall(call[d])'
  BY <1>3, <1>4, <1>5, <1>7, <1>i DEF LateCall
<1> QED BY <1>8, <1>9, <1>10 DEF LateOK

\* The third: after the fence has run out, nothing is left to be listed.
LEMMA ClearStep ==
  ASSUME Inv, LateOK, NEW c \in Calls, ClearManifest(c)
  PROVE  LateOK'
<1>i. /\ TypeOK /\ LateAccount /\ \A d \in Calls : StepOK(call[d]) /\ LateCall(call[d])
      /\ \A d \in Calls : call[d] \in CallType /\ call[d].age \in Nat
      /\ CallLife \in Nat /\ del \in DeletionType
  BY Typing, CallTyping, PrivacyAssumption DEF Inv, CallOK, LateOK
<1>1. /\ call[c].pc = "sweepClear" /\ UNCHANGED <<user, req, object>>
      /\ del' = IF del.manifest = call[c].keys THEN [del EXCEPT !.manifest = {}] ELSE del
  BY DEF ClearManifest, At, accountVars, exportVars
<1>2. /\ user # "active" /\ Fenced /\ del.fence = 0
      /\ \A x \in call[c].keys : object[x] = 0
  BY <1>1, <1>i DEF StepOK, LateCall
<1>3. /\ Fenced' /\ del'.fence = 0
      /\ del'.manifest = IF del.manifest = call[c].keys THEN {} ELSE del.manifest
  BY <1>1, <1>2, <1>i DEF Fenced, DeletionType
<1>4. /\ call'[c].pc = "idle" /\ \A d \in Calls \ {c} : call'[d] = call[d]
  BY <1>i, MaintenanceCalls, Beginnings DEF Ends, MovesTo
<1>5. LateAccount'
  BY <1>1, <1>2, <1>3, <1>i DEF LateAccount
<1>6. LateCall(call[c])'
  BY <1>4 DEF LateCall, Putting, DeletionSteps
<1>7. ASSUME NEW d \in Calls \ {c} PROVE LateCall(call[d])'
  <2>1. LateCall(call[d]) /\ call'[d] = call[d] /\ "idle" \notin Putting
    BY <1>4, <1>i DEF Putting
  <2>2. ~(call[d].pc \in Putting /\ call[d].job \in Exports)
    BY <1>2, <1>i, <2>1 DEF LateCall
  <2> QED BY <1>1, <1>2, <1>3, <2>1, <2>2 DEF LateCall
<1> QED BY <1>5, <1>6, <1>7 DEF LateOK

\* Time passes for the fence as it does for the invocations.
LEMMA TickStep ==
  ASSUME Inv, LateOK, Tick
  PROVE  LateOK'
<1>i. /\ TypeOK /\ LateAccount /\ \A d \in Calls : LateCall(call[d])
      /\ \A d \in Calls : call[d] \in CallType /\ call[d].age \in Nat
      /\ CallLife \in Nat /\ del \in DeletionType /\ del.fence \in Nat
      /\ job \in [Jobs -> JobType] /\ req \in [Exports -> RequestType]
      /\ Exports \subseteq Jobs
  BY Typing, CallTyping, PrivacyAssumption, Beginnings DEF Inv, CallOK, LateOK, DeletionType
<1>1. /\ UNCHANGED <<user, object>>
      /\ del' = [del EXCEPT !.fence = Less(@)]
      /\ job' = [j \in Jobs |-> [job[j] EXCEPT !.lease = Less(@), !.wait = Less(@)]]
      /\ req' = [x \in Exports |-> [req[x] EXCEPT !.ttl = Less(@)]]
      /\ \A d \in Calls : call[d].pc = "idle" \/ call[d].age < CallLife
      /\ call' = [d \in Calls |-> IF call[d].pc = "idle" THEN call[d]
                                    ELSE [call[d] EXCEPT !.age = @ + 1]]
  BY DEF Tick, At, accountVars
<1>2. /\ Fenced' = Fenced /\ del'.manifest = del.manifest
      /\ del'.fence = Less(del.fence)
  BY <1>1, <1>i DEF Fenced, DeletionType
<1>3. \A x \in Exports : req'[x].status = req[x].status
  BY <1>1, <1>i DEF RequestType
<1>4. \A x \in Exports : job'[x].status = job[x].status
  BY <1>1, <1>i DEF JobType
<1>5. Registered' = Registered
  BY <1>3 DEF Registered
<1>6. LateAccount'
  BY <1>1, <1>2, <1>4, <1>5, <1>i DEF LateAccount
<1>7. ASSUME NEW d \in Calls PROVE LateCall(call[d])'
  <2>1. CASE call[d].pc = "idle"
    BY <1>1, <2>1 DEF LateCall, Putting, DeletionSteps
  <2>2. CASE call[d].pc # "idle"
    <3>1. /\ call'[d].pc = call[d].pc /\ call'[d].job = call[d].job
          /\ call'[d].checkpoint = call[d].checkpoint /\ call'[d].keys = call[d].keys
          /\ call'[d].etag = call[d].etag /\ call'[d].age = call[d].age + 1
          /\ call[d].age < CallLife
      BY <1>1, <1>i, <2>2 DEF CallType
    <3>2. LateCall(call[d])
      BY <1>i
    <3>3. call'[d].age <= CallLife
      BY <1>i, <3>1
    <3>4. call'[d].pc \in Putting /\ call'[d].job \in Exports =>
            IF Fenced' THEN call'[d].job \in del'.manifest /\ del'.fence + call'[d].age > CallLife
                       ELSE call'[d].job \in Registered'
      BY <1>2, <1>5, <1>i, <3>1, <3>2 DEF LateCall, Less
    <3>5. call'[d].etag = 1 /\ call'[d].pc \in {"sweepDrop", "sweepClear"} => del'.fence = 0
      BY <1>2, <3>1, <3>2 DEF LateCall, Less
    <3> QED BY <1>1, <1>2, <1>5, <3>1, <3>2, <3>3, <3>4, <3>5 DEF LateCall
  <2> QED BY <2>1, <2>2
<1> QED BY <1>6, <1>7 DEF LateOK

\* Nothing is stored at the beginning.
LEMMA LateInit == Init => LateOK
BY PrivacyAssumption DEF Init, LateOK, LateAccount, LateCall, Idle, NoDeletion, NoJob,
   Fenced, Accepted, ExportsFenced, Putting, DeletionSteps, Jobs

\* LateOK is kept by every step.
LEMMA LateStep == Inv /\ LateOK /\ [Next]_vars => LateOK'
<1> SUFFICES ASSUME Inv, LateOK, [Next]_vars PROVE LateOK'
  OBVIOUS
<1>1. CASE Tick
  BY <1>1, TickStep
<1>2. CASE \E c \in Calls : FenceExports(c) /\ OwnsDeletion(c)
  BY <1>2, FenceStep
<1>3. CASE \E c \in Calls : ClearManifest(c)
  BY <1>3, ClearStep
<1>4. CASE ~Tick /\ Steady /\ ~\E c \in Calls : FenceExports(c) /\ OwnsDeletion(c)
  BY <1>4, SteadyStep
<1> QED BY <1>1, <1>2, <1>3, <1>4, FenceMoves

\* Whatever is stored of a fenced account is on the manifest that the cron
\* deletes again and again (fenceExports, cleanupDeletionArtifacts).
THEOREM LateObjectsListed == Spec => []LateObjectsAreListed
<1>1. Init => LateOK
  BY LateInit
<1>2. Inv /\ LateOK /\ [Next]_vars => LateOK'
  BY LateStep
<1>3. LateOK => LateObjectsAreListed
  BY DEF LateOK, LateAccount, LateObjectsAreListed, Fenced
<1> QED BY <1>1, <1>2, <1>3, Invariance, PTL DEF Spec
=============================================================================
