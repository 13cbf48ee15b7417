------------------------ MODULE PrivacyWaking_proofs ------------------------
(***************************************************************************)
(* Why a queued job of the privacy workflows is never forgotten: the       *)
(* marker `dispatched_at`, which hides a job from the outbox lane, against *)
(* the copies of its message.                                              *)
(*                                                                         *)
(* A route marks its job after the send, when the message may have been    *)
(* consumed, its claim released and the job queued again.  What saves the  *)
(* job is that a release posts the message again, and that the message has *)
(* a retry left: a route is over before the delays of so many retries      *)
(* could pass.  What uses up retries without delay is a fault.             *)
(***************************************************************************)
EXTENDS PrivacyWorkflows_proofs

\* An invocation ends before a lease that was taken in its time runs out:
\* seconds of a route against the five minutes of PRIVACY_CLAIM_LEASE_MS.
CallsFitLease == CallLife < Lease

\* What the retries of a message cost in time, if no fault wastes them.
Due(n) == RetryDelay * n

\* The queue has retries for the faults and for the time of a route besides.
RetriesOutlastFaults == CallLife + Due(MaxDeaths + MaxThrows) < Due(MaxRetries)
-----------------------------------------------------------------------------
(* The invariant.                                                          *)

Faults == deaths + throws

\* The steps of a call that has sent a message, or may send it again.
Carriers == {"send", "mark", "recoverSend", "recoverMark"} \cup ConsumerSteps

\* The steps of a consumer at which it holds its claim while a route is at
\* work on the same job.
Bound == {"start", "load"} \cup DeletionSteps

\* No reservation has been made, and one may still be.
Unborn(j) == user = "active" /\ job[j].status = "absent"

\* A queued job that no fence has robbed of its message.
Awaits(j) == job[j].status = "queued" /\ Owned(j) /\ j \notin turned

\* The copies of the message that arrive when the job can be claimed.
Wakers(j) == {m \in inbox[j] : m.delay >= job[j].wait}

MessagesOK(j) ==
  /\ \A m \in inbox[j] : m.delay <= RetryDelay
  /\ Unborn(j) => inbox[j] = {}
  /\ Awaits(j) /\ job[j].sent =>
       \E m \in Wakers(j) : Due(m.tries) <= CallLife + RetryDelay + Due(Faults)

\* A route between the reservation and the marker, at the age of k.
WindowOK(k) == k.pc \in RouteSteps /\ Owned(k.job) =>
  /\ \A m \in inbox[k.job] : Due(m.tries) <= k.age + m.delay + Due(Faults)
  /\ job[k.job].status = "running" => job[k.job].lease + k.age > CallLife
  /\ Awaits(k.job) /\ (k.pc = "mark" \/ job[k.job].wait > 0)
       => Wakers(k.job) # {}
  /\ \A d \in Calls : call[d].pc \in ConsumerSteps /\ call[d].job = k.job =>
       /\ Due(call[d].tries) <= k.age + Due(Faults)
       /\ call[d].pc \in Bound => HeldBy(call[d])

\* While the route of the deletion is at work, its consumer can open the
\* command: keys go together with the checkpoint.
CommandOK ==
  /\ user = "active" => job[Deletion].status = "absent"
  /\ user = "pending" => del.status \in {"queued", "running"}
  /\ user = "pending" /\ (\E c \in Calls : call[c].pc \in RouteSteps /\ call[c].job = Deletion) =>
       /\ keys \/ del.checkpoint = KeysErased
       /\ \A d \in Calls : call[d].pc \in ConsumerSteps \ {"start"} /\ call[d].job = Deletion
            => del.status = "running"

\* The outbox lane, with the row that it has read.
RecoveryOK(k) == k.pc \in {"recoverSend", "recoverMark"} =>
  /\ k.row.attempts <= job[k.job].attempts \/ Gone(k.job)
  /\ k.row.status = "queued" /\ k.row.attempts = job[k.job].attempts /\ Owned(k.job) =>
       /\ job[k.job].status # "running"
       /\ job[k.job].status = "queued" => job[k.job].wait = 0
       /\ Awaits(k.job) /\ k.pc = "recoverMark"
            => \E m \in inbox[k.job] : m.tries <= Faults

CarrierOK(k) == k.pc \in Carriers => ~Unborn(k.job)

WakerOK == /\ deaths <= MaxDeaths /\ throws <= MaxThrows
           /\ CommandOK
           /\ \A j \in Jobs : MessagesOK(j)
           /\ \A c \in Calls : /\ CarrierOK(call[c]) /\ WindowOK(call[c])
                               /\ RecoveryOK(call[c])

\* What the proofs start from.
Known == Inv /\ LateOK /\ WakerOK
-----------------------------------------------------------------------------
(* Arithmetic.                                                             *)

\* Retries and their delays, without products.
LEMMA DueFacts ==
  /\ \A n \in Nat : Due(n) \in Nat /\ Due(n + 1) = Due(n) + RetryDelay
  /\ Due(0) = 0
  /\ \A m, n \in Nat : m <= n => Due(m) <= Due(n)
  /\ \A m, n \in Nat : Due(m) < Due(n) => m < n
  /\ RetryDelay \in Nat /\ RetryDelay > 0 /\ CallLife \in Nat
  /\ MaxRetries \in Nat /\ MaxDeaths \in Nat /\ MaxThrows \in Nat
<1>1. /\ RetryDelay \in Nat /\ RetryDelay > 0 /\ CallLife \in Nat
      /\ MaxRetries \in Nat /\ MaxDeaths \in Nat /\ MaxThrows \in Nat
  BY PrivacyAssumption
<1>2. \A n \in Nat : Due(n) \in Nat /\ Due(n + 1) = Due(n) + RetryDelay
  BY <1>1 DEF Due
<1>3. Due(0) = 0
  BY <1>1 DEF Due
<1>4. ASSUME NEW m \in Nat, NEW n \in Nat, m <= n PROVE Due(m) <= Due(n)
  <2>1. PICK i \in Nat : n = m + i
    <3>1. n - m \in Nat /\ n = m + (n - m)
      BY <1>4
    <3> QED BY <3>1
  <2>2. RetryDelay * (m + i) = RetryDelay * m + RetryDelay * i
    BY <1>1, <2>1
  <2>3. RetryDelay * i \in Nat /\ RetryDelay * m \in Nat
    BY <1>1, <2>1
  <2> QED BY <2>1, <2>2, <2>3 DEF Due
<1>5. ASSUME NEW m \in Nat, NEW n \in Nat, Due(m) < Due(n) PROVE m < n
  <2>1. Due(m) \in Nat /\ Due(n) \in Nat
    BY <1>2
  <2> QED BY <1>4, <1>5, <2>1
<1> QED BY <1>1, <1>2, <1>3, <1>4, <1>5

\* While faults are within their bounds, the retries are not used up.
LEMMA RetriesLeft ==
  ASSUME RetriesOutlastFaults, TypeOK, deaths <= MaxDeaths, throws <= MaxThrows, NEW n \in Nat
  PROVE  /\ Faults \in Nat /\ Due(Faults) \in Nat
         /\ Due(n) <= CallLife + Due(Faults) => n < MaxRetries
         /\ throws < MaxThrows /\ Due(n) <= CallLife + RetryDelay + Due(Faults)
              => n < MaxRetries
         /\ n <= Faults => Due(n) <= Due(Faults)
<1>1. deaths \in Nat /\ throws \in Nat /\ Faults \in Nat
  BY Typing DEF Faults
<1>2. /\ MaxDeaths + MaxThrows \in Nat /\ Faults <= MaxDeaths + MaxThrows
      /\ Due(Faults) \in Nat /\ Due(n) \in Nat /\ Due(MaxRetries) \in Nat
      /\ Due(MaxDeaths + MaxThrows) \in Nat /\ CallLife \in Nat /\ RetryDelay \in Nat
      /\ MaxRetries \in Nat
  <2>1. MaxDeaths \in Nat /\ MaxThrows \in Nat /\ MaxRetries \in Nat
    BY DueFacts
  <2>2. MaxDeaths + MaxThrows \in Nat /\ Faults <= MaxDeaths + MaxThrows
    BY <1>1, <2>1 DEF Faults
  <2> QED BY <1>1, <2>1, <2>2, DueFacts
<1>3. Due(Faults) <= Due(MaxDeaths + MaxThrows)
  BY <1>1, <1>2, DueFacts
<1>4. Due(n) <= CallLife + Due(Faults) => n < MaxRetries
  <2>1. Due(n) <= CallLife + Due(Faults) => Due(n) < Due(MaxRetries)
    BY <1>2, <1>3 DEF RetriesOutlastFaults
  <2> QED BY <1>2, <2>1, DueFacts
<1>5. ASSUME throws < MaxThrows, Due(n) <= CallLife + RetryDelay + Due(Faults)
      PROVE  n < MaxRetries
  <2>1. Faults + 1 <= MaxDeaths + MaxThrows /\ Faults + 1 \in Nat
    BY <1>1, <1>5, DueFacts DEF Faults
  <2>2. Due(Faults + 1) <= Due(MaxDeaths + MaxThrows) /\ Due(Faults + 1) = Due(Faults) + RetryDelay
    BY <1>1, <1>2, <2>1, DueFacts
  <2>3. Due(n) < Due(MaxRetries)
    BY <1>2, <1>5, <2>2 DEF RetriesOutlastFaults
  <2> QED BY <1>2, <2>3, DueFacts
<1>6. n <= Faults => Due(n) <= Due(Faults)
  BY <1>1, DueFacts
<1> QED BY <1>1, <1>2, <1>4, <1>5, <1>6
-----------------------------------------------------------------------------
(* What a step does to a job, its messages and the count of faults.        *)

\* A consumer that gives its message back without a fault has lost its claim,
\* the keys of the command, or the account of its export.
Lost(c) == /\ call[c].pc \in {"load", "decrypt"}
           /\ \/ ~HeldBy(call[c])
              \/ call[c].pc = "decrypt" /\ ~keys
              \/ call[c].job # Deletion /\ user # "active"

Consumes(c, j) == call[c].pc \in ConsumerSteps /\ call[c].job = j

Rests(j) == UNCHANGED <<job[j], inbox[j]>> /\ Faults' >= Faults
Posted(j) == /\ job'[j] = job[j] /\ inbox'[j] = inbox[j] \cup {Message(0, 0)}
             /\ UNCHANGED faultVars
             /\ \E c \in Calls : call[c].pc \in {"send", "recoverSend"} /\ call[c].job = j
ReturnedBy(c, j) == /\ Consumes(c, j) /\ Ends(c) /\ Retry(c, 0) /\ job'[j] = job[j]
                    /\ Faults' = Faults + 1 \/ (UNCHANGED faultVars /\ Lost(c))
DelayedBy(c, j) ==
  /\ Consumes(c, j) /\ Ends(c) /\ Retry(c, RetryDelay) /\ UNCHANGED faultVars
  /\ \/ job'[j] = job[j]
     \/ /\ HeldBy(call[c])
        /\ job'[j] = [job[j] EXCEPT !.status = "queued", !.lease = 0,
                                    !.wait = RetryDelay, !.sent = FALSE]
MarkedBy(c, j) == /\ call[c].job = j /\ (Mark(c) \/ RecoverMark(c))
                  /\ UNCHANGED <<inbox, faultVars>>
Ended(j) == /\ inbox'[j] = inbox[j] /\ UNCHANGED faultVars
            /\ job'[j].status \notin {"queued", "running"}
            /\ \/ ~Owned(j)'
               \/ \E c \in Calls : /\ Consumes(c, j) /\ call[c].pc \notin Bound
                                   /\ HeldBy(call[c])
Reserved(j) == /\ inbox'[j] = inbox[j] /\ UNCHANGED faultVars
               /\ job'[j] = Queued /\ user = "active" /\ job[j].status = "absent"
               /\ j = Deletion <=> user' # "active"
Event(j) == \/ Rests(j) \/ Posted(j) \/ IgnoreMessage(j) \/ ClaimThrows(j) \/ Ended(j)
            \/ Reserved(j)
            \/ \E c \in Calls : \/ ClaimJob(c, j) \/ ReturnedBy(c, j) \/ DelayedBy(c, j)
                                \/ MarkedBy(c, j)

\* The steps of a consumer, by what their claim means to the others.
LEMMA BoundSteps ==
  /\ Bound \subseteq ConsumerSteps /\ ConsumerSteps \subseteq Carriers
  /\ ConsumerSteps \cap {"idle", "send", "mark", "recoverSend", "recoverMark"} = {}
  /\ {"start", "load", "decrypt"} \subseteq Bound
  /\ {"build", "check", "head", "put", "publish", "fail", "ownerCheck", "dropLate",
      "dropFailed", "markFailed", "releaseExport"} \subseteq ConsumerSteps \ Bound
BY DEF Bound, Carriers, ConsumerSteps, ExportSteps, DeletionSteps

\* Every step but the clock's is such an event for each job.
LEMMA Events ==
  ASSUME Known, [Next]_vars, ~Tick
  PROVE  \A j \in Jobs : Event(j)
<1> DEFINE Goal == \A j \in Jobs : Event(j)
<1>t. /\ TypeOK /\ \A c \in Calls : StepOK(call[c]) /\ call[c] \in CallType /\ call[c].job \in Jobs
      /\ job \in [Jobs -> JobType] /\ inbox \in [Jobs -> SUBSET MessageType]
      /\ deaths \in Nat /\ throws \in Nat /\ Faults \in Nat
  BY Typing, CallTyping DEF Known, Inv, CallOK, Faults
<1>f. UNCHANGED faultVars => Faults' = Faults
  BY DEF faultVars, Faults
<1>q. ASSUME UNCHANGED <<job, inbox>>, Faults' >= Faults PROVE Goal
  BY <1>q DEF Event, Rests
<1>u. ASSUME UNCHANGED <<job, inbox, faultVars>> PROVE Goal
  BY <1>f, <1>q, <1>t, <1>u
<1>j. ASSUME NEW j \in Jobs, Event(j), \A i \in Jobs \ {j} : job'[i] = job[i],
             \A i \in Jobs \ {j} : inbox'[i] = inbox[i], Faults' >= Faults
      PROVE  Goal
  BY <1>j DEF Event, Rests
<1>r. ASSUME NEW c \in Calls, NEW d, Retry(c, d)
      PROVE  \A i \in Jobs \ {call[c].job} : inbox'[i] = inbox[i]
  BY <1>r, <1>t DEF Retry, Post
<1>e. \A c \in Calls : End(c) => Ends(c)
  BY <1>t, Moving, Typing DEF Ends
<1> HIDE DEF Goal
<1>1. ASSUME NEW c \in Calls, Send(c) \/ RecoverSend(c) PROVE Goal
  <2>1. /\ call[c].pc \in {"send", "recoverSend"} /\ Post(call[c].job, Message(0, 0))
        /\ UNCHANGED <<job, faultVars>>
    BY <1>1 DEF Send, RecoverSend, At
  <2>2. /\ inbox'[call[c].job] = inbox[call[c].job] \cup {Message(0, 0)}
        /\ \A i \in Jobs \ {call[c].job} : inbox'[i] = inbox[i]
    BY <1>t, <2>1 DEF Post
  <2>3. Posted(call[c].job)
    BY <2>1, <2>2 DEF Posted
  <2> QED BY <1>f, <1>j, <1>t, <2>1, <2>2, <2>3 DEF Event
<1>2. ASSUME NEW c \in Calls, Mark(c) \/ RecoverMark(c) PROVE Goal
  <2>1. MarkedBy(c, call[c].job)
    BY <1>2 DEF Mark, RecoverMark, MarkedBy
  <2>2. \A i \in Jobs \ {call[c].job} : job'[i] = job[i]
    BY <1>2, <1>t DEF Mark, RecoverMark
  <2>3. UNCHANGED <<inbox, faultVars>>
    BY <1>2 DEF Mark, RecoverMark
  <2> QED BY <1>f, <1>j, <1>t, <2>1, <2>2, <2>3 DEF Event
<1>3. ASSUME NEW c \in Calls, LoadExport(c) \/ LoadDeletion(c) \/ DecryptCommand(c) PROVE Goal
  <2>1. UNCHANGED <<job, faultVars>> /\ (inbox' = inbox \/ Redeliver(c))
    BY <1>3 DEF LoadExport, LoadDeletion, DecryptCommand
  <2>2. ASSUME Redeliver(c), ~(inbox' = inbox) PROVE Goal
    <3>1. Ends(c) /\ Retry(c, 0)
      BY <1>e, <2>2 DEF Redeliver
    <3>2. Lost(c)
      <4>1. CASE LoadExport(c)
        <5>1. /\ call[c].pc = "load" /\ call[c].job # Deletion
              /\ ~(Holds(c) /\ req[call[c].job].status # "absent" /\ keys)
          BY <2>2, <4>1 DEF LoadExport, At
        <5>2. call[c].job \in Exports
          BY <1>t, <5>1, Beginnings
        <5>3. user = "active" /\ Holds(c) => req[call[c].job].status # "absent" /\ keys
          BY <5>2 DEF Known, Inv, AccountOK, LateOK, LateAccount, Registered, Holds
        <5> QED BY <5>1, <5>3 DEF Lost, HeldBy, Holds
      <4>2. CASE LoadDeletion(c)
        BY <2>2, <4>2 DEF LoadDeletion, Lost, HeldBy, Holds, At
      <4>3. CASE DecryptCommand(c)
        BY <2>2, <4>3 DEF DecryptCommand, Lost, At
      <4> QED BY <1>3, <4>1, <4>2, <4>3
    <3>3. call[c].pc \in ConsumerSteps
      BY <3>2, BoundSteps DEF Lost
    <3>4. ReturnedBy(c, call[c].job)
      BY <2>1, <3>1, <3>2, <3>3 DEF ReturnedBy, Consumes
    <3> QED BY <1>f, <1>j, <1>r, <1>t, <2>1, <3>1, <3>4 DEF Event
  <2> QED BY <1>u, <2>1, <2>2
<1>4. ASSUME NEW c \in Calls, PublishExport(c) \/ FailExport(c) PROVE Goal
  <2>1. /\ call[c].pc \in {"publish", "fail"}
        /\ UNCHANGED <<inbox, faultVars>>
        /\ \/ UNCHANGED job
           \/ /\ Holds(c)
              /\ \E st \in {"succeeded", "failed"} : Settled(call[c].job, st)
    BY <1>4 DEF PublishExport, FailExport, CanPublish, At
  <2>2. ASSUME Holds(c), NEW st \in {"succeeded", "failed"}, Settled(call[c].job, st) PROVE Goal
    <3>1. /\ job'[call[c].job].status = st
          /\ \A i \in Jobs \ {call[c].job} : job'[i] = job[i]
      BY <1>t, <2>2 DEF Settled, JobType
    <3>2. call[c].pc \in ConsumerSteps /\ call[c].pc \notin Bound /\ HeldBy(call[c])
      BY <2>1, <2>2, BoundSteps DEF HeldBy, Holds
    <3>3. Ended(call[c].job)
      BY <2>1, <3>1, <3>2 DEF Ended, Consumes
    <3> QED BY <1>f, <1>j, <1>t, <2>1, <3>1, <3>3 DEF Event
  <2> QED BY <1>u, <2>1, <2>2
<1>5. ASSUME NEW c \in Calls, ReleaseExport(c) \/ ReleaseDeletion(c) PROVE Goal
  <2>1. /\ call[c].pc \in ConsumerSteps /\ Ends(c) /\ UNCHANGED faultVars
        /\ \/ UNCHANGED job
           \/ Holds(c) /\ Released(call[c].job)
        /\ UNCHANGED <<job, inbox>> \/ Retry(c, RetryDelay)
    <3>1. CASE ReleaseExport(c)
      BY <1>e, <3>1, BoundSteps DEF ReleaseExport, CanPublish, At
    <3>2. CASE ReleaseDeletion(c)
      <4>1. call[c].pc \in DeletionSteps /\ call[c].job = Deletion
        BY <1>t, <3>2 DEF ReleaseDeletion, StepOK, At, DeletionSteps
      <4> QED BY <1>e, <3>2, <4>1, StepSets DEF ReleaseDeletion, OwnsDeletion
    <3> QED BY <1>5, <3>1, <3>2
  <2>2. ASSUME Retry(c, RetryDelay) PROVE Goal
    <3>1. \/ job' = job
          \/ /\ HeldBy(call[c])
             /\ job'[call[c].job] = [job[call[c].job] EXCEPT !.status = "queued", !.lease = 0,
                                          !.wait = RetryDelay, !.sent = FALSE]
             /\ \A i \in Jobs \ {call[c].job} : job'[i] = job[i]
      BY <1>t, <2>1 DEF Released, HeldBy, Holds
    <3>2. DelayedBy(c, call[c].job)
      BY <2>1, <2>2, <3>1 DEF DelayedBy, Consumes
    <3> QED BY <1>f, <1>j, <1>r, <1>t, <2>1, <2>2, <3>1, <3>2 DEF Event
  <2> QED BY <1>u, <2>1, <2>2
<1>6. ASSUME NEW c \in Calls,
             \/ SealExport(c) \/ CheckExport(c) \/ HeadExport(c) \/ PutExport(c)
             \/ CheckFencedOwner(c) \/ DropLateExport(c) \/ DropFailedExport(c)
             \/ MarkFailedExport(c) \/ MarkRunning(c)
      PROVE  Goal
  BY <1>6, <1>u DEF SealExport, CheckExport, HeadExport, PutExport, CheckFencedOwner,
       DropLateExport, DropFailedExport, MarkFailedExport, MarkRunning
<1>7. ASSUME NEW c \in Calls,
             \/ ProbeClaim(c) \/ CheckLiveExport(c) \/ CollectKeys(c) \/ DropRegisteredObjects(c)
             \/ DeleteUserRows(c) \/ Advance(c) \/ EraseKeys(c)
      PROVE  Goal
  BY <1>7, <1>u DEF ProbeClaim, CheckLiveExport, CollectKeys, DropRegisteredObjects,
       DeleteUserRows, Advance, EraseKeys
<1>8. ASSUME NEW c \in Calls,
             \/ DropExpired(c) \/ MarkExpired(c) \/ SweepObjects(c) \/ ClearManifest(c)
             \/ SelectManifest(c)
             \/ \E x \in Exports : SelectExpired(c, x) \/ SelectFailed(c, x)
             \/ \E j \in Jobs : SelectRecoverable(c, j)
      PROVE  Goal
  BY <1>8, <1>u DEF DropExpired, MarkExpired, SweepObjects, ClearManifest, SelectManifest,
       SelectExpired, SelectFailed, SelectRecoverable
<1>9. ASSUME NEW c \in Calls, FenceExports(c) \/ DeleteUserJobs(c) PROVE Goal
  <2>1. call[c].pc \in DeletionSteps /\ UNCHANGED <<user, inbox, faultVars>>
    BY <1>9 DEF FenceExports, DeleteUserJobs, At, DeletionSteps, accountVars
  <2>2. user' # "active"
    BY <1>t, <2>1 DEF StepOK
  <2>3. \A j \in Jobs : job'[j] = job[j] \/ (j # Deletion /\ job'[j].status \notin {"queued", "running"})
    <3> TAKE j \in Jobs
    <3>1. /\ job[j] \in JobType /\ NoJob.status = "absent"
          /\ [job[j] EXCEPT !.status = "cancelled", !.lease = 0].status = "cancelled"
      BY <1>t, Beginnings DEF JobType
    <3>2. CASE FenceExports(c)
      BY <3>1, <3>2 DEF FenceExports, Cancelled
    <3>3. CASE DeleteUserJobs(c)
      BY <3>1, <3>3 DEF DeleteUserJobs
    <3> QED BY <1>9, <3>2, <3>3
  <2>4. \A j \in Jobs \ {Deletion} : ~Owned(j)'
    BY <2>2 DEF Owned
  <2> QED BY <1>f, <1>t, <2>1, <2>3, <2>4 DEF Goal, Event, Rests, Ended
<1>10. ASSUME NEW c \in Calls, FinalizeDeletion(c) PROVE Goal
  <2>1. call[c].pc \in DeletionSteps /\ UNCHANGED <<inbox, faultVars>>
    BY <1>10 DEF FinalizeDeletion, At, DeletionSteps
  <2>2. user # "active" /\ user \in {"active", "pending", "deleted"}
    BY <1>t, <2>1, Typing DEF StepOK
  <2>3. UNCHANGED job \/ (job' = [job EXCEPT ![Deletion] = NoJob] /\ user' # "pending")
    BY <1>10, <2>2 DEF FinalizeDeletion
  <2>4. ASSUME job' = [job EXCEPT ![Deletion] = NoJob], user' # "pending" PROVE Goal
    <3>1. /\ job'[Deletion].status = "absent" /\ ~Owned(Deletion)'
          /\ \A i \in Jobs \ {Deletion} : job'[i] = job[i]
      BY <1>t, <2>4, Beginnings DEF Owned
    <3>2. Ended(Deletion) /\ Deletion \in Jobs
      BY <2>1, <3>1, Beginnings DEF Ended
    <3> QED BY <1>f, <1>j, <1>t, <2>1, <3>1, <3>2 DEF Event
  <2> QED BY <1>u, <2>1, <2>3, <2>4
<1>11. ASSUME NEW c \in Calls, Fault(c) PROVE Goal
  <2>1. ASSUME Die(c) PROVE Goal
    <3>1. /\ UNCHANGED job /\ Faults' = Faults + 1 /\ Ends(c)
          /\ inbox' = inbox \/ (call[c].pc \in ConsumerSteps /\ Retry(c, 0))
      BY <1>e, <1>t, <2>1 DEF Die, Faults
    <3>2. call[c].pc \in ConsumerSteps /\ Retry(c, 0) => ReturnedBy(c, call[c].job)
      BY <3>1 DEF ReturnedBy, Consumes
    <3> QED BY <1>j, <1>q, <1>r, <1>t, <3>1, <3>2 DEF Event
  <2>2. ASSUME ThrowInExport(c) \/ ThrowInDeletion(c) \/ SendThrows(c) PROVE Goal
    <3>1. UNCHANGED <<job, inbox>> /\ Faults' = Faults + 1
      BY <1>t, <2>2 DEF ThrowInExport, ThrowInDeletion, SendThrows, Faults
    <3> QED BY <1>q, <1>t, <3>1
  <2> QED BY <1>11, <2>1, <2>2 DEF Fault
<1>12. ASSUME NEW c \in Calls, NEW j \in Jobs, ClaimJob(c, j) PROVE Goal
  <2>1. \A i \in Jobs \ {j} : job'[i] = job[i]
    BY <1>12, <1>t, Claiming
  <2>2. PICK tries : Take(j, tries)
    BY <1>12 DEF ClaimJob
  <2>3. \A i \in Jobs \ {j} : inbox'[i] = inbox[i]
    BY <1>t, <2>2 DEF Take
  <2>4. UNCHANGED faultVars
    BY <1>12 DEF ClaimJob
  <2> QED BY <1>12, <1>f, <1>j, <1>t, <2>1, <2>3, <2>4 DEF Event
<1>13. ASSUME NEW j \in Jobs, IgnoreMessage(j) PROVE Goal
  <2>1. PICK tries : Take(j, tries)
    BY <1>13 DEF IgnoreMessage
  <2>2. \A i \in Jobs \ {j} : inbox'[i] = inbox[i]
    BY <1>t, <2>1 DEF Take
  <2>3. UNCHANGED <<job, faultVars>>
    BY <1>13 DEF IgnoreMessage
  <2> QED BY <1>13, <1>f, <1>j, <1>t, <2>2, <2>3 DEF Event
<1>14. ASSUME NEW j \in Jobs, ClaimThrows(j) PROVE Goal
  <2>1. UNCHANGED job /\ Faults' = Faults + 1
    BY <1>14, <1>t DEF ClaimThrows, Faults
  <2>2. \A i \in Jobs \ {j} : inbox'[i] = inbox[i]
    BY <1>14, <1>t DEF ClaimThrows
  <2> QED BY <1>14, <1>j, <1>t, <2>1, <2>2 DEF Event
<1>15. ASSUME NEW c \in Calls, NEW x \in Exports, ReserveExport(c, x) PROVE Goal
  <2>1. /\ user = "active" /\ user' = user /\ job[x] = NoJob /\ job' = [job EXCEPT ![x] = Queued]
        /\ UNCHANGED <<inbox, faultVars>>
    BY <1>15 DEF ReserveExport, accountVars
  <2>2. x \in Jobs /\ x # Deletion
    BY Beginnings
  <2>3. job'[x] = Queued /\ \A i \in Jobs \ {x} : job'[i] = job[i]
    BY <1>t, <2>1, <2>2
  <2>4. Reserved(x)
    BY <2>1, <2>2, <2>3, Beginnings DEF Reserved
  <2> QED BY <1>f, <1>j, <1>t, <2>1, <2>2, <2>3, <2>4 DEF Event
<1>16. ASSUME NEW c \in Calls, ReserveDeletion(c) PROVE Goal
  <2>1. /\ user = "active" /\ user' = "pending" /\ UNCHANGED <<inbox, faultVars>>
        /\ job' = [j \in Jobs |-> IF j = Deletion THEN Queued
                                  ELSE IF job[j].status = "queued"
                                  THEN [job[j] EXCEPT !.status = "cancelled"]
                                  ELSE job[j]]
    BY <1>16 DEF ReserveDeletion
  <2>2. Reserved(Deletion)
    BY <2>1, Beginnings DEF Reserved, Known, WakerOK, CommandOK
  <2>3. ASSUME NEW j \in Jobs \ {Deletion} PROVE Ended(j) \/ Rests(j)
    <3>1. job'[j] = job[j] \/ job'[j].status = "cancelled"
      BY <1>t, <2>1, <2>3 DEF JobType
    <3>2. ~Owned(j)'
      BY <2>1, <2>3 DEF Owned
    <3> QED BY <1>f, <1>t, <2>1, <3>1, <3>2 DEF Ended, Rests
  <2> QED BY <2>2, <2>3 DEF Goal, Event
<1>17. CASE UNCHANGED vars \/ Fence \/ Lift
  BY <1>17, <1>u DEF vars, Goal, Fence, Lift
<1>18. ASSUME NEW c \in Calls, CallStep(c) PROVE Goal
  BY <1>1, <1>2, <1>3, <1>4, <1>5, <1>6, <1>7, <1>8, <1>9, <1>10, <1>18
     DEF CallStep, RouteStep, ClaimStep, ExportStep, DeletionStep, MaintenanceStep
<1>19. ASSUME NEW c \in Calls, Start(c) PROVE Goal
  BY <1>8, <1>12, <1>15, <1>16, <1>19 DEF Start
<1> QED BY <1>11, <1>13, <1>14, <1>17, <1>18, <1>19 DEF Next, Goal
-----------------------------------------------------------------------------
(* What a step does to the calls that carry a message.                     *)

\* A consumer goes on; past the first statement it has marked its row running.
GoesOn(c) ==
  /\ call[c].pc \in ConsumerSteps /\ call'[c].pc \in ConsumerSteps \ {"start"}
  /\ call'[c].job = call[c].job /\ call'[c].attempt = call[c].attempt
  /\ call'[c].tries = call[c].tries /\ call'[c].age = call[c].age
  /\ call'[c].pc \in Bound => call[c].pc \in Bound
  /\ call[c].pc = "start" => MarkRunning(c)
TakesMessage(c, j) ==
  /\ ClaimJob(c, j)
  /\ call'[c].pc = "start" /\ call'[c].job = j /\ call'[c].attempt = job[j].attempts + 1
  /\ Message(0, call'[c].tries) \in inbox[j]
Opens(c, j) == /\ call'[c].pc = "send" /\ call'[c].job = j /\ call'[c].age = 0 /\ Reserved(j)
               /\ j = Deletion => ReserveDeletion(c)
Sends(c) == /\ call[c].pc = "send" /\ call'[c].pc = "mark" /\ call'[c].job = call[c].job
            /\ call'[c].age = call[c].age
            /\ UNCHANGED <<job, user, faultVars>> /\ Post(call[c].job, Message(0, 0))
LooksAt(c, j) == /\ call'[c].pc = "recoverSend" /\ call'[c].job = j /\ call'[c].row = job[j]
                 /\ Recoverable(j) /\ UNCHANGED <<job, user>>
Resends(c) == /\ call[c].pc = "recoverSend" /\ call'[c].pc = "recoverMark"
              /\ call'[c].job = call[c].job /\ call'[c].row = call[c].row
              /\ UNCHANGED <<job, user, faultVars>> /\ Post(call[c].job, Message(0, 0))
CarrierMove(c) == \/ call'[c] = call[c]
                  \/ call'[c].pc \notin Carriers
                  \/ GoesOn(c) \/ Sends(c) \/ Resends(c)
                  \/ \E j \in Jobs : TakesMessage(c, j) \/ Opens(c, j) \/ LooksAt(c, j)

\* Every step but the clock's moves every call in one of these ways.
LEMMA CarrierMoves ==
  ASSUME Known, [Next]_vars, ~Tick
  PROVE  \A c \in Calls : CarrierMove(c)
<1> DEFINE Goal == \A c \in Calls : CarrierMove(c)
<1>t. /\ TypeOK /\ \A c \in Calls : StepOK(call[c]) /\ call[c] \in CallType
      /\ call \in [Calls -> CallType] /\ Idle \in CallType /\ Idle.pc = "idle"
      /\ job \in [Jobs -> JobType] /\ Idle.age = 0
  BY Typing, Beginnings DEF Known, Inv, CallOK, Idle
<1>s. /\ "idle" \notin Carriers /\ ConsumerSteps \subseteq Carriers
      /\ {"expireDrop", "expireMark", "sweepDrop", "sweepClear", "cleanDrop", "cleanMark"}
           \cap Carriers = {}
      /\ DeletionSteps \subseteq ConsumerSteps /\ DeletionSteps \subseteq Bound
      /\ "start" \notin DeletionSteps
  BY StepSets DEF Carriers, Bound, DeletionSteps
<1>m. ASSUME NEW c \in Calls, NEW k, MovesTo(c, k), CarrierMove(c) PROVE Goal
  BY <1>m DEF MovesTo, CarrierMove
<1>u. ASSUME UNCHANGED call PROVE Goal
  BY <1>u DEF CarrierMove
<1>n. ASSUME NEW c \in Calls, NEW k, MovesTo(c, k), k.pc \notin Carriers PROVE Goal
  <2>1. CarrierMove(c)
    BY <1>n DEF MovesTo, CarrierMove
  <2> QED BY <1>m, <1>n, <2>1
<1>e. ASSUME NEW c \in Calls, Ends(c) PROVE Goal
  BY <1>e, <1>n, <1>s, <1>t DEF Ends
<1>g. ASSUME NEW c \in Calls, NEW pc, Goes(c, pc)
      PROVE  /\ MovesTo(c, call'[c]) /\ call'[c].pc = pc /\ call'[c].job = call[c].job
             /\ call'[c].attempt = call[c].attempt /\ call'[c].tries = call[c].tries
             /\ call'[c].age = call[c].age /\ call'[c].row = call[c].row
  BY <1>g, <1>t DEF Goes, MovesTo, CallType
<1>v. ASSUME NEW c \in Calls, CarrierMove(c), NEW k, MovesTo(c, k) PROVE Goal
  BY <1>m, <1>v
<1>p. ASSUME NEW c \in Calls, NEW pc, Goes(c, pc),
             \/ pc \notin Carriers
             \/ /\ pc \in ConsumerSteps \ {"start"} /\ call[c].pc \in ConsumerSteps
                /\ pc \in Bound => call[c].pc \in Bound
                /\ call[c].pc = "start" => MarkRunning(c)
      PROVE  Goal
  <2>1. CarrierMove(c)
    BY <1>g, <1>p DEF CarrierMove, GoesOn
  <2>2. PICK k : k = call'[c] /\ MovesTo(c, k)
    BY <1>g, <1>p
  <2> QED BY <1>m, <2>1, <2>2
<1>k. ASSUME NEW c \in Calls, NEW k, MovesTo(c, k), call[c].pc \in ConsumerSteps \ {"start"},
             k.pc \in ConsumerSteps \ {"start"}, k.job = call[c].job,
             k.attempt = call[c].attempt, k.tries = call[c].tries, k.age = call[c].age,
             k.pc \in Bound => call[c].pc \in Bound
      PROVE  Goal
  <2>1. CarrierMove(c)
    BY <1>k DEF CarrierMove, GoesOn, MovesTo
  <2> QED BY <1>m, <1>k, <2>1
<1>d. ASSUME NEW c \in Calls, NEW k, MovesTo(c, k), NEW pc \in DeletionSteps, At(c, pc),
             k.pc \in DeletionSteps, k.job = call[c].job, k.attempt = call[c].attempt,
             k.tries = call[c].tries, k.age = call[c].age
      PROVE  Goal
  BY <1>d, <1>k, <1>s DEF At
<1>h. ASSUME NEW c \in Calls, NEW pc \in DeletionSteps, At(c, pc), NEW next \in DeletionSteps,
             Goes(c, next)
      PROVE  Goal
  BY <1>h, <1>p, <1>s DEF At
<1> HIDE DEF Goal
<1>1. ASSUME NEW c \in Calls, Send(c) PROVE Goal
  <2>1. /\ Goes(c, "mark") /\ call[c].pc = "send" /\ UNCHANGED <<job, user, faultVars>>
        /\ Post(call[c].job, Message(0, 0))
    BY <1>1, <1>t, ClaimCalls DEF Send, At, accountVars
  <2>2. CarrierMove(c)
    BY <1>g, <2>1 DEF CarrierMove, Sends
  <2>3. PICK k : k = call'[c] /\ MovesTo(c, k)
    BY <1>g, <2>1
  <2> QED BY <1>m, <2>2, <2>3
<1>2. ASSUME NEW c \in Calls, RecoverSend(c) PROVE Goal
  <2>1. /\ Goes(c, "recoverMark") /\ call[c].pc = "recoverSend"
        /\ UNCHANGED <<job, user, faultVars>> /\ Post(call[c].job, Message(0, 0))
    BY <1>2, <1>t, MaintenanceCalls DEF RecoverSend, At, accountVars
  <2>2. CarrierMove(c)
    BY <1>g, <2>1 DEF CarrierMove, Resends
  <2>3. PICK k : k = call'[c] /\ MovesTo(c, k)
    BY <1>g, <2>1
  <2> QED BY <1>m, <2>2, <2>3
<1>3. ASSUME NEW c \in Calls, Mark(c) \/ MarkRunning(c) \/ LoadExport(c) PROVE Goal
  <2>1. \/ Ends(c)
        \/ At(c, "start") /\ Goes(c, "load") /\ MarkRunning(c)
        \/ At(c, "load") /\ Goes(c, "build")
    BY <1>3, <1>t, ClaimCalls
  <2> QED BY <1>e, <1>p, <2>1, BoundSteps DEF At
<1>4. ASSUME NEW c \in Calls, LoadDeletion(c) PROVE Goal
  <2>1. \/ Ends(c)
        \/ /\ At(c, "load")
           /\ MovesTo(c, [call[c] EXCEPT !.checkpoint = del.checkpoint,
                            !.pc = IF del.checkpoint = KeysErased THEN "probe" ELSE "decrypt"])
    BY <1>4, <1>t, ClaimCalls
  <2>2. ASSUME At(c, "load"),
               MovesTo(c, [call[c] EXCEPT !.checkpoint = del.checkpoint,
                             !.pc = IF del.checkpoint = KeysErased THEN "probe" ELSE "decrypt"])
        PROVE  Goal
    <3> DEFINE k == [call[c] EXCEPT !.checkpoint = del.checkpoint,
                       !.pc = IF del.checkpoint = KeysErased THEN "probe" ELSE "decrypt"]
    <3>1. /\ k.pc \in {"probe", "decrypt"} /\ k.job = call[c].job /\ k.attempt = call[c].attempt
          /\ k.tries = call[c].tries /\ k.age = call[c].age
      BY <1>t DEF CallType
    <3>2. MovesTo(c, k)
      BY <2>2
    <3> HIDE DEF k
    <3>3. "probe" \in ConsumerSteps \ {"start"} /\ "decrypt" \in ConsumerSteps \ {"start"}
      BY DEF ConsumerSteps, DeletionSteps
    <3> QED BY <1>k, <2>2, <3>1, <3>2, <3>3, BoundSteps DEF At
  <2> QED BY <1>e, <2>1, <2>2
<1>5. ASSUME NEW c \in Calls,
             \/ SealExport(c) \/ CheckExport(c) \/ PutExport(c) \/ PublishExport(c)
             \/ CheckFencedOwner(c) \/ DropLateExport(c) \/ FailExport(c)
             \/ DropFailedExport(c) \/ MarkFailedExport(c) \/ ReleaseExport(c)
      PROVE  Goal
  <2>1. \/ Ends(c)
        \/ At(c, "cleanDrop") /\ Goes(c, "cleanMark")
        \/ \E pc \in {"check", "fail", "head", "publish", "ownerCheck", "dropLate", "dropFailed",
                      "markFailed"} :
             /\ call[c].pc \in {"build", "check", "put", "publish", "ownerCheck", "fail",
                                "dropFailed"}
             /\ Goes(c, pc)
    BY <1>5, <1>t, ExportCalls DEF At
  <2>2. ASSUME NEW pc \in {"check", "fail", "head", "publish", "ownerCheck", "dropLate",
                           "dropFailed", "markFailed"},
               call[c].pc \in {"build", "check", "put", "publish", "ownerCheck", "fail",
                               "dropFailed"},
               Goes(c, pc)
        PROVE  Goal
    BY <1>p, <2>2, BoundSteps
  <2> QED BY <1>e, <1>p, <1>s, <2>1, <2>2
<1>6. ASSUME NEW c \in Calls, HeadExport(c) PROVE Goal
  <2>1. /\ At(c, "head")
        /\ \/ Ends(c)
           \/ MovesTo(c, [call[c] EXCEPT !.pc = "put", !.etag = object[call[c].job]])
    BY <1>6, <1>t, ExportCalls
  <2>2. ASSUME MovesTo(c, [call[c] EXCEPT !.pc = "put", !.etag = object[call[c].job]])
        PROVE  Goal
    <3> DEFINE k == [call[c] EXCEPT !.pc = "put", !.etag = object[call[c].job]]
    <3>1. /\ k.pc = "put" /\ k.job = call[c].job /\ k.attempt = call[c].attempt
          /\ k.tries = call[c].tries /\ k.age = call[c].age
      BY <1>t DEF CallType
    <3>2. MovesTo(c, k)
      BY <2>2
    <3> HIDE DEF k
    <3> QED BY <1>k, <2>1, <3>1, <3>2, BoundSteps DEF At
  <2> QED BY <1>e, <2>1, <2>2
<1>7. ASSUME NEW c \in Calls,
             \/ CheckLiveExport(c) \/ DropRegisteredObjects(c) \/ DeleteUserRows(c)
             \/ DeleteUserJobs(c) \/ FinalizeDeletion(c) \/ ReleaseDeletion(c)
      PROVE  Goal
  <2>1. \/ Ends(c)
        \/ \E pc \in DeletionSteps, next \in DeletionSteps : At(c, pc) /\ Goes(c, next)
    BY <1>7, <1>t, DeletionCalls DEF DeletionSteps
  <2> QED BY <1>e, <1>h, <2>1
<1>8. ASSUME NEW c \in Calls, DecryptCommand(c) \/ ProbeClaim(c) PROVE Goal
  <2>1. FirstStep(call[c].checkpoint) \in DeletionSteps
    BY DEF FirstStep, DeletionSteps
  <2>2. ASSUME ProbeClaim(c) PROVE StepAfter(call[c].checkpoint) \in DeletionSteps
    <3>1. call[c].checkpoint \in ExportsFenced .. KeysErased
      BY <1>t, <2>2 DEF ProbeClaim, At, StepOK, CheckpointsAt, DeletionSteps
    <3> QED BY <3>1 DEF StepAfter, DeletionSteps, ExportsFenced, ObjectsDeleted, RowsDeleted, KeysErased
  <2>3. DecryptCommand(c) => At(c, "decrypt") /\ (Ends(c) \/ Goes(c, FirstStep(call[c].checkpoint)))
    BY <1>t, DeletionCalls
  <2>4. ProbeClaim(c) => /\ At(c, "probe")
                         /\ Goes(c, "releaseDeletion") \/ Goes(c, StepAfter(call[c].checkpoint))
    BY <1>t, DeletionCalls
  <2>5. {"decrypt", "probe", "releaseDeletion"} \subseteq DeletionSteps
    BY DEF DeletionSteps
  <2> QED BY <1>8, <1>e, <1>h, <2>1, <2>2, <2>3, <2>4, <2>5
<1>9. ASSUME NEW c \in Calls, CollectKeys(c) PROVE Goal
  <2>1. PICK pc \in {"collect", "collectAgain"} :
          /\ At(c, pc)
          /\ MovesTo(c, [call[c] EXCEPT !.keys = Registered,
                           !.pc = IF pc = "collect" THEN "fence" ELSE "dropObjects"])
    BY <1>9, <1>t, DeletionCalls
  <2> DEFINE k == [call[c] EXCEPT !.keys = Registered,
                     !.pc = IF pc = "collect" THEN "fence" ELSE "dropObjects"]
  <2>2. /\ k.pc \in {"fence", "dropObjects"} /\ k.job = call[c].job
        /\ k.attempt = call[c].attempt /\ k.tries = call[c].tries /\ k.age = call[c].age
    BY <1>t DEF CallType
  <2>3. MovesTo(c, k)
    BY <2>1
  <2>4. {"collect", "collectAgain", "fence", "dropObjects"} \subseteq DeletionSteps
    BY DEF DeletionSteps
  <2> HIDE DEF k
  <2> QED BY <1>d, <2>1, <2>2, <2>3, <2>4
<1>10. ASSUME NEW c \in Calls, FenceExports(c) PROVE Goal
  <2>1. /\ At(c, "fence")
        /\ \/ MovesTo(c, [call[c] EXCEPT !.checkpoint = ExportsFenced, !.pc = "collectAgain"])
           \/ Goes(c, "releaseDeletion")
    BY <1>10, <1>t, DeletionCalls
  <2> DEFINE k == [call[c] EXCEPT !.checkpoint = ExportsFenced, !.pc = "collectAgain"]
  <2>2. /\ k.pc = "collectAgain" /\ k.job = call[c].job
        /\ k.attempt = call[c].attempt /\ k.tries = call[c].tries /\ k.age = call[c].age
    BY <1>t DEF CallType
  <2>3. MovesTo(c, k) \/ Goes(c, "releaseDeletion")
    BY <2>1
  <2>4. {"fence", "collectAgain", "releaseDeletion"} \subseteq DeletionSteps
    BY DEF DeletionSteps
  <2> HIDE DEF k
  <2> QED BY <1>d, <1>h, <2>1, <2>2, <2>3, <2>4
<1>11. ASSUME NEW c \in Calls, Advance(c) PROVE Goal
  <2>1. /\ At(c, "advance")
        /\ \/ MovesTo(c, [call[c] EXCEPT !.checkpoint = call[c].checkpoint + 1,
                            !.pc = IF call[c].checkpoint = ExportsFenced
                                   THEN "deleteRows" ELSE "erase"])
           \/ Ends(c)
    BY <1>11, <1>t, DeletionCalls
  <2> DEFINE k == [call[c] EXCEPT !.checkpoint = call[c].checkpoint + 1,
                     !.pc = IF call[c].checkpoint = ExportsFenced THEN "deleteRows" ELSE "erase"]
  <2>2. /\ k.pc \in {"deleteRows", "erase"} /\ k.job = call[c].job
        /\ k.attempt = call[c].attempt /\ k.tries = call[c].tries /\ k.age = call[c].age
    BY <1>t DEF CallType
  <2>3. MovesTo(c, k) \/ Ends(c)
    BY <2>1
  <2>4. {"advance", "deleteRows", "erase"} \subseteq DeletionSteps
    BY DEF DeletionSteps
  <2> HIDE DEF k
  <2> QED BY <1>d, <1>e, <2>1, <2>2, <2>3, <2>4
<1>12. ASSUME NEW c \in Calls, EraseKeys(c) PROVE Goal
  <2>1. /\ At(c, "erase")
        /\ MovesTo(c, [call[c] EXCEPT !.checkpoint = KeysErased, !.pc = "finalize"])
    BY <1>12, <1>t, DeletionCalls
  <2> DEFINE k == [call[c] EXCEPT !.checkpoint = KeysErased, !.pc = "finalize"]
  <2>2. /\ k.pc = "finalize" /\ k.job = call[c].job
        /\ k.attempt = call[c].attempt /\ k.tries = call[c].tries /\ k.age = call[c].age
    BY <1>t DEF CallType
  <2>3. MovesTo(c, k)
    BY <2>1
  <2>4. {"erase", "finalize"} \subseteq DeletionSteps
    BY DEF DeletionSteps
  <2> HIDE DEF k
  <2> QED BY <1>d, <2>1, <2>2, <2>3, <2>4
<1>13. ASSUME NEW c \in Calls,
              \/ DropExpired(c) \/ MarkExpired(c) \/ SweepObjects(c) \/ ClearManifest(c)
              \/ RecoverMark(c)
       PROVE  Goal
  BY <1>13, <1>e, <1>p, <1>s, <1>t, MaintenanceCalls
<1>14. ASSUME NEW c \in Calls, NEW x \in Exports, SelectExpired(c, x) \/ SelectFailed(c, x)
       PROVE  Goal
  <2>1. PICK pc \in {"expireDrop", "cleanDrop"} : MovesTo(c, [Idle EXCEPT !.pc = pc, !.job = x])
    BY <1>14, <1>t, StartCalls DEF Begins
  <2>2. [Idle EXCEPT !.pc = pc, !.job = x].pc = pc
    BY <1>t DEF Idle
  <2> QED BY <1>n, <1>s, <2>1, <2>2
<1>15. ASSUME NEW c \in Calls, SelectManifest(c) PROVE Goal
  <2>1. PICK late \in {0, 1} :
          MovesTo(c, [Idle EXCEPT !.pc = "sweepDrop", !.keys = del.manifest, !.etag = late])
    BY <1>15, <1>t, StartCalls
  <2>2. [Idle EXCEPT !.pc = "sweepDrop", !.keys = del.manifest, !.etag = late].pc = "sweepDrop"
    BY DEF Idle
  <2> QED BY <1>n, <1>s, <2>1, <2>2
<1>16. ASSUME NEW c \in Calls, NEW j \in Jobs, SelectRecoverable(c, j) PROVE Goal
  <2> DEFINE k == [Idle EXCEPT !.pc = "recoverSend", !.job = j, !.row = job[j]]
  <2>1. MovesTo(c, k)
    BY <1>16, <1>t, StartCalls
  <2>2. k.pc = "recoverSend" /\ k.job = j /\ k.row = job[j]
    BY DEF Idle
  <2>3. Recoverable(j) /\ UNCHANGED <<job, user>>
    BY <1>16 DEF SelectRecoverable, accountVars
  <2> HIDE DEF k
  <2>4. CarrierMove(c)
    BY <2>1, <2>2, <2>3 DEF CarrierMove, LooksAt, MovesTo
  <2> QED BY <1>m, <2>1, <2>4
<1>17. ASSUME NEW c \in Calls, NEW j \in Jobs, ClaimJob(c, j) PROVE Goal
  <2>1. PICK tries \in 0 .. MaxRetries :
          /\ Take(j, tries)
          /\ call' = [call EXCEPT ![c] = [Idle EXCEPT !.pc = "start", !.job = j, !.tries = tries,
                                                      !.attempt = job[j].attempts + 1]]
    BY <1>17 DEF ClaimJob
  <2> DEFINE next == job[j].attempts + 1
             k == [Idle EXCEPT !.pc = "start", !.job = j, !.tries = tries, !.attempt = next]
  <2>2. next = job[j].attempts + 1
    OBVIOUS
  <2> HIDE DEF next
  <2>3. k.pc = "start" /\ k.job = j /\ k.attempt = next /\ k.tries = tries
    BY DEF Idle
  <2>4. call' = [call EXCEPT ![c] = k]
    BY <2>1, <2>2
  <2> HIDE DEF k
  <2>5. call'[c] = k /\ \A d \in Calls \ {c} : call'[d] = call[d]
    BY <1>t, <2>4
  <2>6. Message(0, call'[c].tries) \in inbox[j]
    BY <2>1, <2>3, <2>5 DEF Take
  <2>7. CarrierMove(c)
    BY <1>17, <2>2, <2>3, <2>5, <2>6 DEF CarrierMove, TakesMessage
  <2> QED BY <2>5, <2>7 DEF Goal, CarrierMove
<1>18. ASSUME NEW c \in Calls, NEW j \in Jobs,
              (j \in Exports /\ ReserveExport(c, j)) \/ (j = Deletion /\ ReserveDeletion(c))
       PROVE  Goal
  <2>1. Begins(c, "send", j)
    BY <1>18, <1>t, StartCalls
  <2> DEFINE k == [Idle EXCEPT !.pc = "send", !.job = j]
  <2>2. MovesTo(c, k)
    BY <2>1 DEF Begins
  <2>3. k.pc = "send" /\ k.job = j /\ k.age = 0
    BY <1>t DEF Idle
  <2> HIDE DEF k
  <2>4. Reserved(j)
    <3>1. CASE j \in Exports /\ ReserveExport(c, j)
      <4>1. /\ user = "active" /\ user' = user /\ job[j] = NoJob
            /\ job' = [job EXCEPT ![j] = Queued] /\ UNCHANGED <<inbox, faultVars>>
        BY <3>1 DEF ReserveExport, accountVars
      <4>2. job'[j] = Queued
        BY <1>t, <4>1
      <4> QED BY <3>1, <4>1, <4>2, Beginnings DEF Reserved
    <3>2. CASE j = Deletion /\ ReserveDeletion(c)
      BY <3>2 DEF ReserveDeletion, Reserved, Known, WakerOK, CommandOK
    <3> QED BY <1>18, <3>1, <3>2
  <2>5. CarrierMove(c)
    BY <1>18, <2>2, <2>3, <2>4, Beginnings DEF CarrierMove, Opens, MovesTo
  <2> QED BY <1>m, <2>2, <2>5
<1>19. ASSUME NEW c \in Calls, Fault(c) PROVE Goal
  <2>1. ASSUME ThrowInExport(c) PROVE Goal
    <3>1. /\ call[c].pc \in {"build", "check", "head", "put", "publish", "ownerCheck", "dropLate"}
          /\ Goes(c, "fail") \/ Goes(c, "releaseExport")
      BY <1>t, <2>1, FaultCalls
    <3> QED BY <1>p, <3>1, BoundSteps
  <2>2. ASSUME ThrowInDeletion(c) PROVE Goal
    <3>1. call[c].pc \in DeletionSteps /\ Goes(c, "releaseDeletion")
      BY <1>t, <2>2, FaultCalls
    <3> QED BY <1>h, <3>1 DEF DeletionSteps, At
  <2>3. Die(c) \/ SendThrows(c) => Goal
    BY <1>e, <1>t, FaultCalls
  <2> QED BY <1>19, <2>1, <2>2, <2>3 DEF Fault
<1>20. ASSUME NEW j \in Jobs, IgnoreMessage(j) \/ ClaimThrows(j) PROVE Goal
  BY <1>20, <1>u DEF IgnoreMessage, ClaimThrows
<1>21. CASE UNCHANGED vars \/ Fence \/ Lift
  BY <1>21, <1>u DEF vars, Goal, Fence, Lift
<1>22. ASSUME NEW c \in Calls, CallStep(c) PROVE Goal
  BY <1>1, <1>2, <1>3, <1>4, <1>5, <1>6, <1>7, <1>8, <1>9, <1>10, <1>11, <1>12, <1>13, <1>22
     DEF CallStep, RouteStep, ClaimStep, ExportStep, DeletionStep, MaintenanceStep
<1>23. ASSUME NEW c \in Calls, Start(c) PROVE Goal
  BY <1>14, <1>15, <1>16, <1>17, <1>18, <1>23, Beginnings DEF Start
<1> QED BY <1>19, <1>20, <1>21, <1>22, <1>23 DEF Next, Goal
-----------------------------------------------------------------------------
(* What is known of a state, and what no step but the clock's can do.      *)

\* The types, and the parts of the invariant that are used below.
LEMMA Basics ==
  ASSUME Known
  PROVE  /\ TypeOK /\ AccountOK /\ TokensDiffer /\ CommandOK
         /\ deaths <= MaxDeaths /\ throws <= MaxThrows
         /\ \A c \in Calls :
              /\ call[c] \in CallType /\ call[c].job \in Jobs
              /\ call[c].tries \in Nat /\ call[c].attempt \in Nat /\ call[c].age \in Nat
              /\ StepOK(call[c]) /\ AttemptOK(call[c]) /\ OwnerOK(call[c])
              /\ call[c].pc # "idle" => call[c].age <= CallLife
              /\ CarrierOK(call[c]) /\ WindowOK(call[c]) /\ RecoveryOK(call[c])
         /\ \A j \in Jobs :
              /\ MessagesOK(j) /\ job[j] \in JobType
              /\ inbox[j] \in SUBSET MessageType
              /\ job[j].lease \in Nat /\ job[j].wait \in Nat /\ job[j].attempts \in Nat
              /\ \A m \in inbox[j] : m.delay \in Nat /\ m.tries \in Nat /\ Due(m.tries) \in Nat
<1>1. TypeOK /\ AccountOK /\ TokensDiffer /\ CommandOK /\ deaths <= MaxDeaths /\ throws <= MaxThrows
  BY DEF Known, Inv, WakerOK
<1>2. ASSUME NEW c \in Calls
      PROVE  /\ call[c] \in CallType /\ call[c].job \in Jobs
             /\ call[c].tries \in Nat /\ call[c].attempt \in Nat /\ call[c].age \in Nat
    BY <1>1, Typing, CallTyping
<1>3. ASSUME NEW c \in Calls
      PROVE  /\ StepOK(call[c]) /\ AttemptOK(call[c]) /\ OwnerOK(call[c])
             /\ call[c].pc # "idle" => call[c].age <= CallLife
             /\ CarrierOK(call[c]) /\ WindowOK(call[c]) /\ RecoveryOK(call[c])
    BY DEF Known, Inv, CallOK, LateOK, LateCall, WakerOK
<1>4. ASSUME NEW j \in Jobs
      PROVE  /\ MessagesOK(j) /\ job[j] \in JobType
             /\ inbox[j] \in SUBSET MessageType
             /\ job[j].lease \in Nat /\ job[j].wait \in Nat /\ job[j].attempts \in Nat
             /\ \A m \in inbox[j] : m.delay \in Nat /\ m.tries \in Nat /\ Due(m.tries) \in Nat
  <2>1. MessagesOK(j)
    BY DEF Known, WakerOK
  <2>2. job[j] \in JobType /\ inbox[j] \in SUBSET MessageType
    BY <1>1, Typing
  <2>3. job[j].lease \in Nat /\ job[j].wait \in Nat /\ job[j].attempts \in Nat
    BY <2>2 DEF JobType
  <2>4. \A m \in inbox[j] : m.delay \in Nat /\ m.tries \in Nat
    BY <2>2 DEF MessageType
  <2> QED BY <2>1, <2>2, <2>3, <2>4, DueFacts
<1> QED BY <1>1, <1>2, <1>3, <1>4

\* A fault is never forgotten, and one more is worth one more retry.
LEMMA FaultsGrow ==
  ASSUME Known, [Next]_vars, ~Tick
  PROVE  /\ Faults \in Nat /\ Faults' \in Nat /\ Faults <= Faults'
         /\ Due(Faults) \in Nat /\ Due(Faults') \in Nat /\ Due(Faults) <= Due(Faults')
         /\ UNCHANGED faultVars => Faults' = Faults
         /\ Faults' = Faults + 1 => Due(Faults') = Due(Faults) + RetryDelay
<1>1. Faults \in Nat
  BY Basics, Typing DEF Faults
<1>2. TypeOK'
  BY InvStep DEF Known, Inv
<1>3. Faults' \in Nat
  <2>1. deaths' \in Nat /\ throws' \in Nat
    BY <1>2, Zenon DEF TypeOK
  <2>2. deaths' + throws' \in Nat
    <3>1. \A a, b \in Nat : a + b \in Nat
      OBVIOUS
    <3> QED BY <2>1, <3>1, Zenon
  <2>3. Faults' = deaths' + throws'
    BY DEF Faults
  <2> QED BY <2>2, <2>3, Zenon
<1>4. UNCHANGED faultVars => Faults' = Faults
  BY DEF faultVars, Faults
<1>5. Event(Deletion)
  BY Events, Beginnings
<1>6. ClaimThrows(Deletion) => Faults' = Faults + 1
  BY <1>1, Basics, Typing DEF ClaimThrows, Faults
<1>7. IgnoreMessage(Deletion) \/ (\E c \in Calls : ClaimJob(c, Deletion)) => Faults' = Faults
  BY <1>4 DEF IgnoreMessage, ClaimJob
<1>8. Faults <= Faults'
  BY <1>1, <1>3, <1>4, <1>5, <1>6, <1>7
     DEF Event, Rests, Posted, Ended, Reserved, ReturnedBy, DelayedBy, MarkedBy
<1> QED BY <1>1, <1>3, <1>4, <1>8, DueFacts

\* The faults stay within their bounds.
LEMMA FaultBounds ==
  ASSUME Known, [Next]_vars
  PROVE  deaths' <= MaxDeaths /\ throws' <= MaxThrows
<1>t. /\ deaths \in Nat /\ throws \in Nat /\ MaxDeaths \in Nat /\ MaxThrows \in Nat
      /\ deaths <= MaxDeaths /\ throws <= MaxThrows
  BY Basics, Typing, DueFacts
<1>u. UNCHANGED faultVars => deaths' <= MaxDeaths /\ throws' <= MaxThrows
  BY <1>t DEF faultVars
<1>1. ASSUME NEW c \in Calls, RouteStep(c) \/ ClaimStep(c) \/ MaintenanceStep(c)
      PROVE  UNCHANGED faultVars
  BY <1>1 DEF RouteStep, ClaimStep, MaintenanceStep, Send, Mark, MarkRunning, LoadExport,
       LoadDeletion, DropExpired, MarkExpired, SweepObjects, ClearManifest, RecoverSend, RecoverMark
<1>2. ASSUME NEW c \in Calls, ExportStep(c) PROVE UNCHANGED faultVars
  BY <1>2 DEF ExportStep, SealExport, CheckExport, HeadExport, PutExport, PublishExport,
       CheckFencedOwner, DropLateExport, FailExport, DropFailedExport, MarkFailedExport, ReleaseExport
<1>3. ASSUME NEW c \in Calls, DeletionStep(c) PROVE UNCHANGED faultVars
  BY <1>3 DEF DeletionStep, DecryptCommand, ProbeClaim, CheckLiveExport, CollectKeys, FenceExports,
       DropRegisteredObjects, DeleteUserRows, DeleteUserJobs, Advance, EraseKeys, FinalizeDeletion,
       ReleaseDeletion
<1>4. ASSUME NEW c \in Calls, Start(c) PROVE UNCHANGED faultVars
  BY <1>4 DEF Start, ReserveDeletion, SelectManifest, ReserveExport, SelectExpired, SelectFailed,
       ClaimJob, SelectRecoverable
<1>5. ASSUME NEW c \in Calls, Fault(c) PROVE deaths' <= MaxDeaths /\ throws' <= MaxThrows
  BY <1>5, <1>t DEF Fault, ThrowInExport, ThrowInDeletion, Die, SendThrows
<1>6. ASSUME NEW j \in Jobs, IgnoreMessage(j) \/ ClaimThrows(j)
      PROVE  deaths' <= MaxDeaths /\ throws' <= MaxThrows
  BY <1>6, <1>t, <1>u DEF IgnoreMessage, ClaimThrows
<1>7. Tick \/ UNCHANGED vars \/ Fence \/ Lift => UNCHANGED faultVars
  BY DEF Tick, vars, Fence, Lift
<1> QED BY <1>u, <1>1, <1>2, <1>3, <1>4, <1>5, <1>6, <1>7 DEF Next, CallStep

\* What has been reserved stays reserved, as long as the account is open; and
\* an owner is let in by the reservation of the deletion only.
LEMMA AdmissionMoves ==
  ASSUME Known, [Next]_vars, NEW j \in Jobs
  PROVE  /\ Unborn(j)' => Unborn(j)
         /\ Gone(j) => Gone(j)'
         /\ Owned(j)' => Owned(j) \/ Unborn(j)
<1>1. JobMove(j)
  BY Basics, JobMoves
<1>2. /\ user \in {"active", "pending", "deleted"}
      /\ user' = "active" => user = "active"
      /\ user = "deleted" => user' = "deleted"
  BY Basics, Typing, AccountMoves
<1>3. user = "active" => job[Deletion].status = "absent"
  BY Basics DEF CommandOK
<1>4. Unborn(j)' => Unborn(j)
  BY <1>1, <1>2, <1>3 DEF JobMove, JobKept, Unborn
<1>5. Gone(j) => Gone(j)'
  BY <1>1, <1>2 DEF JobMove, JobKept, Gone
<1>6. Owned(j)' => Owned(j) \/ Unborn(j)
  BY <1>2, <1>3 DEF Owned, Unborn
<1> QED BY <1>4, <1>5, <1>6

\* A queued job that was robbed of its message stays in the history until it
\* is claimed, or its account closes.
LEMMA HistoryMoves ==
  ASSUME Known, [Next]_vars, NEW j \in Jobs, Awaits(j)'
  PROVE  j \notin turned /\ (IgnoreMessage(j) => ~Takeable(j))
<1>t. /\ turned \subseteq Exports /\ job \in [Jobs -> JobType] /\ Deletion \notin Exports
      /\ job'[j].status = "queued" /\ Owned(j)' /\ j \notin turned'
      /\ user' = "active" => user = "active"
  BY Basics, Typing, Beginnings, AccountMoves DEF Awaits
<1>1. ASSUME NEW i \in Jobs, IgnoreMessage(i)
      PROVE  j \notin turned /\ (i = j => ~Takeable(j))
  <2>1. /\ ~Claimable(i) /\ UNCHANGED <<user, job>> /\ turned \subseteq turned'
        /\ i # Deletion /\ job[i].status = "queued" /\ Takeable(i) /\ Owned(i) => i \in turned'
    BY <1>1 DEF IgnoreMessage
  <2>2. Owned(i)' <=> Owned(i)
    BY <2>1 DEF Owned
  <2>3. i = Deletion /\ Owned(i) => ~Takeable(i)
    BY <2>1 DEF Claimable, Takeable, OwnerAdmits
  <2> QED BY <1>t, <2>1, <2>2, <2>3
<1>2. ASSUME NEW i \in Jobs, NEW c \in Calls, ClaimJob(c, i) PROVE j \notin turned
  <2>1. turned' = turned \ {i} /\ job'[i].status = "running"
    BY <1>2, Basics, Claiming DEF ClaimJob
  <2> QED BY <1>t, <2>1
<1>3. ASSUME NEW c \in Calls, ReserveDeletion(c) PROVE j \notin turned
  <2>1. user' = "pending"
    BY <1>3 DEF ReserveDeletion
  <2>2. j = Deletion
    BY <1>t, <2>1 DEF Owned
  <2> QED BY <1>t, <2>2
<1>4. UNCHANGED fenceVars \/ Fence \/ Lift => j \notin turned
  BY <1>t DEF fenceVars, Fence, Lift
<1> QED BY <1>1, <1>2, <1>3, <1>4, RotationMoves

\* A call carries messages of reserved jobs only.
LEMMA CarrierStep ==
  ASSUME Known, [Next]_vars, ~Tick, NEW c \in Calls
  PROVE  CarrierOK(call[c])'
<1>1. CarrierMove(c) /\ CarrierOK(call[c]) /\ call[c].job \in Jobs
  BY CarrierMoves, Basics
<1>2. \A j \in Jobs : Unborn(j)' => Unborn(j)
  BY AdmissionMoves
<1>3. CASE call'[c] = call[c]
  BY <1>1, <1>2, <1>3 DEF CarrierOK, Unborn
<1>4. CASE call'[c].pc \notin Carriers
  BY <1>4 DEF CarrierOK
<1>5. CASE GoesOn(c) \/ Sends(c) \/ Resends(c)
  <2>1. call[c].pc \in Carriers /\ call'[c].job = call[c].job
    BY <1>5, BoundSteps DEF GoesOn, Sends, Resends, Carriers
  <2> QED BY <1>1, <1>2, <2>1 DEF CarrierOK, Unborn
<1>6. ASSUME NEW j \in Jobs, TakesMessage(c, j) \/ LooksAt(c, j) PROVE CarrierOK(call[c])'
  <2>1. call'[c].job = j /\ ~Unborn(j)
    BY <1>6, Basics, Claiming DEF TakesMessage, LooksAt, Recoverable, Unborn
  <2> QED BY <1>2, <2>1 DEF CarrierOK, Unborn
<1>7. ASSUME NEW j \in Jobs, Opens(c, j) PROVE CarrierOK(call[c])'
  BY <1>7, Beginnings DEF Opens, Reserved, CarrierOK, Unborn
<1> QED BY <1>1, <1>3, <1>4, <1>5, <1>6, <1>7 DEF CarrierMove
-----------------------------------------------------------------------------
(* The messages of a job.                                                  *)

Again(delay, tries) == IF tries < MaxRetries THEN {Message(delay, tries + 1)} ELSE {}

\* What is taken from the messages of a job and what is put back.
LEMMA Inboxes ==
  ASSUME Known, NEW j \in Jobs
  PROVE  /\ IgnoreMessage(j) => /\ UNCHANGED <<job, faultVars>>
                                /\ \E m : m.delay = 0 /\ inbox'[j] = inbox[j] \ {m}
         /\ \A c \in Calls : ClaimJob(c, j) => inbox'[j] \subseteq inbox[j] /\ UNCHANGED faultVars
         /\ ClaimThrows(j) => /\ UNCHANGED job /\ throws < MaxThrows /\ Faults' = Faults + 1
                              /\ \E m \in inbox[j] :
                                   /\ m.delay = 0
                                   /\ inbox'[j] = (inbox[j] \ {m}) \cup Again(0, m.tries)
         /\ \A c \in Calls, delay \in Nat : Consumes(c, j) /\ Retry(c, delay)
              => inbox'[j] = inbox[j] \cup Again(delay, call[c].tries)
         /\ \A delay, tries : /\ Message(delay, tries).delay = delay
                              /\ Message(delay, tries).tries = tries
<1>t. inbox \in [Jobs -> SUBSET MessageType] /\ deaths \in Nat /\ throws \in Nat
  BY Basics, Typing
<1>m. \A delay, tries : Message(delay, tries).delay = delay /\ Message(delay, tries).tries = tries
  BY DEF Message
<1>k. \A tries : Take(j, tries) => /\ Message(0, tries) \in inbox[j]
                                   /\ inbox'[j] = inbox[j] \ {Message(0, tries)}
  BY <1>t DEF Take
<1>1. ASSUME IgnoreMessage(j)
      PROVE  /\ UNCHANGED <<job, faultVars>>
             /\ \E m : m.delay = 0 /\ inbox'[j] = inbox[j] \ {m}
  <2>1. PICK tries : Take(j, tries)
    BY <1>1 DEF IgnoreMessage
  <2>2. UNCHANGED <<job, faultVars>>
    BY <1>1 DEF IgnoreMessage
  <2> QED BY <1>k, <1>m, <2>1, <2>2
<1>2. ASSUME NEW c \in Calls, ClaimJob(c, j)
      PROVE  inbox'[j] \subseteq inbox[j] /\ UNCHANGED faultVars
  <2>1. PICK tries : Take(j, tries)
    BY <1>2 DEF ClaimJob
  <2>2. UNCHANGED faultVars
    BY <1>2 DEF ClaimJob
  <2> QED BY <1>k, <2>1, <2>2
<1>3. ASSUME ClaimThrows(j)
      PROVE  /\ UNCHANGED job /\ throws < MaxThrows /\ Faults' = Faults + 1
             /\ \E m \in inbox[j] : /\ m.delay = 0
                                    /\ inbox'[j] = (inbox[j] \ {m}) \cup Again(0, m.tries)
  <2>1. UNCHANGED job /\ throws < MaxThrows /\ Faults' = Faults + 1
    BY <1>3, <1>t DEF ClaimThrows, Faults
  <2>2. PICK m \in inbox[j] :
          /\ m.delay = 0
          /\ inbox' = [inbox EXCEPT ![j] = (@ \ {m}) \cup Again(0, m.tries)]
    BY <1>3 DEF ClaimThrows, Again
  <2>3. inbox'[j] = (inbox[j] \ {m}) \cup Again(0, m.tries)
    BY <1>t, <2>2
  <2> QED BY <2>1, <2>2, <2>3
<1>4. ASSUME NEW c \in Calls, NEW delay \in Nat, Consumes(c, j), Retry(c, delay)
      PROVE  inbox'[j] = inbox[j] \cup Again(delay, call[c].tries)
  BY <1>4, <1>t DEF Consumes, Retry, Post, Again
<1> QED BY <1>m, <1>1, <1>2, <1>3, <1>4

\* A message that a step adds is at once or after the delay of a retry, and is
\* of a job that has been reserved.
LEMMA Postings ==
  ASSUME Known, [Next]_vars, ~Tick, NEW j \in Jobs
  PROVE  /\ \A m \in inbox'[j] : m \in inbox[j] \/ m.delay \in {0, RetryDelay}
         /\ inbox'[j] \subseteq inbox[j] \/ ~Unborn(j)
<1> DEFINE Goal == /\ \A m \in inbox'[j] : m \in inbox[j] \/ m.delay \in {0, RetryDelay}
                   /\ inbox'[j] \subseteq inbox[j] \/ ~Unborn(j)
<1>e. Event(j)
  BY Events
<1>m. \A delay, tries : Message(delay, tries).delay = delay
  BY DEF Message
<1>c. \A c \in Calls : call[c].pc \in Carriers /\ call[c].job = j => ~Unborn(j)
  BY Basics DEF CarrierOK
<1>1. Rests(j) \/ Ended(j) \/ Reserved(j) => Goal
  BY DEF Rests, Ended, Reserved
<1>2. Posted(j) => Goal
  BY <1>c, <1>m DEF Posted, Carriers
<1>3. IgnoreMessage(j) \/ (\E c \in Calls : ClaimJob(c, j)) => Goal
  BY Inboxes
<1>4. ClaimThrows(j) => Goal
  <2> SUFFICES ASSUME ClaimThrows(j) PROVE Goal
    OBVIOUS
  <2>1. PICK m \in inbox[j] : inbox'[j] = (inbox[j] \ {m}) \cup Again(0, m.tries)
    BY Inboxes
  <2>2. ~Unborn(j)
    BY <2>1, Basics DEF MessagesOK
  <2> QED BY <1>m, <2>1, <2>2 DEF Again
<1>5. ASSUME NEW c \in Calls, ReturnedBy(c, j) \/ DelayedBy(c, j) PROVE Goal
  <2>1. Consumes(c, j) /\ (Retry(c, 0) \/ Retry(c, RetryDelay))
    BY <1>5 DEF ReturnedBy, DelayedBy
  <2>2. ~Unborn(j)
    BY <1>c, <2>1, BoundSteps DEF Consumes
  <2>3. PICK delay \in {0, RetryDelay} : inbox'[j] = inbox[j] \cup Again(delay, call[c].tries)
    <3>1. RetryDelay \in Nat
      BY DueFacts
    <3>2. CASE Retry(c, 0)
      BY <2>1, <3>2, Inboxes
    <3>3. CASE Retry(c, RetryDelay)
      BY <2>1, <3>1, <3>3, Inboxes
    <3> QED BY <2>1, <3>2, <3>3
  <2> QED BY <1>m, <2>2, <2>3 DEF Again
<1>6. ASSUME NEW c \in Calls, MarkedBy(c, j) PROVE Goal
  BY <1>6 DEF MarkedBy
<1> QED BY <1>e, <1>1, <1>2, <1>3, <1>4, <1>5, <1>6 DEF Event

\* What a marker changes.
LEMMA Markers ==
  ASSUME Known, NEW c \in Calls, NEW j \in Jobs, MarkedBy(c, j)
  PROVE  /\ job'[j] = [job[j] EXCEPT !.sent = job'[j].sent]
         /\ job'[j].status = job[j].status /\ job'[j].attempts = job[j].attempts
         /\ job'[j].lease = job[j].lease /\ job'[j].wait = job[j].wait
         /\ UNCHANGED <<inbox, faultVars>> /\ call[c].job = j
         /\ job'[j].sent /\ ~job[j].sent =>
              \/ call[c].pc = "mark"
              \/ call[c].pc = "recoverMark" /\ job[j] = call[c].row
<1>t. job \in [Jobs -> JobType] /\ job[j] \in JobType
  BY Basics, Typing
<1>1. UNCHANGED <<inbox, faultVars>> /\ call[c].job = j /\ (Mark(c) \/ RecoverMark(c))
  BY DEF MarkedBy
<1>2. CASE Mark(c)
  <2>1. /\ call[c].pc = "mark"
        /\ job' = [job EXCEPT ![j].sent = @ \/ job[j].status = "queued"]
    BY <1>1, <1>2 DEF Mark, At
  <2>2. job'[j] = [job[j] EXCEPT !.sent = @ \/ job[j].status = "queued"]
    BY <1>t, <2>1
  <2> QED BY <1>1, <1>t, <2>1, <2>2 DEF JobType
<1>3. CASE RecoverMark(c)
  <2>1. /\ call[c].pc = "recoverMark"
        /\ job' = job \/ (job[j] = call[c].row /\ job' = [job EXCEPT ![j].sent = TRUE])
    BY <1>1, <1>3 DEF RecoverMark, At
  <2>2. job'[j] = job[j] \/ (job[j] = call[c].row /\ job'[j] = [job[j] EXCEPT !.sent = TRUE])
    BY <1>t, <2>1
  <2> QED BY <1>1, <1>t, <2>1, <2>2 DEF JobType
<1> QED BY <1>1, <1>2, <1>3

\* The release of a job.
LEMMA Releases ==
  ASSUME Known, NEW j \in Jobs, NEW c \in Calls, DelayedBy(c, j)
  PROVE  /\ inbox'[j] = inbox[j] \cup Again(RetryDelay, call[c].tries)
         /\ UNCHANGED faultVars /\ Ends(c) /\ Consumes(c, j)
         /\ \/ job'[j] = job[j]
            \/ /\ HeldBy(call[c]) /\ job[j].status = "running"
               /\ job'[j].status = "queued" /\ job'[j].attempts = job[j].attempts
               /\ job'[j].wait = RetryDelay /\ job'[j].sent = FALSE
<1>1. inbox'[j] = inbox[j] \cup Again(RetryDelay, call[c].tries)
  BY Inboxes, Beginnings DEF DelayedBy
<1>2. job[j] \in JobType
  BY Basics
<1> QED BY <1>1, <1>2 DEF DelayedBy, JobType, HeldBy, Consumes

\* A queued job that was sent keeps a message that will find it.
LEMMA WakerKept ==
  ASSUME RetriesOutlastFaults, Known, [Next]_vars, ~Tick, NEW j \in Jobs,
         Awaits(j)', job'[j].sent
  PROVE  \E m \in inbox'[j] : /\ m.delay >= job'[j].wait
                              /\ Due(m.tries) <= CallLife + RetryDelay + Due(Faults')
<1> DEFINE Goal == \E m \in inbox'[j] : /\ m.delay >= job'[j].wait
                                        /\ Due(m.tries) <= CallLife + RetryDelay + Due(Faults')
<1>f. /\ Faults \in Nat /\ Faults' \in Nat /\ Due(Faults) \in Nat /\ Due(Faults') \in Nat
      /\ Due(Faults) <= Due(Faults')
      /\ Faults' = Faults + 1 => Due(Faults') = Due(Faults) + RetryDelay
      /\ RetryDelay \in Nat /\ CallLife \in Nat
  BY FaultsGrow, DueFacts
<1>m. /\ \A delay, tries : Message(delay, tries).delay = delay /\ Message(delay, tries).tries = tries
      /\ \A m \in inbox[j] : m.delay \in Nat /\ m.tries \in Nat /\ Due(m.tries) \in Nat
      /\ job[j].wait \in Nat
  BY Inboxes, Basics
<1>a. job'[j].status = "queued" /\ Owned(j)'
  BY DEF Awaits
<1>h. j \notin turned /\ (IgnoreMessage(j) => ~Takeable(j))
  BY HistoryMoves
<1>o. Owned(j) \/ Unborn(j)
  BY <1>a, AdmissionMoves
<1>w. ASSUME job[j].status = "queued", job[j].sent
      PROVE  /\ Owned(j)
             /\ \E m \in inbox[j] : /\ m.delay >= job[j].wait
                                    /\ Due(m.tries) <= CallLife + RetryDelay + Due(Faults)
  BY <1>h, <1>o, <1>w, Basics DEF MessagesOK, Wakers, Unborn, Awaits
<1>k. ASSUME job[j].status = "queued", job[j].sent, job'[j].wait = job[j].wait,
             inbox[j] \subseteq inbox'[j]
      PROVE  Goal
  <2>1. PICK m \in inbox[j] : /\ m.delay >= job[j].wait
                              /\ Due(m.tries) <= CallLife + RetryDelay + Due(Faults)
    BY <1>k, <1>w
  <2>2. Due(m.tries) <= CallLife + RetryDelay + Due(Faults')
    BY <1>f, <1>m, <2>1
  <2> QED BY <1>k, <2>1, <2>2
<1>1. CASE Rests(j)
  BY <1>1, <1>a, <1>k DEF Rests
<1>2. CASE Posted(j)
  BY <1>2, <1>a, <1>k DEF Posted
<1>3. CASE IgnoreMessage(j)
  <2>1. PICK m0 : UNCHANGED job /\ m0.delay = 0 /\ inbox'[j] = inbox[j] \ {m0}
    BY <1>3, Inboxes
  <2>2. job[j].status = "queued" /\ job[j].sent
    BY <1>a, <2>1
  <2>3. PICK m \in inbox[j] : /\ m.delay >= job[j].wait
                              /\ Due(m.tries) <= CallLife + RetryDelay + Due(Faults)
    BY <1>w, <2>2
  <2>4. ~Takeable(j)
    BY <1>3, <1>h
  <2>5. job[j].wait # 0
    BY <2>2, <2>4 DEF Takeable
  <2>6. m # m0
    BY <1>m, <2>1, <2>3, <2>5
  <2>7. Due(m.tries) <= CallLife + RetryDelay + Due(Faults')
    BY <1>f, <1>m, <2>3
  <2> QED BY <2>1, <2>3, <2>6, <2>7
<1>4. CASE ClaimThrows(j)
  <2>1. PICK m0 \in inbox[j] : /\ UNCHANGED job /\ throws < MaxThrows /\ Faults' = Faults + 1
                               /\ m0.delay = 0
                               /\ inbox'[j] = (inbox[j] \ {m0}) \cup Again(0, m0.tries)
    BY <1>4, Inboxes
  <2>2. job[j].status = "queued" /\ job[j].sent
    BY <1>a, <2>1
  <2>3. PICK m \in inbox[j] : /\ m.delay >= job[j].wait
                              /\ Due(m.tries) <= CallLife + RetryDelay + Due(Faults)
    BY <1>w, <2>2
  <2>4. CASE m # m0
    <3>1. Due(m.tries) <= CallLife + RetryDelay + Due(Faults')
      BY <1>f, <1>m, <2>3
    <3> QED BY <2>1, <2>3, <2>4, <3>1
  <2>5. CASE m = m0
    <3>1. m.tries < MaxRetries
      BY <1>m, <2>1, <2>3, RetriesLeft, Basics
    <3>2. Message(0, m.tries + 1) \in inbox'[j]
      BY <2>1, <2>5, <3>1 DEF Again
    <3>3. Due(m.tries + 1) = Due(m.tries) + RetryDelay
      BY <1>m, DueFacts
    <3>4. Due(m.tries + 1) <= CallLife + RetryDelay + Due(Faults')
      BY <1>f, <1>m, <2>1, <2>3, <3>3
    <3>5. job'[j].wait = 0
      BY <1>m, <2>1, <2>3, <2>5
    <3> QED BY <1>m, <3>2, <3>4, <3>5
  <2> QED BY <2>4, <2>5
<1>5. ASSUME NEW c \in Calls, ClaimJob(c, j) PROVE Goal
  BY <1>5, <1>a, Basics, Claiming
<1>6. ASSUME NEW c \in Calls, ReturnedBy(c, j) PROVE Goal
  <2>1. job'[j] = job[j] /\ inbox[j] \subseteq inbox'[j]
    BY <1>6, Inboxes DEF ReturnedBy
  <2> QED BY <1>a, <1>k, <2>1
<1>7. ASSUME NEW c \in Calls, DelayedBy(c, j) PROVE Goal
  <2>1. job'[j] = job[j] /\ inbox[j] \subseteq inbox'[j]
    BY <1>7, Releases
  <2> QED BY <1>a, <1>k, <2>1
<1>8. ASSUME NEW c \in Calls, MarkedBy(c, j) PROVE Goal
  <2>1. /\ job[j].status = "queued" /\ job'[j].wait = job[j].wait /\ UNCHANGED <<inbox, faultVars>>
        /\ call[c].job = j
    BY <1>8, <1>a, Markers
  <2>2. CASE job[j].sent
    BY <1>k, <2>1, <2>2
  <2>3. CASE ~job[j].sent
    <3>o. Owned(j) /\ Awaits(j)
      BY <1>h, <1>o, <2>1 DEF Unborn, Awaits
    <3>1. CASE call[c].pc = "mark"
      <4>1. call[c].pc \in RouteSteps /\ call[c].age \in Nat /\ call[c].age <= CallLife
        BY <3>1, Basics DEF RouteSteps
      <4>2. /\ \A m \in inbox[j] : Due(m.tries) <= call[c].age + m.delay + Due(Faults)
            /\ Wakers(j) # {}
        BY <2>1, <3>o, <3>1, <4>1, Basics DEF WindowOK
      <4>3. PICK m \in inbox[j] : m.delay >= job[j].wait
        BY <4>2 DEF Wakers
      <4>4. m.delay <= RetryDelay
        BY Basics DEF MessagesOK
      <4>5. Due(m.tries) <= call[c].age + m.delay + Due(Faults)
        BY <4>2
      <4>6. Due(m.tries) <= CallLife + RetryDelay + Due(Faults')
        BY <1>f, <1>m, <4>1, <4>4, <4>5
      <4> QED BY <2>1, <4>3, <4>6
    <3>2. CASE call[c].pc = "recoverMark" /\ job[j] = call[c].row
      <4>1. job[j].wait = 0 /\ \E m \in inbox[j] : m.tries <= Faults
        BY <2>1, <3>o, <3>2, Basics DEF RecoveryOK
      <4>2. PICK m \in inbox[j] : m.tries <= Faults
        BY <4>1
      <4>3. Due(m.tries) <= Due(Faults)
        BY <1>f, <1>m, <4>2, DueFacts
      <4>4. Due(m.tries) <= CallLife + RetryDelay + Due(Faults')
        BY <1>f, <1>m, <4>3
      <4>5. m.delay >= job'[j].wait
        BY <1>m, <2>1, <4>1
      <4> QED BY <2>1, <4>4, <4>5
    <3> QED BY <1>8, <2>3, <3>1, <3>2, Markers
  <2> QED BY <2>2, <2>3
<1>9. ~Ended(j) /\ ~Reserved(j)
  BY <1>a DEF Ended, Reserved, Queued, NoJob
<1> QED BY <1>1, <1>2, <1>3, <1>4, <1>5, <1>6, <1>7, <1>8, <1>9, Events DEF Event

\* The messages of each job are as they should be after a step.
LEMMA MessageStep ==
  ASSUME RetriesOutlastFaults, Known, [Next]_vars, ~Tick, NEW j \in Jobs
  PROVE  MessagesOK(j)'
<1>1. \A m \in inbox'[j] : m.delay <= RetryDelay
  <2>1. RetryDelay \in Nat /\ (\A m \in inbox[j] : m.delay <= RetryDelay)
    BY Basics, DueFacts DEF MessagesOK
  <2>2. \A m \in inbox'[j] : m \in inbox[j] \/ m.delay \in {0, RetryDelay}
    BY Postings
  <2> QED BY <2>1, <2>2
<1>2. Unborn(j)' => inbox'[j] = {}
  BY Postings, AdmissionMoves, Basics DEF MessagesOK
<1>3. Awaits(j)' /\ job'[j].sent =>
        \E m \in inbox'[j] : /\ m.delay >= job'[j].wait
                             /\ Due(m.tries) <= CallLife + RetryDelay + Due(Faults')
  BY WakerKept
<1> QED BY <1>1, <1>2, <1>3 DEF MessagesOK, Wakers
-----------------------------------------------------------------------------
(* A route at work on its job.                                             *)

\* The route w has the job j, which can be claimed, before and after a step
\* that is not its own.
Open(w, j) == /\ w \in Calls /\ j \in Jobs /\ call'[w] = call[w]
              /\ call[w].pc \in RouteSteps /\ call[w].job = j
              /\ Owned(j) /\ Owned(j)'

\* What is known of it.
LEMMA OpenFacts ==
  ASSUME RetriesOutlastFaults, Known, [Next]_vars, ~Tick, NEW w, NEW j, Open(w, j)
  PROVE  /\ call[w].age \in Nat /\ call[w].age <= CallLife /\ CallLife \in Nat
         /\ ~Unborn(j) /\ j \in Jobs /\ w \in Calls
         /\ \A m \in inbox[j] : Due(m.tries) <= call[w].age + m.delay + Due(Faults)
         /\ \A m \in inbox[j] : m.delay \in Nat /\ m.tries \in Nat /\ Due(m.tries) \in Nat
         /\ job[j].status = "running" => job[j].lease + call[w].age > CallLife
         /\ Awaits(j) /\ (call[w].pc = "mark" \/ job[j].wait > 0) => Wakers(j) # {}
         /\ job[j].wait \in Nat /\ job[j].lease \in Nat
         /\ \A d \in Calls : Consumes(d, j) =>
              /\ Due(call[d].tries) <= call[w].age + Due(Faults)
              /\ call[d].tries < MaxRetries /\ call[d].tries \in Nat
              /\ Due(call[d].tries + 1) = Due(call[d].tries) + RetryDelay
              /\ Due(call[d].tries) \in Nat
              /\ call[d].pc \in Bound => HeldBy(call[d])
<1>0. /\ w \in Calls /\ j \in Jobs /\ call[w].pc \in RouteSteps /\ call[w].job = j
      /\ Owned(j)
  BY DEF Open
<1>1. call[w].age \in Nat /\ call[w].age <= CallLife /\ CallLife \in Nat
  BY <1>0, Basics, DueFacts DEF RouteSteps
<1>2. ~Unborn(j)
  BY <1>0, Basics DEF CarrierOK, Carriers, RouteSteps
<1>4. /\ \A m \in inbox[j] : Due(m.tries) <= call[w].age + m.delay + Due(Faults)
      /\ job[j].status = "running" => job[j].lease + call[w].age > CallLife
      /\ Awaits(j) /\ (call[w].pc = "mark" \/ job[j].wait > 0) => Wakers(j) # {}
      /\ \A d \in Calls : Consumes(d, j) =>
           /\ Due(call[d].tries) <= call[w].age + Due(Faults)
           /\ call[d].pc \in Bound => HeldBy(call[d])
  BY <1>0, Basics DEF WindowOK, Consumes
<1>5. /\ \A m \in inbox[j] : m.delay \in Nat /\ m.tries \in Nat /\ Due(m.tries) \in Nat
      /\ job[j].wait \in Nat /\ job[j].lease \in Nat
  BY <1>0, Basics
<1>6. ASSUME NEW d \in Calls, Consumes(d, j)
      PROVE  /\ call[d].tries < MaxRetries /\ call[d].tries \in Nat
             /\ Due(call[d].tries + 1) = Due(call[d].tries) + RetryDelay
             /\ Due(call[d].tries) \in Nat
  <2>1. call[d].tries \in Nat
    BY Basics
  <2>2. Due(call[d].tries) \in Nat /\ Due(call[d].tries + 1) = Due(call[d].tries) + RetryDelay
    BY <2>1, DueFacts
  <2>3. Due(Faults) \in Nat
    BY FaultsGrow
  <2>4. Due(call[d].tries) <= CallLife + Due(Faults)
    BY <1>1, <1>4, <1>6, <2>2, <2>3
  <2>5. call[d].tries < MaxRetries
    BY <2>1, <2>4, RetriesLeft, Basics
  <2> QED BY <2>1, <2>2, <2>5
<1> QED BY <1>0, <1>1, <1>2, <1>4, <1>5, <1>6

\* A call that has a claim of the job j after a step had it before, or claims
\* the job in this step.
LEMMA Consumers ==
  ASSUME Known, [Next]_vars, ~Tick, NEW d \in Calls, NEW j \in Jobs, Consumes(d, j)'
  PROVE  \/ TakesMessage(d, j)
         \/ /\ Consumes(d, j) /\ call'[d].tries = call[d].tries
            /\ call'[d].attempt = call[d].attempt
            /\ call'[d].pc \in Bound => call[d].pc \in Bound
<1>1. CarrierMove(d) /\ call'[d].pc \in ConsumerSteps /\ call'[d].job = j
  BY CarrierMoves DEF Consumes
<1> QED BY <1>1, BoundSteps
        DEF CarrierMove, GoesOn, Sends, Resends, Opens, LooksAt, TakesMessage, Consumes

\* A claim in the window finds the job queued, and nobody at its work.
LEMMA ClaimInWindow ==
  ASSUME CallsFitLease, RetriesOutlastFaults, Known, [Next]_vars, ~Tick,
         NEW w, NEW j, Open(w, j), NEW c \in Calls, ClaimJob(c, j)
  PROVE  /\ job[j].status = "queued" /\ job'[j].status = "running"
         /\ job'[j].lease + call[w].age > CallLife
         /\ job'[j].attempts = job[j].attempts + 1
         /\ \A d \in Calls : Consumes(d, j) => call[d].pc \notin Bound
<1>f. /\ call[w].age \in Nat /\ call[w].age <= CallLife /\ CallLife \in Nat
      /\ job[j].status = "running" => job[j].lease + call[w].age > CallLife
      /\ j \in Jobs /\ Lease \in Nat /\ job[j] \in JobType
  BY OpenFacts, Beginnings, Basics
<1>1. Claimable(j)
  BY DEF ClaimJob
<1>2. job[j].status = "queued"
  BY <1>f, <1>1 DEF Claimable, Takeable, OwnerAdmits
<1>3. job'[j].status = "running" /\ job'[j].attempts = job[j].attempts + 1
  BY <1>f, Claiming, Basics
<1>4. job'[j].lease = Lease
  <2>1. job \in [Jobs -> JobType]
    BY Basics, Typing
  <2>2. job'[j] = [job[j] EXCEPT !.status = "running", !.lease = Lease, !.attempts = @ + 1,
                                 !.sent = TRUE]
    BY <1>f, <2>1 DEF ClaimJob
  <2> QED BY <1>f, <2>2 DEF JobType
<1>5. Lease + call[w].age > CallLife
  BY <1>f DEF CallsFitLease
<1>6. \A d \in Calls : Consumes(d, j) => call[d].pc \notin Bound
  BY <1>2, OpenFacts DEF HeldBy, Consumes
<1> QED BY <1>2, <1>3, <1>4, <1>5, <1>6

\* No claim is lost while the route is at work: who gives its message back
\* without a fault has none of the reasons for it.
LEMMA NothingLost ==
  ASSUME RetriesOutlastFaults, Known, [Next]_vars, ~Tick,
         NEW w, NEW j, Open(w, j), NEW c \in Calls, Consumes(c, j)
  PROVE  ~Lost(c)
<1>f. /\ w \in Calls /\ j \in Jobs /\ call[w].pc \in RouteSteps /\ call[w].job = j
      /\ Owned(j) /\ call[c].job = j
  BY DEF Open, Consumes
<1> SUFFICES ASSUME Lost(c) PROVE FALSE
  OBVIOUS
<1>1. call[c].pc \in {"load", "decrypt"} /\ HeldBy(call[c])
  <2>1. call[c].pc \in {"load", "decrypt"}
    BY DEF Lost
  <2> QED BY <2>1, OpenFacts, BoundSteps
<1>2. ~(call[c].job # Deletion /\ user # "active")
  BY <1>f DEF Owned
<1>3. call[c].pc = "decrypt" /\ ~keys
  BY <1>1, <1>2 DEF Lost
<1>4. /\ call[c].job = Deletion /\ call[c].checkpoint \in Accepted .. RowsDeleted
      /\ del.checkpoint <= call[c].checkpoint
  BY <1>1, <1>3, Basics DEF StepOK, OwnerOK, CheckpointsAt, DeletionSteps
<1>5. user = "pending"
  BY <1>f, <1>4 DEF Owned
<1>6. del.checkpoint = KeysErased
  BY <1>f, <1>3, <1>4, <1>5, Basics DEF CommandOK
<1> QED BY <1>4, <1>6 DEF Accepted, RowsDeleted, KeysErased

\* Part of WindowOK: the retries that the messages have used.
LEMMA WindowMessages ==
  ASSUME RetriesOutlastFaults, Known, [Next]_vars, ~Tick,
         NEW w, NEW j, Open(w, j), NEW m \in inbox'[j]
  PROVE  Due(m.tries) <= call[w].age + m.delay + Due(Faults')
<1> DEFINE Goal == Due(m.tries) <= call[w].age + m.delay + Due(Faults')
           age == call[w].age
<1>f. /\ Faults \in Nat /\ Faults' \in Nat /\ Due(Faults) \in Nat /\ Due(Faults') \in Nat
      /\ Due(Faults) <= Due(Faults')
      /\ UNCHANGED faultVars => Faults' = Faults
      /\ Faults' = Faults + 1 => Due(Faults') = Due(Faults) + RetryDelay
      /\ RetryDelay \in Nat /\ Due(0) = 0
  BY FaultsGrow, DueFacts
<1>o. /\ age \in Nat /\ j \in Jobs /\ ~Unborn(j)
      /\ \A l \in inbox[j] : /\ Due(l.tries) <= age + l.delay + Due(Faults)
                             /\ l.delay \in Nat /\ l.tries \in Nat /\ Due(l.tries) \in Nat
      /\ \A c \in Calls : Consumes(c, j) =>
           /\ Due(call[c].tries) <= age + Due(Faults)
           /\ call[c].tries < MaxRetries /\ call[c].tries \in Nat
           /\ Due(call[c].tries + 1) = Due(call[c].tries) + RetryDelay
           /\ Due(call[c].tries) \in Nat
  BY OpenFacts
<1>d. \A delay, tries : Message(delay, tries).delay = delay /\ Message(delay, tries).tries = tries
  BY DEF Message
<1> HIDE DEF age
<1>k. ASSUME m \in inbox[j] PROVE Goal
  <2>1. Due(m.tries) <= age + m.delay + Due(Faults) /\ m.delay \in Nat /\ Due(m.tries) \in Nat
    BY <1>k, <1>o
  <2> QED BY <1>f, <1>o, <2>1 DEF age
<1>1. CASE Rests(j) \/ Ended(j) \/ Reserved(j)
  BY <1>1, <1>k DEF Rests, Ended, Reserved
<1>2. CASE Posted(j)
  <2>1. m \in inbox[j] \/ m = Message(0, 0)
    BY <1>2 DEF Posted
  <2> QED BY <1>d, <1>f, <1>k, <1>o, <2>1 DEF age
<1>3. CASE IgnoreMessage(j) \/ \E c \in Calls : ClaimJob(c, j)
  <2>1. m \in inbox[j]
    BY <1>3, <1>o, Inboxes
  <2> QED BY <1>k, <2>1
<1>4. CASE ClaimThrows(j)
  <2>1. PICK l \in inbox[j] : /\ Faults' = Faults + 1 /\ l.delay = 0
                              /\ inbox'[j] = (inbox[j] \ {l}) \cup Again(0, l.tries)
    BY <1>4, <1>o, Inboxes
  <2>2. CASE m \notin inbox[j]
    <3>1. m = Message(0, l.tries + 1)
      BY <2>1, <2>2 DEF Again
    <3>2. Due(l.tries) <= age + Due(Faults) /\ Due(l.tries) \in Nat /\ l.tries \in Nat
      BY <1>f, <1>o, <2>1
    <3>3. Due(l.tries + 1) = Due(l.tries) + RetryDelay
      BY <3>2, DueFacts
    <3>4. m.tries = l.tries + 1 /\ m.delay = 0
      BY <1>d, <3>1
    <3> QED BY <1>f, <1>o, <2>1, <3>2, <3>3, <3>4 DEF age
  <2> QED BY <1>k, <2>2
<1>5. ASSUME NEW c \in Calls, ReturnedBy(c, j), m \notin inbox[j] PROVE Goal
  <2>1. Consumes(c, j) /\ (Faults' = Faults + 1 \/ Lost(c))
    BY <1>5 DEF ReturnedBy
  <2>2. inbox'[j] = inbox[j] \cup Again(0, call[c].tries)
    BY <1>5, <1>o, Inboxes DEF ReturnedBy
  <2>3. Faults' = Faults + 1
    BY <2>1, NothingLost
  <2>4. m = Message(0, call[c].tries + 1)
    BY <1>5, <2>2 DEF Again
  <2>5. m.tries = call[c].tries + 1 /\ m.delay = 0
    BY <1>d, <2>4
  <2>6. /\ Due(call[c].tries) <= age + Due(Faults) /\ Due(call[c].tries) \in Nat
        /\ Due(call[c].tries + 1) = Due(call[c].tries) + RetryDelay
    BY <1>o, <2>1
  <2> QED BY <1>f, <1>o, <2>3, <2>5, <2>6 DEF age
<1>6. ASSUME NEW c \in Calls, DelayedBy(c, j), m \notin inbox[j] PROVE Goal
  <2>1. Consumes(c, j) /\ inbox'[j] = inbox[j] \cup Again(RetryDelay, call[c].tries)
    BY <1>6, <1>o, Releases
  <2>2. m = Message(RetryDelay, call[c].tries + 1)
    BY <1>6, <2>1 DEF Again
  <2>3. m.tries = call[c].tries + 1 /\ m.delay = RetryDelay
    BY <1>d, <2>2
  <2>4. /\ Due(call[c].tries) <= age + Due(Faults) /\ Due(call[c].tries) \in Nat
        /\ Due(call[c].tries + 1) = Due(call[c].tries) + RetryDelay
    BY <1>o, <2>1
  <2> QED BY <1>f, <1>o, <2>3, <2>4 DEF age
<1>7. ASSUME NEW c \in Calls, MarkedBy(c, j) PROVE Goal
  BY <1>7, <1>k DEF MarkedBy
<1> QED BY <1>k, <1>o, <1>1, <1>2, <1>3, <1>4, <1>5, <1>6, <1>7, Events DEF Event

\* Part of WindowOK: the lease of a claim that the route may outlive.
LEMMA WindowLease ==
  ASSUME CallsFitLease, RetriesOutlastFaults, Known, [Next]_vars, ~Tick,
         NEW w, NEW j, Open(w, j), job'[j].status = "running"
  PROVE  job'[j].lease + call[w].age > CallLife
<1> DEFINE Goal == job'[j].lease + call[w].age > CallLife
<1>o. j \in Jobs /\ (job[j].status = "running" => job[j].lease + call[w].age > CallLife)
  BY OpenFacts
<1>1. job'[j] = job[j] => Goal
  BY <1>o
<1>2. IgnoreMessage(j) \/ ClaimThrows(j) => job'[j] = job[j]
  BY <1>o, Inboxes
<1>3. ASSUME NEW c \in Calls, ClaimJob(c, j) PROVE Goal
  BY <1>3, ClaimInWindow
<1>4. ASSUME NEW c \in Calls, DelayedBy(c, j) PROVE job'[j] = job[j]
  BY <1>4, <1>o, Releases
<1>5. ASSUME NEW c \in Calls, MarkedBy(c, j) PROVE Goal
  BY <1>5, <1>o, Markers
<1>6. ~Reserved(j) /\ ~Ended(j)
  BY DEF Reserved, Ended, Queued, NoJob
<1> QED BY <1>o, <1>1, <1>2, <1>3, <1>4, <1>5, <1>6, Events DEF Event, Rests, Posted, ReturnedBy

\* Part of WindowOK: a copy of the message that finds the job when it is due.
LEMMA WindowWaker ==
  ASSUME RetriesOutlastFaults, Known, [Next]_vars, ~Tick,
         NEW w, NEW j, Open(w, j), Awaits(j)',
         call[w].pc = "mark" \/ job'[j].wait > 0
  PROVE  \E m \in inbox'[j] : m.delay >= job'[j].wait
<1> DEFINE Goal == \E m \in inbox'[j] : m.delay >= job'[j].wait
<1>h. /\ job'[j].status = "queued" /\ j \in Jobs
      /\ j \notin turned /\ (IgnoreMessage(j) => ~Takeable(j))
  BY HistoryMoves DEF Awaits, Open
<1>o. /\ j \in Jobs /\ ~Unborn(j) /\ job[j].wait \in Nat /\ Owned(j)
      /\ call[w].age \in Nat /\ call[w].age <= CallLife /\ CallLife \in Nat
      /\ \A m \in inbox[j] : /\ Due(m.tries) <= call[w].age + m.delay + Due(Faults)
                             /\ m.delay \in Nat /\ m.tries \in Nat /\ Due(m.tries) \in Nat
      /\ job[j].status = "queued" /\ (call[w].pc = "mark" \/ job[j].wait > 0)
           => \E m \in inbox[j] : m.delay >= job[j].wait
  BY <1>h, OpenFacts DEF Wakers, Open, Awaits
<1>d. /\ \A delay, tries : Message(delay, tries).delay = delay /\ Message(delay, tries).tries = tries
      /\ RetryDelay \in Nat /\ Due(Faults) \in Nat
  BY FaultsGrow, DueFacts DEF Message
<1>k. ASSUME job'[j].status = job[j].status, job'[j].wait = job[j].wait,
             inbox[j] \subseteq inbox'[j]
      PROVE  Goal
  BY <1>h, <1>k, <1>o
<1>1. CASE Rests(j) \/ Posted(j)
  BY <1>1, <1>k DEF Rests, Posted
<1>2. CASE IgnoreMessage(j)
  <2>1. PICK m0 : UNCHANGED job /\ m0.delay = 0 /\ inbox'[j] = inbox[j] \ {m0}
    BY <1>2, <1>o, Inboxes
  <2>2. job[j].wait # 0
    BY <1>2, <1>h, <2>1 DEF Takeable
  <2>3. PICK m \in inbox[j] : m.delay >= job[j].wait
    BY <1>h, <1>o, <2>1, <2>2
  <2>4. m # m0
    BY <1>o, <2>1, <2>2, <2>3
  <2> QED BY <2>1, <2>3, <2>4
<1>3. CASE ClaimThrows(j)
  <2>1. PICK m0 \in inbox[j] : /\ UNCHANGED job /\ m0.delay = 0
                               /\ inbox'[j] = (inbox[j] \ {m0}) \cup Again(0, m0.tries)
    BY <1>3, <1>o, Inboxes
  <2>2. PICK m \in inbox[j] : m.delay >= job[j].wait
    BY <1>h, <1>o, <2>1
  <2>3. CASE m # m0
    BY <2>1, <2>2, <2>3
  <2>4. CASE m = m0
    <3>1. Due(m.tries) <= CallLife + Due(Faults)
      BY <1>d, <1>o, <2>1, <2>4
    <3>2. m.tries < MaxRetries
      BY <1>o, <3>1, RetriesLeft, Basics
    <3>3. Message(0, m.tries + 1) \in inbox'[j]
      BY <2>1, <2>4, <3>2 DEF Again
    <3>4. job'[j].wait = 0
      BY <1>o, <2>1, <2>2, <2>4
    <3> QED BY <1>d, <3>3, <3>4
  <2> QED BY <2>3, <2>4
<1>4. ASSUME NEW c \in Calls, ClaimJob(c, j) PROVE Goal
  BY <1>4, <1>h, <1>o, Claiming, Basics
<1>5. ASSUME NEW c \in Calls, ReturnedBy(c, j) PROVE Goal
  <2>1. job'[j] = job[j] /\ inbox[j] \subseteq inbox'[j]
    BY <1>5, <1>o, Inboxes DEF ReturnedBy
  <2> QED BY <1>k, <2>1
<1>6. ASSUME NEW c \in Calls, DelayedBy(c, j) PROVE Goal
  <2>1. /\ inbox'[j] = inbox[j] \cup Again(RetryDelay, call[c].tries) /\ Consumes(c, j)
        /\ job'[j] = job[j] \/ job'[j].wait = RetryDelay
    BY <1>6, <1>o, Releases
  <2>2. CASE job'[j] = job[j]
    BY <1>k, <2>1, <2>2
  <2>3. CASE job'[j].wait = RetryDelay
    <3>1. call[c].tries < MaxRetries
      BY <2>1, OpenFacts
    <3>2. Message(RetryDelay, call[c].tries + 1) \in inbox'[j]
      BY <2>1, <3>1 DEF Again
    <3> QED BY <1>d, <2>3, <3>2
  <2> QED BY <2>1, <2>2, <2>3
<1>7. ASSUME NEW c \in Calls, MarkedBy(c, j) PROVE Goal
  BY <1>7, <1>k, <1>o, Markers
<1>8. ~Reserved(j) /\ ~Ended(j)
  BY <1>h, <1>o DEF Reserved, Ended, Unborn
<1> QED BY <1>o, <1>1, <1>2, <1>3, <1>4, <1>5, <1>6, <1>7, <1>8, Events DEF Event

\* Part of WindowOK: the claims of the job.
LEMMA WindowClaims ==
  ASSUME CallsFitLease, RetriesOutlastFaults, Known, [Next]_vars, ~Tick,
         NEW w, NEW j, Open(w, j), NEW d \in Calls, Consumes(d, j)'
  PROVE  /\ Due(call'[d].tries) <= call[w].age + Due(Faults')
         /\ call'[d].pc \in Bound => HeldBy(call[d])'
<1>o. /\ j \in Jobs /\ ~Unborn(j) /\ call[w].age \in Nat
      /\ \A m \in inbox[j] : Due(m.tries) <= call[w].age + m.delay + Due(Faults)
      /\ \A c \in Calls : Consumes(c, j) =>
              /\ Due(call[c].tries) <= call[w].age + Due(Faults)
              /\ Due(call[c].tries) \in Nat
              /\ call[c].pc \in Bound => HeldBy(call[c])
  BY OpenFacts
<1>f. /\ Due(Faults) \in Nat /\ Due(Faults') \in Nat /\ Due(Faults) <= Due(Faults')
  BY FaultsGrow
<1>j. call'[d].job = j
  BY DEF Consumes
<1>1. CASE TakesMessage(d, j)
  <2>1. /\ ClaimJob(d, j) /\ call'[d].attempt = job[j].attempts + 1
        /\ Message(0, call'[d].tries) \in inbox[j]
    BY <1>1 DEF TakesMessage
  <2>2. job'[j].status = "running" /\ job'[j].attempts = job[j].attempts + 1
    BY <2>1, ClaimInWindow
  <2>3. Due(call'[d].tries) \in Nat /\ Due(call'[d].tries) <= call[w].age + 0 + Due(Faults)
    <3>1. /\ Message(0, call'[d].tries).tries = call'[d].tries
          /\ Message(0, call'[d].tries).delay = 0
      BY DEF Message
    <3>2. Due(Message(0, call'[d].tries).tries) \in Nat
      BY <1>o, <2>1, Basics
    <3> QED BY <1>o, <2>1, <3>1, <3>2
  <2> QED BY <1>f, <1>j, <1>o, <2>1, <2>2, <2>3 DEF HeldBy
<1>2. CASE /\ Consumes(d, j) /\ call'[d].tries = call[d].tries
           /\ call'[d].attempt = call[d].attempt
           /\ call'[d].pc \in Bound => call[d].pc \in Bound
  <2>1. Due(call'[d].tries) <= call[w].age + Due(Faults')
    BY <1>2, <1>f, <1>o
  <2>2. ASSUME call'[d].pc \in Bound PROVE HeldBy(call[d])'
    <3>1. /\ HeldBy(call[d]) /\ call[d].pc \in ConsumerSteps /\ call[d].pc \in Bound
          /\ call[d].job = j /\ call[d].attempt = call'[d].attempt
      BY <1>2, <1>o, <2>2 DEF Consumes
    <3>2. job[j].status = "running" /\ job[j].attempts = call[d].attempt
      BY <3>1 DEF HeldBy
    <3>3. job'[j].status = job[j].status /\ job'[j].attempts = job[j].attempts
      <4> DEFINE Unmoved == job'[j].status = job[j].status /\ job'[j].attempts = job[j].attempts
      <4>1. \A c \in Calls : Consumes(c, j) /\ HeldBy(call[c]) => c = d
        BY <3>1, Basics DEF TokensDiffer, Consumes, HeldBy
      <4>2. IgnoreMessage(j) \/ ClaimThrows(j) => Unmoved
        BY <1>o, Inboxes
      <4>3. ASSUME NEW c \in Calls, ClaimJob(c, j) PROVE FALSE
        BY <3>1, <4>3, ClaimInWindow DEF Consumes
      <4>4. ASSUME NEW c \in Calls, DelayedBy(c, j) PROVE Unmoved
        <5>1. c # d
          <6>1. Ends(c)
            BY <1>o, <4>4, Releases
          <6>2. call'[c].pc = "idle"
            BY <6>1 DEF Ends, MovesTo, Idle
          <6>3. call'[d].pc # "idle"
            BY BoundSteps DEF Consumes
          <6> QED BY <6>2, <6>3
        <5> QED BY <1>o, <4>1, <4>4, <5>1, Releases
      <4>5. ASSUME NEW c \in Calls, MarkedBy(c, j) PROVE Unmoved
        BY <1>o, <4>5, Markers
      <4>6. ~Reserved(j)
        BY <1>o DEF Reserved, Unborn
      <4>7. ~Ended(j)
        BY <3>1, <4>1 DEF Ended, Open
      <4> QED BY <1>o, <4>2, <4>3, <4>4, <4>5, <4>6, <4>7, Events DEF Event, Rests, Posted, ReturnedBy
    <3> QED BY <1>j, <3>1, <3>2, <3>3 DEF HeldBy
  <2> QED BY <2>1, <2>2
<1> QED BY <1>1, <1>2, <1>o, Consumers

\* A route that has just reserved its job finds no message and no claim of it.
LEMMA WindowOpens ==
  ASSUME Known, [Next]_vars, ~Tick, NEW w \in Calls, NEW j \in Jobs, Opens(w, j)
  PROVE  WindowOK(call[w])'
<1>1. /\ call'[w].pc = "send" /\ call'[w].job = j /\ job'[j] = Queued /\ Unborn(j)
      /\ inbox'[j] = inbox[j]
  BY DEF Opens, Reserved, Unborn
<1>2. inbox'[j] = {}
  BY <1>1, Basics DEF MessagesOK
<1>3. ASSUME NEW d \in Calls, Consumes(d, j)' PROVE FALSE
  <2>1. ~TakesMessage(d, j)
    BY <1>1, Claiming, Basics DEF TakesMessage, Unborn
  <2>2. Consumes(d, j)
    BY <1>3, <2>1, Consumers
  <2> QED BY <1>1, <2>2, Basics, BoundSteps DEF Consumes, CarrierOK
<1>4. Queued.status = "queued" /\ Queued.wait = 0
  BY DEF Queued, NoJob
<1> QED BY <1>1, <1>2, <1>3, <1>4 DEF WindowOK, Consumes

\* A route that has sent its message has it to be marked.
LEMMA WindowSends ==
  ASSUME Known, [Next]_vars, ~Tick, NEW w \in Calls, Sends(w)
  PROVE  WindowOK(call[w])'
<1>j. PICK j \in Jobs : j = call[w].job
  BY Basics
<1>1. /\ call[w].pc = "send" /\ call'[w].pc = "mark" /\ call'[w].job = j
      /\ call'[w].age = call[w].age /\ UNCHANGED <<job, user, faultVars>>
      /\ Post(j, Message(0, 0)) /\ j \in Jobs
  BY <1>j DEF Sends
<1>2. inbox'[j] = inbox[j] \cup {Message(0, 0)}
  <2>1. inbox \in [Jobs -> SUBSET MessageType]
    BY Basics, Typing
  <2> QED BY <1>1, <2>1 DEF Post
<1>3. Message(0, 0).delay = 0 /\ Message(0, 0).tries = 0
  BY DEF Message
<1>f. Faults' = Faults /\ Due(Faults) \in Nat /\ Due(0) = 0
  BY <1>1, FaultsGrow, DueFacts
<1>w. SUFFICES ASSUME Owned(j)
               PROVE  /\ \A m \in inbox'[j] : Due(m.tries) <= call[w].age + m.delay + Due(Faults)
                      /\ job[j].status = "running" => job[j].lease + call[w].age > CallLife
                      /\ Awaits(j)' => \E m \in inbox'[j] : m.delay >= job[j].wait
                      /\ \A d \in Calls : Consumes(d, j)' =>
                           /\ Due(call'[d].tries) <= call[w].age + Due(Faults)
                           /\ call'[d].pc \in Bound => HeldBy(call[d])'
  <2>1. Owned(j)' <=> Owned(j)
    BY <1>1 DEF Owned
  <2> QED BY <1>1, <1>f, <2>1 DEF WindowOK, Wakers, Consumes
<1>k. /\ \A m \in inbox[j] : Due(m.tries) <= call[w].age + m.delay + Due(Faults)
      /\ job[j].status = "running" => job[j].lease + call[w].age > CallLife
      /\ Awaits(j) /\ job[j].wait > 0 => \E m \in inbox[j] : m.delay >= job[j].wait
      /\ \A d \in Calls : Consumes(d, j) =>
           /\ Due(call[d].tries) <= call[w].age + Due(Faults)
           /\ call[d].pc \in Bound => HeldBy(call[d])
  <2>1. call[w].pc \in RouteSteps /\ WindowOK(call[w])
    BY <1>1, Basics DEF RouteSteps
  <2> QED BY <1>j, <1>w, <2>1 DEF WindowOK, Wakers, Consumes
<1>n. call[w].age \in Nat /\ job[j].wait \in Nat
  BY <1>1, Basics
<1>4. \A m \in inbox'[j] : Due(m.tries) <= call[w].age + m.delay + Due(Faults)
  BY <1>2, <1>3, <1>f, <1>k, <1>n
<1>5. ASSUME Awaits(j)' PROVE \E m \in inbox'[j] : m.delay >= job[j].wait
  <2>1. Awaits(j)
    BY <1>1, <1>5, <1>w, HistoryMoves DEF Awaits
  <2> QED BY <1>2, <1>3, <1>k, <1>n, <2>1
<1>6. ASSUME NEW d \in Calls, Consumes(d, j)'
      PROVE  /\ Due(call'[d].tries) <= call[w].age + Due(Faults)
             /\ call'[d].pc \in Bound => HeldBy(call[d])'
  <2>1. ~TakesMessage(d, j)
    <3>1. job[j].attempts \in Nat
      BY <1>1, Basics
    <3> QED BY <1>1, <3>1, Claiming, Basics DEF TakesMessage
  <2>2. /\ Consumes(d, j) /\ call'[d].tries = call[d].tries
        /\ call'[d].attempt = call[d].attempt
        /\ call'[d].pc \in Bound => call[d].pc \in Bound
    BY <1>1, <1>6, <2>1, Consumers
  <2>3. call'[d].job = j /\ call[d].job = j
    BY <1>6, <2>2 DEF Consumes
  <2> QED BY <1>1, <1>k, <2>2, <2>3 DEF HeldBy
<1> QED BY <1>4, <1>5, <1>6, <1>k

\* Every route finds after a step what it needs for its marker.
LEMMA WindowStep ==
  ASSUME CallsFitLease, RetriesOutlastFaults, Known, [Next]_vars, ~Tick, NEW w \in Calls
  PROVE  WindowOK(call[w])'
<1>1. CASE call'[w] = call[w]
  <2>j. PICK j \in Jobs : j = call[w].job
    BY Basics
  <2>1. SUFFICES ASSUME call[w].pc \in RouteSteps, Owned(j)'
                 PROVE  WindowOK(call[w])'
    BY <1>1, <2>j DEF WindowOK, Owned
  <2>2. ~Unborn(j)
    BY <2>1, <2>j, Basics DEF CarrierOK, Carriers, RouteSteps
  <2>3. Owned(j)
    BY <2>1, <2>2, AdmissionMoves
  <2>4. Open(w, j)
    BY <1>1, <2>1, <2>3, <2>j DEF Open
  <2>5. \A m \in inbox'[j] : Due(m.tries) <= call[w].age + m.delay + Due(Faults')
    BY <2>4, WindowMessages
  <2>6. job'[j].status = "running" => job'[j].lease + call[w].age > CallLife
    BY <2>4, WindowLease
  <2>7. Awaits(j)' /\ (call[w].pc = "mark" \/ job'[j].wait > 0)
          => \E m \in inbox'[j] : m.delay >= job'[j].wait
    BY <2>4, WindowWaker
  <2>8. \A d \in Calls : Consumes(d, j)' =>
          /\ Due(call'[d].tries) <= call[w].age + Due(Faults')
          /\ call'[d].pc \in Bound => HeldBy(call[d])'
    BY <2>4, WindowClaims
  <2> QED BY <1>1, <2>5, <2>6, <2>7, <2>8, <2>j DEF WindowOK, Wakers, Consumes
<1>2. CASE call'[w].pc \notin RouteSteps
  BY <1>2 DEF WindowOK
<1>3. CASE \E j \in Jobs : Opens(w, j)
  BY <1>3, WindowOpens
<1>4. CASE Sends(w)
  BY <1>4, WindowSends
<1>5. CarrierMove(w)
  BY CarrierMoves
<1>6. GoesOn(w) \/ Resends(w) \/ (\E j \in Jobs : TakesMessage(w, j) \/ LooksAt(w, j))
        => call'[w].pc \notin RouteSteps
  BY BoundSteps DEF GoesOn, Resends, TakesMessage, LooksAt, RouteSteps
<1>7. call'[w].pc \notin Carriers => call'[w].pc \notin RouteSteps
  BY DEF Carriers, RouteSteps
<1> QED BY <1>1, <1>2, <1>3, <1>4, <1>5, <1>6, <1>7 DEF CarrierMove
-----------------------------------------------------------------------------
(* The outbox lane.                                                        *)

\* A row that was read is not ahead of the job.
LEMMA RecoveryAttempts ==
  ASSUME Known, [Next]_vars, NEW j \in Jobs, ~Unborn(j), NEW n \in Nat,
         n <= job[j].attempts \/ Gone(j)
  PROVE  n <= job'[j].attempts \/ Gone(j)'
<1>1. JobMove(j) /\ job[j].attempts \in Nat
  BY Basics, JobMoves
<1>2. Gone(j) => Gone(j)'
  BY AdmissionMoves
<1>3. ~(j = Deletion /\ user = "active")
  BY Basics DEF CommandOK, Unborn
<1> QED BY <1>1, <1>2, <1>3 DEF JobMove, JobKept, Gone, Unborn

\* Who has read a row knows it after a step of others.
LEMMA RecoveryWaits ==
  ASSUME RetriesOutlastFaults, Known, [Next]_vars, ~Tick, NEW c \in Calls,
         call'[c] = call[c], call[c].pc \in {"recoverSend", "recoverMark"}
  PROVE  RecoveryOK(call[c])'
<1>j. PICK j \in Jobs, row \in JobType : j = call[c].job /\ row = call[c].row
  <2>1. call[c] \in CallType /\ call[c].job \in Jobs
    BY Basics
  <2> QED BY <2>1 DEF CallType
<1>o. ~Unborn(j) /\ RecoveryOK(call[c]) /\ job[j].attempts \in Nat
  BY <1>j, Basics DEF CarrierOK, Carriers
<1>n. row.attempts \in Nat
  BY DEF JobType
<1>1. row.attempts <= job[j].attempts \/ Gone(j)
  BY <1>j, <1>o DEF RecoveryOK
<1>2. row.attempts <= job'[j].attempts \/ Gone(j)'
  BY <1>1, <1>n, <1>o, RecoveryAttempts
<1>3. ASSUME row.status = "queued", row.attempts = job'[j].attempts, Owned(j)'
      PROVE  /\ job'[j].status # "running"
             /\ job'[j].status = "queued" => job'[j].wait = 0
             /\ Awaits(j)' /\ call[c].pc = "recoverMark"
                  => \E m \in inbox'[j] : m.tries <= Faults'
  <2> DEFINE Goal == /\ job'[j].status # "running"
                     /\ job'[j].status = "queued" => job'[j].wait = 0
                     /\ Awaits(j)' /\ call[c].pc = "recoverMark"
                          => \E m \in inbox'[j] : m.tries <= Faults'
  <2>o. Owned(j)
    BY <1>3, <1>o, AdmissionMoves
  <2>b. ASSUME job'[j].attempts = job[j].attempts
        PROVE  /\ job[j].status # "running"
               /\ job[j].status = "queued" => job[j].wait = 0
               /\ Awaits(j) /\ call[c].pc = "recoverMark"
                    => \E m \in inbox[j] : m.tries <= Faults
    BY <1>3, <1>j, <1>o, <2>b, <2>o DEF RecoveryOK
  <2>h. Awaits(j)' => j \notin turned /\ (IgnoreMessage(j) => ~Takeable(j))
    BY HistoryMoves
  <2>a. Awaits(j)' /\ job'[j].status = job[j].status => Awaits(j)
    BY <2>h, <2>o DEF Awaits
  <2>f. /\ Faults \in Nat /\ Faults' \in Nat /\ Faults <= Faults' /\ Due(Faults) \in Nat
        /\ CallLife \in Nat
    BY FaultsGrow, DueFacts
  <2>m. \A m \in inbox[j] : m.tries \in Nat /\ m.delay \in Nat /\ Due(m.tries) \in Nat
    BY <1>o, Basics
  <2>k. ASSUME job'[j].status = job[j].status, job'[j].wait = job[j].wait,
               job'[j].attempts = job[j].attempts, inbox[j] \subseteq inbox'[j]
        PROVE  Goal
    <3>1. ASSUME NEW m \in inbox[j], m.tries <= Faults PROVE m.tries <= Faults' /\ m \in inbox'[j]
      BY <2>f, <2>k, <2>m, <3>1
    <3> QED BY <2>a, <2>b, <2>k, <3>1
  <2>1. CASE Rests(j) \/ Posted(j)
    BY <2>1, <2>k DEF Rests, Posted
  <2>2. CASE Ended(j)
    BY <2>2 DEF Ended, Awaits
  <2>3. CASE IgnoreMessage(j)
    <3>1. UNCHANGED job
      BY <2>3, <1>o, Inboxes
    <3>2. ~Awaits(j)'
      BY <2>3, <2>a, <2>b, <2>h, <3>1 DEF Takeable, Awaits
    <3> QED BY <2>b, <3>1, <3>2
  <2>4. CASE ClaimThrows(j)
    <3>1. PICK m0 \in inbox[j] : /\ UNCHANGED job /\ Faults' = Faults + 1 /\ m0.delay = 0
                                 /\ inbox'[j] = (inbox[j] \ {m0}) \cup Again(0, m0.tries)
      BY <2>4, <1>o, Inboxes
    <3>2. ASSUME NEW m \in inbox[j], m.tries <= Faults
          PROVE  \E l \in inbox'[j] : l.tries <= Faults'
      <4>1. CASE m # m0
        BY <2>f, <2>m, <3>1, <3>2, <4>1
      <4>2. CASE m = m0
        <5>1. Due(m.tries) <= Due(Faults)
          BY <2>f, <2>m, <3>2, DueFacts
        <5>2. m.tries < MaxRetries
          <6>1. Due(m.tries) <= CallLife + Due(Faults)
            BY <2>f, <2>m, <5>1
          <6> QED BY <2>m, <6>1, RetriesLeft, Basics
        <5>3. Message(0, m.tries + 1) \in inbox'[j]
          BY <3>1, <4>2, <5>2 DEF Again
        <5>4. Message(0, m.tries + 1).tries = m.tries + 1
          BY DEF Message
        <5> QED BY <2>f, <2>m, <3>1, <3>2, <5>3, <5>4
      <4> QED BY <4>1, <4>2
    <3> QED BY <2>a, <2>b, <3>1, <3>2
  <2>5. ASSUME NEW d \in Calls, ClaimJob(d, j) PROVE Goal
    <3>1. job'[j].attempts = job[j].attempts + 1 /\ job[j].status # "absent"
      BY <1>o, <2>5, Claiming, Basics
    <3> QED BY <1>1, <1>3, <1>n, <1>o, <3>1 DEF Gone
  <2>6. ASSUME NEW d \in Calls, ReturnedBy(d, j) PROVE Goal
    <3>1. job'[j] = job[j] /\ inbox[j] \subseteq inbox'[j]
      BY <2>6, <1>o, Inboxes DEF ReturnedBy
    <3> QED BY <2>k, <3>1
  <2>7. ASSUME NEW d \in Calls, DelayedBy(d, j) PROVE Goal
    <3>1. /\ inbox'[j] = inbox[j] \cup Again(RetryDelay, call[d].tries)
          /\ \/ job'[j] = job[j]
             \/ job[j].status = "running" /\ job'[j].attempts = job[j].attempts
      BY <2>7, <1>o, Releases
    <3>2. CASE job'[j] = job[j]
      BY <2>k, <3>1, <3>2
    <3>3. CASE job[j].status = "running"
      BY <2>b, <3>1, <3>3
    <3> QED BY <3>1, <3>2, <3>3
  <2>8. ASSUME NEW d \in Calls, MarkedBy(d, j) PROVE Goal
    BY <1>o, <2>8, <2>k, Markers
  <2>9. ~Reserved(j)
    BY <1>o DEF Reserved, Unborn
  <2> QED BY <1>o, <2>1, <2>2, <2>3, <2>4, <2>5, <2>6, <2>7, <2>8, <2>9, Events DEF Event
<1> QED BY <1>2, <1>3, <1>j DEF RecoveryOK

\* The outbox lane, after any step.
LEMMA RecoveryStep ==
  ASSUME RetriesOutlastFaults, Known, [Next]_vars, ~Tick, NEW c \in Calls
  PROVE  RecoveryOK(call[c])'
<1>1. CASE call'[c] = call[c]
  <2>1. CASE call[c].pc \in {"recoverSend", "recoverMark"}
    BY <1>1, <2>1, RecoveryWaits
  <2> QED BY <1>1, <2>1 DEF RecoveryOK
<1>2. CASE call'[c].pc \notin {"recoverSend", "recoverMark"}
  BY <1>2 DEF RecoveryOK
<1>3. ASSUME NEW j \in Jobs, LooksAt(c, j) PROVE RecoveryOK(call[c])'
  <2>1. /\ call'[c].pc = "recoverSend" /\ call'[c].job = j /\ call'[c].row = job[j]
        /\ job' = job /\ Recoverable(j) /\ job[j].attempts \in Nat
    BY <1>3, Basics DEF LooksAt
  <2>2. job[j].status = "queued" => job[j].wait = 0
    BY <2>1 DEF Recoverable
  <2> QED BY <2>1, <2>2 DEF RecoveryOK
<1>4. CASE Resends(c)
  <2>j. PICK j \in Jobs, row \in JobType : j = call[c].job /\ row = call[c].row
    <3>1. call[c] \in CallType /\ call[c].job \in Jobs
      BY Basics
    <3> QED BY <3>1 DEF CallType
  <2>1. /\ call[c].pc = "recoverSend" /\ call'[c].pc = "recoverMark" /\ call'[c].job = j
        /\ call'[c].row = row /\ UNCHANGED <<job, user>> /\ Post(j, Message(0, 0))
        /\ j \in Jobs /\ RecoveryOK(call[c])
    BY <1>4, <2>j, Basics DEF Resends
  <2>2. /\ row.attempts <= job[j].attempts \/ Gone(j)
        /\ row.status = "queued" /\ row.attempts = job[j].attempts /\ Owned(j) =>
             /\ job[j].status # "running"
             /\ job[j].status = "queued" => job[j].wait = 0
    BY <2>1, <2>j DEF RecoveryOK
  <2>3. Message(0, 0) \in inbox'[j] /\ Message(0, 0).tries <= Faults'
    <3>1. inbox \in [Jobs -> SUBSET MessageType]
      BY Basics, Typing
    <3>2. Message(0, 0).tries = 0 /\ Faults' \in Nat
      BY FaultsGrow DEF Message
    <3> QED BY <2>1, <3>1, <3>2 DEF Post
  <2> QED BY <2>1, <2>2, <2>3 DEF RecoveryOK, Gone, Owned
<1>5. CarrierMove(c)
  BY CarrierMoves
<1>6. /\ GoesOn(c) \/ Sends(c) \/ (\E j \in Jobs : TakesMessage(c, j) \/ Opens(c, j))
           => call'[c].pc \notin {"recoverSend", "recoverMark"}
      /\ call'[c].pc \notin Carriers => call'[c].pc \notin {"recoverSend", "recoverMark"}
  BY BoundSteps DEF GoesOn, Sends, TakesMessage, Opens, Carriers
<1> QED BY <1>1, <1>2, <1>3, <1>4, <1>5, <1>6 DEF CarrierMove
-----------------------------------------------------------------------------
(* The command of the deletion.                                            *)

\* What happens to the keys and to the deletion request while the account is
\* closed and not yet deleted.
LEMMA Workings ==
  ASSUME Known, [Next]_vars, user = "pending", user' = "pending"
  PROVE  /\ keys' = keys \/ \E c \in Calls : EraseKeys(c)
         /\ \/ del'.status \in {del.status, "running"}
            \/ /\ del'.status = "queued"
               /\ \E c \in Calls : ReleaseDeletion(c) /\ OwnsDeletion(c)
         /\ del'.checkpoint \in {del.checkpoint} \cup (Accepted .. KeysErased)
<1> DEFINE Erasing == keys' = keys \/ \E c \in Calls : EraseKeys(c)
           Working == \/ del'.status \in {del.status, "running"}
                      \/ /\ del'.status = "queued"
                         /\ \E c \in Calls : ReleaseDeletion(c) /\ OwnsDeletion(c)
           Checked == del'.checkpoint \in {del.checkpoint} \cup (Accepted .. KeysErased)
           Goal == Erasing /\ Working /\ Checked
<1>t. del \in DeletionType /\ \A c \in Calls : StepOK(call[c])
  BY Basics, Typing
<1>c. ASSUME NEW c \in Calls, NEW pc \in DeletionSteps, At(c, pc)
      PROVE  call[c].checkpoint \in CheckpointsAt(pc)
  BY <1>c, <1>t DEF At, StepOK
<1>n. Accepted = 0 /\ ExportsFenced = 1 /\ ObjectsDeleted = 2 /\ RowsDeleted = 3 /\ KeysErased = 4
  BY DEF Accepted, ExportsFenced, ObjectsDeleted, RowsDeleted, KeysErased
<1>u. ASSUME UNCHANGED <<keys, del>> PROVE Goal
  BY <1>u
<1>k. ASSUME UNCHANGED keys, del'.status = del.status, del'.checkpoint \in Accepted .. KeysErased
      PROVE  Goal
  BY <1>k
<1>f. ASSUME UNCHANGED keys, del'.status \in {del.status, "running"},
             del'.checkpoint = del.checkpoint
      PROVE  Goal
  BY <1>f
<1>1. CASE UNCHANGED stored
  BY <1>1, <1>u DEF stored, accountVars, deletionVars
<1>2. CASE Tick
  <2>1. del' = [del EXCEPT !.fence = Less(del.fence)] /\ UNCHANGED keys
    BY <1>2, <1>t DEF Tick, accountVars, DeletionType
  <2> QED BY <1>f, <1>t, <2>1 DEF DeletionType
<1>3. ASSUME NEW c \in Calls, MarkRunning(c) PROVE Goal
  <2>1. UNCHANGED keys /\ (del' = del \/ del' = [del EXCEPT !.status = "running"])
    BY <1>3 DEF MarkRunning, accountVars
  <2> QED BY <1>f, <1>t, <2>1 DEF DeletionType
<1>4. ASSUME NEW c \in Calls, FenceExports(c) PROVE Goal
  <2>1. /\ UNCHANGED keys
        /\ \/ del' = del
           \/ \E f : del' = [del EXCEPT !.checkpoint = ExportsFenced, !.manifest = call[c].keys,
                                        !.fence = f]
    BY <1>4 DEF FenceExports, accountVars
  <2>2. del' = del \/ (del'.status = del.status /\ del'.checkpoint = ExportsFenced)
    BY <1>t, <2>1 DEF DeletionType
  <2>3. ExportsFenced \in Accepted .. KeysErased
    BY <1>n
  <2> QED BY <1>k, <1>u, <2>1, <2>2, <2>3
<1>5. ASSUME NEW c \in Calls, Advance(c) PROVE Goal
  <2>1. /\ UNCHANGED keys /\ At(c, "advance")
        /\ del' = del \/ del' = [del EXCEPT !.checkpoint = call[c].checkpoint + 1]
    BY <1>5 DEF Advance, accountVars
  <2>2. call[c].checkpoint \in {1, 2}
    BY <1>c, <1>n, <2>1 DEF CheckpointsAt, DeletionSteps
  <2> QED BY <1>k, <1>n, <1>t, <1>u, <2>1, <2>2 DEF DeletionType
<1>6. ASSUME NEW c \in Calls, EraseKeys(c) PROVE Goal
  <2>1. del' = del \/ del' = [del EXCEPT !.checkpoint = KeysErased, !.dek = TRUE]
    BY <1>6 DEF EraseKeys
  <2>2. del'.status = del.status /\ del'.checkpoint \in {del.checkpoint, KeysErased}
    BY <1>t, <2>1 DEF DeletionType
  <2>3. KeysErased \in Accepted .. KeysErased
    BY <1>n
  <2> QED BY <1>6, <2>2, <2>3
<1>7. ASSUME NEW c \in Calls, FinalizeDeletion(c) PROVE Goal
  BY <1>7, <1>u DEF FinalizeDeletion
<1>8. ASSUME NEW c \in Calls, ReleaseDeletion(c) PROVE Goal
  <2>1. /\ UNCHANGED keys
        /\ del' = del \/ (OwnsDeletion(c) /\ del' = [del EXCEPT !.status = "queued"])
    BY <1>8 DEF ReleaseDeletion, accountVars
  <2> QED BY <1>8, <1>t, <1>u, <2>1 DEF DeletionType
<1>9. ASSUME NEW c \in Calls, ClearManifest(c) PROVE Goal
  <2>1. UNCHANGED keys /\ (del' = del \/ del' = [del EXCEPT !.manifest = {}])
    BY <1>9 DEF ClearManifest, accountVars
  <2> QED BY <1>f, <1>t, <2>1 DEF DeletionType
<1>10. ASSUME NEW c \in Calls, Write(c) PROVE Goal
  <2>1. CASE \/ JobWrite(c) \/ ObjectWrite(c) \/ AnswerWrite(c) \/ RequestWrite(c)
             \/ Reservation(c) \/ DeleteUserRows(c)
    BY <1>u, <2>1, Frames DEF accountVars, deletionVars
  <2>2. ~ReserveDeletion(c)
    BY DEF ReserveDeletion
  <2> HIDE DEF Goal
  <2> QED BY <1>3, <1>4, <1>5, <1>6, <1>7, <1>8, <1>9, <1>10, <2>1, <2>2 DEF Write
<1> QED BY <1>1, <1>2, <1>10, Writers

\* Closing the account is the reservation of its deletion.
LEMMA Closing ==
  ASSUME [Next]_vars, user = "active", user' = "pending"
  PROVE  keys' = keys /\ del'.status = "queued"
<1>1. ASSUME NEW c \in Calls, Write(c) PROVE ReserveDeletion(c)
  <2>1. ~FinalizeDeletion(c)
    BY DEF FinalizeDeletion
  <2> QED BY <1>1, <2>1, Frames DEF Write, accountVars
<1>2. ~Tick /\ ~UNCHANGED stored
  BY DEF Tick, stored, accountVars
<1>3. PICK c \in Calls : ReserveDeletion(c)
  BY <1>1, <1>2, Writers
<1> QED BY <1>3 DEF ReserveDeletion, NoDeletion

\* A consumer of the deletion is at a step where it needs its claim.
LEMMA DeletionBound ==
  ASSUME Known, NEW c \in Calls, Consumes(c, Deletion)
  PROVE  call[c].pc \in Bound
<1>1. call[c].pc \notin ExportSteps
  BY Basics, Beginnings DEF StepOK, ExportWork, Consumes
<1> QED BY <1>1 DEF Consumes, ConsumerSteps, Bound

\* A route of the deletion was at work before the step, with the command still
\* to be opened and the consumers at work under a running request.
LEMMA DeletionOpen ==
  ASSUME RetriesOutlastFaults, Known, [Next]_vars, ~Tick, user = "pending", user' = "pending",
         NEW w \in Calls, call'[w].pc \in RouteSteps, call'[w].job = Deletion
  PROVE  /\ keys \/ del.checkpoint = KeysErased
         /\ \A d \in Calls : Consumes(d, Deletion) =>
              /\ HeldBy(call[d])
              /\ call[d].pc # "start" => del.status = "running"
<1>1. CarrierMove(w)
  BY CarrierMoves
<1>2. call[w].pc \in RouteSteps /\ call[w].job = Deletion
  <2>1. ~Opens(w, Deletion)
    BY DEF Opens, Reserved
  <2> QED BY <1>1, <2>1, BoundSteps
          DEF CarrierMove, Carriers, RouteSteps, GoesOn, Sends, Resends, TakesMessage, Opens, LooksAt
<1>3. WindowOK(call[w]) /\ CommandOK /\ Owned(Deletion)
  BY Basics DEF Owned
<1>4. \A d \in Calls : Consumes(d, Deletion) => HeldBy(call[d])
  BY <1>2, <1>3, DeletionBound DEF WindowOK, Consumes
<1> QED BY <1>2, <1>3, <1>4 DEF CommandOK, Consumes

\* While its route is at work, the keys and the checkpoint of the deletion
\* move together, and its consumer has marked the request.
LEMMA CommandOpen ==
  ASSUME RetriesOutlastFaults, Known, [Next]_vars, ~Tick, user = "pending", user' = "pending",
         NEW w \in Calls, call'[w].pc \in RouteSteps, call'[w].job = Deletion
  PROVE  /\ keys' \/ del'.checkpoint = KeysErased
         /\ \A d \in Calls : Consumes(d, Deletion)' /\ call'[d].pc # "start"
              => del'.status = "running"
<1>o. /\ keys \/ del.checkpoint = KeysErased
      /\ \A d \in Calls : Consumes(d, Deletion) =>
           /\ HeldBy(call[d])
           /\ call[d].pc # "start" => del.status = "running"
  BY DeletionOpen
<1>t. /\ del \in DeletionType /\ TokensDiffer /\ keys \in BOOLEAN /\ keys' \in BOOLEAN
      /\ \A c \in Calls : StepOK(call[c]) /\ OwnerOK(call[c]) /\ call[c].checkpoint \in Int
      /\ del.status \in {"queued", "running"}
  BY Basics, Typing, CallTyping, AccountMoves DEF CommandOK
<1>w. /\ keys' = keys \/ \E c \in Calls : EraseKeys(c)
      /\ \/ del'.status \in {del.status, "running"}
         \/ /\ del'.status = "queued"
            /\ \E c \in Calls : ReleaseDeletion(c) /\ OwnsDeletion(c)
      /\ del'.checkpoint \in {del.checkpoint} \cup (Accepted .. KeysErased)
  BY Workings
<1>1. keys' \/ del'.checkpoint = KeysErased
  <2>1. ASSUME NEW c \in Calls, EraseKeys(c) PROVE del'.checkpoint = KeysErased
    <3>1. call[c].pc = "erase" /\ call[c].job = Deletion
      BY <1>t, <2>1 DEF EraseKeys, At, StepOK, DeletionSteps
    <3>2. Consumes(c, Deletion) /\ call[c].pc # "start"
      BY <3>1 DEF Consumes, ConsumerSteps, DeletionSteps
    <3>3. OwnsDeletion(c)
      BY <1>o, <3>2 DEF OwnsDeletion, Holds, HeldBy
    <3> QED BY <1>t, <2>1, <3>3 DEF EraseKeys, DeletionType
  <2>2. CASE keys' = keys /\ ~keys
    <3>1. del.checkpoint = KeysErased /\ KeysErased = 4 /\ Completed = 5
      BY <1>o, <2>2 DEF KeysErased, Completed
    <3>2. ASSUME NEW c \in Calls PROVE ~AdvancedBy(c)
      <4>1. call[c].pc \in {"fence", "advance", "erase"} => call[c].checkpoint \in 0 .. 3
        BY <1>t DEF StepOK, CheckpointsAt, DeletionSteps, Accepted, ExportsFenced,
                    ObjectsDeleted, RowsDeleted
      <4>2. call[c].pc \in {"fence", "advance", "erase"} /\ HeldBy(call[c])
              => del.checkpoint <= call[c].checkpoint
        BY <1>t DEF OwnerOK, DeletionSteps
      <4> QED BY <1>t, <3>1, <4>1, <4>2 DEF AdvancedBy
    <3>3. DeletionMove
      BY Basics, DeletionMoves
    <3> QED BY <1>w, <3>1, <3>2, <3>3 DEF DeletionMove, Accepted
  <2> QED BY <1>t, <1>w, <2>1, <2>2
<1>2. ASSUME NEW d \in Calls, Consumes(d, Deletion)', call'[d].pc # "start"
      PROVE  del'.status = "running"
  <2>1. CarrierMove(d)
    BY CarrierMoves
  <2>2. \/ call'[d] = call[d]
        \/ call[d].pc \in ConsumerSteps /\ call'[d].job = call[d].job
           /\ (call[d].pc = "start" => MarkRunning(d))
    BY <1>2, <2>1, BoundSteps
       DEF CarrierMove, GoesOn, Sends, Resends, Opens, LooksAt, TakesMessage, Consumes
  <2>3. Consumes(d, Deletion)
    BY <1>2, <2>2 DEF Consumes
  <2>4. CASE call[d].pc = "start"
    <3>1. MarkRunning(d) /\ call[d].job = Deletion
      BY <1>2, <2>2, <2>3, <2>4 DEF Consumes
    <3>2. (del' = del /\ del.status # "queued") \/ del' = [del EXCEPT !.status = "running"]
      BY <3>1 DEF MarkRunning
    <3> QED BY <1>t, <3>2 DEF DeletionType
  <2>5. CASE call[d].pc # "start"
    <3>1. del.status = "running" /\ HeldBy(call[d])
      BY <1>o, <2>3, <2>5
    <3>2. ASSUME NEW c \in Calls, ReleaseDeletion(c), OwnsDeletion(c) PROVE FALSE
      <4>1. /\ call[c].pc = "releaseDeletion" /\ call[c].job = Deletion /\ HeldBy(call[c])
            /\ Ends(c)
        <5>1. call[c].pc = "releaseDeletion" /\ call[c].job = Deletion
          BY <1>t, <3>2 DEF ReleaseDeletion, At, StepOK, DeletionSteps
        <5>2. HeldBy(call[c])
          BY <3>2 DEF OwnsDeletion, Holds, HeldBy
        <5>3. Ends(c)
          BY <3>2, Moving, Basics, Typing DEF ReleaseDeletion, Ends
        <5> QED BY <5>1, <5>2, <5>3
      <4>2. c = d
        BY <1>t, <2>3, <3>1, <4>1
           DEF TokensDiffer, Consumes, HeldBy, ConsumerSteps, DeletionSteps
      <4>3. call'[c].pc = "idle"
        BY <4>1, Beginnings DEF Ends, MovesTo
      <4> QED BY <1>2, <4>2, <4>3, StepSets DEF Consumes
    <3> QED BY <1>w, <3>1, <3>2
  <2> QED BY <2>4, <2>5
<1> QED BY <1>1, <1>2

\* The command, after any step.
LEMMA CommandStep ==
  ASSUME RetriesOutlastFaults, Known, [Next]_vars, ~Tick
  PROVE  CommandOK'
<1>t. /\ user \in {"active", "pending", "deleted"} /\ CommandOK /\ AccountOK
      /\ keys \in BOOLEAN
      /\ user' = "active" => user = "active"
      /\ user = "deleted" => user' = "deleted"
      /\ Deletion \in Jobs /\ Event(Deletion) /\ JobMove(Deletion) /\ job[Deletion] \in JobType
  BY Basics, Typing, AccountMoves, Beginnings, Events, JobMoves
<1>1. ASSUME user' = "active" PROVE job'[Deletion].status = "absent"
  <2>1. user = "active" /\ job[Deletion].status = "absent"
    BY <1>1, <1>t DEF CommandOK
  <2>2. job'[Deletion].status # "queued"
    <3>1. ~Reserved(Deletion) /\ ~(\E c \in Calls : ClaimJob(c, Deletion))
      BY <1>1, <2>1, <1>t, Claiming, Basics DEF Reserved
    <3>2. IgnoreMessage(Deletion) \/ ClaimThrows(Deletion) => job'[Deletion] = job[Deletion]
      BY <1>t, Inboxes
    <3>3. \A c \in Calls : DelayedBy(c, Deletion) => job'[Deletion] = job[Deletion]
      BY <1>t, <2>1, Releases
    <3>4. \A c \in Calls : MarkedBy(c, Deletion) => job'[Deletion].status = job[Deletion].status
      BY <1>t, Markers
    <3> QED BY <1>t, <2>1, <3>1, <3>2, <3>3, <3>4 DEF Event, Rests, Posted, Ended, ReturnedBy
  <2> QED BY <1>1, <1>t, <2>1, <2>2 DEF JobMove, JobKept
<1>2. ASSUME user' = "pending" PROVE del'.status \in {"queued", "running"}
  <2>1. CASE user = "pending"
    BY <1>2, <1>t, <2>1, Workings DEF CommandOK
  <2>2. CASE user = "active"
    BY <1>2, <2>2, Closing
  <2> QED BY <1>2, <1>t, <2>1, <2>2
<1>3. ASSUME user' = "pending", NEW w \in Calls, call'[w].pc \in RouteSteps, call'[w].job = Deletion
      PROVE  /\ keys' \/ del'.checkpoint = KeysErased
             /\ \A d \in Calls : Consumes(d, Deletion)' /\ call'[d].pc # "start"
                  => del'.status = "running"
  <2>1. CASE user = "pending"
    BY <1>3, <2>1, CommandOpen
  <2>2. CASE user = "active"
    <3>1. keys' = keys /\ keys
      BY <1>3, <1>t, <2>2, Closing DEF AccountOK
    <3>2. Unborn(Deletion)
      BY <1>t, <2>2 DEF CommandOK, Unborn
    <3>3. ASSUME NEW d \in Calls, Consumes(d, Deletion)' PROVE FALSE
      <4>1. ~TakesMessage(d, Deletion)
        BY <1>t, <3>2, Claiming, Basics DEF TakesMessage, Unborn
      <4>2. Consumes(d, Deletion)
        BY <1>t, <3>3, <4>1, Consumers
      <4> QED BY <3>2, <4>2, Basics, BoundSteps DEF Consumes, CarrierOK
    <3> QED BY <3>1, <3>3
  <2> QED BY <1>3, <1>t, <2>1, <2>2
<1> QED BY <1>1, <1>2, <1>3 DEF CommandOK, Consumes
-----------------------------------------------------------------------------
(* Time.                                                                   *)

\* An instant comes closer, by one at most, and instants keep their order.
LEMMA Closer ==
  /\ \A n \in Nat : Less(n) \in Nat /\ Less(n) <= n /\ n <= Less(n) + 1 /\ (n = 0 => Less(n) = 0)
  /\ \A m, n \in Nat : m <= n => Less(m) <= Less(n)
BY DEF Less

\* What the clock leaves alone, and what it brings closer.
LEMMA Clock ==
  ASSUME Known, Tick
  PROVE  /\ UNCHANGED <<user, keys>> /\ Faults' = Faults
         /\ del'.status = del.status /\ del'.checkpoint = del.checkpoint
         /\ \A j \in Jobs :
              /\ job'[j].status = job[j].status /\ job'[j].attempts = job[j].attempts
              /\ job'[j].sent = job[j].sent
              /\ job'[j].lease = Less(job[j].lease) /\ job'[j].wait = Less(job[j].wait)
              /\ \A n \in inbox'[j] : \E m \in inbox[j] : n.delay = Less(m.delay) /\ n.tries = m.tries
              /\ \A m \in inbox[j] : \E n \in inbox'[j] : n.delay = Less(m.delay) /\ n.tries = m.tries
         /\ \A c \in Calls :
              /\ call'[c].pc = call[c].pc /\ call'[c].job = call[c].job
              /\ call'[c].attempt = call[c].attempt /\ call'[c].tries = call[c].tries
              /\ call'[c].row = call[c].row
              /\ call[c].pc # "idle" => call'[c].age = call[c].age + 1
<1>t. TypeOK
  BY Basics
<1>1. /\ UNCHANGED <<user, keys>> /\ Faults' = Faults
  BY DEF Tick, accountVars, faultVars, Faults
<1>2. del'.status = del.status /\ del'.checkpoint = del.checkpoint
  <2>1. del \in DeletionType /\ del' = [del EXCEPT !.fence = Less(del.fence)]
    BY <1>t, Typing DEF Tick, DeletionType
  <2> QED BY <2>1 DEF DeletionType
<1>3. ASSUME NEW j \in Jobs
      PROVE  /\ job'[j].status = job[j].status /\ job'[j].attempts = job[j].attempts
             /\ job'[j].sent = job[j].sent
             /\ job'[j].lease = Less(job[j].lease) /\ job'[j].wait = Less(job[j].wait)
  <2>1. job[j] \in JobType
    BY Basics
  <2>2. job'[j] = [job[j] EXCEPT !.lease = Less(job[j].lease), !.wait = Less(job[j].wait)]
    BY <2>1 DEF Tick, JobType
  <2> QED BY <2>1, <2>2 DEF JobType
<1>4. ASSUME NEW j \in Jobs
      PROVE  /\ \A n \in inbox'[j] : \E m \in inbox[j] : n.delay = Less(m.delay) /\ n.tries = m.tries
             /\ \A m \in inbox[j] : \E n \in inbox'[j] : n.delay = Less(m.delay) /\ n.tries = m.tries
  <2>1. inbox[j] \in SUBSET MessageType
    BY Basics
  <2>2. inbox'[j] = {[m EXCEPT !.delay = Less(m.delay)] : m \in inbox[j]}
    BY DEF Tick
  <2>3. ASSUME NEW m \in inbox[j]
        PROVE  /\ [m EXCEPT !.delay = Less(m.delay)].delay = Less(m.delay)
               /\ [m EXCEPT !.delay = Less(m.delay)].tries = m.tries
    BY <2>1 DEF MessageType
  <2> QED BY <2>2, <2>3
<1>5. ASSUME NEW c \in Calls
      PROVE  /\ call'[c].pc = call[c].pc /\ call'[c].job = call[c].job
             /\ call'[c].attempt = call[c].attempt /\ call'[c].tries = call[c].tries
             /\ call'[c].row = call[c].row
             /\ call[c].pc # "idle" => call'[c].age = call[c].age + 1
  <2>1. call[c] \in CallType
    BY Basics
  <2>2. call'[c] = IF call[c].pc = "idle" THEN call[c] ELSE [call[c] EXCEPT !.age = call[c].age + 1]
    BY DEF Tick, At
  <2> QED BY <2>1, <2>2 DEF CallType
<1> QED BY <1>1, <1>2, <1>3, <1>4, <1>5

\* Time passes for the messages of a job and for the job alike.
LEMMA MessageTick ==
  ASSUME Known, Tick, NEW j \in Jobs
  PROVE  MessagesOK(j)'
<1>c. /\ UNCHANGED user /\ Faults' = Faults
      /\ job'[j].status = job[j].status /\ job'[j].sent = job[j].sent
      /\ job'[j].wait = Less(job[j].wait)
      /\ \A n \in inbox'[j] : \E m \in inbox[j] : n.delay = Less(m.delay) /\ n.tries = m.tries
      /\ \A m \in inbox[j] : \E n \in inbox'[j] : n.delay = Less(m.delay) /\ n.tries = m.tries
  BY Clock
<1>h. UNCHANGED turned
  BY DEF Tick, accountVars, fenceVars
<1>b. /\ MessagesOK(j) /\ job[j].wait \in Nat /\ RetryDelay \in Nat
      /\ \A m \in inbox[j] : m.delay \in Nat
  BY Basics, DueFacts
<1>1. \A n \in inbox'[j] : n.delay <= RetryDelay
  <2> TAKE n \in inbox'[j]
  <2>1. PICK m \in inbox[j] : n.delay = Less(m.delay)
    BY <1>c
  <2>2. m.delay <= RetryDelay
    BY <1>b DEF MessagesOK
  <2>3. m.delay \in Nat /\ Less(m.delay) \in Nat /\ Less(m.delay) <= m.delay
    BY <1>b, Closer
  <2> QED BY <1>b, <2>1, <2>2, <2>3
<1>2. Unborn(j)' => inbox'[j] = {}
  BY <1>b, <1>c DEF MessagesOK, Unborn
<1>3. ASSUME Awaits(j)', job'[j].sent
      PROVE  \E n \in inbox'[j] : /\ n.delay >= job'[j].wait
                                  /\ Due(n.tries) <= CallLife + RetryDelay + Due(Faults')
  <2>1. PICK m \in Wakers(j) : Due(m.tries) <= CallLife + RetryDelay + Due(Faults)
    BY <1>3, <1>b, <1>c, <1>h DEF MessagesOK, Owned, Awaits
  <2>2. m \in inbox[j] /\ m.delay >= job[j].wait
    BY <2>1 DEF Wakers
  <2>3. PICK n \in inbox'[j] : n.delay = Less(m.delay) /\ n.tries = m.tries
    BY <1>c, <2>2
  <2>4. Less(job[j].wait) <= Less(m.delay) /\ Less(job[j].wait) \in Nat /\ Less(m.delay) \in Nat
    BY <1>b, <2>2, Closer
  <2> QED BY <1>c, <2>1, <2>3, <2>4
<1> QED BY <1>1, <1>2, <1>3 DEF MessagesOK, Wakers

\* A route grows older as the delays of its messages and the lease pass.
LEMMA WindowTick ==
  ASSUME Known, Tick, NEW w \in Calls
  PROVE  WindowOK(call[w])'
<1>j. PICK j \in Jobs : j = call[w].job
  BY Basics
<1>c. /\ UNCHANGED user /\ Faults' = Faults
      /\ call'[w].pc = call[w].pc /\ call'[w].job = j
      /\ job'[j].status = job[j].status /\ job'[j].attempts = job[j].attempts
      /\ job'[j].wait = Less(job[j].wait) /\ job'[j].lease = Less(job[j].lease)
      /\ \A n \in inbox'[j] : \E m \in inbox[j] : n.delay = Less(m.delay) /\ n.tries = m.tries
      /\ \A m \in inbox[j] : \E n \in inbox'[j] : n.delay = Less(m.delay) /\ n.tries = m.tries
  BY <1>j, Clock
<1>h. Awaits(j)' <=> Awaits(j)
  BY <1>c DEF Awaits, Owned, Tick, accountVars, fenceVars
<1>1. SUFFICES ASSUME call[w].pc \in RouteSteps, Owned(j) PROVE WindowOK(call[w])'
  BY <1>c DEF WindowOK, Owned
<1>2. call'[w].age = call[w].age + 1
  BY <1>1, Clock DEF RouteSteps
<1>b. /\ call[w].age \in Nat /\ CallLife \in Nat /\ job[j].wait \in Nat /\ job[j].lease \in Nat
      /\ \A m \in inbox[j] : m.delay \in Nat /\ Due(m.tries) \in Nat
      /\ \A d \in Calls : Due(call[d].tries) \in Nat
      /\ Due(Faults) \in Nat
  <2>1. Faults \in Nat
    BY Basics, Typing DEF Faults
  <2> QED BY <2>1, Basics, DueFacts
<1>k. /\ \A m \in inbox[j] : Due(m.tries) <= call[w].age + m.delay + Due(Faults)
      /\ job[j].status = "running" => job[j].lease + call[w].age > CallLife
      /\ Awaits(j) /\ (call[w].pc = "mark" \/ job[j].wait > 0)
           => \E m \in inbox[j] : m.delay >= job[j].wait
      /\ \A d \in Calls : Consumes(d, j) =>
           /\ Due(call[d].tries) <= call[w].age + Due(Faults)
           /\ call[d].pc \in Bound => HeldBy(call[d])
  <2>1. WindowOK(call[w])
    BY Basics
  <2> QED BY <1>1, <1>j, <2>1 DEF WindowOK, Wakers, Consumes
<1>3. \A n \in inbox'[j] : Due(n.tries) <= call'[w].age + n.delay + Due(Faults')
  <2> TAKE n \in inbox'[j]
  <2>1. PICK m \in inbox[j] : n.delay = Less(m.delay) /\ n.tries = m.tries
    BY <1>c
  <2>2. /\ Due(m.tries) <= call[w].age + m.delay + Due(Faults)
        /\ m.delay \in Nat /\ Due(m.tries) \in Nat
        /\ Less(m.delay) \in Nat /\ m.delay <= Less(m.delay) + 1
    BY <1>b, <1>k, Closer
  <2>3. Due(m.tries) <= call[w].age + 1 + Less(m.delay) + Due(Faults)
    BY <1>b, <2>2
  <2> QED BY <1>2, <1>c, <2>1, <2>3
<1>4. job'[j].status = "running" => job'[j].lease + call'[w].age > CallLife
  <2>1. Less(job[j].lease) \in Nat /\ job[j].lease <= Less(job[j].lease) + 1
    BY <1>b, Closer
  <2> QED BY <1>2, <1>b, <1>c, <1>k, <2>1
<1>5. ASSUME Awaits(j)', call'[w].pc = "mark" \/ job'[j].wait > 0
      PROVE  \E n \in inbox'[j] : n.delay >= job'[j].wait
  <2>1. Less(job[j].wait) \in Nat /\ Less(job[j].wait) <= job[j].wait
    BY <1>b, Closer
  <2>2. call[w].pc = "mark" \/ job[j].wait > 0
    BY <1>5, <1>b, <1>c, <2>1
  <2>3. PICK m \in inbox[j] : m.delay >= job[j].wait
    BY <1>5, <1>h, <1>k, <2>2
  <2>4. Less(job[j].wait) <= Less(m.delay)
    BY <1>b, <2>3, Closer
  <2>5. PICK n \in inbox'[j] : n.delay = Less(m.delay)
    BY <1>c
  <2>6. Less(m.delay) \in Nat
    BY <1>b, Closer
  <2> QED BY <1>c, <2>1, <2>4, <2>5, <2>6
<1>6. ASSUME NEW d \in Calls, Consumes(d, j)'
      PROVE  /\ Due(call'[d].tries) <= call'[w].age + Due(Faults')
             /\ call'[d].pc \in Bound => HeldBy(call[d])'
  <2>1. /\ call'[d].pc = call[d].pc /\ call'[d].job = call[d].job
        /\ call'[d].attempt = call[d].attempt /\ call'[d].tries = call[d].tries
    BY Clock
  <2>2. Consumes(d, j) /\ call[d].job = j
    BY <1>6, <2>1 DEF Consumes
  <2>3. /\ Due(call[d].tries) <= call[w].age + Due(Faults) /\ Due(call[d].tries) \in Nat
        /\ call[d].pc \in Bound => HeldBy(call[d])
    BY <1>b, <1>k, <2>2
  <2>4. Due(call[d].tries) <= call[w].age + 1 + Due(Faults)
    BY <1>b, <2>3
  <2> QED BY <1>2, <1>c, <2>1, <2>2, <2>3, <2>4 DEF HeldBy
<1> QED BY <1>3, <1>4, <1>5, <1>6, <1>c DEF WindowOK, Wakers, Consumes

\* The rest of the invariant does not see the time.
LEMMA WakerTick ==
  ASSUME Known, Tick
  PROVE  /\ CommandOK' /\ \A c \in Calls : CarrierOK(call[c])' /\ RecoveryOK(call[c])'
<1>c. /\ UNCHANGED <<user, keys>> /\ Faults' = Faults
      /\ del'.status = del.status /\ del'.checkpoint = del.checkpoint
      /\ \A c \in Calls : call'[c].pc = call[c].pc /\ call'[c].job = call[c].job
                          /\ call'[c].row = call[c].row
      /\ \A j \in Jobs : job'[j].status = job[j].status /\ job'[j].attempts = job[j].attempts
  BY Clock
<1>h. UNCHANGED turned
  BY DEF Tick, accountVars, fenceVars
<1>1. CommandOK'
  <2>1. CommandOK
    BY Basics
  <2> QED BY <1>c, <2>1, Beginnings DEF CommandOK
<1>2. ASSUME NEW c \in Calls PROVE CarrierOK(call[c])'
  <2>1. CarrierOK(call[c]) /\ call[c].job \in Jobs
    BY Basics
  <2> QED BY <1>c, <2>1 DEF CarrierOK, Unborn
<1>3. ASSUME NEW c \in Calls PROVE RecoveryOK(call[c])'
  <2>1. RecoveryOK(call[c])
    BY Basics
  <2>2. PICK j \in Jobs : j = call[c].job
    BY Basics
  <2>3. /\ job'[j].wait = Less(job[j].wait) /\ job[j].wait \in Nat /\ (job[j].wait = 0 => Less(job[j].wait) = 0)
        /\ \A m \in inbox[j] : \E n \in inbox'[j] : n.tries = m.tries
        /\ job'[j].status = job[j].status /\ job'[j].attempts = job[j].attempts
        /\ call'[c].pc = call[c].pc /\ call'[c].job = j /\ call'[c].row = call[c].row
    BY <1>c, <2>2, Clock, Closer, Basics
  <2> QED BY <1>c, <1>h, <2>1, <2>2, <2>3 DEF RecoveryOK, Gone, Owned, Awaits
<1> QED BY <1>1, <1>2, <1>3
-----------------------------------------------------------------------------
(* The theorem.                                                            *)

\* Nothing is reserved, sent or claimed at the beginning.
LEMMA WakerInit == Init => WakerOK
<1> SUFFICES ASSUME Init PROVE WakerOK
  OBVIOUS
<1>1. /\ user = "active" /\ deaths = 0 /\ throws = 0
      /\ \A j \in Jobs : job[j].status = "absent" /\ inbox[j] = {}
      /\ \A c \in Calls : call[c].pc = "idle"
  BY DEF Init, NoJob, Idle
<1>2. 0 <= MaxDeaths /\ 0 <= MaxThrows
  BY DueFacts
<1>3. CommandOK
  BY <1>1, Beginnings DEF CommandOK
<1>4. \A j \in Jobs : MessagesOK(j)
  BY <1>1 DEF MessagesOK, Awaits
<1>5. \A c \in Calls : CarrierOK(call[c]) /\ WindowOK(call[c]) /\ RecoveryOK(call[c])
  BY <1>1, StepSets DEF CarrierOK, WindowOK, RecoveryOK, Carriers, RouteSteps
<1> QED BY <1>1, <1>2, <1>3, <1>4, <1>5 DEF WakerOK

\* WakerOK is kept by every step, with the invariants of the two other proofs.
LEMMA WakerStep ==
  ASSUME CallsFitLease, RetriesOutlastFaults, Known, [Next]_vars
  PROVE  WakerOK'
<1>1. deaths' <= MaxDeaths /\ throws' <= MaxThrows
  BY FaultBounds
<1>2. CASE Tick
  BY <1>1, <1>2, MessageTick, WindowTick, WakerTick DEF WakerOK
<1>3. CASE ~Tick
  BY <1>1, <1>3, CommandStep, MessageStep, CarrierStep, WindowStep, RecoveryStep DEF WakerOK
<1> QED BY <1>2, <1>3

\* A queued job that may run has a copy of its message on the way, or is in
\* sight of the outbox lane, if no invocation outlives a claim and the retries
\* of a message outlast the faults; excepted are exports whose message came
\* while a rotation fenced the account (markPrivacyDispatched, releaseExportClaim,
\* releaseDeletionClaim, recoverPrivacyJobs).
THEOREM QueuedJobsWake ==
  ASSUME CallsFitLease, RetriesOutlastFaults
  PROVE  Spec => []QueuedJobHasWaker
<1>1. Init => LateOK /\ WakerOK
  BY LateInit, WakerInit
<1>2. Inv /\ (LateOK /\ WakerOK) /\ [Next]_vars => (LateOK /\ WakerOK)'
  BY LateStep, WakerStep DEF Known
<1>3. WakerOK => QueuedJobHasWaker
  <2> SUFFICES ASSUME WakerOK, NEW j \in Jobs, Awaits(j), job[j].sent
               PROVE  inbox[j] # {}
    BY DEF QueuedJobHasWaker, Awaits
  <2>1. MessagesOK(j)
    BY DEF WakerOK
  <2> QED BY <2>1 DEF MessagesOK, Wakers
<1> QED BY <1>1, <1>2, <1>3, Invariance, PTL DEF Spec
=============================================================================
