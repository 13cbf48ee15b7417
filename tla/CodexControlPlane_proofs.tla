----------------------- MODULE CodexControlPlane_proofs -----------------------
(***************************************************************************)
(* What the runs of CodexControlPlane show of one or two attempts, proved  *)
(* for any number of attempts, tokens and invocations, any bounds on the   *)
(* faults and any lengths of the leases.                                   *)
(*                                                                         *)
(* PlaneInv says of every call in progress that it works on a job, and     *)
(* under a token where its step needs one, with an instant that is not     *)
(* older than a handler may be.  From it every step is an operation of the *)
(* table, so that what is proved of JobsSpec holds of the plane.           *)
(*                                                                         *)
(* RequestInv says of every call what its step presupposes of the owner,   *)
(* so that an execution and a purge never work on the same coordinate.     *)
(***************************************************************************)
EXTENDS CodexControlPlane, CodexProviderJobs_proofs

USE TokenAssumption, TimeAssumption, ClaimAssumption, PlaneAssumption

TokenSteps == ClaimSteps \cup AnswerSteps
                 \cup {"cancel", "dropObject", "headObject", "dropUpload"}
JobSteps == Steps \ {"dispatch", "stamp"}

CallInv(k) == /\ k.pc # "idle" => k.at \in Sampled
              /\ k.pc \in JobSteps => k.job \in Jobs
              /\ k.pc \in TokenSteps => k.tok \in Tokens

CallsInv == /\ call \in [Claims -> CallType]
            /\ \A c \in Claims : CallInv(call[c])

\* An owner that runs or waits for a provider has made an attempt.
OwnerInv == /\ daily \in OwnerType
            /\ daily.status = "running" \/ daily.result = "publisher_pending"
                  => daily.attempts # 0

RestOK == /\ inbox \in BOOLEAN /\ admission \in Admissions /\ frozen \in BOOLEAN
          /\ denied \subseteq {"delivery", "check", "pause"}
          /\ answers \in [Tokens -> [verdict : {"none", "complete", "fail"},
                                     left : 0 .. MaxSends]]
          /\ used \in Nat
          /\ requests \subseteq Jobs /\ objects \subseteq Jobs \X Tokens
          /\ pauses \in 0 .. MaxPauses /\ deaths \in 0 .. MaxDeaths
          /\ throws \in 0 .. MaxThrows

PlaneInv == JobsInv /\ CallsInv /\ OwnerInv /\ RestOK

-----------------------------------------------------------------------------
(* How a step moves a call *)

\* A call that goes on keeps its job, its token and its instant.
LEMMA CallGoesOn ==
  ASSUME CallsInv, NEW c \in Claims, NEW next \in Steps, Goto(c, next),
         call[c].pc # "idle", UNCHANGED now,
         next \in JobSteps => call[c].pc \in JobSteps,
         next \in TokenSteps => call[c].pc \in TokenSteps
  PROVE  CallsInv'
<1> USE DEF CallsInv
<1>1. call[c] \in CallType
  OBVIOUS
<1>2. call' = [call EXCEPT ![c] = [call[c] EXCEPT !.pc = next]]
  BY DEF Goto
<1>3. [call[c] EXCEPT !.pc = next] \in CallType
  BY <1>1 DEF CallType
<1>4. call' \in [Claims -> CallType]
  BY <1>2, <1>3
<1>5. Sampled' = Sampled
  BY DEF Sampled
<1>6. ASSUME NEW d \in Claims PROVE CallInv(call[d])'
  <2>1. CASE d = c
    <3>1. /\ call'[c].pc = next /\ call'[c].at = call[c].at
          /\ call'[c].job = call[c].job /\ call'[c].tok = call[c].tok
      BY <1>1, <1>2 DEF CallType
    <3> QED BY <2>1, <3>1, <1>5 DEF CallInv
  <2>2. CASE d # c
    BY <2>2, <1>2, <1>5 DEF CallInv
  <2> QED BY <2>1, <2>2
<1> QED BY <1>4, <1>6

\* A call that ends holds nothing.
LEMMA CallEnds ==
  ASSUME CallsInv, JobsInv, NEW c \in Claims, End(c), UNCHANGED now
  PROVE  CallsInv'
<1> USE DEF CallsInv
<1>1. Idle \in CallType
  BY DEF Idle, CallType, Absent, RowType, Statuses
<1>2. Sampled' = Sampled
  BY DEF Sampled
<1>3. CallInv(Idle)
  BY DEF CallInv, Idle, JobSteps, TokenSteps, Steps, ClaimSteps, AnswerSteps,
         NudgeSteps, MaintenanceSteps, ExecutorSteps
<1>4. ASSUME NEW d \in Claims PROVE CallInv(call[d])'
  BY <1>2, <1>3 DEF End, CallInv
<1> QED BY <1>1, <1>4 DEF End

\* A call begins with a sampled instant, and with a job and a token of its own.
LEMMA CallBegins ==
  ASSUME CallsInv, JobsInv, NEW c \in Claims, NEW pc \in Steps,
         NEW j \in Jobs \cup {0}, NEW t \in Tokens \cup {NoToken}, NEW at \in Sampled,
         BeginAt(c, pc, j, t, at), UNCHANGED now,
         pc \in JobSteps => j \in Jobs, pc \in TokenSteps => t \in Tokens
  PROVE  CallsInv'
<1> USE DEF CallsInv
<1> DEFINE k == [Idle EXCEPT !.pc = pc, !.job = j, !.tok = t, !.at = at]
<1>0. at \in Nat
  BY SampledInstant DEF JobsInv
<1>1. k \in CallType
  BY <1>0 DEF Idle, CallType, Absent, RowType, Statuses
<1>2. Sampled' = Sampled
  BY DEF Sampled
<1>3. k.pc = pc /\ k.job = j /\ k.tok = t /\ k.at = at
  BY DEF Idle
<1>4. call' = [call EXCEPT ![c] = k]
  BY DEF BeginAt
<1> HIDE DEF k
<1>5. ASSUME NEW d \in Claims PROVE CallInv(call[d])'
  BY <1>2, <1>3, <1>4 DEF CallInv
<1> QED BY <1>1, <1>4, <1>5

\* The present instant is one a handler may sample.
LEMMA NowIsSampled ==
  ASSUME JobsInv PROVE now \in Sampled
BY DEF JobsInv, TypeOK, Sampled

\* Attempts are the jobs: the next attempt of a row that may be claimed is one.
LEMMA NextAttemptIsAJob ==
  ASSUME OwnerInv, NextAttempt <= MaxAttempts
  PROVE  NextAttempt \in Jobs
BY DEF OwnerInv, OwnerType, NextAttempt
-----------------------------------------------------------------------------
(* Every step keeps the calls in order *)

\* The steps of the claim route keep the calls in order.
LEMMA ClaimRouteCalls ==
  ASSUME PlaneInv, NEW c \in Claims, ClaimRoute(c), UNCHANGED now
  PROVE  CallsInv'
<1>i. JobsInv /\ CallsInv
  BY DEF PlaneInv
<1>s. now \in Sampled
  BY <1>i, NowIsSampled
<1> USE DEF At, Steps, ClaimSteps, AnswerSteps, NudgeSteps, MaintenanceSteps,
            ExecutorSteps, JobSteps, TokenSteps
<1>1. CASE ClaimCall(c)
  BY <1>1, <1>i, <1>s, CallBegins DEF ClaimCall, Begin
<1>2. CASE CheckOwner(c, "claimed", "fetch")
  BY <1>2, <1>i, CallGoesOn DEF CheckOwner
<1>3. CASE Fetch(c)
  BY <1>3, <1>i, CallGoesOn DEF Fetch
<1>4. CASE Release(c)
  BY <1>4, <1>i, CallEnds DEF Release
<1>5. CASE Charge(c)
  BY <1>5, <1>i, CallGoesOn DEF Charge
<1>6. CASE Refuse(c)
  BY <1>6, <1>i, CallGoesOn DEF Refuse
<1>7. CASE Reply(c)
  BY <1>7, <1>i, CallEnds DEF Reply
<1> QED BY <1>1, <1>2, <1>3, <1>4, <1>5, <1>6, <1>7 DEF ClaimRoute

\* The steps of complete, fail and their cancellation keep the calls in order.
LEMMA AnswerRoutesCalls ==
  ASSUME PlaneInv, NEW c \in Claims, AnswerRoutes(c), UNCHANGED now
  PROVE  CallsInv'
<1>i. JobsInv /\ CallsInv
  BY DEF PlaneInv
<1>s. now \in Sampled
  BY <1>i, NowIsSampled
<1>u. UNCHANGED <<call, now>> => CallsInv'
  BY <1>i DEF CallsInv, CallInv, Sampled
<1> USE DEF At, Steps, ClaimSteps, AnswerSteps, NudgeSteps, MaintenanceSteps,
            ExecutorSteps, JobSteps, TokenSteps
<1>1. ASSUME NEW j \in Jobs, NEW t \in Tokens, CompleteCall(c, j, t) PROVE CallsInv'
  BY <1>1, <1>i, <1>s, <1>u, CallBegins DEF CompleteCall, Begin
<1>2. CASE CheckOwner(c, "checkBeforeReserve", "reserve")
  BY <1>2, <1>i, CallGoesOn DEF CheckOwner
<1>3. CASE Reserve(c)
  BY <1>3, <1>i, CallGoesOn, CallEnds DEF Reserve
<1>4. CASE CheckOwner(c, "checkBeforePut", "put")
  BY <1>4, <1>i, CallGoesOn DEF CheckOwner
<1>5. CASE PutResponse(c)
  BY <1>5, <1>i, CallGoesOn, CallEnds DEF PutResponse
<1>6. CASE CheckBeforeCommit(c)
  <2> USE DEF CallsInv
  <2>1. PICK next \in {"commit", "cancel"} :
           call' = [call EXCEPT ![c].at = now, ![c].pc = next]
    BY <1>6 DEF CheckBeforeCommit
  <2>2. call[c] \in CallType /\ call[c].pc = "checkBeforeCommit"
    BY <1>6, <1>i DEF CheckBeforeCommit
  <2>3. now \in Nat /\ Sampled' = Sampled
    BY <1>i DEF JobsInv, TypeOK, Sampled
  <2>4. /\ call'[c].pc = next /\ call'[c].at = now
        /\ call'[c].job = call[c].job /\ call'[c].tok = call[c].tok
        /\ call' \in [Claims -> CallType]
    BY <1>i, <2>1, <2>2, <2>3 DEF CallType
  <2>5. CallInv(call[c])'
    BY <1>i, <1>s, <2>2, <2>3, <2>4 DEF CallInv
  <2>6. ASSUME NEW d \in Claims \ {c} PROVE CallInv(call[d])'
    BY <1>i, <2>1, <2>3 DEF CallInv
  <2> QED BY <2>4, <2>5, <2>6
<1>7. CASE Commit(c)
  BY <1>7, <1>i, CallGoesOn DEF Commit
<1>8. ASSUME NEW j \in Jobs, NEW t \in Tokens, FailCall(c, j, t) PROVE CallsInv'
  BY <1>8, <1>i, <1>s, <1>u, CallBegins DEF FailCall, Begin
<1>9. CASE CheckOwner(c, "checkBeforeFail", "fail")
  BY <1>9, <1>i, CallGoesOn DEF CheckOwner
<1>10. CASE Fail(c)
  BY <1>10, <1>i, CallGoesOn, CallEnds DEF Fail
<1>11. CASE Cancel(c)
  BY <1>11, <1>i, CallEnds DEF Cancel
<1> QED BY <1>1, <1>2, <1>3, <1>4, <1>5, <1>6, <1>7, <1>8, <1>9, <1>10, <1>11
        DEF AnswerRoutes

\* The nudge, the sweep and the first open keep the calls in order.
LEMMA WakeUpCalls ==
  ASSUME PlaneInv, NEW c \in Claims, WakeUp(c), UNCHANGED now
  PROVE  CallsInv'
<1>i. JobsInv /\ CallsInv
  BY DEF PlaneInv
<1>s. now \in Sampled
  BY <1>i, NowIsSampled
<1> USE DEF At, Steps, ClaimSteps, AnswerSteps, NudgeSteps, MaintenanceSteps,
            ExecutorSteps, JobSteps, TokenSteps
<1>1. CASE Nudge(c)
  BY <1>1, <1>i, CallGoesOn, CallEnds DEF Nudge
<1>2. CASE Wake(c)
  BY <1>2, <1>i, CallGoesOn, CallEnds DEF Wake
<1>3. CASE SendMessage(c, "send", "mark")
  BY <1>3, <1>i, CallGoesOn DEF SendMessage
<1>4. CASE Mark(c)
  BY <1>4, <1>i, CallEnds DEF Mark
<1>5. CASE Sweep(c)
  BY <1>5, <1>i, <1>s, CallBegins DEF Sweep, Begin
<1>6. CASE ResumeForFirstOpen(c)
  BY <1>6, <1>i, <1>s, CallBegins DEF ResumeForFirstOpen, Begin
<1>7. CASE SendMessage(c, "dispatch", "stamp")
  BY <1>7, <1>i, CallGoesOn DEF SendMessage
<1>8. CASE Stamp(c)
  BY <1>8, <1>i, CallEnds DEF Stamp
<1> QED BY <1>1, <1>2, <1>3, <1>4, <1>5, <1>6, <1>7, <1>8 DEF WakeUp

\* The Daily execution keeps the calls in order.
LEMMA ExecutionCalls ==
  ASSUME PlaneInv, NEW c \in Claims, Execution(c), UNCHANGED now
  PROVE  CallsInv'
<1>i. JobsInv /\ CallsInv /\ OwnerInv
  BY DEF PlaneInv
<1>s. now \in Sampled
  BY <1>i, NowIsSampled
<1>u. UNCHANGED <<call, now>> => CallsInv'
  BY <1>i DEF CallsInv, CallInv, Sampled
<1> USE DEF At, Steps, ClaimSteps, AnswerSteps, NudgeSteps, MaintenanceSteps,
            ExecutorSteps, JobSteps, TokenSteps
<1>1. CASE Deliver(c)
  BY <1>1, <1>i, <1>s, <1>u, NextAttemptIsAJob, CallBegins DEF Deliver, Begin
<1>2. CASE PutRequest(c)
  BY <1>2, <1>i, CallGoesOn, CallEnds DEF PutRequest
<1>3. CASE Enqueue(c)
  BY <1>3, <1>i, CallGoesOn DEF Enqueue
<1>4. CASE Consult(c)
  BY <1>4, <1>i, CallGoesOn DEF Consult
<1>5. CASE Adopt(c)
  BY <1>5, <1>i, CallGoesOn, CallEnds DEF Adopt
<1>6. CASE Retry(c)
  BY <1>6, <1>i, CallEnds DEF Retry
<1>7. CASE Park(c)
  BY <1>7, <1>i, CallGoesOn DEF Park
<1>8. CASE Recheck(c)
  <2>1. call[c].job \in Jobs
    BY <1>8, <1>i DEF Recheck, CallsInv, CallInv
  <2> QED BY <1>8, <1>i, <1>s, <2>1, CallBegins, CallEnds DEF Recheck, Begin
<1> QED BY <1>1, <1>2, <1>3, <1>4, <1>5, <1>6, <1>7, <1>8 DEF Execution

\* The maintenance pass keeps the calls in order.
LEMMA MaintenanceCalls ==
  ASSUME PlaneInv, NEW c \in Claims, Maintenance(c), UNCHANGED now
  PROVE  CallsInv'
<1>i. JobsInv /\ CallsInv
  BY DEF PlaneInv
<1>s. now \in Sampled
  BY <1>i, NowIsSampled
<1> USE DEF At, Steps, ClaimSteps, AnswerSteps, NudgeSteps, MaintenanceSteps,
            ExecutorSteps, JobSteps, TokenSteps
<1>1. ASSUME NEW u \in uploads, SelectUpload(c, u) PROVE CallsInv'
  <2>1. u[1] \in Jobs /\ u[2] \in Tokens
    BY <1>i DEF JobsInv, TypeOK
  <2> QED BY <1>1, <1>i, <2>1, CallBegins DEF SelectUpload
<1>2. CASE DropObject(c)
  BY <1>2, <1>i, CallGoesOn DEF DropObject
<1>3. CASE HeadObject(c)
  BY <1>3, <1>i, CallGoesOn, CallEnds DEF HeadObject
<1>4. CASE DropUpload(c)
  BY <1>4, <1>i, CallEnds DEF DropUpload
<1>5. ASSUME NEW j \in Jobs, SelectUnheld(c, j) PROVE CallsInv'
  BY <1>5, <1>i, CallBegins DEF SelectUnheld
<1>6. ASSUME NEW j \in Jobs, SelectOverdue(c, j) PROVE CallsInv'
  BY <1>6, <1>i, CallBegins DEF SelectOverdue
<1>7. ASSUME NEW j \in Jobs, SelectSettled(c, j) PROVE CallsInv'
  BY <1>7, <1>i, <1>s, CallBegins DEF SelectSettled, Begin
<1>8. CASE CheckStale(c)
  BY <1>8, <1>i, CallGoesOn, CallEnds DEF CheckStale
<1>9. CASE CancelStale(c)
  BY <1>9, <1>i, CallEnds DEF CancelStale
<1>10. CASE PurgeCheck(c)
  <2>1. CASE End(c)
    BY <2>1, <1>i, CallEnds
  <2>2. CASE call' = [call EXCEPT ![c].pc = "dropExchange",
                                  ![c].seen = row[call[c].job]]
    <3> USE DEF CallsInv
    <3>1. call[c] \in CallType /\ call[c].pc = "purgeCheck"
      BY <1>10, <1>i DEF PurgeCheck
    <3>2. Sampled' = Sampled
      BY DEF Sampled
    <3>3. row[call[c].job] \in RowType
      BY <1>i, <3>1 DEF JobsInv, TypeOK, CallInv
    <3>4. /\ call'[c].pc = "dropExchange" /\ call'[c].at = call[c].at
          /\ call'[c].job = call[c].job /\ call'[c].tok = call[c].tok
          /\ call' \in [Claims -> CallType]
      BY <1>i, <2>2, <3>1, <3>3 DEF CallType
    <3>5. CallInv(call[c])'
      BY <1>i, <3>1, <3>2, <3>4 DEF CallInv
    <3>6. ASSUME NEW d \in Claims \ {c} PROVE CallInv(call[d])'
      BY <1>i, <2>2, <3>2 DEF CallInv
    <3> QED BY <3>4, <3>5, <3>6
  <2> QED BY <1>10, <2>1, <2>2 DEF PurgeCheck
<1>11. CASE DropExchange(c)
  BY <1>11, <1>i, CallGoesOn DEF DropExchange
<1>12. CASE HeadExchange(c)
  BY <1>12, <1>i, CallGoesOn, CallEnds DEF HeadExchange
<1>13. CASE DropJob(c)
  BY <1>13, <1>i, CallEnds DEF DropJob
<1> QED BY <1>1, <1>2, <1>3, <1>4, <1>5, <1>6, <1>7, <1>8, <1>9, <1>10, <1>11,
           <1>12, <1>13 DEF Maintenance

\* The calls stay in order through invocations that end early and the clock.
LEMMA PlaneCalls ==
  ASSUME PlaneInv, [PlaneNext]_planeVars
  PROVE  CallsInv'
<1>i. JobsInv /\ CallsInv
  BY DEF PlaneInv
<1>u. UNCHANGED <<call, now>> => CallsInv'
  BY <1>i DEF CallsInv, CallInv, Sampled
<1>1. CASE PlaneTick
  <2>1. now \in Nat \ {0} /\ now' = now + 1 /\ call' = call
    BY <1>1, <1>i DEF PlaneTick, Tick, JobsInv, TypeOK
  <2>2. ASSUME NEW c \in Claims PROVE CallInv(call[c])'
    <3>1. call[c].pc = "idle" \/ now < call[c].at + MaxLag
      BY <1>1 DEF PlaneTick, Free, At
    <3>2. call[c].at \in Nat
      BY <1>i DEF CallsInv, CallType
    <3> QED BY <1>i, <2>1, <3>1, <3>2 DEF CallsInv, CallInv, Sampled
  <2> QED BY <1>i, <2>1, <2>2 DEF CallsInv
<1>2. ASSUME NEW c \in Claims, Invocation(c) PROVE CallsInv'
  BY <1>2, ClaimRouteCalls, AnswerRoutesCalls, WakeUpCalls, ExecutionCalls,
     MaintenanceCalls DEF Invocation
<1>3. ASSUME NEW c \in Claims, SendThrows(c) \/ Die(c) PROVE CallsInv'
  BY <1>3, <1>i, CallEnds DEF SendThrows, Die, Abort, jobVars
<1>4. CASE (PauseDelivery \/ ResumePaused) /\ UNCHANGED <<now, boundVars>>
  BY <1>4, <1>u DEF PauseDelivery, ResumePaused
<1>5. CASE (RolloutOff \/ RolloutOn \/ Depart \/ Freeze \/ Thaw) /\ UNCHANGED now
  BY <1>5, <1>u DEF RolloutOff, RolloutOn, Depart, Switch, Freeze, Thaw, Freezing
<1>6. CASE UNCHANGED planeVars
  BY <1>6, <1>u DEF planeVars, jobVars
<1> QED BY <1>1, <1>2, <1>3, <1>4, <1>5, <1>6 DEF PlaneNext
-----------------------------------------------------------------------------
(* Every step is an operation of the table *)

\* The table's operations as single steps of JobsNext.
LEMMA OperationStep ==
  ASSUME NEW j \in Jobs, NEW at \in Sampled, Operation(j, at), UNCHANGED now
  PROVE  JobsNext
BY DEF JobsNext

\* The claim route claims, releases or fails a job, or leaves the table alone.
LEMMA ClaimRouteOperates ==
  ASSUME PlaneInv, NEW c \in Claims, ClaimRoute(c), UNCHANGED now
  PROVE  [JobsNext]_jobVars
<1>i. JobsInv /\ CallsInv
  BY DEF PlaneInv
<1>s. now \in Sampled
  BY <1>i, NowIsSampled
<1>u. UNCHANGED tableVars => UNCHANGED jobVars
  BY DEF tableVars, jobVars
<1>1. CASE ClaimCall(c)
  BY <1>1, <1>s, OperationStep DEF ClaimCall, Operation
<1>2. CASE CheckOwner(c, "claimed", "fetch") \/ Fetch(c) \/ Charge(c) \/ Reply(c)
  BY <1>2, <1>u DEF CheckOwner, Fetch, Charge, Reply
<1>3. ASSUME Release(c) \/ Refuse(c) PROVE [JobsNext]_jobVars
  <2>1. call[c].job \in Jobs /\ call[c].tok \in Tokens /\ call[c].at \in Sampled
    BY <1>3, <1>i DEF Release, Refuse, At, CallsInv, CallInv, JobSteps, TokenSteps,
                      Steps, ClaimSteps
  <2> QED BY <1>3, <1>u, <2>1, OperationStep DEF Release, Refuse, Operation
<1> QED BY <1>1, <1>2, <1>3 DEF ClaimRoute

\* An answer reserves, completes, fails or cancels, or leaves the table alone.
LEMMA AnswerRoutesOperate ==
  ASSUME PlaneInv, NEW c \in Claims, AnswerRoutes(c), UNCHANGED now
  PROVE  [JobsNext]_jobVars
<1>i. JobsInv /\ CallsInv
  BY DEF PlaneInv
<1>u. UNCHANGED tableVars => UNCHANGED jobVars
  BY DEF tableVars, jobVars
<1>1. ASSUME \/ \E j \in Jobs, t \in Tokens : CompleteCall(c, j, t) \/ FailCall(c, j, t)
             \/ CheckOwner(c, "checkBeforeReserve", "reserve")
             \/ CheckOwner(c, "checkBeforePut", "put")
             \/ CheckOwner(c, "checkBeforeFail", "fail")
             \/ PutResponse(c)
             \/ CheckBeforeCommit(c)
      PROVE  UNCHANGED jobVars
  BY <1>1, <1>u DEF CompleteCall, FailCall, CheckOwner, PutResponse, CheckBeforeCommit
<1>2. ASSUME Reserve(c) \/ Commit(c) \/ Fail(c) \/ Cancel(c)
      PROVE  [JobsNext]_jobVars
  <2>1. call[c].job \in Jobs /\ call[c].tok \in Tokens /\ call[c].at \in Sampled
    BY <1>2, <1>i DEF Reserve, Commit, Fail, Cancel, At, CallsInv, CallInv, JobSteps,
                      TokenSteps, Steps, ClaimSteps, AnswerSteps
  <2> QED BY <1>2, <1>u, <2>1, OperationStep
          DEF Reserve, Commit, Fail, Cancel, Operation
<1> QED BY <1>1, <1>2 DEF AnswerRoutes

\* An execution enqueues, or leaves the table alone.
LEMMA ExecutionOperates ==
  ASSUME PlaneInv, NEW c \in Claims, Execution(c), UNCHANGED now
  PROVE  [JobsNext]_jobVars
<1>i. JobsInv /\ CallsInv
  BY DEF PlaneInv
<1>s. now \in Sampled
  BY <1>i, NowIsSampled
<1>u. UNCHANGED tableVars => UNCHANGED jobVars
  BY DEF tableVars, jobVars
<1>1. CASE Enqueue(c)
  <2>1. call[c].job \in Jobs
    BY <1>1, <1>i DEF Enqueue, At, CallsInv, CallInv, JobSteps, Steps, ExecutorSteps
  <2> QED BY <1>1, <1>s, <1>u, <2>1, OperationStep DEF Enqueue, Operation
<1>2. ASSUME Deliver(c) \/ PutRequest(c) \/ Consult(c) \/ Adopt(c) \/ Retry(c)
               \/ Park(c) \/ Recheck(c)
      PROVE  UNCHANGED jobVars
  BY <1>2, <1>u DEF Deliver, PutRequest, Consult, Adopt, Retry, Park, Recheck
<1> QED BY <1>1, <1>2 DEF Execution

\* Maintenance drops uploads, cancels and deletes, or leaves the table alone.
LEMMA MaintenanceOperates ==
  ASSUME PlaneInv, NEW c \in Claims, Maintenance(c), UNCHANGED now
  PROVE  [JobsNext]_jobVars
<1>i. JobsInv /\ CallsInv
  BY DEF PlaneInv
<1>u. UNCHANGED tableVars => UNCHANGED jobVars
  BY DEF tableVars, jobVars
<1>1. ASSUME \/ \E u \in uploads : SelectUpload(c, u)
             \/ \E j \in Jobs : SelectUnheld(c, j) \/ SelectOverdue(c, j)
                                  \/ SelectSettled(c, j)
             \/ DropObject(c) \/ HeadObject(c) \/ CheckStale(c)
             \/ PurgeCheck(c) \/ DropExchange(c) \/ HeadExchange(c)
      PROVE  UNCHANGED jobVars
  BY <1>1, <1>u DEF SelectUpload, SelectUnheld, SelectOverdue, SelectSettled,
     DropObject, HeadObject, CheckStale, PurgeCheck, DropExchange, HeadExchange
<1>2. CASE DropUpload(c)
  <2>1. call[c].job \in Jobs /\ call[c].tok \in Tokens /\ call[c].at \in Sampled
    BY <1>2, <1>i DEF DropUpload, At, CallsInv, CallInv, JobSteps, TokenSteps, Steps,
                      MaintenanceSteps
  <2> QED BY <1>2, <1>u, <2>1, OperationStep DEF DropUpload, Operation
<1>3. CASE CancelStale(c)
  <2>1. call[c].job \in Jobs /\ call[c].at \in Sampled
    BY <1>3, <1>i DEF CancelStale, At, CallsInv, CallInv, JobSteps, Steps,
                      MaintenanceSteps
  <2> QED BY <1>3, <1>u, <2>1, OperationStep DEF CancelStale, Operation
<1>4. CASE DropJob(c)
  <2>1. call[c].job \in Jobs /\ call[c].at \in Sampled
    BY <1>4, <1>i DEF DropJob, At, CallsInv, CallInv, JobSteps, Steps, MaintenanceSteps
  <2>2. CASE DeleteJob(call[c].job, call[c].seen.status, call[c].seen.completedAt)
    <3>1. /\ call[c].seen.status \in Terminal
          /\ call[c].seen.completedAt = row[call[c].job].completedAt
      BY <2>2 DEF DeleteJob
    <3> QED BY <1>4, <2>1, <2>2, <3>1, OperationStep DEF Operation
  <2> QED BY <1>4, <1>u, <2>2 DEF DropJob
<1> QED BY <1>1, <1>2, <1>3, <1>4 DEF Maintenance

\* Whatever the plane does, the table sees one of its operations or nothing.
LEMMA PlaneOperates ==
  ASSUME PlaneInv, [PlaneNext]_planeVars
  PROVE  [JobsNext]_jobVars
<1>u. UNCHANGED <<tableVars, now>> => UNCHANGED jobVars
  BY DEF tableVars, jobVars
<1>1. CASE PlaneTick
  BY <1>1 DEF PlaneTick, JobsNext
<1>2. ASSUME NEW c \in Claims, Invocation(c) PROVE [JobsNext]_jobVars
  <2>1. UNCHANGED now
    BY <1>2 DEF Invocation
  <2>2. CASE WakeUp(c)
    BY <2>1, <2>2, <1>u DEF WakeUp, Nudge, Wake, SendMessage, Mark, Sweep,
                            ResumeForFirstOpen, Stamp
  <2> QED BY <1>2, <2>1, <2>2, ClaimRouteOperates, AnswerRoutesOperate,
             ExecutionOperates, MaintenanceOperates DEF Invocation
<1>3. ASSUME NEW c \in Claims, SendThrows(c) \/ Die(c) PROVE [JobsNext]_jobVars
  BY <1>3 DEF SendThrows, Die, Abort
<1>4. CASE (PauseDelivery \/ ResumePaused) /\ UNCHANGED <<now, boundVars>>
  BY <1>4, <1>u DEF PauseDelivery, ResumePaused
<1>5. CASE (RolloutOff \/ RolloutOn \/ Depart \/ Freeze \/ Thaw) /\ UNCHANGED now
  BY <1>5, <1>u DEF RolloutOff, RolloutOn, Depart, Switch, Freeze, Thaw, Freezing
<1>6. CASE UNCHANGED planeVars
  BY <1>6 DEF planeVars
<1> QED BY <1>1, <1>2, <1>3, <1>4, <1>5, <1>6 DEF PlaneNext
-----------------------------------------------------------------------------
(* The owner's row and the rest of the state *)

\* What an operation of DailyOwner makes of the row stays in range.
LEMMA OwnerOperations ==
  ASSUME OwnerInv, NEW c \in Claims, NEW at \in Nat, NEW lost \in BOOLEAN,
         \/ ClaimOwner(c, at, lost) /\ NextAttempt <= MaxAttempts
         \/ ParkOwner(c)
         \/ ReleaseOwnerForRetry(c)
         \/ SettleOwner(c, "published") \/ SettleOwner(c, "failed")
         \/ PauseOwner(lost)
         \/ ResumeOwner(at)
         \/ ClearMarker
         \/ SetMarker(at)
  PROVE  OwnerInv'
<1>0. daily \in OwnerType /\ daily.dispatchedAt \in Nat /\ daily.attempts \in Nat
  BY DEF OwnerInv, OwnerType, Results
<1>1. CASE ClaimOwner(c, at, lost) /\ NextAttempt <= MaxAttempts
  <2>1. NextAttempt \in 1 .. MaxAttempts
    BY <1>1 DEF OwnerInv, OwnerType, NextAttempt
  <2> DEFINE marker == IF daily.dispatchedAt = 0 THEN at ELSE daily.dispatchedAt
  <2>2. marker \in Nat
    BY <1>0
  <2>3. daily' = [daily EXCEPT !.status = "running", !.holder = c,
                               !.attempts = NextAttempt, !.dispatchedAt = marker]
    BY <1>0, <1>1 DEF ClaimOwner, OwnerType
  <2> HIDE DEF marker
  <2>4. NextAttempt \in 0 .. MaxAttempts /\ NextAttempt # 0
    BY <2>1
  <2>5. daily' \in OwnerType
    BY <1>0, <2>2, <2>3, <2>4 DEF OwnerType
  <2>6. daily'.attempts # 0
    BY <1>0, <2>3, <2>4 DEF OwnerType
  <2> QED BY <2>5, <2>6 DEF OwnerInv
<1>2. CASE ParkOwner(c)
  BY <1>0, <1>2 DEF ParkOwner, HoldsOwner, OwnerInv, OwnerType, Results
<1>3. CASE ReleaseOwnerForRetry(c)
  BY <1>0, <1>3 DEF ReleaseOwnerForRetry, HoldsOwner, OwnerInv, OwnerType, Results
<1>4. CASE SettleOwner(c, "published") \/ SettleOwner(c, "failed")
  BY <1>0, <1>4 DEF SettleOwner, HoldsOwner, OwnerInv, OwnerType, Results
<1>5. CASE PauseOwner(lost)
  BY <1>0, <1>5 DEF PauseOwner, OwnerInv, OwnerType, Results
<1>6. CASE ResumeOwner(at)
  BY <1>0, <1>6 DEF ResumeOwner, OwnerInv, OwnerType, Results
<1>7. CASE ClearMarker
  BY <1>0, <1>7 DEF ClearMarker, OwnerInv, OwnerType, Results
<1>8. CASE SetMarker(at)
  BY <1>0, <1>8 DEF SetMarker, OwnerInv, OwnerType, Results
<1> QED BY <1>1, <1>2, <1>3, <1>4, <1>5, <1>6, <1>7, <1>8

\* The steps that leave the owner's row alone.
LEMMA OwnerKept ==
  ASSUME NEW c \in Claims,
         \/ ClaimRoute(c) \/ AnswerRoutes(c) \/ Maintenance(c)
         \/ SendThrows(c) \/ Die(c) \/ PlaneTick
         \/ RolloutOff \/ RolloutOn \/ Depart \/ Freeze \/ Thaw
           \/ UNCHANGED planeVars
  PROVE  UNCHANGED daily
<1>1. ClaimRoute(c) => UNCHANGED daily
  BY DEF ClaimRoute, ClaimCall, CheckOwner, Fetch, Release, Charge, Refuse, Reply,
         ownerVars
<1>2. AnswerRoutes(c) => UNCHANGED daily
  BY DEF AnswerRoutes, CompleteCall, CheckOwner, Reserve, PutResponse,
         CheckBeforeCommit, Commit, FailCall, Fail, Cancel, ownerVars
<1>3. Maintenance(c) => UNCHANGED daily
  BY DEF Maintenance, SelectUpload, DropObject, HeadObject, DropUpload, SelectUnheld,
         SelectOverdue, SelectSettled, CheckStale, CancelStale, PurgeCheck,
         DropExchange, HeadExchange, DropJob, ownerVars
<1>4. SendThrows(c) \/ Die(c) \/ PlaneTick => UNCHANGED daily
  BY DEF SendThrows, Die, PlaneTick, Abort, ownerVars
<1>5. RolloutOff \/ RolloutOn \/ Depart \/ Freeze \/ Thaw
           \/ UNCHANGED planeVars => UNCHANGED daily
  BY DEF RolloutOff, RolloutOn, Depart, Switch, Freeze, Thaw, Freezing, planeVars,
         ownerVars
<1> QED BY <1>1, <1>2, <1>3, <1>4, <1>5

\* Every step keeps the owner's row in range.
LEMMA PlaneOwner ==
  ASSUME PlaneInv, [PlaneNext]_planeVars
  PROVE  OwnerInv'
<1>i. OwnerInv /\ now \in Nat /\ call \in [Claims -> CallType]
  BY DEF PlaneInv, JobsInv, TypeOK, CallsInv
<1>u. UNCHANGED daily => OwnerInv'
  BY <1>i DEF OwnerInv
<1>l. ClaimLost \in BOOLEAN
  BY DEF ClaimLost
<1>n. daily.dispatchedAt \in Nat /\ 0 \in Nat
  BY <1>i DEF OwnerInv, OwnerType
<1>1. ASSUME NEW c \in Claims, WakeUp(c) PROVE OwnerInv'
  <2>1. call[c].at \in Nat
    BY <1>i DEF CallType
  <2>2. CASE Wake(c)
    BY <1>i, <1>u, <1>l, <1>n, <2>2, OwnerOperations DEF Wake
  <2>3. CASE Mark(c)
    BY <1>i, <1>u, <1>l, <2>1, <2>3, OwnerOperations DEF Mark
  <2>4. CASE Stamp(c)
    BY <1>i, <1>u, <1>l, <2>4, OwnerOperations DEF Stamp
  <2>5. CASE ResumeForFirstOpen(c)
    BY <1>i, <1>l, <1>n, <2>5, OwnerOperations DEF ResumeForFirstOpen
  <2>6. CASE Nudge(c) \/ Sweep(c) \/ SendMessage(c, "send", "mark")
               \/ SendMessage(c, "dispatch", "stamp")
    BY <1>u, <2>6 DEF Nudge, Sweep, SendMessage, ownerVars
  <2> QED BY <1>1, <2>2, <2>3, <2>4, <2>5, <2>6 DEF WakeUp
<1>2. ASSUME NEW c \in Claims, Execution(c) PROVE OwnerInv'
  <2>1. CASE Deliver(c)
    BY <1>i, <1>u, <1>l, <2>1, OwnerOperations DEF Deliver
  <2>2. CASE PutRequest(c)
    BY <1>i, <1>u, <1>l, <2>2, OwnerOperations DEF PutRequest
  <2>3. CASE Adopt(c)
    BY <1>i, <1>u, <1>l, <2>3, OwnerOperations DEF Adopt
  <2>4. CASE Retry(c)
    BY <1>i, <1>l, <2>4, OwnerOperations DEF Retry
  <2>5. CASE Park(c)
    BY <1>i, <1>l, <2>5, OwnerOperations DEF Park
  <2>6. CASE Enqueue(c) \/ Consult(c) \/ Recheck(c)
    BY <1>u, <2>6 DEF Enqueue, Consult, Recheck, ownerVars
  <2> QED BY <1>2, <2>1, <2>2, <2>3, <2>4, <2>5, <2>6 DEF Execution
<1>3. ASSUME PauseDelivery \/ ResumePaused PROVE OwnerInv'
  <2>1. CASE UNCHANGED daily
    BY <1>u, <2>1
  <2>2. CASE PauseOwner(ClaimLost)
    BY <1>i, <1>l, <2>2 DEF PauseOwner, OwnerInv, OwnerType, Results
  <2>3. CASE ResumeOwner(daily.dispatchedAt)
    BY <1>i, <1>n, <2>3 DEF ResumeOwner, OwnerInv, OwnerType, Results
  <2> QED BY <1>3, <2>1, <2>2, <2>3 DEF PauseDelivery, ResumePaused
<1>4. ASSUME NEW c \in Claims, Invocation(c) \/ SendThrows(c) \/ Die(c)
      PROVE  OwnerInv'
  BY <1>1, <1>2, <1>4, <1>u, OwnerKept DEF Invocation
<1>5. CASE PlaneTick \/ RolloutOff \/ RolloutOn \/ Depart \/ Freeze \/ Thaw
           \/ UNCHANGED planeVars
  BY <1>5, <1>u DEF PlaneTick, RolloutOff, RolloutOn, Depart, Switch, Freeze, Thaw,
                    Freezing, planeVars,
                    ownerVars
<1> QED BY <1>3, <1>4, <1>5 DEF PlaneNext

\* The stores, the runner's answers and the bounds hold values of their kinds.
LEMMA PlaneRest ==
  ASSUME PlaneInv, [PlaneNext]_planeVars
  PROVE  RestOK'
<1>i. JobsInv /\ CallsInv /\ RestOK
  BY DEF PlaneInv
<1> DEFINE AnswerType == [verdict : {"none", "complete", "fail"}, left : 0 .. MaxSends]
           Bounds == /\ pauses \in 0 .. MaxPauses /\ deaths \in 0 .. MaxDeaths
                     /\ throws \in 0 .. MaxThrows
           Stores == requests \subseteq Jobs /\ objects \subseteq Jobs \X Tokens
           Runner == answers \in [Tokens -> AnswerType] /\ used \in Nat
           Owner == inbox \in BOOLEAN /\ admission \in Admissions /\ frozen \in BOOLEAN
           History == denied \subseteq {"delivery", "check", "pause"}
<1>p. Bounds /\ Stores /\ Runner /\ Owner /\ History
  BY <1>i DEF RestOK
<1>q. Bounds' /\ Stores' /\ Runner' /\ Owner' => RestOK'
  <2>1. History'
    BY <1>p DEF PlaneNext, PlaneTick, Invocation, TurnedAway, SendThrows, Die, Abort,
                planeVars
  <2> QED BY <2>1 DEF RestOK
<1>u. /\ UNCHANGED boundVars => Bounds'
      /\ UNCHANGED storeVars => Stores'
      /\ UNCHANGED runnerVars => Runner'
      /\ UNCHANGED <<inbox, admission, frozen>> => Owner'
  BY <1>p DEF boundVars, storeVars, runnerVars
<1>v. UNCHANGED ownerVars => UNCHANGED <<inbox, admission, frozen>>
  BY DEF ownerVars
<1>a. ASSUME NEW t \in Tokens, NEW v, Arrives(t, v), UNCHANGED used PROVE Runner'
  <2>1. answers[t] \in AnswerType /\ answers[t].left \in Nat \ {0}
    BY <1>p, <1>a DEF Arrives
  <2>2. [answers[t] EXCEPT !.left = @ - 1] \in AnswerType
    BY <2>1
  <2>3. answers' = [answers EXCEPT ![t] = [answers[t] EXCEPT !.left = @ - 1]]
    BY <1>a DEF Arrives
  <2> QED BY <1>p, <1>a, <2>2, <2>3
<1> USE DEF At, Steps, ClaimSteps, AnswerSteps, NudgeSteps, MaintenanceSteps,
            ExecutorSteps, JobSteps, TokenSteps
<1>1. ASSUME NEW c \in Claims, ClaimRoute(c), UNCHANGED boundVars PROVE RestOK'
  <2>1. CASE Reply(c)
    <3>1. PICK v \in {"complete", "fail"} :
             answers' = [answers EXCEPT ![call[c].tok] = [verdict |-> v, left |-> MaxSends]]
      BY <2>1 DEF Reply
    <3>2. [verdict |-> v, left |-> MaxSends] \in AnswerType
      OBVIOUS
    <3>3. answers' \in [Tokens -> AnswerType]
      BY <1>p, <3>1, <3>2
    <3>4. Runner'
      BY <1>p, <2>1, <3>3 DEF Reply
    <3> QED BY <1>1, <1>u, <1>v, <1>q, <2>1, <3>4 DEF Reply
  <2>2. CASE Charge(c)
    <3>1. Runner'
      BY <1>p, <2>2 DEF Charge
    <3> QED BY <1>1, <1>u, <1>v, <1>q, <2>2, <3>1 DEF Charge
  <2>3. CASE ClaimCall(c) \/ CheckOwner(c, "claimed", "fetch") \/ Fetch(c)
               \/ Release(c) \/ Refuse(c)
    BY <1>1, <1>u, <1>v, <1>q, <2>3 DEF ClaimCall, CheckOwner, Fetch, Release, Refuse
  <2> QED BY <1>1, <2>1, <2>2, <2>3 DEF ClaimRoute
<1>2. ASSUME NEW c \in Claims, AnswerRoutes(c), UNCHANGED boundVars PROVE RestOK'
  <2>1. ASSUME NEW j \in Jobs, NEW t \in Tokens,
               CompleteCall(c, j, t) \/ FailCall(c, j, t)
        PROVE  RestOK'
    BY <1>2, <1>u, <1>v, <1>q, <1>a, <2>1 DEF CompleteCall, FailCall
  <2>2. CASE PutResponse(c)
    <3>0. call[c].job \in Jobs /\ call[c].tok \in Tokens
      BY <1>i, <2>2 DEF PutResponse, CallsInv, CallInv
    <3>1. Stores'
      BY <1>p, <2>2, <3>0 DEF PutResponse
    <3> QED BY <1>2, <1>u, <1>v, <1>q, <2>2, <3>1 DEF PutResponse
  <2>3. CASE \/ CheckOwner(c, "checkBeforeReserve", "reserve")
             \/ CheckOwner(c, "checkBeforePut", "put")
             \/ CheckOwner(c, "checkBeforeFail", "fail")
             \/ Reserve(c) \/ CheckBeforeCommit(c) \/ Commit(c) \/ Fail(c) \/ Cancel(c)
    BY <1>2, <1>u, <1>v, <1>q, <2>3
       DEF CheckOwner, Reserve, CheckBeforeCommit, Commit, Fail, Cancel
  <2> QED BY <1>2, <2>1, <2>2, <2>3 DEF AnswerRoutes
<1>3. ASSUME NEW c \in Claims, WakeUp(c), UNCHANGED boundVars PROVE RestOK'
  <2>1. UNCHANGED <<runnerVars, storeVars, admission, frozen>> /\ inbox' \in {inbox, TRUE}
    BY <1>3 DEF WakeUp, Nudge, Wake, SendMessage, Mark, Sweep, ResumeForFirstOpen,
                Stamp, ownerVars
  <2> QED BY <1>3, <1>p, <1>u, <1>q, <2>1
<1>4. ASSUME NEW c \in Claims, Execution(c), UNCHANGED boundVars PROVE RestOK'
  <2>1. UNCHANGED <<runnerVars, admission, frozen>> /\ inbox' \in {inbox, TRUE, FALSE}
    BY <1>4 DEF Execution, Deliver, PutRequest, Enqueue, Consult, Adopt, Retry, Park,
                Recheck, ownerVars
  <2>2. CASE PutRequest(c)
    <3>0. call[c].job \in Jobs
      BY <1>i, <2>2 DEF PutRequest, CallsInv, CallInv
    <3>1. Stores'
      BY <1>p, <2>2, <3>0 DEF PutRequest
    <3> QED BY <1>4, <1>p, <1>u, <1>q, <2>1, <3>1
  <2>3. CASE Deliver(c) \/ Enqueue(c) \/ Consult(c) \/ Adopt(c) \/ Retry(c)
               \/ Park(c) \/ Recheck(c)
    <3>1. UNCHANGED storeVars
      BY <2>3 DEF Deliver, Enqueue, Consult, Adopt, Retry, Park, Recheck
    <3> QED BY <1>4, <1>p, <1>u, <1>q, <2>1, <3>1
  <2> QED BY <1>4, <2>2, <2>3 DEF Execution
<1>5. ASSUME NEW c \in Claims, Maintenance(c), UNCHANGED boundVars PROVE RestOK'
  <2>1. UNCHANGED <<runnerVars, ownerVars>>
    BY <1>5 DEF Maintenance, SelectUpload, DropObject, HeadObject, DropUpload,
         SelectUnheld, SelectOverdue, SelectSettled, CheckStale, CancelStale,
         PurgeCheck, DropExchange, HeadExchange, DropJob
  <2>2. requests' \subseteq requests /\ objects' \subseteq objects
    BY <1>5 DEF Maintenance, SelectUpload, DropObject, HeadObject, DropUpload,
         SelectUnheld, SelectOverdue, SelectSettled, CheckStale, CancelStale,
         PurgeCheck, DropExchange, HeadExchange, DropJob, storeVars
  <2>3. Stores'
    BY <1>p, <2>2
  <2> QED BY <1>5, <1>u, <1>v, <1>q, <2>1, <2>3
<1>6. ASSUME NEW c \in Claims, SendThrows(c) \/ Die(c) PROVE RestOK'
  <2>1. /\ UNCHANGED <<runnerVars, storeVars, admission, frozen, pauses>>
        /\ inbox' \in {inbox, TRUE}
        /\ deaths' \in 0 .. MaxDeaths /\ throws' \in 0 .. MaxThrows
    <3>1. CASE SendThrows(c)
      BY <1>p, <3>1 DEF SendThrows, Abort
    <3>2. CASE Die(c)
      <4>1. deaths' = deaths + 1 /\ deaths < MaxDeaths /\ throws' = throws
        BY <3>2 DEF Die
      <4>2. deaths' \in 0 .. MaxDeaths /\ throws' \in 0 .. MaxThrows
        BY <1>p, <4>1
      <4>3. inbox' \in {inbox, TRUE}
        BY <3>2 DEF Die
      <4> QED BY <3>2, <4>2, <4>3 DEF Die, Abort
    <3> QED BY <1>6, <3>1, <3>2
  <2> QED BY <1>p, <1>u, <1>q, <2>1
<1>7. CASE PlaneTick
  BY <1>7, <1>u, <1>v, <1>q DEF PlaneTick
<1>8. ASSUME PauseDelivery \/ ResumePaused, UNCHANGED boundVars PROVE RestOK'
  <2>1. UNCHANGED <<runnerVars, storeVars, admission, frozen>> /\ inbox' \in {inbox, FALSE}
    BY <1>8 DEF PauseDelivery, ResumePaused
  <2> QED BY <1>8, <1>p, <1>u, <1>q, <2>1
<1>9. CASE RolloutOff \/ RolloutOn \/ Depart \/ Freeze \/ Thaw
  <2>1. UNCHANGED <<runnerVars, storeVars, inbox, deaths, throws>>
    BY <1>9 DEF RolloutOff, RolloutOn, Depart, Switch, Freeze, Thaw, Freezing, Interrupt,
                boundVars
  <2>2. pauses' \in 0 .. MaxPauses
    <3>1. pauses' = pauses \/ (pauses < MaxPauses /\ pauses' = pauses + 1)
      BY <1>9 DEF RolloutOff, RolloutOn, Depart, Freeze, Thaw, Interrupt, boundVars
    <3> QED BY <1>p, <3>1
  <2>3. admission' \in Admissions /\ frozen' \in BOOLEAN
    BY <1>9, <1>p DEF RolloutOff, RolloutOn, Depart, Switch, Freeze, Thaw,
                      Freezing, Admissions
  <2> QED BY <1>p, <1>u, <1>q, <2>1, <2>2, <2>3
<1>10. CASE UNCHANGED planeVars
  BY <1>10, <1>u, <1>v, <1>q DEF planeVars
<1> QED BY <1>1, <1>2, <1>3, <1>4, <1>5, <1>6, <1>7, <1>8, <1>9, <1>10
        DEF PlaneNext, Invocation
-----------------------------------------------------------------------------
(* The theorems of the composition *)

\* The plane starts in order.
LEMMA PlaneInvInit == PlaneInit => PlaneInv
<1> SUFFICES ASSUME PlaneInit PROVE PlaneInv
  OBVIOUS
<1>1. JobsInv
  BY JobsInvInit DEF PlaneInit
<1>2. CallsInv
  <2>1. Idle \in CallType /\ CallInv(Idle)
    BY DEF Idle, CallType, Absent, RowType, Statuses, CallInv, JobSteps, TokenSteps,
           Steps, ClaimSteps, AnswerSteps, NudgeSteps, MaintenanceSteps, ExecutorSteps
  <2> QED BY <2>1 DEF PlaneInit, CallsInv
<1>3. OwnerInv
  BY DEF PlaneInit, OwnerInit, OwnerInv, OwnerType, Results
<1>4. RestOK
  <2>1. NotHanded \in [verdict : {"none", "complete", "fail"}, left : 0 .. MaxSends]
    BY DEF NotHanded
  <2>2. answers \in [Tokens -> [verdict : {"none", "complete", "fail"},
                                left : 0 .. MaxSends]]
    BY <2>1 DEF PlaneInit
  <2>3. /\ used \in Nat /\ requests \subseteq Jobs /\ objects \subseteq Jobs \X Tokens
        /\ pauses \in 0 .. MaxPauses /\ deaths \in 0 .. MaxDeaths
        /\ throws \in 0 .. MaxThrows
    BY DEF PlaneInit
  <2>4. /\ inbox \in BOOLEAN /\ admission \in Admissions /\ frozen \in BOOLEAN
        /\ denied \subseteq {"delivery", "check", "pause"}
    BY DEF PlaneInit, OwnerInit, Admissions
  <2> QED BY <2>2, <2>3, <2>4 DEF RestOK
<1> QED BY <1>1, <1>2, <1>3, <1>4 DEF PlaneInv

\* Every step keeps the plane in order.
LEMMA PlaneInvNext == PlaneInv /\ [PlaneNext]_planeVars => PlaneInv'
<1>1. PlaneInv /\ [PlaneNext]_planeVars => JobsInv'
  BY PlaneOperates, JobsInvNext DEF PlaneInv
<1> QED BY <1>1, PlaneCalls, PlaneOwner, PlaneRest DEF PlaneInv

\* Calls in progress, the owner's row, the stores and the table stay in order,
\* for any number of attempts, invocations and faults.
THEOREM PlaneInvariant == PlaneSpec => []PlaneInv
BY PlaneInvInit, PlaneInvNext, PTL DEF PlaneSpec

\* Every variable of the composition holds a value of its kind.
THEOREM PlaneTypeCorrect == PlaneSpec => []PlaneTypeOK
<1>1. PlaneInv => PlaneTypeOK
  BY DEF PlaneInv, PlaneTypeOK, JobsInv, CallsInv, OwnerInv, RestOK
<1> QED BY <1>1, PlaneInvariant, PTL

\* The routes, the executions and the maintenance pass apply operations of the
\* table and nothing else, each with an instant no older than MaxLag: all that
\* is proved of JobsSpec is true of the plane.
THEOREM TableOperated == PlaneSpec => OperatesTheTable
<1>1. PlaneInit => JobsInit
  BY DEF PlaneInit
<1>2. PlaneInv /\ [PlaneNext]_planeVars => [JobsNext]_jobVars
  BY PlaneOperates
<1> QED BY <1>1, <1>2, PlaneInvariant, PTL DEF PlaneSpec, OperatesTheTable, JobsSpec
-----------------------------------------------------------------------------
(* A job that somebody may claim or hold has its request in the store.     *)
(*                                                                         *)
(* The danger is the purge: it removes the request of a settled job step   *)
(* by step, while an execution may be about to enqueue the very same       *)
(* coordinate again.  RequestInv says why the two exclude each other: an   *)
(* execution holds the owner's live claim, and the purge looked at an      *)
(* owner that is settled for good.                                         *)

PurgeSteps == {"purgeCheck", "dropExchange", "headExchange", "dropJob"}
DropSteps == {"dropExchange", "headExchange", "dropJob"}
Open == {"pending", "leased"}

\* Only verdicts are dated.
Dated == \A j \in Jobs : row[j].completedAt # 0 => row[j].status \in Terminal

CallAllows(c) ==
    /\ call[c].pc \in ExecutorSteps => HoldsOwner(c)
    /\ call[c].pc \in PurgeSteps => ~OwnerLive
    /\ call[c].pc = "enqueue" => call[c].job \in requests
    /\ call[c].pc \in DropSteps => row[call[c].job].status \in Terminal \cup {"absent"}

RequestInv == /\ Dated
              /\ \A c \in Claims : CallAllows(c)
              /\ RequestPrecedesJob

\* A step that opens no job.
Quiet == \A j \in Jobs :
            /\ row'[j].status \in Open => row[j].status \in Open
            /\ row[j].status = "absent" => row'[j].status = "absent"
            /\ row[j].status \in Terminal => row'[j].status \in Terminal \cup {"absent"}

\* Every operation of the table but the first opens no job.
LEMMA QuietOperation ==
  ASSUME TypeOK, NEW j \in Jobs, NEW at \in Nat, NEW t \in Tokens, UNCHANGED now,
         \/ ClaimJob(j, t, at) \/ ReserveUpload(j, t, at) \/ RefuseUpload(j, t, at)
         \/ CompleteJob(j, t, at) \/ FailJob(j, t, at) \/ ReleaseLease(j, t, at)
         \/ CancelJob(j, t, at) \/ DeleteUpload(<<j, t>>, at) \/ CancelStaleJob(j, at)
         \/ \E s \in Terminal : DeleteJob(j, s, row[j].completedAt)
  PROVE  Quiet
<1>0. Operation(j, at)
  BY DEF Operation
<1>1. \A k \in Jobs \ {j} : row'[k] = row[k]
  BY <1>0, OtherRowsKept
<1>2. row \in [Jobs -> RowType]
  BY DEF TypeOK
<1>3. /\ row'[j].status \in Open => row[j].status \in Open
      /\ row[j].status = "absent" => row'[j].status = "absent"
      /\ row[j].status \in Terminal => row'[j].status \in Terminal \cup {"absent"}
  <2> USE DEF Open, Terminal, RowType
  <2>1. CASE ClaimJob(j, t, at)
    BY <1>2, <2>1 DEF ClaimJob, Claimable
  <2>2. CASE ReserveUpload(j, t, at)
    BY <1>2, <2>2 DEF ReserveUpload
  <2>3. CASE RefuseUpload(j, t, at) \/ DeleteUpload(<<j, t>>, at)
    BY <1>2, <2>3 DEF RefuseUpload, DeleteUpload
  <2>4. CASE CompleteJob(j, t, at) \/ FailJob(j, t, at)
    BY <1>2, <2>4 DEF CompleteJob, FailJob, Settled, HoldsLease
  <2>5. CASE ReleaseLease(j, t, at)
    BY <1>2, <2>5 DEF ReleaseLease, HoldsLease
  <2>6. CASE CancelJob(j, t, at) \/ CancelStaleJob(j, at)
    BY <1>2, <2>6 DEF CancelJob, CancelStaleJob, Cancelled, HoldsLease
  <2>7. CASE \E s \in Terminal : DeleteJob(j, s, row[j].completedAt)
    BY <1>2, <2>7 DEF DeleteJob, Absent
  <2> QED BY <2>1, <2>2, <2>3, <2>4, <2>5, <2>6, <2>7
<1> QED BY <1>1, <1>3 DEF Quiet

\* A step that writes no row opens no job.
LEMMA QuietStutter == UNCHANGED row => Quiet
BY DEF Quiet

\* A row is dated in the step that settles it, and cleared when it is deleted.
LEMMA DatedStep ==
  ASSUME TypeOK, Dated, [JobsNext]_jobVars
  PROVE  Dated'
<1>1. CASE UNCHANGED row
  BY <1>1 DEF Dated
<1>2. ASSUME NEW j \in Jobs, NEW at \in Sampled, Operation(j, at) PROVE Dated'
  <2>0. at \in Nat
    BY SampledInstant
  <2>1. \A k \in Jobs \ {j} : row'[k] = row[k]
    BY <1>2, <2>0, OtherRowsKept
  <2>2. row \in [Jobs -> RowType]
    BY DEF TypeOK
  <2>3. row'[j].completedAt # 0 => row'[j].status \in Terminal
    <3> USE DEF Terminal, RowType, Dated
    <3>1. CASE EnqueueJob(j, at)
      BY <2>2, <3>1 DEF EnqueueJob, Absent
    <3>2. CASE \E t \in Tokens : ClaimJob(j, t, at)
      BY <2>2, <3>2 DEF ClaimJob, Claimable
    <3>3. CASE \E t \in Tokens : ReserveUpload(j, t, at)
      BY <2>2, <3>3 DEF ReserveUpload
    <3>4. CASE \E t \in Tokens : RefuseUpload(j, t, at) \/ DeleteUpload(<<j, t>>, at)
      BY <2>2, <3>4 DEF RefuseUpload, DeleteUpload
    <3>5. ASSUME NEW t \in Tokens, CompleteJob(j, t, at) \/ FailJob(j, t, at)
          PROVE  row'[j].status \in {"completed", "failed"}
      <4>1. PICK s \in {"completed", "failed"} : Settled(j, t, s, at)
        BY <3>5 DEF CompleteJob, FailJob
      <4> QED BY <2>2, <4>1 DEF Settled
    <3>6. CASE \E t \in Tokens : ReleaseLease(j, t, at)
      BY <2>2, <3>6 DEF ReleaseLease, HoldsLease
    <3>7. CASE CancelStaleJob(j, at) \/ \E t \in Tokens : CancelJob(j, t, at)
      <4>1. Cancelled(j, at)
        BY <3>7 DEF CancelJob, CancelStaleJob
      <4> QED BY <2>2, <4>1 DEF Cancelled
    <3>8. CASE \E s \in Terminal : DeleteJob(j, s, row[j].completedAt)
      BY <2>2, <3>8 DEF DeleteJob, Absent
    <3> QED BY <1>2, <3>1, <3>2, <3>3, <3>4, <3>5, <3>6, <3>7, <3>8 DEF Operation
  <2> QED BY <2>1, <2>3 DEF Dated
<1> QED BY <1>1, <1>2 DEF JobsNext, Tick, tableVars, jobVars
\* What a call was allowed to do it still is after a quiet step that leaves the
\* call, the owner's claim and the requests alone.
LEMMA CallStillAllowed ==
  ASSUME PlaneInv, NEW c \in Claims, CallAllows(c), Quiet, call'[c] = call[c],
         call[c].pc \in ExecutorSteps => HoldsOwner(c)',
         call[c].pc \in PurgeSteps => ~OwnerLive',
         call[c].pc = "enqueue" => call[c].job \in requests'
  PROVE  CallAllows(c)'
<1>1. call[c].pc \in DropSteps => row'[call[c].job].status \in Terminal \cup {"absent"}
  <2>1. call[c].pc \in DropSteps => call[c].job \in Jobs
    BY DEF PlaneInv, CallsInv, CallInv, DropSteps, JobSteps, Steps, MaintenanceSteps
  <2>2. row \in [Jobs -> RowType]
    BY DEF PlaneInv, JobsInv, TypeOK
  <2> QED BY <2>1, <2>2 DEF CallAllows, Quiet, RowType, Statuses, Terminal
<1> QED BY <1>1 DEF CallAllows

\* A quiet step of one call that leaves the owner's claim and the requests alone
\* only has to answer for that call.
LEMMA OneCallMoves ==
  ASSUME PlaneInv, RequestInv, Quiet, Dated', NEW c \in Claims,
         requests' = requests, daily'.status = daily.status,
         daily'.holder = daily.holder,
         \A d \in Claims \ {c} : call'[d] = call[d],
         call'[c] = call[c] \/ CallAllows(c)'
  PROVE  RequestInv'
<1>1. ASSUME NEW d \in Claims, call'[d] = call[d] PROVE CallAllows(d)'
  BY <1>1, CallStillAllowed DEF RequestInv, CallAllows, HoldsOwner, OwnerLive
<1>2. RequestPrecedesJob'
  BY DEF RequestInv, RequestPrecedesJob, Quiet, Open
<1> QED BY <1>1, <1>2 DEF RequestInv

\* A call that neither executes nor purges answers for nothing.
LEMMA BystanderAllowed ==
  ASSUME NEW c \in Claims, call'[c].pc \notin ExecutorSteps \cup PurgeSteps
  PROVE  CallAllows(c)'
BY DEF CallAllows, ExecutorSteps, DropSteps, PurgeSteps

\* An execution has the owner to itself: no other executes, and nobody purges.
LEMMA ExecutesAlone ==
  ASSUME RequestInv, NEW c \in Claims, HoldsOwner(c)
  PROVE  \A d \in Claims \ {c} : call[d].pc \notin ExecutorSteps \cup PurgeSteps
BY DEF RequestInv, CallAllows, HoldsOwner, OwnerLive

\* A claim that may be taken over has nobody executing under it, nobody purges.
LEMMA TakeableIsAbandoned ==
  ASSUME RequestInv, Takeable(ClaimLost)
  PROVE  \A d \in Claims : call[d].pc \notin ExecutorSteps \cup PurgeSteps
BY DEF RequestInv, CallAllows, HoldsOwner, OwnerLive, Takeable, ClaimLost

\* A call that goes on is at its next step; as below, no other call moves.
LEMMA GoneOn ==
  ASSUME CallsInv, NEW c \in Claims, NEW next, Goto(c, next)
  PROVE  /\ \A d \in Claims \ {c} : call'[d] = call[d]
         /\ call'[c].pc = next /\ call'[c].job = call[c].job
BY DEF CallsInv, CallType, Goto

\* A call that begins is at its first step, with its job.
LEMMA Begun ==
  ASSUME CallsInv, NEW c \in Claims, NEW pc, NEW j, NEW t, NEW at,
         BeginAt(c, pc, j, t, at)
  PROVE  /\ \A d \in Claims \ {c} : call'[d] = call[d]
         /\ call'[c].pc = pc /\ call'[c].job = j
BY DEF CallsInv, CallType, BeginAt, Idle

\* A call that ends is idle.
LEMMA Ended ==
  ASSUME CallsInv, NEW c \in Claims, End(c)
  PROVE  /\ \A d \in Claims \ {c} : call'[d] = call[d]
         /\ call'[c].pc = "idle"
BY DEF CallsInv, CallType, End, Idle

\* The claim route keeps every request in place.
LEMMA ClaimRouteRequests ==
  ASSUME PlaneInv, RequestInv, Dated', NEW c \in Claims, ClaimRoute(c), UNCHANGED now
  PROVE  RequestInv'
<1>i. TypeOK /\ CallsInv /\ now \in Nat
  BY DEF PlaneInv, JobsInv, TypeOK
<1>1. Quiet
  <2>1. CASE ClaimCall(c)
    BY <1>i, <2>1, QuietOperation DEF ClaimCall
  <2>2. CASE Release(c) \/ Refuse(c)
    <3>1. call[c].job \in Jobs /\ call[c].tok \in Tokens /\ call[c].at \in Nat
      BY <2>2, <1>i DEF Release, Refuse, At, CallsInv, CallType, CallInv, JobSteps,
                        TokenSteps, Steps, ClaimSteps
    <3> QED BY <1>i, <2>2, <3>1, QuietOperation, QuietStutter
            DEF Release, Refuse, tableVars
  <2>3. CASE CheckOwner(c, "claimed", "fetch") \/ Fetch(c) \/ Charge(c) \/ Reply(c)
    BY <2>3, QuietStutter DEF CheckOwner, Fetch, Charge, Reply, tableVars
  <2> QED BY <2>1, <2>2, <2>3 DEF ClaimRoute
<1>2. requests' = requests
  BY DEF ClaimRoute, ClaimCall, CheckOwner, Fetch, Release, Charge, Refuse, Reply,
         storeVars
<1>3. /\ \A d \in Claims \ {c} : call'[d] = call[d]
      /\ call'[c].pc \notin ExecutorSteps \cup PurgeSteps
  <2> USE DEF ExecutorSteps, PurgeSteps
  <2>1. CASE ClaimCall(c)
    BY <1>i, <2>1, Begun DEF ClaimCall, Begin
  <2>2. CASE CheckOwner(c, "claimed", "fetch") \/ Fetch(c) \/ Charge(c) \/ Refuse(c)
    BY <1>i, <2>2, GoneOn DEF CheckOwner, Fetch, Charge, Refuse
  <2>3. CASE Release(c) \/ Reply(c)
    BY <1>i, <2>3, Ended DEF Release, Reply
  <2> QED BY <2>1, <2>2, <2>3 DEF ClaimRoute
<1> QED BY <1>1, <1>2, <1>3, OneCallMoves, BystanderAllowed, OwnerKept
\* The answers keep every request in place.
LEMMA AnswerRoutesRequests ==
  ASSUME PlaneInv, RequestInv, Dated', NEW c \in Claims, AnswerRoutes(c), UNCHANGED now
  PROVE  RequestInv'
<1>i. TypeOK /\ CallsInv /\ now \in Nat
  BY DEF PlaneInv, JobsInv, TypeOK
<1>1. Quiet
  <2>1. CASE Reserve(c) \/ Commit(c) \/ Fail(c) \/ Cancel(c)
    <3>1. call[c].job \in Jobs /\ call[c].tok \in Tokens /\ call[c].at \in Nat
      BY <2>1, <1>i DEF Reserve, Commit, Fail, Cancel, At, CallsInv, CallType, CallInv,
                        JobSteps, TokenSteps, Steps, ClaimSteps, AnswerSteps
    <3> QED BY <1>i, <2>1, <3>1, QuietOperation, QuietStutter
            DEF Reserve, Commit, Fail, Cancel, tableVars
  <2>2. ASSUME \/ \E j \in Jobs, t \in Tokens : CompleteCall(c, j, t) \/ FailCall(c, j, t)
               \/ CheckOwner(c, "checkBeforeReserve", "reserve")
               \/ CheckOwner(c, "checkBeforePut", "put")
               \/ CheckOwner(c, "checkBeforeFail", "fail")
               \/ PutResponse(c)
               \/ CheckBeforeCommit(c)
        PROVE  Quiet
    BY <2>2, QuietStutter DEF CompleteCall, FailCall, CheckOwner, PutResponse,
                              CheckBeforeCommit, tableVars
  <2> QED BY <2>1, <2>2 DEF AnswerRoutes
<1>2. requests' = requests
  BY DEF AnswerRoutes, CompleteCall, CheckOwner, Reserve, PutResponse,
         CheckBeforeCommit, Commit, FailCall, Fail, Cancel, storeVars
<1> DEFINE Moved ==
      /\ \A d \in Claims \ {c} : call'[d] = call[d]
      /\ call'[c] = call[c] \/ call'[c].pc \notin ExecutorSteps \cup PurgeSteps
<1>3. Moved
  <2> USE DEF ExecutorSteps, PurgeSteps
  <2>1. ASSUME NEW j \in Jobs, NEW t \in Tokens, CompleteCall(c, j, t) \/ FailCall(c, j, t)
        PROVE  Moved
    BY <1>i, <2>1, Begun DEF CompleteCall, FailCall, Begin
  <2>2. CASE \/ CheckOwner(c, "checkBeforeReserve", "reserve")
             \/ CheckOwner(c, "checkBeforePut", "put")
             \/ CheckOwner(c, "checkBeforeFail", "fail")
    BY <1>i, <2>2, GoneOn DEF CheckOwner
  <2>3. CASE Reserve(c) \/ PutResponse(c) \/ Commit(c) \/ Fail(c) \/ Cancel(c)
    BY <1>i, <2>3, GoneOn, Ended DEF Reserve, PutResponse, Commit, Fail, Cancel
  <2>4. CASE CheckBeforeCommit(c)
    <3>1. PICK next \in {"commit", "cancel"} :
             call' = [call EXCEPT ![c].at = now, ![c].pc = next]
      BY <2>4 DEF CheckBeforeCommit
    <3> QED BY <1>i, <3>1 DEF CallsInv, CallType
  <2> QED BY <2>1, <2>2, <2>3, <2>4 DEF AnswerRoutes
<1> QED BY <1>1, <1>2, <1>3, OneCallMoves, BystanderAllowed, OwnerKept

\* Waking the owner moves its marker, and neither its status nor its holder.
LEMMA WakeUpRequests ==
  ASSUME PlaneInv, RequestInv, Dated', NEW c \in Claims, WakeUp(c), UNCHANGED now
  PROVE  RequestInv'
<1>i. CallsInv /\ daily \in OwnerType
  BY DEF PlaneInv, OwnerInv
<1>1. Quiet /\ requests' = requests
  BY QuietStutter DEF WakeUp, Nudge, Wake, SendMessage, Mark, Sweep,
     ResumeForFirstOpen, Stamp, tableVars, storeVars
<1>2. daily'.status = daily.status /\ daily'.holder = daily.holder
  BY <1>i DEF OwnerType, WakeUp, Nudge, Wake, SendMessage, Mark, Sweep,
     ResumeForFirstOpen, Stamp, ClearMarker, SetMarker, ResumeOwner, ownerVars
<1>3. /\ \A d \in Claims \ {c} : call'[d] = call[d]
      /\ call'[c].pc \notin ExecutorSteps \cup PurgeSteps
  <2> USE DEF ExecutorSteps, PurgeSteps
  <2>1. CASE Nudge(c) \/ Wake(c) \/ Mark(c) \/ Stamp(c)
    BY <1>i, <2>1, GoneOn, Ended DEF Nudge, Wake, Mark, Stamp
  <2>2. CASE SendMessage(c, "send", "mark") \/ SendMessage(c, "dispatch", "stamp")
    BY <1>i, <2>2, GoneOn DEF SendMessage
  <2>3. CASE Sweep(c) \/ ResumeForFirstOpen(c)
    BY <1>i, <2>3, Begun DEF Sweep, ResumeForFirstOpen, Begin
  <2> QED BY <2>1, <2>2, <2>3 DEF WakeUp
<1> QED BY <1>1, <1>2, <1>3, OneCallMoves, BystanderAllowed
\* The two operations of maintenance that write a row: neither opens a job.
LEMMA CancelIsQuiet ==
  ASSUME TypeOK, NEW j \in Jobs, NEW at \in Nat, CancelStaleJob(j, at)
  PROVE  Quiet
<1>1. row \in [Jobs -> RowType] /\ Cancelled(j, at)
  BY DEF TypeOK, CancelStaleJob
<1>2. row'[j].status = "cancelled" /\ \A k \in Jobs \ {j} : row'[k] = row[k]
  BY <1>1 DEF Cancelled, RowType
<1>3. row[j].status \in Open
  BY DEF CancelStaleJob, Open
<1> QED BY <1>2, <1>3 DEF Quiet, Open, Terminal

\* Deleting a row opens no job.
LEMMA DeleteIsQuiet ==
  ASSUME TypeOK, NEW j \in Jobs, NEW s, NEW i, DeleteJob(j, s, i)
  PROVE  Quiet
<1>1. row \in [Jobs -> RowType] /\ row' = [row EXCEPT ![j] = Absent]
  BY DEF TypeOK, DeleteJob
<1>2. row'[j].status = "absent" /\ \A k \in Jobs \ {j} : row'[k] = row[k]
  BY <1>1 DEF Absent
<1> QED BY <1>2 DEF Quiet, Open

\* The purge begins with an owner that is settled for good and a job that has
\* its verdict, and takes the request away only then.
LEMMA MaintenanceRequests ==
  ASSUME PlaneInv, RequestInv, Dated', NEW c \in Claims, Maintenance(c), UNCHANGED now
  PROVE  RequestInv'
<1>i. TypeOK /\ CallsInv
  BY DEF PlaneInv, JobsInv
<1>o. UNCHANGED daily
  BY OwnerKept
<1>a. CallAllows(c)
  BY DEF RequestInv
<1>1. ASSUME \/ \E u \in uploads : SelectUpload(c, u)
             \/ \E j \in Jobs : SelectUnheld(c, j) \/ SelectOverdue(c, j)
             \/ DropObject(c) \/ HeadObject(c) \/ DropUpload(c)
             \/ CheckStale(c) \/ CancelStale(c) \/ DropJob(c)
      PROVE  RequestInv'
  <2>1. Quiet
    <3>1. ASSUME DropUpload(c) \/ CancelStale(c) \/ DropJob(c) PROVE Quiet
      <4>1. call[c].job \in Jobs /\ call[c].at \in Nat
        BY <3>1, <1>i DEF DropUpload, CancelStale, DropJob, At, CallsInv, CallType,
                          CallInv, JobSteps, Steps, MaintenanceSteps
      <4>2. CASE DropUpload(c)
        BY <4>2, QuietStutter DEF DropUpload, DeleteUpload, tableVars
      <4>3. CASE CancelStale(c)
        <5>1. CASE UNCHANGED tableVars
          BY <5>1, QuietStutter DEF tableVars
        <5>2. CASE CancelStaleJob(call[c].job, call[c].at)
          BY <4>1, <5>2, <1>i, CancelIsQuiet
        <5> QED BY <4>3, <5>1, <5>2 DEF CancelStale
      <4>4. CASE DropJob(c)
        <5>1. CASE UNCHANGED tableVars
          BY <5>1, QuietStutter DEF tableVars
        <5>2. CASE DeleteJob(call[c].job, call[c].seen.status, call[c].seen.completedAt)
          BY <4>1, <5>2, <1>i, DeleteIsQuiet
        <5> QED BY <4>4, <5>1, <5>2 DEF DropJob
      <4> QED BY <3>1, <4>2, <4>3, <4>4
    <3>2. CASE UNCHANGED tableVars
      BY <3>2, QuietStutter DEF tableVars
    <3> QED BY <1>1, <3>1, <3>2 DEF SelectUpload, SelectUnheld, SelectOverdue,
               DropObject, HeadObject, CheckStale
  <2>2. requests' = requests
    BY <1>1 DEF SelectUpload, SelectUnheld, SelectOverdue, DropObject, HeadObject,
                DropUpload, CheckStale, CancelStale, DropJob, storeVars
  <2>3. /\ \A d \in Claims \ {c} : call'[d] = call[d]
        /\ call'[c].pc \notin ExecutorSteps \cup PurgeSteps
    <3> USE DEF ExecutorSteps, PurgeSteps
    <3>1. CASE \/ \E u \in uploads : SelectUpload(c, u)
               \/ \E j \in Jobs : SelectUnheld(c, j) \/ SelectOverdue(c, j)
      BY <1>i, <3>1, Begun DEF SelectUpload, SelectUnheld, SelectOverdue
    <3>2. CASE DropObject(c) \/ HeadObject(c) \/ DropUpload(c) \/ CheckStale(c)
                 \/ CancelStale(c) \/ DropJob(c)
      BY <1>i, <3>2, GoneOn, Ended
         DEF DropObject, HeadObject, DropUpload, CheckStale, CancelStale, DropJob
    <3> QED BY <1>1, <3>1, <3>2
  <2> QED BY <1>o, <2>1, <2>2, <2>3, OneCallMoves, BystanderAllowed
<1>2. ASSUME NEW j \in Jobs, SelectSettled(c, j) PROVE RequestInv'
  <2>1. Quiet /\ requests' = requests
    BY <1>2, QuietStutter DEF SelectSettled, tableVars, storeVars
  <2>2. /\ \A d \in Claims \ {c} : call'[d] = call[d]
        /\ call'[c].pc = "purgeCheck"
    BY <1>i, <1>2, Begun DEF SelectSettled, Begin
  <2>3. CallAllows(c)'
    BY <1>o, <1>2, <2>2
       DEF SelectSettled, CallAllows, OwnerLive, ExecutorSteps, PurgeSteps, DropSteps
  <2> QED BY <1>o, <2>1, <2>2, <2>3, OneCallMoves
<1>3. ASSUME PurgeCheck(c) \/ HeadExchange(c) PROVE RequestInv'
  <2>1. Quiet /\ requests' = requests /\ row' = row
    BY <1>3, QuietStutter DEF PurgeCheck, HeadExchange, tableVars, storeVars
  <2>2. call[c].pc \in PurgeSteps /\ call[c].job \in Jobs
    BY <1>3, <1>i DEF PurgeCheck, HeadExchange, At, PurgeSteps, CallsInv, CallInv,
                      JobSteps, Steps, MaintenanceSteps
  <2> DEFINE Moved ==
        /\ \A d \in Claims \ {c} : call'[d] = call[d]
        /\ \/ call'[c].pc = "idle"
           \/ /\ call'[c].pc \in {"dropExchange", "dropJob"}
              /\ call'[c].job = call[c].job
              /\ row[call[c].job].status \in Terminal \cup {"absent"}
  <2>3. Moved
    <3>1. CASE End(c)
      BY <1>i, <3>1, Ended
    <3>2. ASSUME PurgeCheck(c), ~End(c) PROVE Moved
      BY <1>i, <2>2, <3>2 DEF PurgeCheck, CallsInv, CallType, RequestInv, Dated
    <3>3. ASSUME HeadExchange(c), ~End(c) PROVE Moved
      BY <1>i, <1>a, <3>3, GoneOn DEF HeadExchange, At, CallAllows, DropSteps
    <3> QED BY <1>3, <3>1, <3>2, <3>3
  <2>4. CallAllows(c)'
    BY <1>o, <1>a, <2>1, <2>2, <2>3
       DEF CallAllows, OwnerLive, ExecutorSteps, PurgeSteps, DropSteps
  <2> QED BY <1>o, <2>1, <2>3, <2>4, OneCallMoves
<1>4. ASSUME DropExchange(c) PROVE RequestInv'
  <2>1. /\ call[c].pc = "dropExchange" /\ row' = row
        /\ requests' = requests \ {call[c].job}
    BY <1>4 DEF DropExchange, At, tableVars
  <2>2. ~OwnerLive /\ row[call[c].job].status \in Terminal \cup {"absent"}
    BY <1>a, <2>1 DEF CallAllows, PurgeSteps, DropSteps
  <2>3. RequestPrecedesJob'
    BY <2>1, <2>2 DEF RequestInv, RequestPrecedesJob, Terminal
  <2>4. \A d \in Claims : call[d].pc \notin ExecutorSteps
    BY <2>2 DEF RequestInv, CallAllows, HoldsOwner, OwnerLive
  <2>5. /\ \A d \in Claims \ {c} : call'[d] = call[d]
        /\ call'[c].pc = "headExchange" /\ call'[c].job = call[c].job
    BY <1>i, <1>4, GoneOn DEF DropExchange
  <2>6. ASSUME NEW d \in Claims PROVE CallAllows(d)'
    <3>1. CASE d = c
      BY <3>1, <1>o, <2>1, <2>2, <2>5
         DEF CallAllows, OwnerLive, ExecutorSteps, PurgeSteps, DropSteps
    <3>2. CASE d # c
      <4>1. call'[d] = call[d] /\ CallAllows(d)
        BY <3>2, <2>5 DEF RequestInv
      <4> QED BY <1>o, <2>1, <2>2, <2>4, <4>1
              DEF CallAllows, OwnerLive, ExecutorSteps
    <3> QED BY <3>1, <3>2
  <2> QED BY <2>3, <2>6 DEF RequestInv
<1> QED BY <1>1, <1>2, <1>3, <1>4 DEF Maintenance
\* What an execution does under its claim concerns no other call.
LEMMA ClaimantMoves ==
  ASSUME RequestInv, Dated', NEW c \in Claims,
         \A d \in Claims \ {c} : /\ call[d].pc \notin ExecutorSteps \cup PurgeSteps
                                 /\ call'[d] = call[d],
         call'[c].pc \notin PurgeSteps,
         call'[c].pc \in ExecutorSteps => HoldsOwner(c)',
         call'[c].pc = "enqueue" => call'[c].job \in requests',
         RequestPrecedesJob'
  PROVE  RequestInv'
<1>1. CallAllows(c)'
  BY DEF CallAllows, PurgeSteps, DropSteps
<1>2. \A d \in Claims \ {c} : CallAllows(d)'
  BY BystanderAllowed
<1> QED BY <1>1, <1>2 DEF RequestInv

\* An execution puts the request before it enqueues, while nobody else executes
\* or purges.
LEMMA ExecutionRequests ==
  ASSUME PlaneInv, RequestInv, Dated', NEW c \in Claims, Execution(c), UNCHANGED now
  PROVE  RequestInv'
<1>i. /\ TypeOK /\ CallsInv /\ daily \in OwnerType
      /\ CallAllows(c) /\ RequestPrecedesJob /\ row \in [Jobs -> RowType]
  BY DEF PlaneInv, JobsInv, OwnerInv, RequestInv, TypeOK
<1>r. row' = row /\ requests \subseteq requests' => RequestPrecedesJob'
  BY <1>i DEF RequestPrecedesJob
<1>h. call[c].pc \in ExecutorSteps => HoldsOwner(c)
  BY <1>i DEF CallAllows
<1>1. CASE Deliver(c)
  <2>1. row' = row /\ requests' = requests
    BY <1>1 DEF Deliver, tableVars, storeVars
  <2>2. CASE Takeable(ClaimLost) /\ AccountServes
    <3>1. ClaimOwner(c, now, ClaimLost) /\ Begin(c, "request", NextAttempt, NoToken)
      BY <1>1, <2>2 DEF Deliver
    <3>2. HoldsOwner(c)'
      BY <1>i, <3>1 DEF ClaimOwner, HoldsOwner, OwnerType
    <3>3. /\ \A d \in Claims \ {c} : call'[d] = call[d]
          /\ call'[c].pc = "request"
      BY <1>i, <3>1, Begun DEF Begin
    <3> QED BY <1>r, <2>1, <2>2, <3>2, <3>3, TakeableIsAbandoned, ClaimantMoves
            DEF PurgeSteps
  <2>3. CASE ~(Takeable(ClaimLost) /\ AccountServes)
    <3>1. daily' = daily /\ call' = call
      BY <1>1, <2>3 DEF Deliver
    <3> QED BY <2>1, <3>1, QuietStutter, OneCallMoves
  <2> QED BY <2>2, <2>3
<1>2. CASE Recheck(c)
  <2>1. Quiet /\ requests' = requests /\ daily' = daily
    BY <1>2, QuietStutter DEF Recheck, tableVars, ownerVars, storeVars
  <2>2. /\ \A d \in Claims \ {c} : call'[d] = call[d]
        /\ call'[c].pc \notin ExecutorSteps \cup PurgeSteps
    BY <1>i, <1>2, Begun, Ended DEF Recheck, Begin, ExecutorSteps, PurgeSteps
  <2> QED BY <2>1, <2>2, OneCallMoves, BystanderAllowed
<1>3. ASSUME \/ PutRequest(c) \/ Enqueue(c) \/ Consult(c) \/ Adopt(c) \/ Retry(c)
             \/ Park(c)
      PROVE  RequestInv'
  <2>1. HoldsOwner(c)
    BY <1>h, <1>3 DEF PutRequest, Enqueue, Consult, Adopt, Retry, Park, At, ExecutorSteps
  <2>2. \A d \in Claims \ {c} : call[d].pc \notin ExecutorSteps \cup PurgeSteps
    BY <2>1, ExecutesAlone
  <2>3. \A d \in Claims \ {c} : call'[d] = call[d]
    BY <1>i, <1>3, GoneOn, Ended
       DEF PutRequest, Enqueue, Consult, Adopt, Retry, Park
  <2>4. UNCHANGED daily => HoldsOwner(c)'
    BY <2>1 DEF HoldsOwner
  <2>5. CASE PutRequest(c)
    <3>1. row' = row /\ requests \subseteq requests'
      BY <2>5 DEF PutRequest, tableVars
    <3>2. \/ /\ Goto(c, "enqueue") /\ call[c].job \in requests' /\ daily' = daily
          \/ End(c)
          \/ Goto(c, "retry") /\ daily' = daily
      BY <2>5 DEF PutRequest
    <3>3. \/ /\ call'[c].pc = "enqueue" /\ call'[c].job \in requests' /\ daily' = daily
          \/ call'[c].pc = "idle"
          \/ call'[c].pc = "retry" /\ daily' = daily
      BY <1>i, <3>2, GoneOn, Ended
    <3> QED BY <1>r, <2>2, <2>3, <2>4, <3>1, <3>3, ClaimantMoves
            DEF PurgeSteps, ExecutorSteps
  <2>6. CASE Enqueue(c)
    <3>1. requests' = requests /\ daily' = daily
      BY <2>6 DEF Enqueue, ownerVars, storeVars
    <3>2. call'[c].pc \in {"consult", "retry"}
      BY <1>i, <2>6, GoneOn DEF Enqueue
    <3>3. call[c].job \in requests /\ call[c].job \in Jobs
      BY <1>i, <2>6 DEF Enqueue, At, CallAllows, CallsInv, CallInv, JobSteps, Steps,
                        ExecutorSteps
    <3>4. \A j \in Jobs \ {call[c].job} : row'[j] = row[j]
      BY <1>i, <2>6 DEF Enqueue, EnqueueJob, tableVars
    <3>5. RequestPrecedesJob'
      BY <1>i, <3>1, <3>3, <3>4 DEF RequestPrecedesJob
    <3> QED BY <2>2, <2>3, <2>4, <3>1, <3>2, <3>5, ClaimantMoves DEF PurgeSteps
  <2>7. CASE Consult(c)
    <3>1. row' = row /\ requests' = requests /\ daily' = daily
      BY <2>7 DEF Consult, tableVars, ownerVars, storeVars
    <3>2. call'[c].pc \in {"park", "adopt", "retry"}
      BY <1>i, <2>7, GoneOn DEF Consult
    <3> QED BY <1>r, <2>2, <2>3, <2>4, <3>1, <3>2, ClaimantMoves DEF PurgeSteps
  <2>8. CASE Adopt(c)
    <3>1. row' = row /\ requests' = requests
      BY <2>8 DEF Adopt, tableVars, storeVars
    <3>2. \/ call'[c].pc = "retry" /\ daily' = daily
          \/ call'[c].pc = "idle"
      BY <1>i, <2>8, GoneOn, Ended DEF Adopt
    <3> QED BY <1>r, <2>2, <2>3, <2>4, <3>1, <3>2, ClaimantMoves
            DEF PurgeSteps, ExecutorSteps
  <2>9. CASE Retry(c) \/ Park(c)
    <3>1. row' = row /\ requests' = requests
      BY <2>9 DEF Retry, Park, tableVars, storeVars
    <3>2. call'[c].pc \in {"idle", "recheck"}
      BY <1>i, <2>9, GoneOn, Ended DEF Retry, Park
    <3> QED BY <1>r, <2>2, <2>3, <3>1, <3>2, ClaimantMoves DEF PurgeSteps, ExecutorSteps
  <2> QED BY <1>3, <2>5, <2>6, <2>7, <2>8, <2>9
<1> QED BY <1>1, <1>2, <1>3 DEF Execution

\* A job that somebody may claim or hold keeps its request, whatever the plane
\* does next.
LEMMA RequestInvNext ==
  ASSUME PlaneInv, RequestInv, [PlaneNext]_planeVars
  PROVE  RequestInv'
<1>i. /\ TypeOK /\ CallsInv /\ daily \in OwnerType
      /\ RequestPrecedesJob /\ Dated /\ \A c \in Claims : CallAllows(c)
  BY DEF PlaneInv, JobsInv, OwnerInv, RequestInv
<1>d. Dated'
  BY <1>i, PlaneOperates, DatedStep
<1>u. ASSUME UNCHANGED <<row, requests, call>>,
             daily'.status = daily.status /\ daily'.holder = daily.holder
      PROVE  RequestInv'
  BY <1>i, <1>u DEF RequestInv, RequestPrecedesJob, Dated, CallAllows, HoldsOwner, OwnerLive
<1>1. CASE PlaneTick
  BY <1>1, <1>u DEF PlaneTick, Tick, tableVars, ownerVars, storeVars
<1>2. ASSUME NEW c \in Claims, Invocation(c) PROVE RequestInv'
  BY <1>2, <1>d, ClaimRouteRequests, AnswerRoutesRequests, WakeUpRequests,
     ExecutionRequests, MaintenanceRequests DEF Invocation
<1>3. ASSUME NEW c \in Claims, SendThrows(c) \/ Die(c) PROVE RequestInv'
  <2>1. End(c) /\ row' = row /\ requests' = requests /\ daily' = daily
    BY <1>3 DEF SendThrows, Die, Abort, jobVars, storeVars
  <2>2. /\ \A d \in Claims \ {c} : call'[d] = call[d]
        /\ call'[c].pc \notin ExecutorSteps \cup PurgeSteps
    BY <1>i, <2>1, Ended DEF ExecutorSteps, PurgeSteps
  <2> QED BY <1>d, <2>1, <2>2, QuietStutter, OneCallMoves, BystanderAllowed
<1>4. CASE PauseDelivery
  <2>1. row' = row /\ requests' = requests /\ call' = call
    BY <1>4 DEF PauseDelivery, tableVars, storeVars
  <2>2. CASE Takeable(ClaimLost) /\ daily.result # "rollout_paused"
    <3>1. \A c \in Claims : call'[c].pc \notin ExecutorSteps \cup PurgeSteps
      BY <2>1, <2>2, TakeableIsAbandoned
    <3>2. \A c \in Claims : CallAllows(c)'
      BY <3>1, BystanderAllowed
    <3>3. RequestPrecedesJob'
      BY <1>i, <2>1 DEF RequestPrecedesJob
    <3> QED BY <1>d, <3>2, <3>3 DEF RequestInv
  <2>3. CASE ~(Takeable(ClaimLost) /\ daily.result # "rollout_paused")
    BY <1>4, <1>u, <2>1, <2>3 DEF PauseDelivery
  <2> QED BY <2>2, <2>3
<1>5. CASE ResumePaused
  BY <1>5, <1>i, <1>u DEF ResumePaused, ResumeOwner, OwnerType, tableVars, storeVars
<1>6. CASE RolloutOff \/ RolloutOn \/ Depart \/ Freeze \/ Thaw
  BY <1>6, <1>u DEF RolloutOff, RolloutOn, Depart, Switch, Freeze, Thaw, Freezing,
                    tableVars, storeVars
<1>7. CASE UNCHANGED planeVars
  BY <1>7, <1>u DEF planeVars, jobVars, ownerVars, storeVars
<1> QED BY <1>1, <1>2, <1>3, <1>4, <1>5, <1>6, <1>7 DEF PlaneNext

\* A job that somebody may claim or hold has its request in the store, however
\* executions, purges, claims, deaths and the rollout interleave: no runner is
\* ever sent away because the request it is due was purged or not yet put.
THEOREM RequestsPrecedeJobs == PlaneSpec => []RequestPrecedesJob
<1>1. PlaneInit => RequestInv
  BY DEF PlaneInit, JobsInit, Absent, Idle, RequestInv, RequestPrecedesJob, Dated,
         CallAllows, ExecutorSteps, PurgeSteps, DropSteps
<1>2. PlaneInv /\ RequestInv /\ [PlaneNext]_planeVars => RequestInv'
  BY RequestInvNext
<1>3. RequestInv => RequestPrecedesJob
  BY DEF RequestInv
<1> QED BY <1>1, <1>2, <1>3, PlaneInvariant, PTL DEF PlaneSpec
=============================================================================
