-------------------------- MODULE CodexStores_proofs --------------------------
(***************************************************************************)
(* What the plane spends, stores and wakes: the call budget, the response  *)
(* objects against their inventory, and the owner that waits for a         *)
(* verdict.  For any number of attempts, tokens and invocations, and any   *)
(* clock.                                                                  *)
(***************************************************************************)
EXTENDS CodexControlPlane_proofs, FiniteSetTheorems

USE TokenAssumption, TimeAssumption, ClaimAssumption, PlaneAssumption
-----------------------------------------------------------------------------
(* The budget: a charge stands for every invocation handed out or about to *)
(* be.                                                                     *)

Replying == {c \in Claims : At(c, "reply")}

SpendInv == /\ IsFiniteSet(HandedOut)
            /\ IsFiniteSet(Replying)
            /\ SpendIsBounded

\* One more member is at most one more.
LEMMA GrowsByOne ==
  ASSUME NEW S, NEW x, IsFiniteSet(S)
  PROVE  /\ IsFiniteSet(S \cup {x})
         /\ Cardinality(S \cup {x}) <= Cardinality(S) + 1
<1>1. Cardinality(S) \in Nat
  BY FS_CardinalityType
<1>2. CASE x \in S
  <2>1. S \cup {x} = S
    BY <1>2
  <2>2. IsFiniteSet(S \cup {x}) /\ Cardinality(S \cup {x}) = Cardinality(S)
    BY <2>1, Zenon
  <2> QED BY <1>1, <2>2
<1>3. CASE x \notin S
  <2>1. IsFiniteSet(S \cup {x}) /\ Cardinality(S \cup {x}) = Cardinality(S) + 1
    BY <1>3, FS_AddElement
  <2> QED BY <1>1, <2>1
<1> QED BY <1>2, <1>3

\* A step that charges nothing, hands out nothing and brings nobody to the
\* reply keeps the account.
LEMMA SpendsNothing ==
  ASSUME PlaneInv, SpendInv, used' = used,
         \A t \in Tokens : answers'[t].verdict = answers[t].verdict,
         \A c \in Claims : call'[c].pc = "reply" => call[c].pc = "reply"
  PROVE  SpendInv'
<1>1. HandedOut' = HandedOut
  BY DEF HandedOut
<1>2. Replying' \subseteq Replying
  BY DEF Replying, At
<1>3. /\ IsFiniteSet(Replying')
      /\ Cardinality(Replying') <= Cardinality(Replying)
  BY <1>2, FS_Subset DEF SpendInv
<1>4. /\ Cardinality(Replying) \in Nat /\ Cardinality(Replying') \in Nat
      /\ Cardinality(HandedOut) \in Nat /\ used \in Nat
  BY <1>3, FS_CardinalityType DEF SpendInv, PlaneInv, RestOK
<1>5. SpendIsBounded'
  BY <1>1, <1>3, <1>4 DEF SpendInv, SpendIsBounded, Replying
<1> QED BY <1>1, <1>3, <1>5 DEF SpendInv

\* A charge is one more call at its reply.
LEMMA ChargeSpends ==
  ASSUME PlaneInv, SpendInv, NEW c \in Claims, Charge(c)
  PROVE  SpendInv'
<1>i. CallsInv /\ used \in Nat
  BY DEF PlaneInv, RestOK
<1>1. answers' = answers
  BY DEF Charge
<1>2. CASE used < DailyCallLimit /\ used' = used + 1 /\ Goto(c, "reply")
  <2>1. HandedOut' = HandedOut
    BY <1>1 DEF HandedOut
  <2>2. /\ \A d \in Claims \ {c} : call'[d] = call[d]
        /\ call'[c].pc = "reply"
    BY <1>i, <1>2, GoneOn
  <2>3. Replying' = Replying \cup {c}
    BY <2>2 DEF Replying, At
  <2>4. c \notin Replying
    BY DEF Charge, Replying, At
  <2>5. /\ IsFiniteSet(Replying')
        /\ Cardinality(Replying') = Cardinality(Replying) + 1
    BY <2>3, <2>4, FS_AddElement DEF SpendInv
  <2>6. Cardinality(Replying) \in Nat /\ Cardinality(HandedOut) \in Nat
    BY FS_CardinalityType DEF SpendInv
  <2>7. SpendIsBounded'
    BY <1>i, <1>2, <2>1, <2>5, <2>6 DEF SpendInv, SpendIsBounded, Replying
  <2> QED BY <2>1, <2>5, <2>7 DEF SpendInv
<1>3. CASE used >= DailyCallLimit /\ Goto(c, "refuse") /\ UNCHANGED used
  <2>1. /\ \A d \in Claims \ {c} : call'[d] = call[d]
        /\ call'[c].pc = "refuse"
    BY <1>i, <1>3, GoneOn
  <2> QED BY <1>1, <1>3, <2>1, SpendsNothing
<1> QED BY <1>2, <1>3 DEF Charge

\* A reply turns a call that was charged into an invocation handed out.
LEMMA ReplySpends ==
  ASSUME PlaneInv, SpendInv, NEW c \in Claims, Reply(c)
  PROVE  SpendInv'
<1>i. CallsInv /\ RestOK /\ used \in Nat
  BY DEF PlaneInv, RestOK
<1>1. PICK verdict \in {"complete", "fail"} :
         answers' = [answers EXCEPT ![call[c].tok] =
                       [verdict |-> verdict, left |-> MaxSends]]
  BY DEF Reply
<1>2. HandedOut' \subseteq HandedOut \cup {call[c].tok}
  BY <1>i, <1>1 DEF HandedOut, RestOK
<1>3. \A d \in Claims \ {c} : call'[d] = call[d]
  BY <1>i, Ended DEF Reply
<1>4. call'[c].pc = "idle"
  BY <1>i, Ended DEF Reply
<1>5. Replying' = Replying \ {c} /\ c \in Replying
  BY <1>3, <1>4 DEF Replying, At, Reply
<1>6. /\ IsFiniteSet(Replying')
      /\ Cardinality(Replying') = Cardinality(Replying) - 1
  BY <1>5, FS_RemoveElement DEF SpendInv
<1>7. /\ IsFiniteSet(HandedOut \cup {call[c].tok})
      /\ Cardinality(HandedOut \cup {call[c].tok}) <= Cardinality(HandedOut) + 1
  BY GrowsByOne DEF SpendInv
<1>8. /\ IsFiniteSet(HandedOut')
      /\ Cardinality(HandedOut') <= Cardinality(HandedOut \cup {call[c].tok})
  BY <1>2, <1>7, FS_Subset
<1>9. /\ Cardinality(HandedOut') \in Nat /\ Cardinality(Replying) \in Nat
      /\ Cardinality(HandedOut) \in Nat /\ Cardinality(Replying') \in Nat
      /\ Cardinality(HandedOut \cup {call[c].tok}) \in Nat
  BY <1>6, <1>7, <1>8, FS_CardinalityType DEF SpendInv
<1>10. SpendIsBounded'
  <2>1. used' = used
    BY DEF Reply
  <2> QED BY <1>i, <1>6, <1>7, <1>8, <1>9, <2>1 DEF SpendInv, SpendIsBounded, Replying
<1> QED BY <1>6, <1>8, <1>10 DEF SpendInv
\* Nobody but the charge comes to the reply, and nobody but the reply hands out.
LEMMA RoutesSpend ==
  ASSUME PlaneInv, SpendInv, NEW c \in Claims, ClaimRoute(c) \/ AnswerRoutes(c)
  PROVE  SpendInv'
<1>i. CallsInv /\ answers \in [Tokens -> [verdict : {"none", "complete", "fail"},
                                          left : 0 .. MaxSends]]
  BY DEF PlaneInv, RestOK
<1>1. CASE ClaimRoute(c)
  <2>1. CASE ClaimCall(c) \/ CheckOwner(c, "claimed", "fetch") \/ Fetch(c)
               \/ Release(c) \/ Refuse(c)
    <3>1. used' = used /\ answers' = answers
      BY <2>1 DEF ClaimCall, CheckOwner, Fetch, Release, Refuse, runnerVars
    <3>2. /\ \A d \in Claims \ {c} : call'[d] = call[d]
          /\ call'[c].pc # "reply"
      BY <1>i, <2>1, GoneOn, Begun, Ended
         DEF ClaimCall, CheckOwner, Fetch, Release, Refuse, Begin
    <3> QED BY <3>1, <3>2, SpendsNothing
  <2> QED BY <1>1, <2>1, ChargeSpends, ReplySpends DEF ClaimRoute
<1>2. CASE AnswerRoutes(c)
  <2>1. ASSUME NEW j \in Jobs, NEW t \in Tokens, CompleteCall(c, j, t) \/ FailCall(c, j, t)
        PROVE  SpendInv'
    <3>1. /\ used' = used
          /\ \A s \in Tokens : answers'[s].verdict = answers[s].verdict
      <4>1. used' = used /\ answers' = [answers EXCEPT ![t].left = @ - 1]
        BY <2>1 DEF CompleteCall, FailCall, Arrives
      <4> QED BY <1>i, <4>1
    <3>2. \A d \in Claims : call'[d].pc = "reply" => call[d].pc = "reply"
      BY <1>i, <2>1, Begun DEF CompleteCall, FailCall, Begin
    <3> QED BY <3>1, <3>2, SpendsNothing
  <2>2. ASSUME \/ CheckOwner(c, "checkBeforeReserve", "reserve")
               \/ CheckOwner(c, "checkBeforePut", "put")
               \/ CheckOwner(c, "checkBeforeFail", "fail")
               \/ Reserve(c) \/ PutResponse(c) \/ CheckBeforeCommit(c)
               \/ Commit(c) \/ Fail(c) \/ Cancel(c)
        PROVE  SpendInv'
    <3>1. used' = used /\ answers' = answers
      BY <2>2 DEF CheckOwner, Reserve, PutResponse, CheckBeforeCommit, Commit, Fail,
                  Cancel, runnerVars
    <3>2. /\ \A d \in Claims \ {c} : call'[d] = call[d]
          /\ call'[c].pc # "reply"
      <4>1. CASE CheckBeforeCommit(c)
        <5>1. PICK next \in {"commit", "cancel"} :
                 call' = [call EXCEPT ![c].at = now, ![c].pc = next]
          BY <4>1 DEF CheckBeforeCommit
        <5> QED BY <1>i, <5>1 DEF CallsInv, CallType
      <4>2. CASE ~CheckBeforeCommit(c)
        BY <1>i, <2>2, <4>2, GoneOn, Ended
           DEF CheckOwner, Reserve, PutResponse, Commit, Fail, Cancel
      <4> QED BY <4>1, <4>2
    <3> QED BY <3>1, <3>2, SpendsNothing
  <2> QED BY <1>2, <2>1, <2>2 DEF AnswerRoutes
<1> QED BY <1>1, <1>2

\* The rest of the plane charges nothing and hands out nothing.
LEMMA RestSpends ==
  ASSUME PlaneInv, SpendInv, NEW c \in Claims,
         \/ WakeUp(c) \/ Execution(c) \/ Maintenance(c) \/ SendThrows(c) \/ Die(c)
  PROVE  SpendInv'
<1>i. CallsInv
  BY DEF PlaneInv
<1>1. CASE WakeUp(c)
  <2>1. UNCHANGED runnerVars
    BY <1>1 DEF WakeUp, Nudge, Wake, SendMessage, Mark, Sweep, ResumeForFirstOpen, Stamp
  <2>2. /\ \A d \in Claims \ {c} : call'[d] = call[d]
        /\ call'[c].pc # "reply"
    BY <1>1, <1>i, GoneOn, Begun, Ended
       DEF WakeUp, Nudge, Wake, SendMessage, Mark, Sweep, ResumeForFirstOpen, Stamp, Begin
  <2> QED BY <2>1, <2>2, SpendsNothing DEF runnerVars
<1>2. CASE Execution(c)
  <2>1. UNCHANGED runnerVars
    BY <1>2 DEF Execution, Deliver, PutRequest, Enqueue, Consult, Adopt, Retry, Park,
                Recheck
  <2>2. \A d \in Claims : call'[d].pc = "reply" => call[d].pc = "reply"
    BY <1>2, <1>i, GoneOn, Begun, Ended
       DEF Execution, Deliver, PutRequest, Enqueue, Consult, Adopt, Retry, Park,
           Recheck, Begin
  <2> QED BY <2>1, <2>2, SpendsNothing DEF runnerVars
<1>3. CASE Maintenance(c)
  <2>1. UNCHANGED runnerVars
    BY <1>3 DEF Maintenance, SelectUpload, DropObject, HeadObject, DropUpload,
                SelectUnheld, SelectOverdue, SelectSettled, CheckStale, CancelStale,
                PurgeCheck, DropExchange, HeadExchange, DropJob
  <2>2. /\ \A d \in Claims \ {c} : call'[d] = call[d]
        /\ call'[c].pc # "reply"
    <3>1. CASE PurgeCheck(c)
      BY <1>i, <3>1, Ended DEF PurgeCheck, CallsInv, CallType
    <3>2. CASE ~PurgeCheck(c)
      BY <1>3, <1>i, <3>2, GoneOn, Begun, Ended
         DEF Maintenance, SelectUpload, DropObject, HeadObject, DropUpload,
             SelectUnheld, SelectOverdue, SelectSettled, CheckStale, CancelStale,
             DropExchange, HeadExchange, DropJob, Begin
    <3> QED BY <3>1, <3>2
  <2> QED BY <2>1, <2>2, SpendsNothing DEF runnerVars
<1>4. CASE SendThrows(c) \/ Die(c)
  <2>1. UNCHANGED runnerVars /\ End(c)
    BY <1>4 DEF SendThrows, Die, Abort
  <2> QED BY <1>i, <2>1, Ended, SpendsNothing DEF runnerVars
<1> QED BY <1>1, <1>2, <1>3, <1>4

\* Every plaintext invocation handed to a runner was charged before, and the
\* charges of the day never pass the ceiling, for any ceiling and however often
\* leases are reclaimed, calls die or answers are repeated.
THEOREM SpendBounded == PlaneSpec => []SpendIsBounded
<1>1. PlaneInit => SpendInv
  <2> SUFFICES ASSUME PlaneInit PROVE SpendInv
    OBVIOUS
  <2>1. HandedOut = {} /\ Replying = {}
    BY DEF PlaneInit, HandedOut, Replying, NotHanded, At, Idle
  <2>2. IsFiniteSet({}) /\ Cardinality({}) = 0
    BY FS_EmptySet
  <2>3. used = 0 /\ 0 <= DailyCallLimit
    BY DEF PlaneInit
  <2>4. SpendIsBounded <=> /\ Cardinality(HandedOut) + Cardinality(Replying) <= used
                           /\ used <= DailyCallLimit
    BY DEF SpendIsBounded, Replying
  <2>5. SpendIsBounded
    BY <2>1, <2>2, <2>3, <2>4
  <2> QED BY <2>1, <2>2, <2>5 DEF SpendInv
<1>2. PlaneInv /\ SpendInv /\ [PlaneNext]_planeVars => SpendInv'
  <2> SUFFICES ASSUME PlaneInv, SpendInv, [PlaneNext]_planeVars PROVE SpendInv'
    OBVIOUS
  <2>1. ASSUME UNCHANGED <<runnerVars, call>> PROVE SpendInv'
    BY <2>1, SpendsNothing DEF runnerVars
  <2>2. ASSUME NEW c \in Claims, Invocation(c) \/ SendThrows(c) \/ Die(c)
        PROVE  SpendInv'
    BY <2>2, RoutesSpend, RestSpends DEF Invocation
  <2>3. CASE PlaneTick \/ PauseDelivery \/ ResumePaused \/ RolloutOff \/ RolloutOn
               \/ Depart \/ Freeze \/ Thaw \/ UNCHANGED planeVars
    BY <2>1, <2>3 DEF PlaneTick, PauseDelivery, ResumePaused, RolloutOff, RolloutOn,
                      Depart, Switch, Freeze, Thaw, Freezing, planeVars
  <2> QED BY <2>2, <2>3 DEF PlaneNext
<1>3. SpendInv => SpendIsBounded
  BY DEF SpendInv
<1> QED BY <1>1, <1>2, <1>3, PlaneInvariant, PTL DEF PlaneSpec
-----------------------------------------------------------------------------
(* One call per answer.                                                    *)
(*                                                                         *)
(* The runner of this repository posts its answer once (AnswersOnce), and  *)
(* then a token has at most one call that acts under it: the claim that    *)
(* minted it, and after its reply the answer.                              *)

AnswersOnce == MaxSends = 1

ActSteps == ClaimSteps \cup AnswerSteps \cup {"cancel"}
StoreSteps == {"checkBeforePut", "put", "checkBeforeCommit", "commit"}

SoleActor ==
    /\ \A c \in Claims : call[c].pc \in ActSteps =>
          issued[call[c].tok] = {call[c].job} /\ answers[call[c].tok].left = 0
    /\ \A c, d \in Claims : /\ call[c].pc \in ActSteps /\ call[d].pc \in ActSteps
                            /\ call[c].tok = call[d].tok
                            => c = d
    /\ \A t \in Unissued : answers[t].left = 0

\* A call that goes on changes its step alone.
LEMMA GoesTo ==
  ASSUME CallsInv, NEW c \in Claims, NEW next, Goto(c, next)
  PROVE  /\ \A d \in Claims \ {c} : call'[d] = call[d]
         /\ call'[c].pc = next /\ call'[c].job = call[c].job
         /\ call'[c].tok = call[c].tok /\ call'[c].at = call[c].at
         /\ call'[c].seen = call[c].seen
BY DEF CallsInv, CallType, Goto

\* A call that begins has the job, the token and the instant it was given.
LEMMA StartsWith ==
  ASSUME CallsInv, NEW c \in Claims, NEW pc, NEW j, NEW t, NEW at,
         BeginAt(c, pc, j, t, at)
  PROVE  /\ \A d \in Claims \ {c} : call'[d] = call[d]
         /\ call'[c].pc = pc /\ call'[c].job = j
         /\ call'[c].tok = t /\ call'[c].at = at
BY DEF CallsInv, CallType, BeginAt, Idle

\* The steps of the commit check, with its fresh instant.
LEMMA ChecksCommit ==
  ASSUME CallsInv, NEW c \in Claims, CheckBeforeCommit(c)
  PROVE  /\ \A d \in Claims \ {c} : call'[d] = call[d]
         /\ call'[c].pc \in {"commit", "cancel"} /\ call'[c].at = now
         /\ call'[c].job = call[c].job /\ call'[c].tok = call[c].tok
<1>1. PICK next \in {"commit", "cancel"} :
         call' = [call EXCEPT ![c].at = now, ![c].pc = next]
  BY DEF CheckBeforeCommit
<1> QED BY <1>1 DEF CallsInv, CallType

\* The answers that arrive.
Arrival(c) ==
    \E j \in Jobs, t \in Tokens : CompleteCall(c, j, t) \/ FailCall(c, j, t)

\* A claim or an answer that goes on stays under its token, and comes to store
\* a response by a reservation alone.
LEMMA ActGoesOn ==
  ASSUME CallsInv, NEW c \in Claims, ClaimRoute(c) \/ AnswerRoutes(c),
         ~ClaimCall(c), ~Arrival(c)
  PROVE  /\ \A d \in Claims \ {c} : call'[d] = call[d]
         /\ call[c].pc \in ActSteps
         /\ call'[c].pc \in ActSteps =>
               call'[c].job = call[c].job /\ call'[c].tok = call[c].tok
         /\ call[c].pc \in StoreSteps \cup {"cancel"} /\ call'[c].pc \in ActSteps =>
               call'[c].pc \in StoreSteps \cup {"cancel"}
         /\ call'[c].pc \in StoreSteps =>
               \/ Reserve(c) /\ call'[c].pc = "checkBeforePut"
               \/ CheckOwner(c, "checkBeforePut", "put") /\ call'[c].pc = "put"
               \/ PutResponse(c) /\ call'[c].pc = "checkBeforeCommit"
               \/ CheckBeforeCommit(c) /\ call'[c].pc = "commit"
<1> USE DEF At, ActSteps, ClaimSteps, AnswerSteps, StoreSteps
<1>1. CASE ClaimRoute(c)
  BY <1>1, GoesTo, Ended DEF ClaimRoute, CheckOwner, Fetch, Release, Charge, Refuse, Reply
<1>2. CASE AnswerRoutes(c)
  <2>1. CASE CheckBeforeCommit(c)
    BY <2>1, ChecksCommit DEF CheckBeforeCommit
  <2>2. CASE \/ CheckOwner(c, "checkBeforeReserve", "reserve")
             \/ CheckOwner(c, "checkBeforePut", "put")
             \/ CheckOwner(c, "checkBeforeFail", "fail")
    BY <2>2, GoesTo DEF CheckOwner
  <2>3. CASE Reserve(c)
    BY <2>3, GoesTo, Ended DEF Reserve
  <2>4. CASE PutResponse(c)
    BY <2>4, GoesTo, Ended DEF PutResponse
  <2>5. CASE Commit(c) \/ Fail(c) \/ Cancel(c)
    BY <2>5, GoesTo, Ended DEF Commit, Fail, Cancel
  <2> QED BY <1>2, <2>1, <2>2, <2>3, <2>4, <2>5 DEF AnswerRoutes, Arrival
<1> QED BY <1>1, <1>2

\* A step in which nobody begins to act and nothing is handed out.
LEMMA ActorsStay ==
  ASSUME SoleActor, issued' = issued, answers' = answers,
         \A c \in Claims : call'[c].pc \in ActSteps =>
            /\ call[c].pc \in ActSteps
            /\ call'[c].job = call[c].job /\ call'[c].tok = call[c].tok
  PROVE  SoleActor'
BY DEF SoleActor, Unissued

\* Only a claim mints a token.
LEMMA OnlyClaimsIssue ==
  ASSUME NEW c \in Claims, Invocation(c) \/ SendThrows(c) \/ Die(c), ~ClaimCall(c)
  PROVE  issued' = issued
<1>1. ClaimRoute(c) => issued' = issued
  BY DEF ClaimRoute, CheckOwner, Fetch, Release, Charge, Refuse, Reply, ReleaseLease,
         FailJob, tableVars
<1>2. AnswerRoutes(c) => issued' = issued
  BY DEF AnswerRoutes, CompleteCall, CheckOwner, Reserve, PutResponse,
         CheckBeforeCommit, Commit, FailCall, Fail, Cancel, ReserveUpload,
         RefuseUpload, CompleteJob, FailJob, CancelJob, tableVars
<1>3. WakeUp(c) => issued' = issued
  BY DEF WakeUp, Nudge, Wake, SendMessage, Mark, Sweep, ResumeForFirstOpen, Stamp,
         tableVars
<1>4. Execution(c) => issued' = issued
  BY DEF Execution, Deliver, PutRequest, Enqueue, Consult, Adopt, Retry, Park, Recheck,
         EnqueueJob, tableVars
<1>5. Maintenance(c) => issued' = issued
  BY DEF Maintenance, SelectUpload, DropObject, HeadObject, DropUpload, SelectUnheld,
         SelectOverdue, SelectSettled, CheckStale, CancelStale, PurgeCheck,
         DropExchange, HeadExchange, DropJob, DeleteUpload, CancelStaleJob, DeleteJob,
         tableVars
<1>6. SendThrows(c) \/ Die(c) => issued' = issued
  BY DEF SendThrows, Die, Abort, jobVars
<1> QED BY <1>1, <1>2, <1>3, <1>4, <1>5, <1>6 DEF Invocation

\* Claims, replies and arrivals keep a token to one call.
LEMMA RoutesSoleActor ==
  ASSUME AnswersOnce, PlaneInv, SoleActor, NEW c \in Claims,
         ClaimRoute(c) \/ AnswerRoutes(c), Invocation(c)
  PROVE  SoleActor'
<1>i. /\ CallsInv /\ issued \in [Tokens -> SUBSET Jobs]
      /\ answers \in [Tokens -> [verdict : {"none", "complete", "fail"},
                                 left : 0 .. MaxSends]]
  BY DEF PlaneInv, RestOK, JobsInv, TypeOK
<1>t. \A d \in Claims : call[d].pc \in ActSteps => call[d].tok \in Tokens
  BY <1>i DEF CallsInv, CallInv, ActSteps, TokenSteps
<1>1. CASE ClaimCall(c)
  <2>1. PICK j \in Jobs, t \in Tokens : ClaimJob(j, t, now) /\ Begin(c, "claimed", j, t)
    BY <1>1 DEF ClaimCall
  <2>2. /\ t \in Unissued /\ issued' = [issued EXCEPT ![t] = {j}]
        /\ answers' = answers
    BY <1>1, <2>1 DEF ClaimCall, ClaimJob, runnerVars
  <2>3. /\ \A d \in Claims \ {c} : call'[d] = call[d]
        /\ call'[c].pc = "claimed" /\ call'[c].job = j /\ call'[c].tok = t
    BY <1>i, <2>1, StartsWith DEF Begin
  <2>4. \A d \in Claims : call[d].pc \in ActSteps => call[d].tok # t
    BY <2>2 DEF SoleActor, Unissued
  <2>5. issued'[t] = {j} /\ \A s \in Tokens \ {t} : issued'[s] = issued[s]
    BY <1>i, <2>2
  <2>6. ASSUME NEW d \in Claims, call'[d].pc \in ActSteps
        PROVE  issued'[call'[d].tok] = {call'[d].job} /\ answers'[call'[d].tok].left = 0
    BY <1>t, <2>2, <2>3, <2>4, <2>5, <2>6 DEF SoleActor, Unissued
  <2>7. ASSUME NEW d \in Claims, NEW e \in Claims, call'[d].pc \in ActSteps,
               call'[e].pc \in ActSteps, call'[d].tok = call'[e].tok
        PROVE  d = e
    BY <2>3, <2>4, <2>7 DEF SoleActor
  <2>8. \A s \in Unissued' : answers'[s].left = 0
    BY <2>2, <2>5 DEF SoleActor, Unissued
  <2> QED BY <2>6, <2>7, <2>8 DEF SoleActor
<1>2. CASE Reply(c)
  <2> DEFINE t == call[c].tok
  <2>1. call[c].pc = "reply" /\ c \in Claims
    BY <1>2 DEF Reply, At
  <2>2. call[c].pc \in ActSteps /\ t \in Tokens
    BY <1>t, <2>1 DEF ActSteps, ClaimSteps
  <2>3. /\ \A s \in Tokens \ {t} : answers'[s] = answers[s]
        /\ issued' = issued
    BY <1>i, <1>2 DEF Reply, tableVars
  <2>4. /\ \A d \in Claims \ {c} : call'[d] = call[d]
        /\ call'[c].pc = "idle"
    BY <1>i, <1>2, Ended DEF Reply
  <2>5. \A d \in Claims : call'[d].pc \in ActSteps
           => d # c /\ call[d].pc \in ActSteps /\ call[d].tok # t
    BY <2>2, <2>4 DEF SoleActor, ActSteps, ClaimSteps, AnswerSteps
  <2>6. t \notin Unissued
    BY <2>2 DEF SoleActor, Unissued
  <2> QED BY <1>t, <2>3, <2>4, <2>5, <2>6 DEF SoleActor, Unissued
<1>3. ASSUME NEW j \in Jobs, NEW t \in Tokens, CompleteCall(c, j, t) \/ FailCall(c, j, t)
      PROVE  SoleActor'
  <2>1. /\ issued[t] = {j} /\ answers[t].left > 0
        /\ answers' = [answers EXCEPT ![t].left = @ - 1]
        /\ issued' = issued
    BY <1>3 DEF CompleteCall, FailCall, Arrives, tableVars
  <2>2. answers'[t].left = 0 /\ \A s \in Tokens \ {t} : answers'[s] = answers[s]
    BY <1>i, <2>1 DEF AnswersOnce
  <2>3. \A d \in Claims : call[d].pc \in ActSteps => call[d].tok # t
    BY <1>i, <2>1 DEF SoleActor
  <2>4. \/ call' = call
        \/ /\ \A d \in Claims \ {c} : call'[d] = call[d]
           /\ call'[c].job = j /\ call'[c].tok = t
    BY <1>i, <1>3, StartsWith DEF CompleteCall, FailCall, Begin
  <2>5. \A s \in Unissued' : answers'[s].left = 0
    BY <2>1, <2>2 DEF SoleActor, Unissued
  <2>6. ASSUME NEW d \in Claims, call'[d].pc \in ActSteps
        PROVE  issued'[call'[d].tok] = {call'[d].job} /\ answers'[call'[d].tok].left = 0
    BY <1>t, <2>1, <2>2, <2>3, <2>4, <2>6 DEF SoleActor
  <2>7. ASSUME NEW d \in Claims, NEW e \in Claims, call'[d].pc \in ActSteps,
               call'[e].pc \in ActSteps, call'[d].tok = call'[e].tok
        PROVE  d = e
    BY <2>3, <2>4, <2>7 DEF SoleActor
  <2> QED BY <2>5, <2>6, <2>7 DEF SoleActor
<1>4. ASSUME ~ClaimCall(c), ~Reply(c), ~Arrival(c)
      PROVE  SoleActor'
  <2>1. issued' = issued
    BY <1>4, OnlyClaimsIssue
  <2>2. answers' = answers
    BY <1>4 DEF ClaimRoute, CheckOwner, Fetch, Release, Charge, Refuse, AnswerRoutes,
                Reserve, PutResponse, CheckBeforeCommit, Commit, Fail, Cancel, Arrival,
                runnerVars
  <2> QED BY <1>i, <1>4, <2>1, <2>2, ActGoesOn, ActorsStay
<1> QED BY <1>1, <1>2, <1>3, <1>4 DEF Arrival

\* The nudges, the executions, the maintenance pass and the calls that are cut
\* short begin no claim and no answer.
LEMMA RestActs ==
  ASSUME CallsInv, NEW c \in Claims,
         \/ WakeUp(c) \/ Execution(c) \/ Maintenance(c) \/ SendThrows(c) \/ Die(c)
  PROVE  /\ \A d \in Claims \ {c} : call'[d] = call[d]
         /\ call'[c].pc \notin ActSteps
         /\ UNCHANGED runnerVars
<1> USE DEF ActSteps, ClaimSteps, AnswerSteps
<1>1. CASE WakeUp(c)
  BY <1>1, GoesTo, StartsWith, Ended
     DEF WakeUp, Nudge, Wake, SendMessage, Mark, Sweep, ResumeForFirstOpen, Stamp, Begin
<1>2. CASE Execution(c)
  <2>1. CASE Deliver(c)
    <3>1. CASE call' = call
      BY <2>1, <3>1 DEF Deliver, Free, At
    <3>2. CASE Begin(c, "request", NextAttempt, NoToken)
      BY <2>1, <3>2, StartsWith DEF Deliver, Begin
    <3> QED BY <2>1, <3>1, <3>2 DEF Deliver
  <2>2. CASE PutRequest(c) \/ Enqueue(c) \/ Consult(c) \/ Adopt(c) \/ Retry(c)
               \/ Park(c) \/ Recheck(c)
    BY <2>2, GoesTo, StartsWith, Ended
       DEF PutRequest, Enqueue, Consult, Adopt, Retry, Park, Recheck, Begin
  <2> QED BY <1>2, <2>1, <2>2 DEF Execution
<1>3. CASE Maintenance(c)
  <2>1. CASE PurgeCheck(c)
    BY <2>1, Ended DEF PurgeCheck, CallsInv, CallType
  <2>2. CASE ~PurgeCheck(c)
    BY <1>3, <2>2, GoesTo, StartsWith, Ended
       DEF Maintenance, SelectUpload, DropObject, HeadObject, DropUpload, SelectUnheld,
           SelectOverdue, SelectSettled, CheckStale, CancelStale, DropExchange,
           HeadExchange, DropJob, Begin
  <2>3. UNCHANGED runnerVars
    BY <1>3 DEF Maintenance, SelectUpload, DropObject, HeadObject, DropUpload,
           SelectUnheld, SelectOverdue, SelectSettled, CheckStale, CancelStale,
           PurgeCheck, DropExchange, HeadExchange, DropJob
  <2> QED BY <2>1, <2>2, <2>3
<1>4. CASE SendThrows(c) \/ Die(c)
  BY <1>4, Ended DEF SendThrows, Die, Abort
<1> QED BY <1>1, <1>2, <1>3, <1>4

\* A step that belongs to no call: the clock, the pauses, the rollout.
Ambient == \/ PlaneTick \/ UNCHANGED planeVars
           \/ /\ PauseDelivery
              /\ denied' = denied \cup IF Takeable(ClaimLost) THEN {"pause"} ELSE {}
              /\ UNCHANGED <<now, boundVars>>
           \/ ResumePaused /\ UNCHANGED <<now, boundVars>>
           \/ (RolloutOff \/ RolloutOn \/ Depart \/ Freeze \/ Thaw) /\ UNCHANGED now

\* It leaves the table, the calls, the runner and the stores alone.
LEMMA AmbientStep ==
  ASSUME Ambient
  PROVE  UNCHANGED <<tableVars, call, runnerVars, storeVars>>
BY DEF Ambient, PlaneTick, Tick, PauseDelivery, ResumePaused, RolloutOff, RolloutOn,
       Depart, Switch, Freeze, Thaw, Freezing, planeVars, jobVars, tableVars

\* While each answer is sent once, a token has one call acting under it.
LEMMA SoleActorNext ==
  ASSUME AnswersOnce, PlaneInv, SoleActor, [PlaneNext]_planeVars
  PROVE  SoleActor'
<1>i. CallsInv
  BY DEF PlaneInv
<1>1. CASE Ambient
  BY <1>1, AmbientStep, ActorsStay DEF tableVars, runnerVars
<1>2. ASSUME NEW c \in Claims, Invocation(c) \/ SendThrows(c) \/ Die(c) PROVE SoleActor'
  <2>1. CASE Invocation(c) /\ (ClaimRoute(c) \/ AnswerRoutes(c))
    BY <2>1, RoutesSoleActor DEF Invocation
  <2>2. CASE ~(Invocation(c) /\ (ClaimRoute(c) \/ AnswerRoutes(c)))
    <3>1. \/ WakeUp(c) \/ Execution(c) \/ Maintenance(c) \/ SendThrows(c) \/ Die(c)
      BY <1>2, <2>2 DEF Invocation
    <3>2. /\ \A d \in Claims \ {c} : call'[d] = call[d]
          /\ call'[c].pc \notin ActSteps /\ UNCHANGED runnerVars
      BY <1>i, <3>1, RestActs
    <3>3. ~ClaimCall(c)
      BY <1>i, <3>2, StartsWith DEF ClaimCall, Begin, ActSteps, ClaimSteps
    <3>4. issued' = issued
      BY <1>2, <3>3, OnlyClaimsIssue
    <3> QED BY <3>2, <3>4, ActorsStay DEF runnerVars
  <2> QED BY <2>1, <2>2
<1> QED BY <1>1, <1>2 DEF PlaneNext, Ambient
-----------------------------------------------------------------------------
(* What a call does to the table *)

TableMove(c) ==
    LET k == call[c] IN
    \/ UNCHANGED tableVars
    \/ k.job \in Jobs /\ EnqueueJob(k.job, now) /\ k.pc = "enqueue"
    \/ \E j \in Jobs, t \in Tokens : ClaimJob(j, t, now) /\ k.pc = "idle"
    \/ /\ ReserveUpload(k.job, k.tok, k.at) \/ RefuseUpload(k.job, k.tok, k.at)
       /\ k.pc = "reserve"
    \/ CompleteJob(k.job, k.tok, k.at) /\ k.pc = "commit"
    \/ FailJob(k.job, k.tok, k.at) /\ k.pc \in {"fail", "refuse"}
    \/ ReleaseLease(k.job, k.tok, k.at) /\ k.pc = "release"
    \/ CancelJob(k.job, k.tok, k.at) /\ k.pc = "cancel"
    \/ CancelStaleJob(k.job, k.at) /\ k.pc = "cancelStale"
    \/ DeleteUpload(<<k.job, k.tok>>, k.at) /\ k.pc = "dropUpload"
    \/ DeleteJob(k.job, k.seen.status, k.seen.completedAt) /\ k.pc = "dropJob"

\* Every invocation makes one of these moves.
LEMMA InvocationMovesTable ==
  ASSUME CallsInv, NEW c \in Claims, Invocation(c) \/ SendThrows(c) \/ Die(c)
  PROVE  TableMove(c)
<1>1. ClaimRoute(c) => TableMove(c)
  BY DEF TableMove, ClaimRoute, ClaimCall, CheckOwner, Fetch, Release, Charge, Refuse,
         Reply, At, Free, ActSteps, ClaimSteps, AnswerSteps
<1>2. AnswerRoutes(c) => TableMove(c)
  BY DEF TableMove, AnswerRoutes, CompleteCall, CheckOwner, Reserve, PutResponse,
         CheckBeforeCommit, Commit, FailCall, Fail, Cancel, At, ActSteps, ClaimSteps,
         AnswerSteps
<1>3. WakeUp(c) => TableMove(c)
  BY DEF TableMove, WakeUp, Nudge, Wake, SendMessage, Mark, Sweep, ResumeForFirstOpen,
         Stamp
<1>4. Execution(c) => TableMove(c)
  <2>1. Enqueue(c) => TableMove(c)
    BY DEF TableMove, Enqueue, At, CallsInv, CallInv, JobSteps, Steps, ExecutorSteps
  <2> QED BY <2>1 DEF TableMove, Execution, Deliver, PutRequest, Consult, Adopt, Retry,
                      Park, Recheck
<1>5. Maintenance(c) => TableMove(c)
  BY DEF TableMove, Maintenance, SelectUpload, DropObject, HeadObject, DropUpload,
         SelectUnheld, SelectOverdue, SelectSettled, CheckStale, CancelStale,
         PurgeCheck, DropExchange, HeadExchange, DropJob, At
<1>6. SendThrows(c) \/ Die(c) => TableMove(c)
  BY DEF TableMove, SendThrows, Die, Abort, jobVars, tableVars
<1> QED BY <1>1, <1>2, <1>3, <1>4, <1>5, <1>6 DEF Invocation

\* A row under a live lease whose token somebody else acts for stays as it is,
\* and so does its line of the inventory.
LEMMA HeldRowStays ==
  ASSUME PlaneInv, NEW c \in Claims, NEW d \in Claims \ {c}, TableMove(c),
         call[d].pc \in ActSteps,
         call[c].pc \in ActSteps => call[c].tok # call[d].tok,
         row[call[d].job].status = "leased",
         row[call[d].job].token = call[d].tok,
         row[call[d].job].leaseUntil > now
  PROVE  /\ row'[call[d].job] = row[call[d].job]
         /\ <<call[d].job, call[d].tok>> \in uploads
               => <<call[d].job, call[d].tok>> \in uploads'
<1> DEFINE j == call[d].job
           k == call[c]
<1>i. /\ row \in [Jobs -> RowType] /\ now \in Nat /\ CallsInv
      /\ uploads \subseteq Jobs \X Tokens
  BY DEF PlaneInv, JobsInv, TypeOK
<1>j. j \in Jobs /\ row[j].leaseUntil \in Nat
  <2>1. call[d].pc \in JobSteps
    BY DEF ActSteps, JobSteps, Steps, ClaimSteps, AnswerSteps
  <2> QED BY <1>i, <2>1 DEF CallsInv, CallInv, RowType
<1>k. k.pc # "idle" => k.at \in Nat /\ k.at <= now
  BY <1>i, SampledInstant DEF PlaneInv, JobsInv, CallsInv, CallInv
<1>1. ASSUME NEW i \in Jobs, EnqueueJob(i, now) PROVE row'[j] = row[j] /\ uploads' = uploads
  BY <1>i, <1>j, <1>1 DEF EnqueueJob
<1>2. ASSUME NEW i \in Jobs, NEW t \in Tokens, ClaimJob(i, t, now)
      PROVE  row'[j] = row[j] /\ uploads' = uploads
  BY <1>i, <1>j, <1>2 DEF ClaimJob, Claimable
<1>3. ASSUME \/ ReserveUpload(k.job, k.tok, k.at) \/ RefuseUpload(k.job, k.tok, k.at)
             \/ CompleteJob(k.job, k.tok, k.at) \/ FailJob(k.job, k.tok, k.at)
             \/ ReleaseLease(k.job, k.tok, k.at) \/ CancelJob(k.job, k.tok, k.at),
             k.pc \in ActSteps
      PROVE  row'[j] = row[j] /\ uploads \subseteq uploads'
  <2>1. HoldsLease(k.job, k.tok, k.at)
    BY <1>3 DEF ReserveUpload, RefuseUpload, CompleteJob, FailJob, ReleaseLease, CancelJob
  <2>2. k.job # j
    BY <1>3, <2>1 DEF HoldsLease
  <2> QED BY <1>i, <1>j, <1>3, <2>2
          DEF ReserveUpload, RefuseUpload, CompleteJob, FailJob, ReleaseLease, CancelJob,
              Settled, Cancelled
<1>4. ASSUME CancelStaleJob(k.job, k.at), k.pc = "cancelStale"
      PROVE  row'[j] = row[j] /\ uploads' = uploads
  <2>1. k.job # j
    BY <1>j, <1>k, <1>i, <1>4 DEF CancelStaleJob
  <2> QED BY <1>i, <1>j, <1>4, <2>1 DEF CancelStaleJob, Cancelled
<1>5. ASSUME DeleteUpload(<<k.job, k.tok>>, k.at), k.pc = "dropUpload"
      PROVE  /\ row'[j] = row[j]
             /\ <<j, call[d].tok>> \in uploads => <<j, call[d].tok>> \in uploads'
  <2>1. <<k.job, k.tok>> # <<j, call[d].tok>>
    BY <1>j, <1>k, <1>i, <1>5 DEF DeleteUpload, UploadIsStale, HoldsLease
  <2> QED BY <1>5, <2>1 DEF DeleteUpload
<1>6. ASSUME DeleteJob(k.job, k.seen.status, k.seen.completedAt)
      PROVE  /\ row'[j] = row[j]
             /\ <<j, call[d].tok>> \in uploads => <<j, call[d].tok>> \in uploads'
  BY <1>i, <1>j, <1>6 DEF DeleteJob, Terminal
<1>7. CASE UNCHANGED tableVars
  BY <1>7 DEF tableVars
<1> QED BY <1>1, <1>2, <1>3, <1>4, <1>5, <1>6, <1>7
        DEF TableMove, ActSteps, ClaimSteps, AnswerSteps
-----------------------------------------------------------------------------
(* What a call does to the inventory and to the response objects           *)

Aimed(c) == <<call[c].job, call[c].tok>>
CallStep(c) == Invocation(c) \/ SendThrows(c) \/ Die(c)

SweepSteps == {"dropObject", "headObject", "dropUpload"}

\* Three steps move the response objects, and they leave the table alone.
ObjectMove(c) ==
    \/ objects' = objects
    \/ PutResponse(c) /\ objects' = objects \cup {Aimed(c)}
    \/ DropObject(c) /\ objects' = objects \ {Aimed(c)}
    \/ DropExchange(c) /\ objects' = objects \ ExchangeObjects(call[c])

\* Every invocation makes one of these moves.
LEMMA InvocationMovesObjects ==
  ASSUME NEW c \in Claims, CallStep(c)
  PROVE  ObjectMove(c)
<1> USE DEF storeVars
<1>1. ClaimRoute(c) => objects' = objects
  BY DEF ClaimRoute, ClaimCall, CheckOwner, Fetch, Release, Charge, Refuse, Reply
<1>2. AnswerRoutes(c) => ObjectMove(c)
  BY DEF ObjectMove, Aimed, AnswerRoutes, CompleteCall, CheckOwner, Reserve, PutResponse,
         CheckBeforeCommit, Commit, FailCall, Fail, Cancel
<1>3. WakeUp(c) => objects' = objects
  BY DEF WakeUp, Nudge, Wake, SendMessage, Mark, Sweep, ResumeForFirstOpen, Stamp
<1>4. Execution(c) => objects' = objects
  BY DEF Execution, Deliver, PutRequest, Enqueue, Consult, Adopt, Retry, Park, Recheck
<1>5. Maintenance(c) => ObjectMove(c)
  BY DEF ObjectMove, Aimed, Maintenance, SelectUpload, DropObject, HeadObject,
         DropUpload, SelectUnheld, SelectOverdue, SelectSettled, CheckStale,
         CancelStale, PurgeCheck, DropExchange, HeadExchange, DropJob
<1>6. SendThrows(c) \/ Die(c) => objects' = objects
  BY DEF SendThrows, Die, Abort
<1> QED BY <1>1, <1>2, <1>3, <1>4, <1>5, <1>6 DEF CallStep, Invocation, ObjectMove

\* A row comes to be completed by the commit of the call that holds it.
LEMMA CompletedByCommit ==
  ASSUME TypeOK, NEW c \in Claims, TableMove(c), NEW j \in Jobs,
         row'[j].status = "completed"
  PROVE  \/ row'[j] = row[j]
         \/ /\ call[c].pc = "commit" /\ call[c].job = j
            /\ row'[j].answer = call[c].tok
<1> DEFINE k == call[c]
<1>i. row \in [Jobs -> RowType]
  BY DEF TypeOK
<1>1. ASSUME NEW i \in Jobs, EnqueueJob(i, now) PROVE row'[j] = row[j]
  BY <1>i, <1>1 DEF EnqueueJob, Absent
<1>2. ASSUME NEW i \in Jobs, NEW t \in Tokens, ClaimJob(i, t, now)
      PROVE  row'[j] = row[j]
  BY <1>i, <1>2 DEF ClaimJob, RowType
<1>3. ASSUME \/ ReserveUpload(k.job, k.tok, k.at) \/ RefuseUpload(k.job, k.tok, k.at)
      PROVE  row'[j] = row[j]
  <2>1. CASE row' = row
    BY <2>1
  <2>2. CASE ReserveUpload(k.job, k.tok, k.at)
    <3>1. k.job # j => row'[j] = row[j]
      BY <1>i, <2>2 DEF ReserveUpload
    <3>2. k.job = j => row[j].status = "leased" /\ row'[j].status = row[j].status
      BY <1>i, <2>2 DEF ReserveUpload, HoldsLease, RowType
    <3> QED BY <3>1, <3>2
  <2> QED BY <1>3, <2>1, <2>2 DEF RefuseUpload
<1>4. ASSUME \/ FailJob(k.job, k.tok, k.at) \/ ReleaseLease(k.job, k.tok, k.at)
             \/ CancelJob(k.job, k.tok, k.at) \/ CancelStaleJob(k.job, k.at)
      PROVE  row'[j] = row[j]
  <2>1. CASE k.job = j
    <3>1. row[j] \in RowType
      BY <1>i
    <3>2. row'[j].status \in {"failed", "pending", "cancelled"}
      <4>1. CASE FailJob(k.job, k.tok, k.at)
        BY <1>i, <2>1, <3>1, <4>1 DEF FailJob, Settled, RowType
      <4>2. CASE ReleaseLease(k.job, k.tok, k.at)
        BY <1>i, <2>1, <3>1, <4>2 DEF ReleaseLease, RowType
      <4>3. CASE CancelJob(k.job, k.tok, k.at) \/ CancelStaleJob(k.job, k.at)
        <5>1. Cancelled(j, k.at)
          BY <2>1, <4>3 DEF CancelJob, CancelStaleJob
        <5> QED BY <1>i, <3>1, <5>1 DEF Cancelled, RowType
      <4> QED BY <1>4, <4>1, <4>2, <4>3
    <3> QED BY <3>2
  <2>2. CASE k.job # j
    BY <1>i, <1>4, <2>2
       DEF FailJob, ReleaseLease, CancelJob, CancelStaleJob, Settled, Cancelled
  <2> QED BY <2>1, <2>2
<1>5. ASSUME CompleteJob(k.job, k.tok, k.at)
      PROVE  row'[j] = row[j] \/ (k.job = j /\ row'[j].answer = k.tok)
  <2>1. CASE k.job = j
    <3>1. row[j] \in RowType
      BY <1>i
    <3>2. row'[j].answer = k.tok
      BY <1>i, <1>5, <2>1, <3>1 DEF CompleteJob, Settled, RowType
    <3> QED BY <2>1, <3>2
  <2>2. CASE k.job # j
    BY <1>i, <1>5, <2>2 DEF CompleteJob, Settled
  <2> QED BY <2>1, <2>2
<1>6. ASSUME DeleteJob(k.job, k.seen.status, k.seen.completedAt)
      PROVE  row'[j] = row[j]
  BY <1>i, <1>6 DEF DeleteJob, Absent
<1> QED BY <1>1, <1>2, <1>3, <1>4, <1>5, <1>6 DEF TableMove, tableVars, DeleteUpload

\* Only an execution makes a row.
LEMMA MadeByEnqueue ==
  ASSUME TypeOK, NEW c \in Claims, TableMove(c), call[c].pc # "enqueue",
         NEW j \in Jobs, row[j].status = "absent"
  PROVE  row'[j].status = "absent"
<1> DEFINE k == call[c]
<1>i. row \in [Jobs -> RowType]
  BY DEF TypeOK
<1>2. ASSUME NEW i \in Jobs, NEW t \in Tokens, ClaimJob(i, t, now)
      PROVE  row'[j] = row[j]
  BY <1>i, <1>2 DEF ClaimJob, Claimable
<1>3. ASSUME \/ ReserveUpload(k.job, k.tok, k.at) \/ RefuseUpload(k.job, k.tok, k.at)
             \/ CompleteJob(k.job, k.tok, k.at)
             \/ FailJob(k.job, k.tok, k.at) \/ ReleaseLease(k.job, k.tok, k.at)
             \/ CancelJob(k.job, k.tok, k.at) \/ CancelStaleJob(k.job, k.at)
      PROVE  row'[j] = row[j]
  BY <1>i, <1>3 DEF ReserveUpload, RefuseUpload, CompleteJob, FailJob, ReleaseLease,
                    CancelJob, CancelStaleJob, Settled, Cancelled, HoldsLease
<1>4. ASSUME DeleteJob(k.job, k.seen.status, k.seen.completedAt)
      PROVE  row'[j].status = "absent"
  BY <1>i, <1>4 DEF DeleteJob, Absent
<1> QED BY <1>2, <1>3, <1>4 DEF TableMove, tableVars, DeleteUpload

\* An upload is listed for a lease that is held, by the reservation.
LEMMA ListedByReservation ==
  ASSUME TypeOK, NEW c \in Claims, TableMove(c), NEW u \in uploads', u \notin uploads
  PROVE  /\ call[c].pc = "reserve" /\ u = Aimed(c)
         /\ HoldsLease(call[c].job, call[c].tok, call[c].at)
BY DEF TableMove, tableVars, EnqueueJob, ClaimJob, ReserveUpload, RefuseUpload,
       CompleteJob, FailJob, ReleaseLease, CancelJob, CancelStaleJob, DeleteUpload,
       DeleteJob, Aimed

\* An upload leaves the inventory by itself, or with the row of its job.
LEMMA UnlistedByMaintenance ==
  ASSUME TypeOK, NEW c \in Claims, TableMove(c), NEW u \in uploads, u \notin uploads'
  PROVE  \/ call[c].pc = "dropUpload" /\ u = Aimed(c)
         \/ call[c].pc = "dropJob" /\ u[1] = call[c].job
BY DEF TableMove, tableVars, EnqueueJob, ClaimJob, ReserveUpload, RefuseUpload,
       CompleteJob, FailJob, ReleaseLease, CancelJob, CancelStaleJob, DeleteUpload,
       DeleteJob, Aimed
-----------------------------------------------------------------------------
(* How a call comes to its step                                            *)

\* A call comes to act by claiming a fresh token or by an answer that was still
\* to come; and a call that stores goes on to store or to cancel.
LEMMA ActingMoves ==
  ASSUME CallsInv, NEW c \in Claims, CallStep(c), call'[c].pc \in ActSteps
  PROVE  \/ call'[c].tok \in Unissued
         \/ answers[call'[c].tok].left > 0
         \/ /\ call[c].pc \in ActSteps
            /\ call'[c].job = call[c].job /\ call'[c].tok = call[c].tok
            /\ call[c].pc \in StoreSteps \cup {"cancel"}
                  => call'[c].pc \in StoreSteps \cup {"cancel"}
<1>1. Invocation(c) /\ (ClaimRoute(c) \/ AnswerRoutes(c))
  BY RestActs DEF CallStep, Invocation
<1>2. CASE ClaimCall(c)
  BY <1>2, StartsWith DEF ClaimCall, ClaimJob, Begin
<1>3. CASE Arrival(c)
  <2>1. PICK j \in Jobs, t \in Tokens : CompleteCall(c, j, t) \/ FailCall(c, j, t)
    BY <1>3 DEF Arrival
  <2>2. answers[t].left > 0
    BY <2>1 DEF CompleteCall, FailCall, Arrives
  <2>3. call' = call \/ call'[c].tok = t
    BY <2>1, StartsWith DEF CompleteCall, FailCall, Begin
  <2>4. call[c].pc = "idle"
    BY <2>1 DEF CompleteCall, FailCall, Free, At
  <2> QED BY <2>2, <2>3, <2>4 DEF ActSteps, ClaimSteps, AnswerSteps
<1> QED BY <1>1, <1>2, <1>3, ActGoesOn

\* A call comes to store by a reservation, and puts before it commits.
LEMMA StoringMoves ==
  ASSUME CallsInv, NEW c \in Claims, CallStep(c), call'[c].pc \in StoreSteps
  PROVE  /\ call'[c].job = call[c].job /\ call'[c].tok = call[c].tok
         /\ \/ /\ call[c].pc = "reserve" /\ call'[c].pc = "checkBeforePut"
               /\ ReserveUpload(call[c].job, call[c].tok, call[c].at)
               /\ call'[c].at = call[c].at
            \/ /\ call[c].pc = "checkBeforePut" /\ call'[c].pc = "put"
               /\ UNCHANGED tableVars /\ call'[c].at = call[c].at
            \/ /\ call[c].pc = "put" /\ call'[c].pc = "checkBeforeCommit"
               /\ UNCHANGED tableVars /\ objects' = objects \cup {Aimed(c)}
               /\ call'[c].at = call[c].at
            \/ /\ call[c].pc = "checkBeforeCommit" /\ call'[c].pc = "commit"
               /\ UNCHANGED tableVars /\ call'[c].at = now
<1>1. Invocation(c) /\ (ClaimRoute(c) \/ AnswerRoutes(c))
  BY RestActs DEF CallStep, Invocation, StoreSteps, ActSteps, AnswerSteps
<1>2. ~ClaimCall(c) /\ ~Arrival(c)
  BY StartsWith DEF ClaimCall, Arrival, CompleteCall, FailCall, Begin, StoreSteps, Free, At
<1>3. CASE Reserve(c) /\ call'[c].pc = "checkBeforePut"
  BY <1>3, GoesTo, Ended DEF Reserve, At
<1>4. CASE CheckOwner(c, "checkBeforePut", "put")
  BY <1>4, GoesTo DEF CheckOwner, At, StoreSteps
<1>5. CASE PutResponse(c) /\ call'[c].pc = "checkBeforeCommit"
  BY <1>5, GoesTo, Ended DEF PutResponse, At, Aimed
<1>6. CASE CheckBeforeCommit(c)
  BY <1>6, ChecksCommit DEF CheckBeforeCommit, At, StoreSteps
<1> QED BY <1>1, <1>2, <1>3, <1>4, <1>5, <1>6, ActGoesOn
        DEF StoreSteps, ActSteps, AnswerSteps

\* Only the maintenance pass sweeps and purges.
LEMMA MaintenanceBegins ==
  ASSUME CallsInv, NEW c \in Claims, CallStep(c),
         call'[c].pc \in SweepSteps \cup DropSteps
  PROVE  Maintenance(c) /\ UNCHANGED now
<1> USE DEF SweepSteps, DropSteps, At, Free
<1>1. ~SendThrows(c) /\ ~Die(c)
  BY Ended DEF SendThrows, Die, Abort
<1>2. ~ClaimRoute(c) /\ ~AnswerRoutes(c)
  <2>1. ~ClaimRoute(c)
    BY GoesTo, StartsWith, Ended
       DEF ClaimRoute, ClaimCall, CheckOwner, Fetch, Release, Charge, Refuse, Reply, Begin
  <2>2. ~CheckBeforeCommit(c)
    BY ChecksCommit
  <2>3. ~Arrival(c)
    BY StartsWith DEF Arrival, CompleteCall, FailCall, Begin
  <2>4. ~AnswerRoutes(c)
    BY <2>2, <2>3, GoesTo, Ended
       DEF AnswerRoutes, Arrival, CheckOwner, Reserve, PutResponse, Commit, Fail, Cancel
  <2> QED BY <2>1, <2>4
<1>3. ~WakeUp(c)
  BY GoesTo, StartsWith, Ended
     DEF WakeUp, Nudge, Wake, SendMessage, Mark, Sweep, ResumeForFirstOpen, Stamp, Begin
<1>4. ~Execution(c)
  <2>1. ~Deliver(c)
    BY StartsWith DEF Deliver, Begin
  <2> QED BY <2>1, GoesTo, StartsWith, Ended
          DEF Execution, PutRequest, Enqueue, Consult, Adopt, Retry, Park, Recheck, Begin
<1> QED BY <1>1, <1>2, <1>3, <1>4 DEF CallStep, Invocation

\* A call comes to sweep an upload by finding it stale, and drops its row once
\* the object is gone.
LEMMA SweepingMoves ==
  ASSUME TypeOK, CallsInv, NEW c \in Claims, CallStep(c), call'[c].pc \in SweepSteps
  PROVE  /\ UNCHANGED <<now, tableVars>>
         /\ \/ /\ call[c].pc = "idle" /\ call'[c].pc = "dropObject"
               /\ Aimed(c)' \in uploads /\ call'[c].at \in Sampled
               /\ UploadIsStale(Aimed(c)', call'[c].at)
               /\ objects' = objects
            \/ /\ call[c].pc = "dropObject" /\ call'[c].pc = "headObject"
               /\ call'[c].job = call[c].job /\ call'[c].tok = call[c].tok
               /\ objects' = objects \ {Aimed(c)}
            \/ /\ call[c].pc = "headObject" /\ call'[c].pc = "dropUpload"
               /\ call'[c].job = call[c].job /\ call'[c].tok = call[c].tok
               /\ Aimed(c) \notin objects /\ objects' = objects
<1> USE DEF SweepSteps, At, Free
<1>1. Maintenance(c) /\ UNCHANGED now
  BY MaintenanceBegins DEF SweepSteps
<1>2. ASSUME NEW u \in uploads, SelectUpload(c, u)
      PROVE  /\ UNCHANGED tableVars /\ objects' = objects
             /\ call[c].pc = "idle" /\ call'[c].pc = "dropObject"
             /\ Aimed(c)' = <<u[1], u[2]>> /\ call'[c].at \in Sampled
             /\ UploadIsStale(u, call'[c].at)
  BY <1>2, StartsWith DEF SelectUpload, Aimed, storeVars
<1>3. ASSUME DropObject(c) \/ HeadObject(c) \/ DropUpload(c)
      PROVE  /\ UNCHANGED tableVars
             /\ \/ /\ call[c].pc = "dropObject" /\ call'[c].pc = "headObject"
                   /\ call'[c].job = call[c].job /\ call'[c].tok = call[c].tok
                   /\ objects' = objects \ {Aimed(c)}
                \/ /\ call[c].pc = "headObject" /\ call'[c].pc = "dropUpload"
                   /\ call'[c].job = call[c].job /\ call'[c].tok = call[c].tok
                   /\ Aimed(c) \notin objects /\ objects' = objects
  BY <1>3, GoesTo, Ended DEF DropObject, HeadObject, DropUpload, Aimed, storeVars
<1>4. ~PurgeCheck(c)
  BY Ended DEF PurgeCheck, CallsInv, CallType
<1>5. \/ \E u \in uploads : SelectUpload(c, u)
      \/ DropObject(c) \/ HeadObject(c) \/ DropUpload(c)
  BY <1>1, <1>4, GoesTo, StartsWith, Ended
     DEF Maintenance, SelectUnheld, SelectOverdue, SelectSettled, CheckStale,
         CancelStale, DropExchange, HeadExchange, DropJob, Begin
<1>6. CASE \E u \in uploads : SelectUpload(c, u)
  <2>1. PICK u \in uploads : SelectUpload(c, u)
    BY <1>6
  <2>2. <<u[1], u[2]>> = u
    BY DEF TypeOK
  <2> QED BY <1>1, <1>2, <2>1, <2>2
<1> QED BY <1>1, <1>3, <1>5, <1>6

\* A call comes to purge by reading a settled row without loose uploads, and
\* drops the row once the objects of the exchange are gone.
LEMMA PurgingMoves ==
  ASSUME CallsInv, NEW c \in Claims, CallStep(c), call'[c].pc \in DropSteps
  PROVE  /\ UNCHANGED tableVars /\ call'[c].job = call[c].job
         /\ \/ /\ call[c].pc = "purgeCheck" /\ call'[c].pc = "dropExchange"
               /\ call'[c].seen = row[call[c].job]
               /\ row[call[c].job].completedAt # 0 /\ Uncommitted(call[c].job) = {}
               /\ objects' = objects
            \/ /\ call[c].pc = "dropExchange" /\ call'[c].pc = "headExchange"
               /\ call'[c].seen = call[c].seen
               /\ objects' = objects \ ExchangeObjects(call[c])
            \/ /\ call[c].pc = "headExchange" /\ call'[c].pc = "dropJob"
               /\ call'[c].seen = call[c].seen
               /\ ExchangeObjects(call[c]) \cap objects = {} /\ objects' = objects
<1> USE DEF DropSteps, At, Free
<1>1. Maintenance(c)
  BY MaintenanceBegins DEF DropSteps
<1>2. CASE PurgeCheck(c)
  BY <1>2, Ended DEF PurgeCheck, CallsInv, CallType, storeVars
<1>3. CASE DropExchange(c)
  BY <1>3, GoesTo DEF DropExchange
<1>4. CASE HeadExchange(c)
  BY <1>4, GoesTo, Ended DEF HeadExchange, storeVars
<1>5. CASE ~PurgeCheck(c) /\ ~DropExchange(c) /\ ~HeadExchange(c)
  BY <1>1, <1>5, GoesTo, StartsWith, Ended
     DEF Maintenance, SelectUpload, DropObject, HeadObject, DropUpload, SelectUnheld,
         SelectOverdue, SelectSettled, CheckStale, CancelStale, DropJob, Begin
<1> QED BY <1>2, <1>3, <1>4, <1>5
-----------------------------------------------------------------------------
(* The inventory and the objects                                           *)
(*                                                                         *)
(* The two stores are not written in one batch: a reservation lists an     *)
(* upload, the object follows steps later, and the maintenance pass takes  *)
(* objects and rows away in between.  What keeps them apart is time.  A    *)
(* reservation stretches the lease by UploadExtension, which is minutes,   *)
(* and a handler is gone before two of its instants are over: so whoever   *)
(* still stores for a token holds the lease by the wall clock, and an      *)
(* upload under a held lease is not garbage.                               *)

UploadsOutlastHandlers == UploadExtension > 2 * MaxLag

StoresFor(c, t) == call[c].pc \in StoreSteps /\ call[c].tok = t

\* A token with an upload, listed or being swept, has no answer left to come,
\* and nobody acts under it but to store the response or to cancel.
Reserved(t) == \/ \E u \in uploads : u[2] = t
               \/ \E c \in Claims : call[c].pc \in SweepSteps /\ call[c].tok = t

Consumed ==
    \A t \in Tokens : Reserved(t) =>
       /\ issued[t] # {} /\ answers[t].left = 0
       /\ \A c \in Claims : call[c].pc \in ActSteps /\ call[c].tok = t
                            => call[c].pc \in StoreSteps \cup {"cancel"}

StoreHeld(c) ==
    LET k == call[c] IN
    k.pc \in StoreSteps =>
       /\ row[k.job].status = "leased" /\ row[k.job].token = k.tok
       /\ row[k.job].leaseUntil > k.at + MaxLag
       /\ k.pc # "commit" => row[k.job].leaseUntil > k.at + 2 * MaxLag
       /\ Aimed(c) \in uploads
       /\ k.pc \in {"checkBeforeCommit", "commit"} => Aimed(c) \in objects

\* Who sweeps an upload is alone with it.
SweepsAlone(c) ==
    LET k == call[c] IN
    /\ k.pc \in SweepSteps =>
          /\ \A d \in Claims : ~StoresFor(d, k.tok)
          /\ ~UploadIsCommitted(Aimed(c))
    /\ k.pc = "dropUpload" => Aimed(c) \notin objects

\* Who purges a job has read its verdict, and every upload there is.
PurgesSettled(c) ==
    LET k == call[c] IN
    /\ k.pc \in DropSteps =>
          /\ \/ row[k.job] = k.seen /\ k.seen.status \in Terminal
             \/ row[k.job].status = "absent"
          /\ \A u \in uploads : u[1] = k.job => u \in ExchangeObjects(k)
    /\ k.pc = "dropJob" => ExchangeObjects(k) \cap objects = {}

CommittedExists ==
    \A j \in Jobs : row[j].status = "completed" /\ OwnerLive
                    => CommittedUpload(j) \in objects

StoreInv == /\ SoleActor
            /\ Consumed
            /\ \A c \in Claims : StoreHeld(c)
            /\ \A c \in Claims : SweepsAlone(c)
            /\ \A c \in Claims : PurgesSettled(c)
            /\ ObjectsAreInventoried
            /\ CommittedExists

\* An upload is listed, or swept, by a reservation of its token.
LEMMA ReservedByReservation ==
  ASSUME TypeOK, CallsInv, NEW c \in Claims, CallStep(c), TableMove(c),
         \A d \in Claims \ {c} : call'[d] = call[d],
         NEW t \in Tokens, Reserved(t)', ~Reserved(t)
  PROVE  call[c].pc = "reserve" /\ call[c].tok = t
<1>1. CASE \E u \in uploads' : u[2] = t
  <2>1. PICK u \in uploads' : u[2] = t
    BY <1>1
  <2>2. u \notin uploads
    BY <2>1 DEF Reserved
  <2> QED BY <2>1, <2>2, ListedByReservation DEF Aimed
<1>2. CASE \E d \in Claims : call'[d].pc \in SweepSteps /\ call'[d].tok = t
  <2>1. PICK d \in Claims : call'[d].pc \in SweepSteps /\ call'[d].tok = t
    BY <1>2
  <2>2. d = c
    BY <2>1 DEF Reserved
  <2>3. CASE Aimed(c)' \in uploads
    BY <2>1, <2>2, <2>3 DEF Reserved, Aimed
  <2>4. CASE call[c].pc \in SweepSteps /\ call'[c].tok = call[c].tok
    BY <2>1, <2>2, <2>4 DEF Reserved
  <2> QED BY <2>1, <2>2, <2>3, <2>4, SweepingMoves DEF SweepSteps
<1> QED BY <1>1, <1>2 DEF Reserved

\* Tokens are not minted twice, and an answer that has come does not come again.
LEMMA SpentStays ==
  ASSUME PlaneInv, NEW c \in Claims, CallStep(c), NEW t \in Tokens,
         issued[t] # {}, answers[t].left = 0, call[c].tok = t => call[c].pc # "reply"
  PROVE  issued'[t] # {} /\ answers'[t].left = 0
<1>i. /\ issued \in [Tokens -> SUBSET Jobs]
      /\ answers \in [Tokens -> [verdict : {"none", "complete", "fail"},
                                 left : 0 .. MaxSends]]
      /\ CallsInv
  BY DEF PlaneInv, RestOK, JobsInv, TypeOK
<1>1. issued'[t] # {}
  <2>1. CASE ClaimCall(c)
    BY <1>i, <2>1 DEF ClaimCall, ClaimJob, Unissued
  <2>2. CASE ~ClaimCall(c)
    BY <2>2, OnlyClaimsIssue DEF CallStep
  <2> QED BY <2>1, <2>2
<1>2. answers'[t].left = 0
  <2>1. CASE Arrival(c)
    <3>1. PICK s \in Tokens : /\ answers[s].left > 0
                              /\ answers' = [answers EXCEPT ![s].left = @ - 1]
      BY <2>1 DEF Arrival, CompleteCall, FailCall, Arrives
    <3>2. s # t
      BY <3>1
    <3> QED BY <1>i, <3>1, <3>2
  <2>2. CASE Reply(c)
    BY <1>i, <2>2 DEF Reply, At
  <2>3. CASE ~Arrival(c) /\ ~Reply(c) /\ Invocation(c) /\ (ClaimRoute(c) \/ AnswerRoutes(c))
    BY <2>3 DEF ClaimRoute, ClaimCall, CheckOwner, Fetch, Release, Charge, Refuse,
                AnswerRoutes, Reserve, PutResponse, CheckBeforeCommit, Commit, Fail,
                Cancel, Arrival, runnerVars
  <2> QED BY <1>i, <2>1, <2>2, <2>3, RestActs DEF CallStep, Invocation, runnerVars
<1> QED BY <1>1, <1>2

\* A token with an upload stays consumed.
LEMMA ConsumedNext ==
  ASSUME PlaneInv, SoleActor, Consumed, NEW c \in Claims, CallStep(c),
         TableMove(c), \A d \in Claims \ {c} : call'[d] = call[d]
  PROVE  Consumed'
<1>i. TypeOK /\ CallsInv
  BY DEF PlaneInv, JobsInv
<1> SUFFICES ASSUME NEW t \in Tokens, Reserved(t)'
             PROVE  /\ issued'[t] # {} /\ answers'[t].left = 0
                    /\ \A d \in Claims : call'[d].pc \in ActSteps /\ call'[d].tok = t
                                         => call'[d].pc \in StoreSteps \cup {"cancel"}
  BY DEF Consumed
<1>1. CASE Reserved(t)
  <2>1. /\ issued[t] # {} /\ answers[t].left = 0
        /\ \A d \in Claims : call[d].pc \in ActSteps /\ call[d].tok = t
                             => call[d].pc \in StoreSteps \cup {"cancel"}
    BY <1>1 DEF Consumed
  <2>2. call[c].tok = t => call[c].pc # "reply"
    BY <2>1 DEF ActSteps, ClaimSteps, StoreSteps
  <2>3. issued'[t] # {} /\ answers'[t].left = 0
    BY <2>1, <2>2, SpentStays
  <2>4. ASSUME call'[c].pc \in ActSteps, call'[c].tok = t
        PROVE  call'[c].pc \in StoreSteps \cup {"cancel"}
    <3>1. t \notin Unissued /\ ~(answers[t].left > 0)
      BY <2>1 DEF Unissued
    <3> QED BY <1>i, <2>1, <2>4, <3>1, ActingMoves
  <2> QED BY <2>1, <2>3, <2>4
<1>2. CASE ~Reserved(t)
  <2>1. call[c].pc = "reserve" /\ call[c].tok = t
    BY <1>i, <1>2, ReservedByReservation
  <2>2. /\ issued[t] # {} /\ answers[t].left = 0
        /\ \A d \in Claims \ {c} : call[d].pc \in ActSteps => call[d].tok # t
    BY <2>1 DEF SoleActor, ActSteps, AnswerSteps
  <2>3. issued'[t] # {} /\ answers'[t].left = 0
    BY <2>1, <2>2, SpentStays
  <2>4. call'[c].pc \in ActSteps => call'[c].pc \in StoreSteps
    <3>1. SendThrows(c) \/ Die(c) => call'[c].pc = "idle"
      BY <1>i, Ended DEF SendThrows, Die, Abort
    <3>2. Reserve(c) => call'[c].pc \in {"checkBeforePut", "idle"}
      BY <1>i, GoesTo, Ended DEF Reserve
    <3>3. Invocation(c) => Reserve(c)
      BY <2>1 DEF Invocation, At, Free, ClaimRoute, ClaimCall, CheckOwner, Fetch, Release,
                  Charge, Refuse, Reply, AnswerRoutes, CompleteCall, PutResponse,
                  CheckBeforeCommit, Commit, FailCall, Fail, Cancel, WakeUp, Nudge, Wake,
                  SendMessage, Mark, Sweep, ResumeForFirstOpen, Stamp, Execution, Deliver,
                  PutRequest, Enqueue, Consult, Adopt, Retry, Park, Recheck, Maintenance,
                  SelectUpload, DropObject, HeadObject, DropUpload, SelectUnheld,
                  SelectOverdue, SelectSettled, CheckStale, CancelStale, PurgeCheck,
                  DropExchange, HeadExchange, DropJob
    <3> QED BY <3>1, <3>2, <3>3 DEF CallStep, ActSteps, ClaimSteps, AnswerSteps, StoreSteps
  <2> QED BY <2>2, <2>3, <2>4
<1> QED BY <1>1, <1>2

\* Whoever stores holds the lease by the wall clock.
LEMMA StorersHold ==
  ASSUME PlaneInv, NEW d \in Claims, StoreHeld(d), call[d].pc \in StoreSteps
  PROVE  /\ call[d].job \in Jobs /\ call[d].tok \in Tokens
         /\ row[call[d].job].status = "leased" /\ row[call[d].job].token = call[d].tok
         /\ row[call[d].job].leaseUntil > now
         /\ call[d].pc \in ActSteps
         /\ call[d].at \in Nat /\ now <= call[d].at + MaxLag
<1>1. call[d].pc \in JobSteps /\ call[d].pc \in TokenSteps /\ call[d].pc \in ActSteps
      /\ call[d].pc # "idle"
  BY DEF StoreSteps, ActSteps, JobSteps, TokenSteps, Steps, ClaimSteps, AnswerSteps
<1>2. call[d].job \in Jobs /\ call[d].tok \in Tokens /\ call[d].at \in Sampled
  BY <1>1 DEF PlaneInv, CallsInv, CallInv
<1>3. row[call[d].job].leaseUntil \in Nat /\ now \in Nat
  BY <1>2 DEF PlaneInv, JobsInv, TypeOK, RowType
<1>4. call[d].at \in Nat /\ now <= call[d].at + MaxLag
  BY <1>2, <1>3 DEF Sampled
<1> QED BY <1>1, <1>2, <1>3, <1>4 DEF StoreHeld

\* A call that stores keeps its lease, its line of the inventory and its object
\* while others move.
LEMMA StoreHeldByOthers ==
  ASSUME PlaneInv, StoreInv, NEW c \in Claims, TableMove(c), ObjectMove(c),
         NEW d \in Claims \ {c}, call'[d] = call[d]
  PROVE  StoreHeld(d)'
<1> SUFFICES ASSUME call[d].pc \in StoreSteps PROVE StoreHeld(d)'
  BY DEF StoreHeld
<1>1. StoreHeld(d) /\ SoleActor
  BY DEF StoreInv
<1>2. /\ call[d].job \in Jobs /\ call[d].tok \in Tokens
      /\ row[call[d].job].status = "leased" /\ row[call[d].job].token = call[d].tok
      /\ row[call[d].job].leaseUntil > now
      /\ call[d].pc \in ActSteps
  BY <1>1, StorersHold
<1>3. row'[call[d].job] = row[call[d].job] /\ Aimed(d) \in uploads'
  BY <1>1, <1>2, HeldRowStays DEF StoreHeld, Aimed, SoleActor
<1>4. Aimed(d) \in objects => Aimed(d) \in objects'
  <2>1. CASE DropObject(c)
    <3>1. SweepsAlone(c) /\ call[c].pc \in SweepSteps
      BY <2>1 DEF StoreInv, DropObject, At, SweepSteps
    <3>2. call[c].tok # call[d].tok
      BY <3>1 DEF SweepsAlone, StoresFor
    <3> QED BY <3>2, <2>1 DEF DropObject, Aimed
  <2>2. CASE DropExchange(c)
    <3>1. PurgesSettled(c) /\ call[c].pc \in DropSteps
      BY <2>2 DEF StoreInv, DropExchange, At, DropSteps
    <3>2. call[c].job # call[d].job
      BY <1>2, <3>1 DEF PurgesSettled, Terminal
    <3> QED BY <3>2, <2>2 DEF DropExchange, Aimed, ExchangeObjects
  <2> QED BY <2>1, <2>2 DEF ObjectMove
<1>5. Aimed(d)' = Aimed(d)
  BY DEF Aimed
<1> QED BY <1>1, <1>3, <1>4, <1>5 DEF StoreHeld

\* A call that comes to store has reserved: its lease outlasts its handler.
LEMMA StoreHeldByItself ==
  ASSUME UploadsOutlastHandlers, PlaneInv, StoreInv, NEW c \in Claims, CallStep(c)
  PROVE  StoreHeld(c)'
<1> SUFFICES ASSUME call'[c].pc \in StoreSteps PROVE StoreHeld(c)'
  BY DEF StoreHeld
<1> DEFINE k == call[c]
           j == call[c].job
<1>i. CallsInv /\ StoreHeld(c)
  BY DEF PlaneInv, StoreInv
<1>1. /\ call'[c].job = j /\ call'[c].tok = k.tok /\ Aimed(c)' = Aimed(c)
  BY <1>i, StoringMoves DEF Aimed
<1>2. CASE /\ k.pc = "reserve" /\ call'[c].pc = "checkBeforePut"
           /\ ReserveUpload(j, k.tok, k.at) /\ call'[c].at = k.at
  <2>1. j \in Jobs /\ k.tok \in Tokens /\ k.at \in Sampled
    BY <1>2 DEF PlaneInv, CallsInv, CallInv, JobSteps, TokenSteps, Steps, AnswerSteps
  <2>2. k.at \in Nat /\ row \in [Jobs -> RowType] /\ row[j].leaseUntil \in Nat
    BY <2>1, SampledInstant DEF PlaneInv, JobsInv, TypeOK, RowType
  <2>3. /\ row'[j].status = "leased" /\ row'[j].token = k.tok
        /\ row'[j].leaseUntil = Stretched(row[j].leaseUntil, k.at)
    BY <1>2, <2>1, <2>2 DEF ReserveUpload, HoldsLease, RowType
  <2>4. row'[j].leaseUntil >= k.at + UploadExtension
    BY <2>2, <2>3 DEF Stretched
  <2>5. row'[j].leaseUntil > k.at + 2 * MaxLag /\ row'[j].leaseUntil > k.at + MaxLag
    <3>1. row'[j].leaseUntil \in Nat
      BY <2>2, <2>3 DEF Stretched
    <3> QED BY <2>2, <2>4, <3>1 DEF UploadsOutlastHandlers
  <2>6. Aimed(c) \in uploads'
    BY <1>2 DEF ReserveUpload, Aimed
  <2> QED BY <1>1, <1>2, <2>3, <2>5, <2>6 DEF StoreHeld
<1>3. CASE /\ k.pc = "checkBeforePut" /\ call'[c].pc = "put"
           /\ UNCHANGED tableVars /\ call'[c].at = k.at
  BY <1>i, <1>1, <1>3 DEF StoreHeld, StoreSteps, tableVars
<1>4. CASE /\ k.pc = "put" /\ call'[c].pc = "checkBeforeCommit"
           /\ UNCHANGED tableVars /\ objects' = objects \cup {Aimed(c)}
           /\ call'[c].at = k.at
  BY <1>i, <1>1, <1>4 DEF StoreHeld, StoreSteps, tableVars
<1>5. CASE /\ k.pc = "checkBeforeCommit" /\ call'[c].pc = "commit"
           /\ UNCHANGED tableVars /\ call'[c].at = now
  <2>1. ObjectMove(c)
    BY InvocationMovesObjects
  <2>2. objects' = objects
    BY <1>5, <2>1 DEF ObjectMove, PutResponse, DropObject, DropExchange, At
  <2>3. k.pc \in StoreSteps
    BY <1>5 DEF StoreSteps
  <2>4. /\ k.at \in Nat /\ now <= k.at + MaxLag /\ j \in Jobs
        /\ now \in Nat /\ row[j].leaseUntil \in Nat
    BY <1>i, <2>3, StorersHold DEF PlaneInv, JobsInv, TypeOK, RowType
  <2>5. row[j].leaseUntil > now + MaxLag
    BY <1>i, <1>5, <2>3, <2>4 DEF StoreHeld
  <2> QED BY <1>i, <1>1, <1>5, <2>2, <2>3, <2>5 DEF StoreHeld, tableVars
<1> QED BY <1>i, <1>2, <1>3, <1>4, <1>5, StoringMoves

\* No upload that is being swept gets somebody who stores it, or is committed.
LEMMA SweepsAloneNext ==
  ASSUME PlaneInv, StoreInv, NEW c \in Claims, CallStep(c), TableMove(c), ObjectMove(c),
         \A e \in Claims \ {c} : call'[e] = call[e], NEW d \in Claims
  PROVE  SweepsAlone(d)'
<1> DEFINE k == call'[d]
<1>i. /\ TypeOK /\ CallsInv /\ UploadsAreFenced
      /\ SoleActor /\ Consumed /\ SweepsAlone(d)
      /\ \A e \in Claims : StoreHeld(e)
  BY DEF PlaneInv, JobsInv, StoreInv
<1>t. ASSUME call[d].pc \in SweepSteps PROVE Aimed(d) \in Jobs \X Tokens
  <2>1. call[d].pc \in JobSteps /\ call[d].pc \in TokenSteps
    BY <1>t DEF SweepSteps, JobSteps, TokenSteps, Steps, MaintenanceSteps
  <2> QED BY <1>i, <2>1 DEF CallsInv, CallInv, Aimed
<1>1. ASSUME d # c PROVE SweepsAlone(d)'
  <2>a. call'[d] = call[d] /\ Aimed(d)' = Aimed(d)
    BY <1>1 DEF Aimed
  <2> SUFFICES ASSUME call[d].pc \in SweepSteps PROVE SweepsAlone(d)'
    BY <2>a DEF SweepsAlone, SweepSteps
  <2>1. ~StoresFor(c, call[d].tok)'
    <3> SUFFICES ASSUME call'[c].pc \in StoreSteps, call'[c].tok = call[d].tok PROVE FALSE
      BY <2>a DEF StoresFor
    <3>1. call[c].tok = call[d].tok /\ call[c].pc \in StoreSteps \cup {"reserve"}
      BY <1>i, StoringMoves DEF StoreSteps
    <3>2. Reserved(call[d].tok) /\ call[d].tok \in Tokens
      BY <1>t DEF Reserved, Aimed
    <3>3. call[c].pc # "reserve"
      BY <1>i, <3>1, <3>2 DEF Consumed, ActSteps, AnswerSteps, StoreSteps
    <3> QED BY <1>i, <3>1, <3>3 DEF SweepsAlone, StoresFor
  <2>2. \A e \in Claims : ~StoresFor(e, call[d].tok)'
    BY <1>i, <2>a, <2>1 DEF SweepsAlone, StoresFor
  <2>3. ~UploadIsCommitted(Aimed(d))'
    <3> SUFFICES ASSUME row'[call[d].job].status = "completed",
                        row'[call[d].job].answer = call[d].tok
                 PROVE  FALSE
      BY <2>a DEF UploadIsCommitted, Aimed
    <3>1. CASE row'[call[d].job] = row[call[d].job]
      BY <1>i, <3>1 DEF SweepsAlone, UploadIsCommitted, Aimed
    <3>2. CASE call[c].pc = "commit" /\ call[c].tok = call[d].tok
      BY <1>i, <3>2 DEF SweepsAlone, StoresFor, StoreSteps
    <3>3. call[d].job \in Jobs
      BY <1>t DEF Aimed
    <3> QED BY <1>i, <3>1, <3>2, <3>3, CompletedByCommit
  <2>4. call[d].pc = "dropUpload" => Aimed(d) \notin objects'
    <3>1. CASE PutResponse(c)
      <4>1. call[c].tok # call[d].tok
        BY <1>i, <3>1 DEF SweepsAlone, StoresFor, StoreSteps, PutResponse, At
      <4> QED BY <1>i, <3>1, <4>1 DEF SweepsAlone, PutResponse, Aimed
    <3> QED BY <1>i, <3>1 DEF SweepsAlone, ObjectMove
  <2> QED BY <2>a, <2>2, <2>3, <2>4 DEF SweepsAlone
<1>2. ASSUME d = c PROVE SweepsAlone(d)'
  <2> SUFFICES ASSUME call'[c].pc \in SweepSteps PROVE SweepsAlone(c)'
    BY <1>2 DEF SweepsAlone, SweepSteps
  <2>0. UNCHANGED <<now, tableVars>>
    BY <1>i, SweepingMoves
  <2>1. CASE /\ Aimed(c)' \in uploads /\ call'[c].at \in Sampled
             /\ UploadIsStale(Aimed(c)', call'[c].at) /\ call'[c].pc = "dropObject"
    <3> DEFINE j == call'[c].job
               t == call'[c].tok
    <3>1. <<j, t>> \in uploads /\ UploadIsStale(<<j, t>>, call'[c].at)
      BY <2>1 DEF Aimed
    <3>2. ASSUME NEW e \in Claims, call'[e].pc \in StoreSteps, call'[e].tok = t
          PROVE  FALSE
      <4>1. e # c /\ call'[e] = call[e]
        BY <2>1, <3>2 DEF StoreSteps
      <4>2. /\ row[call[e].job].status = "leased" /\ row[call[e].job].token = t
            /\ row[call[e].job].leaseUntil > now /\ call[e].pc \in ActSteps
            /\ call[e].job \in Jobs
        BY <1>i, <3>2, <4>1, StorersHold
      <4>3. issued[t] = {call[e].job} /\ issued[t] = {j}
        BY <1>i, <3>1, <3>2, <4>1, <4>2 DEF SoleActor, UploadsAreFenced
      <4>4. call[e].job = j
        BY <4>3
      <4>5. /\ call'[c].at \in Nat /\ call'[c].at <= now
            /\ now \in Nat /\ row[j].leaseUntil \in Nat
        BY <1>i, <2>1, <4>2, <4>4, SampledInstant DEF TypeOK, RowType, Sampled
      <4>6. HoldsLease(j, t, call'[c].at)
        BY <4>2, <4>4, <4>5 DEF HoldsLease
      <4> QED BY <3>1, <4>6 DEF UploadIsStale
    <3>3. ~UploadIsCommitted(Aimed(c))'
      BY <2>0, <3>1 DEF UploadIsStale, UploadIsCommitted, tableVars, Aimed
    <3>4. \A e \in Claims : ~StoresFor(e, call[c].tok)'
      BY <3>2 DEF StoresFor
    <3> QED BY <2>1, <3>3, <3>4 DEF SweepsAlone
  <2>2. CASE /\ call[c].pc \in {"dropObject", "headObject"}
             /\ call'[c].job = call[c].job /\ call'[c].tok = call[c].tok
             /\ call'[c].pc = "dropUpload" => Aimed(c) \notin objects'
    <3>1. call[c].pc \in SweepSteps /\ Aimed(c)' = Aimed(c)
      BY <2>2 DEF SweepSteps, Aimed
    <3>2. \A e \in Claims : ~StoresFor(e, call[c].tok)'
      BY <1>i, <1>2, <2>2, <3>1 DEF SweepsAlone, StoresFor, SweepSteps, StoreSteps
    <3>3. ~UploadIsCommitted(Aimed(c))'
      BY <1>i, <1>2, <2>0, <3>1 DEF SweepsAlone, UploadIsCommitted, tableVars
    <3> QED BY <2>2, <3>1, <3>2, <3>3 DEF SweepsAlone
  <2> QED BY <1>i, <2>1, <2>2, SweepingMoves
<1> QED BY <1>1, <1>2

\* A step of one call moves no other.
LEMMA OthersStay ==
  ASSUME CallsInv, NEW c \in Claims, CallStep(c)
  PROVE  \A d \in Claims \ {c} : call'[d] = call[d]
<1>1. CASE ClaimCall(c)
  BY <1>1, StartsWith DEF ClaimCall, Begin
<1>2. CASE Arrival(c)
  BY <1>2, StartsWith DEF Arrival, CompleteCall, FailCall, Begin
<1> QED BY <1>1, <1>2, ActGoesOn, RestActs DEF CallStep, Invocation

\* An owner that is settled stays so.
LEMMA SettledForGood ==
  ASSUME [PlaneNext]_planeVars, ~OwnerLive
  PROVE  ~OwnerLive'
<1> USE DEF OwnerLive
<1>1. ASSUME NEW c \in Claims, WakeUp(c) PROVE UNCHANGED daily
  BY <1>1 DEF WakeUp, Nudge, Wake, SendMessage, Mark, Sweep, ResumeForFirstOpen, Stamp,
              ClearMarker, SetMarker, Unmarked, Undispatched, ResumeOwner, ownerVars
<1>2. ASSUME NEW c \in Claims, Execution(c) PROVE UNCHANGED daily \/ ~OwnerLive'
  BY <1>2 DEF Execution, Deliver, PutRequest, Enqueue, Consult, Adopt, Retry, Park,
              Recheck, Takeable, ClaimOwner, SettleOwner, HoldsOwner, ParkOwner,
              ReleaseOwnerForRetry, ownerVars
<1>3. ASSUME NEW c \in Claims,
             ClaimRoute(c) \/ AnswerRoutes(c) \/ Maintenance(c) \/ SendThrows(c) \/ Die(c)
      PROVE  UNCHANGED daily
  BY <1>3, OwnerKept
<1>4. CASE PauseDelivery \/ ResumePaused
  BY <1>4 DEF PauseDelivery, ResumePaused, Takeable, PauseOwner, ResumeOwner
<1>5. CASE PlaneTick \/ RolloutOff \/ RolloutOn \/ Depart \/ Freeze \/ Thaw
             \/ UNCHANGED planeVars
  BY <1>5 DEF PlaneTick, RolloutOff, RolloutOn, Depart, Switch, Freeze, Thaw,
              Freezing, planeVars, ownerVars
<1> QED BY <1>1, <1>2, <1>3, <1>4, <1>5 DEF PlaneNext, Invocation

\* A job that is being purged keeps its verdict until it is deleted, gets no new
\* upload and no new object.
LEMMA PurgesSettledNext ==
  ASSUME PlaneInv, RequestInv, StoreInv, NEW c \in Claims, CallStep(c), TableMove(c),
         ObjectMove(c), [JobsNext]_jobVars,
         \A e \in Claims \ {c} : call'[e] = call[e], NEW d \in Claims
  PROVE  PurgesSettled(d)'
<1>i. /\ TypeOK /\ CallsInv /\ JobsInv /\ row \in [Jobs -> RowType]
      /\ PurgesSettled(d) /\ StoreHeld(c) /\ Dated
      /\ CallAllows(c) /\ CallAllows(d)
  BY DEF PlaneInv, JobsInv, TypeOK, StoreInv, RequestInv
<1>t. ASSUME call[d].pc \in PurgeSteps PROVE call[d].job \in Jobs
  <2>1. call[d].pc \in JobSteps
    BY <1>t DEF PurgeSteps, JobSteps, Steps, MaintenanceSteps
  <2> QED BY <1>i, <2>1 DEF CallsInv, CallInv
<1>1. ASSUME d # c PROVE PurgesSettled(d)'
  <2> DEFINE k == call[d]
             j == call[d].job
  <2>a. call'[d] = call[d]
    BY <1>1
  <2> SUFFICES ASSUME k.pc \in DropSteps PROVE PurgesSettled(d)'
    BY <2>a DEF PurgesSettled, DropSteps
  <2>b. j \in Jobs /\ k.pc \in PurgeSteps
    BY <1>t DEF DropSteps, PurgeSteps
  <2>o. /\ \/ row[j] = k.seen /\ k.seen.status \in Terminal
           \/ row[j].status = "absent"
        /\ \A u \in uploads : u[1] = j => u \in ExchangeObjects(k)
    BY <1>i DEF PurgesSettled
  <2>n. ~HoldsLease(j, call[c].tok, call[c].at)
    BY <2>o DEF HoldsLease, Terminal
  <2>1. \/ row'[j] = k.seen /\ k.seen.status \in Terminal
        \/ row'[j].status = "absent"
    <3>1. CASE row[j] = k.seen /\ k.seen.status \in Terminal
      <4>1. row'[j] = row[j] \/ row'[j] = Absent
        BY <1>i, <2>b, <3>1, VerdictStep DEF KeepsVerdicts, jobVars
      <4> QED BY <3>1, <4>1 DEF Absent
    <3>2. CASE row[j].status = "absent"
      <4>1. call[c].pc # "enqueue"
        BY <1>i, <2>b DEF CallAllows, ExecutorSteps, HoldsOwner, OwnerLive
      <4> QED BY <1>i, <2>b, <3>2, <4>1, MadeByEnqueue
    <3> QED BY <2>o, <3>1, <3>2
  <2>2. ASSUME NEW u \in uploads', u[1] = j PROVE u \in ExchangeObjects(k)
    <3>1. CASE u \in uploads
      BY <2>o, <2>2, <3>1
    <3>2. CASE u \notin uploads
      BY <1>i, <2>2, <2>n, <3>2, ListedByReservation DEF Aimed
    <3> QED BY <3>1, <3>2
  <2>3. k.pc = "dropJob" => ExchangeObjects(k) \cap objects' = {}
    <3>1. CASE PutResponse(c)
      <4>1. call[c].job # j
        BY <1>i, <2>o, <3>1 DEF StoreHeld, StoreSteps, PutResponse, At, Terminal
      <4> QED BY <1>i, <3>1, <4>1 DEF PurgesSettled, PutResponse, Aimed, ExchangeObjects
    <3> QED BY <1>i, <3>1 DEF PurgesSettled, ObjectMove
  <2> QED BY <2>a, <2>1, <2>2, <2>3 DEF PurgesSettled, ExchangeObjects
<1>2. ASSUME d = c PROVE PurgesSettled(d)'
  <2> DEFINE k == call[c]
             j == call[c].job
  <2> SUFFICES ASSUME call'[c].pc \in DropSteps PROVE PurgesSettled(c)'
    BY <1>2 DEF PurgesSettled, DropSteps
  <2>0. UNCHANGED tableVars /\ call'[c].job = j /\ k.pc \in PurgeSteps /\ j \in Jobs
    BY <1>i, <1>t, <1>2, PurgingMoves DEF PurgeSteps
  <2>1. CASE /\ k.pc = "purgeCheck" /\ call'[c].pc = "dropExchange"
             /\ call'[c].seen = row[j]
             /\ row[j].completedAt # 0 /\ Uncommitted(j) = {}
    <3>1. row[j].status \in Terminal
      BY <1>i, <2>0, <2>1 DEF Dated
    <3>2. ASSUME NEW u \in uploads, u[1] = j
          PROVE  row[j].status = "completed" /\ u = <<j, row[j].answer>>
      <4>1. UploadIsCommitted(u) /\ u = <<u[1], u[2]>>
        BY <1>i, <2>1, <3>2 DEF Uncommitted, TypeOK
      <4> QED BY <3>2, <4>1 DEF UploadIsCommitted
    <3> QED BY <2>0, <2>1, <3>1, <3>2 DEF PurgesSettled, ExchangeObjects, tableVars
  <2>2. CASE /\ k.pc \in {"dropExchange", "headExchange"} /\ call'[c].seen = k.seen
             /\ call'[c].pc = "dropJob" => ExchangeObjects(k) \cap objects' = {}
    <3>1. k.pc \in DropSteps
      BY <2>2 DEF DropSteps
    <3> QED BY <1>i, <1>2, <2>0, <2>2, <3>1 DEF PurgesSettled, ExchangeObjects, tableVars
  <2> QED BY <1>i, <2>1, <2>2, PurgingMoves
<1> QED BY <1>1, <1>2

\* Every object has its line of the inventory.
LEMMA InventoriedNext ==
  ASSUME PlaneInv, StoreInv, NEW c \in Claims, TableMove(c), ObjectMove(c)
  PROVE  ObjectsAreInventoried'
<1>i. /\ TypeOK /\ ObjectsAreInventoried /\ StoreHeld(c) /\ SweepsAlone(c)
      /\ PurgesSettled(c)
  BY DEF PlaneInv, JobsInv, StoreInv
<1> SUFFICES ASSUME NEW o \in objects' PROVE o \in uploads'
  BY DEF ObjectsAreInventoried
<1>1. CASE o \in objects
  <2>1. o \in uploads
    BY <1>i, <1>1 DEF ObjectsAreInventoried
  <2>2. call[c].pc = "dropUpload" => o # Aimed(c)
    BY <1>i, <1>1 DEF SweepsAlone
  <2>3. call[c].pc = "dropJob" => o[1] # call[c].job
    BY <1>i, <1>1, <2>1 DEF PurgesSettled, DropSteps
  <2> QED BY <1>i, <2>1, <2>2, <2>3, UnlistedByMaintenance
<1>2. CASE o \notin objects
  <2>1. PutResponse(c) /\ o = Aimed(c)
    BY <1>2 DEF ObjectMove
  <2>2. call[c].pc = "put" /\ UNCHANGED tableVars
    BY <2>1 DEF PutResponse, At
  <2> QED BY <1>i, <2>1, <2>2 DEF StoreHeld, StoreSteps, tableVars
<1> QED BY <1>1, <1>2

\* The response of a completed job is there while its owner lives.
LEMMA CommittedExistsNext ==
  ASSUME PlaneInv, RequestInv, StoreInv, NEW c \in Claims, TableMove(c), ObjectMove(c),
         ~OwnerLive => ~OwnerLive'
  PROVE  CommittedExists'
<1>i. /\ TypeOK /\ CommittedExists /\ StoreHeld(c) /\ SweepsAlone(c) /\ CallAllows(c)
  BY DEF PlaneInv, JobsInv, StoreInv, RequestInv
<1> SUFFICES ASSUME NEW j \in Jobs, row'[j].status = "completed", OwnerLive
             PROVE  <<j, row'[j].answer>> \in objects'
  BY DEF CommittedExists, CommittedUpload
<1>1. CASE row'[j] = row[j]
  <2>1. <<j, row[j].answer>> \in objects
    BY <1>i, <1>1 DEF CommittedExists, CommittedUpload
  <2>2. DropObject(c) => Aimed(c) # <<j, row[j].answer>>
    BY <1>i, <1>1 DEF DropObject, At, SweepsAlone, SweepSteps, UploadIsCommitted, Aimed
  <2>3. ~DropExchange(c)
    BY <1>i DEF DropExchange, At, CallAllows, PurgeSteps
  <2> QED BY <1>1, <2>1, <2>2, <2>3 DEF ObjectMove
<1>2. CASE /\ call[c].pc = "commit" /\ call[c].job = j
           /\ row'[j].answer = call[c].tok
  <2>1. Aimed(c) \in objects
    BY <1>i, <1>2 DEF StoreHeld, StoreSteps
  <2>2. objects' = objects
    BY <1>2 DEF ObjectMove, PutResponse, DropObject, DropExchange, At
  <2> QED BY <1>2, <2>1, <2>2 DEF Aimed
<1> QED BY <1>i, <1>1, <1>2, CompletedByCommit

\* Every step of the plane keeps the two stores together.
LEMMA StoreInvNext ==
  ASSUME AnswersOnce, UploadsOutlastHandlers, PlaneInv, RequestInv, StoreInv,
         [PlaneNext]_planeVars
  PROVE  StoreInv'
<1>i. CallsInv /\ StoreInv /\ SoleActor /\ Consumed
  BY DEF PlaneInv, StoreInv
<1>s. SoleActor'
  BY <1>i, SoleActorNext
<1>o. ~OwnerLive => ~OwnerLive'
  BY SettledForGood
<1>1. CASE Ambient
  <2>1. UNCHANGED <<row, issued, uploads, call, answers, used, objects>>
    BY <1>1, AmbientStep DEF tableVars, runnerVars, storeVars
  <2>2. Consumed' /\ ObjectsAreInventoried' /\ CommittedExists'
    BY <1>i, <1>o, <2>1
       DEF StoreInv, Consumed, Reserved, ObjectsAreInventoried, CommittedExists,
           CommittedUpload
  <2>3. ASSUME NEW c \in Claims PROVE StoreHeld(c)' /\ SweepsAlone(c)' /\ PurgesSettled(c)'
    <3>1. StoreHeld(c) /\ SweepsAlone(c) /\ PurgesSettled(c)
      BY <1>i DEF StoreInv
    <3> QED BY <2>1, <3>1
            DEF StoreHeld, SweepsAlone, PurgesSettled, Aimed, StoresFor,
                UploadIsCommitted, ExchangeObjects
  <2> QED BY <1>s, <2>2, <2>3 DEF StoreInv
<1>2. ASSUME NEW c \in Claims, CallStep(c) PROVE StoreInv'
  <2>1. TableMove(c)
    BY <1>i, <1>2, InvocationMovesTable DEF CallStep
  <2>2. ObjectMove(c)
    BY <1>2, InvocationMovesObjects
  <2>3. \A d \in Claims \ {c} : call'[d] = call[d]
    BY <1>i, <1>2, OthersStay
  <2>4. [JobsNext]_jobVars
    BY PlaneOperates
  <2>5. Consumed'
    BY <1>i, <1>2, <2>1, <2>3, ConsumedNext
  <2>6. ASSUME NEW d \in Claims PROVE StoreHeld(d)'
    BY <1>i, <1>2, <2>1, <2>2, <2>3, StoreHeldByOthers, StoreHeldByItself
  <2>7. ASSUME NEW d \in Claims PROVE SweepsAlone(d)'
    BY <1>i, <1>2, <2>1, <2>2, <2>3, SweepsAloneNext
  <2>8. ASSUME NEW d \in Claims PROVE PurgesSettled(d)'
    BY <1>i, <1>2, <2>1, <2>2, <2>3, <2>4, PurgesSettledNext
  <2>9. ObjectsAreInventoried'
    BY <1>i, <2>1, <2>2, InventoriedNext
  <2>10. CommittedExists'
    BY <1>i, <1>o, <2>1, <2>2, CommittedExistsNext
  <2> QED BY <1>s, <2>5, <2>6, <2>7, <2>8, <2>9, <2>10 DEF StoreInv
<1> QED BY <1>1, <1>2 DEF PlaneNext, Ambient, CallStep

\* At first nobody calls, and both stores are empty.
LEMMA StoreInvInit == PlaneInit => StoreInv
<1> SUFFICES ASSUME PlaneInit PROVE StoreInv
  OBVIOUS
<1>1. /\ \A c \in Claims : call[c].pc = "idle"
      /\ \A t \in Tokens : answers[t].left = 0
      /\ uploads = {} /\ objects = {}
      /\ \A j \in Jobs : row[j].status = "absent"
  BY DEF PlaneInit, JobsInit, Idle, NotHanded, Absent
<1> QED BY <1>1
        DEF StoreInv, SoleActor, Unissued, Consumed, Reserved, StoreHeld, SweepsAlone,
            PurgesSettled, ObjectsAreInventoried, CommittedExists, ActSteps, ClaimSteps,
            AnswerSteps, StoreSteps, SweepSteps, DropSteps

\* The two stores stay together for any number of attempts, tokens and calls
\* that interleave or die at any step, and any clock and lengths of leases: if
\* the runner posts each answer once, and an upload lease outlasts two handlers.
LEMMA StoreInvariant ==
  ASSUME AnswersOnce, UploadsOutlastHandlers
  PROVE  PlaneSpec => [](PlaneInv /\ RequestInv /\ StoreInv)
<1>1. PlaneInit => RequestInv
  BY DEF PlaneInit, JobsInit, Absent, Idle, RequestInv, RequestPrecedesJob, Dated,
         CallAllows, ExecutorSteps, PurgeSteps, DropSteps
<1>2. PlaneInv /\ RequestInv /\ [PlaneNext]_planeVars => RequestInv'
  BY RequestInvNext
<1>3. PlaneInv /\ RequestInv /\ StoreInv /\ [PlaneNext]_planeVars => StoreInv'
  BY StoreInvNext
<1> QED BY <1>1, <1>2, <1>3, StoreInvInit, PlaneInvariant, PTL DEF PlaneSpec

\* Every response object can be found again by its line of the inventory: the
\* maintenance pass never drops the line of an object that is there, or of one
\* whose put is still to come.
THEOREM ObjectsInventoried ==
  ASSUME AnswersOnce, UploadsOutlastHandlers
  PROVE  PlaneSpec => []ObjectsAreInventoried
<1>1. StoreInv => ObjectsAreInventoried
  BY DEF StoreInv
<1> QED BY <1>1, StoreInvariant, PTL

\* The response that a live owner is about to adopt is never swept away, however
\* the sweep of its upload, its put and its commit interleave.
THEOREM AdoptableResponsesExist ==
  ASSUME AnswersOnce, UploadsOutlastHandlers
  PROVE  PlaneSpec => []AdoptableResponseExists
<1>1. StoreInv => AdoptableResponseExists
  BY DEF StoreInv, CommittedExists, AdoptableResponseExists, OwnerCurrent, Entitled
<1> QED BY <1>1, StoreInvariant, PTL
-----------------------------------------------------------------------------
(* The owner that waits for a verdict is woken.                            *)
(*                                                                         *)
(* What a call does to one row, to the owner's row and to its own place,   *)
(* as the proofs below need it.                                            *)

Verdicts == {"completed", "failed"}

\* What a call may do to row j: it is made, claimed, stretched, answered,
\* withdrawn or deleted.
RowMove(c, j) ==
    LET k == call[c] IN
    \/ row'[j] = row[j]
    \/ /\ k.pc = "enqueue" /\ k.job = j
       /\ row[j].status = "absent" /\ row'[j].status = "pending"
    \/ /\ k.pc = "idle" /\ Claimable(j, now)
       /\ row'[j].status = "leased" /\ row'[j].token \in Unissued
       /\ row'[j].leaseUntil = now + LeaseLength
    \/ /\ k.pc = "reserve" /\ k.job = j /\ HoldsLease(j, k.tok, k.at)
       /\ row'[j].status = "leased" /\ row'[j].token = k.tok
       /\ row'[j].leaseUntil >= row[j].leaseUntil
       /\ row'[j].leaseUntil >= k.at + UploadExtension
    \/ /\ k.pc \in {"commit", "fail", "refuse"} /\ k.job = j
       /\ HoldsLease(j, k.tok, k.at)
       /\ row'[j].status \in Verdicts /\ row'[j].completedAt = k.at
    \/ /\ k.pc = "release" /\ k.job = j /\ HoldsLease(j, k.tok, k.at)
       /\ row'[j].status = "pending"
    \/ /\ k.pc = "cancel" /\ k.job = j /\ HoldsLease(j, k.tok, k.at)
       /\ row'[j].status = "cancelled"
    \/ /\ k.pc = "cancelStale" /\ k.job = j /\ row[j].status \in Open
       /\ row'[j].status = "cancelled"
    \/ k.pc = "dropJob" /\ row[j].status \in Terminal /\ row'[j].status = "absent"

\* Every move of the table is one of these on every row.
LEMMA TableMovesRows ==
  ASSUME PlaneInv, NEW c \in Claims, TableMove(c), NEW j \in Jobs
  PROVE  RowMove(c, j)
<1>i. /\ row \in [Jobs -> RowType] /\ now \in Nat /\ CallsInv
  BY DEF PlaneInv, JobsInv, TypeOK
<1>k. call[c].pc # "idle" => call[c].at \in Nat
  BY <1>i, SampledInstant DEF PlaneInv, JobsInv, CallsInv, CallInv
<1>r. /\ row[j] \in RowType /\ row[j].leaseUntil \in Nat
  BY <1>i DEF RowType
<1> USE DEF RowMove
<1>1. CASE call[c].job \in Jobs /\ EnqueueJob(call[c].job, now) /\ call[c].pc = "enqueue"
  BY <1>i, <1>1 DEF EnqueueJob, Absent
<1>2. ASSUME NEW i \in Jobs, NEW t \in Tokens, ClaimJob(i, t, now), call[c].pc = "idle"
      PROVE  RowMove(c, j)
  <2>1. CASE i = j
    BY <1>i, <1>r, <1>2, <2>1 DEF ClaimJob, RowType
  <2>2. CASE i # j
    BY <1>i, <1>2, <2>2 DEF ClaimJob
  <2> QED BY <2>1, <2>2
<1>3. CASE /\ \/ ReserveUpload(call[c].job, call[c].tok, call[c].at)
              \/ RefuseUpload(call[c].job, call[c].tok, call[c].at)
           /\ call[c].pc = "reserve"
  <2>1. CASE RefuseUpload(call[c].job, call[c].tok, call[c].at)
    BY <2>1 DEF RefuseUpload
  <2>2. CASE ReserveUpload(call[c].job, call[c].tok, call[c].at) /\ call[c].job = j
    <3>1. /\ row'[j].status = row[j].status /\ row'[j].token = row[j].token
          /\ row'[j].leaseUntil = Stretched(row[j].leaseUntil, call[c].at)
      BY <1>i, <1>r, <2>2 DEF ReserveUpload, RowType
    <3>2. /\ Stretched(row[j].leaseUntil, call[c].at) >= row[j].leaseUntil
          /\ Stretched(row[j].leaseUntil, call[c].at) >= call[c].at + UploadExtension
      BY <1>k, <1>r, <1>3 DEF Stretched
    <3> QED BY <1>3, <2>2, <3>1, <3>2 DEF ReserveUpload, HoldsLease
  <2>3. CASE ReserveUpload(call[c].job, call[c].tok, call[c].at) /\ call[c].job # j
    BY <1>i, <2>3 DEF ReserveUpload
  <2> QED BY <1>3, <2>1, <2>2, <2>3
<1>4. ASSUME \/ /\ CompleteJob(call[c].job, call[c].tok, call[c].at)
                /\ call[c].pc = "commit"
             \/ /\ FailJob(call[c].job, call[c].tok, call[c].at)
                /\ call[c].pc \in {"fail", "refuse"}
      PROVE  RowMove(c, j)
  <2>1. PICK s \in Verdicts : Settled(call[c].job, call[c].tok, s, call[c].at)
    BY <1>4 DEF CompleteJob, FailJob, Verdicts
  <2>2. CASE call[c].job = j
    <3>1. row'[j].status = s /\ row'[j].completedAt = call[c].at
      BY <1>i, <1>r, <2>1, <2>2 DEF Settled, RowType
    <3> QED BY <1>4, <2>2, <3>1 DEF CompleteJob, FailJob
  <2>3. CASE call[c].job # j
    BY <1>i, <2>1, <2>3 DEF Settled
  <2> QED BY <2>2, <2>3
<1>5. CASE ReleaseLease(call[c].job, call[c].tok, call[c].at) /\ call[c].pc = "release"
  BY <1>i, <1>r, <1>5 DEF ReleaseLease, RowType
<1>6. CASE \/ CancelJob(call[c].job, call[c].tok, call[c].at) /\ call[c].pc = "cancel"
           \/ CancelStaleJob(call[c].job, call[c].at) /\ call[c].pc = "cancelStale"
  <2>1. Cancelled(call[c].job, call[c].at)
    BY <1>6 DEF CancelJob, CancelStaleJob
  <2>2. CASE call[c].job = j
    <3>1. row'[j].status = "cancelled"
      BY <1>i, <1>r, <2>1, <2>2 DEF Cancelled, RowType
    <3> QED BY <1>6, <2>2, <3>1 DEF CancelJob, CancelStaleJob, Open
  <2>3. CASE call[c].job # j
    BY <1>i, <2>1, <2>3 DEF Cancelled
  <2> QED BY <2>2, <2>3
<1>7. CASE /\ DeleteJob(call[c].job, call[c].seen.status, call[c].seen.completedAt)
           /\ call[c].pc = "dropJob"
  BY <1>i, <1>7 DEF DeleteJob, Absent
<1>8. CASE DeleteUpload(<<call[c].job, call[c].tok>>, call[c].at) \/ UNCHANGED tableVars
  BY <1>8 DEF DeleteUpload, tableVars
<1> QED BY <1>1, <1>2, <1>3, <1>4, <1>5, <1>6, <1>7, <1>8 DEF TableMove

\* What a call may do to the owner's row and its message.
OwnerMove(c) ==
    LET k == call[c] IN
    \/ /\ daily' = daily
       /\ inbox' = inbox \/ inbox' \/ ~AccountServes \/ ~Takeable(ClaimLost)
    \/ /\ k.pc = "wake" /\ call'[c].pc = "send"
       /\ ClearMarker /\ inbox' = inbox
    \/ /\ k.pc \in {"mark", "stamp"} /\ inbox' = inbox
       /\ \E at \in 1 .. now : SetMarker(at)
    \/ k.pc = "idle" /\ ResumeOwner(0) /\ inbox' = inbox
    \/ /\ k.pc = "idle" /\ call'[c].pc = "request" /\ call'[c].job = NextAttempt
       /\ ClaimOwner(c, now, ClaimLost)
    \/ /\ k.pc \in ExecutorSteps /\ inbox' = inbox /\ HoldsOwner(c)
       /\ \E s \in {"published", "failed"} : SettleOwner(c, s)
    \/ k.pc = "retry" /\ inbox' /\ ReleaseOwnerForRetry(c)
    \/ /\ k.pc = "park" /\ inbox' = inbox /\ ParkOwner(c)
       /\ call'[c].pc = "recheck" /\ call'[c].job = k.job

\* Every invocation makes one of these moves, and none of them decides on
\* admission.
LEMMA InvocationMovesOwner ==
  ASSUME PlaneInv, NEW c \in Claims, CallStep(c)
  PROVE  OwnerMove(c) /\ admission' = admission
<1>i. /\ CallsInv /\ now \in Nat /\ now # 0 /\ inbox \in BOOLEAN
  BY DEF PlaneInv, JobsInv, TypeOK, RestOK
<1>k. call[c].pc # "idle" => call[c].at \in 1 .. now
  BY <1>i, SampledInstant DEF PlaneInv, JobsInv, CallsInv, CallInv
<1> USE DEF OwnerMove, ownerVars, At, Free
<1>1. CASE ClaimRoute(c)
  BY <1>1 DEF ClaimRoute, ClaimCall, CheckOwner, Fetch, Release, Charge, Refuse, Reply
<1>2. CASE AnswerRoutes(c)
  BY <1>2 DEF AnswerRoutes, CompleteCall, CheckOwner, Reserve, PutResponse,
              CheckBeforeCommit, Commit, FailCall, Fail, Cancel
<1>3. CASE WakeUp(c)
  <2>1. CASE Nudge(c) \/ Sweep(c)
    BY <2>1 DEF Nudge, Sweep
  <2>2. CASE Wake(c)
    BY <1>i, <2>2, GoesTo DEF Wake
  <2>3. CASE SendMessage(c, "send", "mark") \/ SendMessage(c, "dispatch", "stamp")
    BY <2>3 DEF SendMessage
  <2>4. CASE Mark(c)
    BY <1>k, <2>4 DEF Mark
  <2>5. CASE Stamp(c)
    BY <1>i, <2>5 DEF Stamp
  <2>6. CASE ResumeForFirstOpen(c)
    BY <2>6 DEF ResumeForFirstOpen
  <2> QED BY <1>3, <2>1, <2>2, <2>3, <2>4, <2>5, <2>6 DEF WakeUp
<1>4. CASE Execution(c)
  <2>1. CASE Deliver(c)
    <3>1. CASE Takeable(ClaimLost) /\ AccountServes
      BY <1>i, <2>1, <3>1, StartsWith DEF Deliver, Begin
    <3>2. CASE ~(Takeable(ClaimLost) /\ AccountServes)
      BY <2>1, <3>2 DEF Deliver
    <3> QED BY <3>1, <3>2
  <2>2. CASE PutRequest(c) \/ Adopt(c)
    BY <2>2 DEF PutRequest, Adopt, SettleOwner, ExecutorSteps
  <2>3. CASE Retry(c)
    BY <2>3 DEF Retry, SettleOwner, ExecutorSteps
  <2>4. CASE Park(c)
    BY <1>i, <2>4, GoesTo DEF Park
  <2>5. CASE Enqueue(c) \/ Consult(c) \/ Recheck(c)
    BY <2>5 DEF Enqueue, Consult, Recheck
  <2> QED BY <1>4, <2>1, <2>2, <2>3, <2>4, <2>5 DEF Execution
<1>5. CASE Maintenance(c)
  BY <1>5 DEF Maintenance, SelectUpload, DropObject, HeadObject, DropUpload,
         SelectUnheld, SelectOverdue, SelectSettled, CheckStale, CancelStale,
         PurgeCheck, DropExchange, HeadExchange, DropJob
<1>6. CASE SendThrows(c) \/ Die(c)
  BY <1>6 DEF SendThrows, Die, Abort
<1> QED BY <1>1, <1>2, <1>3, <1>4, <1>5, <1>6 DEF CallStep, Invocation

\* A call that executes was delivered just now, or goes on with its attempt: it
\* has made or found the row it consults, and parks on one that is open.
LEMMA ExecutorMoves ==
  ASSUME CallsInv, NEW c \in Claims, CallStep(c), call'[c].pc \in ExecutorSteps
  PROVE  \/ /\ ClaimOwner(c, now, ClaimLost) /\ call'[c].pc = "request"
            /\ call'[c].job = NextAttempt
         \/ /\ call[c].pc \in ExecutorSteps /\ daily' = daily
            /\ call'[c].job = call[c].job
            /\ call'[c].pc = "consult" =>
                  \/ row[call[c].job].status # "absent" /\ row' = row
                  \/ EnqueueJob(call[c].job, now)
            /\ call'[c].pc = "park" =>
                  row[call[c].job].status \in Open /\ row' = row
<1> USE DEF ExecutorSteps, At, Free
<1>1. CASE Deliver(c)
  <2>1. CASE Takeable(ClaimLost) /\ AccountServes
    BY <1>1, <2>1, StartsWith DEF Deliver, Begin
  <2>2. CASE ~(Takeable(ClaimLost) /\ AccountServes)
    BY <1>1, <2>2 DEF Deliver
  <2> QED BY <2>1, <2>2
<1>2. CASE PutRequest(c) \/ Adopt(c)
  BY <1>2, GoesTo, Ended DEF PutRequest, Adopt
<1>3. CASE Enqueue(c)
  BY <1>3, GoesTo DEF Enqueue, ownerVars, tableVars
<1>4. CASE Consult(c)
  BY <1>4, GoesTo DEF Consult, Open, ownerVars, tableVars
<1>5. CASE Retry(c) \/ Park(c) \/ Recheck(c)
  BY <1>5, GoesTo, StartsWith, Ended DEF Retry, Park, Recheck, Begin
<1>6. CASE WakeUp(c)
  BY <1>6, GoesTo, StartsWith, Ended
     DEF WakeUp, Nudge, Wake, SendMessage, Mark, Sweep, ResumeForFirstOpen, Stamp, Begin
<1>7. CASE Maintenance(c)
  <2>1. CASE PurgeCheck(c)
    BY <2>1, Ended DEF PurgeCheck, CallsInv, CallType
  <2>2. CASE ~PurgeCheck(c)
    BY <1>7, <2>2, GoesTo, StartsWith, Ended
       DEF Maintenance, SelectUpload, DropObject, HeadObject, DropUpload, SelectUnheld,
           SelectOverdue, SelectSettled, CheckStale, CancelStale, DropExchange,
           HeadExchange, DropJob, Begin
  <2> QED BY <2>1, <2>2
<1>8. CASE SendThrows(c) \/ Die(c)
  BY <1>8, Ended DEF SendThrows, Die, Abort
<1>9. CASE Invocation(c) /\ (ClaimRoute(c) \/ AnswerRoutes(c))
  <2>1. CASE ClaimCall(c)
    BY <2>1, StartsWith DEF ClaimCall, Begin
  <2>2. CASE Arrival(c)
    BY <2>2, StartsWith DEF Arrival, CompleteCall, FailCall, Begin
  <2>3. CASE ~ClaimCall(c) /\ ~Arrival(c) /\ ClaimRoute(c)
    BY <2>3, GoesTo, Ended DEF ClaimRoute, CheckOwner, Fetch, Release, Charge, Refuse, Reply
  <2>4. CASE CheckBeforeCommit(c)
    BY <2>4, ChecksCommit
  <2>5. CASE ~ClaimCall(c) /\ ~Arrival(c) /\ AnswerRoutes(c) /\ ~CheckBeforeCommit(c)
    BY <2>5, GoesTo, Ended
       DEF AnswerRoutes, Arrival, CheckOwner, Reserve, PutResponse, Commit, Fail, Cancel
  <2> QED BY <1>9, <2>1, <2>2, <2>3, <2>4, <2>5
<1> QED BY <1>1, <1>2, <1>3, <1>4, <1>5, <1>6, <1>7, <1>8, <1>9
        DEF CallStep, Invocation, Execution

\* How a call comes to withdraw a job for the maintenance pass, to look at a
\* job once more, to wake its owner and to mark it.
WakeMove(c) ==
    LET k == call[c]
        l == call'[c] IN
    /\ l.pc = "cancelStale" =>
          /\ k.pc = "checkStale" /\ l.job = k.job
          /\ row[k.job].status # "absent" /\ ~OwnerCurrent(k.job)
    /\ l.pc = "recheck" => k.pc = "park" /\ ParkOwner(c) /\ l.job = k.job
    /\ l.pc = "nudge" =>
          \/ /\ k.pc \in {"commit", "fail", "refuse"} /\ l.job = k.job
             /\ \/ row'[k.job].status \in Verdicts
                \/ k.pc = "refuse" /\ ~HoldsLease(k.job, k.tok, k.at)
          \/ /\ k.pc \in {"recheck", "idle"} /\ row' = row
             /\ row[l.job].status \in Verdicts
    /\ l.pc = "wake" => k.pc = "nudge" /\ l.job = k.job /\ row' = row
    /\ l.pc \in {"mark", "stamp"} => k.pc \in {"send", "dispatch"} /\ inbox'

\* Every invocation keeps to this.
LEMMA InvocationMovesWake ==
  ASSUME PlaneInv, NEW c \in Claims, CallStep(c)
  PROVE  WakeMove(c)
<1>i. /\ CallsInv /\ row \in [Jobs -> RowType]
  BY DEF PlaneInv, JobsInv, TypeOK
<1>j. call[c].pc \in {"commit", "fail", "refuse"} => call[c].job \in Jobs
  BY <1>i DEF CallsInv, CallInv, JobSteps, Steps, AnswerSteps, ClaimSteps
<1>s. ASSUME NEW s \in Verdicts, Settled(call[c].job, call[c].tok, s, call[c].at), call[c].job \in Jobs
      PROVE  row'[call[c].job].status \in Verdicts
  BY <1>i, <1>s DEF Settled, RowType
<1> USE DEF WakeMove, At, Free, tableVars
<1>1. CASE Invocation(c) /\ ClaimRoute(c)
  <2>1. CASE ClaimCall(c)
    BY <1>i, <2>1, StartsWith DEF ClaimCall, Begin
  <2>2. CASE Refuse(c)
    BY <1>i, <1>j, <1>s, <2>2, GoesTo DEF Refuse, FailJob, Verdicts
  <2> QED BY <1>i, <1>1, <2>1, <2>2, GoesTo, Ended
          DEF ClaimRoute, CheckOwner, Fetch, Release, Charge, Reply
<1>2. CASE Invocation(c) /\ AnswerRoutes(c)
  <2>1. CASE Arrival(c)
    BY <1>i, <2>1, StartsWith DEF Arrival, CompleteCall, FailCall, Begin
  <2>2. CASE CheckBeforeCommit(c)
    BY <1>i, <2>2, ChecksCommit
  <2>3. CASE Commit(c)
    <3>1. CASE CompleteJob(call[c].job, call[c].tok, call[c].at)
      BY <1>i, <1>j, <1>s, <2>3, <3>1, GoesTo DEF Commit, CompleteJob, Verdicts
    <3>2. CASE ~HoldsLease(call[c].job, call[c].tok, call[c].at)
      BY <1>i, <2>3, <3>2, GoesTo
         DEF Commit, CompleteJob, UploadIsCommitted, Verdicts
    <3> QED BY <2>3, <3>1, <3>2 DEF Commit
  <2>4. CASE Fail(c)
    <3>1. CASE FailJob(call[c].job, call[c].tok, call[c].at)
      BY <1>i, <1>j, <1>s, <2>4, <3>1, GoesTo DEF Fail, FailJob, Verdicts
    <3>2. CASE ~HoldsLease(call[c].job, call[c].tok, call[c].at)
      BY <1>i, <2>4, <3>2, GoesTo, Ended DEF Fail, FailJob, HasFailed, Verdicts
    <3> QED BY <2>4, <3>1, <3>2 DEF Fail
  <2> QED BY <1>i, <1>2, <2>1, <2>2, <2>3, <2>4, GoesTo, Ended
          DEF AnswerRoutes, Arrival, CheckOwner, Reserve, PutResponse, Cancel
<1>3. CASE WakeUp(c)
  BY <1>i, <1>3, GoesTo, StartsWith, Ended
     DEF WakeUp, Nudge, Wake, SendMessage, Mark, Sweep, ResumeForFirstOpen, Stamp, Begin
<1>4. CASE Execution(c)
  <2>1. CASE Deliver(c)
    <3>1. CASE call' = call
      BY <2>1, <3>1 DEF Deliver
    <3>2. CASE Begin(c, "request", NextAttempt, NoToken)
      BY <1>i, <3>2, StartsWith DEF Begin
    <3> QED BY <2>1, <3>1, <3>2 DEF Deliver
  <2>2. CASE Park(c)
    BY <1>i, <2>2, GoesTo DEF Park
  <2>3. CASE Recheck(c)
    BY <1>i, <2>3, StartsWith, Ended DEF Recheck, Begin, Verdicts
  <2>4. CASE PutRequest(c) \/ Enqueue(c) \/ Consult(c) \/ Adopt(c) \/ Retry(c)
    BY <1>i, <2>4, GoesTo, Ended DEF PutRequest, Enqueue, Consult, Adopt, Retry
  <2> QED BY <1>4, <2>1, <2>2, <2>3, <2>4 DEF Execution
<1>5. CASE Maintenance(c)
  <2>1. CASE PurgeCheck(c)
    BY <1>i, <2>1, Ended DEF PurgeCheck, CallsInv, CallType
  <2>2. CASE CheckStale(c)
    BY <1>i, <2>2, GoesTo, Ended DEF CheckStale
  <2>3. ASSUME NEW j \in Jobs, SelectOverdue(c, j) PROVE WakeMove(c)
    BY <1>i, <2>3, StartsWith DEF SelectOverdue, NudgeIsOverdue, Verdicts
  <2> QED BY <1>i, <1>5, <2>1, <2>2, <2>3, GoesTo, StartsWith, Ended
       DEF Maintenance, SelectUpload, DropObject, HeadObject, DropUpload, SelectUnheld,
           SelectSettled, CancelStale, DropExchange, HeadExchange, DropJob, Begin
<1>6. CASE SendThrows(c) \/ Die(c)
  BY <1>i, <1>6, Ended DEF SendThrows, Die, Abort
<1> QED BY <1>1, <1>2, <1>3, <1>4, <1>5, <1>6 DEF CallStep, Invocation

\* A wake-up that neither throws nor dies goes on: a second look finds a verdict
\* or ends, a nudge of a current owner clears its marker and sends, and a send
\* leaves a message.
LEMMA WakingGoesOn ==
  ASSUME PlaneInv, NEW c \in Claims, Invocation(c)
  PROVE  /\ call[c].pc \in {"send", "dispatch"} => inbox'
         /\ /\ call[c].pc = "recheck" /\ row[call[c].job].status \in Verdicts
            => call'[c].pc = "nudge" /\ call'[c].job = call[c].job
         /\ call[c].pc = "nudge" /\ OwnerCurrent(call[c].job)
            => call'[c].pc = "wake" /\ call'[c].job = call[c].job
         /\ call[c].pc = "wake" /\ daily.status = "queued" => call'[c].pc = "send"
         /\ call[c].pc \in {"commit", "fail", "refuse"}
               /\ HoldsLease(call[c].job, call[c].tok, call[c].at)
            => call'[c].pc = "nudge" /\ call'[c].job = call[c].job
<1>i. CallsInv
  BY DEF PlaneInv
<1> USE DEF At, Free
<1>1. CASE call[c].pc \in {"send", "dispatch"}
  <2>1. SendMessage(c, "send", "mark") \/ SendMessage(c, "dispatch", "stamp")
    BY <1>1 DEF Invocation, ClaimRoute, ClaimCall, CheckOwner, Fetch, Release, Charge,
         Refuse, Reply, AnswerRoutes, CompleteCall, Reserve, PutResponse,
         CheckBeforeCommit, Commit, FailCall, Fail, Cancel, WakeUp, Nudge, Wake, Mark,
         Sweep, ResumeForFirstOpen, Stamp, Execution, Deliver, PutRequest, Enqueue,
         Consult, Adopt, Retry, Park, Recheck, Maintenance, SelectUpload, DropObject,
         HeadObject, DropUpload, SelectUnheld, SelectOverdue, SelectSettled, CheckStale,
         CancelStale, PurgeCheck, DropExchange, HeadExchange, DropJob
  <2> QED BY <1>1, <2>1 DEF SendMessage
<1>2. CASE call[c].pc \in {"recheck", "nudge", "wake", "commit", "fail", "refuse"}
  <2>1. Recheck(c) \/ Nudge(c) \/ Wake(c) \/ Commit(c) \/ Fail(c) \/ Refuse(c)
    BY <1>2 DEF Invocation, ClaimRoute, ClaimCall, CheckOwner, Fetch, Release, Charge,
         Reply, AnswerRoutes, CompleteCall, Reserve, PutResponse,
         CheckBeforeCommit, FailCall, Cancel, WakeUp, SendMessage, Mark,
         Sweep, ResumeForFirstOpen, Stamp, Execution, Deliver, PutRequest, Enqueue,
         Consult, Adopt, Retry, Park, Maintenance, SelectUpload, DropObject,
         HeadObject, DropUpload, SelectUnheld, SelectOverdue, SelectSettled, CheckStale,
         CancelStale, PurgeCheck, DropExchange, HeadExchange, DropJob
  <2>2. CASE Recheck(c)
    BY <1>i, <2>2, StartsWith DEF Recheck, Begin, Verdicts
  <2>3. CASE Nudge(c)
    BY <1>i, <2>3, GoesTo DEF Nudge
  <2>4. CASE Wake(c)
    BY <1>i, <2>4, GoesTo DEF Wake
  <2>5. CASE Commit(c)
    BY <1>i, <2>5, GoesTo DEF Commit
  <2>6. CASE Fail(c)
    BY <1>i, <2>6, GoesTo DEF Fail
  <2>7. CASE Refuse(c)
    BY <1>i, <2>7, GoesTo DEF Refuse
  <2> QED BY <2>1, <2>2, <2>3, <2>4, <2>5, <2>6, <2>7
<1> QED BY <1>1, <1>2

\* A call comes to act by a claim or by an answer, at an instant of now, or it
\* goes on; and it cancels an owner that is not current or a lease that is lost.
ActMove(c) ==
    LET k == call[c]
        l == call'[c] IN
    \/ /\ k.pc = "idle" /\ l.pc = "claimed" /\ l.at = now
       /\ l.job \in Jobs /\ l.tok \in Tokens /\ ClaimJob(l.job, l.tok, now)
    \/ /\ k.pc = "idle" /\ l.pc \in AnswerSteps /\ l.at = now
       /\ issued[l.tok] = {l.job} /\ answers[l.tok].left > 0
       /\ row[l.job].status \in {"leased", "failed"} /\ UNCHANGED <<row, issued>>
    \/ /\ k.pc \in ActSteps /\ l.job = k.job /\ l.tok = k.tok
       /\ l.at \in {k.at, now}
       /\ l.pc \in ClaimSteps => k.pc \in ClaimSteps /\ l.at = k.at /\ row' = row
       /\ l.pc = "cancel" =>
             /\ row' = row
             /\ \/ k.pc \in OwnerReads /\ ~OwnerCurrent(k.job)
                \/ k.pc = "commit" /\ ~HoldsLease(k.job, k.tok, k.at)

\* Every invocation that acts afterwards keeps to this.
LEMMA InvocationMovesAct ==
  ASSUME PlaneInv, NEW c \in Claims, CallStep(c), call'[c].pc \in ActSteps
  PROVE  ActMove(c)
<1>i. CallsInv
  BY DEF PlaneInv
<1>0. Invocation(c) /\ (ClaimRoute(c) \/ AnswerRoutes(c))
  BY <1>i, RestActs DEF CallStep, Invocation
<1> USE DEF ActMove, At, Free, ActSteps, ClaimSteps, AnswerSteps, OwnerReads, tableVars
<1>1. CASE ClaimCall(c)
  BY <1>i, <1>1, StartsWith DEF ClaimCall, Begin
<1>2. CASE Arrival(c)
  <2>1. PICK j \in Jobs, t \in Tokens : CompleteCall(c, j, t) \/ FailCall(c, j, t)
    BY <1>2 DEF Arrival
  <2>2. /\ call[c].pc = "idle" /\ issued[t] = {j} /\ answers[t].left > 0
        /\ UNCHANGED <<row, issued>>
    BY <2>1 DEF CompleteCall, FailCall, Arrives
  <2>3. \/ call' = call
        \/ /\ row[j].status \in {"leased", "failed"}
           /\ \/ Begin(c, "checkBeforeReserve", j, t)
              \/ Begin(c, "checkBeforeFail", j, t)
              \/ Begin(c, "fail", j, t)
    BY <2>1 DEF CompleteCall, FailCall, HoldsLease, HasFailed
  <2> QED BY <1>i, <2>2, <2>3, StartsWith DEF Begin
<1>3. CASE CheckBeforeCommit(c)
  <2>1. CASE OwnerCurrent(call[c].job)
    <3>1. call' = [call EXCEPT ![c].at = now, ![c].pc = "commit"]
      BY <1>3, <2>1 DEF CheckBeforeCommit
    <3>2. call'[c].pc = "commit" /\ call'[c].at = now
      BY <1>i, <3>1 DEF CallsInv, CallType
    <3> QED BY <1>i, <1>3, <3>2, ChecksCommit DEF CheckBeforeCommit
  <2>2. CASE ~OwnerCurrent(call[c].job)
    BY <1>i, <1>3, <2>2, ChecksCommit DEF CheckBeforeCommit
  <2> QED BY <2>1, <2>2
<1>4. CASE ~ClaimCall(c) /\ ClaimRoute(c)
  BY <1>i, <1>4, GoesTo, Ended
     DEF ClaimRoute, CheckOwner, Fetch, Release, Charge, Refuse, Reply
<1>5. CASE ~Arrival(c) /\ ~CheckBeforeCommit(c) /\ AnswerRoutes(c)
  BY <1>i, <1>5, GoesTo, Ended
     DEF AnswerRoutes, Arrival, CheckOwner, Reserve, PutResponse, Commit, Fail, Cancel
<1> QED BY <1>0, <1>1, <1>2, <1>3, <1>4, <1>5
-----------------------------------------------------------------------------
(* LinkInv: the rows are those of the attempts made, whoever works on a row *)
(* of a live owner finds it, and an execution works on the last attempt.    *)

RowsAreAttempts ==
    /\ \A j \in Jobs : row[j].status # "absent" => j <= daily.attempts
    /\ OwnerLive /\ daily.result = "publisher_pending"
          => row[daily.attempts].status # "absent"

CallLinked(c) ==
    LET k == call[c] IN
    /\ k.pc \in ExecutorSteps => k.job = daily.attempts
    /\ k.pc \in {"consult", "park"} => row[k.job].status # "absent"
    /\ k.pc \in ActSteps => issued[k.tok] = {k.job}
    /\ OwnerLive /\ k.pc \in ActSteps \cup {"cancelStale"}
          => row[k.job].status # "absent"

LinkInv == RowsAreAttempts /\ \A c \in Claims : CallLinked(c)

\* The attempts are counted up, and only by a claim of the owner.
LEMMA AttemptsGrow ==
  ASSUME PlaneInv, NEW c \in Claims, OwnerMove(c)
  PROVE  /\ daily.attempts \in Nat /\ daily'.attempts \in Nat
         /\ daily'.attempts >= daily.attempts
         /\ \/ daily'.attempts = daily.attempts
            \/ ClaimOwner(c, now, ClaimLost) /\ daily'.attempts = daily.attempts + 1
<1>i. daily \in OwnerType /\ daily.attempts \in Nat
  BY DEF PlaneInv, OwnerInv, OwnerType
<1>1. CASE ClaimOwner(c, now, ClaimLost)
  <2>1. daily'.attempts = NextAttempt
    BY <1>i, <1>1 DEF ClaimOwner, OwnerType
  <2> QED BY <1>i, <1>1, <2>1 DEF NextAttempt
<1>2. CASE ~ClaimOwner(c, now, ClaimLost)
  <2>1. ASSUME NEW at \in 1 .. now, SetMarker(at) PROVE daily'.attempts = daily.attempts
    BY <1>i, <2>1 DEF SetMarker, OwnerType
  <2>2. ASSUME NEW s, SettleOwner(c, s) PROVE daily'.attempts = daily.attempts
    BY <1>i, <2>2 DEF SettleOwner, OwnerType
  <2>3. ClearMarker \/ ResumeOwner(0) \/ ReleaseOwnerForRetry(c) \/ ParkOwner(c)
           => daily'.attempts = daily.attempts
    BY <1>i DEF ClearMarker, ResumeOwner, ReleaseOwnerForRetry, ParkOwner, OwnerType
  <2> QED BY <1>i, <1>2, <2>1, <2>2, <2>3 DEF OwnerMove
<1> QED BY <1>1, <1>2

\* Nobody deletes a row of a live owner, and only an execution makes one.
LEMMA RowsOfLiveOwner ==
  ASSUME RequestInv, NEW c \in Claims, NEW j \in Jobs, RowMove(c, j), OwnerLive
  PROVE  /\ row[j].status # "absent" => row'[j].status # "absent"
         /\ row[j].status \in Verdicts => row'[j] = row[j]
         /\ row[j].status = "absent" /\ row'[j].status # "absent"
            => call[c].pc = "enqueue" /\ call[c].job = j
BY DEF RowMove, RequestInv, CallAllows, PurgeSteps, Verdicts, Open, Claimable, HoldsLease

\* Minted tokens stay minted, for the job they were minted for.
LEMMA IssuedForGood ==
  ASSUME PlaneInv, NEW c \in Claims, CallStep(c), NEW t \in Tokens, issued[t] # {}
  PROVE  issued'[t] = issued[t]
<1>i. issued \in [Tokens -> SUBSET Jobs]
  BY DEF PlaneInv, JobsInv, TypeOK
<1>1. CASE ClaimCall(c)
  BY <1>i, <1>1 DEF ClaimCall, ClaimJob, Unissued
<1>2. CASE ~ClaimCall(c)
  BY <1>2, OnlyClaimsIssue DEF CallStep
<1> QED BY <1>1, <1>2

\* At a step of a call the rows stay those of the attempts.
LEMMA RowsAreAttemptsNext ==
  ASSUME PlaneInv, RequestInv, LinkInv, NEW c \in Claims, CallStep(c), OwnerMove(c),
         [PlaneNext]_planeVars, \A j \in Jobs : RowMove(c, j)
  PROVE  RowsAreAttempts'
<1>i. /\ daily \in OwnerType /\ OwnerInv
      /\ daily.attempts \in Nat /\ daily'.attempts \in Nat
      /\ daily'.attempts >= daily.attempts
  BY AttemptsGrow DEF PlaneInv, OwnerInv
<1>1. ASSUME NEW j \in Jobs, row'[j].status # "absent" PROVE j <= daily'.attempts
  <2>1. CASE row[j].status # "absent"
    <3>1. j <= daily.attempts /\ j \in Nat
      BY <2>1 DEF LinkInv, RowsAreAttempts
    <3> QED BY <1>i, <3>1
  <2>2. CASE row[j].status = "absent"
    <3>1. call[c].pc = "enqueue" /\ call[c].job = j
      BY <1>1, <2>2 DEF RowMove, Claimable, HoldsLease, Open, Terminal
    <3>2. j = daily.attempts
      BY <3>1 DEF LinkInv, CallLinked, ExecutorSteps
    <3> QED BY <1>i, <3>2
  <2> QED BY <2>1, <2>2
<1>2. ASSUME OwnerLive', daily'.result = "publisher_pending"
      PROVE  row'[daily'.attempts].status # "absent"
  <2>0. OwnerLive
    BY <1>2, SettledForGood
  <2>1. CASE daily.result = "publisher_pending"
    <3>1. daily'.attempts = daily.attempts
      BY <1>i, <2>1 DEF OwnerMove, ClaimOwner, NextAttempt, ClearMarker, SetMarker,
                    ResumeOwner, SettleOwner, ReleaseOwnerForRetry, ParkOwner, OwnerType
    <3>2. daily.attempts \in Jobs
      BY <1>i, <2>1 DEF OwnerInv, OwnerType
    <3>3. row[daily.attempts].status # "absent"
      BY <2>0, <2>1 DEF LinkInv, RowsAreAttempts
    <3> QED BY <2>0, <3>1, <3>2, <3>3, RowsOfLiveOwner
  <2>2. CASE daily.result # "publisher_pending"
    <3>1. call[c].pc = "park" /\ ParkOwner(c)
      BY <1>i, <1>2, <2>2 DEF OwnerMove, ClaimOwner, ClearMarker, SetMarker, ResumeOwner,
                          SettleOwner, ReleaseOwnerForRetry, OwnerType
    <3>2. daily'.attempts = daily.attempts /\ daily.status = "running"
      BY <1>i, <3>1 DEF ParkOwner, HoldsOwner, OwnerType
    <3>3. call[c].job = daily.attempts /\ row[call[c].job].status # "absent"
      BY <3>1 DEF LinkInv, CallLinked, ExecutorSteps
    <3>4. daily.attempts \in Jobs
      BY <1>i, <3>2 DEF OwnerInv, OwnerType
    <3> QED BY <2>0, <3>2, <3>3, <3>4, RowsOfLiveOwner
  <2> QED BY <2>1, <2>2
<1> QED BY <1>1, <1>2 DEF RowsAreAttempts

\* At a step of a call every other call stays linked.
LEMMA OtherCallsLinked ==
  ASSUME PlaneInv, RequestInv, LinkInv, NEW c \in Claims, CallStep(c), OwnerMove(c),
         [PlaneNext]_planeVars, \A j \in Jobs : RowMove(c, j),
         NEW d \in Claims \ {c}, call'[d] = call[d]
  PROVE  CallLinked(d)'
<1>l. CallLinked(d) /\ CallInv(call[d]) /\ CallAllows(d)
  BY DEF LinkInv, PlaneInv, CallsInv, RequestInv
<1>1. CASE call[d].pc \in ExecutorSteps
  <2>1. HoldsOwner(d) /\ OwnerLive /\ ~ClaimOwner(c, now, ClaimLost)
    BY <1>l, <1>1, TakeableIsAbandoned DEF CallAllows, ClaimOwner, HoldsOwner, OwnerLive
  <2>2. daily'.attempts = daily.attempts
    BY <2>1, AttemptsGrow
  <2>3. call[d].job \in Jobs
    BY <1>l, <1>1 DEF CallInv, JobSteps, Steps, ExecutorSteps
  <2>4. row[call[d].job].status # "absent" => row'[call[d].job].status # "absent"
    BY <2>1, <2>3, RowsOfLiveOwner
  <2> QED BY <1>1, <1>l, <2>2, <2>4
          DEF CallLinked, ExecutorSteps, ActSteps, ClaimSteps, AnswerSteps
<1>2. CASE call[d].pc \in ActSteps \cup {"cancelStale"}
  <2>1. call[d].job \in Jobs
    BY <1>l, <1>2 DEF CallInv, JobSteps, Steps, ActSteps, ClaimSteps, AnswerSteps,
                            MaintenanceSteps
  <2>2. OwnerLive' => OwnerLive
    BY SettledForGood
  <2>3. OwnerLive => row'[call[d].job].status # "absent"
    BY <1>l, <1>2, <2>1, RowsOfLiveOwner DEF CallLinked
  <2>4. call[d].pc \in ActSteps => issued'[call[d].tok] = {call[d].job}
    <3> SUFFICES ASSUME call[d].pc \in ActSteps
                 PROVE  issued'[call[d].tok] = {call[d].job}
      OBVIOUS
    <3>1. call[d].tok \in Tokens /\ issued[call[d].tok] = {call[d].job}
      BY <1>l DEF CallInv, TokenSteps, ActSteps, CallLinked
    <3> QED BY <3>1, IssuedForGood
  <2> QED BY <1>2, <2>2, <2>3, <2>4
          DEF CallLinked, ExecutorSteps, ActSteps, ClaimSteps, AnswerSteps
<1>3. CASE call[d].pc \notin ExecutorSteps \cup ActSteps \cup {"cancelStale"}
  BY <1>3 DEF CallLinked, ExecutorSteps
<1> QED BY <1>1, <1>2, <1>3

\* So does the call that steps.
LEMMA StepperLinked ==
  ASSUME PlaneInv, RequestInv, LinkInv, NEW c \in Claims, CallStep(c), OwnerMove(c),
         [PlaneNext]_planeVars, \A j \in Jobs : RowMove(c, j)
  PROVE  CallLinked(c)'
<1>l. /\ CallLinked(c) /\ CallInv(call[c]) /\ CallAllows(c) /\ CallsInv
      /\ row \in [Jobs -> RowType] /\ issued \in [Tokens -> SUBSET Jobs]
      /\ daily \in OwnerType
  BY DEF LinkInv, PlaneInv, CallsInv, RequestInv, JobsInv, TypeOK, OwnerInv
<1>o. OwnerLive' => OwnerLive
  BY SettledForGood
<1>1. CASE call'[c].pc \in ExecutorSteps
  <2>1. CASE /\ ClaimOwner(c, now, ClaimLost) /\ call'[c].pc = "request"
             /\ call'[c].job = NextAttempt
    <3>1. daily'.attempts = NextAttempt
      BY <1>l, <2>1 DEF ClaimOwner, OwnerType
    <3> QED BY <2>1, <3>1
            DEF CallLinked, ExecutorSteps, ActSteps, ClaimSteps, AnswerSteps
  <2>2. CASE call[c].pc \in ExecutorSteps /\ daily' = daily /\ call'[c].job = call[c].job
    <3>1. call'[c].job = daily'.attempts
      BY <1>l, <2>2 DEF CallLinked
    <3>2. HoldsOwner(c) /\ OwnerLive /\ call[c].job \in Jobs
      BY <1>l, <2>2 DEF CallAllows, HoldsOwner, OwnerLive, CallInv, JobSteps, Steps,
                        ExecutorSteps
    <3>3. call'[c].pc \in {"consult", "park"} => row'[call[c].job].status # "absent"
      <4>1. CASE EnqueueJob(call[c].job, now)
        BY <1>l, <3>2, <4>1 DEF EnqueueJob, Absent
      <4>2. CASE row[call[c].job].status # "absent"
        BY <3>2, <4>2, RowsOfLiveOwner
      <4>3. CASE ~ClaimOwner(c, now, ClaimLost) /\ call'[c].pc \in {"consult", "park"}
        BY <1>1, <1>l, <4>1, <4>2, <4>3, ExecutorMoves DEF Open
      <4>4. ~ClaimOwner(c, now, ClaimLost)
        BY <2>2, TakeableIsAbandoned DEF ClaimOwner
      <4> QED BY <4>3, <4>4
    <3> QED BY <1>1, <2>2, <3>1, <3>3
            DEF CallLinked, ExecutorSteps, ActSteps, ClaimSteps, AnswerSteps
  <2> QED BY <1>1, <1>l, <2>1, <2>2, ExecutorMoves
<1>2. CASE call'[c].pc \in ActSteps
  <2>m. ActMove(c)
    BY <1>2, InvocationMovesAct
  <2>e. call'[c].pc \notin ExecutorSteps
    BY <1>2 DEF ExecutorSteps, ActSteps, ClaimSteps, AnswerSteps
  <2> DEFINE j == call'[c].job
             t == call'[c].tok
  <2> SUFFICES issued'[t] = {j} /\ (OwnerLive' => row'[j].status # "absent")
    BY <1>2, <2>e DEF CallLinked, ExecutorSteps, ActSteps, ClaimSteps, AnswerSteps
  <2>1. CASE j \in Jobs /\ t \in Tokens /\ ClaimJob(j, t, now)
    BY <1>l, <2>1 DEF ClaimJob, RowType
  <2>2. CASE /\ issued[t] = {j} /\ row[j].status \in {"leased", "failed"}
             /\ UNCHANGED <<row, issued>>
    BY <2>2
  <2>3. CASE call[c].pc \in ActSteps /\ j = call[c].job /\ t = call[c].tok
    <3>1. call[c].job \in Jobs /\ call[c].tok \in Tokens
      BY <1>l, <2>3 DEF CallInv, JobSteps, Steps, TokenSteps, ActSteps,
                            ClaimSteps, AnswerSteps
    <3>2. issued[call[c].tok] = {call[c].job}
      BY <1>l, <2>3 DEF CallLinked
    <3>3. OwnerLive => row'[call[c].job].status # "absent"
      BY <1>l, <2>3, <3>1, RowsOfLiveOwner DEF CallLinked
    <3> QED BY <1>o, <2>3, <3>1, <3>2, <3>3, IssuedForGood
  <2> QED BY <2>m, <2>1, <2>2, <2>3 DEF ActMove
<1>3. CASE call'[c].pc = "cancelStale"
  <2>1. /\ call'[c].job = call[c].job /\ call[c].pc = "checkStale"
        /\ row[call[c].job].status # "absent"
    BY <1>3, InvocationMovesWake DEF WakeMove
  <2>2. call[c].job \in Jobs
    BY <1>l, <2>1 DEF CallInv, JobSteps, Steps, MaintenanceSteps
  <2>3. OwnerLive => row'[call[c].job].status # "absent"
    BY <2>1, <2>2, RowsOfLiveOwner
  <2> QED BY <1>3, <1>o, <2>1, <2>3
          DEF CallLinked, ExecutorSteps, ActSteps, ClaimSteps, AnswerSteps
<1>4. CASE call'[c].pc \notin ExecutorSteps \cup ActSteps \cup {"cancelStale"}
  BY <1>4 DEF CallLinked, ExecutorSteps
<1> QED BY <1>1, <1>2, <1>3, <1>4

\* A step that belongs to no call leaves the links in place.
LEMMA AmbientLinked ==
  ASSUME PlaneInv, LinkInv, Ambient, [PlaneNext]_planeVars
  PROVE  LinkInv'
<1>i. daily \in OwnerType
  BY DEF PlaneInv, OwnerInv
<1>1. UNCHANGED <<row, issued, call>>
  BY AmbientStep DEF tableVars
<1>2. /\ daily'.attempts = daily.attempts
      /\ daily'.result = "publisher_pending" => daily.result = "publisher_pending"
  BY <1>i DEF Ambient, PlaneTick, PauseDelivery, ResumePaused, PauseOwner, ResumeOwner,
              RolloutOff, RolloutOn, Depart, Switch, Freeze, Thaw, Freezing,
              planeVars, ownerVars, OwnerType
<1>3. OwnerLive' => OwnerLive
  BY SettledForGood
<1> QED BY <1>1, <1>2, <1>3 DEF LinkInv, RowsAreAttempts, CallLinked

\* The links hold at every step.
LEMMA LinkInvNext ==
  ASSUME PlaneInv, RequestInv, LinkInv, [PlaneNext]_planeVars
  PROVE  LinkInv'
<1>1. ASSUME NEW c \in Claims, CallStep(c) PROVE LinkInv'
  <2>1. TableMove(c) /\ OwnerMove(c) /\ \A d \in Claims \ {c} : call'[d] = call[d]
    BY <1>1, InvocationMovesTable, InvocationMovesOwner, OthersStay
       DEF CallStep, PlaneInv
  <2>2. \A j \in Jobs : RowMove(c, j)
    BY <2>1, TableMovesRows
  <2>3. RowsAreAttempts'
    BY <1>1, <2>1, <2>2, RowsAreAttemptsNext
  <2>4. CallLinked(c)'
    BY <1>1, <2>1, <2>2, StepperLinked
  <2>5. \A d \in Claims \ {c} : CallLinked(d)'
    BY <1>1, <2>1, <2>2, OtherCallsLinked
  <2> QED BY <2>3, <2>4, <2>5 DEF LinkInv
<1>2. CASE Ambient
  BY <1>2, AmbientLinked
<1> QED BY <1>1, <1>2 DEF PlaneNext, Ambient, CallStep

\* The links hold for any number of attempts, tokens and calls, and any faults.
LEMMA LinkInvariant == PlaneSpec => [](PlaneInv /\ RequestInv /\ LinkInv)
<1>1. PlaneInit => RequestInv
  BY DEF PlaneInit, JobsInit, Absent, Idle, RequestInv, RequestPrecedesJob, Dated,
         CallAllows, ExecutorSteps, PurgeSteps, DropSteps
<1>2. PlaneInit => LinkInv
  BY DEF PlaneInit, JobsInit, Absent, Idle, OwnerInit, LinkInv, RowsAreAttempts,
         CallLinked, ExecutorSteps, ActSteps, ClaimSteps, AnswerSteps
<1>3. PlaneInv /\ RequestInv /\ [PlaneNext]_planeVars => RequestInv'
  BY RequestInvNext
<1>4. PlaneInv /\ RequestInv /\ LinkInv /\ [PlaneNext]_planeVars => LinkInv'
  BY LinkInvNext
<1> QED BY <1>1, <1>2, <1>3, <1>4, PlaneInvariant, PTL DEF PlaneSpec
-----------------------------------------------------------------------------
(* OwnInv: as long as a pause or a freeze has turned nothing away, the job  *)
(* of an owner that may run is not withdrawn.  A call withdraws a job after  *)
(* a check that failed, and then the owner is no longer entitled to it:      *)
(* attempts, consents, accounts and verdicts do not come back; or when its   *)
(* lease is gone, and then the statement compares a token that the row does  *)
(* not have any more.                                                        *)

UploadsOutlastAHandler == UploadExtension > MaxLag

Lapsed(j, t) == row[j].status # "leased" \/ row[j].token # t

NeverPaused == daily.result # "rollout_paused"

MayRun == admission \in {"open", "paused"}

NotWithdrawn == MayRun /\ OwnerLive /\ daily.attempts # 0
                => row[daily.attempts].status # "cancelled"

CallWithdraws(c) ==
    LET k == call[c] IN
    /\ k.pc = "cancelStale" => ~Entitled(k.job)
    /\ k.pc = "cancel" => ~Entitled(k.job) \/ Lapsed(k.job, k.tok)
    /\ k.pc \in StoreSteps =>
          \/ Lapsed(k.job, k.tok)
          \/ /\ row[k.job].leaseUntil > k.at
             /\ k.pc # "commit" => row[k.job].leaseUntil > k.at + MaxLag

OwnInv == /\ NeverPaused
          /\ NotWithdrawn
          /\ \A c \in Claims : CallWithdraws(c)

\* What has disturbed the plane stays on record.
LEMMA CountsGrow ==
  ASSUME PlaneInv, [PlaneNext]_planeVars
  PROVE  /\ denied \subseteq denied'
         /\ deaths' = 0 => deaths = 0 /\ \A c \in Claims : ~Die(c)
         /\ throws' = 0 => throws = 0 /\ \A c \in Claims : ~SendThrows(c)
<1>i. deaths \in Nat /\ throws \in Nat
  BY DEF PlaneInv, RestOK
<1> USE DEF boundVars
<1>1. \A c \in Claims : Die(c) => deaths' # 0 /\ throws' = throws /\ denied' = denied
  BY <1>i DEF Die, Abort
<1>2. \A c \in Claims : SendThrows(c) => throws' # 0 /\ deaths' = deaths /\ denied' = denied
  BY <1>i DEF SendThrows, Abort
<1>3. \/ UNCHANGED <<deaths, throws>> /\ denied \subseteq denied'
      \/ \E c \in Claims : SendThrows(c) \/ Die(c)
  BY DEF PlaneNext, PlaneTick, Invocation, RolloutOff, RolloutOn, Depart, Freeze, Thaw,
         Interrupt, planeVars
<1> QED BY <1>1, <1>2, <1>3

\* A message that is consumed while the row may be claimed, and no freeze is
\* noted for it, met an account that was not frozen.
LEMMA NotTurnedAway ==
  ASSUME NEW c \in Claims, Invocation(c), "delivery" \notin denied', inbox, ~inbox',
         daily.status = "queued", admission # "closed"
  PROVE  AccountServes
BY DEF Invocation, TurnedAway, Takeable, AccountServes

\* A check that fails, with nothing noted for it, fails for good.
LEMMA CheckedFairly ==
  ASSUME NEW c \in Claims, Invocation(c), "check" \notin denied',
         call[c].pc \in OwnerReads, ~OwnerCurrent(call[c].job)
  PROVE  ~Entitled(call[c].job)
BY DEF Invocation, TurnedAway

\* A call that goes on neither died nor threw.
LEMMA GoesOnByInvocation ==
  ASSUME CallsInv, NEW c \in Claims, CallStep(c), call'[c].pc # "idle"
  PROVE  Invocation(c)
BY Ended DEF CallStep, SendThrows, Die, Abort

\* Consent and account end for good; what a pause takes away it gives back.
LEMMA MayRunEnds ==
  ASSUME PlaneInv, [PlaneNext]_planeVars
  PROVE  MayRun' => MayRun
<1>1. ASSUME NEW c \in Claims, CallStep(c) PROVE admission' = admission
  BY <1>1, InvocationMovesOwner
<1>2. CASE Ambient
  BY <1>2 DEF Ambient, MayRun, PlaneTick, PauseDelivery, ResumePaused, RolloutOff,
              RolloutOn, Depart, Switch, Freeze, Thaw, Freezing, planeVars, ownerVars
<1> QED BY <1>1, <1>2 DEF PlaneNext, Ambient, CallStep, MayRun

\* Unless a delivery pauses it, a row moves by a call alone.
LEMMA AmbientKeepsOwner ==
  ASSUME Ambient, NeverPaused, "pause" \notin denied'
  PROVE  daily' = daily
<1>1. CASE /\ PauseDelivery
           /\ denied' = denied \cup IF Takeable(ClaimLost) THEN {"pause"} ELSE {}
  <2>1. ~Takeable(ClaimLost)
    BY <1>1
  <2> QED BY <1>1, <2>1 DEF PauseDelivery
<1>2. CASE \/ PlaneTick \/ ResumePaused \/ UNCHANGED planeVars
           \/ RolloutOff \/ RolloutOn \/ Depart \/ Freeze \/ Thaw
  BY <1>2 DEF NeverPaused, PlaneTick, ResumePaused, ResumeOwner, RolloutOff,
              RolloutOn, Depart, Switch, Freeze, Thaw, Freezing, planeVars, ownerVars
<1> QED BY <1>1, <1>2 DEF Ambient

\* A row that no delivery paused is none that waits for the rollout.
LEMMA NeverPausedNext ==
  ASSUME PlaneInv, NeverPaused, [PlaneNext]_planeVars, "pause" \notin denied'
  PROVE  NeverPaused'
<1>i. daily \in OwnerType
  BY DEF PlaneInv, OwnerInv
<1>1. ASSUME NEW c \in Claims, CallStep(c) PROVE NeverPaused'
  <2>1. OwnerMove(c)
    BY <1>1, InvocationMovesOwner
  <2>2. ASSUME NEW at \in 1 .. now, SetMarker(at) PROVE daily'.result = daily.result
    BY <1>i, <2>2 DEF SetMarker, OwnerType
  <2>3. ASSUME NEW s, SettleOwner(c, s) PROVE daily'.result = daily.result
    BY <1>i, <2>3 DEF SettleOwner, OwnerType
  <2>4. ClearMarker \/ ResumeOwner(0) \/ ReleaseOwnerForRetry(c) \/ ParkOwner(c)
           \/ ClaimOwner(c, now, ClaimLost)
           => daily'.result # "rollout_paused"
    BY <1>i DEF NeverPaused, ClearMarker, ResumeOwner, ReleaseOwnerForRetry, ParkOwner,
                ClaimOwner, OwnerType
  <2> QED BY <1>i, <2>1, <2>2, <2>3, <2>4 DEF OwnerMove, NeverPaused
<1>2. CASE Ambient
  BY <1>2, AmbientKeepsOwner DEF NeverPaused
<1> QED BY <1>1, <1>2 DEF PlaneNext, Ambient, CallStep

\* A job whose owner has gone on to another attempt, or is settled, or has lost
\* consent or account, does not get its owner back.
LEMMA StaleForGood ==
  ASSUME PlaneInv, [PlaneNext]_planeVars,
         NEW j \in Jobs, ~Entitled(j), OwnerLive => j <= daily.attempts
  PROVE  ~Entitled(j)'
<1>1. OwnerLive' => OwnerLive
  BY SettledForGood
<1>2. MayRun' => MayRun
  BY MayRunEnds
<1>3. /\ daily.attempts \in Nat /\ daily'.attempts \in Nat
      /\ daily'.attempts >= daily.attempts
  <2>1. ASSUME NEW c \in Claims, CallStep(c)
        PROVE  /\ daily.attempts \in Nat /\ daily'.attempts \in Nat
               /\ daily'.attempts >= daily.attempts
    BY <2>1, InvocationMovesOwner, AttemptsGrow
  <2>2. daily \in OwnerType /\ daily.attempts \in Nat
    BY DEF PlaneInv, OwnerInv, OwnerType
  <2>3. CASE Ambient
    <3>1. daily'.attempts = daily.attempts
      BY <2>2, <2>3 DEF Ambient, PlaneTick, PauseDelivery, ResumePaused, PauseOwner,
           ResumeOwner, RolloutOff, RolloutOn, Depart, Switch, Freeze, Thaw, Freezing,
           planeVars, ownerVars, OwnerType
    <3> QED BY <2>2, <3>1
  <2> QED BY <2>1, <2>3 DEF PlaneNext, Ambient, CallStep
<1>4. j \in Nat
  OBVIOUS
<1> QED BY <1>1, <1>2, <1>3, <1>4 DEF Entitled, MayRun

\* A lease that is gone does not come back under its token.
LEMMA LapsedForGood ==
  ASSUME NEW c \in Claims, NEW j \in Jobs, NEW t \in Tokens, RowMove(c, j),
         t \notin Unissued, Lapsed(j, t)
  PROVE  Lapsed(j, t)'
BY DEF RowMove, Lapsed, HoldsLease, Verdicts, Open

\* A lease that goes on under its token is not shortened.
LEMMA HeldOrLapsed ==
  ASSUME NEW c \in Claims, NEW j \in Jobs, NEW t \in Tokens, RowMove(c, j),
         t \notin Unissued, NEW until \in Nat, row[j].leaseUntil \in Nat,
         row'[j].leaseUntil \in Nat, row[j].leaseUntil > until
  PROVE  Lapsed(j, t)' \/ row'[j].leaseUntil > until
BY DEF RowMove, Lapsed, HoldsLease, Verdicts, Open

\* The job of a current owner is not withdrawn.
LEMMA NotWithdrawnNext ==
  ASSUME PlaneInv, RequestInv, LinkInv, OwnInv, NEW c \in Claims, CallStep(c),
         OwnerMove(c), [PlaneNext]_planeVars, denied' = {}, \A j \in Jobs : RowMove(c, j)
  PROVE  NotWithdrawn'
<1>i. /\ daily \in OwnerType /\ daily' \in OwnerType /\ daily.attempts \in Nat
      /\ CallInv(call[c]) /\ CallWithdraws(c) /\ NotWithdrawn
  BY PlaneInvNext DEF PlaneInv, OwnerInv, OwnerType, CallsInv, OwnInv
<1> SUFFICES ASSUME MayRun', OwnerLive', daily'.attempts # 0
             PROVE  row'[daily'.attempts].status # "cancelled"
  BY DEF NotWithdrawn
<1>1. MayRun /\ OwnerLive
  BY MayRunEnds, SettledForGood
<1>2. daily'.attempts \in Jobs
  BY <1>i DEF OwnerType
<1>3. PICK j \in Jobs : j = daily'.attempts
  BY <1>2
<1>4. row[j].status # "cancelled"
  <2>1. CASE daily'.attempts = daily.attempts
    BY <1>i, <1>1, <1>3, <2>1 DEF NotWithdrawn
  <2>2. CASE daily'.attempts = daily.attempts + 1
    <3>1. ~(j <= daily.attempts)
      BY <1>i, <1>3, <2>2
    <3>2. row[j].status = "absent"
      BY <3>1 DEF LinkInv, RowsAreAttempts
    <3> QED BY <3>2
  <2> QED BY <2>1, <2>2, AttemptsGrow
<1>5. CASE call[c].pc = "cancelStale" /\ call[c].job = j
  <2>1. ~Entitled(j)
    BY <1>i, <1>5 DEF CallWithdraws
  <2>2. OwnerLive => j <= daily.attempts
    BY <1>5 DEF LinkInv, CallLinked, RowsAreAttempts
  <2>3. ~Entitled(j)'
    BY <2>1, <2>2, StaleForGood
  <2> QED BY <1>3, <2>3 DEF Entitled, MayRun
<1>6. CASE /\ call[c].pc = "cancel" /\ call[c].job = j
           /\ HoldsLease(j, call[c].tok, call[c].at)
  <2>1. ~Entitled(j)
    BY <1>i, <1>6 DEF CallWithdraws, Lapsed, HoldsLease
  <2>2. OwnerLive => j <= daily.attempts
    BY <1>6 DEF LinkInv, RowsAreAttempts, HoldsLease
  <2>3. ~Entitled(j)'
    BY <2>1, <2>2, StaleForGood
  <2> QED BY <1>3, <2>3 DEF Entitled, MayRun
<1> QED BY <1>3, <1>4, <1>5, <1>6 DEF RowMove, Verdicts

\* Other calls keep their reason to withdraw a job, or the lease they store for.
LEMMA OthersWithdraw ==
  ASSUME PlaneInv, RequestInv, LinkInv, OwnInv, NEW c \in Claims, CallStep(c),
         [PlaneNext]_planeVars, denied' = {}, \A j \in Jobs : RowMove(c, j),
         NEW d \in Claims \ {c}, call'[d] = call[d]
  PROVE  CallWithdraws(d)'
<1>i. /\ row \in [Jobs -> RowType] /\ row' \in [Jobs -> RowType]
      /\ CallInv(call[d]) /\ CallWithdraws(d) /\ CallLinked(d) /\ TypeOK
  BY PlaneInvNext DEF PlaneInv, JobsInv, TypeOK, CallsInv, OwnInv, LinkInv
<1> SUFFICES ASSUME call[d].pc \in StoreSteps \cup {"cancel", "cancelStale"}
             PROVE  CallWithdraws(d)'
  BY DEF CallWithdraws
<1>1. /\ call[d].job \in Jobs /\ call[d].at \in Nat
  BY <1>i, SampledInstant
     DEF CallInv, JobSteps, Steps, StoreSteps, AnswerSteps, MaintenanceSteps
<1>2. PICK j \in Jobs : j = call[d].job
  BY <1>1
<1>3. ~Entitled(j) /\ call[d].pc \notin StoreSteps => ~Entitled(j)'
  <2> SUFFICES ASSUME ~Entitled(j), call[d].pc \notin StoreSteps
               PROVE  ~Entitled(j)'
    OBVIOUS
  <2>1. OwnerLive => row[j].status # "absent"
    BY <1>i, <1>2 DEF CallLinked, ActSteps
  <2>2. OwnerLive => j <= daily.attempts
    BY <2>1 DEF LinkInv, RowsAreAttempts
  <2> QED BY <2>2, StaleForGood
<1>4. CASE call[d].pc = "cancelStale"
  BY <1>i, <1>2, <1>3, <1>4 DEF CallWithdraws, StoreSteps
<1>5. CASE call[d].pc \in StoreSteps \cup {"cancel"}
  <2>1. call[d].tok \in Tokens /\ call[d].tok \notin Unissued
    BY <1>i, <1>5 DEF CallInv, TokenSteps, CallLinked, StoreSteps, ActSteps, AnswerSteps,
                      Unissued
  <2>2. PICK t \in Tokens : t = call[d].tok
    BY <2>1
  <2>3. Lapsed(j, t) => Lapsed(j, t)'
    BY <2>1, <2>2, LapsedForGood
  <2>4. CASE call[d].pc = "cancel"
    BY <1>i, <1>2, <1>3, <2>2, <2>3, <2>4 DEF CallWithdraws, StoreSteps
  <2>5. CASE call[d].pc \in StoreSteps
    <3>1. row[j].leaseUntil \in Nat /\ row'[j].leaseUntil \in Nat
      BY <1>i DEF RowType
    <3>2. ASSUME NEW until \in Nat, row[j].leaseUntil > until
          PROVE  Lapsed(j, t)' \/ row'[j].leaseUntil > until
      BY <2>1, <2>2, <3>1, <3>2, HeldOrLapsed
    <3>3. call[d].at \in Nat /\ call[d].at + MaxLag \in Nat
      BY <1>1
    <3> QED BY <1>i, <1>2, <2>2, <2>3, <2>5, <3>2, <3>3 DEF CallWithdraws, StoreSteps
  <2> QED BY <1>5, <2>4, <2>5
<1> QED BY <1>4, <1>5

\* So does the call that steps.
LEMMA StepperWithdraws ==
  ASSUME UploadsOutlastAHandler, PlaneInv, RequestInv, LinkInv, OwnInv,
         NEW c \in Claims, CallStep(c),
         [PlaneNext]_planeVars, denied' = {}, \A j \in Jobs : RowMove(c, j)
  PROVE  CallWithdraws(c)'
<1>i. /\ row \in [Jobs -> RowType] /\ row' \in [Jobs -> RowType]
      /\ CallInv(call[c]) /\ CallWithdraws(c) /\ CallLinked(c) /\ TypeOK /\ CallsInv
      /\ now \in Nat
  BY PlaneInvNext DEF PlaneInv, JobsInv, TypeOK, CallsInv, OwnInv, LinkInv
<1>1. CASE call'[c].pc = "cancelStale"
  <2>1. /\ call[c].pc = "checkStale" /\ call'[c].job = call[c].job
        /\ row[call[c].job].status # "absent" /\ ~OwnerCurrent(call[c].job)
    BY <1>1, InvocationMovesWake DEF WakeMove
  <2>0. ~Entitled(call[c].job)
    BY <1>i, <1>1, <2>1, GoesOnByInvocation, CheckedFairly DEF OwnerReads
  <2>2. call[c].job \in Jobs
    BY <1>i, <2>1 DEF CallInv, JobSteps, Steps, MaintenanceSteps
  <2>3. PICK j \in Jobs : j = call[c].job
    BY <2>2
  <2>4. ~Entitled(j)'
    BY <2>0, <2>1, <2>3, StaleForGood DEF LinkInv, RowsAreAttempts
  <2> QED BY <1>1, <2>1, <2>3, <2>4 DEF CallWithdraws, StoreSteps, Entitled
<1>2. CASE call'[c].pc = "cancel"
  <2>1. ActMove(c)
    BY <1>2, InvocationMovesAct DEF ActSteps
  <2>2. /\ call[c].pc \in ActSteps /\ row' = row
        /\ call'[c].job = call[c].job /\ call'[c].tok = call[c].tok
        /\ \/ call[c].pc \in OwnerReads /\ ~OwnerCurrent(call[c].job)
           \/ call[c].pc = "commit" /\ ~HoldsLease(call[c].job, call[c].tok, call[c].at)
    BY <1>2, <2>1 DEF ActMove, AnswerSteps
  <2>3. /\ call[c].job \in Jobs /\ call[c].tok \in Tokens
    BY <1>i, <2>2
       DEF CallInv, JobSteps, Steps, TokenSteps, ActSteps, ClaimSteps, AnswerSteps
  <2>4. PICK j \in Jobs : j = call[c].job
    BY <2>3
  <2>5. CASE call[c].pc \in OwnerReads /\ ~OwnerCurrent(call[c].job)
    <3>0. ~Entitled(j)
      BY <1>i, <1>2, <2>4, <2>5, GoesOnByInvocation, CheckedFairly
    <3>1. OwnerLive => j <= daily.attempts
      BY <2>2, <2>4 DEF LinkInv, CallLinked, RowsAreAttempts
    <3>2. ~Entitled(j)'
      BY <3>0, <3>1, StaleForGood
    <3> QED BY <1>2, <2>2, <2>4, <3>2 DEF CallWithdraws, StoreSteps, Entitled
  <2>6. CASE call[c].pc = "commit" /\ ~HoldsLease(call[c].job, call[c].tok, call[c].at)
    <3>1. Lapsed(call[c].job, call[c].tok)
      BY <1>i, <2>6 DEF CallWithdraws, StoreSteps, HoldsLease, Lapsed
    <3> QED BY <1>2, <2>2, <3>1 DEF CallWithdraws, StoreSteps, Lapsed
  <2> QED BY <2>2, <2>5, <2>6
<1>3. CASE call'[c].pc \in StoreSteps
  <2>1. /\ call'[c].job = call[c].job /\ call'[c].tok = call[c].tok
        /\ \/ /\ call[c].pc = "reserve" /\ call'[c].pc = "checkBeforePut"
              /\ ReserveUpload(call[c].job, call[c].tok, call[c].at)
              /\ call'[c].at = call[c].at
           \/ /\ call[c].pc \in StoreSteps \ {"commit"} /\ row' = row
              /\ call'[c].pc # "commit" => call'[c].at = call[c].at
              /\ call'[c].pc = "commit" => call'[c].at = now
    BY <1>i, <1>3, StoringMoves DEF StoreSteps, tableVars
  <2>2. /\ call[c].job \in Jobs /\ call[c].at \in Nat
        /\ now <= call[c].at + MaxLag /\ call[c].pc # "idle"
    <3>1. call[c].pc # "idle" /\ call[c].pc \in JobSteps
      BY <2>1 DEF StoreSteps, JobSteps, Steps, AnswerSteps
    <3>2. call[c].at \in Sampled
      BY <1>i, <3>1 DEF CallInv
    <3> QED BY <1>i, <3>1, <3>2, SampledInstant DEF CallInv, Sampled
  <2>3. PICK j \in Jobs : j = call[c].job
    BY <2>2
  <2>4. row[j].leaseUntil \in Nat /\ row'[j].leaseUntil \in Nat
    BY <1>i DEF RowType
  <2>5. CASE /\ call[c].pc = "reserve" /\ call'[c].pc = "checkBeforePut"
             /\ ReserveUpload(call[c].job, call[c].tok, call[c].at)
             /\ call'[c].at = call[c].at
    <3>1. row'[j].leaseUntil = Stretched(row[j].leaseUntil, call[c].at)
      BY <1>i, <2>3, <2>5 DEF ReserveUpload, RowType
    <3>2. row'[j].leaseUntil > call[c].at + MaxLag
      BY <2>2, <2>4, <3>1 DEF Stretched, UploadsOutlastAHandler
    <3>3. row'[j].leaseUntil > call[c].at
      BY <2>2, <2>4, <3>2
    <3> QED BY <2>1, <2>3, <2>5, <3>2, <3>3 DEF CallWithdraws, StoreSteps
  <2>6. CASE /\ call[c].pc \in StoreSteps \ {"commit"} /\ row' = row
             /\ call'[c].pc # "commit" => call'[c].at = call[c].at
             /\ call'[c].pc = "commit" => call'[c].at = now
    <3>1. \/ Lapsed(j, call[c].tok)
          \/ row[j].leaseUntil > call[c].at + MaxLag /\ row[j].leaseUntil > call[c].at
      BY <1>i, <2>3, <2>6 DEF CallWithdraws, StoreSteps
    <3>2. row[j].leaseUntil > call[c].at + MaxLag => row[j].leaseUntil > now
      BY <1>i, <2>2, <2>4
    <3> QED BY <1>3, <2>1, <2>3, <2>6, <3>1, <3>2 DEF CallWithdraws, StoreSteps, Lapsed
  <2> QED BY <2>1, <2>5, <2>6
<1>4. CASE call'[c].pc \notin StoreSteps \cup {"cancel", "cancelStale"}
  BY <1>4 DEF CallWithdraws
<1> QED BY <1>1, <1>2, <1>3, <1>4

\* The job of an owner that may run is not withdrawn at a step that turns
\* nothing away.
LEMMA OwnInvNext ==
  ASSUME UploadsOutlastAHandler, PlaneInv, RequestInv, LinkInv, OwnInv,
         [PlaneNext]_planeVars, denied' = {}
  PROVE  OwnInv'
<1>n. NeverPaused' /\ (Ambient => daily' = daily) /\ (MayRun' => MayRun)
  BY NeverPausedNext, AmbientKeepsOwner, MayRunEnds DEF OwnInv
<1>1. ASSUME NEW c \in Claims, CallStep(c) PROVE OwnInv'
  <2>1. TableMove(c) /\ OwnerMove(c) /\ \A d \in Claims \ {c} : call'[d] = call[d]
    BY <1>1, InvocationMovesTable, InvocationMovesOwner, OthersStay
       DEF CallStep, PlaneInv
  <2>2. \A j \in Jobs : RowMove(c, j)
    BY <2>1, TableMovesRows
  <2>3. NotWithdrawn'
    BY <1>1, <2>1, <2>2, NotWithdrawnNext
  <2>4. CallWithdraws(c)'
    BY <1>1, <2>2, StepperWithdraws
  <2>5. \A d \in Claims \ {c} : CallWithdraws(d)'
    BY <1>1, <2>1, <2>2, OthersWithdraw
  <2> QED BY <1>n, <2>3, <2>4, <2>5 DEF OwnInv
<1>2. CASE Ambient
  <2>1. UNCHANGED <<row, call>>
    BY <1>2, AmbientStep DEF tableVars
  <2>3. daily' = daily
    BY <1>2, <1>n
  <2> QED BY <1>n, <2>1, <2>3 DEF OwnInv, NotWithdrawn, CallWithdraws, Entitled, MayRun,
                              OwnerLive, Lapsed
<1> QED BY <1>1, <1>2 DEF PlaneNext, Ambient, CallStep
-----------------------------------------------------------------------------
(* The marker `dispatched_at` of the owner                                 *)

\* A marker is an instant of the past, and the claim of an owner left one.
OwnerMarked == /\ daily.dispatchedAt <= now
               /\ daily.status = "running" => daily.dispatchedAt # 0

\* How a call moves the status and the marker of the owner.
LEMMA MarkerMoves ==
  ASSUME PlaneInv, NEW c \in Claims, OwnerMove(c)
  PROVE  \/ daily' = daily
         \/ /\ call[c].pc = "wake" /\ call'[c].pc = "send" /\ inbox' = inbox
            /\ daily.status = "queued" /\ daily'.status = "queued"
            /\ daily'.dispatchedAt = 0 /\ daily'.result = daily.result
         \/ /\ call[c].pc \in {"mark", "stamp"} /\ Unmarked /\ inbox' = inbox
            /\ daily'.status = "queued" /\ daily'.dispatchedAt \in 1 .. now
            /\ daily'.result = daily.result
         \/ /\ daily.result = "rollout_paused" /\ daily'.result = "none"
            /\ daily.status = "queued" /\ daily'.status = "queued"
            /\ daily'.dispatchedAt = 0
         \/ /\ Takeable(ClaimLost) /\ AccountServes
            /\ daily'.status = "running" /\ daily'.result = daily.result
            /\ daily'.dispatchedAt =
                  IF daily.dispatchedAt = 0 THEN now ELSE daily.dispatchedAt
         \/ /\ HoldsOwner(c) /\ daily'.status \in {"published", "failed"}
            /\ daily'.dispatchedAt = daily.dispatchedAt
         \/ /\ HoldsOwner(c) /\ daily'.status = "queued" /\ daily'.dispatchedAt = 0
            /\ daily'.result \in {"none", "rollout_paused"} /\ inbox'
         \/ /\ HoldsOwner(c) /\ daily'.status = "queued" /\ call[c].pc = "park"
            /\ daily'.dispatchedAt = daily.dispatchedAt
            /\ daily'.result = "publisher_pending" /\ inbox' = inbox
            /\ call'[c].pc = "recheck" /\ call'[c].job = call[c].job
<1>i. daily \in OwnerType
  BY DEF PlaneInv, OwnerInv
<1>1. ASSUME NEW at \in 1 .. now, SetMarker(at)
      PROVE  /\ Unmarked /\ daily'.status = "queued"
             /\ daily'.dispatchedAt \in 1 .. now /\ daily'.result = daily.result
  BY <1>i, <1>1 DEF SetMarker, Unmarked, OwnerType
<1>2. ASSUME NEW s \in {"published", "failed"}, SettleOwner(c, s)
      PROVE  /\ HoldsOwner(c) /\ daily'.status \in {"published", "failed"}
             /\ daily'.dispatchedAt = daily.dispatchedAt
  BY <1>i, <1>2 DEF SettleOwner, OwnerType
<1>3. ClearMarker => /\ daily.status = "queued" /\ daily'.status = "queued"
                     /\ daily'.dispatchedAt = 0 /\ daily'.result = daily.result
  BY <1>i DEF ClearMarker, OwnerType
<1>4. ResumeOwner(0) => /\ daily.result = "rollout_paused" /\ daily'.result = "none"
                        /\ daily.status = "queued"
                        /\ daily'.status = "queued" /\ daily'.dispatchedAt = 0
  BY <1>i DEF ResumeOwner, OwnerType
<1>5. ClaimOwner(c, now, ClaimLost) =>
         /\ Takeable(ClaimLost) /\ AccountServes
         /\ daily'.status = "running" /\ daily'.result = daily.result
         /\ daily'.dispatchedAt =
               IF daily.dispatchedAt = 0 THEN now ELSE daily.dispatchedAt
  BY <1>i DEF ClaimOwner, OwnerType
<1>6. ReleaseOwnerForRetry(c) =>
         /\ HoldsOwner(c) /\ daily'.status = "queued" /\ daily'.dispatchedAt = 0
         /\ daily'.result \in {"none", "rollout_paused"}
  BY <1>i DEF ReleaseOwnerForRetry, OwnerType, Results
<1>7. ParkOwner(c) =>
         /\ HoldsOwner(c) /\ daily'.status = "queued"
         /\ daily'.dispatchedAt = daily.dispatchedAt
         /\ daily'.result = "publisher_pending"
  BY <1>i DEF ParkOwner, OwnerType
<1> QED BY <1>1, <1>2, <1>3, <1>4, <1>5, <1>6, <1>7 DEF OwnerMove

\* Markers stay in the past, and claims keep marking.
LEMMA OwnerMarkedNext ==
  ASSUME PlaneInv, OwnerMarked, [PlaneNext]_planeVars
  PROVE  OwnerMarked'
<1>i. /\ daily \in OwnerType /\ now \in Nat /\ now # 0 /\ daily.dispatchedAt \in Nat
  BY DEF PlaneInv, OwnerInv, OwnerType, JobsInv, TypeOK
<1>1. ASSUME NEW c \in Claims, CallStep(c) PROVE OwnerMarked'
  <2>1. now' = now
    BY <1>1 DEF CallStep, Invocation, SendThrows, Die, Abort, jobVars
  <2>2. OwnerMove(c)
    BY <1>1, InvocationMovesOwner
  <2> QED BY <1>i, <2>1, <2>2, MarkerMoves DEF OwnerMarked, HoldsOwner
<1>2. CASE Ambient
  <2>1. CASE PlaneTick
    BY <1>i, <2>1 DEF PlaneTick, Tick, ownerVars, OwnerMarked
  <2>2. CASE PauseDelivery /\ UNCHANGED now
    <3>1. CASE UNCHANGED daily
      BY <2>2, <3>1 DEF OwnerMarked
    <3>2. CASE PauseOwner(ClaimLost)
      <4>1. daily'.dispatchedAt = 0 /\ daily'.status = "queued"
        BY <1>i, <3>2 DEF PauseOwner, OwnerType
      <4> QED BY <1>i, <2>2, <4>1 DEF OwnerMarked
    <3> QED BY <2>2, <3>1, <3>2 DEF PauseDelivery
  <2>3. CASE ResumePaused /\ UNCHANGED now
    BY <1>i, <2>3 DEF ResumePaused, ResumeOwner, OwnerMarked, OwnerType
  <2>4. CASE (RolloutOff \/ RolloutOn \/ Depart \/ Freeze \/ Thaw) /\ UNCHANGED now
    BY <2>4 DEF RolloutOff, RolloutOn, Depart, Switch, Freeze, Thaw, Freezing, OwnerMarked
  <2>5. CASE UNCHANGED planeVars
    BY <2>5 DEF planeVars, jobVars, ownerVars, OwnerMarked
  <2> QED BY <1>2, <2>1, <2>2, <2>3, <2>4, <2>5 DEF Ambient
<1> QED BY <1>1, <1>2 DEF PlaneNext, Ambient, CallStep

Sending == \E c \in Claims : call[c].pc \in {"send", "dispatch"}
Marking == \E c \in Claims : call[c].pc \in {"mark", "stamp"}

\* A send in progress ends in a message.
LEMMA SendingKept ==
  ASSUME PlaneInv, NEW c \in Claims, Invocation(c), Sending
  PROVE  inbox' \/ Sending'
<1>1. PICK d \in Claims : call[d].pc \in {"send", "dispatch"}
  BY DEF Sending
<1>2. CASE d = c
  BY <1>1, <1>2, WakingGoesOn
<1>3. CASE d # c
  BY <1>1, <1>3, OthersStay DEF PlaneInv, CallStep, Sending
<1> QED BY <1>2, <1>3

\* A message stays until a delivery takes it: for a claim of the owner, or when
\* there is nothing to claim, or the account does not serve.
LEMMA MessageKept ==
  ASSUME PlaneInv, NEW c \in Claims, OwnerMove(c), inbox, ~inbox'
  PROVE  \/ ClaimOwner(c, now, ClaimLost)
         \/ daily' = daily /\ (~AccountServes \/ daily.status # "queued")
         \/ daily.result = "rollout_paused"
BY DEF OwnerMove, Takeable, ResumeOwner

\* A call comes to mark after it sent.
LEMMA MarkingBegins ==
  ASSUME PlaneInv, NEW c \in Claims, CallStep(c), Marking'
  PROVE  inbox' \/ Marking
<1>1. PICK d \in Claims : call'[d].pc \in {"mark", "stamp"}
  BY DEF Marking
<1>2. CASE d = c
  BY <1>1, <1>2, InvocationMovesWake DEF WakeMove
<1>3. CASE d # c
  BY <1>1, <1>3, OthersStay DEF PlaneInv, Marking
<1> QED BY <1>2, <1>3
-----------------------------------------------------------------------------
(* ReachInv: as long as nothing has disturbed the plane, a queued owner has *)
(* a message, somebody who sends one, no marker, or an open job; or the call *)
(* that saw the verdict is still on its way to wake it.  The rollout may go  *)
(* off and on and the account be frozen and thawed meanwhile, as long as     *)
(* that turns nothing away.                                                  *)

Faultless == deaths = 0 /\ throws = 0
Undisturbed == denied = {} /\ Faultless

MarksAfterSending == MayRun /\ Unmarked /\ Marking => inbox \/ Sending

CallsOnOwner(c) == /\ call[c].pc \in {"recheck", "nudge", "wake"}
                   /\ call[c].job = daily.attempts

Reachable ==
    MayRun /\ daily.status = "queued"
    => \/ inbox \/ Sending \/ daily.dispatchedAt = 0
       \/ /\ daily.result = "publisher_pending"
          /\ \/ row[daily.attempts].status \in Open
             \/ \E c \in Claims : CallsOnOwner(c)

ReachInv == MarksAfterSending /\ Reachable

\* The marker of a queued owner is set while its message is there or to come.
LEMMA MarksAfterSendingNext ==
  ASSUME PlaneInv, NeverPaused, OwnerMarked, MarksAfterSending,
         NEW c \in Claims, Invocation(c), OwnerMove(c), admission' = admission, denied' = {}
  PROVE  MarksAfterSending'
<1> SUFFICES ASSUME MayRun, Unmarked', Marking' PROVE inbox' \/ Sending'
  BY DEF MarksAfterSending, MayRun
<1>1. inbox' \/ Marking
  BY MarkingBegins DEF CallStep
<1>2. CASE Unmarked /\ Marking
  <2>1. inbox \/ Sending
    BY <1>2 DEF MarksAfterSending
  <2>2. ~ClaimOwner(c, now, ClaimLost)
    BY MarkerMoves, <1>2 DEF Unmarked, ClaimOwner, PlaneInv, OwnerInv, OwnerType
  <2>3. inbox => inbox'
    BY <1>2, <2>2, MessageKept, NotTurnedAway DEF Unmarked, NeverPaused, MayRun
  <2> QED BY <2>1, <2>3, SendingKept
<1>3. CASE ~Unmarked
  <2>1. call'[c].pc = "send" \/ inbox'
    BY <1>3, MarkerMoves
       DEF Unmarked, NeverPaused, OwnerMarked, HoldsOwner, PlaneInv, JobsInv, TypeOK
  <2> QED BY <2>1 DEF Sending
<1> QED BY <1>1, <1>2, <1>3

\* A verdict on the job of a waiting owner is brought by a call that goes on to
\* wake it.
LEMMA VerdictIsBrought ==
  ASSUME PlaneInv, RequestInv, NEW c \in Claims, Invocation(c),
         NEW j \in Jobs, RowMove(c, j), row[j].status \in Open,
         row'[j].status \notin Open, row'[j].status # "cancelled"
  PROVE  call'[c].pc = "nudge" /\ call'[c].job = j
<1>1. /\ call[c].pc \in {"commit", "fail", "refuse"} /\ call[c].job = j
      /\ HoldsLease(j, call[c].tok, call[c].at)
  BY DEF RowMove, Open, Terminal
<1> QED BY <1>1, WakingGoesOn

\* The owner stays reachable at a step of a call.
LEMMA ReachableNext ==
  ASSUME PlaneInv, RequestInv, LinkInv, OwnInv, OwnInv', OwnerMarked, ReachInv,
         NEW c \in Claims, Invocation(c), OwnerMove(c), admission' = admission, denied' = {},
         \A j \in Jobs : RowMove(c, j)
  PROVE  Reachable'
<1>i. /\ daily \in OwnerType /\ OwnerInv /\ NeverPaused /\ NotWithdrawn'
      /\ MarksAfterSending /\ Reachable /\ CallLinked(c) /\ CallAllows(c)
  BY DEF PlaneInv, OwnerInv, OwnInv, ReachInv, LinkInv, RequestInv
<1> SUFFICES ASSUME MayRun, daily'.status = "queued",
                    ~inbox', ~Sending', daily'.dispatchedAt # 0
             PROVE  /\ daily'.result = "publisher_pending"
                    /\ \/ row'[daily'.attempts].status \in Open
                       \/ \E d \in Claims : CallsOnOwner(d)'
  BY DEF Reachable, MayRun
<1>a. daily'.attempts = daily.attempts
  <2>1. ~ClaimOwner(c, now, ClaimLost)
    BY <1>i DEF ClaimOwner, OwnerType
  <2> QED BY <2>1, AttemptsGrow
<1>1. CASE daily.status # "queued"
  <2>1. /\ HoldsOwner(c) /\ call[c].pc = "park"
        /\ daily'.result = "publisher_pending"
        /\ call'[c].pc = "recheck" /\ call'[c].job = call[c].job
    BY <1>1, <1>i, MarkerMoves DEF Unmarked, NeverPaused
  <2>2. call[c].job = daily.attempts
    BY <1>i, <2>1 DEF CallLinked, ExecutorSteps
  <2> QED BY <1>a, <2>1, <2>2 DEF CallsOnOwner
<1>2. CASE daily.status = "queued"
  <2>0. ~Sending /\ ~inbox
    <3>1. ~ClaimOwner(c, now, ClaimLost)
      BY <1>i DEF ClaimOwner, OwnerType
    <3> QED BY <1>2, <1>i, <3>1, SendingKept, MessageKept, NotTurnedAway
            DEF NeverPaused, MayRun
  <2>1. daily' = daily
    <3>1. ~Marking \/ ~Unmarked
      BY <1>i, <2>0 DEF MarksAfterSending
    <3>2. call[c].pc \in {"mark", "stamp"} => Marking
      BY DEF Marking
    <3>3. call'[c].pc # "send"
      BY DEF Sending
    <3> QED BY <1>2, <1>i, <3>1, <3>2, <3>3, MarkerMoves DEF NeverPaused, HoldsOwner
  <2>2. /\ daily.result = "publisher_pending"
        /\ \/ row[daily.attempts].status \in Open
           \/ \E d \in Claims : CallsOnOwner(d)
    BY <1>2, <1>i, <2>0, <2>1 DEF Reachable
  <2>3. daily.attempts \in Jobs
    BY <1>i, <2>2 DEF OwnerInv, OwnerType
  <2>4. PICK j \in Jobs : j = daily.attempts
    BY <2>3
  <2>5. row'[j].status # "cancelled"
    BY <1>i, <1>2, <2>1, <2>4 DEF NotWithdrawn, OwnerLive, MayRun
  <2>6. CASE row[j].status \in Open
    <3>1. CASE row'[j].status \in Open
      BY <2>1, <2>2, <2>4, <3>1
    <3>2. CASE row'[j].status \notin Open
      <4>1. call'[c].pc = "nudge" /\ call'[c].job = j
        BY <2>5, <2>6, <3>2, VerdictIsBrought
      <4> QED BY <2>1, <2>2, <2>4, <4>1 DEF CallsOnOwner
    <3> QED BY <3>1, <3>2
  <2>7. CASE row[j].status \notin Open
    <3>1. PICK d \in Claims : CallsOnOwner(d)
      BY <2>2, <2>4, <2>7
    <3>2. CASE d # c
      BY <2>1, <2>2, <3>1, <3>2, OthersStay DEF CallsOnOwner, PlaneInv, CallStep
    <3>3. CASE d = c
      <4>1. row[j].status \in Verdicts
        <5>1. row[j].status # "absent"
          BY <1>2, <2>2, <2>4 DEF LinkInv, RowsAreAttempts, OwnerLive
        <5>2. row[j].status # "cancelled"
          <6>1. j # 0
            OBVIOUS
          <6> QED BY <1>2, <2>4, <6>1 DEF OwnInv, NotWithdrawn, OwnerLive
        <5>3. row[j].status \in Statuses
          BY DEF PlaneInv, JobsInv, TypeOK, RowType
        <5> QED BY <2>7, <5>1, <5>2, <5>3 DEF Statuses, Open, Verdicts
      <4>2. /\ call[c].job = j
            /\ call[c].pc = "nudge" => OwnerCurrent(j)
        <5>1. Entitled(j) /\ call[c].job = j
          BY <1>2, <2>4, <3>1, <3>3 DEF Entitled, MayRun, OwnerLive, CallsOnOwner
        <5> QED BY <5>1, CheckedFairly DEF OwnerReads
      <4>3. call[c].pc \in {"recheck", "nudge", "wake"}
        BY <3>1, <3>3 DEF CallsOnOwner
      <4>4. /\ call'[c].pc \in {"nudge", "wake"} /\ call'[c].job = j
        <5>1. call'[c].pc # "send"
          BY DEF Sending
        <5> QED BY <1>2, <4>1, <4>2, <4>3, <5>1, WakingGoesOn
      <4> QED BY <2>1, <2>2, <2>4, <4>4 DEF CallsOnOwner
    <3> QED BY <3>2, <3>3
  <2> QED BY <2>6, <2>7
<1> QED BY <1>1, <1>2

\* At any step that disturbs nothing the owner stays reachable.
LEMMA ReachInvNext ==
  ASSUME PlaneInv, RequestInv, LinkInv, OwnInv, OwnInv', OwnerMarked, ReachInv,
         [PlaneNext]_planeVars, Undisturbed'
  PROVE  ReachInv'
<1>1. ASSUME NEW c \in Claims, CallStep(c) PROVE ReachInv'
  <2>1. Invocation(c)
    BY <1>1, CountsGrow DEF CallStep, Undisturbed, Faultless
  <2>2. TableMove(c) /\ OwnerMove(c) /\ admission' = admission
    BY <1>1, InvocationMovesTable, InvocationMovesOwner DEF CallStep, PlaneInv
  <2>3. \A j \in Jobs : RowMove(c, j)
    BY <2>2, TableMovesRows
  <2>4. MarksAfterSending'
    BY <2>1, <2>2, MarksAfterSendingNext DEF OwnInv, ReachInv, Undisturbed
  <2>5. Reachable'
    BY <2>1, <2>2, <2>3, ReachableNext DEF Undisturbed
  <2> QED BY <2>4, <2>5 DEF ReachInv
<1>2. CASE Ambient
  <2>1. UNCHANGED <<row, call>>
    BY <1>2, AmbientStep DEF tableVars
  <2>2. daily' = daily /\ (MayRun' => MayRun)
    BY <1>2, AmbientKeepsOwner, MayRunEnds DEF OwnInv, Undisturbed
  <2>3. inbox' = inbox \/ daily.status # "queued"
    <3>1. CASE /\ PauseDelivery
               /\ denied' = denied \cup IF Takeable(ClaimLost) THEN {"pause"} ELSE {}
      BY <3>1 DEF Undisturbed, Takeable
    <3>2. CASE \/ PlaneTick \/ ResumePaused \/ UNCHANGED planeVars
               \/ RolloutOff \/ RolloutOn \/ Depart \/ Freeze \/ Thaw
      BY <3>2 DEF PlaneTick, ResumePaused, RolloutOff, RolloutOn, Depart, Switch, Freeze,
                  Thaw, Freezing, planeVars, ownerVars
    <3> QED BY <1>2, <3>1, <3>2 DEF Ambient
  <2> QED BY <2>1, <2>2, <2>3
          DEF ReachInv, MarksAfterSending, Reachable, Sending, Marking, Unmarked,
              CallsOnOwner
<1> QED BY <1>1, <1>2 DEF PlaneNext, Ambient, CallStep

WakeInv == /\ OwnerMarked
           /\ denied = {} => OwnInv
           /\ Undisturbed => ReachInv

\* The three invariants hold together.
LEMMA WakeInvariant ==
  ASSUME UploadsOutlastAHandler
  PROVE  PlaneSpec => []WakeInv
<1>1. PlaneInit => WakeInv
  <2> SUFFICES ASSUME PlaneInit PROVE WakeInv
    OBVIOUS
  <2>1. /\ \A c \in Claims : call[c].pc = "idle"
        /\ daily.attempts = 0 /\ daily.status = "queued" /\ daily.result = "none"
        /\ daily.dispatchedAt = 0 /\ admission = "open" /\ now = 1
    BY DEF PlaneInit, JobsInit, OwnerInit, Idle
  <2> QED BY <2>1
          DEF WakeInv, OwnerMarked, OwnInv, NeverPaused, NotWithdrawn, CallWithdraws,
              StoreSteps, ReachInv, MarksAfterSending, Reachable, Marking
<1>2. PlaneInv /\ RequestInv /\ LinkInv /\ WakeInv /\ [PlaneNext]_planeVars => WakeInv'
  <2> SUFFICES ASSUME PlaneInv, RequestInv, LinkInv, WakeInv, [PlaneNext]_planeVars
               PROVE  WakeInv'
    OBVIOUS
  <2>1. OwnerMarked'
    BY OwnerMarkedNext DEF WakeInv
  <2>2. denied' = {} => OwnInv'
    BY CountsGrow, OwnInvNext DEF WakeInv
  <2>3. Undisturbed' => ReachInv'
    BY <2>2, CountsGrow, ReachInvNext DEF WakeInv, Undisturbed, Faultless
  <2> QED BY <2>1, <2>2, <2>3 DEF WakeInv
<1> QED BY <1>1, <1>2, LinkInvariant, PTL DEF PlaneSpec

\* A queued owner that may run is never forgotten as long as no invocation has
\* died, no send has thrown and no pause or freeze has turned anything away: for
\* any number of attempts, leases and calls, any copies of the answers, however
\* often the rollout goes off and on and the account is frozen and thawed, and
\* however consent or the account ends, if an upload lease outlasts a handler.
THEOREM QueuedOwnersReachable ==
  ASSUME UploadsOutlastAHandler
  PROVE  PlaneSpec => [](Faultless => QueuedOwnerIsReachable)
<1>1. WakeInv => (Faultless => QueuedOwnerIsReachable)
  <2> SUFFICES ASSUME WakeInv, Undisturbed, daily.status = "queued", MayRun
               PROVE  QueuedOwnerIsReachable
    BY DEF QueuedOwnerIsReachable, Undisturbed, MayRun
  <2>1. Reachable /\ NeverPaused
    BY DEF WakeInv, ReachInv, OwnInv, Undisturbed
  <2>2. Sending \/ (\E c \in Claims : CallsOnOwner(c)) => Waking
    BY DEF Sending, CallsOnOwner, Waking
  <2>3. daily.dispatchedAt = 0 => Undispatched
    BY <2>1 DEF Undispatched, NeverPaused
  <2>4. daily.result = "publisher_pending" => Waits
    BY DEF Waits
  <2> QED BY <2>1, <2>2, <2>3, <2>4 DEF Reachable, QueuedOwnerIsReachable, Provider, Open
<1> QED BY <1>1, WakeInvariant, PTL

\* So is a parked owner whose provider job has a verdict: under the same
\* conditions nothing of an earlier attempt keeps it from being woken.
THEOREM VerdictsReachOwners ==
  ASSUME UploadsOutlastAHandler
  PROVE  PlaneSpec => [](Undisturbed => VerdictReachesOwner)
<1>1. QueuedOwnerIsReachable /\ denied = {} => VerdictReachesOwner
  BY DEF QueuedOwnerIsReachable, VerdictReachesOwner, VerdictIsIn, Waits, OwnerCurrent,
         Entitled, Provider
<1>2. Undisturbed => Faultless /\ denied = {}
  BY DEF Undisturbed
<1> QED BY <1>1, <1>2, QueuedOwnersReachable, PTL
-----------------------------------------------------------------------------
(* ClaimInv: a claim holds its lease until it replies.  It has minted the   *)
(* token, nobody answers under it yet, and the lease outlasts the handler.  *)

LeasesOutlastAHandler == LeaseLength > MaxLag

ClaimAlone(c) ==
    LET k == call[c] IN
    k.pc \in ClaimSteps =>
       /\ answers[k.tok].left = 0
       /\ \A d \in Claims \ {c} : call[d].pc \in ActSteps => call[d].tok # k.tok
       /\ HoldsLease(k.job, k.tok, k.at + MaxLag)

ClaimInv == /\ \A c \in Claims : ClaimAlone(c)
            /\ \A t \in Unissued : answers[t].left = 0

\* Tokens that are not minted yet are not answered under.
LEMMA UnissuedUnanswered ==
  ASSUME PlaneInv, LinkInv, ClaimInv, NEW c \in Claims, CallStep(c)
  PROVE  \A t \in Unissued' : answers'[t].left = 0
<1>i. /\ issued \in [Tokens -> SUBSET Jobs]
      /\ answers \in [Tokens -> [verdict : {"none", "complete", "fail"},
                                 left : 0 .. MaxSends]]
      /\ CallsInv
  BY DEF PlaneInv, RestOK, JobsInv, TypeOK
<1> SUFFICES ASSUME NEW t \in Unissued' PROVE answers'[t].left = 0
  OBVIOUS
<1>1. t \in Unissued /\ t \in Tokens
  BY IssuedForGood DEF Unissued
<1>2. answers[t].left = 0
  BY <1>1 DEF ClaimInv
<1>3. CASE Arrival(c)
  <2>1. PICK s \in Tokens : /\ issued[s] # {}
                            /\ answers' = [answers EXCEPT ![s].left = @ - 1]
    BY <1>3 DEF Arrival, CompleteCall, FailCall, Arrives
  <2>2. s # t
    BY <1>1, <2>1 DEF Unissued
  <2> QED BY <1>1, <1>2, <1>i, <2>1, <2>2
<1>4. CASE Reply(c)
  <2>1. call[c].pc = "reply" /\ call[c].tok # t
    BY <1>1, <1>4 DEF Reply, At, LinkInv, CallLinked, ActSteps, ClaimSteps, Unissued
  <2> QED BY <1>1, <1>2, <1>4, <2>1, <1>i DEF Reply
<1>5. CASE ~Arrival(c) /\ ~Reply(c)
  <2>1. answers' = answers
    <3>1. CASE ClaimRoute(c) \/ AnswerRoutes(c)
      BY <1>5, <3>1 DEF ClaimRoute, ClaimCall, CheckOwner, Fetch, Release, Charge, Refuse,
           AnswerRoutes, Reserve, PutResponse, CheckBeforeCommit, Commit, Fail, Cancel,
           Arrival, runnerVars
    <3> QED BY <1>i, <3>1, RestActs DEF CallStep, Invocation, runnerVars
  <2> QED BY <1>2, <2>1
<1> QED BY <1>3, <1>4, <1>5

\* A claim keeps its lease while others move.
LEMMA OtherClaimsAlone ==
  ASSUME PlaneInv, LinkInv, ClaimInv, NEW c \in Claims, CallStep(c), TableMove(c),
         NEW d \in Claims \ {c}, \A e \in Claims \ {c} : call'[e] = call[e]
  PROVE  ClaimAlone(d)'
<1>i. /\ CallsInv /\ TypeOK /\ ClaimAlone(d) /\ CallInv(call[d])
      /\ row \in [Jobs -> RowType] /\ now \in Nat
  BY DEF PlaneInv, JobsInv, TypeOK, CallsInv, ClaimInv
<1> SUFFICES ASSUME call[d].pc \in ClaimSteps PROVE ClaimAlone(d)'
  BY DEF ClaimAlone
<1>1. /\ call[d].pc \in ActSteps /\ call[d].job \in Jobs /\ call[d].tok \in Tokens
      /\ call[d].at \in Nat /\ now <= call[d].at + MaxLag
  <2>1. call[d].pc # "idle" /\ call[d].pc \in JobSteps
    BY DEF ClaimSteps, JobSteps, Steps
  <2>2. call[d].at \in Sampled
    BY <1>i, <2>1 DEF CallInv
  <2> QED BY <1>i, <2>1, <2>2, SampledInstant
          DEF CallInv, ActSteps, TokenSteps, Sampled
<1>2. PICK j \in Jobs, t \in Tokens : j = call[d].job /\ t = call[d].tok
  BY <1>1
<1>3. /\ answers[t].left = 0 /\ HoldsLease(j, t, call[d].at + MaxLag)
      /\ \A e \in Claims \ {d} : call[e].pc \in ActSteps => call[e].tok # t
  BY <1>i, <1>2 DEF ClaimAlone
<1>4. issued[t] = {j}
  BY <1>1, <1>2 DEF LinkInv, CallLinked
<1>5. answers'[t].left = 0
  BY <1>3, <1>4, SpentStays DEF ActSteps, ClaimSteps
<1>6. row'[j] = row[j]
  <2>1. row[j].leaseUntil \in Nat
    BY <1>i DEF RowType
  <2>2. row[j].status = "leased" /\ row[j].token = t /\ row[j].leaseUntil > now
    BY <1>1, <1>3, <1>i, <2>1 DEF HoldsLease
  <2>3. /\ row[call[d].job].status = "leased" /\ row[call[d].job].token = call[d].tok
        /\ row[call[d].job].leaseUntil > now
        /\ call[c].pc \in ActSteps => call[c].tok # call[d].tok
    BY <1>2, <1>3, <2>2
  <2>4. row'[call[d].job] = row[call[d].job]
    BY <1>1, <2>3, HeldRowStays
  <2> QED BY <1>2, <2>4
<1>7. ASSUME call'[c].pc \in ActSteps PROVE call'[c].tok # t
  <2>1. t \notin Unissued
    BY <1>4 DEF Unissued
  <2> QED BY <1>i, <1>3, <1>7, <2>1, ActingMoves
<1> QED BY <1>1, <1>2, <1>3, <1>5, <1>6, <1>7 DEF ClaimAlone, HoldsLease

\* So does the claim that steps.
LEMMA StepperClaimsAlone ==
  ASSUME LeasesOutlastAHandler, PlaneInv, LinkInv, ClaimInv, NEW c \in Claims,
         CallStep(c), \A e \in Claims \ {c} : call'[e] = call[e]
  PROVE  ClaimAlone(c)'
<1>i. /\ CallsInv /\ TypeOK /\ ClaimAlone(c) /\ CallInv(call[c])
      /\ row \in [Jobs -> RowType] /\ now \in Nat
  BY DEF PlaneInv, JobsInv, TypeOK, CallsInv, ClaimInv
<1> SUFFICES ASSUME call'[c].pc \in ClaimSteps PROVE ClaimAlone(c)'
  BY DEF ClaimAlone
<1>1. ActMove(c)
  BY InvocationMovesAct DEF ActSteps
<1>2. ASSUME NEW j \in Jobs, NEW t \in Tokens, j = call'[c].job, t = call'[c].tok,
             ClaimJob(j, t, now), call'[c].at = now, call[c].pc = "idle"
      PROVE  ClaimAlone(c)'
  <2>1. t \in Unissued /\ answers[t].left = 0
    BY <1>2 DEF ClaimJob, ClaimInv
  <2>2. ClaimRoute(c) \/ AnswerRoutes(c)
    BY <1>i, RestActs DEF CallStep, Invocation, ActSteps
  <2>3. ClaimCall(c)
    BY <1>2, <1>i, <2>1, <2>2, StartsWith
       DEF ClaimRoute, CheckOwner, Fetch, Release, Charge, Refuse, Reply, AnswerRoutes,
           CompleteCall, FailCall, Begin, Reserve, PutResponse, CheckBeforeCommit,
           Commit, Fail, Cancel, At, Free, ClaimSteps
  <2>4. answers' = answers
    BY <2>3 DEF ClaimCall, runnerVars
  <2>5. /\ row'[j].status = "leased" /\ row'[j].token = t
        /\ row'[j].leaseUntil > now + MaxLag
    <3>1. /\ row'[j].status = "leased" /\ row'[j].token = t
          /\ row'[j].leaseUntil = now + LeaseLength
      BY <1>i, <1>2 DEF ClaimJob, RowType
    <3>2. now + LeaseLength > now + MaxLag
      BY <1>i DEF LeasesOutlastAHandler
    <3> QED BY <3>1, <3>2
  <2>6. \A e \in Claims \ {c} : call[e].pc \in ActSteps => call[e].tok # t
    BY <2>1 DEF LinkInv, CallLinked, Unissued
  <2> QED BY <1>2, <2>1, <2>4, <2>5, <2>6 DEF ClaimAlone, HoldsLease
<1>3. CASE /\ call[c].pc \in ClaimSteps /\ call'[c].job = call[c].job
           /\ call'[c].tok = call[c].tok /\ call'[c].at = call[c].at /\ row' = row
  <2>1. call[c].tok \in Tokens /\ issued[call[c].tok] # {}
    BY <1>i, <1>3 DEF CallInv, TokenSteps, LinkInv, CallLinked, ActSteps
  <2>2. call[c].pc # "reply"
    <3>1. Reply(c) => call'[c].pc = "idle"
      BY <1>i, Ended DEF Reply
    <3>2. call[c].pc = "reply" => Reply(c)
      BY <1>1, <1>i, RestActs
         DEF CallStep, Invocation, ActSteps, ClaimRoute, ClaimCall, CheckOwner, Fetch,
             Release, Charge, Refuse, AnswerRoutes, CompleteCall, FailCall, Reserve,
             PutResponse, CheckBeforeCommit, Commit, Fail, Cancel, At, Free
    <3> QED BY <3>1, <3>2 DEF ClaimSteps
  <2>3. answers'[call[c].tok].left = 0
    BY <1>i, <1>3, <2>1, <2>2, SpentStays DEF ClaimAlone
  <2> QED BY <1>i, <1>3, <2>3 DEF ClaimAlone, HoldsLease
<1> QED BY <1>1, <1>2, <1>3 DEF ActMove, ClaimSteps, AnswerSteps

\* Claims keep their leases at every step.
LEMMA ClaimInvNext ==
  ASSUME LeasesOutlastAHandler, PlaneInv, LinkInv, ClaimInv, [PlaneNext]_planeVars
  PROVE  ClaimInv'
<1>1. ASSUME NEW c \in Claims, CallStep(c) PROVE ClaimInv'
  <2>1. TableMove(c) /\ \A d \in Claims \ {c} : call'[d] = call[d]
    BY <1>1, InvocationMovesTable, OthersStay DEF CallStep, PlaneInv
  <2> QED BY <1>1, <2>1, UnissuedUnanswered, OtherClaimsAlone, StepperClaimsAlone
          DEF ClaimInv
<1>2. CASE Ambient
  BY <1>2, AmbientStep
     DEF tableVars, runnerVars, ClaimInv, ClaimAlone, Unissued, HoldsLease
<1> QED BY <1>1, <1>2 DEF PlaneNext, Ambient, CallStep
-----------------------------------------------------------------------------
(* The first attempt, whatever the rollout and the account do, unless a     *)
(* frozen account has a message of it acknowledged.                         *)
(*                                                                         *)
(* The repair pass finds a parked owner by its marker, which has to be no   *)
(* younger than the verdict.  FirstOpen says why it is not: while the job   *)
(* is open nobody clears the marker, for a nudge presupposes a verdict      *)
(* (Noted), and every call that may still settle the job began after it.    *)

Engaged == daily.status = "running" \/ Waits
First == daily.attempts = 1

\* A call that wakes a live owner does so for a verdict.
Noted(c) == call[c].pc \in {"nudge", "wake"} /\ OwnerLive
            => row[call[c].job].status \in Verdicts

FirstOpen == First /\ Engaged /\ row[1].status \in Open
             => /\ daily.dispatchedAt # 0
                /\ \A c \in Claims : call[c].pc \in ActSteps /\ call[c].job = 1
                                     => daily.dispatchedAt <= call[c].at

ParksOnVerdict(c) == First /\ call[c].pc = "park" /\ row[1].status \in Verdicts
                     => daily.dispatchedAt <= row[1].completedAt

NoteInv == /\ OwnerMarked
           /\ ClaimInv
           /\ \A c \in Claims : Noted(c)
           /\ FirstOpen
           /\ \A c \in Claims : ParksOnVerdict(c)

\* A nudge follows a verdict.
LEMMA NotedNext ==
  ASSUME PlaneInv, RequestInv, ClaimInv, \A d \in Claims : Noted(d),
         NEW c \in Claims, CallStep(c), [PlaneNext]_planeVars,
         \A j \in Jobs : RowMove(c, j), NEW d \in Claims
  PROVE  Noted(d)'
<1>i. CallsInv /\ PlaneInv' /\ \A e \in Claims \ {c} : call'[e] = call[e]
  BY PlaneInvNext, OthersStay DEF PlaneInv
<1> SUFFICES ASSUME call'[d].pc \in {"nudge", "wake"}, OwnerLive'
             PROVE  row'[call'[d].job].status \in Verdicts
  BY DEF Noted
<1>1. OwnerLive
  BY SettledForGood
<1>2. call'[d].job \in Jobs
  <2>1. CallInv(call[d])'
    BY <1>i DEF PlaneInv, CallsInv
  <2> QED BY <2>1 DEF CallInv, JobSteps, Steps, NudgeSteps
<1>3. PICK j \in Jobs : j = call'[d].job
  BY <1>2
<1>4. row[j].status \in Verdicts => row'[j].status \in Verdicts
  BY <1>1, RowsOfLiveOwner
<1>5. CASE d # c
  BY <1>1, <1>3, <1>4, <1>5, <1>i DEF Noted
<1>6. CASE d = c
  <2>1. WakeMove(c)
    BY InvocationMovesWake
  <2>2. CASE call'[c].pc = "wake"
    BY <1>1, <1>3, <1>4, <1>6, <2>1, <2>2 DEF WakeMove, Noted
  <2>3. CASE call'[c].pc = "nudge"
    <3>1. call[c].pc = "refuse" => HoldsLease(call[c].job, call[c].tok, call[c].at)
      <4> SUFFICES ASSUME call[c].pc = "refuse"
                   PROVE  HoldsLease(call[c].job, call[c].tok, call[c].at)
        OBVIOUS
      <4>1. HoldsLease(call[c].job, call[c].tok, call[c].at + MaxLag)
        BY DEF ClaimInv, ClaimAlone, ClaimSteps
      <4>2. /\ call[c].at \in Nat /\ call[c].job \in Jobs
            /\ row[call[c].job].leaseUntil \in Nat
        BY <1>i, SampledInstant
           DEF PlaneInv, JobsInv, TypeOK, RowType, CallsInv, CallInv, JobSteps, Steps,
               ClaimSteps
      <4> QED BY <4>1, <4>2 DEF HoldsLease
    <3> QED BY <1>3, <1>4, <1>6, <2>1, <2>3, <3>1 DEF WakeMove
  <2> QED BY <1>6, <2>2, <2>3
<1> QED BY <1>5, <1>6

\* The owner is engaged with its first attempt from the claim on.
LEMMA StaysEngaged ==
  ASSUME PlaneInv, NEW c \in Claims, OwnerMove(c), Engaged',
         daily'.attempts = daily.attempts
  PROVE  Engaged
<1>i. daily \in OwnerType
  BY DEF PlaneInv, OwnerInv
<1>1. CASE ClaimOwner(c, now, ClaimLost)
  <2>1. daily.attempts = NextAttempt
    BY <1>i, <1>1 DEF ClaimOwner, OwnerType
  <2>2. daily.result = "publisher_pending"
    BY <1>i, <2>1 DEF NextAttempt, OwnerType
  <2> QED BY <1>1, <2>2 DEF ClaimOwner, Takeable, Engaged, Waits
<1>2. CASE ~ClaimOwner(c, now, ClaimLost)
  <2>1. Waits' => Engaged
    BY MarkerMoves DEF Waits, Engaged, HoldsOwner, Takeable, Unmarked
  <2>2. daily'.status = "running" => daily.status = "running"
    <3>1. ASSUME NEW at \in 1 .. now, SetMarker(at) PROVE daily'.status = "queued"
      BY <1>i, <3>1 DEF SetMarker, Unmarked, OwnerType
    <3>2. ASSUME NEW s \in {"published", "failed"}, SettleOwner(c, s)
          PROVE  daily'.status # "running"
      BY <1>i, <3>2 DEF SettleOwner, OwnerType
    <3>3. ClearMarker \/ ResumeOwner(0) \/ ReleaseOwnerForRetry(c) \/ ParkOwner(c)
             => daily'.status = "queued"
      BY <1>i DEF ClearMarker, ResumeOwner, ReleaseOwnerForRetry, ParkOwner, OwnerType
    <3> QED BY <1>2, <3>1, <3>2, <3>3 DEF OwnerMove
  <2> QED BY <2>1, <2>2 DEF Engaged
<1> QED BY <1>1, <1>2

\* While the job of the first attempt is open its owner keeps its marker, and no
\* call that acts on it is older.
LEMMA FirstOpenNext ==
  ASSUME PlaneInv, RequestInv, LinkInv, NoteInv, NEW c \in Claims, CallStep(c),
         OwnerMove(c), \A j \in Jobs : RowMove(c, j)
  PROVE  FirstOpen'
<1>i. /\ CallsInv /\ daily \in OwnerType /\ now \in Nat /\ OwnerMarked /\ FirstOpen
      /\ 1 \in Jobs /\ \A e \in Claims \ {c} : call'[e] = call[e]
      /\ daily.dispatchedAt \in Nat
  BY OthersStay DEF PlaneInv, JobsInv, TypeOK, OwnerInv, OwnerType, NoteInv
<1> SUFFICES ASSUME First', Engaged', row'[1].status \in Open
             PROVE  /\ daily'.dispatchedAt # 0
                    /\ \A d \in Claims : call'[d].pc \in ActSteps /\ call'[d].job = 1
                                         => daily'.dispatchedAt <= call'[d].at
  BY DEF FirstOpen
<1>r. RowMove(c, 1)
  BY <1>i
<1>1. daily'.attempts = daily.attempts
  <2> SUFFICES ASSUME daily'.attempts # daily.attempts PROVE FALSE
    OBVIOUS
  <2>1. /\ daily.attempts = 0 /\ ClaimOwner(c, now, ClaimLost)
    BY AttemptsGrow DEF First
  <2>2. ~(1 <= daily.attempts)
    BY <2>1
  <2>3. row[1].status = "absent"
    BY <1>i, <2>2 DEF LinkInv, RowsAreAttempts
  <2>4. call[c].pc # "enqueue"
    BY <2>1, TakeableIsAbandoned DEF ClaimOwner, ExecutorSteps
  <2> QED BY <1>r, <2>3, <2>4 DEF RowMove, Open, Claimable, HoldsLease, Terminal
<1>2. First /\ Engaged
  BY <1>1, StaysEngaged DEF First
<1>3. CASE row[1].status \in Open
  <2>1. /\ daily.dispatchedAt # 0
        /\ \A d \in Claims : call[d].pc \in ActSteps /\ call[d].job = 1
                             => daily.dispatchedAt <= call[d].at
    BY <1>2, <1>3, <1>i DEF FirstOpen
  <2>2. ~(call[c].pc = "wake" /\ daily.status = "queued")
    <3> SUFFICES ASSUME call[c].pc = "wake", daily.status = "queued" PROVE FALSE
      OBVIOUS
    <3>1. row[call[c].job].status \in Verdicts
      BY DEF NoteInv, Noted, OwnerLive
    <3>2. call[c].job \in Jobs
      BY <1>i DEF CallsInv, CallInv, JobSteps, Steps, NudgeSteps
    <3>3. call[c].job <= 1
      BY <1>2, <3>1, <3>2 DEF LinkInv, RowsAreAttempts, First, Verdicts
    <3>4. call[c].job = 1
      BY <3>2, <3>3
    <3> QED BY <1>3, <3>1, <3>4 DEF Open, Verdicts
  <2>3. daily'.dispatchedAt = daily.dispatchedAt
    BY <2>1, <2>2, MarkerMoves DEF Engaged, Waits, Unmarked
  <2>4. ASSUME call'[c].pc \in ActSteps, call'[c].job = 1
        PROVE  daily.dispatchedAt <= call'[c].at
    <3>1. ActMove(c)
      BY <2>4, InvocationMovesAct
    <3>2. daily.dispatchedAt <= now
      BY <1>i DEF OwnerMarked
    <3> QED BY <2>1, <2>4, <3>1, <3>2 DEF ActMove
  <2> QED BY <1>i, <2>1, <2>3, <2>4
<1>4. CASE row[1].status \notin Open
  <2>1. call[c].pc = "enqueue" /\ call[c].job = 1 /\ row[1].status = "absent"
    BY <1>r, <1>4 DEF RowMove, Open, Verdicts, Claimable, HoldsLease
  <2>2. HoldsOwner(c) /\ OwnerLive
    BY <2>1 DEF RequestInv, CallAllows, ExecutorSteps, HoldsOwner, OwnerLive
  <2>3. daily'.dispatchedAt = daily.dispatchedAt /\ daily.dispatchedAt # 0
    <3>1. daily.dispatchedAt # 0
      BY <1>i, <2>2 DEF OwnerMarked, HoldsOwner
    <3> QED BY <2>1, <2>2, <3>1, MarkerMoves DEF Engaged, Waits, HoldsOwner
  <2>4. \A d \in Claims : call[d].pc \in ActSteps => call[d].job # 1
    BY <2>1, <2>2 DEF LinkInv, CallLinked
  <2>5. call'[c].pc \notin ActSteps
    <3>1. call'[c].pc \in ActSteps => ActMove(c)
      BY InvocationMovesAct
    <3> QED BY <2>1, <3>1 DEF ActMove, ActSteps, ClaimSteps, AnswerSteps
  <2> QED BY <1>i, <2>3, <2>4, <2>5
<1> QED BY <1>3, <1>4

\* A call that parks on a verdict of the first attempt left a marker before it.
LEMMA ParksOnVerdictNext ==
  ASSUME PlaneInv, RequestInv, LinkInv, LinkInv', NoteInv, NEW c \in Claims,
         CallStep(c), OwnerMove(c), \A j \in Jobs : RowMove(c, j), NEW d \in Claims
  PROVE  ParksOnVerdict(d)'
<1>i. /\ CallsInv /\ daily \in OwnerType /\ FirstOpen /\ ParksOnVerdict(d)
      /\ 1 \in Jobs /\ \A e \in Claims \ {c} : call'[e] = call[e]
  BY OthersStay DEF PlaneInv, OwnerInv, NoteInv
<1> SUFFICES ASSUME First', call'[d].pc = "park", row'[1].status \in Verdicts
             PROVE  daily'.dispatchedAt <= row'[1].completedAt
  BY DEF ParksOnVerdict
<1>r. RowMove(c, 1)
  BY <1>i
<1>1. CASE d = c
  <2>1. row[call[c].job].status \in Open /\ row' = row /\ call'[c].job = call[c].job
    BY <1>1, <1>i, ExecutorMoves DEF ExecutorSteps
  <2>2. call'[c].job = 1
    BY <1>1 DEF LinkInv, CallLinked, First, ExecutorSteps
  <2> QED BY <2>1, <2>2 DEF Open, Verdicts
<1>2. CASE d # c
  <2>1. call[d].pc = "park" /\ HoldsOwner(d) /\ OwnerLive
    BY <1>2, <1>i DEF RequestInv, CallAllows, ExecutorSteps, HoldsOwner, OwnerLive
  <2>2. ~HoldsOwner(c) /\ daily.status = "running" /\ ~Takeable(ClaimLost)
    BY <1>2, <2>1, TakeableIsAbandoned DEF HoldsOwner, ExecutorSteps
  <2>3. daily' = daily
    BY <2>2, MarkerMoves DEF Unmarked
  <2>4. First
    BY <2>3 DEF First
  <2>5. CASE row'[1] = row[1]
    BY <1>i, <2>1, <2>3, <2>4, <2>5 DEF ParksOnVerdict
  <2>6. CASE row'[1] # row[1]
    <3>1. /\ call[c].pc \in ActSteps /\ call[c].job = 1
          /\ row[1].status \in Open /\ row'[1].completedAt = call[c].at
      BY <1>r, <2>6
         DEF RowMove, Verdicts, HoldsLease, Open, ActSteps, ClaimSteps, AnswerSteps
    <3>2. daily.dispatchedAt <= call[c].at
      BY <1>i, <2>2, <2>4, <3>1 DEF FirstOpen, Engaged
    <3> QED BY <2>3, <3>1, <3>2
  <2> QED BY <2>5, <2>6
<1> QED BY <1>1, <1>2

\* What is noted of the calls and of the marker holds at every step.
LEMMA NoteInvNext ==
  ASSUME LeasesOutlastAHandler, PlaneInv, RequestInv, LinkInv, LinkInv', NoteInv,
         [PlaneNext]_planeVars
  PROVE  NoteInv'
<1>m. OwnerMarked' /\ ClaimInv'
  BY OwnerMarkedNext, ClaimInvNext DEF NoteInv
<1>1. ASSUME NEW c \in Claims, CallStep(c) PROVE NoteInv'
  <2>1. TableMove(c) /\ OwnerMove(c)
    BY <1>1, InvocationMovesTable, InvocationMovesOwner DEF CallStep, PlaneInv
  <2>2. \A j \in Jobs : RowMove(c, j)
    BY <2>1, TableMovesRows
  <2>3. \A d \in Claims : Noted(d)'
    BY <1>1, <2>2, NotedNext DEF NoteInv
  <2>4. FirstOpen'
    BY <1>1, <2>1, <2>2, FirstOpenNext
  <2>5. \A d \in Claims : ParksOnVerdict(d)'
    BY <1>1, <2>1, <2>2, ParksOnVerdictNext
  <2> QED BY <1>m, <2>3, <2>4, <2>5 DEF NoteInv
<1>2. CASE Ambient
  <2>i. daily \in OwnerType
    BY DEF PlaneInv, OwnerInv
  <2>1. UNCHANGED <<row, call>>
    BY <1>2, AmbientStep DEF tableVars
  <2>2. \/ daily' = daily
        \/ Takeable(ClaimLost) /\ ~Engaged'
    <3>1. CASE PauseOwner(ClaimLost)
      BY <2>i, <3>1 DEF PauseOwner, Engaged, Waits, OwnerType
    <3>2. CASE ResumeOwner(daily.dispatchedAt)
      BY <2>i, <3>2 DEF ResumeOwner, Engaged, Waits, OwnerType, Takeable
    <3> QED BY <1>2, <3>1, <3>2
            DEF Ambient, PlaneTick, PauseDelivery, ResumePaused, RolloutOff, RolloutOn,
                Depart, Switch, Freeze, Thaw, Freezing, planeVars, ownerVars
  <2>3. ASSUME NEW d \in Claims PROVE Noted(d)'
    BY <2>1, SettledForGood DEF NoteInv, Noted
  <2>4. FirstOpen'
    BY <2>1, <2>2 DEF NoteInv, FirstOpen, First, Engaged, Waits
  <2>5. ASSUME NEW d \in Claims PROVE ParksOnVerdict(d)'
    <3>1. call[d].pc = "park" => ~Takeable(ClaimLost)
      BY TakeableIsAbandoned DEF ExecutorSteps
    <3> QED BY <2>1, <2>2, <3>1 DEF NoteInv, ParksOnVerdict, First
  <2> QED BY <1>m, <2>3, <2>4, <2>5 DEF NoteInv
<1> QED BY <1>1, <1>2 DEF PlaneNext, Ambient, CallStep

\* As long as nothing dies or throws, a parked first attempt is marked again only
\* while its message is there or to come, and after a verdict it has a message,
\* or a marker that the repair pass selects.
FirstMarks == First /\ Waits /\ admission # "closed" /\ daily.dispatchedAt = 0 /\ Marking
              => inbox \/ Sending

FirstReached == First /\ Waits /\ admission # "closed" /\ row[1].status \in Verdicts
                => inbox \/ Sending \/ daily.dispatchedAt <= row[1].completedAt

FirstInv == FirstMarks /\ FirstReached

\* What a step of a call does to a waiting owner whose message is neither there
\* nor to come.
LEMMA WaitingMoves ==
  ASSUME PlaneInv, NEW c \in Claims, Invocation(c), OwnerMove(c), Waits',
         admission # "closed", "delivery" \notin denied', ~inbox', ~Sending'
  PROVE  /\ daily'.attempts = daily.attempts
         /\ \/ daily' = daily /\ ~inbox /\ ~Sending
            \/ /\ Waits /\ Unmarked /\ Marking /\ ~inbox /\ ~Sending
               /\ daily'.dispatchedAt # 0
            \/ /\ HoldsOwner(c) /\ call[c].pc = "park"
               /\ daily'.dispatchedAt = daily.dispatchedAt
<1>i. daily \in OwnerType
  BY DEF PlaneInv, OwnerInv
<1>1. ~ClaimOwner(c, now, ClaimLost)
  BY <1>i DEF ClaimOwner, Waits, OwnerType
<1>2. daily'.attempts = daily.attempts
  BY <1>1, AttemptsGrow
<1>3. ~Sending
  BY SendingKept
<1>4. daily.status = "queued" /\ daily.result # "rollout_paused" => ~inbox
  BY <1>1, MessageKept, NotTurnedAway
<1>5. call'[c].pc # "send"
  BY DEF Sending
<1>6. call[c].pc \in {"mark", "stamp"} => Marking
  BY DEF Marking
<1> QED BY <1>2, <1>3, <1>4, <1>5, <1>6, MarkerMoves DEF Waits, Unmarked

\* A waiting first attempt keeps its way to be woken at a step of a call.
LEMMA FirstInvStep ==
  ASSUME PlaneInv, RequestInv, NoteInv, FirstInv, NEW c \in Claims, Invocation(c),
         OwnerMove(c), admission' = admission, \A j \in Jobs : RowMove(c, j),
         "delivery" \notin denied'
  PROVE  FirstInv'
<1>i. /\ CallsInv /\ daily \in OwnerType /\ 1 \in Jobs /\ CallStep(c) /\ CallAllows(c)
      /\ FirstOpen /\ ParksOnVerdict(c) /\ OwnerMarked
  BY DEF PlaneInv, OwnerInv, CallStep, RequestInv, NoteInv
<1>r. RowMove(c, 1)
  BY <1>i
<1>1. ASSUME First', Waits', admission # "closed", daily'.dispatchedAt = 0, Marking',
             ~inbox', ~Sending'
      PROVE  FALSE
  <2>1. Marking
    BY <1>1, <1>i, MarkingBegins
  <2>2. daily' = daily /\ ~inbox /\ ~Sending
    BY <1>1, <1>i, WaitingMoves DEF OwnerMarked, HoldsOwner
  <2> QED BY <1>1, <2>1, <2>2 DEF FirstInv, FirstMarks, First, Waits
<1>2. ASSUME First', Waits', admission # "closed", row'[1].status \in Verdicts,
             ~inbox', ~Sending'
      PROVE  daily'.dispatchedAt <= row'[1].completedAt
  <2>0. First
    BY <1>2, WaitingMoves DEF First
  <2>1. CASE daily' = daily /\ ~inbox /\ ~Sending
    <3>1. Waits /\ OwnerLive /\ Engaged
      BY <1>2, <2>1 DEF Waits, OwnerLive, Engaged
    <3>2. CASE row[1].status \in Verdicts
      <4>1. row'[1] = row[1]
        BY <1>i, <1>r, <3>1, <3>2, RowsOfLiveOwner
      <4> QED BY <1>2, <2>0, <2>1, <3>1, <3>2, <4>1 DEF FirstInv, FirstReached
    <3>3. CASE row[1].status \notin Verdicts
      <4>1. /\ call[c].pc \in ActSteps /\ call[c].job = 1
            /\ row[1].status \in Open /\ row'[1].completedAt = call[c].at
        BY <1>2, <1>r, <3>3
           DEF RowMove, Verdicts, HoldsLease, Open, ActSteps, ClaimSteps, AnswerSteps
      <4>2. daily.dispatchedAt <= call[c].at
        BY <1>i, <2>0, <3>1, <4>1 DEF FirstOpen
      <4> QED BY <2>1, <4>1, <4>2
    <3> QED BY <3>2, <3>3
  <2>2. CASE Waits /\ Unmarked /\ Marking /\ ~inbox /\ ~Sending
    BY <1>2, <2>0, <2>2 DEF FirstInv, FirstMarks, Unmarked
  <2>3. CASE /\ HoldsOwner(c) /\ call[c].pc = "park"
             /\ daily'.dispatchedAt = daily.dispatchedAt
    <3>1. row'[1] = row[1]
      BY <1>r, <2>3 DEF RowMove
    <3> QED BY <1>2, <1>i, <2>0, <2>3, <3>1 DEF ParksOnVerdict
  <2> QED BY <1>2, <2>1, <2>2, <2>3, WaitingMoves
<1> QED BY <1>1, <1>2 DEF FirstInv, FirstMarks, FirstReached

\* So it does at any other step without a fault.
LEMMA FirstInvNext ==
  ASSUME PlaneInv, RequestInv, NoteInv, FirstInv, [PlaneNext]_planeVars, Faultless',
         "delivery" \notin denied'
  PROVE  FirstInv'
<1>1. ASSUME NEW c \in Claims, CallStep(c) PROVE FirstInv'
  <2>1. Invocation(c)
    BY <1>1, CountsGrow DEF CallStep, Faultless
  <2>2. TableMove(c) /\ OwnerMove(c) /\ admission' = admission
    BY <1>1, InvocationMovesTable, InvocationMovesOwner DEF CallStep, PlaneInv
  <2>3. \A j \in Jobs : RowMove(c, j)
    BY <2>2, TableMovesRows
  <2> QED BY <2>1, <2>2, <2>3, FirstInvStep
<1>2. CASE Ambient
  <2>i. daily \in OwnerType
    BY DEF PlaneInv, OwnerInv
  <2>1. UNCHANGED <<row, call>>
    BY <1>2, AmbientStep DEF tableVars
  <2>2. Waits' => daily' = daily /\ inbox' = inbox
    <3>1. PauseOwner(ClaimLost) => ~Waits'
      BY <2>i DEF PauseOwner, Waits, OwnerType
    <3>2. ResumeOwner(daily.dispatchedAt) => ~Waits'
      BY <2>i DEF ResumeOwner, Waits, OwnerType
    <3>3. PauseDelivery => ~Waits'
      BY <3>1 DEF PauseDelivery, Waits, Takeable
    <3> QED BY <1>2, <3>2, <3>3
            DEF Ambient, PlaneTick, ResumePaused, RolloutOff, RolloutOn, Depart,
                Switch, Freeze, Thaw, Freezing,
                planeVars, ownerVars
  <2>3. admission' # "closed" => admission # "closed"
    BY <1>2 DEF Ambient, PlaneTick, PauseDelivery, ResumePaused, RolloutOff, RolloutOn,
                Depart, Switch, Freeze, Thaw, Freezing, planeVars, ownerVars
  <2> QED BY <2>1, <2>2, <2>3
          DEF FirstInv, FirstMarks, FirstReached, First, Waits, Sending, Marking
<1> QED BY <1>1, <1>2 DEF PlaneNext, Ambient, CallStep

Unrefused == Faultless /\ "delivery" \notin denied

\* A parked first attempt whose provider job has a verdict is woken, however the
\* rollout goes off and on, the account is frozen and thawed, and consent or the
\* account ends, as long as no invocation dies, no send throws and no message of
\* the owner was acknowledged under a freeze: if a lease outlasts a handler.  Of
\* a later attempt this is not so: see VerdictReachesOwner.
THEOREM FirstVerdictsReachOwners ==
  ASSUME LeasesOutlastAHandler
  PROVE  PlaneSpec => [](Faultless /\ daily.attempts = 1 => VerdictReachesOwner)
<1>1. PlaneInit => NoteInv /\ FirstInv
  <2> SUFFICES ASSUME PlaneInit PROVE NoteInv /\ FirstInv
    OBVIOUS
  <2>1. /\ \A c \in Claims : call[c].pc = "idle"
        /\ \A t \in Tokens : answers[t].left = 0
        /\ daily.attempts = 0 /\ daily.status = "queued"
        /\ daily.dispatchedAt = 0 /\ now = 1
    BY DEF PlaneInit, JobsInit, OwnerInit, Idle, NotHanded
  <2> QED BY <2>1
          DEF NoteInv, OwnerMarked, ClaimInv, ClaimAlone, ClaimSteps, Unissued, Noted,
              FirstOpen, First, ParksOnVerdict, FirstInv, FirstMarks, FirstReached
<1>2. PlaneInv /\ RequestInv /\ LinkInv /\ LinkInv' /\ NoteInv /\ [PlaneNext]_planeVars
         => NoteInv'
  BY NoteInvNext
<1>3. /\ PlaneInv /\ RequestInv /\ NoteInv /\ (Unrefused => FirstInv)
      /\ [PlaneNext]_planeVars
      => (Unrefused => FirstInv)'
  BY FirstInvNext, CountsGrow DEF Unrefused, Faultless
<1>4. PlaneInv /\ (Unrefused => FirstInv)
         => (Faultless /\ daily.attempts = 1 => VerdictReachesOwner)
  <2> SUFFICES ASSUME PlaneInv, FirstInv, daily.attempts = 1, VerdictIsIn
               PROVE  inbox \/ Waking \/ Undispatched \/ NudgeIsOverdue(daily.attempts)
    BY DEF VerdictReachesOwner, Unrefused
  <2>1. inbox \/ Sending \/ daily.dispatchedAt <= row[1].completedAt
    BY DEF FirstInv, FirstReached, First, VerdictIsIn, OwnerCurrent, Provider,
           Verdicts
  <2>2. Sending => Waking
    BY DEF Sending, Waking
  <2>3. daily.dispatchedAt <= row[1].completedAt => NudgeIsOverdue(daily.attempts)
    BY DEF NudgeIsOverdue, VerdictIsIn, Waits, Provider
  <2> QED BY <2>1, <2>2, <2>3
<1> QED BY <1>1, <1>2, <1>3, <1>4, LinkInvariant, PTL DEF PlaneSpec
=============================================================================
