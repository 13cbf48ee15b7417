------------------------ MODULE PatternStages_proofs ------------------------
(***************************************************************************)
(* What the runs of PatternStages show on a few generations and one or two *)
(* deliveries, proved for every number of generations, deliveries,         *)
(* consents, deployments and attempts.                                     *)
(*                                                                         *)
(* The invariant is the listed properties together with what a delivery,   *)
(* the sweep and an erasure rely on between their read and their batch.    *)
(* A step either leaves every generation as it is (QuietCore), reserves one *)
(* (ReservationCore), publishes one (PublicationCore), ends one            *)
(* (EndingCore) or ends all of them (CancellingCore).                      *)
(***************************************************************************)
EXTENDS PatternStages, FiniteSetTheorems, TLAPS

\* The transitions of a stage that keep the generation going, or end it.
Going == {"advance", "retry", "return_to_writer", "publication_retry", "await"}
Transitions == Going \cup {"fail", "cancel", "publish"}

\* Passes of the live stages.
LEMMA PassOfLive == \A s \in LiveStages : PassOf(s) \in Passes
BY DEF LiveStages, PassOf, Owner, Passes

\* A counter that is set is still a counter.
LEMMA CounterSet ==
  ASSUME NEW f \in [Passes -> Nat], NEW p \in Passes, NEW n \in Nat
  PROVE  [f EXCEPT ![p] = n] \in [Passes -> Nat]
OBVIOUS

\* So a row whose stage, stage generation and one counter are set is a row.
LEMMA RowSet ==
  ASSUME NEW row \in Row, NEW s \in LiveStages, NEW g \in Nat, NEW p \in Passes, NEW n \in Nat
  PROVE  /\ [row EXCEPT !.stage = s, !.sg = g, !.attempts[p] = n] \in Row
         /\ [row EXCEPT !.stage = s, !.sg = g, !.attempts[p] = n].stage = s
<1>1. [row.attempts EXCEPT ![p] = n] \in [Passes -> Nat]
  BY CounterSet DEF Row
<1> QED BY <1>1 DEF Row

\* What a transition makes of a row that is live.
LEMMA AfterTransition ==
  ASSUME NEW row \in Row, row.stage \in LiveStages, NEW t \in Transitions
  PROVE  /\ After(row, t) \in Row
         /\ t \in Going => After(row, t).stage \in LiveStages
         /\ t = "fail" => After(row, t).stage = "failed"
         /\ t = "cancel" => After(row, t).stage = "cancelled"
         /\ t = "publish" => After(row, t).stage = "succeeded"
<1> DEFINE p == PassOf(row.stage)
<1>0. /\ p \in Passes /\ "writer" \in Passes /\ "verifier" \in Passes
      /\ row.attempts \in [Passes -> Nat] /\ row.sg \in Nat /\ row.sg + 1 \in Nat
  BY PassOfLive DEF Row, Passes
<1>1. [row EXCEPT !.stage = "writing", !.sg = @ + 1] \in Row
  BY <1>0 DEF Row, LiveStages
<1>2. [row EXCEPT !.stage = "semantic_verifying", !.sg = @ + 1, !.attempts["verifier"] = 0] \in Row
  <2>1. "semantic_verifying" \in LiveStages /\ 0 \in Nat
    BY DEF LiveStages
  <2> QED BY <1>0, <2>1, RowSet
<1>3. [row EXCEPT !.attempts[p] = @ + 1] \in Row
  BY <1>0 DEF Row
<1>4. [row EXCEPT !.stage = "writing", !.sg = @ + 1, !.attempts["writer"] = @ + 1] \in Row
  <2>1. "writing" \in LiveStages /\ row.attempts["writer"] + 1 \in Nat
    BY <1>0 DEF LiveStages
  <2> DEFINE n == row.attempts["writer"] + 1
  <2>2. [row EXCEPT !.stage = "writing", !.sg = row.sg + 1, !.attempts["writer"] = n] \in Row
    <3> HIDE DEF n
    <3> QED BY <1>0, <2>1, RowSet DEF n
  <2> QED BY <2>2
<1>5. [row EXCEPT !.stage = "publishing"] \in Row
  BY DEF Row, LiveStages
<1>6. [row EXCEPT !.stage = "failed", !.sg = @ + 1] \in Row
  BY <1>0 DEF Row, EndStages
<1>7. [row EXCEPT !.stage = "cancelled"] \in Row
  BY DEF Row, EndStages
<1>8. [row EXCEPT !.stage = "succeeded", !.sg = @ + 1] \in Row
  BY <1>0 DEF Row, EndStages
<1>a. CASE t = "advance"
  <2>1. CASE Owner(row.stage) = "planner"
    <3>1. After(row, t) = [row EXCEPT !.stage = "writing", !.sg = @ + 1]
      BY <1>a, <2>1 DEF After
    <3> QED BY <1>1, <1>a, <3>1 DEF Row, LiveStages
  <2>2. CASE Owner(row.stage) = "writer"
    <3>1. After(row, t) = [row EXCEPT !.stage = "semantic_verifying", !.sg = @ + 1,
                                      !.attempts["verifier"] = 0]
      BY <1>a, <2>2 DEF After
    <3> QED BY <1>2, <1>a, <3>1 DEF Row, LiveStages
  <2>3. CASE Owner(row.stage) \notin {"planner", "writer"}
    <3>1. After(row, t) = row
      BY <1>a, <2>3 DEF After
    <3> QED BY <1>a, <3>1
  <2> QED BY <2>1, <2>2, <2>3
<1>b. CASE t = "retry"
  <2>1. After(row, t) = [row EXCEPT !.attempts[p] = @ + 1]
    BY <1>b DEF After
  <2> QED BY <1>3, <1>b, <2>1 DEF Row
<1>c. CASE t = "return_to_writer"
  <2>1. After(row, t) = [row EXCEPT !.stage = "writing", !.sg = @ + 1, !.attempts["writer"] = @ + 1]
    BY <1>c DEF After, Rewritten
  <2> QED BY <1>4, <1>c, <2>1 DEF Row, LiveStages
<1>d. CASE t = "publication_retry"
  <2>1. After(row, t) = [row EXCEPT !.stage = "publishing"]
    BY <1>d DEF After
  <2> QED BY <1>5, <1>d, <2>1 DEF Row, LiveStages
<1>e. CASE t = "await"
  BY <1>e DEF After
<1>f. CASE t = "fail"
  <2>1. After(row, t) = [row EXCEPT !.stage = "failed", !.sg = @ + 1]
    BY <1>f DEF After
  <2> QED BY <1>6, <1>f, <2>1 DEF Row, Going
<1>g. CASE t = "cancel"
  <2>1. After(row, t) = [row EXCEPT !.stage = "cancelled"]
    BY <1>g DEF After
  <2> QED BY <1>7, <1>g, <2>1 DEF Row, Going
<1>h. CASE t = "publish"
  <2>1. After(row, t) = [row EXCEPT !.stage = "succeeded", !.sg = @ + 1]
    BY <1>h DEF After
  <2> QED BY <1>8, <1>h, <2>1 DEF Row, Going
<1> QED BY <1>a, <1>b, <1>c, <1>d, <1>e, <1>f, <1>g, <1>h DEF Transitions, Going
-----------------------------------------------------------------------------
(* The invariant.                                                          *)

\* A delivery works on a generation whose stage was live when it claimed it.
ExecsOK == \A e \in Execs : exec[e].pc # "idle" =>
             exec[e].gen \in Gens /\ Exists(exec[e].gen) /\ exec[e].row.stage \in LiveStages

\* The sweep fails generations that were claimed too often.
SweepOK == sweep.pc = "fail" =>
             sweep.gen \in Gens /\ Exists(sweep.gen) /\ Exhausted(sweep.gen)

\* A row that no generation has yet is as the reservation will write it.
FreshRows == \A g \in Gens : ~Exists(g) => dom[g] = NewRow

\* The claim names generations of its two lanes.
ClaimOK == /\ claim.status = "reserved" => command[claim.active].reason = "first_open"
           /\ claim.pending # NoGen => /\ claim.status = "accepted"
                                       /\ Exists(claim.pending)
                                       /\ command[claim.pending].reason = "source_update"

Openings == {g \in Gens : dom[g].stage = "succeeded" /\ command[g].reason = "first_open"}

\* The claim is consumed by the one first opening that succeeded.
OpeningsOK == IF IsConsumed(claim) THEN \E g \in Gens : Openings = {g} ELSE Openings = {}

\* An erasure that read a document finds the claim consumed, and only a
\* replacement in the place of what it read.
EraseOK == erase.pc = "batch" =>
             /\ IsConsumed(claim)
             /\ \/ document \in {erase.document, NoGen}
                \/ command[document].reason = "source_update"

Core == /\ FreshRows /\ ClaimOK /\ OpeningsOK
        /\ LiveGenerationHoldsClaim /\ ReservationIsLive /\ JobAndStageAgree
        /\ DocumentMatchesClaim

Inv == TypeOK /\ ExecsOK /\ SweepOK /\ EraseOK /\ Core

JobType == [status : JobStatuses, token : Execs \cup {NoExec}, expired : BOOLEAN, worn : BOOLEAN]
CommandType == [reason : Reasons, consent : Nat, source : Nat]
ExecType == [pc : {"idle", "gate", "pass", "cancel", "publish"},
             gen : Gens \cup {NoGen}, row : Row, prior : Gens \cup {NoGen}]

\* The values that records start from have their types.
LEMMA Beginnings ==
  /\ NewRow \in Row /\ NewRow.stage \in LiveStages
  /\ NewJob \in JobType /\ NoJob \in JobType /\ NewJob.status = "queued" /\ ~NewJob.worn
  /\ NoJob.status = "none"
  /\ NoClaim \in ClaimRecord(Gens)
  /\ IdleExec \in ExecType /\ IdleExec.pc = "idle"
<1>1. NewRow \in Row /\ NewRow.stage \in LiveStages
  BY DEF NewRow, Row, LiveStages
<1>2. NewJob \in JobType /\ NewJob.status = "queued" /\ ~NewJob.worn
  BY DEF NewJob, JobType, JobStatuses
<1>3. NoJob \in JobType /\ NoJob.status = "none"
  BY <1>2 DEF NoJob, JobType, JobStatuses
<1>4. NoClaim \in ClaimRecord(Gens)
  BY DEF NoClaim, ClaimRecord, ClaimStatuses
<1>5. IdleExec \in ExecType /\ IdleExec.pc = "idle"
  BY <1>1 DEF IdleExec, ExecType
<1> QED BY <1>1, <1>2, <1>3, <1>4, <1>5

\* Each statement on the claim leaves a claim.
LEMMA ClaimStatements ==
  ASSUME NEW c \in ClaimRecord(Gens), NEW g \in Gens
  PROVE  /\ Reserve(c, g) \in ClaimRecord(Gens)
         /\ Regenerate(c, g) \in ClaimRecord(Gens)
         /\ ReleaseUnconsumed(c, g) \in ClaimRecord(Gens)
         /\ ReleaseRegeneration(c, g) \in ClaimRecord(Gens)
         /\ Accept(c, g) \in ClaimRecord(Gens)
<1>1. Reserve(c, g) \in ClaimRecord(Gens)
  BY DEF Reserve, ClaimRecord, ClaimStatuses
<1>2. Regenerate(c, g) \in ClaimRecord(Gens)
  BY DEF Regenerate, ClaimRecord
<1>3. ReleaseUnconsumed(c, g) \in ClaimRecord(Gens)
  BY DEF ReleaseUnconsumed, ClaimRecord, ClaimStatuses
<1>4. ReleaseRegeneration(c, g) \in ClaimRecord(Gens)
  BY DEF ReleaseRegeneration, ClaimRecord
<1>5. Accept(c, g) \in ClaimRecord(Gens)
  BY DEF Accept, ClaimRecord, ClaimStatuses
<1> QED BY <1>1, <1>2, <1>3, <1>4, <1>5

\* So does each statement that sweeps the whole account.
LEMMA ClaimSweeps ==
  ASSUME NEW c \in ClaimRecord(Gens)
  PROVE  /\ ReleaseAllUnconsumed(c) \in ClaimRecord(Gens)
         /\ ReleaseAllRegenerations(c) \in ClaimRecord(Gens)
         /\ DeleteAccepted(c) \in ClaimRecord(Gens)
<1>1. ReleaseAllUnconsumed(c) \in ClaimRecord(Gens)
  BY DEF ReleaseAllUnconsumed, ClaimRecord, ClaimStatuses
<1>2. ReleaseAllRegenerations(c) \in ClaimRecord(Gens)
  BY DEF ReleaseAllRegenerations, ClaimRecord
<1>3. DeleteAccepted(c) \in ClaimRecord(Gens)
  BY DEF DeleteAccepted, ClaimRecord, ClaimStatuses
<1> QED BY <1>1, <1>2, <1>3

\* The parts of the type that the steps of this module change together.
JobsType == job \in [Gens -> JobType]
DomsType == dom \in [Gens -> Row]
ExecsType == exec \in [Execs -> ExecType]

\* What ends or returns a job leaves a job.
LEMMA EndJobType ==
  ASSUME JobsType, NEW g \in Gens, NEW st \in JobStatuses
  PROVE  /\ EndJob(g, st) \in [Gens -> JobType]
         /\ EndJob(g, st)[g].status = st /\ EndJob(g, st)[g].worn = job[g].worn
         /\ \A h \in Gens \ {g} : EndJob(g, st)[h] = job[h]
BY DEF EndJob, JobsType, JobType

\* Cancelling the whole account leaves jobs and rows.
LEMMA CancelTypes ==
  ASSUME JobsType, DomsType
  PROVE  CancelledJobs \in [Gens -> JobType] /\ CancelledDom \in [Gens -> Row]
<1>1. \A g \in Gens : [job[g] EXCEPT !.status = "cancelled", !.token = NoExec, !.expired = FALSE]
                        \in JobType
  BY DEF JobsType, JobType, JobStatuses
<1>2. \A g \in Gens : Live(g) => After(dom[g], "cancel") \in Row
  BY AfterTransition DEF DomsType, Live, Transitions
<1> QED BY <1>1, <1>2 DEF CancelledJobs, CancelledDom, JobsType, DomsType

\* The kinds of steps of a delivery.
LEMMA ExecKinds ==
  ASSUME TypeOK, ExecsOK, NEW e \in Execs, ExecStep(e)
  PROVE  \/ CheckEligibility(e) \/ AskProvider(e) \/ Park(e) \/ StartPublication(e)
         \/ Publish(e) \/ Stop(e)
         \/ exec[e].pc # "idle" /\ \E t \in Going \cup {"fail", "cancel"} : Commit(e, t)
BY DEF ExecStep, Cancel, Fail, AwaitProvider, RetryPass, AdvancePass, ReturnToWriter,
       RetryPublication, Running, Going

\* No step leaves the types.
LEMMA TypeStep == TypeOK /\ ExecsOK /\ SweepOK /\ [Next]_vars => TypeOK'
<1> SUFFICES ASSUME TypeOK, ExecsOK, SweepOK, [Next]_vars PROVE TypeOK'
  OBVIOUS
<1>t. JobsType /\ DomsType /\ ExecsType
  BY DEF TypeOK, JobsType, DomsType, ExecsType, JobType, ExecType
<1>f. \A e \in Execs : exec[e].pc # "idle" =>
        exec[e].gen \in Gens /\ Exists(exec[e].gen) /\ exec[e].row.stage \in LiveStages
  BY DEF ExecsOK
<1>i. \A e \in Execs : [exec EXCEPT ![e] = IdleExec] \in [Execs -> ExecType]
  BY <1>t, Beginnings DEF ExecsType
<1>1. ASSUME NEW r \in Reasons, ReadReservation(r) PROVE TypeOK'
  <2>1. source \in Nat
    BY PatternAssumption DEF TypeOK
  <2> QED BY <1>1, <2>1 DEF ReadReservation, TypeOK
<1>2. CASE CommitReservation
  <2>1. PICK g \in Gens :
           /\ job' = [job EXCEPT ![g] = NewJob]
           /\ command' = [command EXCEPT ![g] = [reason |-> post.reason, source |-> post.source,
                consent |-> IF post.grant = 0 THEN consent.version + 1 ELSE post.grant]]
           /\ claim' = IF post.reason = "first_open" THEN Reserve(claim, g) ELSE Regenerate(claim, g)
    BY <1>2 DEF CommitReservation
  <2>2. job' \in [Gens -> JobType]
    BY <1>t, <2>1, Beginnings DEF JobsType
  <2>3. command' \in [Gens -> CommandType]
    <3>1. (IF post.grant = 0 THEN consent.version + 1 ELSE post.grant) \in Nat
      BY DEF TypeOK
    <3>2. [reason |-> post.reason, source |-> post.source,
           consent |-> IF post.grant = 0 THEN consent.version + 1 ELSE post.grant] \in CommandType
      BY <3>1 DEF TypeOK, CommandType
    <3> QED BY <2>1, <3>2 DEF TypeOK, CommandType
  <2>4. claim' \in ClaimRecord(Gens)
    BY <2>1, ClaimStatements DEF TypeOK
  <2>5. consent' \in [version : Nat, granted : BOOLEAN]
    BY <1>2 DEF CommitReservation, TypeOK
  <2>6. post' \in [pc : {"idle", "batch"}, reason : Reasons, grant : Nat, source : Nat]
    BY <1>2 DEF CommitReservation, IdlePost, Reasons
  <2> QED BY <1>2, <2>2, <2>3, <2>4, <2>5, <2>6 DEF CommitReservation, TypeOK, JobType, CommandType
<1>3. CASE DropReservation
  BY <1>3 DEF DropReservation, IdlePost, TypeOK, Reasons
<1>4. ASSUME NEW e \in Execs, NEW g \in Gens, Claim(e, g) PROVE TypeOK'
  <2>1. PICK worn \in BOOLEAN : job' = [job EXCEPT ![g] =
           [status |-> "running", token |-> e, expired |-> FALSE, worn |-> worn]]
    BY <1>4, <1>t DEF Claim, JobsType, JobType
  <2>2. job' \in [Gens -> JobType]
    BY <1>t, <2>1 DEF JobsType, JobType, JobStatuses
  <2>3. [IdleExec EXCEPT !.pc = "gate", !.gen = g, !.row = dom[g]] \in ExecType
    BY <1>t, Beginnings DEF ExecType, DomsType
  <2>4. exec' \in [Execs -> ExecType]
    BY <1>4, <1>t, <2>3 DEF Claim, ExecsType
  <2> QED BY <1>4, <2>2, <2>4 DEF Claim, TypeOK, JobType, ExecType
<1>5. ASSUME NEW e \in Execs, ExecStep(e) PROVE TypeOK'
  <2> DEFINE g == exec[e].gen
  <2>0. /\ exec[e] \in ExecType
        /\ exec[e].pc # "idle" => /\ g \in Gens /\ dom[g] \in Row
                                  /\ exec[e].row \in Row /\ exec[e].row.stage \in LiveStages
    BY <1>t, <1>f DEF ExecsType, ExecType, DomsType
  <2>1. CASE CheckEligibility(e)
    <3>1. exec' \in [Execs -> ExecType]
      BY <1>t, <2>1 DEF CheckEligibility, ExecsType, ExecType
    <3> QED BY <2>1, <3>1 DEF CheckEligibility, TypeOK, ExecType
  <2>2. CASE AskProvider(e)
    <3>1. Coordinate(exec[e].row) \in Passes \X Nat \X Nat
      BY <2>0, <2>2, PassOfLive DEF AskProvider, Running, Coordinate, Row
    <3>2. asked' \in [Gens -> SUBSET (Passes \X Nat \X Nat)]
      BY <2>2, <3>1 DEF AskProvider, TypeOK
    <3> QED BY <2>2, <3>2 DEF AskProvider, TypeOK
  <2>3. CASE Park(e)
    <3>1. job' \in [Gens -> JobType]
      BY <1>t, <2>0, <2>3, EndJobType DEF Park, Running, JobStatuses
    <3> QED BY <1>i, <2>3, <3>1 DEF Park, TypeOK, JobType, ExecType
  <2>4. CASE StartPublication(e)
    <3> DEFINE prior == IF command[g].reason = "source_update" THEN document ELSE NoGen
    <3>1. prior \in Gens \cup {NoGen}
      BY DEF TypeOK
    <3>2. exec' = [exec EXCEPT ![e].pc = "publish", ![e].prior = prior]
      BY <2>4 DEF StartPublication
    <3>3. exec' \in [Execs -> ExecType]
      <4> HIDE DEF prior
      <4> QED BY <1>t, <3>1, <3>2 DEF ExecsType, ExecType
    <3> QED BY <2>4, <3>3 DEF StartPublication, TypeOK, ExecType
  <2>5. CASE Publish(e)
    <3>0. exec[e].pc # "idle"
      BY <2>5 DEF Publish
    <3>1. job' \in [Gens -> JobType]
      BY <1>t, <2>0, <2>5, <3>0, EndJobType DEF Publish, JobStatuses
    <3>2. After(exec[e].row, "publish") \in Row
      BY <2>0, <3>0, AfterTransition DEF Transitions
    <3>3. dom' \in [Gens -> Row]
      BY <1>t, <2>5, <3>2 DEF Publish, DomsType
    <3>4. claim' \in ClaimRecord(Gens) /\ document' \in Gens
      BY <2>0, <2>5, <3>0, ClaimStatements DEF Publish, TypeOK
    <3> QED BY <1>i, <2>5, <3>1, <3>3, <3>4 DEF Publish, TypeOK, JobType, ExecType
  <2>6. CASE Stop(e)
    BY <1>i, <2>6 DEF Stop, TypeOK, ExecType
  <2>7. ASSUME NEW t \in Going \cup {"fail", "cancel"}, exec[e].pc # "idle", Commit(e, t)
        PROVE  TypeOK'
    <3>1. job' \in [Gens -> JobType]
      BY <1>t, <2>0, <2>7, EndJobType DEF Commit, JobStatusAfter, JobStatuses
    <3>2. After(exec[e].row, t) \in Row
      BY <2>0, <2>7, AfterTransition DEF Transitions
    <3>3. dom' \in [Gens -> Row]
      BY <1>t, <2>7, <3>2 DEF Commit, DomsType
    <3>4. claim' \in ClaimRecord(Gens)
      BY <2>0, <2>7, ClaimStatements DEF Commit, ReleaseFor, TypeOK
    <3> QED BY <1>i, <2>7, <3>1, <3>3, <3>4 DEF Commit, TypeOK, JobType, ExecType
  <2> QED BY <1>5, <2>1, <2>2, <2>3, <2>4, <2>5, <2>6, <2>7, ExecKinds
<1>6. ASSUME NEW g \in Gens, Expire(g) PROVE TypeOK'
  <2>1. job' \in [Gens -> JobType]
    BY <1>t, <1>6 DEF Expire, JobsType, JobType
  <2> QED BY <1>6, <2>1 DEF Expire, TypeOK, JobType
<1>7. ASSUME NEW g \in Gens, SelectExhausted(g) PROVE TypeOK'
  BY <1>7, <1>t DEF SelectExhausted, TypeOK
<1>8. CASE FailExhausted
  <2>1. sweep.gen \in Gens
    BY <1>8 DEF FailExhausted, SweepOK
  <2>2. job' \in [Gens -> JobType]
    BY <1>8, <1>t, <2>1, EndJobType DEF FailExhausted, JobStatuses, JobsType
  <2>3. sweep.row.stage \in LiveStages => After(sweep.row, "fail") \in Row
    BY AfterTransition DEF TypeOK, Transitions
  <2>4. dom' \in [Gens -> Row]
    BY <1>8, <1>t, <2>3 DEF FailExhausted, DomsType
  <2>5. claim' \in ClaimRecord(Gens)
    BY <1>8, <2>1, ClaimStatements DEF FailExhausted, TypeOK
  <2>6. sweep' \in [pc : {"idle", "fail"}, gen : Gens \cup {NoGen}, row : Row]
    BY <1>8, Beginnings DEF FailExhausted, IdleSweep
  <2> QED BY <1>8, <2>2, <2>4, <2>5, <2>6 DEF FailExhausted, TypeOK, JobType
<1>9. CASE RevokeConsent
  <2>1. claim' \in ClaimRecord(Gens)
    BY <1>9, ClaimSweeps DEF RevokeConsent, TypeOK
  <2>2. consent' \in [version : Nat, granted : BOOLEAN]
    BY <1>9 DEF RevokeConsent, TypeOK
  <2> QED BY <1>9, <1>t, <2>1, <2>2, CancelTypes DEF RevokeConsent, TypeOK, JobType
<1>10. CASE ReadDocument
  BY <1>10 DEF ReadDocument, TypeOK
<1>11. CASE ErasePattern
  <2>1. claim' \in ClaimRecord(Gens)
    BY <1>11, ClaimSweeps DEF ErasePattern, TypeOK
  <2>2. erase' \in [pc : {"idle", "batch"}, document : Gens \cup {NoGen}]
    BY <1>11 DEF ErasePattern, IdleErase
  <2>3. document' \in Gens \cup {NoGen}
    BY <1>11 DEF ErasePattern, TypeOK
  <2> QED BY <1>11, <1>t, <2>1, <2>2, <2>3, CancelTypes DEF ErasePattern, TypeOK, JobType
<1>12. CASE DropErasure
  BY <1>12 DEF DropErasure, IdleErase, TypeOK
<1>13. CASE DeploySource
  BY <1>13, PatternAssumption DEF DeploySource, TypeOK
<1>14. CASE UNCHANGED vars
  BY <1>14 DEF vars, TypeOK
<1> QED BY <1>1, <1>2, <1>3, <1>4, <1>5, <1>6, <1>7, <1>8, <1>9, <1>10, <1>11, <1>12,
           <1>13, <1>14 DEF Next
-----------------------------------------------------------------------------
(* Deliveries, the sweep and the erasure remember what is still so.        *)

\* A generation that exists goes on existing, and what it was counts.
Lasting ==
  \A g \in Gens : Exists(g) =>
    Exists(g)' /\ command'[g] = command[g] /\ (Exhausted(g) => Exhausted(g)')

\* Every step that writes a job keeps the row.
LEMMA Lasts == TypeOK /\ ExecsOK /\ SweepOK /\ [Next]_vars => Lasting
<1> SUFFICES ASSUME TypeOK, ExecsOK, SweepOK, [Next]_vars PROVE Lasting
  OBVIOUS
<1>t. JobsType /\ DomsType /\ command \in [Gens -> CommandType]
  BY DEF TypeOK, JobsType, DomsType, JobType, CommandType
<1>q. ASSUME UNCHANGED job, UNCHANGED command PROVE Lasting
  BY <1>q DEF Lasting, Exists, Exhausted
<1>e. ASSUME NEW g \in Gens, NEW st \in JobStatuses \ {"none"}, job' = EndJob(g, st),
             UNCHANGED command
      PROVE  Lasting
  BY <1>e, <1>t, EndJobType DEF Lasting, Exists, Exhausted
<1>c. ASSUME job' = CancelledJobs, UNCHANGED command PROVE Lasting
  BY <1>c, <1>t DEF Lasting, CancelledJobs, Exists, Exhausted, JobsType, JobType
<1>1. ASSUME NEW r \in Reasons, ReadReservation(r) PROVE Lasting
  BY <1>1, <1>q DEF ReadReservation
<1>2. CASE CommitReservation
  <2>1. PICK g \in Gens :
           /\ ~Exists(g)
           /\ job' = [job EXCEPT ![g] = NewJob]
           /\ \A h \in Gens \ {g} : command'[h] = command[h]
    BY <1>2, <1>t DEF CommitReservation
  <2> QED BY <1>t, <2>1 DEF Lasting, Exists, Exhausted, JobsType
<1>3. CASE DropReservation
  BY <1>3, <1>q DEF DropReservation
<1>4. ASSUME NEW e \in Execs, NEW g \in Gens, Claim(e, g) PROVE Lasting
  <2>1. PICK worn \in {job[g].worn, TRUE} : job' = [job EXCEPT ![g] =
           [status |-> "running", token |-> e, expired |-> FALSE, worn |-> worn]]
    BY <1>4 DEF Claim
  <2>2. UNCHANGED command
    BY <1>4 DEF Claim
  <2> QED BY <1>t, <2>1, <2>2 DEF Lasting, Exists, Exhausted, JobsType
<1>5. ASSUME NEW e \in Execs, ExecStep(e) PROVE Lasting
  <2>0. exec[e].pc # "idle" => exec[e].gen \in Gens
    BY DEF ExecsOK
  <2>1. CASE Park(e)
    BY <1>e, <2>0, <2>1 DEF Park, Running, JobStatuses
  <2>2. CASE Publish(e)
    BY <1>e, <2>0, <2>2 DEF Publish, JobStatuses
  <2>3. ASSUME NEW t \in Going \cup {"fail", "cancel"}, exec[e].pc # "idle", Commit(e, t)
        PROVE  Lasting
    BY <1>e, <2>0, <2>3 DEF Commit, JobStatusAfter, JobStatuses
  <2>4. CASE CheckEligibility(e) \/ AskProvider(e) \/ StartPublication(e) \/ Stop(e)
    BY <1>q, <2>4 DEF CheckEligibility, AskProvider, StartPublication, Stop
  <2> QED BY <1>5, <2>1, <2>2, <2>3, <2>4, ExecKinds
<1>6. ASSUME NEW g \in Gens, Expire(g) PROVE Lasting
  BY <1>6, <1>t DEF Expire, Lasting, Exists, Exhausted, JobsType, JobType
<1>7. ASSUME NEW g \in Gens, SelectExhausted(g) PROVE Lasting
  BY <1>7, <1>q DEF SelectExhausted
<1>8. CASE FailExhausted
  <2>1. sweep.gen \in Gens
    BY <1>8 DEF FailExhausted, SweepOK
  <2>2. job' = job \/ job' = EndJob(sweep.gen, "failed")
    BY <1>8 DEF FailExhausted
  <2> QED BY <1>8, <1>q, <1>e, <2>1, <2>2 DEF FailExhausted, JobStatuses
<1>9. CASE RevokeConsent
  BY <1>9, <1>c DEF RevokeConsent
<1>10. CASE ReadDocument
  BY <1>10, <1>q DEF ReadDocument
<1>11. CASE ErasePattern
  BY <1>11, <1>c DEF ErasePattern
<1>12. CASE DropErasure
  BY <1>12, <1>q DEF DropErasure
<1>13. CASE DeploySource
  BY <1>13, <1>q DEF DeploySource
<1>14. CASE UNCHANGED vars
  BY <1>14, <1>q DEF vars
<1> QED BY <1>1, <1>2, <1>3, <1>4, <1>5, <1>6, <1>7, <1>8, <1>9, <1>10, <1>11, <1>12,
           <1>13, <1>14 DEF Next

\* A delivery changes what it works on only by claiming.
LEMMA ExecsStep == TypeOK /\ ExecsOK /\ SweepOK /\ [Next]_vars => ExecsOK'
<1> SUFFICES ASSUME TypeOK, ExecsOK, SweepOK, [Next]_vars PROVE ExecsOK'
  OBVIOUS
<1>l. Lasting
  BY Lasts
<1>t. exec \in [Execs -> ExecType] /\ DomsType
  BY DEF TypeOK, ExecType, DomsType
<1>k. ASSUME \A e \in Execs : exec'[e].pc # "idle" =>
               exec[e].pc # "idle" /\ exec'[e].gen = exec[e].gen /\ exec'[e].row = exec[e].row
      PROVE  ExecsOK'
  BY <1>k, <1>l DEF ExecsOK, Lasting
<1>1. ASSUME NEW e \in Execs, NEW g \in Gens, Claim(e, g) PROVE ExecsOK'
  <2>1. /\ exec'[e].gen = g /\ exec'[e].row = dom[g]
        /\ \A f \in Execs \ {e} : exec'[f] = exec[f]
    BY <1>1, <1>t, Beginnings DEF Claim, ExecType
  <2>2. Exists(g) /\ dom[g].stage \in LiveStages
    BY <1>1 DEF Claim, Live
  <2> QED BY <1>l, <2>1, <2>2 DEF ExecsOK, Lasting
<1>2. ASSUME NEW e \in Execs, ExecStep(e) PROVE ExecsOK'
  <2>1. CASE CheckEligibility(e)
    BY <1>k, <1>t, <2>1 DEF CheckEligibility, ExecType
  <2>2. CASE StartPublication(e)
    BY <1>k, <1>t, <2>2 DEF StartPublication, Running, ExecType
  <2>3. CASE AskProvider(e)
    BY <1>k, <2>3 DEF AskProvider
  <2>4. CASE exec' = [exec EXCEPT ![e] = IdleExec]
    BY <1>k, <1>t, <2>4, Beginnings
  <2>5. \/ CheckEligibility(e) \/ StartPublication(e) \/ AskProvider(e)
        \/ exec' = [exec EXCEPT ![e] = IdleExec]
    BY <1>2, ExecKinds DEF Park, Publish, Stop, Commit
  <2> QED BY <2>1, <2>2, <2>3, <2>4, <2>5
<1>3. CASE UNCHANGED exec
  BY <1>3, <1>k
<1> QED BY <1>1, <1>2, <1>3 DEF Next, vars, ReadReservation, CommitReservation, DropReservation,
       Expire, SelectExhausted, FailExhausted, RevokeConsent, ReadDocument, ErasePattern,
       DropErasure, DeploySource

\* The sweep selects what was claimed too often, and that stays so.
LEMMA SweepStep == TypeOK /\ ExecsOK /\ SweepOK /\ [Next]_vars => SweepOK'
<1> SUFFICES ASSUME TypeOK, ExecsOK, SweepOK, [Next]_vars PROVE SweepOK'
  OBVIOUS
<1>l. Lasting
  BY Lasts
<1>1. ASSUME NEW g \in Gens, SelectExhausted(g) PROVE SweepOK'
  <2>1. Exists(g) /\ Exhausted(g) /\ sweep'.gen = g
    BY <1>1 DEF SelectExhausted, Exists, Exhausted
  <2> QED BY <1>l, <2>1 DEF SweepOK, Lasting
<1>2. CASE FailExhausted
  BY <1>2 DEF FailExhausted, IdleSweep, SweepOK
<1>3. CASE UNCHANGED sweep
  BY <1>l, <1>3 DEF SweepOK, Lasting
<1>4. ASSUME NEW e \in Execs, ExecStep(e) PROVE UNCHANGED sweep
  BY <1>4, ExecKinds DEF CheckEligibility, AskProvider, Park, StartPublication, Publish, Stop, Commit
<1> QED BY <1>1, <1>2, <1>3, <1>4 DEF Next, vars, ReadReservation, CommitReservation, DropReservation,
       Claim, Expire, RevokeConsent, ReadDocument, ErasePattern, DropErasure, DeploySource
-----------------------------------------------------------------------------
(* The core: jobs, stages, the claim and the document.                     *)

Working == {"queued", "running"}

\* A step that neither starts nor ends a generation, nor touches the claim.
Quiet ==
  /\ UNCHANGED <<command, claim, document>>
  /\ \A g \in Gens :
       /\ Exists(g)' <=> Exists(g)
       /\ Exhausted(g) => Exhausted(g)'
       /\ job'[g].status \in Working <=> job[g].status \in Working
       /\ dom'[g] = dom[g] \/ (Live(g) /\ dom'[g].stage \in LiveStages)

\* What the parts of the core read of a record, as it is typed.
LEMMA Typing ==
  ASSUME TypeOK
  PROVE  /\ NoGen \notin Gens
         /\ job \in [Gens -> JobType] /\ dom \in [Gens -> Row]
         /\ command \in [Gens -> CommandType]
         /\ claim \in ClaimRecord(Gens)
         /\ document \in Gens \cup {NoGen}
BY PatternAssumption DEF TypeOK, JobType, CommandType

\* No stage is both live and ended.
LEMMA LiveIsNotEnded == \A s \in LiveStages : s \notin EndStages
BY DEF LiveStages, EndStages

\* Such a step keeps the core.
LEMMA QuietCore == TypeOK /\ Core /\ Quiet => Core'
<1> SUFFICES ASSUME TypeOK, Core, Quiet PROVE Core'
  OBVIOUS
<1>1. \A g \in Gens : Live(g)' <=> Live(g)
  BY DEF Quiet, Live
<1>2. FreshRows'
  BY DEF Core, FreshRows, Quiet, Live
<1>3. ClaimOK'
  BY Typing DEF Core, ClaimOK, Quiet, ClaimRecord
<1>4. \A g \in Gens : (dom'[g].stage = "succeeded" <=> dom[g].stage = "succeeded")
  BY DEF Quiet, Live, LiveStages
<1>5. OpeningsOK'
  <2>1. Openings' = Openings
    BY <1>4 DEF Openings, Quiet
  <2> QED BY <2>1 DEF Core, OpeningsOK, Quiet
<1>6. LiveGenerationHoldsClaim'
  BY <1>1 DEF Core, LiveGenerationHoldsClaim, Quiet, HoldsClaim
<1>7. ReservationIsLive'
  BY <1>1, Typing DEF Core, ReservationIsLive, Quiet, ClaimRecord
<1>8. JobAndStageAgree'
  BY DEF Core, JobAndStageAgree, Quiet, Live, Working
<1>9. DocumentMatchesClaim'
  BY <1>4, Typing DEF Core, DocumentMatchesClaim, Quiet
<1> QED BY <1>2, <1>3, <1>5, <1>6, <1>7, <1>8, <1>9 DEF Core

\* A generation's end: the row in jobs and the stage may each be ended or left,
\* but unless the sweep may do so they end together, and the claim's hold on the
\* generation goes.
Ending(g) ==
  /\ Exists(g) /\ Exists(g)'
  /\ Exhausted(g)' <=> Exhausted(g)
  /\ UNCHANGED <<command, document>>
  /\ \A h \in Gens \ {g} : job'[h] = job[h] /\ dom'[h] = dom[h]
  /\ dom'[g] = dom[g] \/ (Live(g) /\ dom'[g].stage \in {"failed", "cancelled"})
  /\ \/ Exhausted(g) /\ claim' = ReleaseUnconsumed(claim, g)
     \/ /\ Live(g)
        /\ dom'[g].stage \in {"failed", "cancelled"} /\ job'[g].status \notin Working
        /\ claim' = ReleaseFor(claim, g)

\* An ending keeps the core.
LEMMA EndingCore ==
  ASSUME TypeOK, Core, NEW g \in Gens, Ending(g)
  PROVE  Core'
<1>t. /\ NoGen \notin Gens /\ claim \in ClaimRecord(Gens)
      /\ document \in Gens \cup {NoGen}
  BY Typing
<1>c. \/ claim' = claim
      \/ /\ claim.status = "reserved" /\ claim.active = g /\ claim.pending = NoGen
         /\ claim' = [claim EXCEPT !.status = "available", !.active = NoGen]
      \/ /\ claim.status = "accepted" /\ claim.pending = g
         /\ claim' = [claim EXCEPT !.pending = NoGen]
  BY DEF Ending, ReleaseFor, ReleaseUnconsumed, ReleaseRegeneration, Core, ClaimOK
<1>r. claim' = claim /\ claim.status = "reserved" => claim.active # g
  BY <1>t DEF Ending, ReleaseFor, ReleaseUnconsumed, ReleaseRegeneration, Core, ClaimOK, ClaimRecord
<1>p. claim' = claim /\ claim.pending = g => Exhausted(g)'
  BY <1>t DEF Ending, ReleaseFor, ReleaseUnconsumed, ReleaseRegeneration, Core, ClaimOK, ClaimRecord
<1>s. \A h \in Gens : dom'[h].stage = "succeeded" <=> dom[h].stage = "succeeded"
  BY DEF Ending, Live, LiveStages
<1>h. \A h \in Gens \ {g} : /\ Exists(h)' <=> Exists(h)
                            /\ Live(h)' <=> Live(h)
                            /\ Exhausted(h)' <=> Exhausted(h)
  BY DEF Ending, Exists, Live, Exhausted
<1>1. FreshRows'
  BY <1>h DEF Core, FreshRows, Ending
<1>2. ClaimOK'
  <2>1. Exists(claim.pending) /\ claim.pending \in Gens => job'[claim.pending].status # "none"
    BY <1>h DEF Ending, Exists
  <2>2. claim.pending # NoGen => claim.pending \in Gens
    BY <1>t DEF ClaimRecord
  <2>3. CASE claim' = claim
    BY <2>1, <2>2, <2>3 DEF Core, ClaimOK, Ending, Exists
  <2>4. CASE claim' # claim
    BY <1>c, <2>4, <1>t DEF Core, ClaimOK, Ending, ClaimRecord
  <2> QED BY <2>3, <2>4
<1>3. OpeningsOK'
  <2>1. Openings' = Openings
    BY <1>s DEF Openings, Ending
  <2>2. IsConsumed(claim') <=> IsConsumed(claim)
    BY <1>c, <1>t DEF IsConsumed, ClaimRecord
  <2> QED BY <2>1, <2>2 DEF Core, OpeningsOK
<1>4. LiveGenerationHoldsClaim'
  <2> SUFFICES ASSUME NEW h \in Gens, Live(h)', ~Exhausted(h)' PROVE HoldsClaim(h)'
    BY DEF LiveGenerationHoldsClaim
  <2>1. h # g
    BY DEF Ending, Live, LiveStages
  <2>2. HoldsClaim(h) /\ command'[h] = command[h]
    BY <1>h, <2>1 DEF Core, LiveGenerationHoldsClaim, Ending
  <2> QED BY <1>c, <1>t, <2>1, <2>2 DEF HoldsClaim, ClaimRecord
<1>5. ReservationIsLive'
  <2>1. claim'.status = "reserved" => claim' = claim
    BY <1>c, <1>t DEF ClaimRecord
  <2>2. claim'.status = "reserved" => claim'.active \in Gens /\ Live(claim.active)'
    BY <1>r, <1>h, <2>1 DEF Core, ReservationIsLive, Live, Exists
  <2>3. ASSUME claim'.pending # NoGen
        PROVE  Live(claim.pending)' \/ Exhausted(claim.pending)'
    <3>1. claim' = claim
      BY <1>c, <1>t, <2>3 DEF ClaimRecord
    <3>2. claim.pending \in Gens
      BY <1>t, <2>3, <3>1 DEF ClaimRecord
    <3> QED BY <1>h, <1>p, <2>3, <3>1, <3>2 DEF Core, ReservationIsLive, Live, Exists, Exhausted
  <2> QED BY <2>2, <2>3 DEF ReservationIsLive
<1>6. JobAndStageAgree'
  <2> SUFFICES ASSUME NEW h \in Gens, Exists(h)', ~Exhausted(h)'
               PROVE  job'[h].status \in Working <=> dom'[h].stage \in LiveStages
    BY DEF JobAndStageAgree, Working
  <2>1. CASE h = g
    BY <2>1 DEF Ending, LiveStages
  <2>2. CASE h # g
    BY <1>h, <2>2 DEF Ending, Core, JobAndStageAgree, Working
  <2> QED BY <2>1, <2>2
<1>7. DocumentMatchesClaim'
  BY <1>c, <1>s, <1>t DEF Core, DocumentMatchesClaim, Ending, ClaimRecord
<1> QED BY <1>1, <1>2, <1>3, <1>4, <1>5, <1>6, <1>7 DEF Core

\* A reservation: the claim was free for the new generation.
LEMMA ReservationCore == TypeOK /\ Core /\ CommitReservation => Core'
<1> SUFFICES ASSUME TypeOK, Core, CommitReservation PROVE Core'
  OBVIOUS
<1>t. /\ NoGen \notin Gens /\ claim \in ClaimRecord(Gens) /\ document \in Gens \cup {NoGen}
      /\ job \in [Gens -> JobType] /\ command \in [Gens -> CommandType]
  BY Typing
<1>g. PICK g \in Gens :
        /\ ~Exists(g)
        /\ job' = [job EXCEPT ![g] = NewJob]
        /\ command' = [command EXCEPT ![g] = [reason |-> post.reason, source |-> post.source,
             consent |-> IF post.grant = 0 THEN consent.version + 1 ELSE post.grant]]
        /\ claim' = IF post.reason = "first_open" THEN Reserve(claim, g) ELSE Regenerate(claim, g)
        /\ UNCHANGED <<dom, document>>
  BY DEF CommitReservation
<1>n. /\ Exists(g)' /\ job'[g].status = "queued" /\ ~Exhausted(g)'
      /\ command'[g].reason = post.reason
      /\ dom[g] = NewRow /\ NewRow.stage \in LiveStages /\ NewRow.stage # "succeeded"
      /\ \A h \in Gens \ {g} : job'[h] = job[h] /\ command'[h] = command[h]
  <2>1. NewRow.stage # "succeeded" /\ NewJob.status = "queued" /\ ~NewJob.worn
        /\ NewRow.stage \in LiveStages
    BY Beginnings, LiveIsNotEnded DEF EndStages
  <2>2. dom[g] = NewRow
    BY <1>g DEF Core, FreshRows
  <2> QED BY <1>t, <1>g, <2>1, <2>2 DEF Exists, Exhausted
<1>h. \A h \in Gens \ {g} : /\ Exists(h)' <=> Exists(h)
                            /\ Live(h)' <=> Live(h)
                            /\ Exhausted(h)' <=> Exhausted(h)
  BY <1>g, <1>n DEF Exists, Live, Exhausted
<1>l. Live(g)' /\ ~Live(g)
  BY <1>g, <1>n DEF Live, Exists
<1>c. \/ /\ post.reason = "first_open" /\ CanReserve(claim) /\ claim.pending = NoGen
         /\ claim' = [claim EXCEPT !.status = "reserved", !.active = g]
         /\ document = NoGen
      \/ /\ post.reason = "source_update" /\ claim.status = "accepted" /\ claim.pending = NoGen
         /\ claim' = [claim EXCEPT !.pending = g]
  <2>1. post.reason \in Reasons
    BY DEF TypeOK
  <2>2. CASE post.reason = "first_open"
    <3>1. CanReserve(claim)
      BY <2>2 DEF CommitReservation
    <3>2. claim' = [claim EXCEPT !.status = "reserved", !.active = g]
      BY <1>g, <2>2 DEF Reserve
    <3> QED BY <2>2, <3>1, <3>2 DEF CanReserve, Core, ClaimOK, DocumentMatchesClaim
  <2>3. CASE post.reason = "source_update"
    BY <1>g, <2>3 DEF CommitReservation, CanRegenerate, Regenerate
  <2> QED BY <2>1, <2>2, <2>3 DEF Reasons
<1>f. claim'.status = "reserved" =>
        claim'.active = g /\ command'[g].reason = "first_open" /\ claim'.pending = NoGen
  BY <1>c, <1>n, <1>t DEF ClaimRecord
<1>p. claim'.pending # NoGen =>
        claim'.pending = g /\ command'[g].reason = "source_update" /\ claim'.status = "accepted"
  BY <1>c, <1>n, <1>t DEF ClaimRecord
<1>1. FreshRows'
  BY <1>g, <1>h, <1>n DEF Core, FreshRows
<1>2. ClaimOK'
  BY <1>f, <1>p, <1>n DEF ClaimOK, Exists
<1>3. OpeningsOK'
  <2>1. Openings' = Openings
    BY <1>g, <1>n DEF Openings
  <2>2. IsConsumed(claim') <=> IsConsumed(claim)
    BY <1>c, <1>t DEF IsConsumed, ClaimRecord, CanReserve
  <2> QED BY <2>1, <2>2 DEF Core, OpeningsOK
<1>4. LiveGenerationHoldsClaim'
  <2> SUFFICES ASSUME NEW h \in Gens, Live(h)', ~Exhausted(h)' PROVE HoldsClaim(h)'
    BY DEF LiveGenerationHoldsClaim
  <2>1. CASE h = g
    BY <1>c, <1>n, <1>t, <2>1 DEF HoldsClaim, ClaimRecord
  <2>2. CASE h # g
    <3>1. HoldsClaim(h)
      BY <1>h, <2>2 DEF Core, LiveGenerationHoldsClaim
    <3> QED BY <1>c, <1>t, <3>1 DEF HoldsClaim, CanReserve
  <2> QED BY <2>1, <2>2
<1>5. ReservationIsLive'
  BY <1>f, <1>p, <1>l DEF ReservationIsLive, Live, Exists
<1>6. JobAndStageAgree'
  BY <1>g, <1>h, <1>n DEF Core, JobAndStageAgree
<1>7. DocumentMatchesClaim'
  BY <1>c, <1>g, <1>t DEF Core, DocumentMatchesClaim, ClaimRecord
<1> QED BY <1>1, <1>2, <1>3, <1>4, <1>5, <1>6, <1>7 DEF Core

\* A publication: the claim was the generation's own.
LEMMA PublicationCore ==
  ASSUME TypeOK, ExecsOK, Core, NEW e \in Execs, Publish(e),
         NEW g \in Gens, g = exec[e].gen
  PROVE  /\ Core' /\ document' = g
         /\ IsConsumed(claim) => command[g].reason = "source_update"
<1>t. /\ NoGen \notin Gens /\ claim \in ClaimRecord(Gens) /\ document \in Gens \cup {NoGen}
      /\ job \in [Gens -> JobType] /\ dom \in [Gens -> Row] /\ command \in [Gens -> CommandType]
      /\ JobsType
  BY Typing DEF JobsType
<1>g. Exists(g) /\ exec[e].row.stage \in LiveStages /\ exec[e].row \in Row
  BY DEF ExecsOK, Publish, TypeOK
<1>n. /\ job'[g].status = "succeeded" /\ dom'[g].stage = "succeeded"
      /\ job'[g].worn = job[g].worn
      /\ \A h \in Gens \ {g} : job'[h] = job[h] /\ dom'[h] = dom[h]
      /\ command' = command /\ document' = g
  <2>1. After(exec[e].row, "publish").stage = "succeeded"
    BY <1>g, AfterTransition DEF Transitions
  <2>2. job' = EndJob(g, "succeeded") /\ dom' = [dom EXCEPT ![g] = After(exec[e].row, "publish")]
    BY DEF Publish
  <2>3. command' = command /\ document' = g
    BY DEF Publish
  <2> QED BY <1>t, <1>g, <2>1, <2>2, <2>3, EndJobType DEF JobStatuses
<1>l. Live(g) /\ dom[g].stage # "succeeded"
  BY <1>g, LiveIsNotEnded DEF Publish, Owns, Live, EndStages
<1>c. \/ /\ command[g].reason = "first_open" /\ claim.status = "reserved" /\ claim.active = g
         /\ claim' = [claim EXCEPT !.status = "accepted", !.active = NoGen]
         /\ claim.pending = NoGen
      \/ /\ command[g].reason = "source_update" /\ claim.status = "accepted" /\ claim.pending = g
         /\ claim' = [claim EXCEPT !.pending = NoGen]
  <2>1. command[g].reason \in Reasons
    BY <1>t, <1>g DEF CommandType
  <2>2. Authorized(g)
    BY DEF Publish
  <2>3. CASE command[g].reason = "first_open"
    BY <2>2, <2>3 DEF Publish, Authorized, Accept, Core, ClaimOK
  <2>4. CASE command[g].reason = "source_update"
    BY <2>2, <2>4 DEF Publish, Authorized, ReleaseRegeneration
  <2> QED BY <2>1, <2>3, <2>4 DEF Reasons
<1>a. claim'.status = "accepted" /\ claim'.pending = NoGen
  BY <1>c, <1>t DEF ClaimRecord
<1>h. \A h \in Gens \ {g} : /\ Exists(h)' <=> Exists(h)
                            /\ Live(h)' <=> Live(h)
                            /\ Exhausted(h)' <=> Exhausted(h)
  BY <1>n DEF Exists, Live, Exhausted
<1>x. ~Live(g)' /\ Exists(g)'
  BY <1>n DEF Live, LiveStages, Exists
<1>1. FreshRows'
  BY <1>n, <1>h, <1>x DEF Core, FreshRows
<1>2. ClaimOK'
  BY <1>a DEF ClaimOK
<1>3. OpeningsOK'
  <2>1. CASE command[g].reason = "first_open"
    <3>1. Openings = {}
      BY <1>c, <2>1 DEF Core, OpeningsOK, IsConsumed
    <3>2. Openings' = {g}
      BY <1>g, <1>n, <2>1, <3>1 DEF Openings
    <3> QED BY <1>a, <1>g, <3>2 DEF OpeningsOK, IsConsumed
  <2>2. CASE command[g].reason # "first_open"
    <3>1. Openings' = Openings
      BY <1>n, <2>2 DEF Openings
    <3>2. IsConsumed(claim)
      BY <1>c, <2>2 DEF IsConsumed
    <3> QED BY <1>a, <3>1, <3>2 DEF Core, OpeningsOK, IsConsumed
  <2> QED BY <2>1, <2>2
<1>4. LiveGenerationHoldsClaim'
  <2> SUFFICES ASSUME NEW h \in Gens, Live(h)', ~Exhausted(h)' PROVE HoldsClaim(h)'
    BY DEF LiveGenerationHoldsClaim
  <2>1. h # g
    BY <1>x
  <2>2. HoldsClaim(h)
    BY <1>h, <2>1 DEF Core, LiveGenerationHoldsClaim
  <2> QED BY <1>c, <2>1, <2>2 DEF HoldsClaim
<1>5. ReservationIsLive'
  BY <1>a DEF ReservationIsLive
<1>6. JobAndStageAgree'
  BY <1>n, <1>h, <1>x DEF Core, JobAndStageAgree, LiveStages
<1>7. DocumentMatchesClaim'
  BY <1>a, <1>g, <1>n, <1>t DEF DocumentMatchesClaim
<1> QED BY <1>1, <1>2, <1>3, <1>4, <1>5, <1>6, <1>7, <1>c, <1>n DEF Core, IsConsumed

\* The whole account's cancellation: no generation is left live.
Cancelling ==
  /\ job' = CancelledJobs /\ dom' = CancelledDom /\ UNCHANGED command
  /\ claim'.status # "reserved" /\ claim'.pending = NoGen
  /\ IsConsumed(claim') <=> IsConsumed(claim)

\* Cancelling keeps the core, but for the document, which a revocation keeps and
\* a deletion takes.
LEMMA CancellingCore ==
  ASSUME TypeOK, Core, Cancelling
  PROVE  /\ FreshRows' /\ ClaimOK' /\ OpeningsOK'
         /\ LiveGenerationHoldsClaim' /\ ReservationIsLive' /\ JobAndStageAgree'
         /\ \A g \in Gens : dom'[g].stage = "succeeded" <=> dom[g].stage = "succeeded"
<1>t. /\ job \in [Gens -> JobType] /\ dom \in [Gens -> Row]
  BY Typing
<1>j. \A g \in Gens : /\ Exists(g)' <=> Exists(g)
                      /\ job'[g].status \notin Working
  BY <1>t DEF Cancelling, CancelledJobs, Exists, Working, JobType
<1>d. \A g \in Gens : IF Live(g) THEN dom'[g].stage = "cancelled" ELSE dom'[g] = dom[g]
  <2>1. \A g \in Gens : Live(g) => After(dom[g], "cancel").stage = "cancelled"
    BY <1>t, AfterTransition DEF Live, Transitions
  <2> QED BY <2>1 DEF Cancelling, CancelledDom
<1>l. \A g \in Gens : ~Live(g)' /\ (Exists(g) => dom'[g].stage \notin LiveStages)
  BY <1>j, <1>d DEF Live, LiveStages, Exists
<1>s. \A g \in Gens : dom'[g].stage = "succeeded" <=> dom[g].stage = "succeeded"
  BY <1>d DEF Live, LiveStages
<1>1. FreshRows'
  BY <1>j, <1>d DEF Core, FreshRows, Live
<1>2. ClaimOK'
  BY DEF Cancelling, ClaimOK
<1>3. OpeningsOK'
  <2>1. Openings' = Openings
    BY <1>s DEF Openings, Cancelling
  <2> QED BY <2>1 DEF Core, OpeningsOK, Cancelling
<1>4. LiveGenerationHoldsClaim'
  BY <1>l DEF LiveGenerationHoldsClaim
<1>5. ReservationIsLive'
  BY DEF Cancelling, ReservationIsLive
<1>6. JobAndStageAgree'
  BY <1>j, <1>l DEF JobAndStageAgree, Working
<1> QED BY <1>1, <1>2, <1>3, <1>4, <1>5, <1>6, <1>s

\* The ways a step may treat the core.
LEMMA ExecCore ==
  ASSUME TypeOK, ExecsOK, Core, NEW e \in Execs, ExecStep(e)
  PROVE  \/ Quiet
         \/ \E g \in Gens : Ending(g)
         \/ \E g \in Gens : g = exec[e].gen /\ Publish(e)
<1>t. /\ job \in [Gens -> JobType] /\ dom \in [Gens -> Row] /\ JobsType
  BY Typing DEF JobsType
<1>g. exec[e].pc # "idle" => /\ exec[e].gen \in Gens /\ Exists(exec[e].gen)
                             /\ exec[e].row \in Row /\ exec[e].row.stage \in LiveStages
  BY DEF ExecsOK, TypeOK
<1>q. ASSUME UNCHANGED <<job, dom, command, claim, document>> PROVE Quiet
  BY <1>q DEF Quiet, Exists, Exhausted
<1>1. CASE CheckEligibility(e) \/ AskProvider(e) \/ StartPublication(e) \/ Stop(e)
  BY <1>1, <1>q DEF CheckEligibility, AskProvider, StartPublication, Stop
<1>2. CASE Park(e)
  <2>1. exec[e].gen \in Gens /\ job[exec[e].gen].status = "running"
    BY <1>2, <1>g DEF Park, Running, Owns
  <2>2. job' = EndJob(exec[e].gen, "queued") /\ UNCHANGED <<dom, command, claim, document>>
    BY <1>2 DEF Park
  <2>3. /\ job'[exec[e].gen].status = "queued"
        /\ job'[exec[e].gen].worn = job[exec[e].gen].worn
        /\ \A h \in Gens \ {exec[e].gen} : job'[h] = job[h]
    BY <1>t, <2>1, <2>2, EndJobType DEF JobStatuses
  <2> QED BY <2>1, <2>2, <2>3 DEF Quiet, Exists, Exhausted, Working
<1>3. CASE Publish(e)
  BY <1>g, <1>3 DEF Publish
<1>4. ASSUME NEW t \in Going \cup {"fail", "cancel"}, exec[e].pc # "idle", Commit(e, t)
      PROVE  Quiet \/ \E g \in Gens : Ending(g)
  <2> DEFINE g == exec[e].gen
             st == JobStatusAfter(t)
             row == After(exec[e].row, t)
  <2>1. /\ g \in Gens /\ Exists(g) /\ Live(g) /\ job[g].status = "running"
        /\ dom[g].stage \in LiveStages
    BY <1>4, <1>g DEF Commit, Owns, Live
  <2>2. st \in JobStatuses /\ st # "none"
    BY <1>4 DEF JobStatusAfter, JobStatuses
  <2>3. /\ job' = EndJob(g, st) /\ dom' = [dom EXCEPT ![g] = row]
        /\ UNCHANGED <<command, document>>
        /\ claim' = IF Releases(t) THEN ReleaseFor(claim, g) ELSE claim
    BY <1>4 DEF Commit
  <2>4. /\ job'[exec[e].gen].status = st /\ job'[exec[e].gen].worn = job[exec[e].gen].worn
        /\ \A h \in Gens \ {exec[e].gen} : job'[h] = job[h]
    <3> HIDE DEF st, row
    <3> QED BY <1>t, <2>1, <2>2, <2>3, EndJobType
  <2>5. /\ dom'[exec[e].gen] = row
        /\ \A h \in Gens \ {exec[e].gen} : dom'[h] = dom[h]
    <3> HIDE DEF st, row
    <3> QED BY <1>t, <2>1, <2>3
  <2>6. CASE t \in Going
    <3>1. row.stage \in LiveStages /\ st = "queued" /\ ~Releases(t)
      BY <1>4, <1>g, <2>6, AfterTransition DEF Transitions, Going, JobStatusAfter, Releases
    <3> HIDE DEF st, row
    <3> QED BY <2>1, <2>3, <2>4, <2>5, <3>1 DEF Quiet, Exists, Exhausted, Working
  <2>7. CASE t \in {"fail", "cancel"}
    <3>1. row.stage \in {"failed", "cancelled"} /\ st \notin Working /\ Releases(t)
      BY <1>4, <1>g, <2>7, AfterTransition DEF Transitions, JobStatusAfter, Releases, Working
    <3>2. PICK k \in Gens : k = exec[e].gen
      BY <2>1
    <3>3. Ending(k)
      <4> HIDE DEF st, row
      <4> QED BY <2>1, <2>2, <2>3, <2>4, <2>5, <3>1, <3>2 DEF Ending, Exists, Exhausted
    <3> QED BY <3>3
  <2> QED BY <1>4, <2>6, <2>7
<1> QED BY <1>1, <1>2, <1>3, <1>4, ExecKinds

\* The sweep's batch is an ending, whichever of its statements match.
LEMMA SweepCore ==
  ASSUME TypeOK, SweepOK, Core, FailExhausted
  PROVE  \E g \in Gens : Ending(g)
<1>g. PICK g \in Gens : g = sweep.gen /\ Exists(g) /\ Exhausted(g)
  BY DEF SweepOK, FailExhausted
<1>t. /\ job \in [Gens -> JobType] /\ dom \in [Gens -> Row] /\ JobsType
  BY Typing DEF JobsType
<1>1. /\ job' = job \/ job' = EndJob(g, "failed")
      /\ \/ dom' = dom
         \/ /\ sweep.row.stage \in LiveStages /\ dom[g].stage \in LiveStages
            /\ dom' = [dom EXCEPT ![g] = After(sweep.row, "fail")]
      /\ claim' = ReleaseUnconsumed(claim, g)
      /\ UNCHANGED <<command, document>>
  BY <1>g DEF FailExhausted
<1>2. /\ job'[g].worn = job[g].worn /\ job'[g].status # "none"
      /\ \A h \in Gens \ {g} : job'[h] = job[h]
  BY <1>g, <1>t, <1>1, EndJobType DEF JobStatuses, Exists
<1>3. sweep.row.stage \in LiveStages => After(sweep.row, "fail").stage = "failed"
  BY AfterTransition DEF TypeOK, Transitions
<1>4. /\ dom'[g] = dom[g] \/ (Live(g) /\ dom'[g].stage \in {"failed", "cancelled"})
      /\ \A h \in Gens \ {g} : dom'[h] = dom[h]
  BY <1>g, <1>t, <1>1, <1>3 DEF Live
<1>5. Exists(g)' /\ (Exhausted(g)' <=> Exhausted(g))
  BY <1>2 DEF Exists, Exhausted
<1>6. Ending(g)
  BY <1>g, <1>1, <1>2, <1>4, <1>5 DEF Ending
<1> QED BY <1>6

\* The erasure's document stays the one it read, or a replacement of it.
LEMMA EraseStep ==
  ASSUME TypeOK, ExecsOK, SweepOK, EraseOK, Core, [Next]_vars
  PROVE  EraseOK'
<1>t. /\ NoGen \notin Gens /\ claim \in ClaimRecord(Gens) /\ document \in Gens \cup {NoGen}
  BY Typing
<1>l. Lasting
  BY Lasts
<1>d. document # NoGen => Exists(document) /\ document \in Gens
  <2>1. NewRow.stage # "succeeded"
    BY DEF NewRow
  <2> QED BY <1>t, <2>1 DEF Core, FreshRows, DocumentMatchesClaim
<1>k. ASSUME UNCHANGED <<document, erase>>, IsConsumed(claim) => IsConsumed(claim')
      PROVE  EraseOK'
  BY <1>k, <1>d, <1>l DEF EraseOK, Lasting
<1>q. ASSUME UNCHANGED <<document, erase, claim>> PROVE EraseOK'
  BY <1>q, <1>k
<1>r. \A g \in Gens : /\ IsConsumed(claim) => IsConsumed(ReleaseUnconsumed(claim, g))
                      /\ IsConsumed(claim) => IsConsumed(ReleaseRegeneration(claim, g))
  BY <1>t DEF IsConsumed, ReleaseUnconsumed, ReleaseRegeneration, ClaimRecord
<1>1. ASSUME NEW r \in Reasons, ReadReservation(r) PROVE EraseOK'
  BY <1>1, <1>q DEF ReadReservation
<1>2. CASE CommitReservation
  <2>1. IsConsumed(claim) => IsConsumed(claim')
    BY <1>2, <1>t DEF CommitReservation, CanReserve, IsConsumed, Regenerate, ClaimRecord
  <2> QED BY <1>2, <1>k, <2>1 DEF CommitReservation
<1>3. CASE DropReservation
  BY <1>3, <1>q DEF DropReservation
<1>4. ASSUME NEW e \in Execs, NEW g \in Gens, Claim(e, g) PROVE EraseOK'
  BY <1>4, <1>q DEF Claim
<1>5. ASSUME NEW e \in Execs, ExecStep(e) PROVE EraseOK'
  <2>0. exec[e].pc # "idle" => exec[e].gen \in Gens
    BY DEF ExecsOK
  <2>1. CASE CheckEligibility(e) \/ AskProvider(e) \/ StartPublication(e) \/ Stop(e) \/ Park(e)
    BY <1>q, <2>1 DEF CheckEligibility, AskProvider, StartPublication, Stop, Park
  <2>2. CASE Publish(e)
    <3>1. PICK g \in Gens : g = exec[e].gen
      BY <2>0, <2>2 DEF Publish
    <3>2. /\ document' = g /\ command' = command /\ erase' = erase
          /\ IsConsumed(claim) => command[g].reason = "source_update"
      BY <2>2, <3>1, PublicationCore DEF Publish
    <3>3. IsConsumed(claim) => IsConsumed(claim')
      BY <2>2, <3>1, <3>2, <1>r DEF Publish
    <3> QED BY <3>2, <3>3 DEF EraseOK
  <2>3. ASSUME NEW t \in Going \cup {"fail", "cancel"}, exec[e].pc # "idle", Commit(e, t)
        PROVE  EraseOK'
    <3>1. IsConsumed(claim) => IsConsumed(claim')
      BY <1>r, <2>0, <2>3 DEF Commit, ReleaseFor
    <3> QED BY <1>k, <2>3, <3>1 DEF Commit
  <2> QED BY <1>5, <2>1, <2>2, <2>3, ExecKinds
<1>6. ASSUME NEW g \in Gens, Expire(g) \/ SelectExhausted(g) PROVE EraseOK'
  BY <1>6, <1>q DEF Expire, SelectExhausted
<1>7. CASE FailExhausted
  BY <1>7, <1>k, <1>r DEF FailExhausted, SweepOK
<1>8. CASE RevokeConsent
  <2>1. IsConsumed(claim) => IsConsumed(claim')
    BY <1>8, <1>t DEF RevokeConsent, ReleaseAllUnconsumed, ReleaseAllRegenerations, IsConsumed,
                      ClaimRecord
  <2> QED BY <1>8, <1>k, <2>1 DEF RevokeConsent
<1>9. CASE ReadDocument
  <2>1. IsConsumed(claim)
    BY <1>9 DEF ReadDocument, Core, DocumentMatchesClaim, IsConsumed
  <2> QED BY <1>9, <2>1 DEF ReadDocument, EraseOK
<1>10. CASE ErasePattern \/ DropErasure
  BY <1>10 DEF ErasePattern, DropErasure, IdleErase, EraseOK
<1>11. CASE DeploySource
  BY <1>11, <1>q DEF DeploySource
<1>12. CASE UNCHANGED vars
  BY <1>12, <1>q DEF vars
<1> QED BY <1>1, <1>2, <1>3, <1>4, <1>5, <1>6, <1>7, <1>8, <1>9, <1>10, <1>11, <1>12 DEF Next

\* Every step keeps the core.
LEMMA CoreStep ==
  ASSUME TypeOK, ExecsOK, SweepOK, EraseOK, Core, [Next]_vars
  PROVE  Core'
<1>t. /\ NoGen \notin Gens /\ claim \in ClaimRecord(Gens) /\ document \in Gens \cup {NoGen}
      /\ job \in [Gens -> JobType]
  BY Typing
<1>q. ASSUME UNCHANGED <<job, dom, command, claim, document>> PROVE Core'
  <2>1. Quiet
    BY <1>q DEF Quiet, Exists, Exhausted
  <2> QED BY <2>1, QuietCore
<1>1. ASSUME NEW r \in Reasons, ReadReservation(r) PROVE Core'
  BY <1>1, <1>q DEF ReadReservation
<1>2. CASE CommitReservation
  BY <1>2, ReservationCore
<1>3. CASE DropReservation
  BY <1>3, <1>q DEF DropReservation
<1>4. ASSUME NEW e \in Execs, NEW g \in Gens, Claim(e, g) PROVE Core'
  <2>1. PICK worn \in {job[g].worn, TRUE} : job' = [job EXCEPT ![g] =
           [status |-> "running", token |-> e, expired |-> FALSE, worn |-> worn]]
    BY <1>4 DEF Claim
  <2>2. Exists(g) /\ job[g].status \in Working
    BY <1>4 DEF Claim, Live, Working
  <2>3. UNCHANGED <<dom, command, claim, document>>
    BY <1>4 DEF Claim
  <2>4. \A h \in Gens : /\ Exists(h)' <=> Exists(h)
                        /\ Exhausted(h) => Exhausted(h)'
                        /\ job'[h].status \in Working <=> job[h].status \in Working
    BY <1>t, <2>1, <2>2 DEF Exists, Exhausted, Working
  <2>5. Quiet
    BY <2>3, <2>4 DEF Quiet
  <2> QED BY <2>5, QuietCore
<1>5. ASSUME NEW e \in Execs, ExecStep(e) PROVE Core'
  BY <1>5, ExecCore, QuietCore, EndingCore, PublicationCore
<1>6. ASSUME NEW g \in Gens, Expire(g) PROVE Core'
  <2>1. job' = [job EXCEPT ![g].expired = TRUE] /\ UNCHANGED <<dom, command, claim, document>>
    BY <1>6 DEF Expire
  <2>2. Quiet
    BY <1>t, <2>1 DEF Quiet, Exists, Exhausted, JobType
  <2> QED BY <2>2, QuietCore
<1>7. ASSUME NEW g \in Gens, SelectExhausted(g) PROVE Core'
  BY <1>7, <1>q DEF SelectExhausted
<1>8. CASE FailExhausted
  BY <1>8, SweepCore, EndingCore
<1>9. CASE RevokeConsent
  <2>1. /\ claim'.status # "reserved" /\ claim'.pending = NoGen
        /\ IsConsumed(claim') <=> IsConsumed(claim)
        /\ claim'.status = "accepted" <=> claim.status = "accepted"
        /\ claim'.status = "deleted" <=> claim.status = "deleted"
    BY <1>9, <1>t DEF RevokeConsent, ReleaseAllUnconsumed, ReleaseAllRegenerations, IsConsumed,
                      ClaimRecord, Core, ClaimOK
  <2>2. Cancelling
    BY <1>9, <2>1 DEF RevokeConsent, Cancelling
  <2>3. DocumentMatchesClaim'
    BY <1>9, <1>t, <2>1, <2>2, CancellingCore DEF RevokeConsent, Core, DocumentMatchesClaim
  <2> QED BY <2>2, <2>3, CancellingCore DEF Core
<1>10. CASE ReadDocument
  BY <1>10, <1>q DEF ReadDocument
<1>11. CASE ErasePattern
  <2>1. claim.status \in {"accepted", "deleted"}
    BY <1>11 DEF ErasePattern, EraseOK, IsConsumed
  <2>2. claim'.status = "deleted" /\ claim'.pending = NoGen
    BY <1>11, <1>t, <2>1 DEF ErasePattern, DeleteAccepted, ReleaseAllRegenerations, ClaimRecord,
                             Core, ClaimOK
  <2>3. Cancelling
    BY <1>11, <2>1, <2>2 DEF ErasePattern, Cancelling, IsConsumed
  <2>4. document' # NoGen => /\ document' = document
                             /\ command[document].reason = "source_update"
    BY <1>11 DEF ErasePattern, EraseOK
  <2>5. DocumentMatchesClaim'
    BY <1>11, <1>t, <2>2, <2>3, <2>4, CancellingCore DEF ErasePattern, Core, DocumentMatchesClaim
  <2> QED BY <2>3, <2>5, CancellingCore DEF Core
<1>12. CASE DropErasure
  BY <1>12, <1>q DEF DropErasure
<1>13. CASE DeploySource
  BY <1>13, <1>q DEF DeploySource
<1>14. CASE UNCHANGED vars
  BY <1>14, <1>q DEF vars
<1> QED BY <1>1, <1>2, <1>3, <1>4, <1>5, <1>6, <1>7, <1>8, <1>9, <1>10, <1>11, <1>12,
           <1>13, <1>14 DEF Next

\* The database of a reader without a Pattern satisfies the invariant.
LEMMA InvInit == Init => Inv
<1> SUFFICES ASSUME Init PROVE Inv
  OBVIOUS
<1>t. TypeOK
  BY Beginnings, PatternAssumption
     DEF Init, TypeOK, JobType, ExecType, Reasons, IdleSweep, IdlePost, IdleErase
<1>j. \A g \in Gens : ~Exists(g) /\ ~Live(g) /\ dom[g] = NewRow
  BY Beginnings DEF Init, Exists, Live
<1>c. claim.status = "none" /\ claim.pending = NoGen /\ document = NoGen
  BY DEF Init, NoClaim
<1>1. ExecsOK /\ SweepOK /\ EraseOK
  BY Beginnings DEF Init, ExecsOK, SweepOK, EraseOK, IdleSweep, IdleErase
<1>2. FreshRows /\ ClaimOK
  BY <1>j, <1>c DEF FreshRows, ClaimOK
<1>3. OpeningsOK
  <2>1. NewRow.stage # "succeeded"
    BY DEF NewRow
  <2>2. Openings = {}
    BY <1>j, <2>1 DEF Openings
  <2> QED BY <1>c, <2>2 DEF OpeningsOK, IsConsumed
<1>4. LiveGenerationHoldsClaim /\ ReservationIsLive /\ JobAndStageAgree /\ DocumentMatchesClaim
  BY <1>j, <1>c DEF LiveGenerationHoldsClaim, ReservationIsLive, JobAndStageAgree,
                    DocumentMatchesClaim
<1> QED BY <1>t, <1>1, <1>2, <1>3, <1>4 DEF Inv, Core

\* Every step keeps the invariant.
LEMMA InvStep == Inv /\ [Next]_vars => Inv'
BY TypeStep, ExecsStep, SweepStep, EraseStep, CoreStep DEF Inv

\* So it holds in every state the program reaches.
LEMMA Invariance == Spec => []Inv
BY InvInit, InvStep, PTL DEF Spec
-----------------------------------------------------------------------------
(* The theorems.                                                           *)

\* The types of the rows that reservation, execution, sweep, revocation and
\* deletion write.
THEOREM TypeCorrect == Spec => []TypeOK
<1>1. Inv => TypeOK
  BY DEF Inv
<1> QED BY <1>1, Invariance, PTL

\* The reader's opportunity stays with the generation that is being written:
\* whatever is retried, taken over or swept, no second generation is reserved
\* beside a live one that the sweep has not given up on.
THEOREM LiveGenerationsHoldTheClaim == Spec => []LiveGenerationHoldsClaim
<1>1. Inv => LiveGenerationHoldsClaim
  BY DEF Inv, Core
<1> QED BY <1>1, Invariance, PTL

\* Nor is the opportunity lost to a generation that has ended.
THEOREM ReservationsAreLive == Spec => []ReservationIsLive
<1>1. Inv => ReservationIsLive
  BY DEF Inv, Core
<1> QED BY <1>1, Invariance, PTL

\* The queue's row and the domain row end in the same step.
THEOREM JobsAndStagesAgree == Spec => []JobAndStageAgree
<1>1. Inv => JobAndStageAgree
  BY DEF Inv, Core
<1> QED BY <1>1, Invariance, PTL

\* One first opening succeeds, and it consumes the claim for good.
THEOREM OneOpening == Spec => []OnePatternPerChart
<1>1. Inv => OnePatternPerChart
  <2> SUFFICES ASSUME Inv PROVE OnePatternPerChart
    OBVIOUS
  <2>1. Cardinality(Openings) = IF IsConsumed(claim) THEN 1 ELSE 0
    <3>1. OpeningsOK
      BY DEF Inv, Core
    <3>2. CASE IsConsumed(claim)
      <4>1. PICK g \in Gens : Openings = {g}
        BY <3>1, <3>2 DEF OpeningsOK
      <4> QED BY <3>2, <4>1, FS_Singleton
    <3>3. CASE ~IsConsumed(claim)
      BY <3>1, <3>3, FS_EmptySet DEF OpeningsOK
    <3> QED BY <3>2, <3>3
  <2> QED BY <2>1 DEF Openings, OnePatternPerChart
<1> QED BY <1>1, Invariance, PTL

\* A consumed claim has its document until the reader deletes it, and what is
\* stored succeeded under that claim.
THEOREM DocumentsMatchTheClaim == Spec => []DocumentMatchesClaim
<1>1. Inv => DocumentMatchesClaim
  BY DEF Inv, Core
<1> QED BY <1>1, Invariance, PTL

\* However old the checks of the delivery that publishes, the document it
\* stores belongs to the holder of the claim and to the consent in force.
THEOREM PublicationsAreAuthorized == Spec => PublicationIsAuthorized
<1> DEFINE A == document' \notin {document, NoGen} =>
                  /\ HoldsClaim(document')
                  /\ consent.granted /\ consent.version = command[document'].consent
<1>1. Inv /\ [Next]_vars => [A]_vars
  <2> SUFFICES ASSUME Inv, [Next]_vars, document' \notin {document, NoGen} PROVE A
    OBVIOUS
  <2>1. PICK e \in Execs : Publish(e)
    <3>1. \A e \in Execs : ExecStep(e) => Publish(e)
      BY ExecKinds DEF Inv, CheckEligibility, AskProvider, Park, StartPublication, Stop, Commit
    <3> QED BY <3>1 DEF Next, vars, ReadReservation, CommitReservation, DropReservation, Claim,
          Expire, SelectExhausted, FailExhausted, RevokeConsent, ReadDocument, ErasePattern,
          DropErasure, DeploySource
  <2> QED BY <2>1 DEF Publish, Authorized, HoldsClaim
<1> QED BY <1>1, Invariance, PTL DEF Spec, PublicationIsAuthorized

\* The trigger of migration 0023 never has to stop a statement of this code.
THEOREM ClaimsMoveLegally == Spec => ClaimMovesLegally
<1>1. Inv /\ [Next]_vars => [GuardAllows(claim, claim')]_vars
  <2> SUFFICES ASSUME Inv, [Next]_vars PROVE GuardAllows(claim, claim')
    OBVIOUS
  <2>t. /\ claim \in ClaimRecord(Gens) /\ NoGen \notin Gens
        /\ claim.pending # NoGen => claim.status = "accepted"
    BY Typing DEF Inv, Core, ClaimOK
  <2>s. claim' = claim => GuardAllows(claim, claim')
    BY <2>t DEF GuardAllows
  <2>r. \A g \in Gens : /\ claim' = ReleaseUnconsumed(claim, g) => GuardAllows(claim, claim')
                        /\ claim' = ReleaseRegeneration(claim, g) => GuardAllows(claim, claim')
                        /\ claim' = Accept(claim, g) => GuardAllows(claim, claim')
    BY <2>t, <2>s DEF ReleaseUnconsumed, ReleaseRegeneration, Accept, GuardAllows, ClaimRecord
  <2>1. CASE CommitReservation
    <3>1. PICK g \in Gens : claim' = IF post.reason = "first_open"
                                     THEN Reserve(claim, g) ELSE Regenerate(claim, g)
      BY <2>1 DEF CommitReservation
    <3>2. CASE post.reason = "first_open"
      BY <2>1, <2>t, <3>1, <3>2 DEF CommitReservation, CanReserve, Reserve, GuardAllows, ClaimRecord
    <3>3. CASE post.reason # "first_open"
      BY <2>1, <2>t, <3>1, <3>3 DEF CommitReservation, CanRegenerate, Regenerate, GuardAllows,
                                    ClaimRecord
    <3> QED BY <3>2, <3>3
  <2>2. ASSUME NEW e \in Execs, ExecStep(e) PROVE GuardAllows(claim, claim')
    <3>0. exec[e].pc # "idle" => exec[e].gen \in Gens
      BY DEF Inv, ExecsOK
    <3>1. CASE Publish(e)
      BY <2>r, <3>0, <3>1 DEF Publish
    <3>2. ASSUME NEW t \in Going \cup {"fail", "cancel"}, exec[e].pc # "idle", Commit(e, t)
          PROVE  GuardAllows(claim, claim')
      BY <2>r, <2>s, <3>0, <3>2 DEF Commit, ReleaseFor
    <3>3. CASE UNCHANGED claim
      BY <2>s, <3>3
    <3> QED BY <2>2, <3>1, <3>2, <3>3, ExecKinds
         DEF Inv, CheckEligibility, AskProvider, Park, StartPublication, Stop
  <2>3. CASE FailExhausted
    BY <2>3, <2>r DEF FailExhausted, Inv, SweepOK
  <2>4. CASE RevokeConsent
    BY <2>4, <2>t DEF RevokeConsent, ReleaseAllUnconsumed, ReleaseAllRegenerations, GuardAllows,
                      ClaimRecord
  <2>5. CASE ErasePattern
    BY <2>5, <2>t DEF ErasePattern, DeleteAccepted, ReleaseAllRegenerations, GuardAllows, ClaimRecord
  <2>6. CASE UNCHANGED claim
    BY <2>s, <2>6
  <2> QED BY <2>1, <2>2, <2>3, <2>4, <2>5, <2>6 DEF Next, vars, ReadReservation, DropReservation,
        Claim, Expire, SelectExhausted, ReadDocument, DropErasure, DeploySource
<1> QED BY <1>1, Invariance, PTL DEF Spec, ClaimMovesLegally
-----------------------------------------------------------------------------
(* The provider calls of one generation.                                   *)
(*                                                                         *)
(* A plan is asked for in stage generation 0, the k-th round of drafts in  *)
(* 2 * k + 1 and its verdicts in 2 * k + 2.  No round is without a draft,  *)
(* and drafts are counted through all of them: so there are at most as     *)
(* many rounds as drafts, and a coordinate is asked for once whoever asks. *)

Phase(row) ==
    /\ row.stage = "reserved" => row.sg = 0 /\ row.attempts["writer"] = 0
    /\ row.stage = "writing" =>
          \E k \in Nat : row.sg = 2 * k + 1 /\ k <= row.attempts["writer"]
    /\ row.stage \in {"semantic_verifying", "publishing"} =>
          /\ \E k \in Nat : row.sg = 2 * k + 2 /\ k <= row.attempts["writer"]
          /\ row.attempts["writer"] < MaxAttempts["writer"]

\* A coordinate that the ceilings allow.
Within(c) ==
    /\ c[3] \in Nat /\ c[3] < MaxAttempts[c[1]]
    /\ c[1] = "planner" => c[2] = 0
    /\ c[1] = "verifier" => \E k \in Nat : k < MaxAttempts["writer"] /\ c[2] = 2 * k + 2

\* The drafts of a generation: asked for, or in the hand of a delivery.
InHand(g) == {Coordinate(exec[e].row) : e \in {x \in Execs : exec[x].pc # "idle" /\ exec[x].gen = g}}
Drafts(g) == {c \in asked[g] \cup InHand(g) : c[1] = "writer"}

\* The stage generation of the last draft.
DraftSg(row) == IF row.stage = "writing" THEN row.sg ELSE row.sg - 1

\* A draft is not ahead of the row, and one of the row's attempt is of its round.
Behind(c, row) ==
    /\ row.stage # "reserved"
    /\ c[3] <= row.attempts["writer"]
    /\ c[3] = row.attempts["writer"] => c[2] = DraftSg(row)

AccountOK(g) ==
    /\ ~Exists(g) => asked[g] = {}
    /\ \A c \in asked[g] : Within(c)
    /\ \A c, d \in Drafts(g) : c[3] = d[3] => c = d
    /\ Live(g) => Phase(dom[g]) /\ \A c \in Drafts(g) : Behind(c, dom[g])

\* A delivery that still owns its stage generation has the row as it is.
HandOK(e) ==
    exec[e].pc # "idle" =>
       /\ Phase(exec[e].row)
       /\ Owns(e) => exec[e].row = dom[exec[e].gen]
       /\ exec[e].pc = "publish" => PassOf(exec[e].row.stage) = "verifier"

AccountsOK == (\A g \in Gens : AccountOK(g)) /\ (\A e \in Execs : HandOK(e))

\* What the guards of a transition say of the row it begins with.
Justified(row, t) ==
    /\ t \in {"advance", "retry"} => Attempt(row) < Ceiling(row)
    /\ t = "advance" => PassOf(row.stage) # "verifier"
    /\ t \in {"return_to_writer", "publication_retry"} => PassOf(row.stage) = "verifier"

\* The kinds of steps of a delivery, with what its commits check.
LEMMA JustifiedKinds ==
  ASSUME TypeOK, ExecsOK, NEW e \in Execs, HandOK(e), ExecStep(e)
  PROVE  \/ CheckEligibility(e) \/ AskProvider(e) \/ Park(e) \/ StartPublication(e)
         \/ Publish(e) \/ Stop(e)
         \/ /\ exec[e].pc # "idle"
            /\ \E t \in Going \cup {"fail", "cancel"} : Commit(e, t) /\ Justified(exec[e].row, t)
BY DEF ExecStep, Cancel, Fail, AwaitProvider, RetryPass, AdvancePass, ReturnToWriter,
       RetryPublication, Running, Going, Justified, HandOK

\* A transition that goes on keeps to the numbering, and never goes back to a
\* draft or a round that was.
LEMMA PhaseGoesOn ==
  ASSUME NEW row \in Row, row.stage \in LiveStages, Phase(row), NEW t \in Going,
         Justified(row, t)
  PROVE  /\ Phase(After(row, t))
         /\ After(row, t).stage = "reserved" => row.stage = "reserved"
         /\ \/ After(row, t).attempts["writer"] > row.attempts["writer"]
            \/ /\ After(row, t).attempts["writer"] = row.attempts["writer"]
               /\ row.stage # "reserved" => DraftSg(After(row, t)) = DraftSg(row)
<1> DEFINE new == After(row, t)
           w == row.attempts["writer"]
<1>0. /\ row.attempts \in [Passes -> Nat] /\ row.sg \in Nat /\ w \in Nat
      /\ "writer" \in Passes /\ "verifier" \in Passes /\ "planner" \in Passes
  BY DEF Row, Passes
<1>m. MaxAttempts["writer"] \in Nat
  BY PatternAssumption DEF Passes
<1>1. CASE t = "advance" /\ row.stage = "reserved"
  <2>1. /\ new.stage = "writing" /\ new.sg = row.sg + 1
        /\ new.attempts = row.attempts
    BY <1>1 DEF After, Owner, Row
  <2>2. row.sg + 1 = 2 * 0 + 1 /\ 0 <= w
    BY <1>0, <1>1 DEF Phase
  <2> QED BY <1>0, <1>1, <2>1, <2>2 DEF Phase
<1>2. CASE t = "advance" /\ row.stage = "writing"
  <2>1. /\ new.stage = "semantic_verifying" /\ new.sg = row.sg + 1
        /\ new.attempts["writer"] = w
    BY <1>0, <1>2 DEF After, Owner, Row
  <2>2. w < MaxAttempts["writer"]
    BY <1>2 DEF Justified, Attempt, Ceiling, PassOf, Owner
  <2>3. PICK k \in Nat : row.sg = 2 * k + 1 /\ k <= w
    BY <1>2 DEF Phase
  <2>4. new.sg = 2 * k + 2
    BY <2>1, <2>3
  <2>5. DraftSg(new) = DraftSg(row)
    BY <1>0, <1>2, <2>1 DEF DraftSg
  <2> QED BY <2>1, <2>2, <2>3, <2>4, <2>5, <1>2 DEF Phase
<1>3. CASE t = "advance" /\ row.stage \notin {"reserved", "writing"}
  BY <1>3 DEF Justified, PassOf, Owner, LiveStages
<1>4. CASE t = "retry"
  <2>1. /\ new.stage = row.stage /\ new.sg = row.sg
        /\ new.attempts = [row.attempts EXCEPT ![PassOf(row.stage)] = @ + 1]
    BY <1>4 DEF After, Row
  <2>2. CASE row.stage = "writing"
    <3>1. new.attempts["writer"] = w + 1
      BY <1>0, <2>1, <2>2 DEF PassOf, Owner
    <3>2. PICK k \in Nat : row.sg = 2 * k + 1 /\ k <= w
      BY <2>2 DEF Phase
    <3>3. k <= w + 1
      BY <1>0, <3>2
    <3> QED BY <1>0, <2>1, <2>2, <3>1, <3>2, <3>3 DEF Phase
  <2>3. CASE row.stage # "writing"
    <3>1. new.attempts["writer"] = w
      BY <1>0, <2>1, <2>3 DEF PassOf, Owner, LiveStages
    <3> QED BY <2>1, <2>3, <3>1 DEF Phase, DraftSg
  <2> QED BY <2>2, <2>3
<1>5. CASE t = "return_to_writer"
  <2>1. /\ new.stage = "writing" /\ new.sg = row.sg + 1
        /\ new.attempts["writer"] = w + 1
    BY <1>0, <1>5 DEF After, Rewritten, Row
  <2>2. row.stage \in {"semantic_verifying", "publishing"}
    BY <1>5 DEF Justified, PassOf, Owner, LiveStages
  <2>3. PICK k \in Nat : row.sg = 2 * k + 2 /\ k <= w
    BY <2>2 DEF Phase
  <2>4. k + 1 \in Nat /\ new.sg = 2 * (k + 1) + 1 /\ k + 1 <= w + 1
    BY <1>0, <2>1, <2>3
  <2> QED BY <1>0, <2>1, <2>4 DEF Phase
<1>6. CASE t = "publication_retry"
  <2>1. /\ new.stage = "publishing" /\ new.sg = row.sg /\ new.attempts = row.attempts
    BY <1>6 DEF After, Row
  <2>2. row.stage \in {"semantic_verifying", "publishing"}
    BY <1>6 DEF Justified, PassOf, Owner, LiveStages
  <2> QED BY <1>0, <2>1, <2>2 DEF Phase, DraftSg
<1>7. CASE t = "await"
  <2>1. new = row
    BY <1>7 DEF After
  <2> QED BY <2>1
<1> QED BY <1>1, <1>2, <1>3, <1>4, <1>5, <1>6, <1>7 DEF Going

\* A coordinate that a running pass asks for is within the ceilings.
LEMMA AsksWithin ==
  ASSUME NEW row \in Row, row.stage \in LiveStages, Phase(row), Attempt(row) < Ceiling(row)
  PROVE  Within(Coordinate(row))
<1> DEFINE p == PassOf(row.stage)
<1>0. p \in Passes /\ row.attempts[p] \in Nat /\ row.sg \in Nat
      /\ MaxAttempts["writer"] \in Nat /\ row.attempts["writer"] \in Nat
  BY PassOfLive, PatternAssumption DEF Row, Passes
<1>1. /\ Coordinate(row)[1] = p /\ Coordinate(row)[2] = row.sg
      /\ Coordinate(row)[3] = row.attempts[p]
  BY DEF Coordinate
<1>2. p = "planner" => row.sg = 0
  BY DEF PassOf, Owner, LiveStages, Phase
<1>3. p = "verifier" => \E k \in Nat : k < MaxAttempts["writer"] /\ row.sg = 2 * k + 2
  <2> SUFFICES ASSUME p = "verifier"
               PROVE  \E k \in Nat : k < MaxAttempts["writer"] /\ row.sg = 2 * k + 2
    OBVIOUS
  <2>1. row.stage \in {"semantic_verifying", "publishing"}
    BY DEF PassOf, Owner, LiveStages
  <2>2. PICK k \in Nat : row.sg = 2 * k + 2 /\ k <= row.attempts["writer"]
    BY <2>1 DEF Phase
  <2>3. k < MaxAttempts["writer"]
    BY <1>0, <2>1, <2>2 DEF Phase
  <2> QED BY <2>2, <2>3
<1> QED BY <1>0, <1>1, <1>2, <1>3 DEF Within, Attempt, Ceiling

\* What a coordinate is made of, and what a delivery has in hand.
LEMMA CoordinateParts ==
  ASSUME NEW row \in Row, row.stage \in LiveStages
  PROVE  /\ Coordinate(row) \in Passes \X Nat \X Nat
         /\ Coordinate(row)[1] = PassOf(row.stage) /\ Coordinate(row)[2] = row.sg
         /\ Coordinate(row)[1] = "writer" =>
              row.stage = "writing" /\ Coordinate(row)[3] = row.attempts["writer"]
<1>1. PassOf(row.stage) \in Passes /\ row.sg \in Nat /\ row.attempts[PassOf(row.stage)] \in Nat
  BY PassOfLive DEF Row
<1>2. PassOf(row.stage) = "writer" => row.stage = "writing"
  BY DEF PassOf, Owner, LiveStages
<1> QED BY <1>1, <1>2 DEF Coordinate

\* Coordinates, asked for or in hand, are coordinates.
LEMMA DraftTypes ==
  ASSUME TypeOK, ExecsOK, NEW g \in Gens, NEW c \in Drafts(g)
  PROVE  c \in Passes \X Nat \X Nat
<1>1. CASE c \in asked[g]
  BY <1>1 DEF TypeOK
<1>2. CASE c \in InHand(g)
  <2>1. PICK e \in Execs : exec[e].pc # "idle" /\ c = Coordinate(exec[e].row)
    BY <1>2 DEF InHand
  <2> QED BY <2>1, CoordinateParts DEF ExecsOK, TypeOK
<1> QED BY <1>1, <1>2 DEF Drafts

\* Deliveries that go on with what they had in hand, or drop it.
HandsGoOn ==
    \A e \in Execs : exec'[e].pc # "idle" =>
       /\ exec[e].pc # "idle" /\ exec'[e].gen = exec[e].gen /\ exec'[e].row = exec[e].row
       /\ exec'[e].pc = "publish" =>
             exec[e].pc = "publish" \/ PassOf(exec[e].row.stage) = "verifier"

\* A row that stays as it is, or moves on in order.
RowsGoOn ==
    \A g \in Gens :
       /\ Exists(g) => Exists(g)'
       /\ Live(g)' => \/ Live(g) /\ dom'[g] = dom[g]
                      \/ Phase(dom'[g]) /\ \A c \in Drafts(g) : Behind(c, dom'[g])
       /\ job'[g].status = "running" /\ dom'[g].stage \in LiveStages =>
             job[g].status = "running" /\ job'[g].token = job[g].token /\ dom'[g] = dom[g]

\* With these two, a step that asks for nothing keeps the accounts.
LEMMA NothingAsked ==
  ASSUME ExecsOK, AccountsOK, HandsGoOn, RowsGoOn, UNCHANGED asked
  PROVE  AccountsOK'
<1>1. ASSUME NEW g \in Gens PROVE Drafts(g)' \subseteq Drafts(g)
  <2>1. InHand(g)' \subseteq InHand(g)
    BY DEF InHand, HandsGoOn
  <2> QED BY <2>1 DEF Drafts
<1>2. ASSUME NEW g \in Gens PROVE AccountOK(g)'
  <2>1. AccountOK(g)
    BY DEF AccountsOK
  <2>2. ~Exists(g)' => asked'[g] = {}
    BY <2>1 DEF AccountOK, RowsGoOn
  <2>3. \A c \in asked'[g] : Within(c)
    BY <2>1 DEF AccountOK
  <2>4. \A c, d \in Drafts(g)' : c[3] = d[3] => c = d
    BY <1>1, <2>1 DEF AccountOK
  <2>5. ASSUME Live(g)' PROVE Phase(dom'[g]) /\ \A c \in Drafts(g)' : Behind(c, dom'[g])
    <3>1. Phase(dom'[g]) /\ \A c \in Drafts(g) : Behind(c, dom'[g])
      BY <2>1, <2>5 DEF AccountOK, RowsGoOn
    <3> QED BY <1>1, <3>1
  <2> QED BY <2>2, <2>3, <2>4, <2>5 DEF AccountOK
<1>3. ASSUME NEW e \in Execs PROVE HandOK(e)'
  <2> SUFFICES ASSUME exec'[e].pc # "idle"
               PROVE  /\ Phase(exec'[e].row)
                      /\ Owns(e)' => exec'[e].row = dom'[exec'[e].gen]
                      /\ exec'[e].pc = "publish" => PassOf(exec'[e].row.stage) = "verifier"
    BY DEF HandOK
  <2>1. /\ exec[e].pc # "idle" /\ exec'[e].gen = exec[e].gen /\ exec'[e].row = exec[e].row
        /\ exec'[e].pc = "publish" =>
              exec[e].pc = "publish" \/ PassOf(exec[e].row.stage) = "verifier"
    BY DEF HandsGoOn
  <2>2. HandOK(e) /\ exec[e].gen \in Gens
    BY <2>1 DEF AccountsOK, ExecsOK
  <2>3. ASSUME Owns(e)' PROVE exec'[e].row = dom'[exec'[e].gen]
    <3>1. /\ job[exec[e].gen].status = "running" /\ job[exec[e].gen].token = e
          /\ dom'[exec[e].gen] = dom[exec[e].gen]
      BY <2>1, <2>2, <2>3 DEF Owns, RowsGoOn
    <3>2. Owns(e)
      BY <2>1, <2>3, <3>1 DEF Owns
    <3> QED BY <2>1, <2>2, <3>1, <3>2 DEF HandOK
  <2> QED BY <2>1, <2>2, <2>3 DEF HandOK
<1> QED BY <1>2, <1>3 DEF AccountsOK

\* A provider job is asked for by a delivery that has its coordinate in hand.
LEMMA AskingAccounts ==
  ASSUME TypeOK, ExecsOK, AccountsOK, NEW e \in Execs, AskProvider(e)
  PROVE  AccountsOK'
<1> DEFINE h == exec[e].gen
           new == Coordinate(exec[e].row)
<1>0. /\ exec[e].pc = "pass" /\ h \in Gens /\ Exists(h)
      /\ exec[e].row \in Row /\ exec[e].row.stage \in LiveStages
      /\ Attempt(exec[e].row) < Ceiling(exec[e].row)
  BY DEF AskProvider, Running, ExecsOK, TypeOK
<1>1. /\ asked' = [asked EXCEPT ![h] = @ \cup {new}] /\ UNCHANGED <<job, dom, exec>>
      /\ asked \in [Gens -> SUBSET (Passes \X Nat \X Nat)]
  BY DEF AskProvider, TypeOK
<1>2. Within(new)
  BY <1>0, AsksWithin DEF AccountsOK, HandOK
<1>3. new \in InHand(h)
  BY <1>0 DEF InHand
<1>4. ASSUME NEW g \in Gens PROVE AccountOK(g)'
  <2>1. AccountOK(g)
    BY DEF AccountsOK
  <2>2. Drafts(g)' = Drafts(g)
    BY <1>1, <1>3 DEF Drafts, InHand
  <2>3. (Exists(g)' <=> Exists(g)) /\ (Live(g)' <=> Live(g))
    BY <1>1 DEF Exists, Live
  <2>4. ~Exists(g)' => asked'[g] = {}
    BY <1>0, <1>1, <2>1, <2>3 DEF AccountOK
  <2>5. \A c \in asked'[g] : Within(c)
    BY <1>1, <1>2, <2>1 DEF AccountOK
  <2> QED BY <1>1, <2>1, <2>2, <2>3, <2>4, <2>5 DEF AccountOK
<1>5. ASSUME NEW f \in Execs PROVE HandOK(f)'
  BY <1>1 DEF AccountsOK, HandOK, Owns
<1> QED BY <1>4, <1>5 DEF AccountsOK

\* A delivery takes the row as it is: its draft is new, or the one asked for.
LEMMA ClaimAccounts ==
  ASSUME TypeOK, ExecsOK, AccountsOK, NEW e \in Execs, NEW h \in Gens, Claim(e, h)
  PROVE  AccountsOK'
<1> DEFINE new == Coordinate(dom[h])
<1>0. Live(h) /\ Exists(h) /\ dom[h] \in Row /\ dom[h].stage \in LiveStages /\ Phase(dom[h])
  BY DEF Claim, Live, TypeOK, AccountsOK, AccountOK
<1>1. PICK worn \in {job[h].worn, TRUE} :
         job' = [job EXCEPT ![h] =
           [status |-> "running", token |-> e, expired |-> FALSE, worn |-> worn]]
  BY DEF Claim
<1>2. /\ exec' = [exec EXCEPT ![e] = [IdleExec EXCEPT !.pc = "gate", !.gen = h, !.row = dom[h]]]
      /\ UNCHANGED <<dom, asked>> /\ exec[e].pc = "idle"
      /\ JobsType /\ ExecsType
  BY DEF Claim, TypeOK, JobsType, ExecsType, JobType, ExecType
<1>3. /\ exec'[e].pc = "gate" /\ exec'[e].gen = h /\ exec'[e].row = dom[h]
      /\ \A f \in Execs \ {e} : exec'[f] = exec[f]
      /\ job'[h].status = "running" /\ job'[h].token = e
      /\ \A g \in Gens \ {h} : job'[g] = job[g]
  BY <1>1, <1>2, Beginnings DEF ExecsType, ExecType, JobsType
<1>4. \A g \in Gens : (Exists(g)' <=> Exists(g)) /\ (Live(g)' <=> Live(g))
  BY <1>0, <1>2, <1>3 DEF Exists, Live
<1>5. ASSUME NEW g \in Gens \ {h} PROVE AccountOK(g)'
  <2>1. InHand(g)' = InHand(g)
    BY <1>2, <1>3 DEF InHand
  <2>2. Drafts(g)' = Drafts(g)
    BY <1>2, <2>1 DEF Drafts
  <2> QED BY <1>2, <1>4, <2>2 DEF AccountsOK, AccountOK
<1>6. AccountOK(h)'
  <2>1. InHand(h)' \subseteq InHand(h) \cup {new}
    BY <1>2, <1>3 DEF InHand
  <2>2. Drafts(h)' \subseteq Drafts(h) \cup {new}
    BY <1>2, <2>1 DEF Drafts
  <2>3. new \in Drafts(h)' => dom[h].stage = "writing" /\ new[3] = dom[h].attempts["writer"]
                              /\ new[2] = dom[h].sg /\ DraftSg(dom[h]) = dom[h].sg
    BY <1>0, CoordinateParts DEF Drafts, DraftSg
  <2>4. /\ \A c, d \in Drafts(h) : c[3] = d[3] => c = d
        /\ \A c \in Drafts(h) : Behind(c, dom[h])
        /\ \A c \in asked[h] : Within(c)
    BY <1>0 DEF AccountsOK, AccountOK
  <2>5. \A c \in Drafts(h)' : Behind(c, dom[h])
    <3>1. new \in Drafts(h)' => Behind(new, dom[h])
      <4>1. dom[h].attempts["writer"] \in Nat
        BY <1>0 DEF Row, Passes
      <4> QED BY <2>3, <4>1 DEF Behind
    <3> QED BY <2>2, <2>4, <3>1
  <2>6. ASSUME NEW c \in Drafts(h), new \in Drafts(h)', c[3] = new[3] PROVE c = new
    <3>1. c \in Passes \X Nat \X Nat /\ new \in Passes \X Nat \X Nat
      BY <1>0, DraftTypes, CoordinateParts
    <3>2. c[2] = new[2]
      BY <2>3, <2>4, <2>6 DEF Behind
    <3>3. c[1] = "writer" /\ new[1] = "writer"
      BY <2>6 DEF Drafts
    <3> QED BY <2>6, <3>1, <3>2, <3>3
  <2>7. \A c, d \in Drafts(h)' : c[3] = d[3] => c = d
    BY <2>2, <2>4, <2>6
  <2> QED BY <1>0, <1>2, <1>4, <2>4, <2>5, <2>7 DEF AccountOK
<1>7. ASSUME NEW f \in Execs PROVE HandOK(f)'
  <2>1. CASE f = e
    BY <1>0, <1>2, <1>3, <2>1 DEF HandOK
  <2>2. CASE f # e /\ exec[f].gen = h
    BY <1>2, <1>3, <2>2 DEF AccountsOK, HandOK, Owns
  <2>3. CASE f # e /\ exec[f].gen # h /\ exec[f].pc # "idle"
    <3>1. exec[f].gen \in Gens
      BY <2>3 DEF ExecsOK
    <3> QED BY <1>2, <1>3, <2>3, <3>1 DEF AccountsOK, HandOK, Owns
  <2>4. CASE f # e /\ exec[f].pc = "idle"
    BY <1>3, <2>4 DEF HandOK
  <2> QED BY <2>1, <2>2, <2>3, <2>4
<1> QED BY <1>5, <1>6, <1>7 DEF AccountsOK

\* A transition that goes on moves the row it owns, and gives the job up.
LEMMA CommitAccounts ==
  ASSUME TypeOK, ExecsOK, AccountsOK, NEW e \in Execs, exec[e].pc # "idle",
         NEW t \in Going \cup {"fail", "cancel"}, Commit(e, t), Justified(exec[e].row, t)
  PROVE  AccountsOK'
<1> DEFINE h == exec[e].gen
           row == exec[e].row
           st == JobStatusAfter(t)
           new == After(row, t)
<1>0. /\ h \in Gens /\ Exists(h) /\ row \in Row /\ row.stage \in LiveStages /\ Phase(row)
      /\ Live(h) /\ row = dom[h]
  BY DEF Commit, Owns, Live, ExecsOK, TypeOK, AccountsOK, HandOK
<1>t. JobsType /\ DomsType /\ ExecsType
  BY DEF TypeOK, JobsType, DomsType, ExecsType, JobType, ExecType
<1>1. /\ job' = EndJob(h, st) /\ dom' = [dom EXCEPT ![h] = new]
      /\ exec' = [exec EXCEPT ![e] = IdleExec] /\ UNCHANGED asked
  BY DEF Commit
<1>2. st \in JobStatuses /\ st \notin {"none", "running"}
  BY DEF JobStatusAfter, JobStatuses
<1>3. /\ job'[h].status = st /\ \A g \in Gens \ {h} : job'[g] = job[g]
      /\ dom'[h] = new /\ \A g \in Gens \ {h} : dom'[g] = dom[g]
  <2> HIDE DEF st, new, row
  <2> QED BY <1>0, <1>1, <1>2, <1>t, EndJobType DEF DomsType
<1>4. HandsGoOn
  BY <1>1, <1>t, Beginnings DEF HandsGoOn, ExecsType
<1>5. ASSUME NEW c \in Drafts(h), t \in Going PROVE Behind(c, new)
  <2>1. Behind(c, row)
    BY <1>0 DEF AccountsOK, AccountOK
  <2>2. /\ new.stage = "reserved" => row.stage = "reserved"
        /\ \/ new.attempts["writer"] > row.attempts["writer"]
           \/ /\ new.attempts["writer"] = row.attempts["writer"]
              /\ row.stage # "reserved" => DraftSg(new) = DraftSg(row)
    BY <1>0, <1>5, PhaseGoesOn
  <2>3. c[3] \in Nat /\ row.attempts["writer"] \in Nat /\ new.attempts["writer"] \in Nat
    <3>1. c \in Passes \X Nat \X Nat
      BY <1>0, DraftTypes
    <3>2. row.attempts \in [Passes -> Nat]
      BY <1>0 DEF Row
    <3>3. new \in Row
      BY <1>0, AfterTransition DEF Transitions
    <3>4. new.attempts \in [Passes -> Nat]
      BY <3>3 DEF Row
    <3> QED BY <3>1, <3>2, <3>4 DEF Passes
  <2> QED BY <2>1, <2>2, <2>3 DEF Behind
<1>6. t \in Going => Phase(new)
  BY <1>0, PhaseGoesOn
<1>7. t \notin Going => new.stage \notin LiveStages
  BY <1>0, AfterTransition DEF Transitions, LiveStages
<1>8. RowsGoOn
  <2> SUFFICES ASSUME NEW g \in Gens
               PROVE  /\ Exists(g) => Exists(g)'
                      /\ Live(g)' => \/ Live(g) /\ dom'[g] = dom[g]
                                     \/ Phase(dom'[g]) /\ \A c \in Drafts(g) : Behind(c, dom'[g])
                      /\ job'[g].status = "running" /\ dom'[g].stage \in LiveStages =>
                            /\ job[g].status = "running" /\ job'[g].token = job[g].token
                            /\ dom'[g] = dom[g]
    BY DEF RowsGoOn
  <2>1. CASE g = h
    <3> HIDE DEF h, st, new, row
    <3> QED BY <1>2, <1>3, <1>5, <1>6, <1>7, <2>1 DEF Exists, Live
  <2>2. CASE g # h
    <3> HIDE DEF h, st, new, row
    <3> QED BY <1>3, <2>2 DEF Exists, Live
  <2> QED BY <2>1, <2>2
<1> QED BY <1>1, <1>4, <1>8, NothingAsked

\* A new generation has asked for nothing, and no delivery has it in hand.
LEMMA ReservationAccounts ==
  ASSUME Inv, AccountsOK, CommitReservation
  PROVE  AccountsOK'
<1>t. JobsType /\ NewJob \in JobType
  BY Beginnings DEF Inv, TypeOK, JobsType, JobType
<1>1. PICK h \in Gens : ~Exists(h) /\ job' = [job EXCEPT ![h] = NewJob]
  BY DEF CommitReservation
<1>2. UNCHANGED <<dom, asked, exec>>
  BY DEF CommitReservation
<1>3. job'[h] = NewJob /\ \A g \in Gens \ {h} : job'[g] = job[g]
  BY <1>1, <1>t DEF JobsType
<1>4. dom[h] = NewRow /\ Drafts(h) = {}
  <2>1. asked[h] = {}
    BY <1>1 DEF AccountsOK, AccountOK
  <2>2. InHand(h) = {}
    BY <1>1 DEF InHand, Inv, ExecsOK
  <2> QED BY <1>1, <2>1, <2>2 DEF Drafts, Inv, Core, FreshRows
<1>5. Phase(NewRow)
  BY DEF Phase, NewRow, Passes
<1>6. HandsGoOn
  BY <1>2 DEF HandsGoOn
<1>7. RowsGoOn
  <2> SUFFICES ASSUME NEW g \in Gens
               PROVE  /\ Exists(g) => Exists(g)'
                      /\ Live(g)' => \/ Live(g) /\ dom'[g] = dom[g]
                                     \/ Phase(dom'[g]) /\ \A c \in Drafts(g) : Behind(c, dom'[g])
                      /\ job'[g].status = "running" /\ dom'[g].stage \in LiveStages =>
                            /\ job[g].status = "running" /\ job'[g].token = job[g].token
                            /\ dom'[g] = dom[g]
    BY DEF RowsGoOn
  <2>1. CASE g = h
    BY <1>1, <1>2, <1>3, <1>4, <1>5, <2>1, Beginnings DEF Exists
  <2>2. CASE g # h
    BY <1>2, <1>3, <2>2 DEF Exists, Live
  <2> QED BY <2>1, <2>2
<1> QED BY <1>2, <1>6, <1>7, NothingAsked DEF Inv

\* Every step keeps the accounts.
LEMMA AccountsStep == Inv /\ AccountsOK /\ [Next]_vars => AccountsOK'
<1> SUFFICES ASSUME Inv, AccountsOK, [Next]_vars PROVE AccountsOK'
  OBVIOUS
<1>i. TypeOK /\ ExecsOK /\ SweepOK
  BY DEF Inv
<1>t. JobsType /\ DomsType /\ ExecsType
  BY <1>i DEF TypeOK, JobsType, DomsType, ExecsType, JobType, ExecType
<1>l. \A g \in Gens : Exists(g) => Exists(g)'
  BY <1>i, Lasts DEF Lasting
<1>u. ASSUME UNCHANGED <<job, dom>> PROVE RowsGoOn
  BY <1>u DEF RowsGoOn, Exists, Live
<1>h. ASSUME UNCHANGED exec PROVE HandsGoOn
  BY <1>h DEF HandsGoOn
<1>d. ASSUME NEW e \in Execs, exec' = [exec EXCEPT ![e] = IdleExec] PROVE HandsGoOn
  BY <1>d, <1>t, Beginnings DEF HandsGoOn, ExecsType
<1>e. ASSUME NEW g \in Gens, NEW st \in JobStatuses \ {"running"}, job' = EndJob(g, st),
             dom'[g] = dom[g] \/ dom'[g].stage \notin LiveStages,
             Exists(g), \A h \in Gens \ {g} : dom'[h] = dom[h]
      PROVE  RowsGoOn
  <2>1. job'[g].status = st /\ \A h \in Gens \ {g} : job'[h] = job[h]
    BY <1>e, <1>t, EndJobType
  <2> QED BY <1>e, <1>l, <2>1 DEF RowsGoOn, Exists, Live
<1>c. ASSUME job' = CancelledJobs, dom' = CancelledDom PROVE RowsGoOn
  <2>1. \A g \in Gens : job'[g].status # "running" /\ (Exists(g)' => Exists(g))
    BY <1>c, <1>t DEF CancelledJobs, Exists, JobsType, JobType
  <2>2. \A g \in Gens : Live(g) => After(dom[g], "cancel").stage \notin LiveStages
    BY <1>t, AfterTransition DEF Live, Transitions, DomsType, LiveStages
  <2>3. \A g \in Gens : ~Live(g)'
    BY <1>c, <2>1, <2>2 DEF CancelledDom, Live
  <2> QED BY <1>l, <2>1, <2>3 DEF RowsGoOn
<1>1. ASSUME NEW e \in Execs, NEW g \in Gens, Claim(e, g) PROVE AccountsOK'
  BY <1>i, <1>1, ClaimAccounts
<1>2. ASSUME NEW e \in Execs, ExecStep(e) PROVE AccountsOK'
  <2>1. CASE AskProvider(e)
    BY <1>i, <2>1, AskingAccounts
  <2>2. ASSUME exec[e].pc # "idle", NEW t \in Going \cup {"fail", "cancel"},
               Commit(e, t), Justified(exec[e].row, t)
        PROVE  AccountsOK'
    BY <1>i, <2>2, CommitAccounts
  <2>3. CASE CheckEligibility(e)
    <3>1. HandsGoOn
      BY <1>t, <2>3 DEF CheckEligibility, HandsGoOn, ExecsType, ExecType
    <3> QED BY <1>i, <1>u, <2>3, <3>1, NothingAsked DEF CheckEligibility
  <2>4. CASE StartPublication(e)
    <3>1. HandsGoOn
      BY <1>t, <2>4 DEF StartPublication, Running, HandsGoOn, ExecsType, ExecType
    <3> QED BY <1>i, <1>u, <2>4, <3>1, NothingAsked DEF StartPublication
  <2>5. CASE Stop(e)
    BY <1>i, <1>u, <1>d, <2>5, NothingAsked DEF Stop
  <2>6. CASE Park(e)
    <3>1. exec[e].gen \in Gens /\ Exists(exec[e].gen)
      BY <1>i, <2>6 DEF Park, Running, ExecsOK
    <3>2. RowsGoOn
      BY <1>e, <2>6, <3>1 DEF Park, JobStatuses
    <3> QED BY <1>i, <1>d, <2>6, <3>2, NothingAsked DEF Park
  <2>7. CASE Publish(e)
    <3>1. /\ exec[e].gen \in Gens /\ Exists(exec[e].gen)
          /\ exec[e].row \in Row /\ exec[e].row.stage \in LiveStages
      BY <1>i, <2>7 DEF Publish, ExecsOK, TypeOK
    <3>2. After(exec[e].row, "publish").stage \notin LiveStages
      BY <3>1, AfterTransition DEF Transitions, LiveStages
    <3>3. job' = EndJob(exec[e].gen, "succeeded")
          /\ dom' = [dom EXCEPT ![exec[e].gen] = After(exec[e].row, "publish")]
      BY <2>7 DEF Publish
    <3>4. /\ dom'[exec[e].gen].stage \notin LiveStages
          /\ \A h \in Gens \ {exec[e].gen} : dom'[h] = dom[h]
      BY <1>t, <3>1, <3>2, <3>3 DEF DomsType
    <3>5. RowsGoOn
      BY <1>e, <3>1, <3>3, <3>4 DEF JobStatuses
    <3> QED BY <1>i, <1>d, <2>7, <3>5, NothingAsked DEF Publish
  <2>8. HandOK(e)
    BY DEF AccountsOK
  <2> QED BY <1>2, <1>i, <2>1, <2>2, <2>3, <2>4, <2>5, <2>6, <2>7, <2>8, JustifiedKinds
<1>3. CASE CommitReservation
  BY <1>3, ReservationAccounts
<1>4. ASSUME NEW g \in Gens, Expire(g) PROVE AccountsOK'
  <2>1. \A h \in Gens : job'[h].status = job[h].status /\ job'[h].token = job[h].token
    BY <1>4, <1>t DEF Expire, JobsType, JobType
  <2>2. RowsGoOn
    BY <1>4, <2>1 DEF Expire, RowsGoOn, Exists, Live
  <2> QED BY <1>4, <1>i, <1>h, <2>2, NothingAsked DEF Expire
<1>5. CASE FailExhausted
  <2> DEFINE g == sweep.gen
  <2>1. g \in Gens /\ Exists(g)
    BY <1>5, <1>i DEF FailExhausted, SweepOK
  <2>2. /\ job' = job \/ job' = EndJob(g, "failed")
        /\ \/ dom' = dom
           \/ /\ sweep.row.stage \in LiveStages
              /\ dom' = [dom EXCEPT ![g] = After(sweep.row, "fail")]
    BY <1>5 DEF FailExhausted
  <2>3. ASSUME dom' # dom PROVE RowsGoOn
    <3>1. After(sweep.row, "fail").stage \notin LiveStages
      BY <1>i, <2>2, <2>3, AfterTransition DEF TypeOK, Transitions, LiveStages
    <3>2. /\ dom'[sweep.gen].stage \notin LiveStages
          /\ \A h \in Gens \ {sweep.gen} : dom'[h] = dom[h]
      BY <1>t, <2>1, <2>2, <2>3, <3>1 DEF DomsType
    <3>3. CASE job' = job
      BY <3>2, <3>3 DEF RowsGoOn, Exists, Live
    <3>4. CASE job' # job
      BY <1>e, <2>1, <2>2, <3>2, <3>4 DEF JobStatuses
    <3> QED BY <3>3, <3>4
  <2>4. ASSUME dom' = dom PROVE RowsGoOn
    BY <1>u, <1>e, <2>1, <2>2, <2>4 DEF JobStatuses
  <2>5. HandsGoOn /\ UNCHANGED asked
    BY <1>5, <1>h DEF FailExhausted
  <2> QED BY <1>i, <2>3, <2>4, <2>5, NothingAsked
<1>6. CASE RevokeConsent \/ ErasePattern
  BY <1>6, <1>i, <1>c, <1>h, NothingAsked DEF RevokeConsent, ErasePattern
<1>7. CASE UNCHANGED <<job, dom, asked, exec>>
  BY <1>7, <1>i, <1>u, <1>h, NothingAsked
<1> QED BY <1>1, <1>2, <1>3, <1>4, <1>5, <1>6, <1>7 DEF Next, vars, ReadReservation,
       DropReservation, SelectExhausted, ReadDocument, DropErasure, DeploySource

\* Nobody has asked for anything yet.
LEMMA AccountsInit == Init => AccountsOK
<1> SUFFICES ASSUME Init PROVE AccountsOK
  OBVIOUS
<1>1. \A e \in Execs : exec[e].pc = "idle"
  BY Beginnings DEF Init
<1>2. \A g \in Gens : Drafts(g) = {} /\ asked[g] = {} /\ ~Live(g)
  BY <1>1, Beginnings DEF Init, Drafts, InHand, Live, Exists
<1> QED BY <1>1, <1>2 DEF AccountsOK, AccountOK, HandOK

\* So the accounts hold in every state the program reaches.
LEMMA AccountsInvariance == Spec => [](Inv /\ AccountsOK)
<1>1. Init => Inv /\ AccountsOK
  BY InvInit, AccountsInit
<1>2. Inv /\ AccountsOK /\ [Next]_vars => (Inv /\ AccountsOK)'
  BY InvStep, AccountsStep
<1> QED BY <1>1, <1>2, PTL DEF Spec

\* Coordinates that the ceilings allow, of which no two are drafts of the same
\* attempt, are at most as many as the ceilings add up to.
LEMMA CeilingsAddUp ==
  ASSUME NEW A \in SUBSET (Passes \X Nat \X Nat), \A c \in A : Within(c),
         \A c, d \in A : c[1] = "writer" /\ d[1] = "writer" /\ c[3] = d[3] => c = d
  PROVE  Cardinality(A) <= MaxAttempts["planner"]
                             + MaxAttempts["writer"] * (1 + MaxAttempts["verifier"])
<1> DEFINE P == {c \in A : c[1] = "planner"}
           W == {c \in A : c[1] = "writer"}
           V == {c \in A : c[1] = "verifier"}
           mp == MaxAttempts["planner"]
           mw == MaxAttempts["writer"]
           mv == MaxAttempts["verifier"]
<1>m. mp \in Nat /\ mw \in Nat /\ mv \in Nat
  BY PatternAssumption DEF Passes
<1>n. \A n \in Nat : IsFiniteSet(0 .. (n - 1)) /\ Cardinality(0 .. (n - 1)) = n
  BY FS_Interval
<1>1. A = P \cup W \cup V
  BY DEF Passes
<1>2. IsFiniteSet(P) /\ Cardinality(P) <= mp
  <2>1. \A c, d \in P : c[3] = d[3] => c = d
    BY DEF Within
  <2>2. \A c \in P : c[3] \in 0 .. (mp - 1)
    BY <1>m DEF Within
  <2> DEFINE f == [c \in P |-> c[3]]
  <2>3. f \in Injection(P, 0 .. (mp - 1))
    BY <2>1, <2>2 DEF Injection, IsInjective
  <2> QED BY <1>m, <1>n, <2>3, FS_Injection
<1>3. IsFiniteSet(W) /\ Cardinality(W) <= mw
  <2>2. \A c \in W : c[3] \in 0 .. (mw - 1)
    BY <1>m DEF Within
  <2> DEFINE f == [c \in W |-> c[3]]
  <2>3. f \in Injection(W, 0 .. (mw - 1))
    BY <2>2 DEF Injection, IsInjective
  <2> QED BY <1>m, <1>n, <2>3, FS_Injection
<1>4. IsFiniteSet(V) /\ Cardinality(V) <= mw * mv
  <2> DEFINE R == (0 .. (mw - 1)) \X (0 .. (mv - 1))
             F == [q \in R |-> <<"verifier", 2 * q[1] + 2, q[2]>>]
  <2>1. IsFiniteSet(R) /\ Cardinality(R) = mw * mv
    <3>1. /\ IsFiniteSet(0 .. (mw - 1)) /\ Cardinality(0 .. (mw - 1)) = mw
          /\ IsFiniteSet(0 .. (mv - 1)) /\ Cardinality(0 .. (mv - 1)) = mv
      BY <1>m, <1>n
    <3>2. /\ IsFiniteSet(R)
          /\ Cardinality(R) = Cardinality(0 .. (mw - 1)) * Cardinality(0 .. (mv - 1))
      BY <3>1, FS_Product
    <3> QED BY <3>1, <3>2
  <2>2. ASSUME NEW c \in V PROVE \E q \in R : F[q] = c
    <3>1. PICK k \in Nat : k < mw /\ c[2] = 2 * k + 2
      BY DEF Within
    <3>2. c[3] \in 0 .. (mv - 1) /\ k \in 0 .. (mw - 1)
      BY <1>m, <3>1 DEF Within
    <3>3. <<k, c[3]>> \in R
      BY <3>2
    <3>4. F[<<k, c[3]>>] = <<"verifier", 2 * k + 2, c[3]>>
      BY <3>3
    <3>5. c = <<c[1], c[2], c[3]>> /\ c[1] = "verifier"
      OBVIOUS
    <3> QED BY <3>1, <3>3, <3>4, <3>5
  <2>3. V \subseteq {F[q] : q \in R}
    BY <2>2
  <2>4. IsFiniteSet({F[q] : q \in R}) /\ Cardinality({F[q] : q \in R}) <= mw * mv
    <3> DEFINE I == {F[q] : q \in R}
    <3>1. F \in Surjection(R, I)
      BY DEF Surjection
    <3> HIDE DEF F, R, I
    <3>2. IsFiniteSet(I) /\ Cardinality(I) <= Cardinality(R)
      BY <2>1, <3>1, FS_Surjection
    <3> QED BY <2>1, <3>2 DEF I
  <2> DEFINE I == {F[q] : q \in R}
  <2> HIDE DEF V, F, R, I
  <2>5. IsFiniteSet(V) /\ Cardinality(V) <= Cardinality(I)
    BY <2>3, <2>4, FS_Subset DEF I
  <2>6. Cardinality(V) \in Nat /\ Cardinality(I) \in Nat
    BY <2>4, <2>5, FS_CardinalityType DEF I
  <2> DEFINE x == mw * mv
  <2>7. x \in Nat /\ Cardinality(I) <= x
    BY <1>m, <2>4 DEF I
  <2>8. Cardinality(V) <= x
    <3> HIDE DEF x
    <3> QED BY <2>5, <2>6, <2>7
  <2> QED BY <2>5, <2>8
<1>5. mw * mv \in Nat /\ mw * (1 + mv) = mw + mw * mv
  BY <1>m
<1> HIDE DEF P, W, V, mp, mw, mv
<1>6. /\ IsFiniteSet(P \cup W) /\ Cardinality(P \cup W) <= Cardinality(P) + Cardinality(W)
      /\ Cardinality(P) \in Nat /\ Cardinality(W) \in Nat /\ Cardinality(P \cup W) \in Nat
  <2>1. /\ IsFiniteSet(P \cup W)
        /\ Cardinality(P \cup W) = Cardinality(P) + Cardinality(W) - Cardinality(P \cap W)
    BY <1>2, <1>3, FS_Union
  <2>2. IsFiniteSet(P \cap W)
    BY <1>2, FS_Subset
  <2> QED BY <1>2, <1>3, <2>1, <2>2, FS_CardinalityType
<1>7. /\ Cardinality(P \cup W \cup V) <= Cardinality(P \cup W) + Cardinality(V)
      /\ Cardinality(V) \in Nat /\ Cardinality(P \cup W \cup V) \in Nat
  <2>1. /\ IsFiniteSet(P \cup W \cup V)
        /\ Cardinality(P \cup W \cup V) =
             Cardinality(P \cup W) + Cardinality(V) - Cardinality((P \cup W) \cap V)
    BY <1>4, <1>6, FS_Union
  <2>2. IsFiniteSet((P \cup W) \cap V)
    BY <1>4, FS_Subset
  <2> QED BY <1>4, <1>6, <2>1, <2>2, FS_CardinalityType
<1>8. Cardinality(A) <= mp + mw * (1 + mv)
  <2> DEFINE x == mw * mv
             y == mw * (1 + mv)
  <2>1. x \in Nat /\ y = mw + x
    BY <1>5
  <2>2. Cardinality(V) <= x
    BY <1>4
  <2> HIDE DEF x, y
  <2>3. Cardinality(A) <= mp + y
    BY <1>m, <1>1, <1>2, <1>3, <1>6, <1>7, <2>1, <2>2
  <2> QED BY <2>3 DEF y
<1> QED BY <1>8 DEF mp, mw, mv

\* The budget of pattern-sweep.ts holds for every number of attempts: whatever
\* is redelivered, taken over, retried or written again, a generation asks for
\* no more provider jobs than its plans, its drafts and a verdict's attempts
\* for each draft.
THEOREM CallsBounded == Spec => []CallsAreBounded
<1>1. Inv /\ AccountsOK => CallsAreBounded
  <2> SUFFICES ASSUME Inv, AccountsOK, NEW g \in Gens
               PROVE  Cardinality(asked[g]) <=
                        MaxAttempts["planner"]
                          + MaxAttempts["writer"] * (1 + MaxAttempts["verifier"])
    BY DEF CallsAreBounded
  <2>1. asked[g] \in SUBSET (Passes \X Nat \X Nat)
    BY DEF Inv, TypeOK
  <2>2. /\ \A c \in asked[g] : Within(c)
        /\ \A c, d \in asked[g] :
             c[1] = "writer" /\ d[1] = "writer" /\ c[3] = d[3] => c = d
    BY DEF AccountsOK, AccountOK, Drafts
  <2> QED BY <2>1, <2>2, CeilingsAddUp
<1> QED BY <1>1, AccountsInvariance, PTL
=============================================================================
