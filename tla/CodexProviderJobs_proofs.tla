----------------------- MODULE CodexProviderJobs_proofs -----------------------
(***************************************************************************)
(* What the run of CodexProviderJobs shows on two jobs and three tokens,   *)
(* proved for every set of jobs and tokens and every length of the leases. *)
(*                                                                         *)
(* TypeOK is inductive by itself; TokenDiscipline and UploadsAreFenced are *)
(* inductive relative to it.  The two action properties and the refinement *)
(* are read off one step at a time from their conjunction, JobsInv.        *)
(***************************************************************************)
EXTENDS CodexProviderJobs, TLAPS

USE TokenAssumption, TimeAssumption

JobsInv == TypeOK /\ TokenDiscipline /\ UploadsAreFenced

\* Sampled instants are clock readings, and no older than the clock.
LEMMA SampledInstant ==
  ASSUME TypeOK, NEW at \in Sampled
  PROVE  at \in Nat \ {0} /\ at <= now
<1>1. now \in Nat
  BY DEF TypeOK
<1> QED BY <1>1 DEF Sampled

\* Replacing one row by a well-typed row keeps the table well typed.
LEMMA RowReplaced ==
  ASSUME row \in [Jobs -> RowType], NEW j \in Jobs, NEW r \in RowType,
         row' = [row EXCEPT ![j] = r]
  PROVE  row' \in [Jobs -> RowType]
OBVIOUS

\* Every table operation preserves the type of the columns.
LEMMA OperationType ==
  ASSUME TypeOK, NEW j \in Jobs, NEW at \in Nat, Operation(j, at), UNCHANGED now
  PROVE  TypeOK'
<1> DEFINE r == row[j]
<1>0. r \in RowType
  BY DEF TypeOK
<1>r. ASSUME NEW s \in RowType, row' = [row EXCEPT ![j] = s],
             issued' \in [Tokens -> SUBSET Jobs], uploads' \subseteq Jobs \X Tokens
      PROVE  TypeOK'
  BY <1>r, RowReplaced DEF TypeOK
<1>t. issued \in [Tokens -> SUBSET Jobs] /\ uploads \subseteq Jobs \X Tokens
  BY DEF TypeOK
<1>n. /\ at + LeaseLength \in Nat
      /\ at + UploadExtension \in Nat
      /\ at + RetryDelay \in Nat
  BY TimeAssumption
<1> HIDE DEF r
<1>1. CASE EnqueueJob(j, at)
  <2>1. [Absent EXCEPT !.status = "pending", !.availableAt = at] \in RowType
    BY DEF Absent, RowType, Statuses
  <2> QED BY <1>1, <1>r, <1>t, <2>1 DEF EnqueueJob
<1>2. ASSUME NEW t \in Tokens, ClaimJob(j, t, at) PROVE TypeOK'
  <2>1. [r EXCEPT !.status = "leased", !.token = t,
                  !.leaseUntil = at + LeaseLength] \in RowType
    BY <1>0, <1>n DEF RowType, Statuses
  <2>2. issued' \in [Tokens -> SUBSET Jobs]
    BY <1>2, <1>t DEF ClaimJob
  <2> QED BY <1>2, <1>r, <1>t, <2>1, <2>2 DEF ClaimJob, r
<1>3. ASSUME NEW t \in Tokens, ReserveUpload(j, t, at) PROVE TypeOK'
  <2>1. [r EXCEPT !.leaseUntil = Stretched(r.leaseUntil, at)] \in RowType
    BY <1>0, <1>n DEF RowType, Stretched
  <2>2. uploads' \subseteq Jobs \X Tokens
    BY <1>3, <1>t DEF ReserveUpload
  <2> QED BY <1>3, <1>r, <1>t, <2>1, <2>2 DEF ReserveUpload, r
<1>4. ASSUME NEW t \in Tokens, RefuseUpload(j, t, at) PROVE TypeOK'
  BY <1>4 DEF RefuseUpload, TypeOK
<1>s. ASSUME NEW t \in Tokens, NEW s \in Terminal, Settled(j, t, s, at),
             UNCHANGED <<issued, uploads>>
      PROVE  TypeOK'
  <2>1. [r EXCEPT !.status = s, !.completedAt = at, !.answer = t] \in RowType
    BY <1>0 DEF RowType, Statuses, Terminal
  <2> QED BY <1>s, <1>r, <1>t, <2>1 DEF Settled, r
<1>5. CASE \E t \in Tokens : CompleteJob(j, t, at)
  BY <1>5, <1>s DEF CompleteJob, Terminal
<1>6. CASE \E t \in Tokens : FailJob(j, t, at)
  BY <1>6, <1>s DEF FailJob, Terminal
<1>7. CASE \E t \in Tokens : ReleaseLease(j, t, at)
  <2>1. [r EXCEPT !.status = "pending", !.token = NoToken, !.leaseUntil = 0,
                  !.availableAt = at + RetryDelay] \in RowType
    BY <1>0, <1>n DEF RowType, Statuses
  <2> QED BY <1>7, <1>r, <1>t, <2>1 DEF ReleaseLease, r
<1>c. ASSUME Cancelled(j, at), UNCHANGED <<issued, uploads>> PROVE TypeOK'
  <2>1. [r EXCEPT !.status = "cancelled", !.token = NoToken, !.leaseUntil = 0,
                  !.completedAt = at] \in RowType
    BY <1>0 DEF RowType, Statuses
  <2> QED BY <1>c, <1>r, <1>t, <2>1 DEF Cancelled, r
<1>8. CASE \E t \in Tokens : CancelJob(j, t, at)
  BY <1>8, <1>c DEF CancelJob
<1>9. CASE \E t \in Tokens : DeleteUpload(<<j, t>>, at)
  BY <1>9 DEF DeleteUpload, TypeOK
<1>10. CASE CancelStaleJob(j, at)
  BY <1>10, <1>c DEF CancelStaleJob
<1>11. CASE \E s \in Terminal : DeleteJob(j, s, row[j].completedAt)
  <2>1. Absent \in RowType
    BY DEF Absent, RowType, Statuses
  <2> QED BY <1>11, <1>r, <1>t, <2>1 DEF DeleteJob
<1> QED BY <1>1, <1>2, <1>3, <1>4, <1>5, <1>6, <1>7, <1>8, <1>9, <1>10, <1>11
        DEF Operation

\* Every table operation keeps tokens where the rows may carry them.
LEMMA OperationTokens ==
  ASSUME TypeOK, TokenDiscipline, UploadsAreFenced,
         NEW j \in Jobs, NEW at \in Nat, Operation(j, at), UNCHANGED now
  PROVE  TokenDiscipline' /\ UploadsAreFenced'
<1> USE DEF TypeOK, RowType, Statuses, Terminal, Absent, TokenDiscipline,
            UploadsAreFenced
<1>1. CASE EnqueueJob(j, at)
  BY <1>1 DEF EnqueueJob
<1>2. ASSUME NEW t \in Tokens, ClaimJob(j, t, at)
      PROVE  TokenDiscipline' /\ UploadsAreFenced'
  BY <1>2 DEF ClaimJob, Claimable, Unissued
<1>3. ASSUME NEW t \in Tokens, ReserveUpload(j, t, at)
      PROVE  TokenDiscipline' /\ UploadsAreFenced'
  BY <1>3 DEF ReserveUpload, HoldsLease
<1>4. ASSUME NEW t \in Tokens, RefuseUpload(j, t, at)
      PROVE  TokenDiscipline' /\ UploadsAreFenced'
  BY <1>4 DEF RefuseUpload, HoldsLease
<1>5. CASE \E t \in Tokens : CompleteJob(j, t, at)
  BY <1>5 DEF CompleteJob, Settled, HoldsLease
<1>6. CASE \E t \in Tokens : FailJob(j, t, at)
  BY <1>6 DEF FailJob, Settled, HoldsLease
<1>7. CASE \E t \in Tokens : ReleaseLease(j, t, at)
  BY <1>7 DEF ReleaseLease, HoldsLease
<1>8. CASE \E t \in Tokens : CancelJob(j, t, at)
  BY <1>8 DEF CancelJob, HoldsLease, Cancelled
<1>9. CASE \E t \in Tokens : DeleteUpload(<<j, t>>, at)
  BY <1>9 DEF DeleteUpload
<1>10. CASE CancelStaleJob(j, at)
  BY <1>10 DEF CancelStaleJob, Cancelled
<1>11. CASE \E s \in Terminal : DeleteJob(j, s, row[j].completedAt)
  BY <1>11 DEF DeleteJob
<1> QED BY <1>1, <1>2, <1>3, <1>4, <1>5, <1>6, <1>7, <1>8, <1>9, <1>10, <1>11
        DEF Operation

\* JobsInv holds initially and every step preserves it.
LEMMA JobsInvInit == JobsInit => JobsInv
BY DEF JobsInit, JobsInv, TypeOK, TokenDiscipline, UploadsAreFenced, RowType,
       Statuses, Absent

\* Every operation keeps the table in order.
LEMMA JobsInvNext == JobsInv /\ [JobsNext]_jobVars => JobsInv'
<1> SUFFICES ASSUME JobsInv, [JobsNext]_jobVars PROVE JobsInv'
  OBVIOUS
<1>1. CASE UNCHANGED jobVars
  BY <1>1 DEF jobVars, JobsInv, TypeOK, TokenDiscipline, UploadsAreFenced
<1>2. CASE Tick
  BY <1>2 DEF Tick, tableVars, JobsInv, TypeOK, TokenDiscipline,
              UploadsAreFenced
<1>3. ASSUME NEW j \in Jobs, NEW at \in Sampled, Operation(j, at), UNCHANGED now
      PROVE  JobsInv'
  <2>1. at \in Nat
    BY SampledInstant DEF JobsInv
  <2>2. TypeOK'
    BY <1>3, <2>1, OperationType DEF JobsInv
  <2>3. TokenDiscipline' /\ UploadsAreFenced'
    BY <1>3, <2>1, OperationTokens DEF JobsInv
  <2> QED BY <2>2, <2>3 DEF JobsInv
<1> QED BY <1>1, <1>2, <1>3 DEF JobsNext

\* The inductive invariant of the table.
THEOREM JobsInvariant == JobsSpec => []JobsInv
BY JobsInvInit, JobsInvNext, PTL DEF JobsSpec

\* Every column always holds a value of its kind.
THEOREM TypeCorrect == JobsSpec => []TypeOK
<1>1. JobsInv => TypeOK
  BY DEF JobsInv
<1> QED BY <1>1, JobsInvariant, PTL

\* Rows carry a token exactly where the schema's CHECK demands one, minted for
\* that row; so no operation can abort on the constraint.
THEOREM TokensDisciplined == JobsSpec => []TokenDiscipline
<1>1. JobsInv => TokenDiscipline
  BY DEF JobsInv
<1> QED BY <1>1, JobsInvariant, PTL

\* Response objects of two leases, or two jobs, never share a key.
THEOREM UploadsFenced == JobsSpec => []UploadsAreFenced
<1>1. JobsInv => UploadsAreFenced
  BY DEF JobsInv
<1> QED BY <1>1, JobsInvariant, PTL

\* No table operation touches two rows.
LEMMA OtherRowsKept ==
  ASSUME TypeOK, NEW j \in Jobs, NEW at \in Nat, Operation(j, at),
         NEW k \in Jobs, k # j
  PROVE  row'[k] = row[k]
BY DEF Operation, TypeOK, EnqueueJob, ClaimJob, ReserveUpload, RefuseUpload,
       CompleteJob, FailJob, Settled, ReleaseLease, CancelJob, Cancelled,
       DeleteUpload, CancelStaleJob, DeleteJob

\* A leased row changes hands only by ClaimJob, and only at an instant at or
\* after its expiry; sampled instants are never ahead of the clock.
LEMMA SeizureStep == JobsInv /\ [JobsNext]_jobVars => [SeizesOnlyExpired]_jobVars
<1> SUFFICES ASSUME JobsInv, JobsNext, NEW k \in Jobs,
                    row[k].status = "leased", row'[k].status = "leased",
                    row'[k].token # row[k].token
             PROVE  row[k].leaseUntil <= now
  BY DEF SeizesOnlyExpired
<1>0. TypeOK
  BY DEF JobsInv
<1>1. ASSUME NEW j \in Jobs, NEW at \in Sampled, Operation(j, at)
      PROVE  row[k].leaseUntil <= now
  <2>1. at \in Nat /\ at <= now /\ now \in Nat /\ row[k].leaseUntil \in Nat
    BY <1>0, SampledInstant DEF TypeOK, RowType
  <2>2. j = k
    BY <1>0, <1>1, <2>1, OtherRowsKept
  <2>3. CASE \E t \in Tokens : ClaimJob(k, t, at)
    BY <2>1, <2>3 DEF ClaimJob, Claimable
  <2>4. CASE ~ \E t \in Tokens : ClaimJob(k, t, at)
    <3>0. row \in [Jobs -> RowType] /\ Operation(k, at)
      BY <1>0, <1>1, <2>2 DEF TypeOK
    <3>1. CASE EnqueueJob(k, at)
      BY <3>1 DEF EnqueueJob
    <3>2. CASE \E t \in Tokens : ReserveUpload(k, t, at)
      BY <3>0, <3>2 DEF ReserveUpload, RowType
    <3>3. CASE \E t \in Tokens : RefuseUpload(k, t, at) \/ DeleteUpload(<<k, t>>, at)
      BY <3>3 DEF RefuseUpload, DeleteUpload
    <3>4. CASE \E t \in Tokens : CompleteJob(k, t, at) \/ FailJob(k, t, at)
      BY <3>0, <3>4 DEF CompleteJob, FailJob, Settled, RowType
    <3>5. CASE \E t \in Tokens : ReleaseLease(k, t, at)
      BY <3>0, <3>5 DEF ReleaseLease, RowType
    <3>6. CASE CancelStaleJob(k, at) \/ \E t \in Tokens : CancelJob(k, t, at)
      BY <3>0, <3>6 DEF CancelStaleJob, CancelJob, Cancelled, RowType
    <3>7. CASE \E s \in Terminal : DeleteJob(k, s, row[k].completedAt)
      BY <3>0, <3>7 DEF DeleteJob, Absent
    <3> QED BY <2>4, <3>0, <3>1, <3>2, <3>3, <3>4, <3>5, <3>6, <3>7
            DEF Operation
  <2> QED BY <2>1, <2>3, <2>4
<1> QED BY <1>1 DEF JobsNext, Tick, tableVars

\* Every operation on a terminal row is refused by its guard but deletion.
LEMMA VerdictStep == JobsInv /\ [JobsNext]_jobVars => [KeepsVerdicts]_jobVars
<1> SUFFICES ASSUME JobsInv, JobsNext, NEW k \in Jobs, row[k].status \in Terminal
             PROVE  row'[k] = row[k] \/ row'[k] = Absent
  BY DEF KeepsVerdicts
<1>0. TypeOK
  BY DEF JobsInv
<1>1. ASSUME NEW j \in Jobs, NEW at \in Sampled, Operation(j, at)
      PROVE  row'[k] = row[k] \/ row'[k] = Absent
  <2>1. at \in Nat
    BY <1>0, SampledInstant
  <2>2. CASE j # k
    BY <1>0, <1>1, <2>1, <2>2, OtherRowsKept
  <2>3. CASE j = k
    BY <1>0, <1>1, <2>3
       DEF TypeOK, RowType, Terminal, Operation, EnqueueJob, ClaimJob,
           Claimable, HoldsLease, ReserveUpload, RefuseUpload, CompleteJob,
           FailJob, ReleaseLease, CancelJob, DeleteUpload, CancelStaleJob,
           DeleteJob
  <2> QED BY <2>2, <2>3
<1> QED BY <1>1 DEF JobsNext, Tick, tableVars

\* A claim never takes a job from a runner whose lease is still good.
THEOREM LiveLeasesKept == JobsSpec => NoSeizureOfLiveLease
BY JobsInvariant, SeizureStep, PTL DEF JobsSpec, NoSeizureOfLiveLease

\* A completed, failed or cancelled row is never rewritten.
THEOREM VerdictsFinal == JobsSpec => TerminalIsFinal
BY JobsInvariant, VerdictStep, PTL DEF JobsSpec, TerminalIsFinal
-----------------------------------------------------------------------------
\* The refinement: PhaseOf is the phase that a row's status stands for.
PhaseOf(status) == CASE status = "absent" -> "absent"
                     [] status \in {"pending", "leased"} -> "open"
                     [] status \in {"completed", "failed"} -> "settled"
                     [] OTHER -> "withdrawn"
holderNow == [j \in Jobs |-> row[j].token]
verdictNow == [j \in Jobs |-> row[j].answer]
spentNow == {t \in Tokens : issued[t] # {}}

\* An operation on job j changes the exchange's state at j alone.
LEMMA MappedStep ==
  ASSUME TypeOK, NEW j \in Jobs, NEW at \in Nat, Operation(j, at)
  PROVE  /\ phase' = [phase EXCEPT ![j] = PhaseOf(row'[j].status)]
         /\ holderNow' = [holderNow EXCEPT ![j] = row'[j].token]
         /\ verdictNow' = [verdictNow EXCEPT ![j] = row'[j].answer]
         /\ phase[j] = PhaseOf(row[j].status)
         /\ holderNow[j] = row[j].token
         /\ verdictNow[j] = row[j].answer
<1>1. \A k \in Jobs \ {j} : row'[k] = row[k]
  BY OtherRowsKept
<1> QED BY <1>1 DEF phase, holderNow, verdictNow, PhaseOf

\* Every table operation is a step of the exchange or changes nothing there.
LEMMA ExchangeStep ==
  ASSUME JobsInv, NEW j \in Jobs, NEW at \in Nat, Operation(j, at)
  PROVE  Exchange!Next \/ UNCHANGED <<phase, holderNow, verdictNow, spentNow>>
<1>0. TypeOK /\ row \in [Jobs -> RowType]
  BY DEF JobsInv, TypeOK
<1>e. /\ phase' = [phase EXCEPT ![j] = PhaseOf(row'[j].status)]
      /\ holderNow' = [holderNow EXCEPT ![j] = row'[j].token]
      /\ verdictNow' = [verdictNow EXCEPT ![j] = row'[j].answer]
      /\ phase[j] = PhaseOf(row[j].status)
      /\ holderNow[j] = row[j].token
      /\ verdictNow[j] = row[j].answer
  BY <1>0, MappedStep
<1>s. /\ phase = [phase EXCEPT ![j] = phase[j]]
      /\ holderNow = [holderNow EXCEPT ![j] = holderNow[j]]
      /\ verdictNow = [verdictNow EXCEPT ![j] = verdictNow[j]]
  BY DEF phase, holderNow, verdictNow
<1>u. issued' = issued => spentNow' = spentNow
  BY DEF spentNow
<1>1. CASE EnqueueJob(j, at)
  <2>1. /\ row[j].status = "absent" /\ row[j].token = NoToken
        /\ row'[j].status = "pending" /\ row'[j].token = NoToken
        /\ row[j].answer = NoToken /\ row'[j].answer = NoToken
    BY <1>0, <1>1 DEF EnqueueJob, Absent, JobsInv, TokenDiscipline
  <2>2. phase[j] = "absent" /\ phase' = [phase EXCEPT ![j] = "open"]
    BY <1>e, <2>1 DEF PhaseOf
  <2>3. UNCHANGED <<holderNow, verdictNow, spentNow>>
    BY <1>e, <1>s, <1>u, <1>1, <2>1 DEF EnqueueJob
  <2>4. Exchange!Offer(j)
    BY <2>2, <2>3 DEF Exchange!Offer, holderNow, verdictNow, spentNow
  <2> QED BY <2>4 DEF Exchange!Next
<1>2. ASSUME NEW t \in Tokens, ClaimJob(j, t, at)
      PROVE  Exchange!Next
  <2>1. /\ row[j].status \in {"pending", "leased"}
        /\ row'[j].status = "leased" /\ row'[j].token = t
        /\ row'[j].answer = row[j].answer
    BY <1>0, <1>2 DEF ClaimJob, Claimable, RowType
  <2>2. t \notin spentNow /\ spentNow' = spentNow \cup {t}
    BY <1>0, <1>2 DEF ClaimJob, Unissued, spentNow, TypeOK
  <2>3. phase[j] = "open" /\ UNCHANGED <<phase, verdictNow>>
    BY <1>e, <1>s, <2>1 DEF PhaseOf
  <2>4. holderNow' = [holderNow EXCEPT ![j] = t]
    BY <1>e, <2>1
  <2>5. Exchange!HandOut(j, t)
    BY <2>2, <2>3, <2>4 DEF Exchange!HandOut, holderNow, verdictNow, spentNow
  <2> QED BY <2>5 DEF Exchange!Next
<1>3. CASE \E t \in Tokens : ReserveUpload(j, t, at)
  <2>1. /\ row'[j].status = row[j].status /\ row'[j].token = row[j].token
        /\ row'[j].answer = row[j].answer
    BY <1>0, <1>3 DEF ReserveUpload, RowType
  <2> QED BY <1>e, <1>s, <1>u, <1>3, <2>1 DEF ReserveUpload
<1>4. CASE \E t \in Tokens : RefuseUpload(j, t, at) \/ DeleteUpload(<<j, t>>, at)
  BY <1>e, <1>s, <1>u, <1>4 DEF RefuseUpload, DeleteUpload
<1>5. ASSUME NEW t \in Tokens, CompleteJob(j, t, at) \/ FailJob(j, t, at)
      PROVE  Exchange!Next
  <2>1. /\ row[j].status = "leased" /\ row[j].token = t
        /\ row'[j].status \in {"completed", "failed"}
        /\ row'[j].token = row[j].token /\ row'[j].answer = t
    BY <1>0, <1>5
       DEF CompleteJob, FailJob, HoldsLease, Settled, RowType
  <2>2. /\ phase[j] = "open" /\ holderNow[j] = t
        /\ phase' = [phase EXCEPT ![j] = "settled"]
        /\ verdictNow' = [verdictNow EXCEPT ![j] = t]
    BY <1>e, <2>1 DEF PhaseOf
  <2>3. UNCHANGED <<holderNow, spentNow>>
    BY <1>e, <1>s, <1>u, <1>5, <2>1 DEF CompleteJob, FailJob
  <2>4. Exchange!Settle(j, t)
    BY <2>2, <2>3 DEF Exchange!Settle, holderNow, verdictNow, spentNow
  <2> QED BY <2>4 DEF Exchange!Next
<1>6. ASSUME NEW t \in Tokens, ReleaseLease(j, t, at)
      PROVE  Exchange!Next
  <2>1. /\ row[j].status = "leased"
        /\ row'[j].status = "pending" /\ row'[j].token = NoToken
        /\ row'[j].answer = row[j].answer
    BY <1>0, <1>6 DEF ReleaseLease, HoldsLease, RowType
  <2>2. phase[j] = "open" /\ UNCHANGED <<phase, verdictNow>>
    BY <1>e, <1>s, <2>1 DEF PhaseOf
  <2>3. holderNow' = [holderNow EXCEPT ![j] = NoToken] /\ UNCHANGED spentNow
    BY <1>e, <1>u, <1>6, <2>1 DEF ReleaseLease
  <2>4. Exchange!Return(j)
    BY <2>2, <2>3 DEF Exchange!Return, holderNow, verdictNow, spentNow
  <2> QED BY <2>4 DEF Exchange!Next
<1>7. ASSUME CancelStaleJob(j, at) \/ \E t \in Tokens : CancelJob(j, t, at)
      PROVE  Exchange!Next
  <2>a. row[j].status \in {"pending", "leased"} /\ Cancelled(j, at)
    BY <1>7 DEF CancelStaleJob, CancelJob, HoldsLease
  <2>b. row[j] \in RowType
    BY <1>0
  <2>c. row'[j] = [row[j] EXCEPT !.status = "cancelled", !.token = NoToken,
                                 !.leaseUntil = 0, !.completedAt = at]
    BY <1>0, <2>a DEF Cancelled
  <2>1. /\ row[j].status \in {"pending", "leased"}
        /\ row'[j].status = "cancelled" /\ row'[j].token = NoToken
        /\ row'[j].answer = row[j].answer
    BY <2>a, <2>b, <2>c DEF RowType
  <2>2. /\ phase[j] = "open" /\ phase' = [phase EXCEPT ![j] = "withdrawn"]
        /\ UNCHANGED verdictNow
    BY <1>e, <1>s, <2>1 DEF PhaseOf
  <2>3. holderNow' = [holderNow EXCEPT ![j] = NoToken] /\ UNCHANGED spentNow
    BY <1>e, <1>u, <1>7, <2>1 DEF CancelStaleJob, CancelJob
  <2>4. Exchange!Withdraw(j)
    BY <2>2, <2>3 DEF Exchange!Withdraw, holderNow, verdictNow, spentNow
  <2> QED BY <2>4 DEF Exchange!Next
<1>8. ASSUME NEW s \in Terminal, DeleteJob(j, s, row[j].completedAt)
      PROVE  Exchange!Next
  <2>1. /\ row[j].status \in {"completed", "failed", "cancelled"}
        /\ row'[j].status = "absent" /\ row'[j].token = NoToken
        /\ row'[j].answer = NoToken
    BY <1>0, <1>8 DEF DeleteJob, Terminal, Absent
  <2>2. /\ phase[j] \in {"settled", "withdrawn"}
        /\ phase' = [phase EXCEPT ![j] = "absent"]
        /\ verdictNow' = [verdictNow EXCEPT ![j] = NoToken]
    BY <1>e, <2>1 DEF PhaseOf
  <2>3. holderNow' = [holderNow EXCEPT ![j] = NoToken] /\ UNCHANGED spentNow
    BY <1>e, <1>u, <1>8, <2>1 DEF DeleteJob
  <2>4. Exchange!Forget(j)
    BY <2>2, <2>3 DEF Exchange!Forget, holderNow, verdictNow, spentNow
  <2> QED BY <2>4 DEF Exchange!Next
<1> QED BY <1>1, <1>2, <1>3, <1>4, <1>5, <1>6, <1>7, <1>8 DEF Operation

\* The job table implements the exchange, for any jobs, tokens and lengths.
THEOREM Refinement == JobsSpec => ImplementsExchange
<1>1. JobsInit => Exchange!Init
  BY DEF JobsInit, Exchange!Init, phase, Absent
<1>2. JobsInv /\ [JobsNext]_jobVars => [Exchange!Next]_(Exchange!xvars)
  <2> SUFFICES ASSUME JobsInv, [JobsNext]_jobVars
               PROVE  Exchange!Next \/ UNCHANGED <<phase, holderNow, verdictNow, spentNow>>
    BY DEF Exchange!xvars, holderNow, verdictNow, spentNow
  <2>1. CASE UNCHANGED jobVars
    BY <2>1 DEF jobVars, phase, holderNow, verdictNow, spentNow
  <2>2. CASE Tick
    BY <2>2 DEF Tick, tableVars, phase, holderNow, verdictNow, spentNow
  <2>3. ASSUME NEW j \in Jobs, NEW at \in Sampled, Operation(j, at)
        PROVE  Exchange!Next \/ UNCHANGED <<phase, holderNow, verdictNow, spentNow>>
    BY <2>3, SampledInstant, ExchangeStep DEF JobsInv
  <2> QED BY <2>1, <2>2, <2>3 DEF JobsNext
<1> QED BY <1>1, <1>2, JobsInvariant, PTL
        DEF JobsSpec, ImplementsExchange, Exchange!Spec
=============================================================================
