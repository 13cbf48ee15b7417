------------------------ MODULE CryptoRotation_proofs ------------------------
(***************************************************************************)
(* What the runs of CryptoRotation show on two rows and two calls, proved  *)
(* for every number of rows, calls, writers and rotations and every length *)
(* of the leases.                                                          *)
(***************************************************************************)
EXTENDS CryptoRotation, FiniteSetTheorems, TLAPS

\* What the assumption says of each constant.
LEMMA Constants ==
  /\ Lease \in Nat \ {0} /\ Quiescence \in Nat \ {0} /\ WorkLease \in Nat \ {0}
  /\ BatchSize \in Nat \ {0} /\ MaxOps \in Nat \ {0} /\ NoCall \notin Calls
BY RotationAssumption

\* The values that records start from have their types.
LEMMA Beginnings ==
  /\ NoKey \in Keys /\ FirstKey \in Keys /\ NoRow \in RowType
  /\ NoOp \in OpType /\ Idle \in CallType /\ 1 \in Ops
<1>1. Lease \in Nat /\ Quiescence \in Nat /\ MaxOps \in Nat \ {0}
  BY Constants
<1>2. NoKey \in Keys /\ FirstKey \in Keys
  BY DEF NoKey, FirstKey, Key, Keys
<1>3. NoRow \in RowType
  BY <1>2 DEF NoRow, Row, RowType
<1>4. NoOp \in OpType
  BY <1>1, <1>2 DEF NoOp, OpType
<1>5. 1 \in Ops
  BY <1>1 DEF Ops
<1>6. Idle \in CallType
  BY <1>2, <1>4, <1>5 DEF Idle, CallType
<1> QED BY <1>1, <1>2, <1>3, <1>4, <1>5, <1>6

\* What a call has read is a finite set of rows: the checkpoint counts them.
RowsAreFinite == \A c \in Calls : IsFiniteSet(call[c].rows)

CallsType == call \in [Calls -> CallType]
OpsType == op \in [Ops -> OpType]

\* Ending a call or moving it on keeps the calls well typed.
LEMMA CallMoves ==
  ASSUME CallsType, NEW c \in Calls
  PROVE  /\ End(c) => CallsType'
         /\ \A p \in LaterSteps \cup {"acquire", "load", "work", "settle"} :
               Goto(c, p) => CallsType'
<1>1. End(c) => CallsType'
  BY Beginnings DEF End, CallsType
<1>2. ASSUME NEW p \in LaterSteps \cup {"acquire", "load", "work", "settle"}, Goto(c, p)
      PROVE  CallsType'
  <2>1. [call[c] EXCEPT !.pc = p] \in CallType
    BY DEF CallsType, CallType
  <2> QED BY <1>2, <2>1 DEF Goto, CallsType
<1> QED BY <1>1, <1>2

\* So does outdating the calls on an operation.
LEMMA OutdatedType ==
  ASSUME CallsType, NEW i \in Ops
  PROVE  Outdated(i) \in [Calls -> CallType]
BY DEF CallsType, CallType, Outdated

\* A committing call leaves a well-typed operation and well-typed calls.
LEMMA CommitType ==
  ASSUME CallsType, OpsType, NEW c \in Calls, NEW new \in OpType, Commit(c, new)
  PROVE  CallsType' /\ OpsType'
<1>1. call[c].op \in Ops
  BY DEF CallsType, CallType
<1>2. [new EXCEPT !.lease = NoCall, !.expires = 0] \in OpType
  <2>1. 0 \in 0 .. Lease /\ NoCall \in Calls \cup {NoCall}
    BY Constants
  <2> QED BY <2>1 DEF OpType
<1>3. OpsType'
  BY <1>1, <1>2 DEF Commit, OpsType
<1>4. CallsType'
  BY <1>1, Beginnings, OutdatedType DEF Commit, CallsType
<1> QED BY <1>3, <1>4

\* The operation a call works on, and what it has seen of it.
LEMMA CallReads ==
  ASSUME CallsType, OpsType, NEW c \in Calls
  PROVE  /\ call[c].op \in Ops /\ Mine(c) \in OpType
         /\ call[c].seen \in OpType /\ call[c].key \in Keys
         /\ call[c].rows \subseteq Rows \X RowType
BY DEF CallsType, OpsType, CallType, Mine

USE DEF CallsType, OpsType

\* No step leaves the types.
LEMMA TypeStep == TypeOK /\ RowsAreFinite /\ [Next]_vars => TypeOK'
<1> SUFFICES ASSUME TypeOK, RowsAreFinite, [Next]_vars PROVE TypeOK'
  OBVIOUS
<1>t. CallsType /\ OpsType
  BY DEF TypeOK
<1>1. ASSUME NEW i \in Ops, StartRotation(i) PROVE TypeOK'
  <2>1. [NoOp EXCEPT !.stage = "quiescing", !.original = status,
                     !.notBefore = Quiescence] \in OpType
    <3>1. status \in {"active", "frozen"} /\ NoOp \in OpType /\ Quiescence \in 0 .. Quiescence
      BY <1>1, Constants, Beginnings DEF StartRotation
    <3> QED BY <3>1 DEF OpType, Active
  <2> QED BY <1>1, <2>1 DEF StartRotation, TypeOK, dataVars, faultVars
<1>2. ASSUME NEW w \in Writers, LoadKey(w) PROVE TypeOK'
  BY <1>2 DEF LoadKey, TypeOK, accountVars, dataVars, faultVars
<1>3. ASSUME NEW w \in Writers, NEW r \in Rows, WriteRow(w, r) PROVE TypeOK'
  <2>1. NoWriter \in [pc : {"idle", "sealed"}, key : Keys]
    BY Beginnings DEF NoWriter
  <2>2. Row(writer[w].key, writes + 1) \in RowType
    BY DEF TypeOK, Row, RowType
  <2> QED BY <1>3, <2>1, <2>2 DEF WriteRow, TypeOK, accountVars, dataVars, faultVars
<1>4. ASSUME NEW r \in Rows, PurgeRow(r) PROVE TypeOK'
  BY <1>4, Beginnings DEF PurgeRow, TypeOK, accountVars, faultVars
<1>5. CASE ClaimWork
  BY <1>5, Constants DEF ClaimWork, TypeOK, accountVars, dataVars, faultVars
<1>6. CASE SealDeletion
  BY <1>6 DEF SealDeletion, TypeOK, dataVars, faultVars
<1>7. CASE ReserveDeletion
  <2>1. CASE fence = 0
    BY <1>7, <2>1 DEF ReserveDeletion, TypeOK, dataVars, faultVars
  <2>2. CASE fence # 0
    <3>1. fence \in Ops
      BY <2>2 DEF TypeOK
    <3>2. Abandoned(op[fence]) \in OpType
      <4>1. op[fence] \in OpType /\ NoKey \in Keys /\ 0 \in 0 .. Lease
        BY <3>1, <1>t, Constants, Beginnings
      <4> QED BY <4>1 DEF Abandoned, OpType
    <3>3. op' = [op EXCEPT ![fence] = Abandoned(op[fence])] /\ call' = Outdated(fence)
      BY <1>7, <2>2 DEF ReserveDeletion
    <3>4. op' \in [Ops -> OpType] /\ call' \in [Calls -> CallType]
      BY <1>t, <3>1, <3>2, <3>3, OutdatedType
    <3> QED BY <1>7, <3>4 DEF ReserveDeletion, TypeOK, dataVars, faultVars
  <2> QED BY <2>1, <2>2
<1>c. ASSUME NEW c \in Calls,
             (\E i \in Ops : BeginStep(c, i)) \/ OperatorStep(c) \/ Throw(c) \/ Die(c)
      PROVE  TypeOK'
  <2>0. /\ call[c].op \in Ops /\ Mine(c) \in OpType
        /\ call[c].seen \in OpType /\ call[c].key \in Keys
        /\ call[c].rows \subseteq Rows \X RowType
    BY <1>t, CallReads
  <2>e. End(c) => CallsType'
    BY <1>t, CallMoves
  <2>g. \A p \in LaterSteps \cup {"acquire", "load", "work", "settle"} :
           Goto(c, p) => CallsType'
    BY <1>t, CallMoves
  <2>k. \A new \in OpType : Commit(c, new) => CallsType' /\ OpsType'
    BY <1>t, CommitType
  <2>1. ASSUME NEW i \in Ops, BeginStep(c, i) PROVE TypeOK'
    <3>1. [Idle EXCEPT !.pc = "acquire", !.op = i, !.fresh = TRUE] \in CallType
      BY Beginnings DEF CallType
    <3> QED BY <2>1, <3>1 DEF BeginStep, TypeOK, accountVars, dataVars, faultVars
  <2>2. CASE AcquireLease(c)
    <3>1. OpsType'
      <4>1. CASE op' = op
        BY <4>1, <1>t
      <4>2. CASE op' = [op EXCEPT ![call[c].op].lease = c, ![call[c].op].expires = Lease]
        BY <4>2, <1>t, <2>0, Beginnings DEF OpType
      <4> QED BY <2>2, <4>1, <4>2 DEF AcquireLease
    <3>2. CallsType'
      BY <2>2, <2>e, <2>g DEF AcquireLease
    <3> QED BY <2>2, <3>1, <3>2 DEF AcquireLease, TypeOK, accountVars, dataVars, faultVars
  <2>3. CASE LoadOperation(c)
    <3>1. PICK p \in LaterSteps \cup {"work"} :
             call' = [call EXCEPT ![c].seen = Mine(c), ![c].fresh = TRUE, ![c].pc = p]
      BY <2>3 DEF LoadOperation, LaterSteps
    <3>2. CallsType'
      <4>1. [call[c] EXCEPT !.seen = Mine(c), !.fresh = TRUE, !.pc = p] \in CallType
        BY <1>t, <2>0, <3>1 DEF CallType
      <4> QED BY <1>t, <3>1, <4>1
    <3> QED BY <2>3, <3>2 DEF LoadOperation, TypeOK, accountVars, dataVars, faultVars
  <2>4. CASE CheckWork(c)
    BY <2>4, <2>g DEF CheckWork, LaterSteps, TypeOK, accountVars, dataVars, faultVars
  <2>5. CASE ReleaseLease(c)
    BY <2>5, <2>0, <2>e, <2>k DEF ReleaseLease, TypeOK, accountVars, dataVars, faultVars
  <2>6. CASE GenerateCandidate(c)
    <3>1. CASE End(c)
      BY <2>6, <2>e, <3>1 DEF GenerateCandidate, TypeOK, accountVars, dataVars, faultVars
    <3>2. CASE call' = [call EXCEPT ![c].key = live, ![c].pc = "persist"]
      <4>1. CallsType'
        <5>1. [call[c] EXCEPT !.key = live, !.pc = "persist"] \in CallType
          BY <1>t DEF CallType, LaterSteps, TypeOK
        <5> QED BY <1>t, <3>2, <5>1
      <4> QED BY <2>6, <4>1 DEF GenerateCandidate, TypeOK, accountVars, dataVars, faultVars
    <3> QED BY <2>6, <3>1, <3>2 DEF GenerateCandidate
  <2>7. CASE PersistCandidate(c)
    <3> DEFINE b == call[c].key.version
               new == [Mine(c) EXCEPT !.stage = "reencrypting", !.previous = b,
                                      !.candidate = Key(b + 1, call[c].op)]
    <3>1. b \in Nat /\ call[c].op \in Nat
      BY <2>0 DEF Keys, Ops
    <3>2. Key(b + 1, call[c].op) \in Keys
      BY <3>1 DEF Key, Keys
    <3>3. new \in OpType
      BY <2>0, <3>1, <3>2 DEF OpType, Active
    <3>4. Commit(c, new) \/ (op' = op /\ End(c))
      BY <2>7 DEF PersistCandidate
    <3>5. CallsType' /\ OpsType'
      BY <1>t, <2>e, <2>k, <3>3, <3>4
    <3> QED BY <2>7, <3>5 DEF PersistCandidate, TypeOK, accountVars, dataVars, faultVars
  <2>8. CASE SelectChunk(c)
    <3>1. CASE End(c)
      BY <2>8, <2>e, <3>1 DEF SelectChunk, TypeOK, accountVars, dataVars, faultVars
    <3>2. ASSUME NEW chunk \in SUBSET OldRows(c), NEW p \in {"close", "chunk"},
                 call' = [call EXCEPT ![c].rows = {<<r, row[r]>> : r \in chunk}, ![c].pc = p]
          PROVE  TypeOK'
      <4>1. {<<r, row[r]>> : r \in chunk} \in SUBSET (Rows \X RowType)
        BY DEF OldRows, TypeOK
      <4>2. CallsType'
        <5>1. [call[c] EXCEPT !.rows = {<<r, row[r]>> : r \in chunk}, !.pc = p] \in CallType
          BY <1>t, <4>1 DEF CallType, LaterSteps
        <5> QED BY <1>t, <3>2, <5>1
      <4> QED BY <2>8, <4>2 DEF SelectChunk, TypeOK, accountVars, dataVars, faultVars
    <3> QED BY <2>8, <3>1, <3>2 DEF SelectChunk
  <2>9. CASE CloseReencryption(c)
    <3>1. [Mine(c) EXCEPT !.stage = "finalizing"] \in OpType
      BY <2>0 DEF OpType, Active
    <3> QED BY <2>9, <1>t, <2>e, <2>k, <3>1
            DEF CloseReencryption, TypeOK, accountVars, dataVars, faultVars
  <2>10. CASE CommitChunk(c)
    <3> DEFINE n == Cardinality(call[c].rows)
               new == [Mine(c) EXCEPT !.stage = "reencrypting", !.count = @ + n]
    <3>1. CASE UNCHANGED <<row, op>> /\ End(c)
      BY <2>10, <1>t, <2>e, <3>1 DEF CommitChunk, TypeOK, accountVars, faultVars
    <3>2. CASE row' = [r \in Rows |-> Rekeyed(c, r)] /\ Commit(c, new)
      <4>1. \A r \in Rows : Rekeyed(c, r) \in RowType
        BY <2>0 DEF Rekeyed, Row, RowType, OpType, TypeOK
      <4>2. new \in OpType
        <5>1. n \in Nat
          BY FS_CardinalityType DEF RowsAreFinite
        <5>2. Mine(c).count + n \in Nat
          BY <2>0, <5>1 DEF OpType
        <5> QED BY <2>0, <5>2 DEF OpType, Active
      <4> QED BY <2>10, <2>k, <3>2, <4>1, <4>2 DEF CommitChunk, TypeOK, accountVars, faultVars
    <3> QED BY <2>10, <3>1, <3>2 DEF CommitChunk
  <2>11. CASE FinalizeRotation(c)
    <3>1. [Mine(c) EXCEPT !.stage = "verifying"] \in OpType
      BY <2>0 DEF OpType, Active
    <3>2. call[c].seen.candidate \in Keys
      BY <2>0 DEF OpType
    <3> QED BY <2>11, <1>t, <2>e, <2>k, <3>1, <3>2
            DEF FinalizeRotation, TypeOK, dataVars, faultVars
  <2>12. CASE VerifyRotation(c)
    <3>1. [Mine(c) EXCEPT !.stage = "succeeded", !.candidate = NoKey] \in OpType
      BY <2>0, Beginnings DEF OpType
    <3>2. Restored(Mine(c)) \in {"active", "frozen", "pending"}
      BY DEF Restored, TypeOK
    <3> QED BY <2>12, <1>t, <2>e, <2>k, <3>1, <3>2
            DEF VerifyRotation, TypeOK, dataVars, faultVars
  <2>13. CASE SettleFailure(c)
    <3>1. [Mine(c) EXCEPT !.stage = "blocked"] \in OpType
      BY <2>0 DEF OpType, Active
    <3>2. [Mine(c) EXCEPT !.stage = "failed", !.candidate = NoKey] \in OpType
      BY <2>0, Beginnings DEF OpType
    <3>3. Restored(Mine(c)) \in {"active", "frozen", "pending"}
      BY DEF Restored, TypeOK
    <3>4. CallsType' /\ OpsType'
      BY <2>13, <1>t, <2>e, <2>k, <3>1, <3>2 DEF SettleFailure
    <3>5. status' \in {"active", "frozen", "pending"} /\ fence' \in {0} \cup Ops
      BY <2>13, <3>3 DEF SettleFailure, TypeOK
    <3> QED BY <2>13, <3>4, <3>5 DEF SettleFailure, TypeOK, dataVars, faultVars
  <2>14. CASE Throw(c)
    BY <2>14, <1>t, <2>e, <2>g DEF Throw, TypeOK, accountVars, dataVars
  <2>15. CASE Die(c)
    BY <2>15, <1>t, <2>e DEF Die, TypeOK, accountVars, dataVars
  <2> QED BY <1>c, <2>1, <2>2, <2>3, <2>4, <2>5, <2>6, <2>7, <2>8, <2>9, <2>10,
             <2>11, <2>12, <2>13, <2>14, <2>15 DEF OperatorStep
<1>8. CASE Tick
  <2>1. \A n \in 0 .. Lease : Less(n) \in 0 .. Lease
    BY Constants DEF Less
  <2>2. \A n \in 0 .. Quiescence : Less(n) \in 0 .. Quiescence
    BY Constants DEF Less
  <2>3. \A n \in 0 .. WorkLease : Less(n) \in 0 .. WorkLease
    BY Constants DEF Less
  <2>4. ASSUME NEW i \in Ops
        PROVE  [op[i] EXCEPT !.expires = Less(@), !.notBefore = Less(@)] \in OpType
    BY <1>t, <2>1, <2>2 DEF OpType
  <2> QED BY <1>8, <2>3, <2>4 DEF Tick, TypeOK, accountVars, dataVars, faultVars
<1>9. CASE UNCHANGED vars
  BY <1>9 DEF TypeOK, vars, accountVars, dataVars, faultVars
<1> QED BY <1>1, <1>2, <1>3, <1>4, <1>5, <1>6, <1>7, <1>8, <1>9, <1>c DEF Next

-----------------------------------------------------------------------------
(* The invariant.  What the stage of a rotation says of the keys and of the *)
(* rows holds because a call that commits holds the lease and the revision, *)
(* and what such a call has seen of the operation is still what it is.      *)

Walking == {"reencrypting", "blocked"}

\* What the stage of an operation says of its keys and of its lease.
OpOK(i) ==
  /\ op[i].lease # NoCall => op[i].stage \in Active
  /\ op[i].stage = "quiescing" => op[i].count = 0
  /\ op[i].stage \in Walking \cup {"finalizing"} =>
        live.version = op[i].previous /\ op[i].candidate.version = op[i].previous + 1
  /\ op[i].stage = "verifying" =>
        /\ op[i].previous > 0 /\ live = op[i].candidate
        /\ live.version = op[i].previous + 1

Under(keys) == \A r \in Rows : row[r] # NoRow => row[r].key \in keys

\* What it says of the rows.
RowsOK ==
  /\ status # "pending" /\ fence = 0 => Under({live})
  /\ \A i \in Ops :
       /\ op[i].stage \in {"quiescing", "verifying"} => Under({live})
       /\ op[i].stage \in Walking => Under({live, op[i].candidate})
       /\ op[i].stage = "finalizing" => Under({op[i].candidate})

\* A key that was loaded before a rotation finalized has an older version.
WritersOK == \A w \in Writers :
  writer[w].pc = "sealed" => writer[w].key = live \/ writer[w].key.version < live.version

Same(o, p) == /\ o.stage = p.stage /\ o.previous = p.previous
              /\ o.candidate = p.candidate /\ o.count = p.count

Waiting == {"work", "settle", "release", "candidate", "persist"}
Chunking == {"select", "close", "chunk"}
Loaded == Waiting \cup Chunking \cup {"finalize", "verify"}

\* What a call has seen is so as long as its revision is the operation's.
CallOK(c) ==
  /\ IsFiniteSet(call[c].rows) /\ \A p \in call[c].rows : p[2] # NoRow
  /\ call[c].pc # "idle" => op[call[c].op].stage # "none"
  /\ call[c].pc \in Waiting => call[c].seen.stage = "quiescing"
  /\ call[c].pc \in Chunking => call[c].seen.stage \in Walking
  /\ call[c].pc = "finalize" => call[c].seen.stage = "finalizing"
  /\ call[c].pc \in Loaded /\ call[c].fresh => Same(call[c].seen, op[call[c].op])
  /\ call[c].pc \in {"work", "settle"} /\ op[call[c].op].lease = c =>
        op[call[c].op].stage = "quiescing"
  /\ call[c].pc = "close" /\ call[c].fresh =>
        \A r \in Rows : row[r] # NoRow => row[r].key.version # call[c].seen.previous

Inv == /\ TypeOK /\ FenceHasRotation /\ live.version > 0
       /\ \A i \in Ops : OpOK(i)
       /\ RowsOK /\ WritersOK
       /\ \A c \in Calls : CallOK(c)

\* A live account with no rotation satisfies the invariant.
LEMMA InvInit == Init => Inv
<1> SUFFICES ASSUME Init PROVE Inv
  OBVIOUS
<1>1. TypeOK
  <2>1. NoWriter \in [pc : {"idle", "sealed"}, key : Keys]
    BY Beginnings DEF NoWriter
  <2>2. \A r \in Rows : row[r] \in {NoRow, Row(FirstKey, 0)}
    BY DEF Init
  <2>3. Row(FirstKey, 0) \in RowType
    BY Beginnings DEF Row, RowType
  <2>4. 0 \in 0 .. WorkLease
    BY Constants
  <2>5. row \in [Rows -> RowType]
    BY <2>3, Beginnings DEF Init
  <2> QED BY <2>1, <2>4, <2>5, Beginnings DEF Init, TypeOK
<1>2. /\ \A i \in Ops : op[i] = NoOp
      /\ \A c \in Calls : call[c] = Idle
      /\ \A w \in Writers : writer[w] = NoWriter
      /\ \A r \in Rows : row[r] \in {NoRow, Row(FirstKey, 0)}
      /\ live = FirstKey /\ fence = 0
  BY DEF Init
<1>3. FenceHasRotation /\ live.version > 0
  BY <1>2 DEF FenceHasRotation, NoOp, Active, FirstKey, Key
<1>4. \A i \in Ops : OpOK(i)
  BY <1>2 DEF OpOK, NoOp, Active, Walking
<1>5. RowsOK
  BY <1>2 DEF RowsOK, Under, Row, NoOp, Walking
<1>6. WritersOK
  BY <1>2 DEF WritersOK, NoWriter
<1>7. \A c \in Calls : CallOK(c)
  BY <1>2, FS_EmptySet DEF CallOK, Idle, Waiting, Chunking, Loaded
<1> QED BY <1>1, <1>3, <1>4, <1>5, <1>6, <1>7 DEF Inv

\* The operation of a commit is as the call leaves it, and the others stand.
LEMMA CommitEffect ==
  ASSUME CallsType, OpsType, NEW c \in Calls, NEW new \in OpType, Commit(c, new)
  PROVE  /\ call'[c] = Idle
         /\ \A d \in Calls \ {c} : call'[d] \in {call[d], [call[d] EXCEPT !.fresh = FALSE]}
         /\ \A d \in Calls \ {c} : call[d].op = call[c].op => ~call'[d].fresh
         /\ op'[call[c].op] = [new EXCEPT !.lease = NoCall, !.expires = 0]
         /\ \A i \in Ops \ {call[c].op} : op'[i] = op[i]
BY CallReads DEF Commit, Outdated, CallType

\* What a step may do to a call that does not take it.
Undisturbed(d) ==
  LET i == call[d].op IN
  /\ call'[d] \in {call[d], [call[d] EXCEPT !.fresh = FALSE]}
  /\ call[d].pc # "idle" /\ op[i].stage # "none" =>
       /\ op'[i].stage # "none"
       /\ call'[d].fresh => Same(op'[i], op[i])
       /\ op'[i].lease = d => op[i].lease = d /\ op'[i].stage = op[i].stage
       /\ call[d].pc = "close" /\ call'[d].fresh /\ op[i].stage \in Walking =>
             \A r \in Rows : row'[r] \in {row[r], NoRow}

\* A call keeps what it has seen when it is undisturbed, or when it ends.
LEMMA CallKept ==
  ASSUME TypeOK, NEW d \in Calls, CallOK(d), Undisturbed(d) \/ call'[d] = Idle
  PROVE  CallOK(d)'
<1>1. CASE call'[d] = Idle
  BY <1>1, FS_EmptySet DEF CallOK, Idle, Waiting, Chunking, Loaded
<1>2. CASE Undisturbed(d) /\ call'[d] = call[d]
  <2>1. call[d].pc = "close" /\ call[d].fresh => op[call[d].op].stage \in Walking
    BY DEF CallOK, Chunking, Loaded, Same
  <2>2. call[d].pc \in Loaded \cup Waiting \cup Chunking \cup {"finalize"} => call[d].pc # "idle"
    BY DEF Loaded, Waiting, Chunking
  <2> QED BY <1>2, <2>1, <2>2 DEF CallOK, Same, Undisturbed
<1>3. CASE Undisturbed(d) /\ call'[d] = [call[d] EXCEPT !.fresh = FALSE]
  <2>1. /\ ~call'[d].fresh /\ call'[d].pc = call[d].pc /\ call'[d].op = call[d].op
        /\ call'[d].seen = call[d].seen /\ call'[d].rows = call[d].rows
    BY <1>3 DEF TypeOK, CallType
  <2> QED BY <1>3, <2>1 DEF CallOK, Undisturbed
<1> QED BY <1>1, <1>2, <1>3 DEF Undisturbed

\* A step that touches no stage, no key and no row keeps what they say.
LEMMA QuietStep ==
  ASSUME Inv, UNCHANGED <<status, fence, live, row>>,
         \A i \in Ops : Same(op'[i], op[i]),
         \A i \in Ops : op'[i].lease # NoCall => op[i].stage \in Active
  PROVE  /\ FenceHasRotation' /\ live'.version > 0
         /\ \A i \in Ops : OpOK(i)'
         /\ RowsOK'
<1>1. \A i \in Ops : OpOK(i)'
  BY DEF Inv, OpOK, Same
<1>2. RowsOK'
  BY DEF Inv, RowsOK, Under, Same
<1>3. FenceHasRotation'
  BY DEF Inv, FenceHasRotation, Same, TypeOK
<1> QED BY <1>1, <1>2, <1>3 DEF Inv

\* What a commit leaves of the operation, field by field.
LEMMA CommitFields ==
  ASSUME CallsType, OpsType, NEW c \in Calls, NEW new \in OpType, Commit(c, new)
  PROVE  LET i == call[c].op IN
         /\ i \in Ops /\ Same(op'[i], new) /\ op'[i].lease = NoCall
         /\ \A j \in Ops \ {i} : op'[j] = op[j]
<1>1. op'[call[c].op] = [new EXCEPT !.lease = NoCall, !.expires = 0]
  BY CommitEffect
<1>2. op'[call[c].op].lease = NoCall
  BY <1>1 DEF OpType
<1>3. Same(op'[call[c].op], new)
  BY <1>1 DEF OpType, Same
<1> QED BY <1>2, <1>3, CommitEffect, CallReads

\* The steps of the account and of its writers keep what the stages say.
LEMMA StageAccountStep ==
  ASSUME Inv,
         \/ \E i \in Ops : StartRotation(i)
         \/ \E w \in Writers : LoadKey(w) \/ \E r \in Rows : WriteRow(w, r)
         \/ \E r \in Rows : PurgeRow(r)
         \/ ClaimWork \/ SealDeletion \/ ReserveDeletion \/ Tick
  PROVE  /\ FenceHasRotation' /\ live'.version > 0
         /\ \A i \in Ops : OpOK(i)'
         /\ RowsOK'
<1> DEFINE Goal == /\ FenceHasRotation' /\ live'.version > 0
                   /\ \A i \in Ops : OpOK(i)'
                   /\ RowsOK'
<1>0. /\ TypeOK /\ CallsType /\ OpsType /\ FenceHasRotation /\ live.version > 0 /\ RowsOK
      /\ \A i \in Ops : OpOK(i)
      /\ \A i \in Ops : i # 0 /\ (op[i].lease # NoCall => op[i].stage \in Active)
  BY DEF Inv, TypeOK, OpOK, Ops
<1>1. ASSUME NEW i \in Ops, StartRotation(i) PROVE Goal
  <2>1. /\ op'[i].stage = "quiescing" /\ op'[i].count = 0 /\ op'[i].lease = NoCall
        /\ \A j \in Ops \ {i} : op'[j] = op[j] /\ op'[j].stage \notin Active
        /\ status' = "frozen" /\ fence' = i /\ fence = 0 /\ status # "pending"
        /\ live' = live /\ row' = row
    BY <1>0, <1>1 DEF StartRotation, NoOp, dataVars
  <2>2. FenceHasRotation'
    BY <1>0, <2>1 DEF FenceHasRotation, Active
  <2>3. \A j \in Ops : OpOK(j)'
    BY <1>0, <2>1 DEF OpOK, Active, Walking
  <2>4. RowsOK'
    BY <1>0, <2>1 DEF RowsOK, Under, Active, Walking
  <2> QED BY <1>0, <2>1, <2>2, <2>3, <2>4
<1>2. ASSUME NEW w \in Writers, LoadKey(w) PROVE Goal
  BY <1>0, <1>2, QuietStep DEF LoadKey, accountVars, dataVars, Same
<1>3. ASSUME NEW w \in Writers, NEW r \in Rows, WriteRow(w, r) PROVE Goal
  <2>1. UNCHANGED <<status, fence, live, op>>
    BY <1>3 DEF WriteRow, accountVars
  <2>2. CASE row' = row
    BY <1>0, <2>1, <2>2, QuietStep DEF Same
  <2>3. CASE FenceAdmits(writer[w].key) /\ row' = [row EXCEPT ![r] = Row(writer[w].key, writes + 1)]
    <3>1. writer[w].key = live
      BY <1>3, <2>3 DEF FenceAdmits, Inv, WritersOK, WriteRow, TypeOK, Keys
    <3>2. \A q \in Rows : row'[q] = row[q] \/ row'[q].key = live
      BY <1>0, <2>3, <3>1 DEF TypeOK, Row
    <3>3. \A i \in Ops : op[i].stage \notin Active
      BY <1>0, <2>3 DEF FenceAdmits, FenceHasRotation
    <3>4. RowsOK'
      BY <1>0, <2>1, <2>3, <3>2, <3>3 DEF RowsOK, Under, Active, Walking, FenceAdmits
    <3>5. FenceHasRotation' /\ live'.version > 0 /\ \A i \in Ops : OpOK(i)'
      BY <1>0, <2>1 DEF FenceHasRotation, OpOK
    <3> QED BY <3>4, <3>5
  <2> QED BY <1>3, <2>2, <2>3 DEF WriteRow, dataVars
<1>4. ASSUME NEW r \in Rows, PurgeRow(r) PROVE Goal
  <2>1. UNCHANGED <<status, fence, live, op>> /\ \A q \in Rows : row'[q] \in {row[q], NoRow}
    BY <1>0, <1>4 DEF PurgeRow, accountVars, TypeOK
  <2>2. RowsOK'
    BY <1>0, <2>1 DEF RowsOK, Under
  <2>3. FenceHasRotation' /\ live'.version > 0 /\ \A i \in Ops : OpOK(i)'
    BY <1>0, <2>1 DEF FenceHasRotation, OpOK
  <2> QED BY <2>2, <2>3
<1>5. CASE ClaimWork
  BY <1>0, <1>5, QuietStep DEF ClaimWork, accountVars, dataVars, Same
<1>6. CASE SealDeletion
  BY <1>0, <1>6, QuietStep DEF SealDeletion, dataVars, Same
<1>7. CASE ReserveDeletion
  <2>1. /\ status' = "pending" /\ fence' = 0 /\ live' = live /\ row' = row
        /\ \A i \in Ops : \/ op'[i] = op[i] /\ op[i].stage \notin Active
                          \/ op'[i].stage = "abandoned" /\ op'[i].lease = NoCall
    <3>1. CASE fence = 0
      BY <1>0, <1>7, <3>1 DEF ReserveDeletion, dataVars, FenceHasRotation
    <3>2. CASE fence # 0
      <4>1. op' = [op EXCEPT ![fence] = Abandoned(op[fence])] /\ fence \in Ops
        BY <1>0, <1>7, <3>2 DEF ReserveDeletion, TypeOK
      <4>2. op'[fence].stage = "abandoned" /\ op'[fence].lease = NoCall
        BY <1>0, <4>1 DEF Abandoned, OpType
      <4>3. \A i \in Ops \ {fence} : op'[i] = op[i] /\ op[i].stage \notin Active
        BY <1>0, <4>1 DEF FenceHasRotation
      <4> QED BY <1>7, <4>2, <4>3 DEF ReserveDeletion, dataVars
    <3> QED BY <3>1, <3>2
  <2>2. FenceHasRotation'
    BY <2>1 DEF FenceHasRotation, Active
  <2>3. \A i \in Ops : OpOK(i)'
    BY <1>0, <2>1 DEF OpOK, Active, Walking
  <2>4. RowsOK'
    BY <1>0, <2>1 DEF RowsOK, Active, Walking
  <2> QED BY <1>0, <2>1, <2>2, <2>3, <2>4
<1>8. CASE Tick
  <2>1. UNCHANGED <<status, fence, live, row>>
    BY <1>8 DEF Tick, accountVars, dataVars
  <2>2. \A i \in Ops : Same(op'[i], op[i]) /\ op'[i].lease = op[i].lease
    BY <1>0, <1>8 DEF Tick, Same, OpType
  <2> QED BY <1>0, <2>1, <2>2, QuietStep
<1> QED BY <1>1, <1>2, <1>3, <1>4, <1>5, <1>6, <1>7, <1>8

\* Of the steps of a call, those that write no stage.
QuietCall(c) ==
  \/ \E i \in Ops : BeginStep(c, i)
  \/ AcquireLease(c) \/ LoadOperation(c) \/ CheckWork(c) \/ ReleaseLease(c)
  \/ GenerateCandidate(c) \/ SelectChunk(c) \/ Throw(c) \/ Die(c)

\* They leave the stages, the key and the rows alone.
LEMMA StageQuietStep ==
  ASSUME Inv, NEW c \in Calls, QuietCall(c)
  PROVE  /\ UNCHANGED <<status, fence, live, row, writer>>
         /\ \A i \in Ops : Same(op'[i], op[i])
         /\ \A i \in Ops : op'[i].lease # NoCall => op[i].stage \in Active
<1>0. /\ TypeOK /\ CallsType /\ OpsType
      /\ \A i \in Ops : op[i].lease # NoCall => op[i].stage \in Active
      /\ call[c].op \in Ops /\ Mine(c) \in OpType
  BY CallReads DEF Inv, TypeOK, OpOK
<1>1. UNCHANGED <<status, fence, live, row, writer>>
  BY DEF QuietCall, BeginStep, AcquireLease, LoadOperation, CheckWork, ReleaseLease,
         GenerateCandidate, SelectChunk, Throw, Die, accountVars, dataVars
<1>2. CASE op' = op
  BY <1>0, <1>1, <1>2 DEF Same
<1>3. CASE AcquireLease(c)
  <2>1. CASE op' = op
    BY <1>2, <2>1
  <2>2. CASE /\ op' = [op EXCEPT ![call[c].op].lease = c, ![call[c].op].expires = Lease]
             /\ Mine(c).stage \in Active
    <3>1. \A i \in Ops : Same(op'[i], op[i])
      BY <1>0, <2>2 DEF Same, OpType
    <3>2. \A i \in Ops : op'[i].lease # op[i].lease => i = call[c].op
      BY <1>0, <2>2
    <3> QED BY <1>0, <1>1, <2>2, <3>1, <3>2 DEF Mine
  <2> QED BY <1>3, <2>1, <2>2 DEF AcquireLease
<1>4. CASE ReleaseLease(c) /\ op' # op
  <2>1. Commit(c, Mine(c))
    BY <1>4 DEF ReleaseLease
  <2> QED BY <1>0, <1>1, <2>1, CommitFields DEF Mine, Same
<1>5. ReleaseLease(c) \/ AcquireLease(c) \/ op' = op
  BY DEF QuietCall, BeginStep, LoadOperation, CheckWork,
         GenerateCandidate, SelectChunk, Throw, Die
<1> QED BY <1>2, <1>3, <1>4, <1>5

LoudCall(c) == \/ PersistCandidate(c) \/ CloseReencryption(c) \/ CommitChunk(c)
               \/ FinalizeRotation(c) \/ VerifyRotation(c) \/ SettleFailure(c)

\* A call that commits a stage works on the rotation that fences the account.
LEMMA CommitterHolds ==
  ASSUME Inv, NEW c \in Calls, Mine(c).lease = c
  PROVE  /\ call[c].op \in Ops /\ Mine(c).stage \in Active
         /\ fence = call[c].op /\ fence # 0 /\ status = "frozen"
         /\ \A j \in Ops \ {call[c].op} : op[j].stage \notin Active /\ op[j].lease = NoCall
<1>1. call[c].op \in Ops /\ c # NoCall
  BY CallReads, Constants DEF Inv, TypeOK
<1>2. \A i \in Ops : i # 0 /\ (op[i].lease # NoCall => op[i].stage \in Active)
  BY DEF Inv, OpOK, Ops
<1> QED BY <1>1, <1>2 DEF Mine, Inv, FenceHasRotation

\* A call that writes a stage keeps what the stages promise.
LEMMA StageLoudStep ==
  ASSUME Inv, NEW c \in Calls, LoudCall(c)
  PROVE  /\ FenceHasRotation' /\ live'.version > 0
         /\ \A i \in Ops : OpOK(i)'
         /\ RowsOK'
<1> DEFINE i == call[c].op
           Goal == /\ FenceHasRotation' /\ live'.version > 0
                   /\ \A j \in Ops : OpOK(j)'
                   /\ RowsOK'
<1>0. /\ TypeOK /\ CallsType /\ OpsType /\ FenceHasRotation /\ live.version > 0 /\ RowsOK
      /\ live \in Keys /\ \A j \in Ops : OpOK(j)
      /\ CallOK(c) /\ i \in Ops /\ Mine(c) \in OpType /\ Mine(c) = op[i]
      /\ call[c].seen \in OpType /\ call[c].key \in Keys
  BY CallReads DEF Inv, TypeOK, Mine
<1> HIDE DEF i
<1>e. ASSUME UNCHANGED <<status, fence, live, row, op>> PROVE Goal
  BY <1>0, <1>e, QuietStep DEF Same, OpOK
<1>h. Mine(c).lease = c =>
        /\ Mine(c).stage \in Active /\ fence = i /\ fence # 0 /\ status = "frozen"
        /\ \A j \in Ops \ {i} : op[j].stage \notin Active /\ op[j].lease = NoCall
  BY CommitterHolds DEF Inv, i
<1>k. ASSUME NEW new \in OpType, Commit(c, new)
      PROVE  /\ Same(op'[i], new) /\ op'[i].lease = NoCall
             /\ \A j \in Ops \ {i} : op'[j] = op[j]
  BY <1>0, <1>k, CommitFields DEF i
<1>1. CASE PersistCandidate(c)
  <2> DEFINE b == call[c].key.version
             new == [Mine(c) EXCEPT !.stage = "reencrypting", !.previous = b,
                                    !.candidate = Key(b + 1, i)]
  <2>1. CASE op' = op
    BY <1>1, <1>e, <2>1 DEF PersistCandidate, accountVars, dataVars
  <2>2. CASE /\ Holds(c) /\ Mine(c).stage = "quiescing" /\ live.version = b
             /\ Commit(c, new)
    <3>1. b \in Nat /\ i \in Nat
      BY <1>0 DEF Keys, Ops
    <3>2. Key(b + 1, i) \in Keys /\ Key(b + 1, i).version = b + 1
      BY <3>1 DEF Key, Keys
    <3>3. /\ new \in OpType /\ new.stage = "reencrypting" /\ new.previous = b
          /\ new.candidate.version = b + 1
      BY <1>0, <3>1, <3>2 DEF OpType, Active
    <3>4. UNCHANGED <<status, fence, live, row>>
      BY <1>1 DEF PersistCandidate, accountVars, dataVars
    <3>5. /\ op'[i].stage = "reencrypting" /\ op'[i].previous = live.version
          /\ op'[i].candidate.version = live.version + 1 /\ op'[i].lease = NoCall
          /\ \A j \in Ops \ {i} : op'[j] = op[j] /\ op[j].stage \notin Active
                                  /\ op[j].lease = NoCall
          /\ fence = i /\ status = "frozen" /\ fence # 0
      BY <1>h, <1>k, <2>2, <3>3 DEF Same, Holds
    <3>6. \A j \in Ops : OpOK(j)'
      BY <1>0, <3>4, <3>5 DEF OpOK, Active, Walking
    <3>7. RowsOK'
      BY <1>0, <2>2, <3>4, <3>5 DEF RowsOK, Under, Active, Walking
    <3>8. FenceHasRotation'
      BY <1>0, <3>4, <3>5 DEF FenceHasRotation, Active
    <3> QED BY <1>0, <3>4, <3>6, <3>7, <3>8
  <2> QED BY <1>1, <2>1, <2>2 DEF PersistCandidate, i
<1>2. CASE CloseReencryption(c)
  <2> DEFINE new == [Mine(c) EXCEPT !.stage = "finalizing"]
  <2>1. CASE op' = op
    BY <1>2, <1>e, <2>1 DEF CloseReencryption, accountVars, dataVars
  <2>2. CASE Reencrypting(c) /\ Commit(c, new)
    <3>1. /\ new \in OpType /\ new.stage = "finalizing" /\ new.previous = op[i].previous
          /\ new.candidate = op[i].candidate
      BY <1>0 DEF OpType, Active
    <3>2. UNCHANGED <<status, fence, live, row>>
      BY <1>2 DEF CloseReencryption, accountVars, dataVars
    <3>3. /\ op'[i].stage = "finalizing" /\ op'[i].previous = op[i].previous
          /\ op'[i].candidate = op[i].candidate /\ op'[i].lease = NoCall
          /\ \A j \in Ops \ {i} : op'[j] = op[j] /\ op[j].stage \notin Active
                                  /\ op[j].lease = NoCall
          /\ fence = i /\ status = "frozen" /\ fence # 0
          /\ op[i].stage \in Walking
      BY <1>0, <1>h, <1>k, <2>2, <3>1 DEF Same, Reencrypting, Holds, Walking
    <3>4. /\ live.version = op[i].previous
          /\ \A r \in Rows : row[r] # NoRow => row[r].key.version # op[i].previous
      BY <1>0, <1>2, <2>2, <3>3
         DEF CallOK, Reencrypting, Holds, CloseReencryption, At, Loaded, Chunking, Same, OpOK, i
    <3>5. Under({op[i].candidate})
      BY <1>0, <3>3, <3>4 DEF RowsOK, Under
    <3>6. \A j \in Ops : OpOK(j)'
      BY <1>0, <3>2, <3>3 DEF OpOK, Active, Walking
    <3>7. RowsOK'
      BY <1>0, <3>2, <3>3, <3>5 DEF RowsOK, Under, Active, Walking
    <3>8. FenceHasRotation'
      BY <1>0, <3>2, <3>3 DEF FenceHasRotation, Active
    <3> QED BY <1>0, <3>2, <3>6, <3>7, <3>8
  <2> QED BY <1>2, <2>1, <2>2 DEF CloseReencryption
<1>3. CASE CommitChunk(c)
  <2> DEFINE new == [Mine(c) EXCEPT !.stage = "reencrypting",
                                    !.count = @ + Cardinality(call[c].rows)]
  <2>1. CASE op' = op /\ row' = row
    BY <1>3, <1>e, <2>1 DEF CommitChunk, accountVars
  <2>2. CASE /\ Reencrypting(c) /\ row' = [r \in Rows |-> Rekeyed(c, r)]
             /\ Commit(c, new)
    <3>1. /\ new \in OpType /\ new.stage = "reencrypting" /\ new.previous = op[i].previous
          /\ new.candidate = op[i].candidate
      <4>1. Mine(c).count + Cardinality(call[c].rows) \in Nat
        BY <1>0, FS_CardinalityType DEF CallOK, OpType
      <4> QED BY <1>0, <4>1 DEF OpType, Active
    <3>2. UNCHANGED <<status, fence, live>>
      BY <1>3 DEF CommitChunk, accountVars
    <3>3. /\ op'[i].stage = "reencrypting" /\ op'[i].previous = op[i].previous
          /\ op'[i].candidate = op[i].candidate /\ op'[i].lease = NoCall
          /\ \A j \in Ops \ {i} : op'[j] = op[j] /\ op[j].stage \notin Active
                                  /\ op[j].lease = NoCall
          /\ fence = i /\ status = "frozen" /\ fence # 0
          /\ op[i].stage \in Walking
      BY <1>0, <1>h, <1>k, <2>2, <3>1 DEF Same, Reencrypting, Holds, Walking
    <3>4. call[c].seen.candidate = op[i].candidate
      BY <1>0, <1>3, <2>2
         DEF CallOK, Reencrypting, Holds, CommitChunk, At, Loaded, Chunking, Same, i
    <3>5. \A r \in Rows : \/ row'[r] = row[r]
                          \/ row'[r].key = op[i].candidate
      BY <1>0, <2>2, <3>4 DEF Rekeyed, Row, TypeOK
    <3>6. \A j \in Ops : OpOK(j)'
      BY <1>0, <3>2, <3>3 DEF OpOK, Active, Walking
    <3>7. RowsOK'
      BY <1>0, <3>2, <3>3, <3>5 DEF RowsOK, Under, Active, Walking
    <3>8. FenceHasRotation'
      BY <1>0, <3>2, <3>3 DEF FenceHasRotation, Active
    <3> QED BY <1>0, <3>2, <3>6, <3>7, <3>8
  <2> QED BY <1>3, <2>1, <2>2 DEF CommitChunk
<1>4. CASE FinalizeRotation(c)
  <2> DEFINE new == [Mine(c) EXCEPT !.stage = "verifying"]
  <2>1. CASE op' = op /\ live' = live
    BY <1>4, <1>e, <2>1 DEF FinalizeRotation, dataVars
  <2>2. CASE /\ Holds(c) /\ Mine(c).stage = "finalizing"
             /\ live' = call[c].seen.candidate /\ Commit(c, new)
    <3>1. /\ new \in OpType /\ new.stage = "verifying" /\ new.previous = op[i].previous
          /\ new.candidate = op[i].candidate
      BY <1>0 DEF OpType, Active
    <3>2. UNCHANGED <<status, fence, row>>
      BY <1>4 DEF FinalizeRotation, dataVars
    <3>3. /\ op'[i].stage = "verifying" /\ op'[i].previous = op[i].previous
          /\ op'[i].candidate = op[i].candidate /\ op'[i].lease = NoCall
          /\ \A j \in Ops \ {i} : op'[j] = op[j] /\ op[j].stage \notin Active
                                  /\ op[j].lease = NoCall
          /\ fence = i /\ status = "frozen" /\ fence # 0
          /\ op[i].stage = "finalizing"
      BY <1>0, <1>h, <1>k, <2>2, <3>1 DEF Same, Holds
    <3>4. live' = op[i].candidate
      BY <1>0, <1>4, <2>2 DEF CallOK, Holds, FinalizeRotation, At, Loaded, Same, i
    <3>5. /\ live.version = op[i].previous /\ live'.version = op[i].previous + 1
          /\ op[i].previous \in Nat /\ op[i].previous > 0 /\ Under({op[i].candidate})
      BY <1>0, <3>3, <3>4 DEF OpOK, RowsOK, OpType
    <3>6. \A j \in Ops : OpOK(j)'
      BY <1>0, <3>3, <3>4, <3>5 DEF OpOK, Active, Walking
    <3>7. RowsOK'
      BY <1>0, <3>2, <3>3, <3>4, <3>5 DEF RowsOK, Under, Active, Walking
    <3>8. FenceHasRotation'
      BY <1>0, <3>2, <3>3 DEF FenceHasRotation, Active
    <3> QED BY <3>5, <3>6, <3>7, <3>8
  <2> QED BY <1>4, <2>1, <2>2 DEF FinalizeRotation
<1>5. CASE VerifyRotation(c)
  <2> DEFINE new == [Mine(c) EXCEPT !.stage = "succeeded", !.candidate = NoKey]
  <2>1. CASE UNCHANGED <<op, fence, status>>
    BY <1>5, <1>e, <2>1 DEF VerifyRotation, dataVars
  <2>2. CASE /\ Holds(c) /\ Mine(c).stage = "verifying"
             /\ Commit(c, new) /\ fence' = 0
    <3>1. new \in OpType /\ new.stage = "succeeded"
      BY <1>0, Beginnings DEF OpType
    <3>2. live' = live /\ row' = row
      BY <1>5 DEF VerifyRotation, dataVars
    <3>3. /\ op'[i].stage = "succeeded" /\ op'[i].lease = NoCall
          /\ \A j \in Ops \ {i} : op'[j] = op[j] /\ op[j].stage \notin Active
                                  /\ op[j].lease = NoCall
          /\ op[i].stage = "verifying"
      BY <1>0, <1>h, <1>k, <2>2, <3>1 DEF Same, Holds
    <3>6. \A j \in Ops : OpOK(j)'
      BY <1>0, <3>2, <3>3 DEF OpOK, Active, Walking
    <3>7. RowsOK'
      BY <1>0, <3>2, <3>3 DEF RowsOK, Under, Active, Walking
    <3>8. FenceHasRotation'
      BY <1>0, <2>2, <3>3 DEF FenceHasRotation, Active
    <3> QED BY <1>0, <3>2, <3>6, <3>7, <3>8
  <2> QED BY <1>5, <2>1, <2>2 DEF VerifyRotation
<1>6. CASE SettleFailure(c)
  <2> DEFINE new == [Mine(c) EXCEPT !.stage = "failed", !.candidate = NoKey]
  <2>1. CASE UNCHANGED <<op, fence, status>>
    BY <1>6, <1>e, <2>1 DEF SettleFailure, dataVars
  <2>2. CASE Mine(c).lease = c
    <3>1. op[i].stage = "quiescing" /\ Mine(c).count = 0
      BY <1>0, <1>6, <2>2 DEF CallOK, OpOK, SettleFailure, At, i
    <3>2. Commit(c, new) /\ live' = live /\ row' = row /\ fence' = 0
      BY <1>6, <1>h, <2>2, <3>1 DEF SettleFailure, dataVars, i
    <3>3. new \in OpType /\ new.stage = "failed"
      BY <1>0, Beginnings DEF OpType
    <3>4. /\ op'[i].stage = "failed" /\ op'[i].lease = NoCall
          /\ \A j \in Ops \ {i} : op'[j] = op[j] /\ op[j].stage \notin Active
                                  /\ op[j].lease = NoCall
      BY <1>0, <1>h, <1>k, <2>2, <3>2, <3>3 DEF Same
    <3>6. \A j \in Ops : OpOK(j)'
      BY <1>0, <3>2, <3>4 DEF OpOK, Active, Walking
    <3>7. RowsOK'
      BY <1>0, <3>1, <3>2, <3>4 DEF RowsOK, Under, Active, Walking
    <3>8. FenceHasRotation'
      BY <1>0, <3>2, <3>4 DEF FenceHasRotation, Active
    <3> QED BY <1>0, <3>2, <3>6, <3>7, <3>8
  <2> QED BY <1>6, <2>1, <2>2 DEF SettleFailure
<1> QED BY <1>1, <1>2, <1>3, <1>4, <1>5, <1>6 DEF LoudCall

\* The live key is replaced by finalization only, and by the next version.
LEMMA LiveMoves ==
  ASSUME Inv, [Next]_vars
  PROVE  live' = live \/ live'.version = live.version + 1
<1>1. ASSUME NEW c \in Calls, FinalizeRotation(c)
      PROVE  live' = live \/ live'.version = live.version + 1
  <2>1. CASE live' = live
    BY <2>1
  <2>2. CASE Holds(c) /\ Mine(c).stage = "finalizing" /\ live' = call[c].seen.candidate
    <3>1. call[c].op \in Ops /\ OpOK(call[c].op) /\ CallOK(c)
      BY CallReads DEF Inv, TypeOK
    <3>2. live' = Mine(c).candidate
      BY <1>1, <2>2, <3>1 DEF CallOK, Holds, FinalizeRotation, At, Loaded, Same, Mine
    <3> QED BY <2>2, <3>1, <3>2 DEF OpOK, Mine
  <2> QED BY <1>1, <2>1, <2>2 DEF FinalizeRotation
<1>2. CASE UNCHANGED live
  BY <1>2
<1>3. (\E c \in Calls : FinalizeRotation(c)) \/ UNCHANGED live
  BY DEF Next, OperatorStep, vars, accountVars, StartRotation, LoadKey, WriteRow, PurgeRow,
         ClaimWork, SealDeletion, ReserveDeletion, BeginStep, AcquireLease, LoadOperation,
         CheckWork, ReleaseLease, GenerateCandidate, PersistCandidate, SelectChunk,
         CloseReencryption, CommitChunk, VerifyRotation, SettleFailure, Throw, Die, Tick
<1> QED BY <1>1, <1>2, <1>3

\* A key is only ever replaced by a newer one, so what writers loaded is not newer.
LEMMA WritersStep == ASSUME Inv, [Next]_vars PROVE WritersOK'
<1>0. /\ TypeOK /\ WritersOK /\ live \in Keys
      /\ live' = live \/ live'.version = live.version + 1
      /\ \A w \in Writers : writer[w].key \in Keys
  BY LiveMoves DEF Inv, TypeOK
<1>1. ASSUME NEW w \in Writers, writer'[w].pc = "sealed"
      PROVE  (writer'[w].key = writer[w].key /\ writer[w].pc = "sealed")
             \/ (writer'[w].key = live /\ live' = live)
  <2>1. CASE UNCHANGED writer
    BY <1>1, <2>1
  <2>2. ASSUME NEW v \in Writers, LoadKey(v)
        PROVE  \/ writer'[w] = writer[w]
               \/ writer'[w].key = live /\ live' = live
    BY <1>0, <2>2 DEF LoadKey, TypeOK, accountVars
  <2>3. ASSUME NEW v \in Writers, NEW r \in Rows, WriteRow(v, r)
        PROVE  writer'[w] = writer[w]
    BY <1>0, <1>1, <2>3 DEF WriteRow, TypeOK, NoWriter
  <2>4. \/ UNCHANGED writer
        \/ \E v \in Writers : LoadKey(v) \/ \E r \in Rows : WriteRow(v, r)
    BY DEF Next, OperatorStep, vars, StartRotation, PurgeRow, FinalizeRotation,
         ClaimWork, SealDeletion, ReserveDeletion, BeginStep, AcquireLease, LoadOperation,
         CheckWork, ReleaseLease, GenerateCandidate, PersistCandidate, SelectChunk,
         CloseReencryption, CommitChunk, VerifyRotation, SettleFailure, Throw, Die, Tick
  <2> QED BY <1>1, <2>1, <2>2, <2>3, <2>4
<1>2. ASSUME NEW w \in Writers, writer'[w].pc = "sealed"
      PROVE  writer'[w].key = live' \/ writer'[w].key.version < live'.version
  <2>1. CASE writer'[w].key = live /\ live' = live
    BY <2>1
  <2>2. CASE writer'[w].key = writer[w].key /\ writer[w].pc = "sealed"
    <3>1. writer[w].key = live \/ writer[w].key.version < live.version
      BY <1>0, <2>2 DEF WritersOK
    <3>2. writer[w].key.version \in Nat /\ live.version \in Nat
      BY <1>0 DEF Keys
    <3> QED BY <1>0, <2>2, <3>1, <3>2
  <2> QED BY <1>1, <1>2, <2>1, <2>2
<1> QED BY <1>2 DEF WritersOK

\* The steps of the account, of its writers and of the clock disturb no call.
LEMMA CallsAccountStep ==
  ASSUME Inv, NEW d \in Calls,
         \/ \E i \in Ops : StartRotation(i)
         \/ \E w \in Writers : LoadKey(w) \/ \E r \in Rows : WriteRow(w, r)
         \/ \E r \in Rows : PurgeRow(r)
         \/ ClaimWork \/ SealDeletion \/ ReserveDeletion \/ Tick
  PROVE  Undisturbed(d)
<1>0. /\ TypeOK /\ CallsType /\ OpsType /\ FenceHasRotation
      /\ call[d] \in CallType /\ call[d].op \in Ops /\ d # NoCall
      /\ \A i \in Ops : i # 0
  BY Constants DEF Inv, TypeOK, CallType, Ops
<1>1. ASSUME NEW i \in Ops, StartRotation(i) PROVE Undisturbed(d)
  <2>1. /\ op[i].stage = "none" /\ call' = call /\ row' = row
        /\ \A j \in Ops \ {i} : op'[j] = op[j]
    BY <1>0, <1>1 DEF StartRotation, dataVars
  <2> QED BY <1>0, <2>1 DEF Undisturbed, Same
<1>2. CASE UNCHANGED <<op, call, row>>
  BY <1>2 DEF Undisturbed, Same
<1>3. ASSUME NEW w \in Writers, NEW r \in Rows, WriteRow(w, r) PROVE Undisturbed(d)
  <2>1. UNCHANGED <<op, call>>
    BY <1>3 DEF WriteRow
  <2>2. CASE row' = row
    BY <1>2, <2>1, <2>2
  <2>3. CASE fence = 0
    <3>1. op[call[d].op].stage \notin Walking
      BY <1>0, <2>3 DEF FenceHasRotation, Walking, Active
    <3> QED BY <2>1, <3>1 DEF Undisturbed, Same
  <2> QED BY <1>3, <2>2, <2>3 DEF WriteRow, FenceAdmits, dataVars
<1>4. ASSUME NEW r \in Rows, PurgeRow(r) PROVE Undisturbed(d)
  <2>1. UNCHANGED <<op, call>> /\ \A q \in Rows : row'[q] \in {row[q], NoRow}
    BY <1>0, <1>4 DEF PurgeRow, TypeOK
  <2> QED BY <2>1 DEF Undisturbed, Same
<1>5. CASE ReserveDeletion /\ fence # 0
  <2>1. /\ op' = [op EXCEPT ![fence] = Abandoned(op[fence])] /\ fence \in Ops
        /\ call' = Outdated(fence) /\ row' = row
    BY <1>0, <1>5 DEF ReserveDeletion, TypeOK, dataVars
  <2>2. op'[fence].stage = "abandoned" /\ op'[fence].lease = NoCall
    BY <1>0, <2>1 DEF Abandoned, OpType
  <2>3. /\ call'[d] = IF call[d].op = fence THEN [call[d] EXCEPT !.fresh = FALSE] ELSE call[d]
        /\ call[d].op = fence => ~call'[d].fresh
    BY <1>0, <2>1 DEF Outdated, CallType
  <2>4. CASE call[d].op = fence
    BY <1>0, <2>2, <2>3, <2>4 DEF Undisturbed
  <2>5. CASE call[d].op # fence
    BY <1>0, <2>1, <2>3, <2>5 DEF Undisturbed, Same
  <2> QED BY <2>4, <2>5
<1>6. CASE Tick
  <2>1. UNCHANGED <<call, row>>
    BY <1>6 DEF Tick, dataVars
  <2>2. \A i \in Ops : Same(op'[i], op[i]) /\ op'[i].lease = op[i].lease
    <3> TAKE i \in Ops
    <3>1. op[i] \in OpType
      BY <1>0 DEF OpsType
    <3>2. op'[i] = [op[i] EXCEPT !.expires = Less(@), !.notBefore = Less(@)]
      BY <1>6 DEF Tick
    <3> QED BY <3>1, <3>2 DEF Same, OpType
  <2> QED BY <1>0, <2>1, <2>2 DEF Undisturbed, Same
<1>7. \/ \E i \in Ops : StartRotation(i)
      \/ UNCHANGED <<op, call, row>>
      \/ \E w \in Writers, r \in Rows : WriteRow(w, r)
      \/ \E r \in Rows : PurgeRow(r)
      \/ ReserveDeletion /\ fence # 0
      \/ Tick
  BY DEF LoadKey, ClaimWork, SealDeletion, ReserveDeletion, dataVars
<1> QED BY <1>1, <1>2, <1>3, <1>4, <1>5, <1>6, <1>7

\* A call that commits ends, and disturbs no other.
LEMMA CallsCommitStep ==
  ASSUME Inv, NEW c \in Calls, NEW d \in Calls, NEW new \in OpType, Commit(c, new),
         new.stage # "none", Mine(c).lease = c \/ row' = row
  PROVE  CallOK(d)'
<1>0. /\ TypeOK /\ CallsType /\ OpsType /\ CallOK(d) /\ call[d].op \in Ops /\ d # NoCall
  BY CallReads, Constants DEF Inv, TypeOK
<1>1. CASE d = c
  BY <1>0, <1>1, CommitEffect, CallKept
<1>2. CASE d # c /\ call[d].op = call[c].op
  <2>1. /\ call'[d] \in {call[d], [call[d] EXCEPT !.fresh = FALSE]} /\ ~call'[d].fresh
        /\ op'[call[d].op].lease = NoCall /\ Same(op'[call[d].op], new)
    BY <1>0, <1>2, CommitEffect, CommitFields
  <2>2. Undisturbed(d)
    BY <1>0, <2>1 DEF Undisturbed, Same
  <2> QED BY <1>0, <2>2, CallKept
<1>3. CASE d # c /\ call[d].op # call[c].op
  <2>0. d \in Calls \ {c} /\ call[d].op \in Ops \ {call[c].op} /\ CallsType /\ OpsType
    BY <1>0, <1>3
  <2>1. /\ call'[d] \in {call[d], [call[d] EXCEPT !.fresh = FALSE]}
        /\ op'[call[d].op] = op[call[d].op]
    BY <2>0, CommitEffect
  <2>2. row' = row \/ op[call[d].op].stage \notin Walking
    BY <1>0, <1>3, CommitterHolds DEF Walking, Active
  <2>3. Undisturbed(d)
    BY <2>1, <2>2 DEF Undisturbed, Same
  <2> QED BY <1>0, <2>3, CallKept
<1> QED BY <1>1, <1>2, <1>3

\* A call that ends without a write, too.
LEMMA CallsEndStep ==
  ASSUME Inv, NEW c \in Calls, NEW d \in Calls, End(c), UNCHANGED <<op, row>>
  PROVE  CallOK(d)'
<1>0. TypeOK /\ CallsType /\ CallOK(d)
  BY DEF Inv, TypeOK
<1>1. call'[d] \in {call[d], Idle}
  BY <1>0 DEF End
<1>2. Undisturbed(d) \/ call'[d] = Idle
  BY <1>1 DEF Undisturbed, Same
<1> QED BY <1>0, <1>2, CallKept

\* A call that goes on disturbs no other: all that it may write is its lease.
LEMMA OthersKept ==
  ASSUME Inv, NEW c \in Calls, NEW d \in Calls \ {c}, call'[d] = call[d],
         \/ op' = op
         \/ op' = [op EXCEPT ![call[c].op].lease = c, ![call[c].op].expires = Lease],
         row' = row
  PROVE  CallOK(d)'
<1>0. TypeOK /\ OpsType /\ CallOK(d) /\ call[d].op \in Ops
  BY CallReads DEF Inv, TypeOK
<1>1. Same(op'[call[d].op], op[call[d].op])
  BY <1>0 DEF Same, OpType
<1>2. op'[call[d].op].lease = d => op[call[d].op].lease = d
  BY <1>0 DEF OpType
<1>3. Undisturbed(d)
  BY <1>1, <1>2 DEF Undisturbed, Same
<1> QED BY <1>0, <1>3, CallKept

\* What a call reads of its operation and of the rows, it has seen as it is.
LEMMA CallsQuietStep ==
  ASSUME Inv, NEW c \in Calls, QuietCall(c), NEW d \in Calls
  PROVE  CallOK(d)'
<1> DEFINE i == call[c].op
<1>0. /\ TypeOK /\ CallsType /\ OpsType /\ CallOK(c) /\ call[c] \in CallType
      /\ i \in Ops /\ Mine(c) \in OpType /\ Mine(c) = op[i] /\ c # NoCall
  BY CallReads, Constants DEF Inv, TypeOK, Mine
<1>r. row' = row /\ \A j \in Ops : Same(op'[j], op[j])
  BY StageQuietStep
<1> HIDE DEF i
<1>e. ASSUME End(c), op' = op PROVE CallOK(d)'
  BY <1>e, <1>r, CallsEndStep
<1>g. ASSUME NEW k \in CallType, call' = [call EXCEPT ![c] = k], d # c,
             op' = op \/ AcquireLease(c)
      PROVE  CallOK(d)'
  <2>1. call'[d] = call[d]
    BY <1>0, <1>g
  <2>2. \/ op' = op
        \/ op' = [op EXCEPT ![call[c].op].lease = c, ![call[c].op].expires = Lease]
    BY <1>g DEF AcquireLease
  <2> QED BY <1>g, <1>r, <2>1, <2>2, OthersKept
<1>1. ASSUME NEW j \in Ops, BeginStep(c, j) PROVE CallOK(d)'
  <2> DEFINE k == [Idle EXCEPT !.pc = "acquire", !.op = j, !.fresh = TRUE]
  <2>1. k \in CallType /\ k.pc = "acquire" /\ k.op = j /\ k.rows = {}
    BY Beginnings DEF CallType, Idle
  <2>2. call' = [call EXCEPT ![c] = k] /\ op' = op /\ op[j].stage # "none"
    BY <1>1 DEF BeginStep, Active
  <2>3. CASE d = c
    <3>1. call'[c] = k
      BY <1>0, <2>2
    <3> QED BY <2>1, <2>2, <2>3, <3>1, FS_EmptySet
            DEF CallOK, Loaded, Waiting, Chunking
  <2> QED BY <1>g, <2>1, <2>2, <2>3
<1>2. CASE AcquireLease(c)
  <2>1. CASE End(c) /\ op' = op
    BY <1>e, <2>1
  <2>2. CASE Goto(c, "load") /\ At(c, "acquire")
    <3> DEFINE k == [call[c] EXCEPT !.pc = "load"]
    <3>1. k \in CallType /\ k.pc = "load" /\ k.op = i /\ k.rows = call[c].rows
      BY <1>0 DEF CallType, i
    <3>2. call' = [call EXCEPT ![c] = k]
      BY <2>2 DEF Goto
    <3>3. CASE d = c
      <4>1. call'[c] = k
        BY <1>0, <3>2
      <4>2. op'[i].stage # "none"
        BY <1>0, <1>r, <2>2 DEF CallOK, At, Same, i
      <4> QED BY <1>0, <3>1, <3>3, <4>1, <4>2 DEF CallOK, Loaded, Waiting, Chunking
    <3> QED BY <1>2, <1>g, <3>1, <3>2, <3>3
  <2> QED BY <1>2, <2>1, <2>2 DEF AcquireLease
<1>3. CASE LoadOperation(c)
  <2> DEFINE stage == op[i].stage
             p == CASE stage = "quiescing" -> "work"
                    [] stage \in {"reencrypting", "blocked"} -> "select"
                    [] stage = "finalizing" -> "finalize"
                    [] OTHER -> "verify"
             k == [call[c] EXCEPT !.seen = op[i], !.fresh = TRUE, !.pc = p]
  <2>1. /\ p \in {"work", "select", "finalize", "verify"}
        /\ p = "work" => stage = "quiescing"
        /\ p = "select" => stage \in Walking
        /\ p = "finalize" => stage = "finalizing"
    BY DEF Walking
  <2>2. call' = [call EXCEPT ![c] = k] /\ op' = op /\ call[c].pc = "load"
    BY <1>0, <1>3 DEF LoadOperation, At
  <2> HIDE DEF p
  <2>3. /\ k \in CallType /\ k.pc = p /\ k.op = i /\ k.rows = call[c].rows /\ k.seen = op[i]
    BY <1>0, <2>1 DEF CallType, LaterSteps, i
  <2>4. CASE d = c
    <3>1. call'[c] = k
      BY <1>0, <2>2
    <3>2. op'[i].stage # "none"
      BY <1>0, <2>2 DEF CallOK, i
    <3> QED BY <1>0, <2>1, <2>2, <2>3, <2>4, <3>1, <3>2
            DEF CallOK, Loaded, Waiting, Chunking, Same
  <2> QED BY <1>g, <2>2, <2>3, <2>4
<1>w. ASSUME NEW k \in CallType, call' = [call EXCEPT ![c] = k], op' = op,
             call[c].pc \in Waiting,
             k.pc \in Waiting, k.pc = "settle" => call[c].pc = "work", k.pc # "work",
             k.op = i, k.rows = call[c].rows, k.seen = call[c].seen, k.fresh = call[c].fresh
      PROVE  CallOK(d)'
  <2>1. CASE d = c
    <3>1. call'[c] = k
      BY <1>0, <1>w
    <3>2. op[i].stage # "none" /\ (call[c].pc = "work" /\ op[i].lease = c => op[i].stage = "quiescing")
      BY <1>0, <1>w DEF CallOK, Waiting, i
    <3>3. k.seen.stage = "quiescing" /\ (k.fresh => Same(k.seen, op[i]))
      BY <1>0, <1>w DEF CallOK, Loaded, i
    <3> QED BY <1>0, <1>w, <2>1, <3>1, <3>2, <3>3 DEF CallOK, Loaded, Waiting, Chunking
  <2> QED BY <1>g, <1>w, <2>1
<1>p. ASSUME NEW p \in {"release", "candidate", "settle"}, Goto(c, p), op' = op, At(c, "work")
      PROVE  CallOK(d)'
  <2> DEFINE k == [call[c] EXCEPT !.pc = p]
  <2>1. k \in CallType /\ k.pc = p /\ k.op = i /\ k.rows = call[c].rows /\ k.seen = call[c].seen
        /\ k.fresh = call[c].fresh
    BY <1>0 DEF CallType, LaterSteps, i
  <2>2. call' = [call EXCEPT ![c] = k]
    BY <1>p DEF Goto
  <2> HIDE DEF k
  <2> QED BY <1>p, <1>w, <2>1, <2>2 DEF At, Waiting
<1>4. CASE CheckWork(c)
  BY <1>4, <1>p DEF CheckWork
<1>5. CASE ReleaseLease(c)
  <2>1. CASE Commit(c, Mine(c)) /\ Holds(c)
    <3>1. Mine(c).stage # "none"
      BY <1>0, <1>5 DEF CallOK, ReleaseLease, At, i
    <3> QED BY <1>0, <2>1, <3>1, CallsCommitStep DEF Holds
  <2> QED BY <1>5, <1>e, <2>1 DEF ReleaseLease
<1>6. CASE GenerateCandidate(c)
  <2> DEFINE k == [call[c] EXCEPT !.key = live, !.pc = "persist"]
  <2>1. CASE End(c)
    BY <1>6, <1>e, <2>1 DEF GenerateCandidate
  <2>2. CASE call' = [call EXCEPT ![c].key = live, ![c].pc = "persist"]
    <3>1. /\ k \in CallType /\ k.pc = "persist" /\ k.op = i /\ k.rows = call[c].rows
          /\ k.seen = call[c].seen /\ k.fresh = call[c].fresh
      BY <1>0 DEF CallType, LaterSteps, i, TypeOK
    <3>2. call' = [call EXCEPT ![c] = k] /\ op' = op /\ call[c].pc = "candidate"
      BY <1>6, <2>2 DEF GenerateCandidate, At
    <3> HIDE DEF k
    <3> QED BY <1>w, <3>1, <3>2 DEF Waiting
  <2> QED BY <1>6, <2>1, <2>2 DEF GenerateCandidate
<1>7. CASE SelectChunk(c)
  <2>1. CASE End(c)
    BY <1>7, <1>e, <2>1 DEF SelectChunk
  <2>2. ASSUME NEW chunk \in SUBSET OldRows(c),
               Cardinality(chunk) = IF Cardinality(OldRows(c)) < BatchSize
                                    THEN Cardinality(OldRows(c)) ELSE BatchSize,
               call' = [call EXCEPT ![c].rows = {<<r, row[r]>> : r \in chunk},
                                    ![c].pc = IF chunk = {} THEN "close" ELSE "chunk"]
        PROVE  CallOK(d)'
    <3> DEFINE T == {<<r, row[r]>> : r \in chunk}
               p == IF chunk = {} THEN "close" ELSE "chunk"
               k == [call[c] EXCEPT !.rows = T, !.pc = p]
               f == [r \in chunk |-> <<r, row[r]>>]
    <3>1. IsFiniteSet(OldRows(c)) /\ IsFiniteSet(chunk)
      BY RotationAssumption, FS_Subset DEF OldRows
    <3>2. IsFiniteSet(T)
      <4>1. f \in Surjection(chunk, T)
        BY DEF Surjection
      <4> QED BY <3>1, <4>1, FS_Surjection
    <3>3. T \in SUBSET (Rows \X RowType) /\ \A q \in T : q[2] # NoRow
      BY <1>0 DEF OldRows, TypeOK
    <3>4. chunk = {} => OldRows(c) = {}
      <4>1. Cardinality(chunk) = 0 <=> chunk = {}
        BY <3>1, FS_EmptySet
      <4>2. Cardinality(OldRows(c)) = 0 <=> OldRows(c) = {}
        BY <3>1, FS_EmptySet
      <4> QED BY <2>2, <4>1, <4>2, Constants
    <3>5. /\ k \in CallType /\ k.pc = p /\ k.op = i /\ k.rows = T
          /\ k.seen = call[c].seen /\ k.fresh = call[c].fresh
      BY <1>0, <3>3 DEF CallType, LaterSteps, i
    <3>6. call' = [call EXCEPT ![c] = k] /\ op' = op /\ call[c].pc = "select"
      BY <1>7, <2>2 DEF SelectChunk, At
    <3>7. CASE d = c
      <4>1. call'[c] = k
        BY <1>0, <3>6
      <4>2. /\ op[i].stage # "none" /\ k.seen.stage \in Walking
            /\ k.fresh => Same(k.seen, op[i])
        BY <1>0, <3>5, <3>6 DEF CallOK, Chunking, Loaded, i
      <4>3. p = "close" => \A r \in Rows : row[r] # NoRow => row[r].key.version # k.seen.previous
        BY <3>4, <3>5 DEF OldRows
      <4>4. p \in {"close", "chunk"}
        OBVIOUS
      <4> HIDE DEF k, p, T
      <4> QED BY <1>r, <3>2, <3>3, <3>5, <3>6, <3>7, <4>1, <4>2, <4>3, <4>4
              DEF CallOK, Loaded, Waiting, Chunking
    <3> HIDE DEF k
    <3> QED BY <1>g, <3>5, <3>6, <3>7
  <2> QED BY <1>7, <2>1, <2>2 DEF SelectChunk
<1>8. CASE Throw(c)
  BY <1>8, <1>e, <1>p DEF Throw
<1>9. CASE Die(c)
  BY <1>9, <1>e DEF Die
<1> QED BY <1>1, <1>2, <1>3, <1>4, <1>5, <1>6, <1>7, <1>8, <1>9 DEF QuietCall

\* A call that commits a stage leaves every call as it should be.
LEMMA CallsLoudStep ==
  ASSUME Inv, NEW c \in Calls, LoudCall(c), NEW d \in Calls
  PROVE  CallOK(d)'
<1>0. /\ Mine(c) \in OpType /\ call[c].op \in Ops /\ call[c].op \in Nat
      /\ call[c].key \in Keys /\ CallOK(c)
  BY CallReads DEF Inv, TypeOK, Ops
<1>e. ASSUME End(c), UNCHANGED <<op, row>> PROVE CallOK(d)'
  BY <1>e, CallsEndStep
<1>k. ASSUME NEW new \in OpType, Commit(c, new), new.stage # "none",
             Mine(c).lease = c
      PROVE  CallOK(d)'
  BY <1>k, CallsCommitStep
<1>1. CASE PersistCandidate(c)
  <2> DEFINE b == call[c].key.version
             new == [Mine(c) EXCEPT !.stage = "reencrypting", !.previous = b,
                                    !.candidate = Key(b + 1, call[c].op)]
  <2>1. b \in Nat /\ Key(b + 1, call[c].op) \in Keys
    BY <1>0 DEF Keys, Key
  <2>2. new \in OpType /\ new.stage = "reencrypting"
    BY <1>0, <2>1 DEF OpType, Active
  <2>3. (Commit(c, new) /\ Holds(c)) \/ (End(c) /\ UNCHANGED <<op, row>>)
    BY <1>1 DEF PersistCandidate, dataVars
  <2> HIDE DEF new
  <2> QED BY <1>e, <1>k, <2>2, <2>3 DEF Holds
<1>2. CASE CloseReencryption(c)
  <2> DEFINE new == [Mine(c) EXCEPT !.stage = "finalizing"]
  <2>1. new \in OpType /\ new.stage = "finalizing"
    BY <1>0 DEF OpType, Active
  <2>2. (Commit(c, new) /\ Holds(c)) \/ (End(c) /\ UNCHANGED <<op, row>>)
    BY <1>2 DEF CloseReencryption, Reencrypting, dataVars
  <2> HIDE DEF new
  <2> QED BY <1>e, <1>k, <2>1, <2>2 DEF Holds
<1>3. CASE CommitChunk(c)
  <2> DEFINE new == [Mine(c) EXCEPT !.stage = "reencrypting",
                                    !.count = @ + Cardinality(call[c].rows)]
  <2>1. Mine(c).count + Cardinality(call[c].rows) \in Nat
    BY <1>0, FS_CardinalityType DEF CallOK, OpType
  <2>2. new \in OpType /\ new.stage = "reencrypting"
    BY <1>0, <2>1 DEF OpType, Active
  <2>3. (Commit(c, new) /\ Holds(c)) \/ (End(c) /\ UNCHANGED <<op, row>>)
    BY <1>3 DEF CommitChunk, Reencrypting
  <2> HIDE DEF new
  <2> QED BY <1>e, <1>k, <2>2, <2>3 DEF Holds
<1>4. CASE FinalizeRotation(c)
  <2> DEFINE new == [Mine(c) EXCEPT !.stage = "verifying"]
  <2>1. new \in OpType /\ new.stage = "verifying"
    BY <1>0 DEF OpType, Active
  <2>2. (Commit(c, new) /\ Holds(c)) \/ (End(c) /\ UNCHANGED <<op, row>>)
    BY <1>4 DEF FinalizeRotation, dataVars
  <2> HIDE DEF new
  <2> QED BY <1>e, <1>k, <2>1, <2>2 DEF Holds
<1>5. CASE VerifyRotation(c)
  <2> DEFINE new == [Mine(c) EXCEPT !.stage = "succeeded", !.candidate = NoKey]
  <2>1. new \in OpType /\ new.stage = "succeeded"
    BY <1>0, Beginnings DEF OpType
  <2>2. (Commit(c, new) /\ Holds(c)) \/ (End(c) /\ UNCHANGED <<op, row>>)
    BY <1>5 DEF VerifyRotation, dataVars
  <2> HIDE DEF new
  <2> QED BY <1>e, <1>k, <2>1, <2>2 DEF Holds
<1>6. CASE SettleFailure(c)
  <2> DEFINE lost == [Mine(c) EXCEPT !.stage = "failed", !.candidate = NoKey]
             kept == [Mine(c) EXCEPT !.stage = "blocked"]
  <2>1. lost \in OpType /\ lost.stage = "failed"
    BY <1>0, Beginnings DEF OpType
  <2>2. kept \in OpType /\ kept.stage = "blocked"
    BY <1>0 DEF OpType, Active
  <2>3. \/ (Commit(c, lost) \/ Commit(c, kept)) /\ Mine(c).lease = c
        \/ End(c) /\ UNCHANGED <<op, row>>
    BY <1>6 DEF SettleFailure, dataVars
  <2> HIDE DEF lost, kept
  <2> QED BY <1>e, <1>k, <2>1, <2>2, <2>3
<1> QED BY <1>1, <1>2, <1>3, <1>4, <1>5, <1>6 DEF LoudCall

\* Every step is one of the account, one of a call, or none.
LEMMA Steps ==
  ASSUME [Next]_vars
  PROVE  \/ \/ \E i \in Ops : StartRotation(i)
            \/ \E w \in Writers : LoadKey(w) \/ \E r \in Rows : WriteRow(w, r)
            \/ \E r \in Rows : PurgeRow(r)
            \/ ClaimWork \/ SealDeletion \/ ReserveDeletion \/ Tick
         \/ \E c \in Calls : QuietCall(c) \/ LoudCall(c)
         \/ UNCHANGED vars
BY DEF Next, OperatorStep, QuietCall, LoudCall

\* The invariant is inductive.
LEMMA InvStep == Inv /\ [Next]_vars => Inv'
<1> SUFFICES ASSUME Inv, [Next]_vars PROVE Inv'
  OBVIOUS
<1> DEFINE Account == \/ \E i \in Ops : StartRotation(i)
                      \/ \E w \in Writers : LoadKey(w) \/ \E r \in Rows : WriteRow(w, r)
                      \/ \E r \in Rows : PurgeRow(r)
                      \/ ClaimWork \/ SealDeletion \/ ReserveDeletion \/ Tick
           Stages == /\ FenceHasRotation' /\ live'.version > 0
                     /\ \A i \in Ops : OpOK(i)'
                     /\ RowsOK'
<1>1. TypeOK'
  BY TypeStep DEF Inv, CallOK, RowsAreFinite
<1>2. WritersOK'
  BY WritersStep
<1>3. CASE Account
  <2>1. Stages
    BY <1>3, StageAccountStep
  <2>2. \A d \in Calls : CallOK(d)'
    BY <1>3, CallsAccountStep, CallKept DEF Inv
  <2> QED BY <1>1, <1>2, <2>1, <2>2 DEF Inv
<1>4. ASSUME NEW c \in Calls, QuietCall(c) PROVE Inv'
  <2>1. Stages
    BY <1>4, StageQuietStep, QuietStep
  <2>2. \A d \in Calls : CallOK(d)'
    BY <1>4, CallsQuietStep
  <2> QED BY <1>1, <1>2, <2>1, <2>2 DEF Inv
<1>5. ASSUME NEW c \in Calls, LoudCall(c) PROVE Inv'
  <2>1. Stages
    BY <1>5, StageLoudStep
  <2>2. \A d \in Calls : CallOK(d)'
    BY <1>5, CallsLoudStep
  <2> QED BY <1>1, <1>2, <2>1, <2>2 DEF Inv
<1>6. CASE UNCHANGED vars
  <2>1. UNCHANGED <<status, fence, live, row, op, call>>
    BY <1>6 DEF vars, accountVars, dataVars
  <2>2. Stages
    BY <2>1, QuietStep DEF Same, Inv, OpOK
  <2>3. \A d \in Calls : CallOK(d)'
    <3>1. \A d \in Calls : Undisturbed(d)
      BY <2>1 DEF Undisturbed, Same
    <3> QED BY <3>1, CallKept DEF Inv
  <2> QED BY <1>1, <1>2, <2>2, <2>3 DEF Inv
<1> QED BY <1>3, <1>4, <1>5, <1>6, Steps
-----------------------------------------------------------------------------
\* So the invariant holds in every state the program reaches.
LEMMA Invariant == Spec => []Inv
<1>1. Init => Inv
  BY InvInit
<1>2. Inv /\ [Next]_vars => Inv'
  BY InvStep
<1> QED BY <1>1, <1>2, PTL DEF Spec

\* Every reachable state has its types, however many rows, calls, writers and
\* rotations there are (crypto-operations.ts, crypto-write-fence.ts).
THEOREM TypeCorrect == Spec => []TypeOK
<1>1. Inv => TypeOK
  BY DEF Inv
<1> QED BY <1>1, Invariant, PTL

\* The fence of an account is its rotation in progress, and the account is
\* frozen because of it (the batches of startDekRotation, verifyDekRotation,
\* settleOperationFailure and reserveAccountDeletion).
THEOREM FenceMatchesRotation == Spec => []FenceHasRotation
<1>1. Inv => FenceHasRotation
  BY DEF Inv
<1> QED BY <1>1, Invariant, PTL

\* No ciphertext of an account that is not being deleted is under a key that
\* is lost (the batches of reencryptChunk and finalizeRotation, and
\* buildCryptoWriteFence).
THEOREM RowsStayReadable == Spec => []RowsAreReadable
<1>1. Inv => RowsAreReadable
  <2> SUFFICES ASSUME Inv, status # "pending", NEW r \in Rows, row[r] # NoRow
               PROVE  Readable(row[r].key)
    BY DEF RowsAreReadable
  <2>1. CASE fence = 0
    BY <2>1 DEF Inv, RowsOK, Under, Readable
  <2>2. CASE fence # 0
    <3>1. fence \in Ops /\ op[fence].stage \in Active
      BY <2>2 DEF Inv, FenceHasRotation, TypeOK
    <3> QED BY <3>1 DEF Inv, RowsOK, Under, Readable, Active, Walking
  <2> QED BY <2>1, <2>2
<1> QED BY <1>1, Invariant, PTL

\* Once the walk found nothing under the old key, nothing comes back under it
\* (reencryptChunk's closing statement asks for the lease only).
THEOREM WalkNeverReopens == Spec => []WalkStaysClosed
<1>1. Inv => WalkStaysClosed
  <2> SUFFICES ASSUME Inv, NEW i \in Ops, op[i].stage \in {"finalizing", "verifying"},
                      NEW r \in Rows
               PROVE  row[r].key.version # op[i].previous
    BY DEF WalkStaysClosed
  <2>1. OpOK(i) /\ RowsOK /\ live.version > 0 /\ op[i].previous \in Nat
    BY DEF Inv, TypeOK, OpType
  <2>2. op[i].previous > 0
    BY <2>1 DEF OpOK
  <2>3. CASE row[r] = NoRow
    BY <2>2, <2>3 DEF NoRow, Row, NoKey, Key
  <2>4. CASE row[r] # NoRow
    <3>1. row[r].key.version = op[i].previous + 1
      BY <2>1, <2>4 DEF OpOK, RowsOK, Under
    <3> QED BY <2>1, <3>1
  <2> QED BY <2>3, <2>4
<1> QED BY <1>1, Invariant, PTL

Settled(i) == op[i].stage \in {"succeeded", "failed", "abandoned"}

\* No step moves an operation that has ended.
LEMMA SettledStep ==
  ASSUME Inv, [Next]_vars, NEW i \in Ops, Settled(i)
  PROVE  Same(op'[i], op[i])
<1>0. /\ OpsType /\ op[i].stage \notin Active /\ op[i].lease = NoCall /\ fence # i
      /\ op[i].stage # "none"
  BY DEF Inv, TypeOK, OpOK, Settled, Active, FenceHasRotation, Ops
<1>1. CASE op' = op
  BY <1>1 DEF Same
<1>2. ASSUME NEW j \in Ops, StartRotation(j) PROVE Same(op'[i], op[i])
  <2>1. i # j /\ op'[i] = op[i]
    BY <1>0, <1>2 DEF StartRotation
  <2> QED BY <2>1 DEF Same
<1>3. CASE ReserveDeletion
  <2>1. op'[i] = op[i]
    BY <1>0, <1>3 DEF ReserveDeletion, Inv, TypeOK
  <2> QED BY <2>1 DEF Same
<1>4. CASE Tick
  BY <1>0, <1>4 DEF Tick, Same, OpType
<1>5. ASSUME NEW c \in Calls, QuietCall(c) PROVE Same(op'[i], op[i])
  BY <1>5, StageQuietStep
<1>6. ASSUME NEW c \in Calls, LoudCall(c) PROVE Same(op'[i], op[i])
  <2>1. CASE op' = op
    BY <1>1, <2>1
  <2>2. CASE Mine(c).lease = c /\ \E new : Commit(c, new)
    <3>1. i # call[c].op
      BY <1>0, <2>2, CommitterHolds DEF Mine
    <3>2. op'[i] = op[i]
      BY <1>0, <2>2, <3>1 DEF Commit
    <3> QED BY <3>2 DEF Same
  <2> QED BY <1>6, <2>1, <2>2
      DEF LoudCall, PersistCandidate, CloseReencryption, CommitChunk, FinalizeRotation,
          VerifyRotation, SettleFailure, Holds, Reencrypting
<1> QED BY <1>1, <1>2, <1>3, <1>4, <1>5, <1>6, Steps
        DEF LoadKey, WriteRow, PurgeRow, ClaimWork, SealDeletion, vars

\* An operation that has ended stays as it is: a call that lost its lease, to a
\* takeover or to a deletion, commits nothing.
THEOREM SettlementIsFinal == Spec => SettledIsFinal
<1>1. Inv /\ [Next]_vars =>
        [\A i \in Ops : op[i].stage \in {"succeeded", "failed", "abandoned"} =>
          /\ op'[i].stage = op[i].stage
          /\ op'[i].candidate = op[i].candidate /\ op'[i].count = op[i].count]_vars
  BY SettledStep DEF Settled, Same
<1> QED BY <1>1, Invariant, PTL DEF Spec, SettledIsFinal

\* A step of the operator changes the key of a row and nothing else of it.
LEMMA RekeyStep ==
  ASSUME Inv, NEW c \in Calls, OperatorStep(c), NEW r \in Rows
  PROVE  row'[r].value = row[r].value /\ (row'[r] = NoRow <=> row[r] = NoRow)
<1>0. /\ OpsType /\ row \in [Rows -> RowType] /\ row[r] \in RowType /\ CallOK(c)
      /\ call[c].op \in Ops /\ call[c].seen \in OpType /\ OpOK(call[c].op)
  BY CallReads DEF Inv, TypeOK
<1>1. CASE UNCHANGED row
  BY <1>1
<1>2. CASE CommitChunk(c) /\ Reencrypting(c) /\ row' = [q \in Rows |-> Rekeyed(c, q)]
  <2>1. CASE <<r, row[r]>> \notin call[c].rows
    BY <1>2, <2>1 DEF Rekeyed
  <2>2. CASE <<r, row[r]>> \in call[c].rows
    <3>1. row'[r] = Row(call[c].seen.candidate, row[r].value)
      BY <1>2, <2>2 DEF Rekeyed
    <3>2. row[r] # NoRow
      BY <1>0, <2>2 DEF CallOK
    <3>3. /\ call[c].seen.candidate = op[call[c].op].candidate
          /\ op[call[c].op].stage \in Walking
      BY <1>0, <1>2 DEF CallOK, CommitChunk, At, Reencrypting, Holds, Mine, Loaded,
                        Chunking, Same, Walking
    <3>4. call[c].seen.candidate.version > 0
      BY <1>0, <3>3 DEF OpOK, OpType
    <3>5. row'[r] # NoRow
      BY <3>1, <3>4 DEF Row, NoRow, NoKey, Key
    <3> QED BY <3>1, <3>2, <3>5 DEF Row
  <2> QED BY <2>1, <2>2
<1>3. UNCHANGED row \/ (CommitChunk(c) /\ Reencrypting(c) /\ row' = [q \in Rows |-> Rekeyed(c, q)])
  BY DEF OperatorStep, AcquireLease, LoadOperation, CheckWork, ReleaseLease,
         GenerateCandidate, PersistCandidate, SelectChunk, CloseReencryption, CommitChunk,
         FinalizeRotation, VerifyRotation, SettleFailure, dataVars
<1> QED BY <1>1, <1>2, <1>3

\* Rekeying changes no value and brings no purged row back, although a chunk is
\* decrypted and sealed again outside of the batch that writes it.
THEOREM RekeyingIsLossless == Spec => RekeyingKeepsData
<1>1. Inv /\ [Next]_vars =>
        [(\E c \in Calls : OperatorStep(c)) =>
          \A r \in Rows : /\ row'[r].value = row[r].value
                          /\ row'[r] = NoRow <=> row[r] = NoRow]_vars
  <2> SUFFICES ASSUME Inv, [Next]_vars, NEW c \in Calls, OperatorStep(c), NEW r \in Rows
               PROVE  row'[r].value = row[r].value /\ (row'[r] = NoRow <=> row[r] = NoRow)
    OBVIOUS
  <2> QED BY RekeyStep
<1> QED BY <1>1, Invariant, PTL DEF Spec, RekeyingKeepsData
=============================================================================
