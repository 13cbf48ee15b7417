---------------------------- MODULE CryptoRotation ----------------------------
(***************************************************************************)
(* The rotation of one account's data key: the operator's steps            *)
(* (apps/api/src/services/crypto-operations.ts), the write fence that every *)
(* encrypted write carries (db/crypto-write-fence.ts), and the deletion of *)
(* the account, which abandons a rotation (db/deletion-jobs.ts).           *)
(*                                                                         *)
(* A step of the operator is a call that performs one D1 statement or      *)
(* batch per action; nothing bounds how long it takes.  Instants are       *)
(* counted down.  A lease token is the slot of the call that minted it, and *)
(* "revision = ?" is remembered as whether the revision a call has read is *)
(* still the row's: revisions never come back.                             *)
(***************************************************************************)
EXTENDS Integers, FiniteSets

CONSTANTS Rows,        \* the rows of ENCRYPTED_COLUMNS
          Calls,       \* invocations of stepDekRotation that run at one time
          Writers,     \* requests and jobs that write encrypted rows
          NoCall,      \* lease_token_hash IS NULL
          BatchSize,   \* DEK_ROTATION_BATCH_SIZE
          Lease,       \* OPERATION_LEASE_MS
          Quiescence,  \* DEK_ROTATION_QUIESCENCE_MS
          WorkLease,   \* how long the claim of a job runs
          MaxOps,      \* bound: rotations of the account
          MaxWrites,   \* bound: committed writes of readers and jobs
          MaxFaults    \* bound: steps in which an awaited operation throws, and
                       \* steps whose invocation dies, together

ASSUME RotationAssumption ==
    /\ IsFiniteSet(Rows)
    /\ NoCall \notin Calls
    /\ {BatchSize, Lease, Quiescence, WorkLease, MaxOps} \subseteq Nat \ {0}
    /\ {MaxWrites, MaxFaults} \subseteq Nat

VARIABLES status,   \* users.status, "pending" for pending_deletion and after
          fence,    \* users.crypto_write_fence, 0 for NULL
          live,     \* the key that is not destroyed
          row,      \* the encrypted rows
          op,       \* crypto_operations
          work,     \* what is left of the lease of a running job
          command,  \* the key the deletion command was sealed under
          call, writer, writes,
          throws, deaths

accountVars == <<status, fence, live, command>>
dataVars == <<row, writes>>
faultVars == <<throws, deaths>>
vars == <<accountVars, dataVars, op, work, call, writer, faultVars>>

Ops == 1 .. MaxOps
\* A key version and, since a version may be used twice, whose key it is: 0
\* for the key of the identity, else the rotation that generated it.
Key(version, by) == [version |-> version, by |-> by]
NoKey == Key(0, 0)
FirstKey == Key(1, 0)
Row(key, value) == [key |-> key, value |-> value]
NoRow == Row(NoKey, 0)

Active == {"quiescing", "reencrypting", "finalizing", "verifying", "blocked"}
NoOp == [stage |-> "none", original |-> "active", previous |-> 0, candidate |-> NoKey,
         count |-> 0, lease |-> NoCall, expires |-> 0, notBefore |-> 0]
\* The steps after the lease whose promise stepDekRotation returns.
LaterSteps == {"release", "candidate", "persist", "select", "close", "chunk",
               "finalize", "verify"}
Idle == [pc |-> "idle", op |-> 1, fresh |-> FALSE, seen |-> NoOp, key |-> NoKey,
         rows |-> {}]
NoWriter == [pc |-> "idle", key |-> NoKey]

Init == /\ status \in {"active", "frozen"} /\ fence = 0 /\ live = FirstKey
        /\ row \in [Rows -> {NoRow, Row(FirstKey, 0)}]
        /\ op = [i \in Ops |-> NoOp]
        /\ work = 0 /\ command = NoKey
        /\ call = [c \in Calls |-> Idle]
        /\ writer = [w \in Writers |-> NoWriter]
        /\ writes = 0 /\ throws = 0 /\ deaths = 0

At(c, pc) == call[c].pc = pc
Goto(c, pc) == call' = [call EXCEPT ![c].pc = pc]
End(c) == call' = [call EXCEPT ![c] = Idle]
Mine(c) == op[call[c].op]

\* id = ? AND revision = ? AND lease_token_hash = ?
Holds(c) == call[c].fresh /\ Mine(c).lease = c
\* The other calls that read this operation have an old revision now.
Outdated(i) == [d \in Calls |-> IF call[d].op = i THEN [call[d] EXCEPT !.fresh = FALSE]
                                ELSE call[d]]
\* The call has written the row of its operation, and returns.
Commit(c, new) ==
    /\ op' = [op EXCEPT ![call[c].op] = [new EXCEPT !.lease = NoCall, !.expires = 0]]
    /\ call' = [Outdated(call[c].op) EXCEPT ![c] = Idle]
-----------------------------------------------------------------------------
(* startDekRotation and the account's other writers.                       *)

StartRotation(i) ==
    /\ op[i].stage = "none" /\ \A j \in 1 .. i - 1 : op[j].stage # "none"
    /\ status \in {"active", "frozen"} /\ fence = 0
    /\ \A j \in Ops : op[j].stage \notin Active
    /\ op' = [op EXCEPT ![i] = [NoOp EXCEPT !.stage = "quiescing",
                                            !.original = status,
                                            !.notBefore = Quiescence]]
    /\ status' = "frozen" /\ fence' = i
    /\ UNCHANGED <<live, command, dataVars, work, call, writer, faultVars>>

\* encryptPayload: the live key is loaded before the batch of the write.
LoadKey(w) ==
    /\ writer[w].pc = "idle" /\ status = "active" /\ writes < MaxWrites
    /\ writer' = [writer EXCEPT ![w] = [pc |-> "sealed", key |-> live]]
    /\ UNCHANGED <<accountVars, dataVars, op, work, call, faultVars>>

\* Mutant: the fence does not look at the key.
FenceAdmitsAnyKey(key) == fence = 0 /\ status = "active"

\* Mutant: the fence compares the version alone.
FenceAdmitsVersion(key) == status # "pending" /\ live.version = key.version

\* buildCryptoWriteFence.
FenceAdmits(key) == fence = 0 /\ status = "active" /\ live.version = key.version

WriteRow(w, r) ==
    /\ writer[w].pc = "sealed"
    /\ IF FenceAdmits(writer[w].key)
       THEN /\ row' = [row EXCEPT ![r] = Row(writer[w].key, writes + 1)]
            /\ writes' = writes + 1
       ELSE UNCHANGED dataVars
    /\ writer' = [writer EXCEPT ![w] = NoWriter]
    /\ UNCHANGED <<accountVars, op, work, call, faultVars>>

\* Claims ask for crypto_write_fence IS NULL.
ClaimWork == /\ status = "active" /\ fence = 0 /\ work = 0
             /\ work' = WorkLease
             /\ UNCHANGED <<accountVars, dataVars, op, call, writer, faultVars>>

\* The lanes of the crons delete rows whatever the account is doing.
PurgeRow(r) == /\ row[r] # NoRow
               /\ row' = [row EXCEPT ![r] = NoRow]
               /\ UNCHANGED <<accountVars, writes, op, work, call, writer, faultVars>>

\* reserveAccountDeletion seals its command, and then commits its batch.
SealDeletion ==
    /\ status \in {"active", "frozen"}
    /\ command' = live
    /\ UNCHANGED <<status, fence, live, dataVars, op, work, call, writer, faultVars>>

Abandoned(o) == [o EXCEPT !.stage = "abandoned", !.candidate = NoKey,
                          !.lease = NoCall, !.expires = 0]

\* Mutant: the fence is lifted and the operation is forgotten.
ReserveDeletionOnly ==
    /\ status \in {"active", "frozen"} /\ command # NoKey
    /\ fence # 0 => op[fence].stage \in Active
    /\ status' = "pending" /\ fence' = 0
    /\ UNCHANGED <<live, command, dataVars, work, writer, faultVars, op, call>>

ReserveDeletion ==
    /\ status \in {"active", "frozen"} /\ command # NoKey
    /\ fence # 0 => op[fence].stage \in Active
    /\ status' = "pending" /\ fence' = 0
    /\ IF fence = 0 THEN UNCHANGED <<op, call>>
                    ELSE /\ op' = [op EXCEPT ![fence] = Abandoned(@)]
                         /\ call' = Outdated(fence)
    /\ UNCHANGED <<live, command, dataVars, work, writer, faultVars>>
-----------------------------------------------------------------------------
(* stepDekRotation: acquire the lease, then one stage.                     *)

BeginStep(c, i) ==
    /\ At(c, "idle")
    /\ op[i].stage \in Active
    /\ op[i].stage = "quiescing" => op[i].notBefore = 0
    /\ call' = [call EXCEPT ![c] = [Idle EXCEPT !.pc = "acquire", !.op = i,
                                                !.fresh = TRUE]]
    /\ UNCHANGED <<accountVars, dataVars, op, work, writer, faultVars>>

\* Mutant: the lease of a call that died is kept.
LeaseIsUnclaimed(c) == Mine(c).lease = NoCall

LeaseIsFree(c) == Mine(c).lease = NoCall \/ Mine(c).expires = 0

AcquireLease(c) ==
    /\ At(c, "acquire")
    /\ IF call[c].fresh /\ Mine(c).stage \in Active /\ LeaseIsFree(c)
       THEN /\ op' = [op EXCEPT ![call[c].op].lease = c,
                                ![call[c].op].expires = Lease]
            /\ Goto(c, "load")
       ELSE op' = op /\ End(c)
    /\ UNCHANGED <<accountVars, dataVars, work, writer, faultVars>>

\* The row is read again after the lease; the last branch is not guarded.
LoadOperation(c) ==
    /\ At(c, "load")
    /\ LET stage == Mine(c).stage IN
       call' = [call EXCEPT
                  ![c].seen = Mine(c), ![c].fresh = TRUE,
                  ![c].pc = CASE stage = "quiescing" -> "work"
                              [] stage \in {"reencrypting", "blocked"} -> "select"
                              [] stage = "finalizing" -> "finalize"
                              [] OTHER -> "verify"]
    /\ UNCHANGED <<accountVars, dataVars, op, work, writer, faultVars>>

CheckWork(c) ==
    /\ At(c, "work")
    /\ Goto(c, IF work > 0 THEN "release" ELSE "candidate")
    /\ UNCHANGED <<accountVars, dataVars, op, work, writer, faultVars>>

ReleaseLease(c) ==
    /\ At(c, "release")
    /\ IF Holds(c) THEN Commit(c, Mine(c)) ELSE op' = op /\ End(c)
    /\ UNCHANGED <<accountVars, dataVars, work, writer, faultVars>>

GenerateCandidate(c) ==
    /\ At(c, "candidate")
    /\ IF live = NoKey THEN End(c)
                       ELSE call' = [call EXCEPT ![c].key = live, ![c].pc = "persist"]
    /\ UNCHANGED <<accountVars, dataVars, op, work, writer, faultVars>>

PersistCandidate(c) ==
    /\ At(c, "persist")
    /\ LET i == call[c].op
           base == call[c].key.version
       IN IF /\ Holds(c) /\ Mine(c).stage = "quiescing"
             /\ fence = i /\ status = "frozen" /\ live.version = base
          THEN Commit(c, [Mine(c) EXCEPT !.stage = "reencrypting", !.previous = base,
                                         !.candidate = Key(base + 1, i)])
          ELSE op' = op /\ End(c)
    /\ UNCHANGED <<accountVars, dataVars, work, writer, faultVars>>

OldRows(c) == {r \in Rows : /\ row[r] # NoRow
                            /\ row[r].key.version = call[c].seen.previous}

\* The statement that closes the stage asks for the lease only.
SelectChunk(c) ==
    /\ At(c, "select")
    /\ IF live.version # call[c].seen.previous
       THEN End(c)
       ELSE \E chunk \in SUBSET OldRows(c) :
               /\ Cardinality(chunk) = IF Cardinality(OldRows(c)) < BatchSize
                                       THEN Cardinality(OldRows(c)) ELSE BatchSize
               /\ call' = [call EXCEPT ![c].rows = {<<r, row[r]>> : r \in chunk},
                                       ![c].pc = IF chunk = {} THEN "close" ELSE "chunk"]
    /\ UNCHANGED <<accountVars, dataVars, op, work, writer, faultVars>>

Reencrypting(c) == Holds(c) /\ Mine(c).stage \in {"reencrypting", "blocked"}

CloseReencryption(c) ==
    /\ At(c, "close")
    /\ IF Reencrypting(c)
       THEN Commit(c, [Mine(c) EXCEPT !.stage = "finalizing"])
       ELSE op' = op /\ End(c)
    /\ UNCHANGED <<accountVars, dataVars, work, writer, faultVars>>

\* A row of the chunk that is as it was read, or gone, does not fail the batch.
Unmoved(c) == \A p \in call[c].rows :
    row[p[1]] = p[2] \/ row[p[1]].key.version # call[c].seen.previous
\* Mutant: the row is written as it was read, whether it is there or not.
RekeyedBlindly(c, r) ==
    IF \E p \in call[c].rows : p[1] = r
    THEN Row(call[c].seen.candidate, (CHOOSE p \in call[c].rows : p[1] = r)[2].value)
    ELSE row[r]

Rekeyed(c, r) == IF <<r, row[r]>> \in call[c].rows
                 THEN Row(call[c].seen.candidate, row[r].value) ELSE row[r]

\* Mutant: the checkpoint of the chunk is not fenced.
CommitChunkUnfenced(c) ==
    /\ At(c, "chunk")
    /\ row' = [r \in Rows |-> Rekeyed(c, r)]
    /\ Commit(c, [Mine(c) EXCEPT !.stage = "reencrypting",
                                 !.count = @ + Cardinality(call[c].rows)])
    /\ UNCHANGED <<accountVars, writes, work, writer, faultVars>>

CommitChunk(c) ==
    /\ At(c, "chunk")
    /\ IF Reencrypting(c) /\ fence = call[c].op /\ Unmoved(c)
       THEN /\ row' = [r \in Rows |-> Rekeyed(c, r)]
            /\ Commit(c, [Mine(c) EXCEPT !.stage = "reencrypting",
                                         !.count = @ + Cardinality(call[c].rows)])
       ELSE UNCHANGED <<row, op>> /\ End(c)
    /\ UNCHANGED <<accountVars, writes, work, writer, faultVars>>

\* The old key is destroyed and the candidate becomes live.
FinalizeRotation(c) ==
    /\ At(c, "finalize")
    /\ IF /\ Holds(c) /\ Mine(c).stage = "finalizing" /\ fence = call[c].op
          /\ OldRows(c) = {}
       THEN /\ live' = call[c].seen.candidate
            /\ Commit(c, [Mine(c) EXCEPT !.stage = "verifying"])
       ELSE UNCHANGED <<live, op>> /\ End(c)
    /\ UNCHANGED <<status, fence, command, dataVars, work, writer, faultVars>>

\* Mutant: a rotation always leaves the account active.
Reactivated(o) == "active"

Restored(o) == IF o.original = "active" THEN "active" ELSE status

VerifyRotation(c) ==
    /\ At(c, "verify")
    /\ IF /\ Holds(c) /\ Mine(c).stage = "verifying" /\ fence = call[c].op
          /\ live.version = call[c].seen.candidate.version
       THEN /\ Commit(c, [Mine(c) EXCEPT !.stage = "succeeded", !.candidate = NoKey])
            /\ fence' = 0
            /\ status' = IF status = "frozen" THEN Restored(Mine(c)) ELSE status
       ELSE UNCHANGED <<op, fence, status>> /\ End(c)
    /\ UNCHANGED <<live, command, dataVars, work, writer, faultVars>>

\* What settleOperationFailure makes of a step that threw.
SettleFailure(c) ==
    /\ At(c, "settle")
    /\ LET i == call[c].op IN
       IF Mine(c).lease # c
       THEN UNCHANGED <<op, fence, status>> /\ End(c)
       ELSE IF Mine(c).count > 0
       THEN /\ Commit(c, [Mine(c) EXCEPT !.stage = "blocked"])
            /\ UNCHANGED <<fence, status>>
       ELSE /\ Commit(c, [Mine(c) EXCEPT !.stage = "failed", !.candidate = NoKey])
            /\ fence' = IF fence = i THEN 0 ELSE fence
            /\ status' = IF fence = i THEN Restored(Mine(c)) ELSE status
    /\ UNCHANGED <<live, command, dataVars, work, writer, faultVars>>

\* Only the look for running work is awaited inside the try: what a later
\* operation throws goes past the handler, as if the invocation had died.
Throw(c) ==
    /\ At(c, "work") \/ call[c].pc \in LaterSteps
    /\ throws + deaths < MaxFaults
    /\ throws' = throws + 1
    /\ IF At(c, "work") THEN Goto(c, "settle") ELSE End(c)
    /\ UNCHANGED <<accountVars, dataVars, op, work, writer, deaths>>

Die(c) ==
    /\ ~At(c, "idle")
    /\ throws + deaths < MaxFaults
    /\ deaths' = deaths + 1
    /\ End(c)
    /\ UNCHANGED <<accountVars, dataVars, op, work, writer, throws>>

\* Mutant: a timer runs past zero.
LessForever(n) == n - 1

Less(n) == IF n = 0 THEN 0 ELSE n - 1
Tick == /\ op' = [i \in Ops |-> [op[i] EXCEPT !.expires = Less(@), !.notBefore = Less(@)]]
        /\ work' = Less(work)
        /\ UNCHANGED <<accountVars, dataVars, call, writer, faultVars>>
-----------------------------------------------------------------------------
OperatorStep(c) ==
    \/ AcquireLease(c) \/ LoadOperation(c) \/ CheckWork(c) \/ ReleaseLease(c)
    \/ GenerateCandidate(c) \/ PersistCandidate(c) \/ SelectChunk(c)
    \/ CloseReencryption(c) \/ CommitChunk(c) \/ FinalizeRotation(c)
    \/ VerifyRotation(c) \/ SettleFailure(c)

Next == \/ \E i \in Ops : StartRotation(i)
        \/ \E w \in Writers : LoadKey(w) \/ \E r \in Rows : WriteRow(w, r)
        \/ \E r \in Rows : PurgeRow(r)
        \/ ClaimWork \/ SealDeletion \/ ReserveDeletion
        \/ \E c \in Calls : \/ \E i \in Ops : BeginStep(c, i)
                            \/ OperatorStep(c) \/ Throw(c) \/ Die(c)
        \/ Tick

Spec == Init /\ [][Next]_vars

\* The command-line tool steps an operation until it has ended, and resumes
\* one that failed; a Worker call runs to its end unless it dies.
Fairness == /\ WF_vars(Tick)
            /\ \A c \in Calls : /\ WF_vars(OperatorStep(c))
                               /\ \A i \in Ops : WF_vars(BeginStep(c, i))
FairSpec == Spec /\ Fairness
-----------------------------------------------------------------------------
Keys == [version : Nat, by : Nat]
RowType == [key : Keys, value : Nat]
OpType == [stage : Active \cup {"none", "succeeded", "failed", "abandoned"},
           original : {"active", "frozen"}, previous : Nat, candidate : Keys,
           count : Nat, lease : Calls \cup {NoCall}, expires : 0 .. Lease,
           notBefore : 0 .. Quiescence]
CallType == [pc : LaterSteps \cup {"idle", "acquire", "load", "work", "settle"},
             op : Ops, fresh : BOOLEAN, seen : OpType, key : Keys,
             rows : SUBSET (Rows \X RowType)]

\* The type invariant.
TypeOK == /\ status \in {"active", "frozen", "pending"}
          /\ fence \in {0} \cup Ops
          /\ live \in Keys /\ command \in Keys
          /\ row \in [Rows -> RowType]
          /\ op \in [Ops -> OpType]
          /\ work \in 0 .. WorkLease
          /\ call \in [Calls -> CallType]
          /\ writer \in [Writers -> [pc : {"idle", "sealed"}, key : Keys]]
          /\ writes \in Nat /\ throws \in Nat /\ deaths \in Nat

Readable(key) == \/ key = live
                 \/ \E i \in Ops : /\ op[i].stage \in Active
                                   /\ key = op[i].candidate

\* Whatever the order in which steps, writers, purges and takeovers of the
\* lease interleave, no ciphertext of an account that is not being deleted is
\* under a key that is lost: it is under the live key, or under the candidate
\* that a rotation in progress still keeps (batches of reencryptChunk,
\* finalizeRotation and buildCryptoWriteFence).
RowsAreReadable ==
    status # "pending" => \A r \in Rows : row[r] # NoRow => Readable(row[r].key)

\* Once the walk found nothing under the old key no row comes back under it:
\* the statement that ends the walk checks the lease only, and finalization
\* would be refused for ever.
WalkStaysClosed ==
    \A i \in Ops : op[i].stage \in {"finalizing", "verifying"} =>
        \A r \in Rows : row[r].key.version # op[i].previous

\* The fence of an account is the id of its rotation in progress, and the
\* account is frozen exactly because of it: no settlement and no deletion
\* leaves one without the other.
FenceHasRotation ==
    /\ fence # 0 => op[fence].stage \in Active /\ status = "frozen"
    /\ \A i \in Ops : op[i].stage \in Active => fence = i

\* A rotation that has ended, well or not, gives the account back the status
\* it had.
AccountIsRestored ==
    \A i \in Ops : op[i].stage \in {"succeeded", "failed"} /\ fence = 0 =>
                      status \in {op[i].original, "pending"}

\* An operation that has ended keeps its stage, its candidate and its count: a
\* call that lost its lease, to a takeover or to a deletion, commits nothing.
SettledIsFinal ==
    [][\A i \in Ops : op[i].stage \in {"succeeded", "failed", "abandoned"} =>
          /\ op'[i].stage = op[i].stage
          /\ op'[i].candidate = op[i].candidate /\ op'[i].count = op[i].count]_vars

\* Rekeying changes no value and brings no purged row back, although a chunk is
\* decrypted and sealed again outside of the batch that writes it.
RekeyingKeepsData ==
    [][(\E c \in Calls : OperatorStep(c)) =>
          \A r \in Rows : /\ row'[r].value = row[r].value
                          /\ row'[r] = NoRow <=> row[r] = NoRow]_vars

\* A rotation that was started ends, although invocations die with the lease
\* and steps throw.
RotationEnds == \A i \in Ops : op[i].stage \in Active ~> op[i].stage \notin Active

\* "Account deletion is the sole exception: it atomically changes the account to
\* pending_deletion, [...] and proceeds with cryptographic erasure"
\* (docs/deploy/user-dek-rotation.md:66): the command that the deletion job
\* decrypts is under a key that was not destroyed.
DeletionCommandOpens == status = "pending" => command = live

\* "If the operation reports blocked, [...] repair the reported closed error
\* class, and resume" (docs/deploy/user-dek-rotation.md:38): a step that failed
\* is settled, so that no lease is left to a call that has ended.
FailedStepIsSettled ==
    \A i \in Ops : op[i].lease # NoCall => ~At(op[i].lease, "idle")
=============================================================================
