-------------------------- MODULE CodexProviderJobs --------------------------
(***************************************************************************)
(* The durable provider-job table of the Codex control plane:              *)
(* apps/api/src/db/codex-provider-jobs.ts over the tables                  *)
(* codex_provider_jobs and codex_provider_response_uploads.                *)
(*                                                                         *)
(* One action per exported operation; each is one guarded D1 statement (or *)
(* one batch).  Callers sample `now` once and hand the same instant to     *)
(* several statements, so every operation takes the caller's instant `at`, *)
(* which may be older than the clock by at most MaxLag.                    *)
(***************************************************************************)
EXTENDS Integers, FiniteSets

CONSTANTS Jobs,             \* job ids; one per immutable coordinate
          Tokens,           \* lease tokens (random, never minted twice)
          NoToken,          \* SQL NULL in a token column
          LeaseLength,      \* CODEX_PROVIDER_LEASE_MS
          UploadExtension,  \* TERMINAL_UPLOAD_LEASE_EXTENSION_MS
          RetryDelay,       \* the delay a released lease waits
          MaxLag,           \* how old a caller's sampled instant may be
          MaxTime           \* bound on the clock

ASSUME TokenAssumption == NoToken \notin Tokens
ASSUME TimeAssumption == /\ LeaseLength \in Nat \ {0}
                         /\ UploadExtension \in Nat \ {0}
                         /\ RetryDelay \in Nat
                         /\ MaxLag \in Nat
                         /\ MaxTime \in Nat

VARIABLES now,      \* wall clock; instants start at 1 so that 0 is SQL NULL
          row,      \* row[j]: the columns of job j's row
          issued,   \* issued[t]: the job token t was minted for, {} if unminted
          uploads   \* rows <<job, lease token>> of the upload inventory

tableVars == <<row, issued, uploads>>
jobVars == <<now, row, issued, uploads>>

Statuses == {"absent", "pending", "leased", "completed", "failed", "cancelled"}
Terminal == {"completed", "failed", "cancelled"}

Absent == [status |-> "absent", token |-> NoToken, leaseUntil |-> 0,
           availableAt |-> 0, completedAt |-> 0, answer |-> NoToken]

\* Instants a caller that is still running may have sampled.
Sampled == {t \in 1 .. now : now <= t + MaxLag}

\* Mutant: the reclaim arm forgets to compare the expiry.
ClaimableWhileLeased(j, at) ==
    \/ row[j].status = "pending" /\ row[j].availableAt <= at
    \/ row[j].status = "leased"

Claimable(j, at) ==
    \/ row[j].status = "pending" /\ row[j].availableAt <= at
    \/ row[j].status = "leased" /\ row[j].leaseUntil <= at

\* Mutant: the lease token is not compared.
HoldsAnyLease(j, t, at) == /\ row[j].status = "leased"
                           /\ row[j].leaseUntil > at

\* status = 'leased' AND lease_token_hash = ? AND lease_expires_at > ?
HoldsLease(j, t, at) == /\ row[j].status = "leased"
                        /\ row[j].token = t
                        /\ row[j].leaseUntil > at

Unissued == {t \in Tokens : issued[t] = {}}

JobsInit == /\ now = 1
            /\ row = [j \in Jobs |-> Absent]
            /\ issued = [t \in Tokens |-> {}]
            /\ uploads = {}

EnqueueJob(j, at) ==
    /\ row[j].status = "absent"
    /\ row' = [row EXCEPT ![j] = [Absent EXCEPT !.status = "pending",
                                                !.availableAt = at]]
    /\ UNCHANGED <<issued, uploads>>

\* The candidate SELECT and the guarded UPDATE retry up to four times; the
\* UPDATE repeats every condition of the SELECT, so that a claim is the UPDATE
\* and the SELECT's order only decides which claimable job is tried.
ClaimJob(j, t, at) ==
    /\ Claimable(j, at)
    /\ t \in Unissued
    /\ row' = [row EXCEPT ![j] =
              [@ EXCEPT !.status = "leased",
                        !.token = t,
                        !.leaseUntil = at + LeaseLength]]
    /\ issued' = [issued EXCEPT ![t] = {j}]
    /\ UNCHANGED uploads

Stretched(until, at) ==
    IF until < at + UploadExtension THEN at + UploadExtension ELSE until

\* Mutant: the remaining lease is left as it is.
ReserveUploadUnstretched(j, t, at) ==
    /\ HoldsLease(j, t, at)
    /\ uploads' = uploads \cup {<<j, t>>}
    /\ UNCHANGED <<row, issued>>

\* Mutant: the inventory row is not written with the reservation.
ReserveUploadUnlisted(j, t, at) ==
    /\ HoldsLease(j, t, at)
    /\ row' = [row EXCEPT ![j] =
                  [@ EXCEPT !.leaseUntil = Stretched(row[j].leaseUntil, at)]]
    /\ UNCHANGED <<issued, uploads>>

\* The lease is stretched, never shortened, and the inventory row is
\* inserted in the same batch; INSERT OR IGNORE makes it a set union.
ReserveUpload(j, t, at) ==
    /\ HoldsLease(j, t, at)
    /\ row' = [row EXCEPT ![j] =
                  [@ EXCEPT !.leaseUntil = Stretched(row[j].leaseUntil, at)]]
    /\ uploads' = uploads \cup {<<j, t>>}
    /\ UNCHANGED issued

\* The owner's account is no longer active: the first statement of the batch
\* changes nothing and the caller is refused, but the second statement does
\* not repeat that condition and inventories the upload all the same.
RefuseUpload(j, t, at) ==
    /\ HoldsLease(j, t, at)
    /\ uploads' = uploads \cup {<<j, t>>}
    /\ UNCHANGED <<row, issued>>

\* response_object_key is the key of the presented token's object, and
\* failure_code what was presented with it: `answer` names that token.
Settled(j, t, status, at) ==
    row' = [row EXCEPT ![j] =
              [@ EXCEPT !.status = status, !.completedAt = at, !.answer = t]]

\* Mutant: a runner whose lease another one took over still lands its answer.
CompleteJobDisplaced(j, t, at) ==
    /\ HoldsAnyLease(j, t, at)
    /\ issued[t] = {j}
    /\ Settled(j, t, "completed", at)
    /\ UNCHANGED <<issued, uploads>>

CompleteJob(j, t, at) == /\ HoldsLease(j, t, at)
                         /\ Settled(j, t, "completed", at)
                         /\ UNCHANGED <<issued, uploads>>

FailJob(j, t, at) == /\ HoldsLease(j, t, at)
                     /\ Settled(j, t, "failed", at)
                     /\ UNCHANGED <<issued, uploads>>

\* Mutant: the status of a waiting Daily job is written.
ReleaseLeaseAsQueued(j, t, at) ==
    /\ HoldsLease(j, t, at)
    /\ row' = [row EXCEPT ![j] =
              [@ EXCEPT !.status = "queued",
                        !.token = NoToken,
                        !.leaseUntil = 0,
                        !.availableAt = at + RetryDelay]]
    /\ UNCHANGED <<issued, uploads>>

\* Mutant: the released row keeps the token of its last holder.
ReleaseLeaseKeepingToken(j, t, at) ==
    /\ HoldsLease(j, t, at)
    /\ row' = [row EXCEPT ![j] =
              [@ EXCEPT !.status = "pending",
                        !.leaseUntil = 0,
                        !.availableAt = at + RetryDelay]]
    /\ UNCHANGED <<issued, uploads>>

ReleaseLease(j, t, at) ==
    /\ HoldsLease(j, t, at)
    /\ row' = [row EXCEPT ![j] =
              [@ EXCEPT !.status = "pending",
                        !.token = NoToken,
                        !.leaseUntil = 0,
                        !.availableAt = at + RetryDelay]]
    /\ UNCHANGED <<issued, uploads>>

Cancelled(j, at) ==
    row' = [row EXCEPT ![j] =
              [@ EXCEPT !.status = "cancelled",
                        !.token = NoToken,
                        !.leaseUntil = 0,
                        !.completedAt = at]]

CancelJob(j, t, at) == /\ HoldsLease(j, t, at)
                       /\ Cancelled(j, at)
                       /\ UNCHANGED <<issued, uploads>>

\* Mutant: the statement names the job by its id alone.
CancelAnyJob(j, at) ==
    /\ row[j].status # "absent"
    /\ Cancelled(j, at)
    /\ UNCHANGED <<issued, uploads>>

CancelStaleJob(j, at) ==
    /\ \/ row[j].status = "pending"
       \/ row[j].status = "leased" /\ row[j].leaseUntil <= at
    /\ Cancelled(j, at)
    /\ UNCHANGED <<issued, uploads>>

\* Maintenance deletes a terminal row it read as <<status, completedAt>>;
\* the inventory rows of the job go with it (ON DELETE CASCADE).
DeleteJob(j, status, completedAt) ==
    /\ status \in Terminal
    /\ row[j].status = status
    /\ row[j].completedAt = completedAt
    /\ row' = [row EXCEPT ![j] = Absent]
    /\ uploads' = {u \in uploads : u[1] # j}
    /\ UNCHANGED issued

\* A response upload is garbage unless its job committed it or its lease lives.
UploadIsCommitted(u) == /\ row[u[1]].status = "completed"
                        /\ row[u[1]].answer = u[2]

\* Mutant: an upload is garbage as soon as its lease is over.
UploadIsStaleOnceReleased(u, at) == ~HoldsLease(u[1], u[2], at)

UploadIsStale(u, at) == /\ ~UploadIsCommitted(u)
                        /\ ~HoldsLease(u[1], u[2], at)

DeleteUpload(u, at) == /\ u \in uploads
                       /\ UploadIsStale(u, at)
                       /\ uploads' = uploads \ {u}
                       /\ UNCHANGED <<row, issued>>

Tick == /\ now < MaxTime
        /\ now' = now + 1
        /\ UNCHANGED tableVars

Operation(j, at) ==
    \/ EnqueueJob(j, at)
    \/ \E t \in Tokens :
          \/ ClaimJob(j, t, at)
          \/ ReserveUpload(j, t, at)
          \/ RefuseUpload(j, t, at)
          \/ CompleteJob(j, t, at)
          \/ FailJob(j, t, at)
          \/ ReleaseLease(j, t, at)
          \/ CancelJob(j, t, at)
          \/ DeleteUpload(<<j, t>>, at)
    \/ CancelStaleJob(j, at)
    \/ \E s \in Terminal : DeleteJob(j, s, row[j].completedAt)

JobsNext == \/ Tick
            \/ \E j \in Jobs, at \in Sampled : Operation(j, at) /\ UNCHANGED now

JobsSpec == JobsInit /\ [][JobsNext]_jobVars
-----------------------------------------------------------------------------
RowType == [status : Statuses, token : Tokens \cup {NoToken}, leaseUntil : Nat,
            availableAt : Nat, completedAt : Nat,
            answer : Tokens \cup {NoToken}]

\* Every column holds a value of its kind.
TypeOK == /\ now \in Nat \ {0}
          /\ row \in [Jobs -> RowType]
          /\ issued \in [Tokens -> SUBSET Jobs]
          /\ uploads \subseteq Jobs \X Tokens

\* A row carries a token exactly in the states that the table's CHECK
\* constraint demands one, so that no operation aborts on the constraint,
\* and the token was minted for that very job: two jobs never share one.  A
\* verdict on record came with the token that the row carries.
TokenDiscipline ==
    \A j \in Jobs :
       /\ IF row[j].status \in {"leased", "completed", "failed"}
          THEN row[j].token \in Tokens /\ issued[row[j].token] = {j}
          ELSE row[j].token = NoToken
       /\ row[j].answer = IF row[j].status \in {"completed", "failed"}
                          THEN row[j].token ELSE NoToken

\* An upload is inventoried under a token minted for its job, so the object
\* keys of two leases, and of two jobs, never collide.
UploadsAreFenced == \A u \in uploads : issued[u[2]] = {u[1]}

SeizesOnlyExpired ==
    \A j \in Jobs : /\ row[j].status = "leased"
                   /\ row'[j].status = "leased"
                   /\ row'[j].token # row[j].token
                   => row[j].leaseUntil <= now
KeepsVerdicts ==
    \A j \in Jobs : row[j].status \in Terminal
                    => row'[j] = row[j] \/ row'[j] = Absent

\* A claim takes a leased job away from its holder only after the lease ran
\* out by the wall clock, however old the instant the claimer sampled.
NoSeizureOfLiveLease == [][SeizesOnlyExpired]_jobVars

\* A verdict is final: a terminal row is never rewritten, only deleted.
TerminalIsFinal == [][KeepsVerdicts]_jobVars

\* The table implements the exchange: the answer that lands was presented under
\* the present holder's token; a displaced or released one settles nothing.
phase == [j \in Jobs |->
            CASE row[j].status = "absent" -> "absent"
              [] row[j].status \in {"pending", "leased"} -> "open"
              [] row[j].status \in {"completed", "failed"} -> "settled"
              [] OTHER -> "withdrawn"]
Exchange == INSTANCE ProviderExchange
               WITH holder <- [j \in Jobs |-> row[j].token],
                    verdict <- [j \in Jobs |-> row[j].answer],
                    spent <- {t \in Tokens : issued[t] # {}}
ImplementsExchange == Exchange!Spec
=============================================================================
