--------------------------- MODULE PatternStages ---------------------------
(***************************************************************************)
(* One reader's Pattern generations: reservation (pattern-enqueue.ts), the *)
(* staged executor (pattern-execute.ts, pattern-stage-protocol.ts), the    *)
(* sweep that fails a generation claimed too often (pattern-sweep.ts),     *)
(* publication (pattern-publication-proof.ts) and the two things a reader  *)
(* may do meanwhile: revoke consent and delete the Pattern                 *)
(* (pattern-lifecycle.ts).                                                 *)
(*                                                                         *)
(* The queue is at least once and unordered, the sweep and the operator's  *)
(* reconcile send again whatever looks lost, so a delivery for the current *)
(* stage generation may start at any moment (Claim); one for an older stage *)
(* generation aborts on its probe and changes nothing.  Time is two        *)
(* nondeterministic facts: a lease runs out at any moment (Expire), and a  *)
(* back-off is over at any moment.  The switch that pauses generation is a *)
(* binding of the deployment and each read of it may answer either way.    *)
(***************************************************************************)
EXTENDS PatternClaims, PatternProtocol, FiniteSets

CONSTANTS
  Gens,         \* generation ids, in the order they are made; each has one row in jobs
  Execs,        \* deliveries that may run at the same time; also claim tokens
  NoExec,       \* no claim token
  MaxAttempts,  \* planner_attempts_max, writer_attempts_max, verifier_attempts_max
  MaxConsents,  \* bound on consent versions
  MaxSource     \* bound on deployed creation sources

ASSUME PatternAssumption ==
  /\ Gens \subseteq Nat /\ IsFiniteSet(Gens)
  /\ NoGen \notin Gens
  /\ NoExec \notin Execs
  /\ MaxAttempts \in [Passes -> Nat \ {0}]
  /\ MaxConsents \in Nat
  /\ MaxSource \in Nat

VARIABLES
  job,      \* jobs: status, claim token, lease run out, MAX_STAGE_CLAIMS taken
  dom,      \* pattern_generation_jobs: stage, stage generation, attempts
  command,  \* the frozen command: reason, consent version, creation source
  asked,    \* provider jobs requested, by pass, stage generation and attempt
  claim,    \* pattern_generation_claims
  document, \* pattern_documents: the generation whose document is stored
  consent,  \* the latest row of consents: its version, and whether it grants
  source,   \* PATTERN_CREATION_SOURCE_HASH of the running deployment
  exec,     \* executePatternJob calls in flight
  sweep,    \* failExhaustedPatternJob between its read and its batch
  post,     \* enqueuePatternGeneration between its reads and its batch
  erase     \* deleteCurrentPattern between its read and its batch

vars == <<job, dom, command, asked, claim, document, consent, source, exec, sweep, post, erase>>

JobStatuses == {"none", "queued", "running", "failed", "cancelled", "succeeded"}

Row == [stage : LiveStages \cup EndStages, sg : Nat, attempts : [Passes -> Nat]]

NewRow == [stage |-> "reserved", sg |-> 0, attempts |-> [p \in Passes |-> 0]]

NewJob == [status |-> "queued", token |-> NoExec, expired |-> FALSE, worn |-> FALSE]

NoJob == [NewJob EXCEPT !.status = "none"]

IdleExec == [pc |-> "idle", gen |-> NoGen, row |-> NewRow, prior |-> NoGen]

IdleSweep == [pc |-> "idle", gen |-> NoGen, row |-> NewRow]

IdlePost == [pc |-> "idle", reason |-> "first_open", grant |-> 0, source |-> 0]

IdleErase == [pc |-> "idle", document |-> NoGen]

Reasons == {"first_open", "source_update"}

Exists(g) == job[g].status # "none"

Live(g) == Exists(g) /\ dom[g].stage \in LiveStages

TypeOK ==
  /\ job \in [Gens -> [status : JobStatuses, token : Execs \cup {NoExec},
                       expired : BOOLEAN, worn : BOOLEAN]]
  /\ dom \in [Gens -> Row]
  /\ command \in [Gens -> [reason : Reasons, consent : Nat, source : Nat]]
  /\ asked \in [Gens -> SUBSET (Passes \X Nat \X Nat)]
  /\ claim \in ClaimRecord(Gens)
  /\ document \in Gens \cup {NoGen}
  /\ consent \in [version : Nat, granted : BOOLEAN]
  /\ source \in 0 .. MaxSource
  /\ exec \in [Execs -> [pc : {"idle", "gate", "pass", "cancel", "publish"},
                         gen : Gens \cup {NoGen}, row : Row, prior : Gens \cup {NoGen}]]
  /\ sweep \in [pc : {"idle", "fail"}, gen : Gens \cup {NoGen}, row : Row]
  /\ post \in [pc : {"idle", "batch"}, reason : Reasons, grant : Nat, source : Nat]
  /\ erase \in [pc : {"idle", "batch"}, document : Gens \cup {NoGen}]

Init ==
  /\ job = [g \in Gens |-> NoJob]
  /\ dom = [g \in Gens |-> NewRow]
  /\ command = [g \in Gens |-> [reason |-> "first_open", consent |-> 0, source |-> 0]]
  /\ asked = [g \in Gens |-> {}]
  /\ claim = NoClaim
  /\ document = NoGen
  /\ consent = [version |-> 0, granted |-> FALSE]
  /\ source = 0
  /\ exec = [e \in Execs |-> IdleExec]
  /\ sweep = IdleSweep
  /\ post = IdlePost
  /\ erase = IdleErase

----------------------------------------------------------------------------
(* Reservation: POST /pattern and POST /pattern/regeneration *)

\* Nothing stops a first opening that finds the claim absent or returned; one
\* that finds it reserved replays it, one that finds it consumed is refused.
MayOpen == CanReserve(claim)

\* A replacement needs a document of an older creation source and a consent.
MayRegenerate ==
  /\ CanRegenerate(claim)
  /\ document # NoGen
  /\ command[document].source # source
  /\ consent.granted

ReadReservation(reason) ==
  /\ post.pc = "idle"
  /\ IF reason = "first_open" THEN MayOpen ELSE MayRegenerate
  /\ ~consent.granted => consent.version < MaxConsents
  /\ \E g \in Gens : ~Exists(g)
  /\ post' = [pc |-> "batch", reason |-> reason, source |-> source,
              grant |-> IF consent.granted THEN consent.version ELSE 0]
  /\ UNCHANGED <<job, dom, command, asked, claim, document, consent, source, exec, sweep, erase>>

\* The batch: consent when none was found, the claim, the job and its domain
\* row; the probe after the claim's UPDATE aborts it all when another won.
\* The grant it read is not probed again.
CommitReservation ==
  /\ post.pc = "batch"
  /\ post' = IdlePost
  /\ IF post.reason = "first_open" THEN CanReserve(claim) ELSE CanRegenerate(claim)
  /\ LET granted == IF post.grant = 0 THEN consent.version + 1 ELSE post.grant
     IN \E g \in Gens :
          /\ ~Exists(g)
          /\ \A h \in Gens : ~Exists(h) => g <= h
          /\ job' = [job EXCEPT ![g] = NewJob]
          /\ command' = [command EXCEPT ![g] =
               [reason |-> post.reason, consent |-> granted, source |-> post.source]]
          /\ claim' = IF post.reason = "first_open" THEN Reserve(claim, g) ELSE Regenerate(claim, g)
          /\ consent' = IF post.grant = 0 THEN [version |-> granted, granted |-> TRUE] ELSE consent
  /\ UNCHANGED <<dom, asked, document, source, exec, sweep, erase>>

\* The batch aborts, on the claim or for any other reason, or the request ends.
DropReservation ==
  /\ post.pc = "batch"
  /\ post' = IdlePost
  /\ UNCHANGED <<job, dom, command, asked, claim, document, consent, source, exec, sweep, erase>>

----------------------------------------------------------------------------
(* The executor *)

\* claimStage, the delivery having named the current stage generation.  Any
\* claim may be the one that fills MAX_STAGE_CLAIMS.
Claim(e, g) ==
  /\ exec[e].pc = "idle"
  /\ Live(g)
  /\ job[g].status = "queued" \/ (job[g].status = "running" /\ job[g].expired)
  /\ \E worn \in {job[g].worn, TRUE} :
       job' = [job EXCEPT ![g] =
         [status |-> "running", token |-> e, expired |-> FALSE, worn |-> worn]]
  /\ exec' = [exec EXCEPT ![e] = [IdleExec EXCEPT !.pc = "gate", !.gen = g, !.row = dom[g]]]
  /\ UNCHANGED <<dom, command, asked, claim, document, consent, source, sweep, post, erase>>

\* eligibility
Eligible(g) ==
  /\ command[g].source = source
  /\ consent.granted /\ consent.version = command[g].consent
  /\ IF command[g].reason = "source_update"
     THEN claim.status = "accepted" /\ claim.pending = g /\ document # NoGen
     ELSE claim.status = "reserved" /\ claim.active = g

CheckEligibility(e) ==
  /\ exec[e].pc = "gate"
  /\ exec' = [exec EXCEPT ![e].pc = IF Eligible(exec[e].gen) THEN "pass" ELSE "cancel"]
  /\ UNCHANGED <<job, dom, command, asked, claim, document, consent, source, sweep, post, erase>>

Attempt(row) == row.attempts[PassOf(row.stage)]

Ceiling(row) == MaxAttempts[PassOf(row.stage)]

Running(e) == exec[e].pc = "pass" /\ Attempt(exec[e].row) < Ceiling(exec[e].row)

\* The pass requests its provider job, or finds the one requested before.
AskProvider(e) ==
  /\ Running(e)
  /\ Coordinate(exec[e].row) \notin asked[exec[e].gen]
  /\ asked' = [asked EXCEPT ![exec[e].gen] = @ \cup {Coordinate(exec[e].row)}]
  /\ UNCHANGED <<job, dom, command, claim, document, consent, source, exec, sweep, post, erase>>

\* An answer may be there as soon as it was asked for; one stored as a response
\* artifact is adopted.
Answered(e) == Coordinate(exec[e].row) \in asked[exec[e].gen]

\* ownershipProbes
Owns(e) ==
  LET g == exec[e].gen IN
  /\ job[g].status = "running" /\ job[g].token = e
  /\ dom[g].sg = exec[e].row.sg /\ dom[g].stage \in LiveStages

ReleaseFor(c, g) ==
  IF command[g].reason = "source_update" THEN ReleaseRegeneration(c, g) ELSE ReleaseUnconsumed(c, g)

EndJob(g, status) == [job EXCEPT ![g].status = status, ![g].token = NoExec, ![g].expired = FALSE]

\* commitPatternTransition
Commit(e, t) ==
  LET g == exec[e].gen IN
  /\ Owns(e)
  /\ job' = EndJob(g, JobStatusAfter(t))
  /\ dom' = [dom EXCEPT ![g] = After(exec[e].row, t)]
  /\ claim' = IF Releases(t) THEN ReleaseFor(claim, g) ELSE claim
  /\ exec' = [exec EXCEPT ![e] = IdleExec]
  /\ UNCHANGED <<command, asked, document, consent, source, sweep, post, erase>>

Cancel(e) == exec[e].pc = "cancel" /\ Commit(e, "cancel")

\* An attempt beyond its ceiling, an input refused, an artifact gone, a
\* configuration refused and any throw all end the generation.
Fail(e) == exec[e].pc = "pass" /\ Commit(e, "fail")

\* awaitPatternProvider: give the claim up until the verdict's nudge
AwaitProvider(e) == Running(e) /\ Answered(e) /\ Commit(e, "await")

\* handlePassFailure, and the rejection of an answer, while attempts are left
RetryPass(e) ==
  /\ Running(e)
  /\ Attempt(exec[e].row) + 1 < Ceiling(exec[e].row)
  /\ Commit(e, "retry")

\* An accepted plan or an accepted candidate
AdvancePass(e) ==
  /\ Running(e) /\ Answered(e)
  /\ PassOf(exec[e].row.stage) # "verifier"
  /\ Commit(e, "advance")

\* A failing verdict, or a publication safety failure, sends the candidate
\* back while a writer attempt is left.
ReturnToWriter(e) ==
  /\ Running(e) /\ Answered(e)
  /\ PassOf(exec[e].row.stage) = "verifier"
  /\ exec[e].row.attempts["writer"] + 1 < MaxAttempts["writer"]
  /\ Commit(e, "return_to_writer")

\* parkPatternGeneration, from a refused pass or from publication: it also
\* wants the lease not to have run out
Park(e) ==
  LET g == exec[e].gen IN
  /\ Running(e) \/ exec[e].pc = "publish"
  /\ Owns(e)
  /\ ~job[g].expired
  /\ job' = EndJob(g, "queued")
  /\ exec' = [exec EXCEPT ![e] = IdleExec]
  /\ UNCHANGED <<dom, command, asked, claim, document, consent, source, sweep, post, erase>>

\* A passing verdict: publishPattern reads the document it would replace and
\* writes the replay intent.
StartPublication(e) ==
  LET g == exec[e].gen IN
  /\ Running(e) /\ Answered(e)
  /\ PassOf(exec[e].row.stage) = "verifier"
  /\ exec' = [exec EXCEPT ![e].pc = "publish",
                          ![e].prior = IF command[g].reason = "source_update" THEN document ELSE NoGen]
  /\ UNCHANGED <<job, dom, command, asked, claim, document, consent, source, sweep, post, erase>>

\* Mutant: publication trusts the gate for the claim.
AuthorizedByConsent(g) == consent.granted /\ consent.version = command[g].consent

\* patternPublicationAuthorizationGuard
Authorized(g) ==
  /\ consent.granted /\ consent.version = command[g].consent
  /\ IF command[g].reason = "source_update"
     THEN claim.status = "accepted" /\ claim.pending = g /\ document # NoGen
     ELSE claim.status = "reserved" /\ claim.active = g

\* A replacement removes the document it read; a reader has one document.
RoomForDocument(e) == document = exec[e].prior

\* The publication batch
Publish(e) ==
  LET g == exec[e].gen IN
  /\ exec[e].pc = "publish"
  /\ Owns(e)
  /\ Authorized(g)
  /\ RoomForDocument(e)
  /\ document' = g
  /\ claim' = IF command[g].reason = "source_update" THEN ReleaseRegeneration(claim, g)
                                                     ELSE Accept(claim, g)
  /\ job' = EndJob(g, "succeeded")
  /\ dom' = [dom EXCEPT ![g] = After(exec[e].row, "publish")]
  /\ exec' = [exec EXCEPT ![e] = IdleExec]
  /\ UNCHANGED <<command, asked, consent, source, sweep, post, erase>>

\* The intent is not written, or the batch aborts on a probe or in passing:
\* publication is tried again later.
RetryPublication(e) == exec[e].pc = "publish" /\ Commit(e, "publication_retry")

\* A transition batch that does not commit leaves the execution nothing to do;
\* a worker may also be gone at any point.
Stop(e) ==
  /\ exec[e].pc # "idle"
  /\ exec' = [exec EXCEPT ![e] = IdleExec]
  /\ UNCHANGED <<job, dom, command, asked, claim, document, consent, source, sweep, post, erase>>

----------------------------------------------------------------------------
(* The sweep *)

Expire(g) ==
  /\ job[g].status = "running" /\ ~job[g].expired
  /\ job' = [job EXCEPT ![g].expired = TRUE]
  /\ UNCHANGED <<dom, command, asked, claim, document, consent, source, exec, sweep, post, erase>>

\* dispatchPatternJobs selects a job whose lease has run out once too often
SelectExhausted(g) ==
  /\ sweep.pc = "idle"
  /\ job[g].status = "running" /\ job[g].expired
  /\ job[g].worn
  /\ sweep' = [pc |-> "fail", gen |-> g, row |-> dom[g]]
  /\ UNCHANGED <<job, dom, command, asked, claim, document, consent, source, exec, post, erase>>

\* failExhaustedPatternJob: three statements, each with a guard of its own
FailExhausted ==
  LET g == sweep.gen IN
  /\ sweep.pc = "fail"
  /\ job' = IF job[g].status = "running" /\ job[g].expired THEN EndJob(g, "failed") ELSE job
  /\ dom' = IF /\ sweep.row.stage \in LiveStages
               /\ dom[g].sg = sweep.row.sg /\ dom[g].stage \in LiveStages
            THEN [dom EXCEPT ![g] = After(sweep.row, "fail")]
            ELSE dom
  /\ claim' = ReleaseUnconsumed(claim, g)
  /\ sweep' = IdleSweep
  /\ UNCHANGED <<command, asked, document, consent, source, exec, post, erase>>

----------------------------------------------------------------------------
(* The reader, and the deployment *)

\* Mutants: only work that a delivery has in hand is cancelled.
CancelledRunningDom ==
  [g \in Gens |-> IF Live(g) /\ job[g].status = "running" THEN After(dom[g], "cancel") ELSE dom[g]]

CancelledRunningJobs ==
  [g \in Gens |-> IF job[g].status = "running"
                  THEN [job[g] EXCEPT !.status = "cancelled", !.token = NoExec, !.expired = FALSE]
                  ELSE job[g]]

\* cancelPatternWorkStatements for the whole account
CancelledDom == [g \in Gens |-> IF Live(g) THEN After(dom[g], "cancel") ELSE dom[g]]

CancelledJobs ==
  [g \in Gens |-> IF job[g].status \in {"queued", "running"}
                  THEN [job[g] EXCEPT !.status = "cancelled", !.token = NoExec, !.expired = FALSE]
                  ELSE job[g]]

\* revokePatternGenerationConsent
RevokeConsent ==
  /\ consent.granted
  /\ consent.version < MaxConsents
  /\ consent' = [version |-> consent.version + 1, granted |-> FALSE]
  /\ dom' = CancelledDom
  /\ job' = CancelledJobs
  /\ claim' = ReleaseAllUnconsumed(ReleaseAllRegenerations(claim))
  /\ UNCHANGED <<command, asked, document, source, exec, sweep, post, erase>>

\* deleteCurrentPattern reads the document, then writes the replay intent
ReadDocument ==
  /\ erase.pc = "idle"
  /\ document # NoGen
  /\ erase' = [pc |-> "batch", document |-> document]
  /\ UNCHANGED <<job, dom, command, asked, claim, document, consent, source, exec, sweep, post>>

\* ... and removes that document with everything the reader has in flight
ErasePattern ==
  /\ erase.pc = "batch"
  /\ document' = IF document = erase.document THEN NoGen ELSE document
  /\ dom' = CancelledDom
  /\ job' = CancelledJobs
  /\ claim' = DeleteAccepted(ReleaseAllRegenerations(claim))
  /\ erase' = IdleErase
  /\ UNCHANGED <<command, asked, consent, source, exec, sweep, post>>

DropErasure ==
  /\ erase.pc = "batch"
  /\ erase' = IdleErase
  /\ UNCHANGED <<job, dom, command, asked, claim, document, consent, source, exec, sweep, post>>

\* A deployment with another creation source
DeploySource ==
  /\ source < MaxSource
  /\ source' = source + 1
  /\ UNCHANGED <<job, dom, command, asked, claim, document, consent, exec, sweep, post, erase>>

----------------------------------------------------------------------------
ExecStep(e) ==
  \/ CheckEligibility(e) \/ AskProvider(e)
  \/ Cancel(e) \/ Fail(e) \/ AwaitProvider(e) \/ RetryPass(e) \/ AdvancePass(e)
  \/ ReturnToWriter(e) \/ Park(e)
  \/ StartPublication(e) \/ Publish(e) \/ RetryPublication(e)
  \/ Stop(e)

Next ==
  \/ \E r \in Reasons : ReadReservation(r)
  \/ CommitReservation
  \/ DropReservation
  \/ \E e \in Execs, g \in Gens : Claim(e, g)
  \/ \E e \in Execs : ExecStep(e)
  \/ \E g \in Gens : Expire(g) \/ SelectExhausted(g)
  \/ FailExhausted
  \/ RevokeConsent
  \/ ReadDocument
  \/ ErasePattern
  \/ DropErasure
  \/ DeploySource

Spec == Init /\ [][Next]_vars
----------------------------------------------------------------------------
(* Properties *)

HoldsClaim(g) ==
  IF command[g].reason = "source_update"
  THEN claim.status = "accepted" /\ claim.pending = g
  ELSE claim.status = "reserved" /\ claim.active = g

\* pattern-sweep.ts: a generation claimed MAX_STAGE_CLAIMS times may be failed
\* by the sweep behind a delivery's back.
Exhausted(g) == job[g].worn

\* A generation that is still being written holds the reader's claim, so no
\* second one can be reserved beside it.  Only one the sweep gave up on while a
\* delivery took it back may have lost it (failExhaustedPatternJob releases the
\* claim whether or not it failed the stage).
LiveGenerationHoldsClaim == \A g \in Gens : Live(g) /\ ~Exhausted(g) => HoldsClaim(g)

\* The reader's one opportunity is never held by a generation that has ended:
\* each ending returns the reservation in the batch that ends the generation.
\* The replacement lane keeps a generation that the sweep failed.
ReservationIsLive ==
  /\ claim.status = "reserved" => claim.active \in Gens /\ Live(claim.active)
  /\ claim.pending # NoGen => Live(claim.pending) \/ Exhausted(claim.pending)

\* The row in jobs and the domain row end together, except for a generation
\* that the sweep failed while a delivery held a fresh lease on its job.
JobAndStageAgree ==
  \A g \in Gens : Exists(g) /\ ~Exhausted(g) =>
    (job[g].status \in {"queued", "running"} <=> dom[g].stage \in LiveStages)

\* One Pattern per chart, whatever is retried, redelivered, revoked or
\* deleted: the claim is consumed exactly when one first opening succeeded.
OnePatternPerChart ==
  LET openings == {g \in Gens : dom[g].stage = "succeeded" /\ command[g].reason = "first_open"}
  IN Cardinality(openings) = IF IsConsumed(claim) THEN 1 ELSE 0

\* A consumed claim has its document until the reader deletes it, and a stored
\* document is the one of a generation that succeeded under that claim.  Only a
\* replacement published while its predecessor was being deleted outlives the
\* claim.
DocumentMatchesClaim ==
  /\ claim.status = "accepted" => document # NoGen
  /\ document # NoGen =>
       /\ dom[document].stage = "succeeded"
       /\ \/ claim.status = "accepted"
          \/ claim.status = "deleted" /\ command[document].reason = "source_update"

\* pattern-sweep.ts counts 2 plans, 3 drafts and 2 verdicts for each draft, 11
\* provider calls in all: no redelivery, takeover or retry asks for one more.
CallsAreBounded ==
  \A g \in Gens : Cardinality(asked[g]) <=
    MaxAttempts["planner"] + MaxAttempts["writer"] * (1 + MaxAttempts["verifier"])

\* A document is stored only for the generation that holds the claim, under
\* the consent it was reserved with, however long ago that was last looked at.
PublicationIsAuthorized ==
  [][document' \notin {document, NoGen} =>
       /\ HoldsClaim(document')
       /\ consent.granted /\ consent.version = command[document'].consent]_vars

\* No batch relies on the trigger of migration 0023 to stop it: what the code
\* makes of the claim is what the trigger allows.
ClaimMovesLegally == [][GuardAllows(claim, claim')]_vars

\* pattern-lifecycle.ts: a deleted Pattern is permanently erased.
DeletedPatternIsGone == claim.status = "deleted" => document = NoGen
=============================================================================
