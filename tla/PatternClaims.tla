--------------------------- MODULE PatternClaims ---------------------------
(***************************************************************************)
(* The reader's one claim on a Pattern for a chart, as                     *)
(* apps/api/src/db/pattern-claim-transitions.ts writes it and as the       *)
(* triggers of migrations 0019 and 0023 guard it.                          *)
(*                                                                         *)
(* Each operator is one guarded UPDATE (or the INSERT of a reservation): it *)
(* maps the claim to the claim the statement leaves, which is the same     *)
(* claim when the WHERE clause matches no row.  "none" stands for a chart  *)
(* that has no claim row.  'superseded' and 'withdrawn' belong to chart    *)
(* correction and to ontology recall, which are not modelled.              *)
(***************************************************************************)
CONSTANT NoGen

ClaimStatuses == {"none", "available", "reserved", "accepted", "deleted"}

ClaimRecord(Gens) ==
  [status : ClaimStatuses, active : Gens \cup {NoGen}, pending : Gens \cup {NoGen}]

NoClaim == [status |-> "none", active |-> NoGen, pending |-> NoGen]

\* isConsumedStatus
IsConsumed(c) == c.status \in {"accepted", "deleted"}

\* reservePatternClaim, for an absent claim and for a released one
CanReserve(c) == c.status \in {"none", "available"}

Reserve(c, g) == [c EXCEPT !.status = "reserved", !.active = g]

\* reservePatternRegeneration: the accepted claim keeps its document
CanRegenerate(c) == c.status = "accepted" /\ c.pending = NoGen

Regenerate(c, g) == [c EXCEPT !.pending = g]

\* Mutant: writes a status the table does not have.
ReleaseAsReleased(c, g) ==
  IF c.status = "reserved" /\ c.active = g
  THEN [c EXCEPT !.status = "released", !.active = NoGen]
  ELSE c

\* releaseUnconsumedPatternClaim
ReleaseUnconsumed(c, g) ==
  IF c.status = "reserved" /\ c.active = g
  THEN [c EXCEPT !.status = "available", !.active = NoGen]
  ELSE c

\* releaseUserPatternClaims
ReleaseAllUnconsumed(c) ==
  IF c.status = "reserved" THEN [c EXCEPT !.status = "available", !.active = NoGen] ELSE c

\* releasePatternRegeneration
ReleaseRegeneration(c, g) ==
  IF c.status = "accepted" /\ c.pending = g THEN [c EXCEPT !.pending = NoGen] ELSE c

\* Mutant: a replacement in flight keeps its reservation.
ReleaseNoRegenerations(c) == c

\* releaseUserPatternRegenerations
ReleaseAllRegenerations(c) ==
  IF c.status = "accepted" THEN [c EXCEPT !.pending = NoGen] ELSE c

\* acceptPatternClaim
Accept(c, g) ==
  IF c.status = "reserved" /\ c.active = g
  THEN [c EXCEPT !.status = "accepted", !.active = NoGen]
  ELSE c

\* Mutant: deleting the Pattern gives the opportunity back.
DeleteAsAvailable(c) == IF c.status = "accepted" THEN [c EXCEPT !.status = "available"] ELSE c

\* deleteAcceptedPatternClaim
DeleteAccepted(c) == IF c.status = "accepted" THEN [c EXCEPT !.status = "deleted"] ELSE c

\* pattern_claim_transition_guard: what the trigger lets an UPDATE do.  It runs
\* for every statement, so a batch may clear the pending generation first.
GuardAllows(c, d) ==
  /\ \/ d.status = c.status
     \/ c.status = "none" /\ d.status = "reserved"
     \/ c.status = "available" /\ d.status = "reserved"
     \/ c.status = "reserved" /\ d.status \in {"available", "accepted"}
     \/ c.status = "accepted" /\ d.status = "deleted"
  /\ d.status = c.status => d.active = c.active
  /\ d.status # "accepted" => d.pending = NoGen
  /\ d.pending # c.pending => c.status = "accepted"
  /\ d.pending # c.pending /\ d.pending # NoGen => c.pending = NoGen
=============================================================================
