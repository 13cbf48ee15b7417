-------------------------- MODULE PatternProtocol --------------------------
(***************************************************************************)
(* planPatternTransition of services/pattern-stage-protocol.ts: what each  *)
(* kind of transition makes of a generation's stage, stage generation and  *)
(* attempt counters.  Hashes are left to the artifacts they name; the      *)
(* stages 'planning', 'plan_validating' and 'candidate_validating' are     *)
(* never written by the code and are folded into their owner's first stage. *)
(***************************************************************************)
EXTENDS Naturals

Passes == {"planner", "writer", "verifier"}

LiveStages == {"reserved", "writing", "semantic_verifying", "publishing"}

EndStages == {"succeeded", "failed", "cancelled"}

\* patternStageOwner
Owner(stage) ==
  CASE stage = "reserved" -> "planner"
    [] stage = "writing" -> "writer"
    [] stage = "semantic_verifying" -> "verifier"
    [] stage = "publishing" -> "publication"
    [] OTHER -> "terminal"

\* The pass a delivery of this stage runs: publication re-reads the verdict.
PassOf(stage) == IF Owner(stage) = "publication" THEN "verifier" ELSE Owner(stage)

\* patternAttemptCoordinate
Coordinate(row) ==
  LET p == PassOf(row.stage) IN <<p, row.sg, row.attempts[p]>>

\* Mutant: a rejected draft is written again without counting the attempt.
RewrittenForFree(row) == [row EXCEPT !.stage = "writing", !.sg = @ + 1]

\* A verdict sends the candidate back to the writer.
Rewritten(row) == [row EXCEPT !.stage = "writing", !.sg = @ + 1, !.attempts["writer"] = @ + 1]

\* planPatternTransition: the row after the transition
After(row, t) ==
  CASE t = "advance" /\ Owner(row.stage) = "planner" ->
         [row EXCEPT !.stage = "writing", !.sg = @ + 1]
    [] t = "advance" /\ Owner(row.stage) = "writer" ->
         [row EXCEPT !.stage = "semantic_verifying", !.sg = @ + 1, !.attempts["verifier"] = 0]
    [] t = "retry" -> [row EXCEPT !.attempts[PassOf(row.stage)] = @ + 1]
    [] t = "return_to_writer" -> Rewritten(row)
    [] t = "publication_retry" -> [row EXCEPT !.stage = "publishing"]
    [] t = "fail" -> [row EXCEPT !.stage = "failed", !.sg = @ + 1]
    [] t = "cancel" -> [row EXCEPT !.stage = "cancelled"]
    [] t = "publish" -> [row EXCEPT !.stage = "succeeded", !.sg = @ + 1]
    [] OTHER -> row

\* The status the same transition gives the row of the jobs table
JobStatusAfter(t) ==
  CASE t = "fail" -> "failed"
    [] t = "cancel" -> "cancelled"
    [] t = "publish" -> "succeeded"
    [] OTHER -> "queued"

\* Mutant: only a failure returns the claim.
ReleasesOnFailure(t) == t = "fail"

\* releaseUnconsumedClaim
Releases(t) == t \in {"fail", "cancel"}
=============================================================================
