----------------------------- MODULE TestPhases -----------------------------
(***************************************************************************)
(* How far each test of a run is, which the components it passes share.    *)
(***************************************************************************)
EXTENDS Naturals

CONSTANT Tests

(* "idle" and "started"; src_dump: "generating", "found"; its output       *)
(* written: "read"; assert_matches: "updating", "creating", "comparing";   *)
(* the ends: "passed", "failed", "killed".                                 *)
VARIABLE phase

Turn(t, p) == phase' = [phase EXCEPT ![t] = p]

Idle(t) == phase[t] \in {"idle", "passed", "failed", "killed"}
Quiet == \A t \in Tests : Idle(t)
=============================================================================
