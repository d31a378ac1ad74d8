----------------------------- MODULE MCSoftTimer -----------------------------
(* Callbacks for the model checker; a clock of 32 ticks.                    *)
EXTENDS SoftTimer, TLC

CONSTANTS cb1, cb2
MCCallback == {cb1, cb2}
Symmetry == Permutations(MCCallback)
=============================================================================
