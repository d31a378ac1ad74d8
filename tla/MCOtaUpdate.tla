----------------------------- MODULE MCOtaUpdate -----------------------------
(* Two images for the model checker: old has two blocks, new has three.     *)
EXTENDS OtaUpdate, TLC

MCImage == {"old", "new"}
MCVersion == [img \in MCImage |-> IF img = "old" THEN 1 ELSE 2]
MCBinSize == [img \in MCImage |-> IF img = "old" THEN 70 ELSE 100]
=============================================================================
