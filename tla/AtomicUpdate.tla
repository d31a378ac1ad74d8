----------------------------- MODULE AtomicUpdate -----------------------------
(***************************************************************************)
(* What a firmware update promises the device it updates: the image the    *)
(* device starts changes only from one whole image to another whole image  *)
(* that was staged before, in one step, and a staged image may be dropped. *)
(***************************************************************************)
CONSTANTS Image, NoImage

VARIABLES
  active,      \* the image the device would start now
  staged       \* a whole image, checked, not yet active

vars == <<active, staged>>

Init == active \in Image /\ staged = NoImage

Stage ==
  /\ staged = NoImage
  /\ staged' \in Image
  /\ UNCHANGED active

Commit ==
  /\ staged # NoImage
  /\ active' = staged
  /\ staged' = NoImage

Drop ==
  /\ staged # NoImage
  /\ staged' = NoImage
  /\ UNCHANGED active

Next == Stage \/ Commit \/ Drop

Spec == Init /\ [][Next]_vars
=============================================================================
