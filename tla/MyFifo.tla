-------------------------------- MODULE MyFifo --------------------------------
(***************************************************************************)
(* my_fifo_t (common/utility.c): a ring whose two pointers count modulo     *)
(* Wrap (256, they are bytes) and whose number of slots is a power of two,  *)
(* so that it divides Wrap.                                                 *)
(***************************************************************************)
EXTENDS Integers

CONSTANT Wrap

NoSlot == -1

Fifo(num) == [num |-> num, wptr |-> 0, rptr |-> 0]

Filled(f) == (f.wptr - f.rptr) % Wrap
SlotOf(f, ptr) == ptr % f.num

\* The slot to fill, or none when the ring is full.
my_fifo_wptr(f) == IF Filled(f) < f.num THEN SlotOf(f, f.wptr) ELSE NoSlot
my_fifo_next(f) == [f EXCEPT !.wptr = (@ + 1) % Wrap]

my_fifo_get(f) == IF f.rptr # f.wptr THEN SlotOf(f, f.rptr) ELSE NoSlot
my_fifo_pop(f) == [f EXCEPT !.rptr = (@ + 1) % Wrap]
=============================================================================
