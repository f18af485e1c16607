--------------------------- MODULE AtomicUpgrade ---------------------------
(***************************************************************************)
(* What two sets of images and a boot configuration are for: the board     *)
(* always has a whole version of its software to start, and moves to a     *)
(* newer one in a single step, whenever the power goes.                    *)
(***************************************************************************)
EXTENDS Naturals

VARIABLE live   \* the version the board would start now

AInit == live \in Nat

Switch ==
  /\ live' \in Nat
  /\ live' > live

ASpec == AInit /\ [][Switch]_live
=============================================================================
