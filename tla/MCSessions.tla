----------------------------- MODULE MCSessions -----------------------------
(***************************************************************************)
(* Sessions for TLC: ids are model values.  Everybody starts in the first  *)
(* lobby.                                                                  *)
(***************************************************************************)
EXTENDS Sessions

CONSTANT l1

AllInFirst == [u \in Users |-> l1]
=============================================================================
