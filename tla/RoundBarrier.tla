---------------------------- MODULE RoundBarrier ----------------------------
(***************************************************************************)
(* What the round engine promises to clients that wait for RoundStart: the *)
(* round is a barrier.  Each player enters it at most once; the orders on  *)
(* record belong to players who entered (writing the round state back can  *)
(* drop some of the earlier ones); the round closes only when an order of  *)
(* every player is on record, and then everybody is out again.             *)
(***************************************************************************)
EXTENDS Naturals

CONSTANT Players

VARIABLES round, placed, entered

barrierVars == <<round, placed, entered>>

Init == round = 0 /\ placed = {} /\ entered = {}

Place(p) ==
  /\ p \notin entered
  /\ entered' = entered \cup {p}
  /\ \E kept \in SUBSET entered : placed' = kept \cup {p}
  /\ round' = round

Close ==
  /\ placed = Players
  /\ round' = round + 1
  /\ placed' = {} /\ entered' = {}

Next == Close \/ \E p \in Players : Place(p)

Spec == Init /\ [][Next]_barrierVars
=============================================================================
