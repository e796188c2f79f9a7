------------------------------ MODULE MCOrders ------------------------------
(***************************************************************************)
(* The arithmetic of Orders and Events on every small input: an input is   *)
(* picked, the operators are applied to it, and the results are compared   *)
(* with what they amount to.  One more input stands for the demand of a    *)
(* whole game, played round after round as BoundedDemand has it.           *)
(***************************************************************************)
EXTENDS Events, BoundedDemand

CONSTANTS
  MaxUnits,   \* bound on stocks, debts, requests and demands
  Lists       \* demand lists

ASSUME MCOrdersAssumption == MaxUnits \in Nat /\ Lists \subseteq Seq(Int) \ {<<>>}

Units  == 0..MaxUnits
Signed == -MaxUnits..MaxUnits

UnitStyles ==
       {[type |-> "Default"]}
  \cup {[type |-> t, increase |-> i] : t \in {"Linear", "Multiplication"}, i \in -1..2}
  \cup {[type |-> "Exponential", power |-> n, modulator |-> 1] : n \in -1..3}
  \cup {[type |-> "List", list |-> s] : s \in Lists}

RoundStyles ==
       {[type |-> "Default"]}
  \cup {[type |-> t, increase |-> i] : t \in {"Linear", "Multiplication"}, i \in -3..4}
  \cup {[type |-> "Exponential", power |-> n, modulator |-> m] : n \in 0..2, m \in 1..2}

AllNumbers == Numbers
ThreeLists == {<<2>>, <<1, 3>>, <<3, 1, 3, 2>>}

Averages == {[type |-> "ValueExceed", resource |-> "Money", met_by |-> "Average",
              value |-> v] : v \in Signed}
Purses(a, b) == [q \in {1, 2} |-> [money |-> IF q = 1 THEN a ELSE b]]

VARIABLES input, output

Inputs ==
       [kind : {"settle"}, stock : Units, back : Units, request : Units]
  \cup [kind : {"demand"}, last : Signed, style : UnitStyles]
  \cup [kind : {"average"}, a : Signed, b : Signed, cond : Averages]

Rounds == [kind |-> "rounds"]

MCInit ==
  /\ output = <<>>
  /\ \/ input = Rounds /\ Init
     \/ /\ input \in Inputs
        /\ style = [type |-> "Default"] /\ demand = 0 /\ round = 0 /\ broken = FALSE

Apply(in) ==
  CASE in.kind = "settle"  -> SettleRequest(in.stock, in.back, in.request)
    [] in.kind = "demand"  -> [next |-> generate_demand(in.last, in.style)]
    [] in.kind = "average" -> evaluate_value_exceed(Purses(in.a, in.b), in.cond)

ApplyOnce ==
  /\ input # Rounds /\ output = <<>>
  /\ output' = Apply(input)
  /\ UNCHANGED <<input, vars>>

PlayRound == input = Rounds /\ Next /\ UNCHANGED <<input, output>>

MCNext == ApplyOnce \/ PlayRound

MCSpec == MCInit /\ [][MCNext]_<<input, output, vars>>

Done(kind) == output # <<>> /\ input.kind = kind

AtLeast0(n) == IF n > 0 THEN n ELSE 0

\* Settling a request (game.rs:154-193) nets stock against debt: what is left
\* of one or the other is the difference.  As many units are shipped as the
\* stock gives up only while it exceeds debt and request.  Otherwise the units
\* left after the debt vanish (172), and those the request is short of are
\* owed (173) and shipped as well (174), although nobody has them.
SettleNets ==
  Done("settle") =>
    LET net    == input.stock - input.back - input.request
        left   == AtLeast0(input.stock - input.back)
        lost   == IF net > 0 THEN 0 ELSE left
        made   == IF net > 0 THEN 0 ELSE input.request - left
    IN  /\ output.stock = AtLeast0(net)
        /\ output.back = AtLeast0(-net)
        /\ input.stock + made = output.stock + output.sent + lost

\* A demand list (game.rs:962-972) moves at most once: from a value outside
\* the list to its final entry; from then on the demand stays.
ListDemandFreezes ==
  Done("demand") /\ input.style.type = "List" =>
    generate_demand(output.next, input.style) = output.next

\* "Average exceeds v" (game.rs:467-474) divides integers: for v >= 0 the sum
\* must exceed n * v by a whole unit per player, below zero by any amount.
AverageTruncates ==
  Done("average") =>
    LET sum == input.a + input.b
        v   == input.cond.value
    IN  output.met <=> (IF v >= 0 THEN sum >= 2 * (v + 1) ELSE sum > 2 * v)
=============================================================================
