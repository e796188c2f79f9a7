---------------------------- MODULE BoundedDemand ---------------------------
(***************************************************************************)
(* The market's demand from round to round in numbers of finite width      *)
(* (generate_demand and round_state.demand of src/lobby/game.rs; i64 in    *)
(* the code).  Additions and products that do not fit wrap around in a     *)
(* release build and panic in a debug build, and Cargo.toml leaves it to   *)
(* the build; the Default style goes through f64, whose cast saturates.    *)
(***************************************************************************)
EXTENDS Orders

CONSTANTS
  Bits,       \* width of the numbers
  Styles,     \* demand styles, List aside: it computes nothing
  Starts,     \* what the demand may be when the game starts
  MaxRounds   \* bound: rounds played

Lowest  == -(2^(Bits - 1))
Highest == 2^(Bits - 1) - 1
Numbers == Lowest..Highest

ASSUME BoundedDemandAssumption ==
  /\ Bits \in Nat \ {0} /\ Starts \subseteq Numbers /\ MaxRounds \in Nat
  /\ Styles \subseteq {style \in OrderStyles : style.type # "List"}

VARIABLES
  style, demand, round,
  broken     \* the task that closes the round has panicked

vars == <<style, demand, round, broken>>

Saturate(n) == IF n < Lowest THEN Lowest ELSE IF n > Highest THEN Highest ELSE n

\* Results that stop at the limits.
Mutant_Wrap(n) == Saturate(n)

Wrap(n) == ((n - Lowest) % (2^Bits)) + Lowest

\* Integer arithmetic for the Default style as well.
Mutant_next_demand(last, s) == Wrap(generate_demand(last, s))

next_demand(last, s) ==
  IF s.type = "Default" THEN Saturate(generate_demand(last, s))
  ELSE Wrap(generate_demand(last, s))

\* The factor of the Exponential style is a product of its own.
Overflows(last, s) ==
  \/ s.type # "Default" /\ generate_demand(last, s) \notin Numbers
  \/ s.type = "Exponential" /\ s.modulator * EPow(s.power) \notin Numbers

\* round_state.demand, which start_new_game does not set: 0 in a lobby without a
\* game yet, else what the game before left, or the row after a restart.  (The
\* number start_new_game computes only goes into the row it inserts.)
Init == style \in Styles /\ demand \in Starts /\ round = 0 /\ broken = FALSE

\* finish_round as a release build runs it.
FinishRound ==
  /\ ~broken /\ round < MaxRounds
  /\ demand' = next_demand(demand, style)
  /\ round' = round + 1
  /\ UNCHANGED <<style, broken>>

\* The panic ends the task of the last player: the round is never closed.
Panic ==
  /\ ~broken /\ round < MaxRounds
  /\ Overflows(demand, style)
  /\ broken' = TRUE
  /\ UNCHANGED <<style, demand, round>>

Next == FinishRound \/ Panic

Spec == Init /\ [][Next]_vars
-----------------------------------------------------------------------------
\* In the Default style the demand never turns back: it grows in its direction
\* until it stays at a limit (or at 0 and 1), and no round panics.
DefaultNeverTurns ==
  [][style.type = "Default" =>
       /\ ~broken'
       /\ IF demand >= 0 THEN demand' >= demand ELSE demand' <= demand]_vars

\* Multiplying by an even number, round after round, does not end at the limit
\* in a build that wraps but at 0, after as many rounds as a number has bits,
\* and stays there: the customers are gone for the rest of the game.
EvenMultiplicationVanishes ==
  style.type = "Multiplication" /\ style.increase % 2 = 0 /\ round >= Bits => demand = 0
=============================================================================
