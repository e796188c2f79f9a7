------------------------------- MODULE Orders -------------------------------
(***************************************************************************)
(* The pure arithmetic of a round (src/lobby/game.rs): how a player's      *)
(* stock settles the request of the next player in the chain, and how the  *)
(* market's demand and supply move from one round to the next.  All        *)
(* numbers are i64 in the code; wrap-around is left out.                   *)
(***************************************************************************)
EXTENDS Integers, Sequences

\* Division that rounds down instead.
Mutant_TruncDiv(a, b) == a \div b

\* Integer division as Rust's `/` and float-to-integer casts do it: towards
\* zero.  The divisor is positive.
TruncDiv(a, b) == IF a >= 0 THEN a \div b ELSE -((-a) \div b)

\* E.powi(n) as i64, that is e^n rounded down, for n up to MaxPower.
MaxPower == 6
EPow(n) == IF n < 0 THEN 0 ELSE <<1, 2, 7, 20, 54, 148, 403>>[n + 1]

\* GeneratedOrderStyle.  `start` is left out: only start_new_game reads it,
\* for the row it inserts, never for the round state in memory.
OrderStyles ==
         [type : {"Default"}]
  \cup   [type : {"Linear"}, increase : Int]
  \cup   [type : {"Multiplication"}, increase : Int]
  \cup   [type : {"Exponential"}, power : {n \in Int : n <= MaxPower}, modulator : Int]
  \cup   [type : {"List"}, list : Seq(Int) \ {<<>>}]

\* A List that answers with the entry after the one it found.
Mutant_generate_demand(last, style) ==
  CASE style.type = "Default"        -> TruncDiv(3 * last, 2)
    [] style.type = "Linear"         -> last + style.increase
    [] style.type = "Multiplication" -> last * style.increase
    [] style.type = "Exponential"    -> last * (style.modulator * EPow(style.power))
    [] style.type = "List"           ->
         IF \E i \in 1..Len(style.list) - 1 : style.list[i] = last
           THEN style.list[(CHOOSE i \in 1..Len(style.list) - 1 : style.list[i] = last) + 1]
           ELSE style.list[Len(style.list)]

\* generate_demand: the next value from the last one.  A List looks the last
\* value up and answers with the entry it found, or with the final entry.
generate_demand(last, style) ==
  CASE style.type = "Default"        -> TruncDiv(3 * last, 2)
    [] style.type = "Linear"         -> last + style.increase
    [] style.type = "Multiplication" -> last * style.increase
    [] style.type = "Exponential"    -> last * (style.modulator * EPow(style.power))
    [] style.type = "List"           ->
         IF \E i \in DOMAIN style.list : style.list[i] = last
           THEN last
           ELSE style.list[Len(style.list)]

-----------------------------------------------------------------------------

\* Debts are served only by a stock that covers all of them.
Mutant_PayBackOrders(stock, back) ==
  CASE back > stock              -> [stock |-> stock, back |-> back, sent |-> 0]
    [] back <= stock /\ back > 0 -> [stock |-> stock - back, back |-> 0, sent |-> back]
    [] OTHER                     -> [stock |-> stock, back |-> back, sent |-> 0]

\* First half of the settlement: older debts are served from the stock.
PayBackOrders(stock, back) ==
  CASE back > stock              -> [stock |-> 0, back |-> back - stock, sent |-> stock]
    [] back <= stock /\ back > 0 -> [stock |-> stock - back, back |-> 0, sent |-> back]
    [] OTHER                     -> [stock |-> stock, back |-> back, sent |-> 0]

\* A settlement that forgets the part of the request it could not serve.
Mutant_SettleRequest(stock, back, request) ==
  LET paid == PayBackOrders(stock, back) IN
  IF paid.stock > request
    THEN [stock |-> paid.stock - request, back |-> paid.back, sent |-> paid.sent + request]
    ELSE [stock |-> 0, back |-> paid.back, sent |-> paid.sent + request - paid.stock]

\* Second half: the new request.  A stock that does not exceed it is set to
\* zero, and the order sent out carries the missing part, not the stock.
SettleRequest(stock, back, request) ==
  LET paid  == PayBackOrders(stock, back)
      short == request - paid.stock
  IN  IF paid.stock > request
        THEN [stock |-> paid.stock - request, back |-> paid.back, sent |-> paid.sent + request]
        ELSE [stock |-> 0, back |-> paid.back + short, sent |-> paid.sent + short]
=============================================================================
