------------------------------- MODULE Events -------------------------------
(***************************************************************************)
(* The scripted events of a game (src/lobby/game.rs, process_game_events): *)
(* when the condition of an event holds, whom it targets, and what giving  *)
(* a resource to a player does.  A UserState is a record with at least the *)
(* fields money, magazine_state, performance and back_order_sum.           *)
(***************************************************************************)
EXTENDS Orders, FiniteSets, Functions

Resources     == {"Money", "MagazineState", "Performance", "BackOrderValue"}
MetBys        == {"SinglePlayer", "Average", "AllPlayers"}
ActionTargets == {"EventTarget", "AllPlayers"}

\* EventCondition and EventAction; S is the set of Settings a ChangeSettings
\* action may carry.  The text of a ShowMessage is left out.
EventConditions ==
         [type : {"RoundMet"}, round : Int]
  \cup   [type : {"ValueExceed"}, resource : Resources, met_by : MetBys, value : Int]
  \cup   [type : {"SingleChange"}, resource : Resources, value : Int]

EventActions(S) ==
         [type : {"ShowMessage"}, target : ActionTargets]
  \cup   [type : {"ChangeSettings"}, new_settings : S]
  \cup   [type : {"AddResource"}, resource : Resources, target : ActionTargets, value : Int]

GameEvents(S) == Seq([condition : EventConditions, actions : Seq(EventActions(S))])

\* The extractor closures |us| us.money and so on.
Extract(us, resource) ==
  CASE resource = "Money"          -> us.money
    [] resource = "MagazineState"  -> us.magazine_state
    [] resource = "Performance"    -> us.performance
    [] resource = "BackOrderValue" -> us.back_order_sum

Abs(n) == IF n < 0 THEN -n ELSE n

evaluate_round_cond(round, users, at) ==
  [met |-> round = at, targets |-> IF round = at THEN DOMAIN users ELSE {}]

\* Where the condition does not hold the code leaves a partial list of
\* recipients that nobody reads: here it is empty.
evaluate_value_exceed(users, cond) ==
  LET val(p) == Extract(users[p], cond.resource)
      above  == {p \in DOMAIN users : val(p) > cond.value}
      sum    == FoldFunction(+, 0, [p \in DOMAIN users |-> val(p)])
      met    == CASE cond.met_by = "SinglePlayer" -> above # {}
                  [] cond.met_by = "Average"      ->
                       TruncDiv(sum, Cardinality(DOMAIN users)) > cond.value
                  [] cond.met_by = "AllPlayers"   ->
                       \A p \in DOMAIN users : val(p) >= cond.value
  IN  [met     |-> met,
       targets |-> CASE ~met                            -> {}
                     [] cond.met_by = "SinglePlayer"    -> above
                     [] OTHER                           -> DOMAIN users]

\* `last` is the user_states of the row of the round before.
evaluate_single_change(users, last, cond) ==
  LET moved == {p \in DOMAIN users \cap DOMAIN last :
                  Abs(Extract(users[p], cond.resource)
                        - Extract(last[p], cond.resource)) > cond.value}
  IN  [met |-> moved # {}, targets |-> moved]

evaluate_cond(round, users, last, cond) ==
  CASE cond.type = "RoundMet"     -> evaluate_round_cond(round, users, cond.round)
    [] cond.type = "ValueExceed"  -> evaluate_value_exceed(users, cond)
    [] cond.type = "SingleChange" -> evaluate_single_change(users, last, cond)
=============================================================================
