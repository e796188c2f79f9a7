--------------------------- MODULE MCRoundEngine ---------------------------
(* Values for model-checking RoundEngine. *)
EXTENDS RoundEngine

CONSTANTS p1, p2, p3, retail, factory

Chain2 == <<p1, p2>>
Chain3 == <<p1, p2, p3>>

ByClass(f, g) == [c \in Classes |-> IF c = retail THEN f ELSE g]

Linear(n) == [type |-> "Linear", increase |-> n]
List(s)   == [type |-> "List", list |-> s]

Game(rounds, storage) ==
  [max_rounds |-> rounds, priced |-> Classes, magazine_cost |-> ByClass(storage, 1),
   demand_style |-> Linear(2), supply_style |-> List(<<2, 3>>)]

Classes1 == [p \in Players |-> IF p = p1 THEN factory ELSE retail]
Swapped1 == [p \in Players |-> IF p = p1 THEN retail ELSE factory]
Partial1 == [p \in Players |-> IF p = p1 THEN factory ELSE NoClass]
NoMaps   == {}
OneMap   == {Partial1}
SomeMaps == {Swapped1, Partial1}

Money6     == ByClass(6, 7)
Stock2     == ByClass(2, 1)
Incoming2  == ByClass(<<4, 1>>, <<2>>)
Requested2 == ByClass(<<3>>, <<5, 7>>)

TwoEach    == ByClass(<<4, 1>>, <<3, 2>>)

NoUpdates == {}
Game2 == {Game(2, 1)}
Game3 == {Game(3, 1)}

\* Round 1: cheaper storage for all later rounds, and a message.  Then a
\* present of money to players whose money moved much, and one to all when
\* the average back order is high.
Gifts(resource) == <<
  [condition |-> [type |-> "RoundMet", round |-> 1],
   actions   |-> <<[type |-> "ChangeSettings", new_settings |-> Game(3, 0)],
                   [type |-> "ShowMessage", target |-> "AllPlayers"]>>],
  [condition |-> [type |-> "SingleChange", resource |-> "Money", value |-> 2],
   actions   |-> <<[type |-> "AddResource", resource |-> "Money",
                    target |-> "EventTarget", value |-> 2]>>],
  [condition |-> [type |-> "ValueExceed", resource |-> "BackOrderValue",
                  met_by |-> "Average", value |-> 1],
   actions   |-> <<[type |-> "AddResource", resource |-> resource,
                    target |-> "AllPlayers", value |-> 1]>>] >>

Subsidies == Gifts("MagazineState")
Bonuses   == Gifts("Money")
=============================================================================
