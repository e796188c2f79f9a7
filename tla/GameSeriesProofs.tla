-------------------------- MODULE GameSeriesProofs --------------------------
(***************************************************************************)
(* What is proved about GameSeries for any number of users, rounds, games, *)
(* restarts and tasks cut off: the types of its state and, as long as no   *)
(* task writes for another game than the one in memory, that rounds close  *)
(* on complete orders, that the rows are a series of games, and that a     *)
(* round in which everybody waits has a reason not to be closed.           *)
(***************************************************************************)
EXTENDS GameSeries, FiniteSetTheorems, SequenceTheorems, TLAPS

Labels == {"idle", "cloned", "acked", "finishing", "closed", "persisted"}

RoundStates ==
  [game : Nat, round : Nat, chain : Seq(Users), players : Nat, players_finished : Nat,
   users_states : SUBSET Users, round_orders : [Users -> Orders \cup {NoOrder}]]

Rows ==
  [game : Nat, round : Nat, chain : Seq(Users), users_states : SUBSET Users,
   round_orders : [Users -> Orders \cup {NoOrder}]]

\* The order of p in r was placed in round n of the game of r.
Ordered(r, p, n) ==
  /\ r.round_orders[p] # NoOrder
  /\ r.round_orders[p].game = r.game /\ r.round_orders[p].round = n

InRound(r) == {p \in r.users_states : Ordered(r, p, r.round)}

\* A round state of one of the first g games: everybody who plays has a place
\* in the chain, the counter of the last round is full, and no order is of a
\* game to come.
Sound(r, g) ==
  /\ r \in RoundStates
  /\ r.game \in 0..g /\ r.round \in Rounds
  /\ r.chain \in Seq(r.users_states)
  /\ r.players = Cardinality(r.users_states) /\ r.players = Len(r.chain)
  /\ \A u \in r.users_states : \E i \in 1..Len(r.chain) : r.chain[i] = u
  /\ r.round = MaxRounds => r.players_finished >= r.players
  /\ \A u \in Users : r.round_orders[u] # NoOrder => r.round_orders[u].game <= g

\* The round state of p's task: p plays in it, and a round that is about to be
\* closed is not the last one.
Copy(p, label, r, g) ==
  /\ Sound(r, g) /\ p \in r.users_states
  /\ label = "finishing" => r.round < MaxRounds /\ r.players_finished >= r.players

Types ==
  /\ members \subseteq Users /\ waiting \subseteq Users
  /\ started \in BOOLEAN /\ restored \in BOOLEAN
  /\ Sound(rs, games)
  /\ rows \in Seq(Rows) /\ \A i \in 1..Len(rows) : Sound(Restored(rows[i]), games)
  /\ pc \in [Users -> Labels]
  /\ clone \in [Users -> RoundStates \cup {NoClone}]
  /\ \A p \in Users : IF pc[p] = "idle" THEN clone[p] = NoClone
                      ELSE Copy(p, pc[p], clone[p], games)
  /\ games \in 0..MaxGames /\ restarts \in 0..MaxRestarts /\ faults \in 0..MaxFaults
  /\ over \subseteq 0..games /\ cut \subseteq 0..games /\ revived \in BOOLEAN

SameGame(r, s) ==
  r.game = s.game /\ r.chain = s.chain /\ r.players = s.players
    /\ r.users_states = s.users_states

\* A round whose orders are coming in: its counter is the number of orders
\* placed in it, and who has ordered waits.
Collecting(r, acked) ==
  /\ r.round < MaxRounds
  /\ r.players_finished = Cardinality(InRound(r))
  /\ InRound(r) \subseteq acked

\* A round that has just been closed: everybody had ordered, and waits.
Closed(r, acked) ==
  /\ r.round > 0 /\ r.users_states # {} /\ r.users_states \subseteq acked
  /\ \A p \in r.users_states : Ordered(r, p, r.round - 1)

\* Where the task of p stands in the game that is in memory.  One that is left
\* of another game counts as none, until it writes.
At(p) == IF pc[p] # "idle" /\ clone[p].game = rs.game THEN pc[p] ELSE "idle"

Ordering(p) == At(p) \in {"cloned", "acked"}
Finishes(p) == At(p) \in {"finishing", "closed", "persisted"}

(***************************************************************************)
(* What the task of p relies on.  An order that is being placed is in no   *)
(* copy of the round yet, so that the counter cannot reach the number of   *)
(* players without it; whoever closes the round is therefore alone with    *)
(* it.  In a restored game the counter is beyond that number already.      *)
(***************************************************************************)
Task(p) ==
  /\ At(p) # "idle" => p \in rs.users_states /\ SameGame(clone[p], rs)
  /\ At(p) # "idle" /\ restored => clone[p].players_finished >= clone[p].players
  /\ Ordering(p) /\ ~restored =>
       /\ Collecting(rs, waiting) /\ Collecting(clone[p], waiting)
       /\ clone[p].round = rs.round
       /\ p \notin InRound(rs) /\ p \notin InRound(clone[p])
       /\ At(p) = "acked" <=> p \in waiting
  /\ Finishes(p) => ~restored /\ rs = clone[p]
  /\ At(p) = "finishing" => Collecting(rs, waiting) /\ InRound(rs) = rs.users_states
  /\ At(p) \in {"closed", "persisted"} => Closed(rs, waiting)

Apart(p, q) ==
  /\ Finishes(p) => At(q) = "idle"
  /\ Ordering(p) /\ Ordering(q) /\ ~restored => p \notin InRound(clone[q])

Phase ==
  /\ restored => rs.players_finished >= rs.players
  /\ ~restored =>
       \/ /\ Collecting(rs, waiting)
          /\ rs.players_finished = rs.players /\ rs.users_states # {} =>
               (\E p \in Users : At(p) = "finishing") \/ ~AllFound(rs) \/ rs.game \in cut
       \/ /\ Closed(rs, waiting)
          /\ \/ \E p \in Users : At(p) \in {"closed", "persisted"}
             \/ rs.game \in over \cup cut

\* Once a task was cut off while it closed the round, nobody is left to act.
CutOff ==
  ~restored /\ rs.game \in cut =>
    rs.users_states \subseteq waiting /\ \A p \in Users : At(p) = "idle"

\* The last row is of the last game, and of its last round but for one that is
\* about to be persisted, or never was.
LastRow ==
  /\ games = 0 <=> Len(rows) = 0
  /\ games # 0 => rows[Len(rows)].game = games
  /\ ~restored /\ rs.users_states # {} =>
       /\ rs.game = games /\ games # 0
       /\ rs.game \notin cut =>
            rows[Len(rows)].round =
              IF \E p \in Users : At(p) = "closed" THEN rs.round - 1 ELSE rs.round

Orderly ==
  /\ \A p \in Users : Task(p)
  /\ \A p, q \in Users : p # q => Apart(p, q)
  /\ Phase /\ CutOff /\ LastRow
  /\ RoundsComplete /\ SeriesOfRounds

SeriesInv == Types /\ (~revived => Orderly)
-----------------------------------------------------------------------------
LEMMA SoundFacts ==
  ASSUME NEW r, NEW g \in Nat, Sound(r, g)
  PROVE  /\ r \in RoundStates
         /\ r.game \in Nat /\ r.game <= g /\ r.round \in Nat /\ r.round <= MaxRounds
         /\ r.players \in Nat /\ r.players_finished \in Nat
         /\ r.users_states \subseteq Users /\ IsFiniteSet(r.users_states)
         /\ r.chain \in Seq(Users) /\ r.chain \in Seq(r.users_states)
         /\ r.players = Cardinality(r.users_states) /\ r.players = Len(r.chain)
         /\ \A u \in r.users_states : \E i \in 1..Len(r.chain) : r.chain[i] = u
         /\ r.round = MaxRounds => r.players_finished >= r.players
         /\ r.round_orders \in [Users -> Orders \cup {NoOrder}]
<1>1. r \in RoundStates  BY DEF Sound
<1>2. IsFiniteSet(r.users_states)
  BY <1>1, SeriesAssumption, FS_Subset DEF RoundStates
<1>. QED BY <1>1, <1>2, SeriesAssumption DEF Sound, RoundStates, Rounds

\* What was sound stays so when another game is started.
LEMMA SoundLater ==
  ASSUME NEW r, NEW g \in Nat, NEW h \in Nat, g <= h, Sound(r, g)
  PROVE  Sound(r, h)
<1>1. \A u \in Users : r.round_orders[u] # NoOrder => r.round_orders[u].game <= h
  <2>. SUFFICES ASSUME NEW u \in Users, r.round_orders[u] # NoOrder
                PROVE  r.round_orders[u].game <= h
    OBVIOUS
  <2>1. r.round_orders[u] \in Orders  BY SoundFacts
  <2>2. r.round_orders[u].game \in Nat  BY <2>1 DEF Orders
  <2>3. r.round_orders[u].game <= g  BY DEF Sound
  <2>. QED BY <2>2, <2>3
<1>. QED BY <1>1 DEF Sound

\* The counter of a round that collects is at most the number of players, and
\* that only if everybody has ordered.
LEMMA InRoundFacts ==
  ASSUME NEW r, NEW g \in Nat, Sound(r, g)
  PROVE  /\ InRound(r) \subseteq r.users_states /\ IsFiniteSet(InRound(r))
         /\ Cardinality(InRound(r)) \in Nat /\ Cardinality(InRound(r)) <= r.players
         /\ Cardinality(InRound(r)) = r.players => InRound(r) = r.users_states
<1>1. InRound(r) \subseteq r.users_states  BY DEF InRound
<1>2. IsFiniteSet(r.users_states) /\ r.players = Cardinality(r.users_states)  BY SoundFacts
<1>3. /\ IsFiniteSet(InRound(r)) /\ Cardinality(InRound(r)) <= Cardinality(r.users_states)
      /\ Cardinality(r.users_states) = Cardinality(InRound(r)) => r.users_states = InRound(r)
  BY <1>1, <1>2, FS_Subset
<1>4. Cardinality(InRound(r)) \in Nat  BY <1>3, FS_CardinalityType
<1>. QED BY <1>1, <1>2, <1>3, <1>4

\* Everybody who plays has neighbours: other players, or the market.
LEMMA Neighbours ==
  ASSUME NEW r, NEW g \in Nat, Sound(r, g), NEW p \in r.users_states
  PROVE  /\ get_sender(r.chain, p) \in Users \cup {Nil}
         /\ get_recipient(r.chain, p) \in Users \cup {Nil}
<1>1. r.chain \in Seq(Users) /\ DOMAIN r.chain = 1..Len(r.chain)  BY SoundFacts
<1>2. \E i \in DOMAIN r.chain : r.chain[i] = p  BY <1>1, SoundFacts
<1>3. Place(r.chain, p) \in 1..Len(r.chain)  BY <1>1, <1>2 DEF Place
<1>4. \A i \in 1..Len(r.chain) : r.chain[i] \in Users  BY <1>1, ElementOfSeq
<1>5. Len(r.chain) \in Nat  BY <1>1, LenProperties
<1>6. get_sender(r.chain, p) \in Users \cup {Nil}
  BY <1>3, <1>4, <1>5 DEF get_sender
<1>7. get_recipient(r.chain, p) \in Users \cup {Nil}
  BY <1>3, <1>4, <1>5 DEF get_recipient
<1>. QED BY <1>6, <1>7

\* An order: one more in the round, and in the counter.
LEMMA RecordFacts ==
  ASSUME NEW r, NEW g \in Nat, Sound(r, g), NEW p \in r.users_states
  PROVE  /\ Sound(Record(r, p), g) /\ SameGame(Record(r, p), r)
         /\ Record(r, p).round = r.round
         /\ Record(r, p).players_finished = r.players_finished + 1
         /\ InRound(Record(r, p)) = InRound(r) \cup {p}
<1>. DEFINE order == [game |-> r.game, round |-> r.round,
                      sender |-> get_sender(r.chain, p),
                      recipient |-> get_recipient(r.chain, p)]
            s == Record(r, p)
<1>1. /\ r \in RoundStates /\ p \in Users
      /\ r.game \in Nat /\ r.round \in Nat /\ r.game <= g
  BY SoundFacts
<1>2. order \in Orders  BY <1>1, Neighbours DEF Orders
<1>3. order # NoOrder /\ order.game = r.game /\ order.round = r.round
  BY <1>2, SeriesAssumption
<1>. HIDE DEF order
<1>4. s = [r EXCEPT !.round_orders[p] = order, !.players_finished = @ + 1]
  BY DEF Record, order
<1>. HIDE DEF s
<1>5. /\ s \in RoundStates
      /\ s.game = r.game /\ s.round = r.round /\ s.chain = r.chain
      /\ s.players = r.players /\ s.users_states = r.users_states
      /\ s.players_finished = r.players_finished + 1
      /\ s.round_orders = [r.round_orders EXCEPT ![p] = order]
  <2>. DEFINE orders == [r.round_orders EXCEPT ![p] = order]
  <2>1. orders \in [Users -> Orders \cup {NoOrder}]  BY <1>1, <1>2, SoundFacts
  <2>2. s = [r EXCEPT !.round_orders = orders, !.players_finished = r.players_finished + 1]
    BY <1>1, <1>4 DEF RoundStates
  <2>. HIDE DEF orders
  <2>3. r.players_finished + 1 \in Nat  BY SoundFacts
  <2>4. s \in RoundStates /\ s.round_orders = orders
    BY <1>1, <2>1, <2>2, <2>3 DEF RoundStates
  <2>5. /\ s.game = r.game /\ s.round = r.round /\ s.chain = r.chain
        /\ s.players = r.players /\ s.users_states = r.users_states
        /\ s.players_finished = r.players_finished + 1
    BY <1>1, <2>2 DEF RoundStates
  <2>. QED BY <2>4, <2>5 DEF orders
<1>6. /\ s.round_orders[p] = order
      /\ \A u \in Users \ {p} : s.round_orders[u] = r.round_orders[u]
  BY <1>1, <1>5 DEF RoundStates
<1>7. Sound(s, g)
  <2>1. \A u \in Users : s.round_orders[u] # NoOrder => s.round_orders[u].game <= g
    BY <1>1, <1>3, <1>6 DEF Sound
  <2>2. s.round = MaxRounds => s.players_finished >= s.players
    <3>1. r.round = MaxRounds => r.players_finished >= r.players  BY SoundFacts
    <3>2. r.players \in Nat /\ r.players_finished \in Nat  BY SoundFacts
    <3>. QED BY <1>5, <3>1, <3>2
  <2>. QED BY <1>5, <2>1, <2>2 DEF Sound
<1>8. SameGame(s, r)  BY <1>5 DEF SameGame
<1>9. InRound(s) = InRound(r) \cup {p}
  <2>1. Ordered(s, p, s.round)  BY <1>3, <1>5, <1>6 DEF Ordered
  <2>2. \A u \in r.users_states \ {p} : Ordered(s, u, s.round) <=> Ordered(r, u, r.round)
    BY <1>5, <1>6, SoundFacts DEF Ordered
  <2>. QED BY <1>5, <2>1, <2>2 DEF InRound
<1>. QED BY <1>5, <1>7, <1>8, <1>9 DEF s

\* The order of one who has not ordered in the round keeps its counter right.
LEMMA RecordCollects ==
  ASSUME NEW r, NEW g \in Nat, Sound(r, g), NEW p \in r.users_states, NEW acked,
         Collecting(r, acked), p \notin InRound(r), p \in acked
  PROVE  Collecting(Record(r, p), acked)
<1>1. Cardinality(InRound(r) \cup {p}) = Cardinality(InRound(r)) + 1
  BY InRoundFacts, FS_AddElement
<1>2. /\ Record(r, p).round = r.round
      /\ Record(r, p).players_finished = r.players_finished + 1
      /\ InRound(Record(r, p)) = InRound(r) \cup {p}
  BY RecordFacts
<1>. QED BY <1>1, <1>2 DEF Collecting

\* A game that is started: nobody has ordered in it, whatever orders the round
\* state holds.
LEMMA NewGameFacts ==
  ASSUME games \in Nat, members \subseteq Users, members # {},
         NEW r, Sound(r, games), NEW chain \in Chains
  PROVE  /\ Sound(NewGame(r, chain), games + 1)
         /\ InRound(NewGame(r, chain)) = {}
         /\ NewGame(r, chain).game = games + 1 /\ NewGame(r, chain).round = 0
         /\ NewGame(r, chain).players_finished = 0 /\ NewGame(r, chain).players # 0
         /\ NewGame(r, chain).users_states = members
<1>1. IsFiniteSet(members) /\ Cardinality(members) \in Nat /\ Cardinality(members) # 0
  BY SeriesAssumption, FS_Subset, FS_CardinalityType, FS_EmptySet
<1>. DEFINE n == Cardinality(members)
<1>2. chain \in [1..n -> members] /\ \A i, j \in 1..n : i < j => chain[i] # chain[j]
  BY DEF Chains
<1>3. chain \in Injection(1..n, members)
  <2>1. \A i, j \in 1..n : chain[i] = chain[j] => i = j  BY <1>1, <1>2
  <2>. QED BY <1>2, <2>1 DEF Injection, IsInjective
<1>4. Cardinality(1..n) = n  BY <1>1, FS_Interval
<1>5. chain \in Surjection(1..n, members)  BY <1>1, <1>3, <1>4, FS_Injection
<1>6. \A u \in members : \E i \in 1..n : chain[i] = u  BY <1>5 DEF Surjection
<1>7. chain \in Seq(members) /\ Len(chain) = n
  BY <1>1, <1>2
<1>8. chain \in Seq(Users)  BY <1>7, SeqMonotonic
<1>9. r \in RoundStates  BY SoundFacts
<1>. DEFINE s == NewGame(r, chain)
<1>10. /\ s \in RoundStates
       /\ s.game = games + 1 /\ s.round = 0 /\ s.chain = chain /\ s.players = n
       /\ s.players_finished = 0 /\ s.users_states = members
       /\ s.round_orders = r.round_orders
  <2>1. s = [r EXCEPT !.game = games + 1, !.round = 0, !.chain = chain, !.players = n,
                      !.players_finished = 0, !.users_states = members]
    BY <1>7 DEF NewGame
  <2>. HIDE DEF s
  <2>2. /\ s.game = games + 1 /\ s.round = 0 /\ s.chain = chain /\ s.players = n
        /\ s.players_finished = 0 /\ s.users_states = members
        /\ s.round_orders = r.round_orders
    BY <1>9, <2>1 DEF RoundStates
  <2>3. games + 1 \in Nat  OBVIOUS
  <2>4. s \in RoundStates  BY <1>1, <1>8, <1>9, <2>1, <2>3 DEF RoundStates
  <2>. QED BY <2>2, <2>4
<1>. HIDE DEF s
<1>11. \A u \in Users : s.round_orders[u] # NoOrder =>
         s.round_orders[u].game \in Nat /\ s.round_orders[u].game <= games
  <2>. SUFFICES ASSUME NEW u \in Users, r.round_orders[u] # NoOrder
                PROVE  r.round_orders[u].game \in Nat /\ r.round_orders[u].game <= games
    BY <1>10
  <2>1. r.round_orders[u] \in Orders  BY SoundFacts
  <2>. QED BY <2>1 DEF Sound, Orders
<1>12. Sound(s, games + 1)
  <2>1. s.round # MaxRounds  BY <1>10, SeriesAssumption
  <2>. QED BY <1>1, <1>6, <1>7, <1>10, <1>11, <2>1, SeriesAssumption DEF Sound, Rounds
<1>13. InRound(s) = {}
  BY <1>10, <1>11 DEF InRound, Ordered
<1>. QED BY <1>1, <1>10, <1>12, <1>13 DEF s
-----------------------------------------------------------------------------
LEMMA TypeFacts ==
  ASSUME Types
  PROVE  /\ members \subseteq Users /\ waiting \subseteq Users
         /\ games \in Nat /\ games <= MaxGames /\ MaxGames \in Nat
         /\ over \subseteq 0..games /\ cut \subseteq 0..games
         /\ Sound(rs, games) /\ rs \in RoundStates
         /\ rows \in Seq(Rows) /\ Len(rows) \in Nat
         /\ \A i \in 1..Len(rows) : Sound(Restored(rows[i]), games)
         /\ pc \in [Users -> Labels] /\ clone \in [Users -> RoundStates \cup {NoClone}]
         /\ \A p \in Users : pc[p] # "idle" => Copy(p, pc[p], clone[p], games)
         /\ \A p \in Users : pc[p] # "idle" => Sound(clone[p], games)
<1>1. games \in Nat  BY SeriesAssumption DEF Types
<1>2. rs \in RoundStates  BY <1>1, SoundFacts DEF Types
<1>3. Len(rows) \in Nat  BY LenProperties DEF Types
<1>4. \A p \in Users : pc[p] # "idle" => Copy(p, pc[p], clone[p], games)  BY DEF Types
<1>5. \A p \in Users : pc[p] # "idle" => Sound(clone[p], games)  BY <1>4 DEF Copy
<1>. QED BY <1>1, <1>2, <1>3, <1>4, <1>5, SeriesAssumption DEF Types

LEMMA OrderFacts ==
  ASSUME SeriesInv
  PROVE  /\ Types
         /\ ~revived => /\ \A p \in Users : Task(p)
                        /\ \A p, q \in Users : p # q => Apart(p, q)
                        /\ Phase /\ CutOff /\ LastRow /\ RoundsComplete /\ SeriesOfRounds
BY DEF SeriesInv, Orderly

\* A task of the game in memory is where it is; any other is nowhere.
LEMMA AtFacts ==
  ASSUME Types, NEW p \in Users
  PROVE  /\ At(p) \in Labels
         /\ At(p) # "idle" => pc[p] = At(p) /\ clone[p].game = rs.game /\ Sound(clone[p], games)
         /\ pc[p] = "idle" => At(p) = "idle"
         /\ pc[p] # "idle" /\ clone[p].game = rs.game => At(p) = pc[p]
<1>1. pc[p] \in Labels  BY TypeFacts
<1>. QED BY <1>1, TypeFacts DEF At, Labels

\* Nobody wrote for another game.
LEMMA OwnGame ==
  ASSUME Types, NEW p \in Users, Revive(p), ~revived'
  PROVE  ~revived /\ clone[p].game = rs.game
BY DEF Types, Revive

\* Whoever waits goes on waiting: the counters stay right.
LEMMA WaitingGrows ==
  ASSUME NEW r, NEW few, NEW many, few \subseteq many
  PROVE  /\ Collecting(r, few) => Collecting(r, many)
         /\ Closed(r, few) => Closed(r, many)
BY DEF Collecting, Closed

LEMMA TaskStill ==
  ASSUME NEW q \in Users, Task(q), At(q)' = At(q), At(q) # "idle" => clone'[q] = clone[q],
         UNCHANGED <<rs, restored>>, waiting \subseteq waiting',
         At(q) # "idle" /\ q \in waiting' => q \in waiting
  PROVE  Task(q)'
<1>1. CASE At(q) = "idle"  BY <1>1 DEF Task, Ordering, Finishes
<1>2. CASE At(q) # "idle"
  <2>1. clone'[q] = clone[q] /\ (q \in waiting' <=> q \in waiting)  BY <1>2
  <2>. QED BY <2>1, WaitingGrows DEF Task, Ordering, Finishes
<1>. QED BY <1>1, <1>2

LEMMA ApartStill ==
  ASSUME NEW p \in Users, NEW q \in Users, Apart(p, q), UNCHANGED restored,
         At(p)' = At(p), At(q)' = At(q), At(q) # "idle" => clone'[q] = clone[q]
  PROVE  Apart(p, q)'
BY DEF Apart, Ordering, Finishes

LEMMA AllIdle ==
  ASSUME \A p \in Users : At(p)' = "idle"
  PROVE  /\ \A p \in Users : Task(p)'
         /\ \A p, q \in Users : Apart(p, q)'
BY DEF Task, Apart, Ordering, Finishes

LEMMA RowsStill ==
  ASSUME SeriesInv, ~revived, UNCHANGED rows
  PROVE  RoundsComplete' /\ SeriesOfRounds'
<1>1. RoundsComplete /\ SeriesOfRounds  BY OrderFacts
<1>. QED BY <1>1 DEF RoundsComplete, SeriesOfRounds

\* A step that no task of the game in memory takes.
LEMMA OrderStill ==
  ASSUME SeriesInv, ~revived, UNCHANGED <<rs, restored, rows, games>>,
         waiting \subseteq waiting', over \subseteq over', rs.game \in cut' <=> rs.game \in cut,
         \A q \in Users : /\ At(q)' = At(q)
                          /\ At(q) # "idle" => /\ clone'[q] = clone[q]
                                               /\ q \in waiting' => q \in waiting
  PROVE  Orderly'
<1>. USE OrderFacts
<1>1. \A q \in Users : Task(q)'  BY TaskStill
<1>2. \A p, q \in Users : p # q => Apart(p, q)'  BY ApartStill
<1>3. /\ Collecting(rs, waiting) => Collecting(rs, waiting')
      /\ Closed(rs, waiting) => Closed(rs, waiting')
  BY WaitingGrows
<1>4. /\ (\E p \in Users : At(p)' = "finishing") <=> \E p \in Users : At(p) = "finishing"
      /\ (\E p \in Users : At(p)' \in {"closed", "persisted"}) <=>
           \E p \in Users : At(p) \in {"closed", "persisted"}
      /\ (\E p \in Users : At(p)' = "closed") <=> \E p \in Users : At(p) = "closed"
  OBVIOUS
<1>5. Phase'
  <2>1. Phase  OBVIOUS
  <2>2. rs.game \in over \cup cut => rs.game \in over' \cup cut'  OBVIOUS
  <2>. QED BY <2>1, <2>2, <1>3, <1>4 DEF Phase
<1>6. CutOff'
  <2>1. CutOff  OBVIOUS
  <2>. QED BY <2>1 DEF CutOff
<1>7. LastRow'
  <2>1. LastRow  OBVIOUS
  <2>. QED BY <2>1, <1>4 DEF LastRow
<1>. QED BY <1>1, <1>2, <1>5, <1>6, <1>7, RowsStill DEF Orderly

\* What happens in the lobby is nothing to the game.
LEMMA LobbyStep ==
  ASSUME SeriesInv, UNCHANGED <<rs, restored, rows, pc, clone, waiting, games, over, past>>,
         members' \subseteq Users, started' \in BOOLEAN, restarts' = restarts
  PROVE  SeriesInv'
<1>1. Types'  BY OrderFacts DEF Types, past
<1>2. \A q \in Users : At(q)' = At(q)  BY DEF At
<1>3. ~revived => Orderly'  BY <1>2, OrderStill DEF past
<1>. QED BY <1>1, <1>3 DEF SeriesInv, past

\* A row of round 0: the game after the last one.  Tasks of the one before are
\* tasks of another game from now on.
LEMMA StartGameStep == ASSUME SeriesInv, StartGame PROVE SeriesInv'
<1>. USE OrderFacts, TypeFacts
<1>1. PICK chain \in Chains :
        /\ rs' = NewGame(rs, chain)
        /\ rows' = Append(rows, [Row(rs') EXCEPT !.round_orders = NoOrders])
  BY DEF StartGame
<1>2. /\ members # {} /\ games < MaxGames
      /\ started' = TRUE /\ restored' = FALSE /\ games' = games + 1 /\ waiting' = {}
      /\ UNCHANGED <<members, pc, clone, over, restarts, cut, revived, faults>>
  BY DEF StartGame, past
<1>3. /\ Sound(rs', games') /\ InRound(rs') = {} /\ rs'.game = games' /\ rs'.round = 0
      /\ rs'.players_finished = 0 /\ rs'.players # 0 /\ rs'.users_states = members
  BY <1>1, <1>2, NewGameFacts
<1>. DEFINE row == [game |-> rs'.game, round |-> rs'.round, chain |-> rs'.chain,
                    users_states |-> rs'.users_states, round_orders |-> NoOrders]
<1>4. rows' = Append(rows, row)  BY <1>1 DEF Row
<1>5. NoOrders \in [Users -> Orders \cup {NoOrder}] /\ \A u \in Users : NoOrders[u] = NoOrder
  BY DEF NoOrders
<1>6. rs' \in RoundStates  BY <1>2, <1>3, SoundFacts
<1>7. row \in Rows  BY <1>5, <1>6 DEF Rows, RoundStates
<1>8. Sound(Restored(row), games')
  <2>. DEFINE s == Restored(row)
  <2>1. /\ s.game = rs'.game /\ s.round = rs'.round /\ s.chain = rs'.chain
        /\ s.players = Len(rs'.chain) /\ s.players_finished = Len(rs'.chain)
        /\ s.users_states = rs'.users_states /\ s.round_orders = NoOrders
    BY DEF Restored
  <2>2. Len(rs'.chain) \in Nat  BY <1>2, <1>3, SoundFacts, LenProperties
  <2>3. s \in RoundStates  BY <1>5, <1>6, <2>2 DEF Restored, RoundStates
  <2>. HIDE DEF s
  <2>4. /\ s.game \in 0..games' /\ s.round \in Rounds
        /\ s.chain \in Seq(s.users_states)
        /\ s.players = Cardinality(s.users_states) /\ s.players = Len(s.chain)
        /\ \A u \in s.users_states : \E i \in 1..Len(s.chain) : s.chain[i] = u
    <3>1. /\ rs'.game \in 0..games' /\ rs'.round \in Rounds
          /\ rs'.chain \in Seq(rs'.users_states)
          /\ rs'.players = Cardinality(rs'.users_states) /\ rs'.players = Len(rs'.chain)
          /\ \A u \in rs'.users_states : \E i \in 1..Len(rs'.chain) : rs'.chain[i] = u
      BY <1>3 DEF Sound
    <3>. QED BY <2>1, <3>1
  <2>5. \A u \in Users : s.round_orders[u] = NoOrder  BY <1>5, <2>1
  <2>6. s.players_finished >= s.players  BY <2>1, <2>2
  <2>7. Sound(s, games')  BY <2>3, <2>4, <2>5, <2>6 DEF Sound
  <2>. QED BY <2>7 DEF s
<1>9. row.game = games + 1 /\ row.round = 0  BY <1>2, <1>3
<1>. HIDE DEF row
<1>10. /\ rows' \in Seq(Rows) /\ Len(rows') = Len(rows) + 1 /\ rows'[Len(rows) + 1] = row
       /\ \A i \in 1..Len(rows) : rows'[i] = rows[i]
  BY <1>4, <1>7, AppendProperties
<1>11. \A i \in 1..Len(rows') : Sound(Restored(rows'[i]), games')
  <2>1. \A i \in 1..Len(rows) : Sound(Restored(rows[i]), games')
    BY <1>2, SoundLater
  <2>. QED BY <1>8, <1>10, <2>1
<1>12. Types'
  <2>1. games' \in 0..MaxGames /\ over' \subseteq 0..games' /\ cut' \subseteq 0..games'
    BY <1>2
  <2>2. \A p \in Users : IF pc'[p] = "idle" THEN clone'[p] = NoClone
                         ELSE Copy(p, pc'[p], clone'[p], games')
    <3>. SUFFICES ASSUME NEW p \in Users
                  PROVE  IF pc[p] = "idle" THEN clone[p] = NoClone
                         ELSE Copy(p, pc[p], clone[p], games')
      BY <1>2
    <3>1. CASE pc[p] = "idle"  BY <3>1 DEF Types
    <3>2. CASE pc[p] # "idle"
      <4>1. Copy(p, pc[p], clone[p], games)  BY <3>2
      <4>2. Sound(clone[p], games')  BY <1>2, <4>1, SoundLater DEF Copy
      <4>. QED BY <3>2, <4>1, <4>2 DEF Copy
    <3>. QED BY <3>1, <3>2
  <2>3. /\ restarts' \in 0..MaxRestarts /\ faults' \in 0..MaxFaults /\ revived' \in BOOLEAN
        /\ members' \subseteq Users /\ waiting' \subseteq Users
        /\ started' \in BOOLEAN /\ restored' \in BOOLEAN
        /\ pc' \in [Users -> Labels] /\ clone' \in [Users -> RoundStates \cup {NoClone}]
    BY <1>2 DEF Types
  <2>. QED BY <1>3, <1>10, <1>11, <2>1, <2>2, <2>3 DEF Types
<1>13. \A p \in Users : At(p)' = "idle"
  <2>. SUFFICES ASSUME NEW p \in Users, pc[p] # "idle" PROVE clone[p].game # rs'.game
    BY <1>2 DEF At
  <2>1. clone[p].game \in Nat /\ clone[p].game <= games  BY SoundFacts
  <2>. QED BY <1>2, <1>3, <2>1
<1>14. Phase' /\ CutOff'
  <2>1. Collecting(rs', waiting')
    BY <1>2, <1>3, SeriesAssumption, FS_EmptySet DEF Collecting
  <2>2. rs'.players_finished # rs'.players  BY <1>3
  <2>3. rs'.game \notin cut'  BY <1>2, <1>3
  <2>. QED BY <1>2, <2>1, <2>2, <2>3 DEF Phase, CutOff
<1>15. LastRow'
  <2>1. rows'[Len(rows')].game = games' /\ rows'[Len(rows')].round = rs'.round
    BY <1>2, <1>3, <1>9, <1>10
  <2>. QED BY <1>2, <1>3, <1>10, <1>13, <2>1 DEF LastRow
<1>16. DOMAIN rows' = 1..Len(rows') /\ DOMAIN rows = 1..Len(rows)
  BY <1>10, LenProperties
<1>17. ASSUME ~revived PROVE RoundsComplete' /\ SeriesOfRounds'
  <2>1. RoundsComplete'
    BY <1>9, <1>10, <1>16, <1>17 DEF RoundsComplete
  <2>2. SeriesOfRounds'
    <3>. SUFFICES ASSUME NEW i \in 1..(Len(rows) + 1)
                  PROVE IF rows'[i].round = 0 THEN i = 1 \/ rows'[i].game = rows'[i - 1].game + 1
                        ELSE i > 1 /\ rows'[i].game = rows'[i - 1].game
                               /\ rows'[i].round = rows'[i - 1].round + 1
      BY <1>10, <1>16 DEF SeriesOfRounds
    <3>1. CASE i <= Len(rows)
      <4>1. rows'[i] = rows[i] /\ (i > 1 => rows'[i - 1] = rows[i - 1])
        BY <1>10, <3>1
      <4>2. IF rows[i].round = 0 THEN i = 1 \/ rows[i].game = rows[i - 1].game + 1
            ELSE i > 1 /\ rows[i].game = rows[i - 1].game
                   /\ rows[i].round = rows[i - 1].round + 1
        <5>1. i \in DOMAIN rows /\ SeriesOfRounds  BY <1>16, <1>17, <3>1
        <5>. QED BY <1>17, <5>1 DEF SeriesOfRounds
      <4>. QED BY <4>1, <4>2
    <3>2. CASE i = Len(rows) + 1
      <4>1. LastRow  BY <1>17
      <4>. QED BY <1>9, <1>10, <3>2, <4>1 DEF LastRow
    <3>. QED BY <3>1, <3>2
  <2>. QED BY <2>1, <2>2
<1>. QED
  BY <1>2, <1>12, <1>13, <1>14, <1>15, <1>17, AllIdle DEF SeriesInv, Orderly

\* Any row may be restored: its counter is full.
LEMMA RestartStep == ASSUME SeriesInv, Restart PROVE SeriesInv'
<1>. USE OrderFacts, TypeFacts
<1>1. /\ restarts < MaxRestarts /\ restarts' = restarts + 1 /\ restored' = started
      /\ pc' = [u \in Users |-> "idle"] /\ clone' = [u \in Users |-> NoClone]
      /\ waiting' = {}
      /\ UNCHANGED <<members, started, rows, games, over, cut, revived, faults>>
  BY DEF Restart, past
<1>2. DOMAIN rows = 1..Len(rows)  BY LenProperties
<1>3. \A p \in Users : At(p)' = "idle"  BY <1>1 DEF At
<1>4. ASSUME Sound(rs', games) PROVE Types'
  BY <1>1, <1>4, SeriesAssumption DEF Types, Labels
<1>5. CASE started
  <2>1. PICK i \in 1..Len(rows) : rs' = Restored(rows[i])  BY <1>2, <1>5 DEF Restart
  <2>2. Sound(rs', games)  BY <2>1
  <2>3. rs'.players_finished = rs'.players /\ rs'.players \in Nat
    <3>1. rs'.players_finished = rs'.players  BY <2>1 DEF Restored
    <3>2. rs'.players \in Nat  BY <2>2, SoundFacts
    <3>. QED BY <3>1, <3>2
  <2>4. Phase' /\ CutOff'  BY <1>1, <1>5, <2>3 DEF Phase, CutOff
  <2>5. ASSUME ~revived PROVE LastRow'
    BY <1>1, <1>5, <2>5 DEF LastRow
  <2>. QED BY <1>1, <1>3, <1>4, <2>2, <2>4, <2>5, AllIdle, RowsStill DEF SeriesInv, Orderly
<1>6. CASE ~started
  <2>1. rs' = NewRoundState  BY <1>6 DEF Restart
  <2>2. Sound(NewRoundState, games)
    <3>1. NoOrders \in [Users -> Orders \cup {NoOrder}] /\ \A u \in Users : NoOrders[u] = NoOrder
      BY DEF NoOrders
    <3>2. <<>> \in Seq(Users) /\ <<>> \in Seq({}) /\ Len(<<>>) = 0  BY EmptySeq
    <3>. HIDE DEF NoOrders
    <3>. QED BY <3>1, <3>2, FS_EmptySet, SeriesAssumption
             DEF NewRoundState, Sound, RoundStates, Rounds
  <2>3. /\ rs'.users_states = {} /\ rs'.round = 0 /\ rs'.players_finished = 0
        /\ InRound(rs') = {}
    BY <2>1 DEF NewRoundState, InRound
  <2>4. Collecting(rs', waiting')
    BY <2>3, FS_EmptySet, SeriesAssumption DEF Collecting
  <2>5. Phase' /\ CutOff'  BY <1>1, <1>3, <1>6, <2>3, <2>4 DEF Phase, CutOff
  <2>6. ASSUME ~revived PROVE LastRow'
    BY <1>1, <2>3, <2>6 DEF LastRow
  <2>. QED BY <1>1, <1>3, <1>4, <2>1, <2>2, <2>5, <2>6, AllIdle, RowsStill
           DEF SeriesInv, Orderly
<1>. QED BY <1>5, <1>6 DEF Types
-----------------------------------------------------------------------------
\* The types of a step of p's task.
LEMMA TaskTypes ==
  ASSUME Types, NEW p \in Users, NEW label \in Labels, pc' = [pc EXCEPT ![p] = label],
         NEW copy \in RoundStates \cup {NoClone}, clone' = [clone EXCEPT ![p] = copy],
         IF label = "idle" THEN copy = NoClone ELSE Copy(p, label, copy, games),
         Sound(rs', games), waiting' \subseteq Users,
         over' \subseteq 0..games, cut' \subseteq 0..games, revived' \in BOOLEAN,
         faults' \in 0..MaxFaults,
         rows' \in Seq(Rows), \A i \in 1..Len(rows') : Sound(Restored(rows'[i]), games),
         UNCHANGED <<members, started, restored, games, restarts>>
  PROVE  Types'
<1>. USE TypeFacts
<1>1. /\ pc' \in [Users -> Labels] /\ clone' \in [Users -> RoundStates \cup {NoClone}]
      /\ \A q \in Users : IF pc'[q] = "idle" THEN clone'[q] = NoClone
                          ELSE Copy(q, pc'[q], clone'[q], games)
  <2>1. \A q \in Users : IF pc[q] = "idle" THEN clone[q] = NoClone
                         ELSE Copy(q, pc[q], clone[q], games)
    BY DEF Types
  <2>. QED BY <2>1
<1>. QED BY <1>1 DEF Types

\* What most steps keep.
LEMMA Kept ==
  ASSUME Types
  PROVE  /\ UNCHANGED rows => /\ rows' \in Seq(Rows)
                              /\ \A i \in 1..Len(rows') : Sound(Restored(rows'[i]), games)
         /\ UNCHANGED past => /\ cut' \subseteq 0..games /\ revived' \in BOOLEAN
                              /\ faults' \in 0..MaxFaults
         /\ \A p \in Users : Revive(p) => /\ cut' \subseteq 0..games /\ revived' \in BOOLEAN
                                          /\ faults' \in 0..MaxFaults
BY DEF Types, past, Revive

\* The step of p's task changes nothing for the others, if the game in memory
\* stays the same.
LEMMA OthersStill ==
  ASSUME Types, NEW p \in Users, NEW label, pc' = [pc EXCEPT ![p] = label],
         NEW copy, clone' = [clone EXCEPT ![p] = copy], rs'.game = rs.game
  PROVE  /\ \A q \in Users : q # p => At(q)' = At(q) /\ clone'[q] = clone[q]
         /\ At(p)' = IF label # "idle" /\ copy.game = rs.game THEN label ELSE "idle"
         /\ clone'[p] = copy
BY TypeFacts DEF At

\* A task of another game, or one that has done nothing yet, is dropped.
LEMMA DropTask ==
  ASSUME SeriesInv, NEW p \in Users, At(p) = "idle", Return(p), ~revived,
         UNCHANGED <<rs, restored, rows, games, waiting>>, over \subseteq over',
         rs.game \in cut' <=> rs.game \in cut
  PROVE  Orderly'
<1>1. pc' = [pc EXCEPT ![p] = "idle"] /\ clone' = [clone EXCEPT ![p] = NoClone]
  BY DEF Return
<1>2. \A q \in Users : At(q)' = At(q) /\ (At(q) # "idle" => clone'[q] = clone[q])
  BY <1>1, OrderFacts, OthersStill
<1>. QED BY <1>2, OrderStill

\* Who may still order is in a round that collects.
LEMMA TakeOrderStep ==
  ASSUME SeriesInv, NEW p \in Users, TakeOrder(p)
  PROVE  SeriesInv'
<1>. USE OrderFacts, TypeFacts
<1>1. /\ pc[p] = "idle" /\ p \notin waiting /\ p \in rs.users_states
      /\ clone' = [clone EXCEPT ![p] = rs] /\ pc' = [pc EXCEPT ![p] = "cloned"]
      /\ UNCHANGED <<members, started, rs, restored, rows, waiting, games, over, restarts, past>>
  BY DEF TakeOrder, Goto
<1>2. Types'
  <2>1. "cloned" \in Labels /\ Copy(p, "cloned", rs, games)  BY <1>1 DEF Labels, Copy
  <2>2. over' \subseteq 0..games /\ waiting' \subseteq Users  BY <1>1
  <2>3. rs \in RoundStates \cup {NoClone} /\ "cloned" # "idle" /\ Sound(rs', games)  BY <1>1
  <2>. QED BY <1>1, <2>1, <2>2, <2>3, Kept, TaskTypes
<1>3. SUFFICES ASSUME ~revived PROVE Orderly'
  BY <1>1, <1>2 DEF SeriesInv, past
<1>4. ~restored => Collecting(rs, waiting)
  <2>1. Phase  BY <1>3
  <2>. QED BY <1>1, <2>1 DEF Phase, Closed
<1>5. ~restored => p \notin InRound(rs) /\ rs.game \notin cut
  <2>1. CutOff  BY <1>3
  <2>. QED BY <1>1, <1>4, <2>1 DEF Collecting, CutOff
<1>6. /\ \A q \in Users : q # p => At(q)' = At(q) /\ clone'[q] = clone[q]
      /\ At(p)' = "cloned" /\ clone'[p] = rs /\ At(p) = "idle"
  <2>1. Types /\ rs'.game = rs.game /\ "cloned" # "idle"  BY <1>1
  <2>2. At(p)' = "cloned"  BY <1>1, <2>1 DEF At
  <2>3. \A q \in Users : q # p => At(q)' = At(q) /\ clone'[q] = clone[q]
    BY <1>1 DEF At
  <2>. QED BY <1>1, <2>2, <2>3 DEF At
<1>7. ASSUME NEW q \in Users PROVE Task(q)'
  <2>1. CASE q = p
    <3>1. restored => rs.players_finished >= rs.players  BY <1>3 DEF Phase
    <3>. QED BY <1>1, <1>4, <1>5, <1>6, <2>1, <3>1 DEF Task, Ordering, Finishes, SameGame
  <2>2. CASE q # p  BY <1>1, <1>3, <1>6, <2>2, TaskStill
  <2>. QED BY <2>1, <2>2
<1>8. ASSUME NEW q \in Users, q # p PROVE Apart(p, q)' /\ Apart(q, p)'
  <2>. Task(q)  BY <1>3
  <2>1. ~Finishes(q)
    <3>. SUFFICES ASSUME Finishes(q) PROVE FALSE
      OBVIOUS
    <3>1. At(q) = "finishing" => InRound(rs) = rs.users_states /\ InRound(rs) \subseteq waiting
      BY DEF Task, Collecting
    <3>2. At(q) \in {"closed", "persisted"} => rs.users_states \subseteq waiting
      BY DEF Task, Closed
    <3>. QED BY <1>1, <3>1, <3>2 DEF Finishes
  <2>2. Ordering(q) /\ ~restored => p \notin InRound(clone[q]) /\ q \notin InRound(rs)
    BY <1>1 DEF Task, Collecting
  <2>. QED BY <1>1, <1>6, <1>8, <2>1, <2>2 DEF Apart, Ordering, Finishes
<1>9. \A q, r \in Users : q # r => Apart(q, r)'
  <2>. SUFFICES ASSUME NEW q \in Users, NEW r \in Users, q # r PROVE Apart(q, r)'
    OBVIOUS
  <2>1. CASE q # p /\ r # p  BY <1>1, <1>3, <1>6, <2>1, ApartStill
  <2>. QED BY <1>8, <2>1
<1>10. Phase' /\ CutOff'
  <2>1. (\E q \in Users : At(q) = "finishing") => \E q \in Users : At(q)' = "finishing"
    BY <1>6
  <2>2. Phase /\ cut' = cut  BY <1>1, <1>3 DEF past
  <2>. QED BY <1>1, <1>4, <1>5, <2>1, <2>2 DEF Phase, Closed, CutOff
<1>11. LastRow'
  <2>1. (\E q \in Users : At(q)' = "closed") <=> \E q \in Users : At(q) = "closed"
    BY <1>6
  <2>2. LastRow /\ cut' = cut  BY <1>1, <1>3 DEF past
  <2>. QED BY <1>1, <2>1, <2>2 DEF LastRow
<1>. QED BY <1>1, <1>3, <1>7, <1>9, <1>10, <1>11, RowsStill DEF Orderly

LEMMA AckOrderStep ==
  ASSUME SeriesInv, NEW p \in Users, AckOrder(p)
  PROVE  SeriesInv'
<1>. USE OrderFacts, TypeFacts
<1>1. /\ pc[p] = "cloned" /\ pc' = [pc EXCEPT ![p] = "acked"]
      /\ waiting \subseteq waiting' /\ waiting' \subseteq waiting \cup {p}
      /\ clone[p].game = rs.game => waiting' = waiting \cup {p}
      /\ UNCHANGED <<members, started, rs, restored, rows, clone, games, over, restarts, past>>
  BY DEF AckOrder, Goto
<1>2. /\ clone' = [clone EXCEPT ![p] = clone[p]] /\ clone[p] \in RoundStates \cup {NoClone}
      /\ Copy(p, "cloned", clone[p], games)
  BY <1>1
<1>3. Types'
  <2>1. "acked" \in Labels /\ Copy(p, "acked", clone[p], games)  BY <1>2 DEF Labels, Copy
  <2>2. over' \subseteq 0..games /\ waiting' \subseteq Users  BY <1>1
  <2>3. "acked" # "idle" /\ Sound(rs', games)  BY <1>1
  <2>4. rows' \in Seq(Rows) /\ \A i \in 1..Len(rows') : Sound(Restored(rows'[i]), games)
    BY <1>1, Kept
  <2>5. cut' \subseteq 0..games /\ revived' \in BOOLEAN /\ faults' \in 0..MaxFaults
    BY <1>1, Kept
  <2>. QED BY <1>1, <1>2, <2>1, <2>2, <2>3, <2>4, <2>5, TaskTypes
<1>4. SUFFICES ASSUME ~revived PROVE Orderly'
  BY <1>1, <1>3 DEF SeriesInv, past
<1>5. /\ \A q \in Users : q # p => At(q)' = At(q) /\ clone'[q] = clone[q]
      /\ At(p)' = IF clone[p].game = rs.game THEN "acked" ELSE "idle"
      /\ At(p) = IF clone[p].game = rs.game THEN "cloned" ELSE "idle"
  <2>1. At(p) = IF clone[p].game = rs.game THEN "cloned" ELSE "idle"  BY <1>1 DEF At
  <2>2. "acked" # "idle" /\ rs'.game = rs.game  BY <1>1
  <2>3. \A q \in Users : q # p => At(q)' = At(q) /\ clone'[q] = clone[q]
    BY <1>1 DEF At
  <2>4. At(p)' = IF clone[p].game = rs.game THEN "acked" ELSE "idle"
    BY <1>1 DEF At
  <2>. QED BY <2>1, <2>3, <2>4
<1>6. CASE clone[p].game # rs.game
  <2>1. \A q \in Users : At(q)' = At(q) /\ (At(q) # "idle" => q # p)  BY <1>5, <1>6
  <2>2. cut' = cut  BY <1>1 DEF past
  <2>. QED BY <1>1, <1>4, <2>1, <2>2, OrderStill
<1>7. CASE clone[p].game = rs.game
  <2>1. /\ At(p)' = "acked" /\ At(p) = "cloned" /\ p \in waiting'
        /\ \A q \in Users : q # p => (q \in waiting' <=> q \in waiting)
    BY <1>1, <1>5, <1>7
  <2>2. ASSUME NEW q \in Users PROVE Task(q)'
    <3>. Task(q)  BY <1>4
    <3>1. CASE q = p
      BY <1>1, <2>1, <3>1, WaitingGrows DEF Task, Ordering, Finishes
    <3>2. CASE q # p  BY <1>1, <1>5, <2>1, <3>2, TaskStill
    <3>. QED BY <3>1, <3>2
  <2>3. \A q, r \in Users : q # r => Apart(q, r)'
    <3>. SUFFICES ASSUME NEW q \in Users, NEW r \in Users, q # r PROVE Apart(q, r)'
      OBVIOUS
    <3>1. Apart(q, r)  BY <1>4
    <3>. QED BY <1>1, <1>5, <2>1, <3>1 DEF Apart, Ordering, Finishes
  <2>4. Phase' /\ CutOff'
    <3>1. (\E q \in Users : At(q) = "finishing") => \E q \in Users : At(q)' = "finishing"
      BY <1>5, <2>1
    <3>2. (\E q \in Users : At(q) \in {"closed", "persisted"}) =>
             \E q \in Users : At(q)' \in {"closed", "persisted"}
      BY <1>5, <2>1
    <3>3. Phase /\ CutOff /\ cut' = cut  BY <1>1, <1>4 DEF past
    <3>4. Phase'  BY <1>1, <3>1, <3>2, <3>3, WaitingGrows DEF Phase
    <3>5. CutOff'  BY <1>1, <2>1, <3>3 DEF CutOff
    <3>. QED BY <3>4, <3>5
  <2>5. LastRow'
    <3>1. (\E q \in Users : At(q)' = "closed") <=> \E q \in Users : At(q) = "closed"
      BY <1>5, <2>1
    <3>2. LastRow /\ cut' = cut  BY <1>1, <1>4 DEF past
    <3>. QED BY <1>1, <3>1, <3>2 DEF LastRow
  <2>. QED BY <1>1, <1>4, <2>2, <2>3, <2>4, <2>5, RowsStill DEF Orderly
<1>. QED BY <1>6, <1>7

\* The copy with the order replaces the round state, and with it the orders
\* that others saved meanwhile: the counter is still right for those it holds.
LEMMA SaveOrderStep ==
  ASSUME SeriesInv, NEW p \in Users, SaveOrder(p)
  PROVE  SeriesInv'
<1>. USE OrderFacts, TypeFacts
<1>1. /\ pc[p] = "acked" /\ rs' = Record(clone[p], p) /\ Revive(p)
      /\ UNCHANGED <<members, started, restored, rows, waiting, games, over, restarts>>
  BY DEF SaveOrder
<1>2. Sound(clone[p], games) /\ p \in clone[p].users_states
  BY <1>1 DEF Copy
<1>3. /\ Sound(rs', games) /\ SameGame(rs', clone[p]) /\ rs'.round = clone[p].round
      /\ rs'.players_finished = clone[p].players_finished + 1
      /\ InRound(rs') = InRound(clone[p]) \cup {p}
  BY <1>1, <1>2, RecordFacts
<1>4. /\ rs'.players \in Nat /\ clone[p].players_finished \in Nat
      /\ rs'.players = clone[p].players /\ clone[p].players \in Nat
  BY <1>2, <1>3, SoundFacts DEF SameGame
<1>5. PICK label \in {"idle", "finishing"}, copy \in {NoClone, rs'} :
        /\ pc' = [pc EXCEPT ![p] = label] /\ clone' = [clone EXCEPT ![p] = copy]
        /\ label = "finishing" <=> rs'.players_finished = rs'.players
        /\ IF label = "idle" THEN copy = NoClone ELSE copy = rs'
  <2>1. CASE rs'.players_finished = rs'.players
    BY <2>1 DEF SaveOrder, Goto
  <2>2. CASE rs'.players_finished # rs'.players
    BY <2>2 DEF SaveOrder, Return
  <2>. QED BY <2>1, <2>2
<1>6. Types'
  <2>1. label \in Labels  BY DEF Labels
  <2>2. rs' \in RoundStates  BY <1>3, SoundFacts
  <2>3. over' \subseteq 0..games /\ waiting' \subseteq Users  BY <1>1
  <2>4. label = "finishing" => rs'.round < MaxRounds
    <3>1. clone[p].round = MaxRounds => clone[p].players_finished >= clone[p].players
      BY <1>2, SoundFacts
    <3>2. clone[p].round \in Nat /\ clone[p].round <= MaxRounds  BY <1>2, SoundFacts
    <3>. QED BY <1>3, <1>4, <1>5, <3>1, <3>2, SeriesAssumption
  <2>5. label # "idle" => Copy(p, label, copy, games)
    <3>1. p \in rs'.users_states  BY <1>2, <1>3 DEF SameGame
    <3>2. label # "idle" => label = "finishing" /\ copy = rs'  BY <1>5
    <3>3. label # "idle" => rs'.players_finished >= rs'.players  BY <1>4, <1>5
    <3>. QED BY <1>3, <2>4, <3>1, <3>2, <3>3 DEF Copy
  <2>6. IF label = "idle" THEN copy = NoClone ELSE Copy(p, label, copy, games)
    BY <1>5, <2>5
  <2>7. copy \in RoundStates \cup {NoClone}  BY <2>2
  <2>8. rows' \in Seq(Rows) /\ \A i \in 1..Len(rows') : Sound(Restored(rows'[i]), games)
    BY <1>1, Kept
  <2>9. cut' \subseteq 0..games /\ revived' \in BOOLEAN /\ faults' \in 0..MaxFaults
    BY <1>1, Kept
  <2>. QED BY <1>1, <1>3, <1>5, <2>1, <2>3, <2>6, <2>7, <2>8, <2>9, TaskTypes
<1>7. SUFFICES ASSUME ~revived' PROVE Orderly'
  BY <1>6 DEF SeriesInv
<1>8. ~revived /\ clone[p].game = rs.game  BY <1>1, <1>7, OwnGame
<1>. USE <1>8
<1>9. At(p) = "acked" /\ Task(p) /\ cut' = cut
  BY <1>1 DEF At, Revive
<1>10. /\ SameGame(clone[p], rs)
       /\ restored => clone[p].players_finished >= clone[p].players
       /\ ~restored =>
            /\ Collecting(clone[p], waiting) /\ clone[p].round = rs.round
            /\ p \notin InRound(clone[p]) /\ p \in waiting
  BY <1>9 DEF Task, Ordering, SameGame
<1>11. SameGame(rs', rs) /\ rs'.game = rs.game
  BY <1>3, <1>10 DEF SameGame
<1>12. ~restored => Collecting(rs', waiting)
  BY <1>1, <1>2, <1>10, RecordCollects
<1>13. restored => rs'.players_finished > rs'.players
  BY <1>3, <1>4, <1>10
<1>14. \A q \in Users : ~Finishes(q)
  BY <1>9 DEF Apart, Finishes
<1>15. /\ At(p)' = label /\ clone'[p] = copy
       /\ \A q \in Users : q # p => At(q)' = At(q) /\ clone'[q] = clone[q]
  <2>1. \A q \in Users : q # p => At(q)' = At(q) /\ clone'[q] = clone[q]
    BY <1>5, <1>11 DEF At
  <2>2. label = "idle" => At(p)' = "idle"  BY <1>5 DEF At
  <2>3. label # "idle" => At(p)' = label
    <3>1. label # "idle" => pc'[p] = label /\ clone'[p] = rs'  BY <1>5
    <3>. QED BY <3>1 DEF At
  <2>. QED BY <1>5, <2>1, <2>2, <2>3
<1>16. ASSUME label = "finishing"
       PROVE  /\ ~restored /\ InRound(rs') = rs'.users_states
              /\ \A q \in Users : q # p => At(q) = "idle"
  <2>1. ~restored /\ rs'.players_finished = rs'.players
    BY <1>4, <1>5, <1>13, <1>16
  <2>2. InRound(rs') = rs'.users_states
    BY <1>3, <1>12, <2>1, InRoundFacts DEF Collecting
  <2>3. ASSUME NEW q \in Users, q # p, At(q) # "idle" PROVE FALSE
    <3>1. Ordering(q)  BY <1>14, <2>3, AtFacts DEF Ordering, Finishes, Labels
    <3>2. q \in rs.users_states  BY <2>3 DEF Task
    <3>3. q \notin InRound(clone[p])  BY <1>9, <2>1, <2>3, <3>1 DEF Apart, Ordering
    <3>. QED BY <1>3, <1>11, <2>2, <2>3, <3>2, <3>3 DEF SameGame
  <2>. QED BY <2>1, <2>2, <2>3
<1>17. ASSUME NEW q \in Users PROVE Task(q)'
  <2>1. CASE q = p
    <3>1. CASE label = "idle"
      BY <1>15, <2>1, <3>1 DEF Task, Ordering, Finishes
    <3>2. CASE label = "finishing"
      <4>1. /\ ~restored /\ copy = rs' /\ InRound(rs') = rs'.users_states
            /\ Collecting(rs', waiting) /\ p \in rs'.users_states /\ SameGame(rs', rs')
        BY <1>2, <1>3, <1>5, <1>12, <1>16, <3>2 DEF SameGame
      <4>. QED BY <1>1, <1>15, <2>1, <3>2, <4>1 DEF Task, Ordering, Finishes
    <3>. QED BY <3>1, <3>2
  <2>2. CASE q # p /\ At(q) = "idle"
    BY <1>15, <2>2 DEF Task, Ordering, Finishes
  <2>3. CASE q # p /\ At(q) # "idle"
    <3>1. Ordering(q)  BY <1>14, <2>3, AtFacts DEF Ordering, Finishes, Labels
    <3>2. q \in rs'.users_states /\ SameGame(clone[q], rs')
      BY <1>11, <2>3 DEF Task, SameGame
    <3>3. ~restored => q \notin InRound(rs')
      BY <1>3, <1>9, <2>3, <3>1 DEF Apart, Ordering
    <3>4. ~restored => clone[q].round = rs'.round
      BY <1>3, <1>10, <3>1 DEF Task
    <3>5. Task(q)  OBVIOUS
    <3>. QED BY <1>1, <1>12, <1>15, <2>3, <3>1, <3>2, <3>3, <3>4, <3>5
             DEF Task, Ordering, Finishes
  <2>. QED BY <2>1, <2>2, <2>3
<1>18. \A q, r \in Users : q # r => Apart(q, r)'
  <2>. SUFFICES ASSUME NEW q \in Users, NEW r \in Users, q # r PROVE Apart(q, r)'
    OBVIOUS
  <2>1. Apart(q, r)  OBVIOUS
  <2>2. CASE q = p
    BY <1>15, <1>16, <2>2 DEF Apart, Ordering, Finishes
  <2>3. CASE r = p
    <3>1. ~Finishes(q)' /\ ~Ordering(r)'
      BY <1>14, <1>15, <2>3 DEF Ordering, Finishes
    <3>. QED BY <3>1 DEF Apart
  <2>4. CASE q # p /\ r # p  BY <1>1, <1>15, <2>1, <2>4, ApartStill
  <2>. QED BY <2>2, <2>3, <2>4
<1>19. Phase'
  <2>1. restored => rs'.players_finished >= rs'.players  BY <1>3, <1>4, <1>13
  <2>2. rs'.players_finished = rs'.players => \E q \in Users : At(q)' = "finishing"
    BY <1>5, <1>15
  <2>. QED BY <1>1, <1>12, <2>1, <2>2 DEF Phase
<1>20. ~restored => rs.game \notin cut
  <2>1. CutOff  OBVIOUS
  <2>. QED BY <1>9, <2>1 DEF CutOff
<1>21. CutOff'  BY <1>1, <1>9, <1>11, <1>20 DEF CutOff
<1>22. LastRow'
  <2>1. (\E q \in Users : At(q)' = "closed") <=> \E q \in Users : At(q) = "closed"
    BY <1>9, <1>15
  <2>2. ~restored => rs'.round = rs.round  BY <1>3, <1>10
  <2>3. LastRow  OBVIOUS
  <2>. QED BY <1>1, <1>9, <1>11, <2>1, <2>2, <2>3 DEF LastRow, SameGame
<1>. QED BY <1>1, <1>17, <1>18, <1>19, <1>21, <1>22, RowsStill DEF Orderly

\* Whoever closes the round is alone with it.
LEMMA ClosingFacts ==
  ASSUME SeriesInv, ~revived, NEW p \in Users, Closing(p), clone[p].game = rs.game
  PROVE  /\ At(p) = pc[p] /\ Finishes(p)
         /\ ~restored /\ rs = clone[p] /\ p \in rs.users_states
         /\ rs.game = games /\ games # 0 /\ rs.game \notin cut
         /\ \A q \in Users : q # p => At(q) = "idle"
         /\ rs.users_states \subseteq waiting
<1>1. At(p) = pc[p] /\ Finishes(p)  BY DEF At, Closing, Finishes
<1>2. Task(p) /\ LastRow /\ CutOff  BY OrderFacts
<1>3. \A q \in Users : q # p => Apart(p, q)  BY OrderFacts
<1>4. ~restored /\ rs = clone[p] /\ p \in rs.users_states
  BY <1>1, <1>2 DEF Task, Finishes
<1>5. rs.game = games /\ games # 0  BY <1>2, <1>4 DEF LastRow
<1>6. rs.game \notin cut  BY <1>1, <1>2, <1>4 DEF CutOff, Finishes
<1>7. \A q \in Users : q # p => At(q) = "idle"  BY <1>1, <1>3 DEF Apart
<1>8. rs.users_states \subseteq waiting
  <2>1. At(p) = "finishing" => InRound(rs) = rs.users_states /\ InRound(rs) \subseteq waiting
    BY <1>2 DEF Task, Collecting
  <2>2. At(p) \in {"closed", "persisted"} => rs.users_states \subseteq waiting
    BY <1>2 DEF Task, Closed
  <2>. QED BY <1>1, <2>1, <2>2 DEF Finishes
<1>. QED BY <1>1, <1>4, <1>5, <1>6, <1>7, <1>8

LEMMA CloseRoundStep ==
  ASSUME SeriesInv, NEW p \in Users, CloseRound(p)
  PROVE  SeriesInv'
<1>. USE OrderFacts, TypeFacts
<1>1. /\ pc[p] = "finishing" /\ rs' = [clone[p] EXCEPT !.round = @ + 1] /\ Revive(p)
      /\ clone' = [clone EXCEPT ![p] = rs'] /\ pc' = [pc EXCEPT ![p] = "closed"]
      /\ UNCHANGED <<members, started, restored, rows, waiting, games, over, restarts>>
  BY DEF CloseRound, Goto
<1>2. /\ Sound(clone[p], games) /\ p \in clone[p].users_states
      /\ clone[p].round < MaxRounds /\ clone[p].players_finished >= clone[p].players
      /\ clone[p] \in RoundStates /\ clone[p].round \in Nat
  BY <1>1, SoundFacts DEF Copy
<1>3. /\ rs' \in RoundStates /\ rs'.round = clone[p].round + 1 /\ SameGame(rs', clone[p])
      /\ rs'.players_finished = clone[p].players_finished
      /\ rs'.round_orders = clone[p].round_orders
  <2>1. rs' = [clone[p] EXCEPT !.round = clone[p].round + 1]  BY <1>1
  <2>2. rs' \in RoundStates
    <3>1. clone[p].round + 1 \in Nat  BY <1>2
    <3>. QED BY <1>2, <2>1, <3>1 DEF RoundStates
  <2>3. /\ rs'.game = clone[p].game /\ rs'.round = clone[p].round + 1
        /\ rs'.chain = clone[p].chain /\ rs'.players = clone[p].players
        /\ rs'.users_states = clone[p].users_states
        /\ rs'.players_finished = clone[p].players_finished
        /\ rs'.round_orders = clone[p].round_orders
    BY <1>2, <2>1 DEF RoundStates
  <2>. QED BY <2>2, <2>3 DEF SameGame
<1>4. Sound(rs', games)
  <2>1. rs'.round \in Rounds  BY <1>2, <1>3, SeriesAssumption DEF Rounds
  <2>2. Sound(clone[p], games)  BY <1>2
  <2>3. /\ rs'.game = clone[p].game /\ rs'.chain = clone[p].chain
        /\ rs'.players = clone[p].players /\ rs'.users_states = clone[p].users_states
        /\ rs'.round_orders = clone[p].round_orders
    BY <1>3 DEF SameGame
  <2>4. rs'.players_finished >= rs'.players  BY <1>2, <1>3, <2>3
  <2>5. /\ rs'.game \in 0..games /\ rs'.chain \in Seq(rs'.users_states)
        /\ rs'.players = Cardinality(rs'.users_states) /\ rs'.players = Len(rs'.chain)
        /\ \A u \in rs'.users_states : \E i \in 1..Len(rs'.chain) : rs'.chain[i] = u
    <3>1. /\ clone[p].game \in 0..games /\ clone[p].chain \in Seq(clone[p].users_states)
          /\ clone[p].players = Cardinality(clone[p].users_states)
          /\ clone[p].players = Len(clone[p].chain)
          /\ \A u \in clone[p].users_states :
               \E i \in 1..Len(clone[p].chain) : clone[p].chain[i] = u
      BY <2>2 DEF Sound
    <3>. QED BY <2>3, <3>1
  <2>6. \A u \in Users : rs'.round_orders[u] # NoOrder => rs'.round_orders[u].game <= games
    BY <2>2, <2>3 DEF Sound
  <2>. QED BY <1>3, <2>1, <2>4, <2>5, <2>6 DEF Sound
<1>5. Types'
  <2>1. "closed" \in Labels /\ Copy(p, "closed", rs', games)
    BY <1>2, <1>3, <1>4 DEF Labels, Copy, SameGame
  <2>2. over' \subseteq 0..games /\ waiting' \subseteq Users  BY <1>1
  <2>3. rs' \in RoundStates \cup {NoClone} /\ "closed" # "idle"  BY <1>3
  <2>4. rows' \in Seq(Rows) /\ \A i \in 1..Len(rows') : Sound(Restored(rows'[i]), games)
    BY <1>1, Kept
  <2>5. cut' \subseteq 0..games /\ revived' \in BOOLEAN /\ faults' \in 0..MaxFaults
    BY <1>1, Kept
  <2>. QED BY <1>1, <1>4, <2>1, <2>2, <2>3, <2>4, <2>5, TaskTypes
<1>6. SUFFICES ASSUME ~revived' PROVE Orderly'
  BY <1>5 DEF SeriesInv
<1>7. ~revived /\ clone[p].game = rs.game  BY <1>1, <1>6, OwnGame
<1>. USE <1>7
<1>8. /\ At(p) = "finishing" /\ ~restored /\ rs = clone[p] /\ p \in rs.users_states
      /\ rs.game \notin cut /\ cut' = cut
      /\ \A q \in Users : q # p => At(q) = "idle"
  BY <1>1, ClosingFacts DEF Closing, Revive
<1>9. Collecting(rs, waiting) /\ InRound(rs) = rs.users_states
  <2>1. Task(p)  OBVIOUS
  <2>. QED BY <1>8, <2>1 DEF Task
<1>10. Closed(rs', waiting)
  BY <1>2, <1>3, <1>8, <1>9 DEF Closed, Collecting, InRound, Ordered, SameGame
<1>11. /\ At(p)' = "closed" /\ clone'[p] = rs' /\ rs'.game = rs.game
       /\ \A q \in Users : q # p => At(q)' = "idle"
  <2>1. rs'.game = rs.game  BY <1>3, <1>8 DEF SameGame
  <2>2. pc'[p] = "closed" /\ clone'[p] = rs'  BY <1>1
  <2>3. \A q \in Users : q # p => At(q)' = At(q)  BY <1>1, <2>1 DEF At
  <2>. QED BY <1>8, <2>1, <2>2, <2>3 DEF At
<1>12. ASSUME NEW q \in Users PROVE Task(q)'
  <2>1. CASE q = p
    <3>1. p \in rs'.users_states /\ SameGame(rs', rs')  BY <1>2, <1>3 DEF SameGame
    <3>. QED BY <1>1, <1>8, <1>10, <1>11, <2>1, <3>1 DEF Task, Ordering, Finishes
  <2>2. CASE q # p  BY <1>11, <2>2 DEF Task, Ordering, Finishes
  <2>. QED BY <2>1, <2>2
<1>13. \A q, r \in Users : q # r => Apart(q, r)'
  BY <1>11 DEF Apart, Ordering, Finishes
<1>14. Phase' /\ CutOff'  BY <1>1, <1>8, <1>10, <1>11 DEF Phase, CutOff
<1>15. LastRow'
  <2>1. ~\E q \in Users : At(q) = "closed"  BY <1>8
  <2>2. \E q \in Users : At(q)' = "closed"  BY <1>11
  <2>3. LastRow /\ rs'.round - 1 = rs.round  BY <1>2, <1>3, <1>8
  <2>4. rs'.users_states = rs.users_states  BY <1>3, <1>8 DEF SameGame
  <2>. QED BY <1>1, <1>8, <1>11, <2>1, <2>2, <2>3, <2>4 DEF LastRow
<1>. QED BY <1>1, <1>12, <1>13, <1>14, <1>15, RowsStill DEF Orderly

\* The types of a task that ends.
LEMMA ReturnTypes ==
  ASSUME Types, NEW p \in Users, Return(p),
         Sound(rs', games), waiting' \subseteq Users,
         over' \subseteq 0..games, cut' \subseteq 0..games, revived' \in BOOLEAN,
         faults' \in 0..MaxFaults,
         UNCHANGED <<members, started, restored, rows, games, restarts>>
  PROVE  Types'
<1>1. pc' = [pc EXCEPT ![p] = "idle"] /\ clone' = [clone EXCEPT ![p] = NoClone]
  BY DEF Return
<1>2. "idle" \in Labels /\ NoClone \in RoundStates \cup {NoClone}  BY DEF Labels
<1>. QED BY <1>1, <1>2, Kept, TaskTypes

\* It fails for an order that concerns somebody who does not play.
LEMMA CloseRoundFailsStep ==
  ASSUME SeriesInv, NEW p \in Users, CloseRoundFails(p)
  PROVE  SeriesInv'
<1>. USE OrderFacts, TypeFacts
<1>1. /\ pc[p] = "finishing" /\ ~Closable(clone[p]) /\ Return(p)
      /\ UNCHANGED <<members, started, rs, restored, rows, waiting, games, over, restarts, past>>
  BY DEF CloseRoundFails
<1>2. Types'
  <2>1. over' \subseteq 0..games /\ waiting' \subseteq Users /\ Sound(rs', games)  BY <1>1
  <2>2. cut' \subseteq 0..games /\ revived' \in BOOLEAN /\ faults' \in 0..MaxFaults
    BY <1>1, Kept
  <2>. QED BY <1>1, <2>1, <2>2, ReturnTypes
<1>3. SUFFICES ASSUME ~revived PROVE Orderly'
  BY <1>1, <1>2 DEF SeriesInv, past
<1>4. cut' = cut  BY <1>1 DEF past
<1>5. CASE clone[p].game # rs.game
  <2>1. At(p) = "idle"  BY <1>5 DEF At
  <2>. QED BY <1>1, <1>3, <1>4, <2>1, DropTask
<1>6. CASE clone[p].game = rs.game
  <2>1. /\ At(p) = "finishing" /\ ~restored /\ rs = clone[p] /\ p \in rs.users_states
        /\ rs.game \notin cut /\ \A q \in Users : q # p => At(q) = "idle"
    BY <1>1, <1>3, <1>6, ClosingFacts DEF Closing
  <2>2. Collecting(rs, waiting) /\ InRound(rs) = rs.users_states
    <3>1. Task(p)  BY <1>3
    <3>. QED BY <2>1, <3>1 DEF Task
  <2>3. ~AllFound(rs)
    <3>1. PICK i \in 1..Len(rs.chain) : rs.chain[i] = p  BY <2>1, SoundFacts
    <3>2. rs.chain \in Seq(rs.users_states) /\ Len(rs.chain) \in Nat
      BY SoundFacts, LenProperties
    <3>3. rs.chain # <<>> /\ Head(rs.chain) \in rs.users_states
      <4>1. Len(rs.chain) # 0  BY <3>1, <3>2
      <4>2. Head(rs.chain) = rs.chain[1] /\ 1 \in 1..Len(rs.chain)
        BY <3>2, <4>1, EmptySeq, HeadTailProperties
      <4>3. rs.chain[1] \in rs.users_states  BY <3>2, <4>2, ElementOfSeq
      <4>. QED BY <4>1, <4>2, <4>3, EmptySeq
    <3>4. Head(rs.chain) \in Placed(rs)
      BY <2>2, <3>3, SoundFacts DEF InRound, Ordered, Placed
    <3>. QED BY <1>1, <2>1, <3>4 DEF Closable
  <2>4. \A q \in Users : At(q)' = "idle"
    <3>1. pc' = [pc EXCEPT ![p] = "idle"] /\ clone' = [clone EXCEPT ![p] = NoClone]
      BY <1>1 DEF Return
    <3>. QED BY <1>1, <2>1, <3>1 DEF At
  <2>5. Phase'  BY <1>1, <1>4, <2>1, <2>2, <2>3, <2>4 DEF Phase
  <2>6. CutOff'  BY <1>1, <1>4, <2>1 DEF CutOff
  <2>7. LastRow'
    <3>1. ~\E q \in Users : At(q) = "closed"  BY <2>1
    <3>2. ~\E q \in Users : At(q)' = "closed"  BY <2>4
    <3>3. LastRow  BY <1>3
    <3>. QED BY <1>1, <1>4, <3>1, <3>2, <3>3 DEF LastRow
  <2>. QED BY <1>1, <1>3, <2>4, <2>5, <2>6, <2>7, AllIdle, RowsStill DEF Orderly
<1>. QED BY <1>5, <1>6

\* The row of a closed round continues the last game.
LEMMA PersistRoundStep ==
  ASSUME SeriesInv, NEW p \in Users, PersistRound(p)
  PROVE  SeriesInv'
<1>. USE OrderFacts, TypeFacts
<1>. DEFINE row == Row(clone[p])
<1>1. /\ pc[p] = "closed" /\ rows' = Append(rows, Row(clone[p])) /\ Revive(p)
      /\ pc' = [pc EXCEPT ![p] = "persisted"]
      /\ UNCHANGED <<members, started, rs, restored, clone, waiting, games, over, restarts>>
  BY DEF PersistRound, Goto
<1>2. Sound(clone[p], games) /\ clone[p] \in RoundStates /\ p \in clone[p].users_states
  BY <1>1, SoundFacts DEF Copy
<1>3. /\ row.game = clone[p].game /\ row.round = clone[p].round /\ row.chain = clone[p].chain
      /\ row.users_states = clone[p].users_states
      /\ row.round_orders = clone[p].round_orders
      /\ row \in Rows
  BY <1>2 DEF Row, Rows, RoundStates
<1>4. Sound(Restored(row), games)
  <2>. DEFINE s == Restored(row)
  <2>1. /\ s.game = clone[p].game /\ s.round = clone[p].round /\ s.chain = clone[p].chain
        /\ s.players = Len(clone[p].chain) /\ s.players_finished = Len(clone[p].chain)
        /\ s.users_states = clone[p].users_states
        /\ s.round_orders = clone[p].round_orders
    BY <1>3 DEF Restored
  <2>2. Len(clone[p].chain) \in Nat  BY <1>2, SoundFacts, LenProperties
  <2>3. s \in RoundStates  BY <1>3, <2>2 DEF Restored, RoundStates, Rows
  <2>. HIDE DEF s
  <2>4. s.players_finished >= s.players  BY <2>1, <2>2
  <2>5. /\ clone[p].game \in 0..games /\ clone[p].round \in Rounds
        /\ clone[p].chain \in Seq(clone[p].users_states)
        /\ clone[p].players = Cardinality(clone[p].users_states)
        /\ clone[p].players = Len(clone[p].chain)
        /\ \A u \in clone[p].users_states :
             \E i \in 1..Len(clone[p].chain) : clone[p].chain[i] = u
        /\ \A u \in Users : clone[p].round_orders[u] # NoOrder =>
                             clone[p].round_orders[u].game <= games
    BY <1>2 DEF Sound
  <2>6. Sound(s, games)  BY <2>1, <2>3, <2>4, <2>5 DEF Sound
  <2>. QED BY <2>6 DEF s
<1>. HIDE DEF row
<1>5. rows' = Append(rows, row)  BY <1>1 DEF row
<1>6. /\ rows' \in Seq(Rows) /\ Len(rows') = Len(rows) + 1 /\ rows'[Len(rows) + 1] = row
      /\ \A i \in 1..Len(rows) : rows'[i] = rows[i]
  BY <1>3, <1>5, AppendProperties
<1>7. \A i \in 1..Len(rows') : Sound(Restored(rows'[i]), games)
  <2>1. \A i \in 1..Len(rows) : Sound(Restored(rows[i]), games)  OBVIOUS
  <2>. QED BY <1>4, <1>6, <2>1
<1>8. Types'
  <2>1. "persisted" \in Labels /\ Copy(p, "persisted", clone[p], games)
    BY <1>2 DEF Labels, Copy
  <2>2. over' \subseteq 0..games /\ waiting' \subseteq Users  BY <1>1
  <2>3. clone' = [clone EXCEPT ![p] = clone[p]]  BY <1>1
  <2>4. Sound(rs', games) /\ clone[p] \in RoundStates \cup {NoClone}  BY <1>1
  <2>5. cut' \subseteq 0..games /\ revived' \in BOOLEAN /\ faults' \in 0..MaxFaults
    BY <1>1, Kept
  <2>6. "persisted" # "idle"  OBVIOUS
  <2>. QED BY <1>1, <1>6, <1>7, <2>1, <2>2, <2>3, <2>4, <2>5, <2>6, TaskTypes
<1>9. SUFFICES ASSUME ~revived' PROVE Orderly'
  BY <1>8 DEF SeriesInv
<1>10. ~revived /\ clone[p].game = rs.game  BY <1>1, <1>9, OwnGame
<1>. USE <1>10
<1>11. /\ At(p) = "closed" /\ ~restored /\ rs = clone[p] /\ p \in rs.users_states
       /\ rs.game = games /\ games # 0 /\ rs.game \notin cut /\ cut' = cut
       /\ \A q \in Users : q # p => At(q) = "idle"
  BY <1>1, ClosingFacts DEF Closing, Revive
<1>12. Closed(rs, waiting)
  <2>1. Task(p)  OBVIOUS
  <2>. QED BY <1>11, <2>1 DEF Task
<1>13. At(p)' = "persisted" /\ \A q \in Users : q # p => At(q)' = "idle"
  BY <1>1, <1>11 DEF At
<1>14. ASSUME NEW q \in Users PROVE Task(q)'
  <2>1. CASE q = p
    BY <1>1, <1>11, <1>12, <1>13, <2>1 DEF Task, Ordering, Finishes, SameGame
  <2>2. CASE q # p  BY <1>13, <2>2 DEF Task, Ordering, Finishes
  <2>. QED BY <2>1, <2>2
<1>15. \A q, r \in Users : q # r => Apart(q, r)'
  BY <1>13 DEF Apart, Ordering, Finishes
<1>16. Phase' /\ CutOff'  BY <1>1, <1>11, <1>12, <1>13 DEF Phase, CutOff
<1>17. LastRow'
  <2>1. ~\E q \in Users : At(q)' = "closed"  BY <1>13
  <2>2. rows'[Len(rows')].game = games /\ rows'[Len(rows')].round = rs.round
    BY <1>3, <1>6, <1>11
  <2>. QED BY <1>1, <1>6, <1>11, <2>1, <2>2 DEF LastRow
<1>18. DOMAIN rows' = 1..Len(rows') /\ DOMAIN rows = 1..Len(rows)
  BY <1>6, LenProperties
<1>19. rs.round \in Nat /\ rs.round > 0 /\ rs.users_states # {}
  BY <1>12, SoundFacts DEF Closed
<1>20. RoundsComplete'
  <2>. SUFFICES ASSUME NEW i \in 1..(Len(rows) + 1), rows'[i].round > 0,
                       NEW q \in rows'[i].users_states
                PROVE  /\ rows'[i].round_orders[q] # NoOrder
                       /\ rows'[i].round_orders[q].game = rows'[i].game
                       /\ rows'[i].round_orders[q].round = rows'[i].round - 1
    BY <1>6, <1>18 DEF RoundsComplete
  <2>1. CASE i <= Len(rows)
    <3>1. i \in DOMAIN rows /\ rows'[i] = rows[i]  BY <1>6, <1>18, <2>1
    <3>2. RoundsComplete  OBVIOUS
    <3>. QED BY <3>1, <3>2 DEF RoundsComplete
  <2>2. CASE i = Len(rows) + 1
    BY <1>3, <1>6, <1>11, <1>12, <2>2 DEF Closed, Ordered
  <2>. QED BY <2>1, <2>2
<1>21. SeriesOfRounds'
  <2>. SUFFICES ASSUME NEW i \in 1..(Len(rows) + 1)
                PROVE IF rows'[i].round = 0 THEN i = 1 \/ rows'[i].game = rows'[i - 1].game + 1
                      ELSE i > 1 /\ rows'[i].game = rows'[i - 1].game
                             /\ rows'[i].round = rows'[i - 1].round + 1
    BY <1>6, <1>18 DEF SeriesOfRounds
  <2>1. CASE i <= Len(rows)
    <3>1. rows'[i] = rows[i] /\ (i > 1 => rows'[i - 1] = rows[i - 1])
      BY <1>6, <2>1
    <3>2. IF rows[i].round = 0 THEN i = 1 \/ rows[i].game = rows[i - 1].game + 1
          ELSE i > 1 /\ rows[i].game = rows[i - 1].game
                 /\ rows[i].round = rows[i - 1].round + 1
      <4>1. i \in DOMAIN rows /\ SeriesOfRounds  BY <1>18, <2>1
      <4>. QED BY <4>1 DEF SeriesOfRounds
    <3>. QED BY <3>1, <3>2
  <2>2. CASE i = Len(rows) + 1
    <3>. LastRow  OBVIOUS
    <3>1. Len(rows) > 0 /\ rows'[i - 1] = rows[Len(rows)] /\ rows[Len(rows)].game = games
      BY <1>6, <1>11, <2>2 DEF LastRow
    <3>2. rows[Len(rows)].round = rs.round - 1
      BY <1>11, <1>19 DEF LastRow
    <3>. QED BY <1>3, <1>6, <1>11, <1>19, <2>2, <3>1, <3>2
  <2>. QED BY <2>1, <2>2
<1>. QED BY <1>14, <1>15, <1>16, <1>17, <1>20, <1>21 DEF Orderly

LEMMA FinishGameStep ==
  ASSUME SeriesInv, NEW p \in Users, FinishGame(p)
  PROVE  SeriesInv'
<1>. USE OrderFacts, TypeFacts
<1>1. /\ pc[p] = "persisted" /\ over' = over \cup {clone[p].game} /\ Return(p)
      /\ UNCHANGED <<members, started, rs, restored, rows, waiting, games, restarts, past>>
  BY DEF FinishGame
<1>2. Types'
  <2>1. clone[p].game \in 0..games  BY <1>1 DEF Sound
  <2>2. over' \subseteq 0..games /\ waiting' \subseteq Users /\ Sound(rs', games)
    BY <1>1, <2>1
  <2>3. cut' \subseteq 0..games /\ revived' \in BOOLEAN /\ faults' \in 0..MaxFaults
    BY <1>1, Kept
  <2>. QED BY <1>1, <2>2, <2>3, ReturnTypes
<1>3. SUFFICES ASSUME ~revived PROVE Orderly'
  BY <1>1, <1>2 DEF SeriesInv, past
<1>4. cut' = cut /\ over \subseteq over'  BY <1>1 DEF past
<1>5. CASE clone[p].game # rs.game
  <2>1. At(p) = "idle"  BY <1>5 DEF At
  <2>. QED BY <1>1, <1>3, <1>4, <2>1, DropTask
<1>6. CASE clone[p].game = rs.game
  <2>1. /\ At(p) = "persisted" /\ ~restored /\ rs = clone[p] /\ rs.game \notin cut
        /\ \A q \in Users : q # p => At(q) = "idle"
    BY <1>1, <1>3, <1>6, ClosingFacts DEF Closing
  <2>2. Closed(rs, waiting)
    <3>1. Task(p)  BY <1>3
    <3>. QED BY <2>1, <3>1 DEF Task
  <2>3. \A q \in Users : At(q)' = "idle"
    <3>1. pc' = [pc EXCEPT ![p] = "idle"] /\ clone' = [clone EXCEPT ![p] = NoClone]
      BY <1>1 DEF Return
    <3>. QED BY <1>1, <2>1, <3>1 DEF At
  <2>4. Phase' /\ CutOff'
    <3>1. rs.game \in over'  BY <1>1, <2>1
    <3>. QED BY <1>1, <1>4, <2>1, <2>2, <3>1 DEF Phase, CutOff
  <2>5. LastRow'
    <3>1. ~\E q \in Users : At(q) = "closed"  BY <2>1
    <3>2. ~\E q \in Users : At(q)' = "closed"  BY <2>3
    <3>3. LastRow  BY <1>3
    <3>. QED BY <1>1, <1>4, <3>1, <3>2, <3>3 DEF LastRow
  <2>. QED BY <1>1, <1>3, <2>3, <2>4, <2>5, AllIdle, RowsStill DEF Orderly
<1>. QED BY <1>5, <1>6

LEMMA NewRoundStep ==
  ASSUME SeriesInv, NEW p \in Users, NewRound(p)
  PROVE  SeriesInv'
<1>. USE OrderFacts, TypeFacts
<1>1. /\ pc[p] = "persisted" /\ ~IsLastRound(clone[p].round) /\ waiting' = {}
      /\ rs' = [clone[p] EXCEPT !.players_finished = 0, !.round_orders = NoOrders]
      /\ Return(p) /\ Revive(p)
      /\ UNCHANGED <<members, started, restored, rows, games, over, restarts>>
  BY DEF NewRound
<1>2. /\ Sound(clone[p], games) /\ clone[p] \in RoundStates /\ p \in clone[p].users_states
  BY <1>1, SoundFacts DEF Copy
<1>3. NoOrders \in [Users -> Orders \cup {NoOrder}] /\ \A u \in Users : NoOrders[u] = NoOrder
  BY DEF NoOrders
<1>4. /\ rs' \in RoundStates /\ rs'.round = clone[p].round /\ SameGame(rs', clone[p])
      /\ rs'.players_finished = 0 /\ rs'.round_orders = NoOrders
  <2>1. rs' \in RoundStates  BY <1>1, <1>2, <1>3 DEF RoundStates
  <2>2. /\ rs'.game = clone[p].game /\ rs'.round = clone[p].round
        /\ rs'.chain = clone[p].chain /\ rs'.players = clone[p].players
        /\ rs'.users_states = clone[p].users_states
        /\ rs'.players_finished = 0 /\ rs'.round_orders = NoOrders
    BY <1>1, <1>2 DEF RoundStates
  <2>. QED BY <2>1, <2>2 DEF SameGame
<1>5. clone[p].round < MaxRounds
  BY <1>1, <1>2, SoundFacts, SeriesAssumption DEF IsLastRound
<1>6. Sound(rs', games)
  <2>1. /\ clone[p].game \in 0..games /\ clone[p].round \in Rounds
        /\ clone[p].chain \in Seq(clone[p].users_states)
        /\ clone[p].players = Cardinality(clone[p].users_states)
        /\ clone[p].players = Len(clone[p].chain)
        /\ \A u \in clone[p].users_states : \E i \in 1..Len(clone[p].chain) : clone[p].chain[i] = u
    BY <1>2 DEF Sound
  <2>2. \A u \in Users : rs'.round_orders[u] = NoOrder  BY <1>3, <1>4
  <2>3. rs'.round # MaxRounds  BY <1>2, <1>4, <1>5, SoundFacts, SeriesAssumption
  <2>. QED BY <1>4, <2>1, <2>2, <2>3 DEF Sound, SameGame
<1>7. Types'
  <2>1. pc' = [pc EXCEPT ![p] = "idle"] /\ clone' = [clone EXCEPT ![p] = NoClone]
    BY <1>1 DEF Return
  <2>2. over' \subseteq 0..games /\ waiting' \subseteq Users  BY <1>1
  <2>3. cut' \subseteq 0..games /\ revived' \in BOOLEAN /\ faults' \in 0..MaxFaults
    BY <1>1, Kept
  <2>. QED BY <1>1, <1>6, <2>2, <2>3, ReturnTypes
<1>8. SUFFICES ASSUME ~revived' PROVE Orderly'
  BY <1>7 DEF SeriesInv
<1>9. ~revived /\ clone[p].game = rs.game  BY <1>1, <1>8, OwnGame
<1>. USE <1>9
<1>10. /\ At(p) = "persisted" /\ ~restored /\ rs = clone[p] /\ rs.game \notin cut /\ cut' = cut
       /\ \A q \in Users : q # p => At(q) = "idle"
  BY <1>1, ClosingFacts DEF Closing, Revive
<1>11. rs.users_states # {}  BY <1>2, <1>10
<1>12. InRound(rs') = {}
  <2>1. \A u \in Users : rs'.round_orders[u] = NoOrder  BY <1>3, <1>4
  <2>2. rs'.users_states \subseteq Users  BY <1>6, SoundFacts
  <2>. QED BY <2>1, <2>2 DEF InRound, Ordered
<1>13. Collecting(rs', waiting')
  BY <1>4, <1>5, <1>12, FS_EmptySet DEF Collecting
<1>14. rs'.players # 0
  <2>1. rs.players = Cardinality(rs.users_states) /\ IsFiniteSet(rs.users_states)
    BY SoundFacts
  <2>. QED BY <1>4, <1>10, <1>11, <2>1, FS_EmptySet DEF SameGame
<1>15. rs'.game = rs.game /\ rs'.users_states = rs.users_states /\ rs'.round = rs.round
  BY <1>4, <1>10 DEF SameGame
<1>16. \A q \in Users : At(q)' = "idle"
  <2>1. pc' = [pc EXCEPT ![p] = "idle"] /\ clone' = [clone EXCEPT ![p] = NoClone]
    BY <1>1 DEF Return
  <2>. QED BY <1>10, <1>15, <2>1 DEF At
<1>17. Phase' /\ CutOff'  BY <1>1, <1>4, <1>10, <1>13, <1>14, <1>15 DEF Phase, CutOff
<1>18. LastRow'
  <2>1. ~\E q \in Users : At(q) = "closed"  BY <1>10
  <2>2. ~\E q \in Users : At(q)' = "closed"  BY <1>16
  <2>3. LastRow  OBVIOUS
  <2>. QED BY <1>1, <1>10, <1>11, <1>15, <2>1, <2>2, <2>3 DEF LastRow
<1>. QED BY <1>1, <1>16, <1>17, <1>18, AllIdle, RowsStill DEF Orderly

\* A task that is cut off while it orders is missed by nobody but its client;
\* one that is cut off while it closes the round leaves everybody waiting.
LEMMA InterruptStep ==
  ASSUME SeriesInv, NEW p \in Users, Interrupt(p)
  PROVE  SeriesInv'
<1>. USE OrderFacts, TypeFacts
<1>1. /\ pc[p] # "idle" /\ faults < MaxFaults /\ faults' = faults + 1 /\ Return(p)
      /\ cut' = IF Closing(p) THEN cut \cup {clone[p].game} ELSE cut
      /\ UNCHANGED <<members, started, rs, restored, rows, waiting, games, over, restarts,
                     revived>>
  BY DEF Interrupt
<1>2. Types'
  <2>1. clone[p].game \in 0..games  BY <1>1 DEF Sound
  <2>2. over' \subseteq 0..games /\ waiting' \subseteq Users /\ Sound(rs', games)  BY <1>1
  <2>3. cut' \subseteq 0..games  BY <1>1, <2>1
  <2>4. faults' \in 0..MaxFaults /\ revived' \in BOOLEAN
    BY <1>1, SeriesAssumption DEF Types
  <2>. QED BY <1>1, <2>2, <2>3, <2>4, ReturnTypes
<1>3. SUFFICES ASSUME ~revived PROVE Orderly'
  BY <1>1, <1>2 DEF SeriesInv
<1>4. pc' = [pc EXCEPT ![p] = "idle"] /\ clone' = [clone EXCEPT ![p] = NoClone]
  BY <1>1 DEF Return
<1>5. /\ \A q \in Users : q # p => At(q)' = At(q) /\ clone'[q] = clone[q]
      /\ At(p)' = "idle"
  BY <1>1, <1>4 DEF At
<1>6. CASE clone[p].game # rs.game
  <2>1. At(p) = "idle" /\ (rs.game \in cut' <=> rs.game \in cut)  BY <1>1, <1>6 DEF At
  <2>. QED BY <1>1, <1>3, <2>1, DropTask
<1>7. CASE clone[p].game = rs.game /\ ~Closing(p)
  <2>1. cut' = cut /\ At(p) \in {"cloned", "acked"}
    BY <1>1, <1>7 DEF Closing, At, Labels
  <2>2. ASSUME NEW q \in Users PROVE Task(q)'
    <3>. Task(q)  BY <1>3
    <3>1. CASE q = p  BY <1>5, <3>1 DEF Task, Ordering, Finishes
    <3>2. CASE q # p  BY <1>1, <1>5, <3>2, TaskStill
    <3>. QED BY <3>1, <3>2
  <2>3. \A q, r \in Users : q # r => Apart(q, r)'
    <3>. SUFFICES ASSUME NEW q \in Users, NEW r \in Users, q # r PROVE Apart(q, r)'
      OBVIOUS
    <3>1. Apart(q, r)  BY <1>3
    <3>. QED BY <1>1, <1>5, <3>1 DEF Apart, Ordering, Finishes
  <2>4. /\ (\E q \in Users : At(q)' = "finishing") <=> \E q \in Users : At(q) = "finishing"
        /\ (\E q \in Users : At(q)' \in {"closed", "persisted"}) <=>
             \E q \in Users : At(q) \in {"closed", "persisted"}
        /\ (\E q \in Users : At(q)' = "closed") <=> \E q \in Users : At(q) = "closed"
    BY <1>5, <2>1
  <2>5. Phase'
    <3>1. Phase  BY <1>3
    <3>. QED BY <1>1, <2>1, <2>4, <3>1 DEF Phase
  <2>6. CutOff'
    <3>1. CutOff  BY <1>3
    <3>. QED BY <1>1, <1>5, <2>1, <3>1 DEF CutOff
  <2>7. LastRow'
    <3>1. LastRow  BY <1>3
    <3>. QED BY <1>1, <2>1, <2>4, <3>1 DEF LastRow
  <2>. QED BY <1>1, <1>3, <2>2, <2>3, <2>5, <2>6, <2>7, RowsStill DEF Orderly
<1>8. CASE clone[p].game = rs.game /\ Closing(p)
  <2>1. /\ ~restored /\ rs = clone[p] /\ rs.users_states \subseteq waiting
        /\ \A q \in Users : q # p => At(q) = "idle"
        /\ At(p) = pc[p] /\ Finishes(p) /\ rs.game = games /\ games # 0
    BY <1>1, <1>3, <1>8, ClosingFacts
  <2>2. rs.game \in cut'  BY <1>1, <1>8
  <2>3. \A q \in Users : At(q)' = "idle"  BY <1>5, <2>1
  <2>4. Phase'
    <3>1. Task(p)  BY <1>3
    <3>2. Collecting(rs, waiting) \/ Closed(rs, waiting)
      BY <2>1, <3>1 DEF Task, Finishes
    <3>. QED BY <1>1, <2>1, <2>2, <3>2 DEF Phase
  <2>5. CutOff'  BY <1>1, <2>1, <2>3 DEF CutOff
  <2>6. LastRow'
    <3>1. LastRow  BY <1>3
    <3>. QED BY <1>1, <2>1, <2>2, <3>1 DEF LastRow
  <2>. QED BY <1>1, <1>3, <2>3, <2>4, <2>5, <2>6, AllIdle, RowsStill DEF Orderly
<1>. QED BY <1>6, <1>7, <1>8
-----------------------------------------------------------------------------
LEMMA NextSeriesInv == SeriesInv /\ [Next]_vars => SeriesInv'
<1>. SUFFICES ASSUME SeriesInv, [Next]_vars PROVE SeriesInv'
  OBVIOUS
<1>. USE OrderFacts, TypeFacts
<1>1. ASSUME NEW u \in Users, Enter(u) \/ Leave(u) PROVE SeriesInv'
  <2>1. started' = started /\ started \in BOOLEAN  BY <1>1 DEF Enter, Leave, Types
  <2>2. members' \subseteq Users  BY <1>1, SeriesAssumption DEF Enter, Leave
  <2>. QED BY <1>1, <2>1, <2>2, LobbyStep DEF Enter, Leave
<1>2. CASE StopGame
  BY <1>2, LobbyStep DEF StopGame
<1>3. CASE UNCHANGED vars
  <2>1. started \in BOOLEAN  BY DEF Types
  <2>. QED BY <1>3, <2>1, LobbyStep DEF vars
<1>4. ASSUME NEW p \in Users, Handle(p) PROVE SeriesInv'
  BY <1>4, AckOrderStep, SaveOrderStep, CloseRoundStep, CloseRoundFailsStep,
     PersistRoundStep, FinishGameStep, NewRoundStep DEF Handle
<1>. QED
  BY <1>1, <1>2, <1>3, <1>4, TakeOrderStep, InterruptStep, StartGameStep, RestartStep DEF Next

LEMMA InitSeriesInv == Init => SeriesInv
<1>. SUFFICES ASSUME Init PROVE SeriesInv
  OBVIOUS
<1>1. /\ members = Users /\ started = FALSE /\ rs = NewRoundState /\ restored = FALSE
      /\ rows = <<>> /\ pc = [u \in Users |-> "idle"] /\ clone = [u \in Users |-> NoClone]
      /\ waiting = {} /\ games = 0 /\ over = {} /\ restarts = 0
      /\ cut = {} /\ revived = FALSE /\ faults = 0
  BY DEF Init, Idle
<1>2. <<>> \in Seq(Users) /\ <<>> \in Seq({}) /\ <<>> \in Seq(Rows) /\ Len(<<>>) = 0
  BY EmptySeq
<1>3. Sound(NewRoundState, 0)
  <2>1. NoOrders \in [Users -> Orders \cup {NoOrder}] /\ \A u \in Users : NoOrders[u] = NoOrder
    BY DEF NoOrders
  <2>. QED BY <1>2, <2>1, FS_EmptySet, SeriesAssumption
           DEF NewRoundState, Sound, RoundStates, Rounds
<1>4. Types
  <2>1. \A i \in 1..Len(rows) : Sound(Restored(rows[i]), games)  BY <1>1, <1>2
  <2>2. /\ games \in 0..MaxGames /\ restarts \in 0..MaxRestarts /\ faults \in 0..MaxFaults
        /\ over \subseteq 0..games /\ cut \subseteq 0..games /\ revived \in BOOLEAN
    <3>1. /\ MaxGames \in Nat /\ MaxRestarts \in Nat /\ MaxFaults \in Nat
      BY SeriesAssumption
    <3>2. 0 \in 0..MaxGames /\ 0 \in 0..MaxRestarts /\ 0 \in 0..MaxFaults  BY <3>1
    <3>. QED BY <1>1, <3>2
  <2>3. rows \in Seq(Rows) /\ Sound(rs, games)  BY <1>1, <1>2, <1>3
  <2>. QED BY <1>1, <2>1, <2>2, <2>3 DEF Types, Labels
<1>5. \A p \in Users : At(p) = "idle"  BY <1>1 DEF At
<1>6. \A p \in Users : Task(p) /\ \A q \in Users : Apart(p, q)
  BY <1>5 DEF Task, Apart, Ordering, Finishes
<1>7. rs.users_states = {} /\ rs.round = 0 /\ rs.players_finished = 0 /\ InRound(rs) = {}
  BY <1>1 DEF NewRoundState, InRound
<1>8. Collecting(rs, waiting)  BY <1>7, FS_EmptySet, SeriesAssumption DEF Collecting
<1>9. Phase /\ CutOff /\ LastRow  BY <1>1, <1>2, <1>7, <1>8 DEF Phase, CutOff, LastRow
<1>10. RoundsComplete /\ SeriesOfRounds
  BY <1>1, <1>2 DEF RoundsComplete, SeriesOfRounds
<1>. QED BY <1>4, <1>6, <1>9, <1>10 DEF SeriesInv, Orderly

LEMMA AlwaysSeriesInv == Spec => []SeriesInv
BY InitSeriesInv, NextSeriesInv, PTL DEF Spec

\* The round state in memory and in every task, and the rows, keep the types of
\* the code's through games, stops, restarts and tasks cut off, and also once a
\* task has brought a stopped game back: the chain is one of those who play, and
\* no round comes after the last.
THEOREM SeriesTypes == Spec => []TypeOK
<1>1. SeriesInv => TypeOK
  <2>. SUFFICES ASSUME SeriesInv PROVE TypeOK
    OBVIOUS
  <2>. USE OrderFacts, TypeFacts
  <2>1. ASSUME NEW r, Sound(r, games) PROVE RoundState(r)
    BY <2>1, SoundFacts DEF Sound, RoundState
  <2>2. ASSUME NEW i \in DOMAIN rows
        PROVE  rows[i].round_orders \in [Users -> Orders \cup {NoOrder}]
    <3>1. rows[i] \in Rows  BY ElementOfSeq, LenProperties
    <3>. QED BY <3>1 DEF Rows
  <2>3. Types  OBVIOUS
  <2>4. \A p \in Users : IF pc[p] = "idle" THEN clone[p] = NoClone ELSE RoundState(clone[p])
    BY <2>1 DEF Types
  <2>. QED BY <2>1, <2>2, <2>3, <2>4 DEF Types, TypeOK, Labels
<1>. QED BY <1>1, AlwaysSeriesInv, PTL

\* A round is closed and persisted on one order of every player, placed in that
\* round of that game, until a task that outlives its game writes in a later
\* one: nothing else of a game that was stopped, that memory still holds or that
\* a restart brought back counts, whichever tasks are cut off.
THEOREM RoundsCloseComplete == Spec => []RoundsComplete
<1>1. SeriesInv => RoundsComplete
  BY OrderFacts DEF RoundsComplete
<1>. QED BY <1>1, AlwaysSeriesInv, PTL

\* Until then the rows of a lobby are its games one after the other, each from
\* round 0 without gaps or repetitions, whichever row a restart picks and
\* whichever insert fails.
THEOREM RowsAreSeries == Spec => []SeriesOfRounds
<1>1. SeriesInv => SeriesOfRounds
  BY OrderFacts DEF SeriesOfRounds
<1>. QED BY <1>1, AlwaysSeriesInv, PTL

\* Until then, when no handler is left and all players wait in a game of this
\* process that has not ended, a task was cut off while it closed the round, an
\* order was lost, or an order is for somebody who does not play: there is no
\* other way for a round not to close.
THEOREM StuckForAReason == Spec => []RoundsClose
<1>1. SeriesInv => RoundsClose
  <2>. SUFFICES ASSUME SeriesInv, HandlersGone, ~restored, ~revived,
                       rs.users_states # {}, rs.game \notin over \cup cut,
                       rs.players_finished >= rs.players
                PROVE  ~AllFound(rs)
    <3>1. ASSUME SeriesInv
          PROVE  rs.players_finished \in Nat /\ rs.players \in Nat
      BY <3>1, OrderFacts, TypeFacts, SoundFacts
    <3>. QED BY <3>1 DEF RoundsClose
  <2>. USE OrderFacts, TypeFacts
  <2>1. \A p \in Users : At(p) = "idle"  BY DEF HandlersGone, At
  <2>2. Collecting(rs, waiting)  BY <2>1 DEF Phase
  <2>3. rs.players_finished = rs.players
    <3>1. rs.players_finished <= rs.players  BY <2>2, InRoundFacts DEF Collecting
    <3>2. rs.players_finished \in Nat /\ rs.players \in Nat  BY SoundFacts
    <3>. QED BY <3>1, <3>2
  <2>. QED BY <2>1, <2>3 DEF Phase, Closed
<1>. QED BY <1>1, AlwaysSeriesInv, PTL
=============================================================================
