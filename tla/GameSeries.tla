----------------------------- MODULE GameSeries -----------------------------
(***************************************************************************)
(* The games of one lobby, one after the other: start_new_game and what it *)
(* leaves of the game before, stop_game_endpoint, the rounds of            *)
(* src/lobby/game.rs at the level of who ordered when, restore_lobbies of  *)
(* src/main.rs after a restart, and the statistics of the rows.            *)
(*                                                                         *)
(* An order is known by the game and round it was placed in, which the     *)
(* program does not record, and of the users' states only whose they are.  *)
(* The classes a game is started with list its players and nobody else.    *)
(* What a round does to goods and money is in RoundEngine, the locks of    *)
(* start and stop are in LobbyStore.  Nothing resets round_orders when a   *)
(* game is started, and nothing touches the round state when one is        *)
(* stopped.                                                                *)
(***************************************************************************)
EXTENDS FiniteSets, Stats

CONSTANTS
  Users,           \* the lobby's possible players, owner excluded
  Movers,          \* those of them who leave and enter again
  Nil,             \* Uuid::nil(), the market at both ends of the chain
  NoOrder, NoClone,
  MaxRounds,       \* max_rounds of the lobby's settings
  MaxGames,        \* bound: games started
  MaxRestarts,     \* bound: restarts of the process
  MaxFaults        \* bound: tasks cut off, by an abort or by the database

\* An order as placed, and the shipment sent with it, by whom they concern.
Orders == [game : Nat, round : Nat, sender : Users \cup {Nil}, recipient : Users \cup {Nil}]

ASSUME SeriesAssumption ==
  /\ IsFiniteSet(Users) /\ Movers \subseteq Users /\ Nil \notin Users
  /\ NoOrder \notin Orders
  /\ MaxRounds \in Nat \ {0}
  /\ MaxGames \in Nat /\ MaxRestarts \in Nat /\ MaxFaults \in Nat

\* flow: who delivers to p, and who gets what p sends.
Place(chain, p)         == CHOOSE i \in DOMAIN chain : chain[i] = p
get_sender(chain, p)    == IF Place(chain, p) = 1 THEN Nil ELSE chain[Place(chain, p) - 1]
get_recipient(chain, p) ==
  IF Place(chain, p) = Len(chain) THEN Nil ELSE chain[Place(chain, p) + 1]

VARIABLES
  members,   \* the users of the lobby
  started,   \* the column
  rs,        \* round_state in memory; `game` is the one it belongs to
  restored,  \* it comes from restore_lobbies
  rows,      \* the lobby's game_state rows, as inserted
  pc, clone, \* where the task of each user stands, and its round_state
  waiting,   \* clients that got their Ack and wait for the next round
  games,     \* games started so far
  over,      \* the games that came to their GameEnd
  restarts,
  cut,       \* the games in which a task was cut off while it closed a round
  revived,   \* a task of another game than the one in memory has written
  faults

past == <<cut, revived, faults>>
vars == <<members, started, rs, restored, rows, pc, clone, waiting, games, over, restarts, past>>

NoOrders == [u \in Users |-> NoOrder]

\* RoundState::new()
NewRoundState ==
  [game |-> 0, round |-> 0, chain |-> <<>>, players |-> 0, players_finished |-> 0,
   users_states |-> {}, round_orders |-> NoOrders]

Idle ==
  /\ pc    = [u \in Users |-> "idle"]
  /\ clone = [u \in Users |-> NoClone]

Init ==
  /\ members = Users /\ started = FALSE
  /\ rs = NewRoundState /\ restored = FALSE /\ rows = <<>>
  /\ Idle
  /\ waiting = {} /\ games = 0 /\ over = {} /\ restarts = 0
  /\ cut = {} /\ revived = FALSE /\ faults = 0

Return(p) ==
  /\ pc'    = [pc EXCEPT ![p] = "idle"]
  /\ clone' = [clone EXCEPT ![p] = NoClone]

Goto(p, label) == pc' = [pc EXCEPT ![p] = label]
-----------------------------------------------------------------------------
Enter(u) ==
  /\ u \in Movers \ members /\ ~started
  /\ members' = members \cup {u}
  /\ UNCHANGED <<started, rs, restored, rows, pc, clone, waiting, games, over, restarts, past>>

Leave(u) ==
  /\ u \in Movers \cap members
  /\ members' = members \ {u}
  /\ UNCHANGED <<started, rs, restored, rows, pc, clone, waiting, games, over, restarts, past>>

\* The players come from the database in any order.
Chains == {chain \in [1..Cardinality(members) -> members] :
             \A i, j \in DOMAIN chain : i < j => chain[i] # chain[j]}

\* The counter is left as it was.
Mutant_NewGame(r, chain) ==
  [r EXCEPT !.game = games + 1, !.round = 0, !.chain = chain, !.players = Len(chain),
            !.users_states = members]

\* start_new_game on the round state r: round_orders and send_orders stay.
NewGame(r, chain) ==
  [r EXCEPT !.game = games + 1, !.round = 0, !.chain = chain, !.players = Len(chain),
            !.players_finished = 0,
            !.users_states = members]

Row(r) == [game |-> r.game, round |-> r.round, chain |-> r.chain,
           users_states |-> r.users_states, round_orders |-> r.round_orders]

\* start_game_endpoint, whose GameStart lets every client order.  The row of
\* round 0 has no orders.  Nobody waits for the tasks of the game before.
StartGame ==
  /\ ~started /\ members # {} /\ games < MaxGames
  /\ \E chain \in Chains :
       /\ rs' = NewGame(rs, chain)
       /\ rows' = Append(rows, [Row(rs') EXCEPT !.round_orders = NoOrders])
  /\ started' = TRUE /\ restored' = FALSE /\ games' = games + 1 /\ waiting' = {}
  /\ UNCHANGED <<members, pc, clone, over, restarts, past>>

StopGame ==
  /\ started
  /\ started' = FALSE
  /\ UNCHANGED <<members, rs, restored, rows, pc, clone, waiting, games, over, restarts, past>>
-----------------------------------------------------------------------------
(***************************************************************************)
(* process_user_round_end_message.  Nobody asks whether the game is        *)
(* started, or whether the user is still in the lobby.                     *)
(***************************************************************************)
TakeOrder(p) ==
  /\ pc[p] = "idle" /\ p \notin waiting
  /\ p \in rs.users_states
  /\ clone' = [clone EXCEPT ![p] = rs]
  /\ Goto(p, "cloned")
  /\ UNCHANGED <<members, started, rs, restored, rows, waiting, games, over, restarts, past>>

\* A client that was sent GameStart since may not wait for the old order.
AckOrder(p) ==
  /\ pc[p] = "cloned"
  /\ \/ waiting' = waiting \cup {p}
     \/ clone[p].game # rs.game /\ UNCHANGED waiting
  /\ Goto(p, "acked")
  /\ UNCHANGED <<members, started, rs, restored, rows, clone, games, over, restarts, past>>

Record(r, p) ==
  [r EXCEPT !.round_orders[p] = [game |-> r.game, round |-> r.round,
                                 sender |-> get_sender(r.chain, p),
                                 recipient |-> get_recipient(r.chain, p)],
            !.players_finished = @ + 1]

\* What is written is of another game than the one in memory.
Revive(p) ==
  /\ revived' = (revived \/ clone[p].game # rs.game)
  /\ UNCHANGED <<cut, faults>>

\* The whole clone is written back, whatever game it is of.
SaveOrder(p) ==
  /\ pc[p] = "acked"
  /\ rs' = Record(clone[p], p)
  /\ IF rs'.players_finished = rs'.players
       THEN Goto(p, "finishing") /\ clone' = [clone EXCEPT ![p] = rs']
       ELSE Return(p)
  /\ Revive(p)
  /\ UNCHANGED <<members, started, restored, rows, waiting, games, over, restarts>>

Placed(r) == {u \in Users : r.round_orders[u] # NoOrder}

\* Whoever is asked to deliver, or is sent something, plays.
AllFound(r) ==
  \A u \in Placed(r) :
    {r.round_orders[u].sender, r.round_orders[u].recipient} \subseteq r.users_states \cup {Nil}

\* The market asks the first player for its order.
Closable(r) == Head(r.chain) \in Placed(r) /\ AllFound(r)

CloseRound(p) ==
  /\ pc[p] = "finishing" /\ Closable(clone[p])
  /\ rs' = [clone[p] EXCEPT !.round = @ + 1]
  /\ clone' = [clone EXCEPT ![p] = rs']
  /\ Goto(p, "closed")
  /\ Revive(p)
  /\ UNCHANGED <<members, started, restored, rows, waiting, games, over, restarts>>

\* "not found placed recipient for order" and the like.
CloseRoundFails(p) ==
  /\ pc[p] = "finishing" /\ ~Closable(clone[p])
  /\ Return(p)
  /\ UNCHANGED <<members, started, rs, restored, rows, waiting, games, over, restarts, past>>

PersistRound(p) ==
  /\ pc[p] = "closed"
  /\ rows' = Append(rows, Row(clone[p]))
  /\ Goto(p, "persisted")
  /\ Revive(p)
  /\ UNCHANGED <<members, started, rs, restored, clone, waiting, games, over, restarts>>

\* get_player_stats, for a statistic that tells all rows apart: what it may be.
get_player_stats ==
  LET Extract(row) == [round |-> row.round,
                       data |-> [u \in row.users_states |->
                                   [game |-> row.game, round |-> row.round]]]
  IN  {get_stats_for_type(sorted) :
         sorted \in OrderByRound([i \in DOMAIN rows |-> Extract(rows[i])])}

\* One round too many.
Mutant_IsLastRound(round) == round > MaxRounds

IsLastRound(round) == round = MaxRounds

\* GameEnd, with get_player_stats.  Nothing tells the lobby that its game is over.
FinishGame(p) ==
  /\ pc[p] = "persisted" /\ IsLastRound(clone[p].round)
  /\ over' = over \cup {clone[p].game}
  /\ Return(p)
  /\ UNCHANGED <<members, started, rs, restored, rows, waiting, games, restarts, past>>

NewRound(p) ==
  /\ pc[p] = "persisted" /\ ~IsLastRound(clone[p].round)
  /\ rs' = [clone[p] EXCEPT !.players_finished = 0, !.round_orders = NoOrders]
  /\ waiting' = {}
  /\ Return(p)
  /\ Revive(p)
  /\ UNCHANGED <<members, started, restored, rows, games, over, restarts>>

Closing(p) == pc[p] \in {"finishing", "closed", "persisted"}

\* The task is aborted at an await, because the one that shows messages has
\* ended, or the database refuses the insert or a query: what has been written
\* stays.
Interrupt(p) ==
  /\ pc[p] # "idle" /\ faults < MaxFaults
  /\ faults' = faults + 1
  /\ cut' = IF Closing(p) THEN cut \cup {clone[p].game} ELSE cut
  /\ Return(p)
  /\ UNCHANGED <<members, started, rs, restored, rows, waiting, games, over, restarts, revived>>
-----------------------------------------------------------------------------
\* The round goes on as if nobody had ordered.
Mutant_Restored(row) ==
  [game |-> row.game, round |-> row.round, chain |-> row.chain,
   players |-> Len(row.chain), players_finished |-> 0,
   users_states |-> row.users_states, round_orders |-> row.round_orders]

\* restore_lobbies: everybody counts as having ordered.
Restored(row) ==
  [game |-> row.game, round |-> row.round, chain |-> row.chain,
   players |-> Len(row.chain), players_finished |-> Len(row.chain),
   users_states |-> row.users_states, round_orders |-> row.round_orders]

\* `fetch_one` without an order: any row of the lobby's.
Restart ==
  /\ restarts < MaxRestarts
  /\ restarts' = restarts + 1
  /\ restored' = started
  /\ IF started THEN \E i \in DOMAIN rows : rs' = Restored(rows[i])
                ELSE rs' = NewRoundState
  /\ pc'    = [u \in Users |-> "idle"]
  /\ clone' = [u \in Users |-> NoClone]
  /\ waiting' = {}
  /\ UNCHANGED <<members, started, rows, games, over, past>>

Handle(p) ==
  \/ AckOrder(p) \/ SaveOrder(p)
  \/ CloseRound(p) \/ CloseRoundFails(p) \/ PersistRound(p) \/ FinishGame(p) \/ NewRound(p)

Next ==
  \/ \E u \in Users : Enter(u) \/ Leave(u) \/ TakeOrder(u) \/ Handle(u) \/ Interrupt(u)
  \/ StartGame \/ StopGame \/ Restart

Spec == Init /\ [][Next]_vars
-----------------------------------------------------------------------------
(***************************************************************************)
(* Properties.                                                             *)
(***************************************************************************)
Rounds == 0..MaxRounds

RoundState(r) ==
  /\ r.game \in 0..games /\ r.round \in Rounds
  /\ r.users_states \subseteq Users /\ r.chain \in Seq(r.users_states)
  /\ r.players = Cardinality(r.users_states) /\ r.players = Len(r.chain)
  /\ r.players_finished \in Nat
  /\ r.round_orders \in [Users -> Orders \cup {NoOrder}]

\* Round states, clones and rows have the types of the code's; the chain is one
\* of those who play, and no round comes after the last one.
TypeOK ==
  /\ members \subseteq Users /\ waiting \subseteq Users
  /\ started \in BOOLEAN /\ restored \in BOOLEAN
  /\ RoundState(rs)
  /\ \A i \in DOMAIN rows : rows[i].round_orders \in [Users -> Orders \cup {NoOrder}]
  /\ pc \in [Users -> {"idle", "cloned", "acked", "finishing", "closed", "persisted"}]
  /\ \A p \in Users : IF pc[p] = "idle" THEN clone[p] = NoClone ELSE RoundState(clone[p])
  /\ games \in 0..MaxGames /\ restarts \in 0..MaxRestarts /\ faults \in 0..MaxFaults
  /\ over \subseteq 0..games /\ cut \subseteq 0..games /\ revived \in BOOLEAN

\* As long as no task that outlives its game writes in a later one, a round is
\* closed on one order of every player, placed in that very round of that very
\* game, although games are stopped in the middle and started while tasks of the
\* one before are still at work, memory keeps that one's orders, tasks overwrite
\* each other, are cut off, and the process restarts.
RoundsComplete ==
  ~revived =>
    \A i \in DOMAIN rows : rows[i].round > 0 =>
      \A p \in rows[i].users_states :
        /\ rows[i].round_orders[p] # NoOrder
        /\ rows[i].round_orders[p].game = rows[i].game
        /\ rows[i].round_orders[p].round = rows[i].round - 1

\* Under the same condition the rows of a lobby are its games one after the
\* other, each without gaps from round 0: neither a row that could not be
\* inserted nor a restart, which picks any of the rows, makes a round be skipped
\* or played a second time.
SeriesOfRounds ==
  ~revived =>
    \A i \in DOMAIN rows :
      IF rows[i].round = 0 THEN i = 1 \/ rows[i].game = rows[i - 1].game + 1
      ELSE /\ i > 1 /\ rows[i].game = rows[i - 1].game
           /\ rows[i].round = rows[i - 1].round + 1

\* At the end of the first game of a lobby, if it comes before another one is
\* started, every player is shown one entry per round, in order, whatever order
\* the database has for the rows.
StatsFollowRounds ==
  [][\A p \in Users : FinishGame(p) /\ games = 1 =>
       get_player_stats = {[u \in clone[p].users_states |->
         [i \in 1..(MaxRounds + 1) |-> [game |-> 1, round |-> i - 1]]]}]_vars

HandlersGone == \A p \in Users : pc[p] = "idle"

\* After any number of stops, starts and restarts, the players of a game that
\* was started in this process do not all wait for a RoundStart that no handler
\* is left to bring about, but for these reasons: the task that was closing the
\* round was cut off; an order was not saved or was overwritten, so that the
\* counter stays too low; or an order left over from the game before is for
\* somebody who does not play any more, and the internal error "not found placed
\* recipient for order" (game.rs:576) ends every attempt to close the round.
\* (In a restored game no round closes, and about a lobby in which a task wrote
\* for another game nothing is said.)
RoundsClose ==
  HandlersGone /\ rs.users_states # {} /\ rs.users_states \subseteq waiting
    /\ ~restored /\ ~revived /\ rs.game \notin over \cup cut
    => rs.players_finished < rs.players \/ ~AllFound(rs)
=============================================================================
