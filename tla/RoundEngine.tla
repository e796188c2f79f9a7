---------------------------- MODULE RoundEngine ----------------------------
(***************************************************************************)
(* One running game: src/lobby/game.rs together with the part of           *)
(* src/websockets.rs that calls it.  Every player has a websocket task     *)
(* which handles one client message at a time.  Handling a RoundEnd clones *)
(* the lobby's round_state under the lock, works on the clone and writes   *)
(* the whole clone back later, so the tasks of two players interleave      *)
(* between the two.  The task whose clone counts as many finished players  *)
(* as there are players closes the round.  An action is the code between   *)
(* two awaits at which another task can get in; `pc` names the await.      *)
(*                                                                         *)
(* The initial state is the one start_new_game leaves behind.              *)
(***************************************************************************)
EXTENDS Events, SequencesExt

CONSTANTS
  Players,           \* the lobby's players, owner excluded
  Nil,               \* Uuid::nil(), the market at both ends of the chain
  Chain,             \* the players in the order get_lobby_players returned
  Classes, NoClass,  \* player classes; NoClass: no entry in player_classes
  ClassMaps,         \* what a client may send as UpdateClasses
  InitialClasses,    \* the classes of the start request
  SettingsChoices,   \* what the lobby's settings may be at the start
  SettingsUpdates,   \* what update_lobby may set them to during the game
  StartMoney, StartMagazine, IncomingStart, RequestedStart,  \* by class
  InitialDemand, InitialSupply,   \* what round_state held before the start
  EventsList,        \* the lobby's events
  OrderValues, OrderCosts,        \* what a client may order
  NoOrder, NoSnapshot,
  Impatient,         \* clients that may send while they await RoundStart
  MaxExtra,          \* bound: orders sent by impatient clients too early
  MaxFaults          \* bound: tasks aborted or failed by the database

\* Settings: `priced` are the classes with an entry in all three of
\* resource_price, fix_order_cost and magazine_cost.  The prices themselves
\* only end up in an order's cost, which nothing reads.
Settings == [max_rounds : Int, priced : SUBSET Classes,
             magazine_cost : [Classes -> Int],
             demand_style : OrderStyles, supply_style : OrderStyles]

PlayerClasses == [Players -> Classes \cup {NoClass}]

ASSUME PlayersAssumption ==
  IsFiniteSet(Players) /\ Players # {} /\ Nil \notin Players
ASSUME ChainAssumption ==
  /\ Chain \in Seq(Players)
  /\ \A p \in Players : \E i \in 1..Len(Chain) : Chain[i] = p
  /\ \A i, j \in 1..Len(Chain) : Chain[i] = Chain[j] => i = j
ASSUME ClassesAssumption ==
  /\ NoClass \notin Classes
  /\ ClassMaps \subseteq PlayerClasses
  /\ InitialClasses \in [Players -> Classes]
ASSUME SettingsAssumption ==
  /\ SettingsChoices \subseteq Settings /\ SettingsUpdates \subseteq Settings
  /\ EventsList \in GameEvents(Settings)
ASSUME StartAssumption ==
  /\ StartMoney \in [Classes -> Int] /\ StartMagazine \in [Classes -> Int]
  /\ IncomingStart \in [Classes -> Seq(Int)]
  /\ RequestedStart \in [Classes -> Seq(Int)]
  /\ InitialDemand \in Int /\ InitialSupply \in Int
ASSUME OrdersAssumption ==
  OrderValues \subseteq Int /\ OrderCosts \subseteq Int /\ NoOrder \notin Int
ASSUME BoundsAssumption ==
  Impatient \subseteq Players /\ MaxExtra \in Nat /\ MaxFaults \in Nat

VARIABLES
  rs,           \* lobby_state.round_state, shared by all tasks
  settings_db,  \* the settings column of the lobby row
  game_states,  \* the rows of game_state for this lobby, in insertion order
  pc,           \* where each player's task waits
  snap,         \* its clone of the round state
  order,        \* the order it is processing
  agenda,       \* the events and actions left to it in process_game_events
  waiting,      \* clients that got an Ack and await RoundStart
  over,         \* GameEnd was broadcast
  extra,        \* orders sent too early so far
  faults,       \* aborts and database failures so far
  saved         \* history: players whose order was written back this round

vars == <<rs, settings_db, game_states, pc, snap, order, agenda,
          waiting, over, extra, faults, saved>>
-----------------------------------------------------------------------------
(***************************************************************************)
(* The supply chain (redistribute_flow, Flow::get_recipient, get_sender).  *)
(***************************************************************************)
Position(p) == CHOOSE i \in 1..Len(Chain) : Chain[i] = p

first_player == Chain[1]
last_player  == Chain[Len(Chain)]

get_recipient(p) == IF p = last_player THEN Nil ELSE Chain[Position(p) + 1]
get_sender(p)    == IF p = first_player THEN Nil ELSE Chain[Position(p) - 1]

Stations == Players \cup {Nil}
-----------------------------------------------------------------------------
(***************************************************************************)
(* The data.  An order is its value; `granted` and `goods` are history:    *)
(* the money events gave to the player, and the units received minus the   *)
(* units requested from it plus what events changed of either.             *)
(***************************************************************************)
UserStates == [money : Int, spent_money : Int, magazine_state : Int,
               performance : Int, back_order_sum : Int,
               incoming_orders : Seq(Int), requested_orders : Seq(Int),
               granted : Int, goods : Int]

OrderBooks == [Stations -> Int \cup {NoOrder}]

RoundStates == [round : Nat, players_finished : Nat,
                users_states : [Players -> UserStates],
                round_orders : OrderBooks, send_orders : OrderBooks,
                player_classes : PlayerClasses,
                settings : Settings, demand : Int]

GameRows == [round : Nat, users_states : [Players -> UserStates]]
Messages == [value : OrderValues, cost : OrderCosts]
Agendas  == [events : GameEvents(Settings), actions : Seq(EventActions(Settings)),
             targets : SUBSET Players]

NoOrders    == [s \in Stations |-> NoOrder]
EmptyAgenda == [events |-> <<>>, actions |-> <<>>, targets |-> {}]

Recorded(r) == {p \in Players : r.round_orders[p] # NoOrder}

InitialUserState(p) ==
  LET class == InitialClasses[p] IN
  [money |-> StartMoney[class], spent_money |-> 0,
   magazine_state |-> StartMagazine[class], performance |-> 0, back_order_sum |-> 0,
   incoming_orders |-> IncomingStart[class], requested_orders |-> RequestedStart[class],
   granted |-> 0, goods |-> 0]

InitialUserStates == [p \in Players |-> InitialUserState(p)]
-----------------------------------------------------------------------------
(***************************************************************************)
(* process_user_round_end_message on the clone r.                          *)
(***************************************************************************)
Rejected(r, p, o) ==
  LET class == r.player_classes[p] IN
  \/ class = NoClass
  \/ class \notin r.settings.priced
  \/ o.cost > r.users_states[p].money

QueuesReady(us) == us.incoming_orders # <<>> /\ us.requested_orders # <<>>

\* Storage paid but not booked as spent.
Mutant_SettleUser(us, o, unit_cost) ==
  LET storage  == us.magazine_state * unit_cost
      received == Last(us.incoming_orders)
      request  == Last(us.requested_orders)
      settled  == SettleRequest(us.magazine_state + received, us.back_order_sum, request)
  IN  [us EXCEPT !.money = @ - o.cost - storage,
                 !.spent_money = @ + o.cost,
                 !.magazine_state = settled.stock,
                 !.back_order_sum = settled.back,
                 !.incoming_orders = Front(@),
                 !.requested_orders = Front(@),
                 !.goods = @ + received - request]

\* The oldest order of each queue is taken instead of the newest.
Mutant_SettleOldest(us, o, unit_cost) ==
  LET storage  == us.magazine_state * unit_cost
      received == Head(us.incoming_orders)
      request  == Head(us.requested_orders)
      settled  == SettleRequest(us.magazine_state + received, us.back_order_sum, request)
  IN  [us EXCEPT !.money = @ - o.cost - storage,
                 !.spent_money = @ + o.cost + storage,
                 !.magazine_state = settled.stock,
                 !.back_order_sum = settled.back,
                 !.incoming_orders = Tail(@),
                 !.requested_orders = Tail(@),
                 !.goods = @ + received - request]

\* The magazine is paid for as it was before the receipt; the newest order
\* of each queue is the one that is popped.
SettleUser(us, o, unit_cost) ==
  LET storage  == us.magazine_state * unit_cost
      received == Last(us.incoming_orders)
      request  == Last(us.requested_orders)
      settled  == SettleRequest(us.magazine_state + received, us.back_order_sum, request)
  IN  [us EXCEPT !.money = @ - o.cost - storage,
                 !.spent_money = @ + o.cost + storage,
                 !.magazine_state = settled.stock,
                 !.back_order_sum = settled.back,
                 !.incoming_orders = Front(@),
                 !.requested_orders = Front(@),
                 !.goods = @ + received - request]

Shipment(us) ==
  SettleRequest(us.magazine_state + Last(us.incoming_orders),
                us.back_order_sum, Last(us.requested_orders)).sent

RecordOrder(r, p, o) ==
  LET us == r.users_states[p] IN
  [r EXCEPT !.users_states[p] =
              SettleUser(us, o, r.settings.magazine_cost[r.player_classes[p]]),
            !.round_orders[p] = o.value,
            !.send_orders[p] = Shipment(us),
            !.players_finished = @ + 1]
-----------------------------------------------------------------------------
(***************************************************************************)
(* finish_round on the clone r: the market's orders under the Nil key,     *)
(* then every order to the queue of the player it is addressed to.         *)
(***************************************************************************)
\* A queue that also takes a missing order.
Mutant_Deliver(queue, value) == Append(queue, value)

Deliver(queue, value) == IF value = NoOrder THEN queue ELSE Append(queue, value)

Receive(us, request, shipment) ==
  [us EXCEPT !.requested_orders = Deliver(@, request),
             !.incoming_orders  = Deliver(@, shipment)]

CloseBooks(r) ==
  LET next_demand == generate_demand(r.demand, r.settings.demand_style)
      next_supply == generate_demand(InitialSupply, r.settings.supply_style)
      ordered     == r.round_orders[first_player]
      supplied    == IF next_supply < ordered THEN next_supply ELSE ordered
      requests    == [r.round_orders EXCEPT ![Nil] = next_demand]
      shipments   == [r.send_orders EXCEPT ![Nil] = supplied]
  IN  [r EXCEPT !.round = @ + 1,
                !.demand = next_demand,
                !.round_orders = requests,
                !.send_orders = shipments,
                !.users_states = [p \in Players |->
                  Receive(r.users_states[p], requests[get_recipient(p)],
                          shipments[get_sender(p)])]]

\* The counter is left as it was.
Mutant_ClearRound(r) == [r EXCEPT !.round_orders = NoOrders, !.send_orders = NoOrders]

\* new_round on the clone r, after the events.
ClearRound(r) == [r EXCEPT !.players_finished = 0,
                           !.round_orders = NoOrders,
                           !.send_orders = NoOrders]

\* execute_resource_action for one player.
GrantResource(us, resource, value) ==
  CASE resource = "Money" ->
         [us EXCEPT !.money = @ + value, !.granted = @ + value]
    [] resource = "MagazineState" ->
         [us EXCEPT !.magazine_state = @ + value, !.goods = @ + value]
    [] resource = "Performance" ->
         [us EXCEPT !.performance = @ + value]
    [] resource = "BackOrderValue" ->
         [us EXCEPT !.back_order_sum = @ + value, !.goods = @ - value]

ApplyAction(r, action, targets) ==
  CASE action.type = "ShowMessage"    -> r
    [] action.type = "ChangeSettings" -> [r EXCEPT !.settings = action.new_settings]
    [] action.type = "AddResource"    ->
         LET given == IF action.target = "EventTarget" THEN targets ELSE Players IN
         [r EXCEPT !.users_states = [p \in Players |->
            IF p \in given
              THEN GrantResource(r.users_states[p], action.resource, action.value)
              ELSE r.users_states[p]]]
-----------------------------------------------------------------------------
\* The settings of the game are those of a row read before the start had its
\* locks: an update may have come between.  It is the first game of its lobby:
\* start_new_game clears no orders, and those of an earlier game, which stay, are
\* in GameSeries.
Init ==
  /\ settings_db \in SettingsChoices
  /\ \E settings \in SettingsChoices :
       rs = [round |-> 0, players_finished |-> 0, users_states |-> InitialUserStates,
             round_orders |-> NoOrders, send_orders |-> NoOrders,
             player_classes |-> InitialClasses, settings |-> settings,
             demand |-> InitialDemand]
  /\ game_states = <<[round |-> 0, users_states |-> InitialUserStates]>>
  /\ pc     = [p \in Players |-> "idle"]
  /\ snap   = [p \in Players |-> NoSnapshot]
  /\ order  = [p \in Players |-> NoOrder]
  /\ agenda = [p \in Players |-> EmptyAgenda]
  /\ waiting = {} /\ over = FALSE /\ extra = 0 /\ faults = 0 /\ saved = {}

\* The task is done with its message, whatever the outcome.
Return(p) ==
  /\ pc'     = [pc EXCEPT ![p] = "idle"]
  /\ snap'   = [snap EXCEPT ![p] = NoSnapshot]
  /\ order'  = [order EXCEPT ![p] = NoOrder]
  /\ agenda' = [agenda EXCEPT ![p] = EmptyAgenda]

Goto(p, label) == pc' = [pc EXCEPT ![p] = label]

\* A client places its order once it saw the round start; an impatient one
\* may do so again before the next RoundStart.  The task clones round_state.
ReceiveRoundEnd(p, o) ==
  /\ pc[p] = "idle"
  /\ \/ p \notin waiting /\ extra' = extra
     \/ p \in waiting \cap Impatient /\ extra < MaxExtra /\ extra' = extra + 1
  /\ Goto(p, "cloned")
  /\ snap'  = [snap EXCEPT ![p] = rs]
  /\ order' = [order EXCEPT ![p] = o]
  /\ UNCHANGED <<rs, settings_db, game_states, agenda, waiting, over, faults, saved>>

\* BadRequest or BadOrder, sent back as ErrorUser: the client may try again.
RejectOrder(p) ==
  /\ pc[p] = "cloned"
  /\ Rejected(snap[p], p, order[p])
  /\ Return(p)
  /\ UNCHANGED <<rs, settings_db, game_states, waiting, over, extra, faults, saved>>

AckOrder(p) ==
  /\ pc[p] = "cloned"
  /\ ~Rejected(snap[p], p, order[p])
  /\ Goto(p, "acked")
  /\ waiting' = waiting \cup {p}
  /\ UNCHANGED <<rs, settings_db, game_states, snap, order, agenda, over, extra,
                 faults, saved>>

\* "expected a incoming order": the Ack is out, the clone is dropped.
FailOrder(p) ==
  /\ pc[p] = "acked"
  /\ ~QueuesReady(snap[p].users_states[p])
  /\ Return(p)
  /\ UNCHANGED <<rs, settings_db, game_states, waiting, over, extra, faults, saved>>

\* The round is closed one order too early.
Mutant_SaveOrder(p) ==
  LET done == RecordOrder(snap[p], p, order[p]) IN
  /\ pc[p] = "acked"
  /\ QueuesReady(snap[p].users_states[p])
  /\ rs' = done
  /\ saved' = saved \cup {p}
  /\ IF done.players_finished >= Cardinality(Players) - 1
       THEN /\ Goto(p, "finishing")
            /\ snap'  = [snap EXCEPT ![p] = done]
            /\ order' = [order EXCEPT ![p] = NoOrder]
            /\ UNCHANGED agenda
       ELSE Return(p)
  /\ UNCHANGED <<settings_db, game_states, waiting, over, extra, faults>>

\* The orders are those of the clone, the books of the others those of the
\* shared state.
Mutant_MergeBooks(p) ==
  LET done   == RecordOrder(snap[p], p, order[p])
      merged == [done EXCEPT !.users_states =
                   [rs.users_states EXCEPT ![p] = done.users_states[p]]]
  IN
  /\ pc[p] = "acked"
  /\ QueuesReady(snap[p].users_states[p])
  /\ rs' = merged
  /\ saved' = saved \cup {p}
  /\ IF done.players_finished = Cardinality(Players)
       THEN /\ Goto(p, "finishing")
            /\ snap'  = [snap EXCEPT ![p] = merged]
            /\ order' = [order EXCEPT ![p] = NoOrder]
            /\ UNCHANGED agenda
       ELSE Return(p)
  /\ UNCHANGED <<settings_db, game_states, waiting, over, extra, faults>>

\* The whole clone replaces the shared state, whatever happened to it since.
SaveOrder(p) ==
  LET done == RecordOrder(snap[p], p, order[p]) IN
  /\ pc[p] = "acked"
  /\ QueuesReady(snap[p].users_states[p])
  /\ rs' = done
  /\ saved' = saved \cup {p}
  /\ IF done.players_finished = Cardinality(Players)
       THEN /\ Goto(p, "finishing")
            /\ snap'  = [snap EXCEPT ![p] = done]
            /\ order' = [order EXCEPT ![p] = NoOrder]
            /\ UNCHANGED agenda
       ELSE Return(p)
  /\ UNCHANGED <<settings_db, game_states, waiting, over, extra, faults>>

FinishRound(p) ==
  /\ pc[p] = "finishing"
  /\ snap[p].round_orders[first_player] # NoOrder
  /\ rs' = CloseBooks(snap[p])
  /\ snap' = [snap EXCEPT ![p] = rs']
  /\ saved' = {}
  /\ Goto(p, "settled")
  /\ UNCHANGED <<settings_db, game_states, order, agenda, waiting, over, extra, faults>>

\* "not found fist player order": RoundEnd is out, nothing else changed.
FinishRoundFails(p) ==
  /\ pc[p] = "finishing"
  /\ snap[p].round_orders[first_player] = NoOrder
  /\ Return(p)
  /\ UNCHANGED <<rs, settings_db, game_states, waiting, over, extra, faults, saved>>

\* The row carries the number of the round that is about to start.
Mutant_PersistRound(p) ==
  /\ pc[p] = "settled"
  /\ game_states' = Append(game_states, [round |-> snap[p].round + 1,
                                         users_states |-> snap[p].users_states])
  /\ Goto(p, "persisted")
  /\ UNCHANGED <<rs, settings_db, snap, order, agenda, waiting, over, extra, faults, saved>>

PersistRound(p) ==
  /\ pc[p] = "settled"
  /\ game_states' = Append(game_states, [round |-> snap[p].round,
                                         users_states |-> snap[p].users_states])
  /\ Goto(p, "persisted")
  /\ UNCHANGED <<rs, settings_db, snap, order, agenda, waiting, over, extra, faults, saved>>

\* One round too many.
Mutant_IsLastRound(round, settings) == round > settings.max_rounds

\* The limit is read back from the lobby row and compared with `==`.
IsLastRound(round, settings) == round = settings.max_rounds

\* GameEnd followed by the start of another round.
Mutant_FinishGame(p) ==
  /\ pc[p] = "persisted"
  /\ IsLastRound(snap[p].round, settings_db)
  /\ over' = TRUE
  /\ waiting' = {}
  /\ Return(p)
  /\ UNCHANGED <<rs, settings_db, game_states, extra, faults, saved>>

FinishGame(p) ==
  /\ pc[p] = "persisted"
  /\ IsLastRound(snap[p].round, settings_db)
  /\ over' = TRUE
  /\ Return(p)
  /\ UNCHANGED <<rs, settings_db, game_states, waiting, extra, faults, saved>>

ProcessEvents(p) ==
  /\ pc[p] = "persisted"
  /\ ~IsLastRound(snap[p].round, settings_db)
  /\ agenda' = [agenda EXCEPT ![p].events = EventsList]
  /\ Goto(p, "events")
  /\ UNCHANGED <<rs, settings_db, game_states, snap, order, waiting, over, extra,
                 faults, saved>>

\* The condition of the next event.  SingleChange compares with a row of the
\* round before, any of them if there are several; `run_once` is never read.
EvaluateEvent(p) ==
  /\ pc[p] = "events"
  /\ agenda[p].actions = <<>> /\ agenda[p].events # <<>>
  /\ \E i \in DOMAIN game_states :
       LET event   == Head(agenda[p].events)
           verdict == evaluate_cond(snap[p].round, snap[p].users_states,
                                    game_states[i].users_states, event.condition)
       IN  /\ game_states[i].round = snap[p].round - 1
           /\ agenda' = [agenda EXCEPT ![p] =
                [events  |-> Tail(@.events),
                 actions |-> IF verdict.met THEN event.actions ELSE <<>>,
                 targets |-> IF verdict.met THEN verdict.targets ELSE {}]]
  /\ UNCHANGED <<rs, settings_db, game_states, pc, snap, order, waiting, over,
                 extra, faults, saved>>

\* ChangeSettings writes the lobby row first, then the clone.
ExecuteAction(p) ==
  /\ pc[p] = "events"
  /\ agenda[p].actions # <<>>
  /\ LET action == Head(agenda[p].actions) IN
     /\ settings_db' = IF action.type = "ChangeSettings"
                         THEN action.new_settings ELSE settings_db
     /\ snap' = [snap EXCEPT ![p] = ApplyAction(@, action, agenda[p].targets)]
  /\ agenda' = [agenda EXCEPT ![p].actions = Tail(@)]
  /\ UNCHANGED <<rs, game_states, pc, order, waiting, over, extra, faults, saved>>

NewRound(p) ==
  /\ pc[p] = "events"
  /\ agenda[p].events = <<>> /\ agenda[p].actions = <<>>
  /\ rs' = ClearRound(snap[p])
  /\ Goto(p, "announcing")
  /\ UNCHANGED <<settings_db, game_states, snap, order, agenda, waiting, over,
                 extra, faults, saved>>

AnnounceRound(p) ==
  /\ pc[p] = "announcing"
  /\ waiting' = {}
  /\ Return(p)
  /\ UNCHANGED <<rs, settings_db, game_states, over, extra, faults, saved>>

\* The task is aborted at its await (its send_task ended first), or the
\* database answers with an error: the clone is dropped where it is.
Interrupt(p) ==
  /\ pc[p] # "idle" /\ faults < MaxFaults
  /\ faults' = faults + 1
  /\ Return(p)
  /\ UNCHANGED <<rs, settings_db, game_states, waiting, over, extra, saved>>

\* update_lobby_classes writes the shared state directly.
UpdateClasses(p, classes) ==
  /\ pc[p] = "idle"
  /\ classes # rs.player_classes
  /\ rs' = [rs EXCEPT !.player_classes = classes]
  /\ UNCHANGED <<settings_db, game_states, pc, snap, order, agenda, waiting, over,
                 extra, faults, saved>>

\* update_lobby changes the row; it does not ask whether the game is started.
\* The events, which it can replace as well, stay those of the start here.
UpdateSettings(settings) ==
  /\ settings # settings_db
  /\ settings_db' = settings
  /\ UNCHANGED <<rs, game_states, pc, snap, order, agenda, waiting, over, extra,
                 faults, saved>>

HandlerStep(p) ==
  \/ RejectOrder(p) \/ AckOrder(p) \/ FailOrder(p) \/ SaveOrder(p)
  \/ FinishRound(p) \/ FinishRoundFails(p) \/ PersistRound(p)
  \/ FinishGame(p) \/ ProcessEvents(p) \/ EvaluateEvent(p) \/ ExecuteAction(p)
  \/ NewRound(p) \/ AnnounceRound(p)

Next ==
  \/ \E p \in Players :
       \/ \E o \in Messages : ReceiveRoundEnd(p, o)
       \/ HandlerStep(p)
       \/ Interrupt(p)
       \/ \E classes \in ClassMaps : UpdateClasses(p, classes)
  \/ \E settings \in SettingsUpdates : UpdateSettings(settings)

Spec == Init /\ [][Next]_vars

\* tokio runs every woken task and its lock is fair; clients owe nothing.
FairSpec == Spec /\ \A p \in Players : WF_vars(HandlerStep(p))
-----------------------------------------------------------------------------
(***************************************************************************)
(* Properties.                                                             *)
(***************************************************************************)
Labels == {"idle", "cloned", "acked", "finishing", "settled", "persisted",
           "events", "announcing"}
Closing == {"finishing", "settled", "persisted", "events", "announcing"}

\* Every state variable has the type of the field or local it stands for; a
\* task at work has a clone, and an order until it has recorded it.
TypeOK ==
  /\ rs \in RoundStates
  /\ settings_db \in Settings
  /\ game_states \in Seq(GameRows)
  /\ pc \in [Players -> Labels]
  /\ snap \in [Players -> RoundStates \cup {NoSnapshot}]
  /\ order \in [Players -> Messages \cup {NoOrder}]
  /\ agenda \in [Players -> Agendas]
  /\ waiting \subseteq Players /\ saved \subseteq Players
  /\ over \in BOOLEAN
  /\ extra \in 0..MaxExtra /\ faults \in 0..MaxFaults
  /\ \A p \in Players :
       /\ pc[p] # "idle" => snap[p] \in RoundStates
       /\ pc[p] \in {"cloned", "acked"} => order[p] \in Messages

\* The shared round state and the clones tasks are working on.
Copies == {rs} \cup {snap[p] : p \in {q \in Players : pc[q] # "idle"}}

Balanced(p, us) ==
  /\ us.money + us.spent_money = StartMoney[InitialClasses[p]] + us.granted
  /\ us.magazine_state - us.back_order_sum = StartMagazine[InitialClasses[p]] + us.goods

\* In the shared state, in every clone and in every stored row the books of
\* each player balance: what he has and what he spent is what he started with
\* and was given, and his stock less his back orders is what came in less
\* what was asked of him, however the tasks overwrite each other.
BooksBalance ==
  /\ \A r \in Copies : \A p \in Players : Balanced(p, r.users_states[p])
  /\ \A i \in DOMAIN game_states :
       \A p \in Players : Balanced(p, game_states[i].users_states[p])

\* With non-negative orders and no event touching stock or back orders, a
\* player never owes goods while holding stock, and neither is negative.
StockSettled ==
  \A r \in Copies : \A p \in Players :
    LET us == r.users_states[p] IN
    /\ us.magazine_state >= 0 /\ us.back_order_sum >= 0
    /\ us.magazine_state = 0 \/ us.back_order_sum = 0

\* Nobody sends twice in a round: the counter that closes the round is the
\* number of orders on record, in the shared state and in every clone.
FinishedCountsOrders ==
  \A r \in Copies : r.players_finished = Cardinality(Recorded(r))

Delivered(r) == r.round_orders[Nil] # NoOrder

QueueIs(queue, start, popped) ==
  /\ Len(queue) = Len(start) - (IF popped THEN 1 ELSE 0)
  /\ \A i \in 1..Len(start) - 1 : queue[i] = start[i]

\* Both queues of a player are as long as at the start whenever he has not
\* ordered yet, and one shorter between his order and the round's end; what
\* was queued at the start below the newest entry never moves.
PipelineIsStack ==
  \A r \in Copies : \A p \in Players :
    LET us     == r.users_states[p]
        popped == p \in Recorded(r) /\ ~Delivered(r)
    IN  /\ QueueIs(us.incoming_orders, IncomingStart[InitialClasses[p]], popped)
        /\ QueueIs(us.requested_orders, RequestedStart[InitialClasses[p]], popped)

\* One task closes the round, and while it does so no other is handling an
\* order: nothing can write an older clone over the round's result.
SingleFinisher ==
  \A p, q \in Players : pc[p] \in Closing /\ q # p => pc[q] = "idle"

\* The stored rows are rounds 0, 1, 2, ... without a gap or a repetition, and
\* the round in memory is the last stored one or the next: SingleChange
\* always finds the row of the round before.
RowsMatchRounds ==
  /\ \A i \in DOMAIN game_states : game_states[i].round = i - 1
  /\ rs.round \in {Len(game_states) - 1, Len(game_states)}
  /\ \A p \in Players : pc[p] = "events" => snap[p].round = Len(game_states) - 1

\* Settings that events do not lower: the game never plays past max_rounds.
NeverPastMaxRounds == rs.round <= settings_db.max_rounds

\* After GameEnd no player's books change any more.
GameEndIsFinal == [][over => rs'.users_states = rs.users_states]_vars

\* The engine keeps what a barrier promises (RoundBarrier).
Barrier == INSTANCE RoundBarrier
             WITH round   <- rs.round,
                  placed  <- IF Delivered(rs) THEN {} ELSE Recorded(rs),
                  entered <- saved
BarrierSpec == Barrier!Spec

\* If every client got its Ack and no task was cut off, the next RoundStart or
\* GameEnd comes, unless an order was lost to a concurrent write-back.
RoundProgress ==
  (waiting = Players /\ faults = 0) ~>
    (waiting = {} \/ over \/ faults > 0 \/ saved \ Recorded(rs) # {})

\* The money events gave a player aside, he has and has spent what he had and
\* had spent in the row, and his queues are as they were then.
AsInRow(us, row) ==
  /\ us.money - us.granted = row.money - row.granted
  /\ us.spent_money = row.spent_money
  /\ us.incoming_orders = row.incoming_orders
  /\ us.requested_orders = row.requested_orders

\* An order is lost whole or not at all: whoever has no order on record in the
\* shared state or in a clone, because he has not sent one or because a
\* write-back has dropped it, has paid for none since the last stored row.
OffRecordUnpaid ==
  \A r \in Copies : \A p \in Players \ Recorded(r) :
    ~Delivered(r) => AsInRow(r.users_states[p], Last(game_states).users_states[p])

\* When all clients wait and no task is at work, the game is over, a task was
\* cut off, or a write-back has dropped an order: nothing else can strand it.
HangsForAReason ==
  (waiting = Players /\ \A p \in Players : pc[p] = "idle")
    => \/ over \/ faults > 0
       \/ saved \ Recorded(rs) # {}

\* "expected a incoming order" (game.rs:149): the code treats an empty queue
\* as an internal error, one that no acknowledged order runs into.
OrdersExpected ==
  \A p \in Players : pc[p] = "acked" => QueuesReady(snap[p].users_states[p])
=============================================================================
