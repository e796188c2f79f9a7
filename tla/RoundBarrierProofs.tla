------------------------- MODULE RoundBarrierProofs -------------------------
(***************************************************************************)
(* What is proved about RoundEngine for clients that keep to the protocol: *)
(* nobody sends an order again before he saw the next RoundStart, that is  *)
(* Impatient is empty.  Tasks may still be cut off anywhere, classes and   *)
(* settings may be updated at any time, and the tasks of the players write *)
(* whole clones over each other.                                           *)
(***************************************************************************)
EXTENDS RoundEngineProofs, SequenceTheorems

-----------------------------------------------------------------------------
(* What the operators do to the part of a round state that counts: the     *)
(* round, whose orders are on record, and whether they were delivered.     *)

LEMMA CountedFields ==
  ASSUME NEW r \in RoundStates
  PROVE  /\ \A s \in Stations : r.round_orders[s] \in Int \cup {NoOrder}
         /\ Recorded(r) \subseteq Players
BY RoundStateFields DEF Recorded, OrderBooks

\* Recording an order adds its player to those on record.
LEMMA RecordOrderCounts ==
  ASSUME NEW r \in RoundStates, NEW p \in Players, NEW o \in Messages
  PROVE  LET done == RecordOrder(r, p, o) IN
         /\ done.round = r.round
         /\ Recorded(done) = Recorded(r) \cup {p}
         /\ Delivered(done) <=> Delivered(r)
         /\ done.players_finished = r.players_finished + 1
<1>. DEFINE placed == [r.round_orders EXCEPT ![p] = o.value]
            done   == RecordOrder(r, p, o)
<1>1. /\ done.round = r.round /\ done.round_orders = placed
      /\ done.players_finished = r.players_finished + 1
  BY DEF RecordOrder, RoundStates
<1>2. o.value # NoOrder  BY OrdersAssumption DEF Messages
<1>3. /\ placed[p] = o.value
      /\ \A s \in Stations \ {p} : placed[s] = r.round_orders[s]
  BY RoundStateFields DEF OrderBooks, Stations
<1>. HIDE DEF done, placed
<1>4. Recorded(done) = Recorded(r) \cup {p}
  BY <1>1, <1>2, <1>3 DEF Recorded, Stations
<1>5. Delivered(done) <=> Delivered(r)
  BY <1>1, <1>3, PlayersAssumption DEF Delivered, Stations
<1>. QED BY <1>1, <1>4, <1>5 DEF done

\* Closing the books delivers the orders and leaves those of the players on
\* record.
LEMMA CloseBooksCounts ==
  ASSUME NEW r \in RoundStates
  PROVE  LET done == CloseBooks(r) IN
         /\ done.round = r.round + 1
         /\ Recorded(done) = Recorded(r)
         /\ Delivered(done)
         /\ done.players_finished = r.players_finished
<1>. DEFINE demand   == generate_demand(r.demand, r.settings.demand_style)
            requests == [r.round_orders EXCEPT ![Nil] = demand]
            done     == CloseBooks(r)
<1>1. /\ done.round = r.round + 1 /\ done.round_orders = requests
      /\ done.players_finished = r.players_finished
  BY DEF CloseBooks, RoundStates
<1>2. demand \in Int
  <2>1. r.settings.demand_style \in OrderStyles  BY RoundStateFields DEF Settings
  <2>. QED BY <2>1, RoundStateFields, DemandType
<1>3. demand # NoOrder  BY <1>2, OrdersAssumption
<1>. HIDE DEF demand
<1>4. requests[Nil] = demand /\ \A p \in Players : requests[p] = r.round_orders[p]
  BY RoundStateFields, PlayersAssumption DEF OrderBooks, Stations
<1>. HIDE DEF done, requests
<1>5. Recorded(done) = Recorded(r)  BY <1>1, <1>4 DEF Recorded
<1>6. Delivered(done)  BY <1>1, <1>3, <1>4 DEF Delivered
<1>. QED BY <1>1, <1>5, <1>6 DEF done

LEMMA ClearRoundCounts ==
  ASSUME NEW r \in RoundStates
  PROVE  LET done == ClearRound(r) IN
         /\ done.round = r.round /\ Recorded(done) = {} /\ ~Delivered(done)
         /\ done.players_finished = 0
BY DEF ClearRound, RoundStates, Recorded, Delivered, NoOrders, Stations

\* An event changes nothing that counts.
LEMMA ApplyActionCounts ==
  ASSUME NEW r \in RoundStates, NEW action \in EventActions(Settings), NEW targets
  PROVE  LET done == ApplyAction(r, action, targets) IN
         /\ done.round = r.round /\ done.round_orders = r.round_orders
         /\ done.send_orders = r.send_orders
         /\ done.players_finished = r.players_finished
<1>1. CASE action.type = "ShowMessage"  BY <1>1 DEF ApplyAction
<1>2. CASE action.type = "ChangeSettings"  BY <1>2 DEF ApplyAction, RoundStates
<1>3. CASE action.type = "AddResource"  BY <1>3 DEF ApplyAction, RoundStates
<1>. QED BY <1>1, <1>2, <1>3 DEF EventActions

-----------------------------------------------------------------------------
(***************************************************************************)
(* One copy of the round state: the counter is the number of orders on     *)
(* record, a player's shipment is booked with his order, and his queues    *)
(* are one shorter than at the start from his order to the delivery.       *)
(***************************************************************************)
QueuesAre(p, us, popped) ==
  /\ QueueIs(us.incoming_orders, IncomingStart[InitialClasses[p]], popped)
  /\ QueueIs(us.requested_orders, RequestedStart[InitialClasses[p]], popped)

CopySound(r) ==
  /\ r.players_finished = Cardinality(Recorded(r))
  /\ \A p \in Players : r.send_orders[p] = NoOrder => r.round_orders[p] = NoOrder
  /\ \A p \in Players :
       QueuesAre(p, r.users_states[p], p \in Recorded(r) /\ ~Delivered(r))

\* Taking the newest entry leaves the rest where it was.
LEMMA PoppedQueue ==
  ASSUME NEW queue \in Seq(Int), NEW start \in Seq(Int),
         queue # <<>>, QueueIs(queue, start, FALSE)
  PROVE  QueueIs(Front(queue), start, TRUE)
<1>1. Len(queue) \in Nat /\ Len(queue) > 0  OBVIOUS
<1>2. Front(queue) = SubSeq(queue, 1, Len(queue) - 1)  BY DEF Front
<1>3. \A i \in 1..Len(queue) - 1 : queue[i] \in Int  OBVIOUS
<1>4. /\ Len(Front(queue)) = Len(queue) - 1
      /\ \A i \in 1..Len(queue) - 1 : Front(queue)[i] = queue[i]
  <2>. DEFINE n == Len(queue) - 1
  <2>1. n \in Nat  BY <1>1
  <2>2. /\ Len(SubSeq(queue, 1, n)) = IF 1 <= n THEN n - 1 + 1 ELSE 0
        /\ \A i \in 1..n - 1 + 1 : SubSeq(queue, 1, n)[i] = queue[1 + i - 1]
    BY <1>3, <2>1, SubSeqProperties
  <2>. HIDE DEF n
  <2>3. Len(SubSeq(queue, 1, n)) = n /\ \A i \in 1..n : SubSeq(queue, 1, n)[i] = queue[i]
    BY <2>1, <2>2
  <2>. QED BY <1>2, <2>3 DEF n
<1>5. Len(queue) = Len(start) /\ \A i \in 1..Len(start) - 1 : queue[i] = start[i]
  <2>1. Len(queue) = Len(start) - 0  BY DEF QueueIs
  <2>2. Len(start) \in Nat  OBVIOUS
  <2>. QED BY <2>1, <2>2 DEF QueueIs
<1>6. /\ Len(Front(queue)) = Len(start) - 1
      /\ \A i \in 1..Len(start) - 1 : Front(queue)[i] = start[i]
  BY <1>4, <1>5
<1>. QED BY <1>6 DEF QueueIs

\* And so does putting a new one in its place.
LEMMA PushedQueue ==
  ASSUME NEW queue \in Seq(Int), NEW start \in Seq(Int), NEW value \in Int,
         QueueIs(queue, start, TRUE)
  PROVE  QueueIs(Deliver(queue, value), start, FALSE)
<1>1. Deliver(queue, value) = Append(queue, value)
  BY OrdersAssumption DEF Deliver
<1>. QED BY <1>1 DEF QueueIs

LEMMA StartQueues ==
  ASSUME NEW p \in Players
  PROVE  /\ IncomingStart[InitialClasses[p]] \in Seq(Int)
         /\ RequestedStart[InitialClasses[p]] \in Seq(Int)
BY ClassesAssumption, StartAssumption

LEMMA RecordOrderSound ==
  ASSUME NEW r \in RoundStates, NEW p \in Players, NEW o \in Messages,
         QueuesReady(r.users_states[p]), p \notin Recorded(r), ~Delivered(r),
         CopySound(r)
  PROVE  CopySound(RecordOrder(r, p, o))
<1>. DEFINE us   == r.users_states[p]
            cost == r.settings.magazine_cost[r.player_classes[p]]
            new  == SettleUser(us, o, cost)
            done == RecordOrder(r, p, o)
<1>1. /\ done.round_orders = [r.round_orders EXCEPT ![p] = o.value]
      /\ done.send_orders = [r.send_orders EXCEPT ![p] = Shipment(us)]
      /\ done.users_states = [r.users_states EXCEPT ![p] = new]
      /\ done.players_finished = r.players_finished + 1
  BY DEF RecordOrder, RoundStates
<1>2. /\ Recorded(done) = Recorded(r) \cup {p} /\ ~Delivered(done)
  BY RecordOrderCounts
<1>3. Cardinality(Recorded(done)) = Cardinality(Recorded(r)) + 1
  <2>1. IsFiniteSet(Recorded(r))
    BY CountedFields, PlayersAssumption, FS_Subset
  <2>. QED BY <1>2, <2>1, FS_AddElement
<1>4. us \in UserStates  BY RoundStateFields
<1>5. Shipment(us) # NoOrder
  <2>1. Shipment(us) \in Int  BY <1>4, 0 \in Int, SettleUserBooks
  <2>. QED BY <2>1, OrdersAssumption
<1>6. /\ new.incoming_orders = Front(us.incoming_orders)
      /\ new.requested_orders = Front(us.requested_orders)
  BY <1>4 DEF SettleUser, UserStates
<1>7. QueuesAre(p, new, TRUE)
  <2>1. /\ us.incoming_orders \in Seq(Int) /\ us.incoming_orders # <<>>
        /\ us.requested_orders \in Seq(Int) /\ us.requested_orders # <<>>
    BY <1>4 DEF UserStates, QueuesReady
  <2>2. QueuesAre(p, us, FALSE)  BY DEF CopySound
  <2>. QED BY <1>6, <2>1, <2>2, StartQueues, PoppedQueue DEF QueuesAre
<1>. HIDE DEF done, new
<1>8. ASSUME NEW q \in Players
      PROVE  /\ done.send_orders[q] = NoOrder => done.round_orders[q] = NoOrder
             /\ QueuesAre(q, done.users_states[q], q \in Recorded(done) /\ ~Delivered(done))
  <2>1. CASE q = p
    <3>1. /\ done.users_states[q] = new /\ done.send_orders[q] # NoOrder
          /\ (q \in Recorded(done) /\ ~Delivered(done)) = TRUE
      BY <1>1, <1>2, <1>5, <2>1, RoundStateFields DEF OrderBooks, Stations
    <3>. QED BY <1>7, <2>1, <3>1
  <2>2. CASE q # p
    <3>1. /\ done.users_states[q] = r.users_states[q]
          /\ done.send_orders[q] = r.send_orders[q]
          /\ done.round_orders[q] = r.round_orders[q]
      BY <1>1, <2>2, RoundStateFields DEF OrderBooks, Stations
    <3>2. (q \in Recorded(done) /\ ~Delivered(done)) = (q \in Recorded(r) /\ ~Delivered(r))
      BY <1>2, <2>2
    <3>. QED BY <3>1, <3>2 DEF CopySound
  <2>. QED BY <2>1, <2>2
<1>9. done.players_finished = Cardinality(Recorded(done))
  BY <1>1, <1>3 DEF CopySound
<1>10. CopySound(done)  BY <1>8, <1>9 DEF CopySound
<1>. QED BY <1>10 DEF done

LEMMA CloseBooksSound ==
  ASSUME NEW r \in RoundStates, Recorded(r) = Players, ~Delivered(r), CopySound(r)
  PROVE  CopySound(CloseBooks(r))
<1>. DEFINE demand    == generate_demand(r.demand, r.settings.demand_style)
            supply    == generate_demand(InitialSupply, r.settings.supply_style)
            ordered   == r.round_orders[first_player]
            supplied  == IF supply < ordered THEN supply ELSE ordered
            requests  == [r.round_orders EXCEPT ![Nil] = demand]
            shipments == [r.send_orders EXCEPT ![Nil] = supplied]
            users     == [p \in Players |->
                            Receive(r.users_states[p], requests[get_recipient(p)],
                                    shipments[get_sender(p)])]
            done      == CloseBooks(r)
<1>1. /\ done.round_orders = requests /\ done.send_orders = shipments
      /\ done.users_states = users /\ done.players_finished = r.players_finished
  BY DEF CloseBooks, RoundStates
<1>2. Recorded(done) = Recorded(r) /\ Delivered(done)  BY CloseBooksCounts
<1>3. demand \in Int /\ supply \in Int
  <2>1. r.settings.demand_style \in OrderStyles /\ r.settings.supply_style \in OrderStyles
    BY RoundStateFields DEF Settings
  <2>. QED BY <2>1, RoundStateFields, StartAssumption, DemandType
<1>4. \A p \in Players : r.round_orders[p] \in Int /\ r.send_orders[p] \in Int
  <2>1. \A p \in Players : r.round_orders[p] # NoOrder /\ r.send_orders[p] # NoOrder
    BY DEF Recorded, CopySound
  <2>. QED BY <2>1, RoundStateFields DEF OrderBooks, Stations
<1>. HIDE DEF demand, supply
<1>5. supplied \in Int  BY <1>3, <1>4, Neighbours
<1>. HIDE DEF supplied
<1>6. /\ requests[Nil] = demand /\ shipments[Nil] = supplied
      /\ \A p \in Players : /\ requests[p] = r.round_orders[p]
                            /\ shipments[p] = r.send_orders[p]
  BY RoundStateFields, PlayersAssumption DEF OrderBooks, Stations
<1>. HIDE DEF requests, shipments
<1>7. \A s \in Stations : requests[s] \in Int /\ shipments[s] \in Int
  BY <1>3, <1>4, <1>5, <1>6 DEF Stations
<1>8. ASSUME NEW p \in Players PROVE QueuesAre(p, users[p], FALSE)
  <2>. DEFINE us == r.users_states[p]
              request  == requests[get_recipient(p)]
              shipment == shipments[get_sender(p)]
  <2>1. request \in Int /\ shipment \in Int  BY <1>7, Neighbours
  <2>2. us \in UserStates  BY RoundStateFields
  <2>3. us.incoming_orders \in Seq(Int) /\ us.requested_orders \in Seq(Int)
    BY <2>2 DEF UserStates
  <2>4. users[p] = Receive(us, request, shipment)  OBVIOUS
  <2>. HIDE DEF request, shipment
  <2>5. /\ Receive(us, request, shipment).incoming_orders = Deliver(us.incoming_orders, shipment)
        /\ Receive(us, request, shipment).requested_orders = Deliver(us.requested_orders, request)
    BY <2>2 DEF Receive, UserStates
  <2>6. QueuesAre(p, us, TRUE)  BY DEF CopySound
  <2>. QED BY <2>1, <2>3, <2>4, <2>5, <2>6, StartQueues, PushedQueue DEF QueuesAre
<1>. HIDE DEF users, done
<1>9. \A p \in Players : (p \in Recorded(done) /\ ~Delivered(done)) = FALSE
  BY <1>2
<1>10. CopySound(done)
  BY <1>1, <1>2, <1>4, <1>6, <1>8, <1>9, OrdersAssumption DEF CopySound
<1>. QED BY <1>10 DEF done

LEMMA ClearRoundSound ==
  ASSUME NEW r \in RoundStates, Delivered(r), CopySound(r)
  PROVE  CopySound(ClearRound(r))
<1>. DEFINE done == ClearRound(r)
<1>1. /\ done.send_orders = NoOrders /\ done.round_orders = NoOrders
      /\ done.players_finished = 0 /\ done.users_states = r.users_states
  BY DEF ClearRound, RoundStates
<1>2. Recorded(done) = {}  BY ClearRoundCounts
<1>. HIDE DEF done
<1>3. \A p \in Players : QueuesAre(p, done.users_states[p], FALSE)
  BY <1>1 DEF CopySound
<1>4. CopySound(done)
  BY <1>1, <1>2, <1>3, FS_EmptySet DEF CopySound, NoOrders, Stations
<1>. QED BY <1>4 DEF done

\* What an event may give does not lie in a queue.
LEMMA ApplyActionSound ==
  ASSUME NEW r \in RoundStates, NEW action \in EventActions(Settings),
         NEW targets \in SUBSET Players, CopySound(r)
  PROVE  CopySound(ApplyAction(r, action, targets))
<1>. DEFINE done == ApplyAction(r, action, targets)
<1>1. /\ done.round_orders = r.round_orders /\ done.send_orders = r.send_orders
      /\ done.players_finished = r.players_finished
  BY ApplyActionCounts
<1>2. ASSUME NEW p \in Players
      PROVE  /\ done.users_states[p].incoming_orders = r.users_states[p].incoming_orders
             /\ done.users_states[p].requested_orders = r.users_states[p].requested_orders
  <2>1. CASE action.type = "ShowMessage"  BY <2>1 DEF ApplyAction
  <2>2. CASE action.type = "ChangeSettings"  BY <2>2 DEF ApplyAction, RoundStates
  <2>3. CASE action.type = "AddResource"
    <3>1. action.resource \in Resources  BY <2>3 DEF EventActions
    <3>. DEFINE us    == r.users_states[p]
                given == IF action.target = "EventTarget" THEN targets ELSE Players
                more  == GrantResource(us, action.resource, action.value)
    <3>2. us \in UserStates  BY RoundStateFields
    <3>3. more.incoming_orders = us.incoming_orders
          /\ more.requested_orders = us.requested_orders
      BY <3>1, <3>2 DEF GrantResource, UserStates, Resources
    <3>4. done.users_states[p] = IF p \in given THEN more ELSE us
      BY <2>3 DEF ApplyAction, RoundStates
    <3>. HIDE DEF more, done
    <3>. QED BY <3>3, <3>4
  <2>. QED BY <2>1, <2>2, <2>3 DEF EventActions
<1>. HIDE DEF done
<1>3. Recorded(done) = Recorded(r) /\ (Delivered(done) <=> Delivered(r))
  BY <1>1 DEF Recorded, Delivered
<1>4. \A p \in Players : (p \in Recorded(done) /\ ~Delivered(done)) = (p \in Recorded(r) /\ ~Delivered(r))
  BY <1>3
<1>5. CopySound(done)
  BY <1>1, <1>2, <1>3, <1>4 DEF CopySound, QueuesAre
<1>. QED BY <1>5 DEF done

-----------------------------------------------------------------------------
(***************************************************************************)
(* The barrier.  A client is in `waiting` from its Ack to the next         *)
(* RoundStart, so an order that is being handled after its Ack is not on   *)
(* record yet, and a clone that is worked on was taken in this round: what *)
(* is on record in it was saved in this round.  The task that counts all   *)
(* players therefore finds all of them saved, hence waiting, and is alone. *)
(***************************************************************************)
OpenCopy(p) ==
  /\ ~Delivered(snap[p]) /\ ~Delivered(rs)
  /\ Recorded(snap[p]) \subseteq saved
  /\ snap[p].round = rs.round

Phase(p) ==
  /\ pc[p] = "cloned" => p \notin waiting /\ OpenCopy(p)
  /\ pc[p] = "acked"  => p \in waiting /\ p \notin saved /\ OpenCopy(p)
  /\ pc[p] \in Closing =>
       /\ waiting = Players /\ \A q \in Players \ {p} : pc[q] = "idle"
       /\ Recorded(snap[p]) = Players /\ snap[p].round = rs.round
  /\ pc[p] = "finishing" =>
       ~Delivered(snap[p]) /\ ~Delivered(rs) /\ Recorded(rs) = Players
  /\ pc[p] \in {"settled", "persisted", "events"} => Delivered(snap[p]) /\ Delivered(rs)
  /\ pc[p] = "announcing" => Delivered(snap[p]) /\ ~Delivered(rs) /\ saved = {}

RoundInv ==
  /\ saved \subseteq waiting
  /\ \A p \in Players : Phase(p)
  /\ ~Delivered(rs) => Recorded(rs) \subseteq saved
  /\ Delivered(rs)  => waiting = Players /\ saved = {}
  /\ over => Delivered(rs) /\ \A p \in Players : pc[p] = "idle"

CopyInv == CopySound(rs) /\ \A p \in Players : pc[p] # "idle" => CopySound(snap[p])

LEMMA CopyInvMeaning == CopyInv => FinishedCountsOrders /\ PipelineIsStack
BY DEF CopyInv, CopySound, QueuesAre, FinishedCountsOrders, PipelineIsStack, Copies

LEMMA AloneMeaning == RoundInv => SingleFinisher
BY DEF RoundInv, Phase, SingleFinisher

LEMMA InitRound == Init => RoundInv /\ CopyInv
<1>. SUFFICES ASSUME Init PROVE RoundInv /\ CopyInv
  OBVIOUS
<1>1. /\ rs.round_orders = NoOrders /\ rs.send_orders = NoOrders
      /\ rs.players_finished = 0 /\ rs.users_states = InitialUserStates
  BY DEF Init
<1>2. Recorded(rs) = {} /\ ~Delivered(rs)
  BY <1>1 DEF Recorded, Delivered, NoOrders, Stations
<1>3. \A p \in Players : pc[p] = "idle"  BY DEF Init
<1>4. saved = {} /\ over = FALSE  BY DEF Init
<1>5. \A p \in Players : Phase(p)  BY <1>3 DEF Phase, Closing
<1>6. \A p \in Players : QueuesAre(p, rs.users_states[p], FALSE)
  <2>. SUFFICES ASSUME NEW p \in Players
                PROVE  QueuesAre(p, rs.users_states[p], FALSE)
    OBVIOUS
  <2>1. /\ IncomingStart[InitialClasses[p]] \in Seq(Int)
        /\ RequestedStart[InitialClasses[p]] \in Seq(Int)
    BY ClassesAssumption, StartAssumption
  <2>2. /\ rs.users_states[p].incoming_orders = IncomingStart[InitialClasses[p]]
        /\ rs.users_states[p].requested_orders = RequestedStart[InitialClasses[p]]
    BY <1>1 DEF InitialUserStates, InitialUserState
  <2>. QED BY <2>1, <2>2 DEF QueuesAre, QueueIs
<1>7. CopySound(rs)
  BY <1>1, <1>2, <1>6, FS_EmptySet DEF CopySound, NoOrders, Stations
<1>8. CopyInv  BY <1>3, <1>7 DEF CopyInv
<1>. QED BY <1>2, <1>3, <1>4, <1>5, <1>8 DEF RoundInv

\* The end of a task that leaves everything shared as it is.
LEMMA RoundReturn ==
  ASSUME TypeInv, RoundInv, NEW p \in Players, Return(p),
         rs' = rs, waiting' = waiting, saved' = saved, over' = over
  PROVE  RoundInv'
<1>1. \A q \in Players :
        /\ q = p => pc'[q] = "idle"
        /\ q # p => pc'[q] = pc[q] /\ snap'[q] = snap[q]
  BY TypeFacts DEF Return
<1>2. \A q \in Players : Phase(q)'
  BY <1>1 DEF RoundInv, Phase, OpenCopy, Closing
<1>. QED BY <1>1, <1>2 DEF RoundInv

\* A closing task moves on: all others stay idle, the clone keeps the round
\* and what is on record.
LEMMA RoundMove ==
  ASSUME TypeInv, RoundInv, NEW p \in Players, pc[p] \in Closing,
         pc' = [pc EXCEPT ![p] = pc'[p]], Phase(p)',
         waiting' = waiting, saved' \subseteq saved, over' = over,
         ~Delivered(rs') => Recorded(rs') \subseteq saved',
         Delivered(rs') => saved' = {}
  PROVE  RoundInv'
<1>1. waiting = Players /\ \A q \in Players \ {p} : pc[q] = "idle"
  BY DEF RoundInv, Phase
<1>2. \A q \in Players \ {p} : pc'[q] = "idle"
  BY <1>1, TypeFacts
<1>3. \A q \in Players \ {p} : Phase(q)'
  BY <1>2 DEF Phase, Closing
<1>4. ~over  BY TypeFacts DEF RoundInv, Closing
<1>. QED BY <1>1, <1>3, <1>4, TypeFacts DEF RoundInv

LEMMA NextRoundInv ==
  Impatient = {} /\ TypeInv /\ RoundInv /\ CopyInv /\ [Next]_vars => RoundInv'
<1>. SUFFICES ASSUME Impatient = {}, TypeInv, RoundInv, CopyInv, [Next]_vars
              PROVE  RoundInv'
  OBVIOUS
<1>. USE TypeFacts
<1>0. /\ saved \subseteq waiting /\ \A p \in Players : Phase(p)
      /\ ~Delivered(rs) => Recorded(rs) \subseteq saved
      /\ Delivered(rs)  => waiting = Players /\ saved = {}
      /\ over => Delivered(rs) /\ \A p \in Players : pc[p] = "idle"
  BY DEF RoundInv
<1>1. ASSUME NEW p \in Players, NEW o \in Messages, ReceiveRoundEnd(p, o)
      PROVE  RoundInv'
  <2>1. /\ p \notin waiting /\ pc' = [pc EXCEPT ![p] = "cloned"]
        /\ snap' = [snap EXCEPT ![p] = rs]
        /\ rs' = rs /\ waiting' = waiting /\ over' = over /\ saved' = saved
    BY <1>1 DEF ReceiveRoundEnd, Goto
  <2>2. ~Delivered(rs) /\ Recorded(rs) \subseteq saved  BY <1>0, <2>1
  <2>3. \A q \in Players : pc[q] \notin Closing  BY <1>0, <2>1 DEF Phase
  <2>4. Phase(p)'  BY <2>1, <2>2 DEF Phase, OpenCopy, Closing
  <2>5. \A q \in Players \ {p} : Phase(q)'
    BY <1>0, <2>1, <2>3 DEF Phase, OpenCopy, Closing
  <2>. QED BY <1>0, <2>1, <2>2, <2>4, <2>5 DEF RoundInv
<1>2. ASSUME NEW p \in Players, RejectOrder(p) PROVE RoundInv'
  BY <1>2, RoundReturn DEF RejectOrder
<1>3. ASSUME NEW p \in Players, AckOrder(p) PROVE RoundInv'
  <2>1. /\ pc[p] = "cloned" /\ pc' = [pc EXCEPT ![p] = "acked"]
        /\ snap' = snap /\ waiting' = waiting \cup {p}
        /\ rs' = rs /\ over' = over /\ saved' = saved
    BY <1>3 DEF AckOrder, Goto
  <2>2. p \notin waiting /\ OpenCopy(p)  BY <1>0, <2>1 DEF Phase
  <2>3. \A q \in Players : pc[q] \notin Closing  BY <1>0, <2>2 DEF Phase
  <2>4. Phase(p)'  BY <1>0, <2>1, <2>2 DEF Phase, OpenCopy, Closing
  <2>5. \A q \in Players \ {p} : Phase(q)'
    BY <1>0, <2>1, <2>3 DEF Phase, OpenCopy, Closing
  <2>6. ~Delivered(rs)  BY <2>2 DEF OpenCopy
  <2>. QED BY <1>0, <2>1, <2>4, <2>5, <2>6 DEF RoundInv
<1>4. ASSUME NEW p \in Players, FailOrder(p) PROVE RoundInv'
  BY <1>4, RoundReturn DEF FailOrder
<1>5. ASSUME NEW p \in Players, SaveOrder(p) PROVE RoundInv'
  <2>. DEFINE done == RecordOrder(snap[p], p, order[p])
  <2>1. /\ pc[p] = "acked" /\ rs' = done /\ saved' = saved \cup {p}
        /\ waiting' = waiting /\ over' = over
    BY <1>5 DEF SaveOrder
  <2>2. p \in waiting /\ p \notin saved /\ OpenCopy(p)  BY <1>0, <2>1 DEF Phase
  <2>3. /\ done.round = rs.round /\ ~Delivered(done)
        /\ Recorded(done) = Recorded(snap[p]) \cup {p}
        /\ done.players_finished = snap[p].players_finished + 1
    BY <2>1, <2>2, RecordOrderCounts DEF OpenCopy
  <2>4. Recorded(done) \subseteq saved'  BY <2>1, <2>2, <2>3 DEF OpenCopy
  <2>5. ~over  BY <1>0, <2>1
  <2>6. \A q \in Players : pc[q] \notin Closing
    BY <1>0, <2>1 DEF Phase, Closing
  <2>7. CASE done.players_finished = Cardinality(Players)
    <3>1. pc' = [pc EXCEPT ![p] = "finishing"] /\ snap' = [snap EXCEPT ![p] = done]
      BY <1>5, <2>7 DEF SaveOrder, Goto
    <3>2. Recorded(done) = Players
      <4>1. snap[p].players_finished = Cardinality(Recorded(snap[p]))
        BY <2>1 DEF CopyInv, CopySound
      <4>2. /\ Recorded(snap[p]) \subseteq Players /\ IsFiniteSet(Players)
            /\ p \notin Recorded(snap[p])
        BY <2>2, PlayersAssumption DEF Recorded, OpenCopy
      <4>3. IsFiniteSet(Recorded(snap[p]))  BY <4>2, FS_Subset
      <4>4. Cardinality(Recorded(done)) = Cardinality(Recorded(snap[p])) + 1
        BY <2>3, <4>2, <4>3, FS_AddElement
      <4>5. Cardinality(Recorded(done)) = Cardinality(Players)
        BY <2>3, <2>7, <4>1, <4>4
      <4>6. Recorded(done) \subseteq Players  BY <2>3, <4>2
      <4>. QED BY <4>2, <4>5, <4>6, FS_Subset
    <3>3. saved' = Players /\ waiting = Players
      BY <1>0, <2>1, <2>2, <2>4, <3>2
    <3>4. \A q \in Players \ {p} : pc[q] = "idle"
      <4>1. \A q \in Players \ {p} : q \in saved  BY <2>1, <3>3
      <4>. QED BY <1>0, <2>6, <3>3, <4>1 DEF Phase, Labels, Closing
    <3>. HIDE DEF done
    <3>5. pc'[p] = "finishing" /\ snap'[p] = done
          /\ \A q \in Players \ {p} : pc'[q] = "idle"
      BY <3>1, <3>4
    <3>6. \A q \in Players : Phase(q)'
      BY <2>1, <2>3, <3>2, <3>3, <3>5 DEF Phase, Closing
    <3>. QED BY <2>1, <2>3, <2>4, <2>5, <3>3, <3>6 DEF RoundInv
  <2>8. CASE done.players_finished # Cardinality(Players)
    <3>1. Return(p)  BY <1>5, <2>8 DEF SaveOrder
    <3>2. \A q \in Players :
            /\ q = p => pc'[q] = "idle"
            /\ q # p => pc'[q] = pc[q] /\ snap'[q] = snap[q]
      BY <3>1 DEF Return
    <3>. HIDE DEF done
    <3>3. \A q \in Players : Phase(q)'
      BY <1>0, <2>1, <2>2, <2>3, <2>6, <3>2 DEF Phase, OpenCopy, Closing
    <3>. QED BY <1>0, <2>1, <2>2, <2>3, <2>4, <2>5, <3>3 DEF RoundInv
  <2>. QED BY <2>7, <2>8
<1>6. ASSUME NEW p \in Players, FinishRound(p) PROVE RoundInv'
  <2>. DEFINE done == CloseBooks(snap[p])
  <2>1. /\ pc[p] = "finishing" /\ pc' = [pc EXCEPT ![p] = "settled"]
        /\ rs' = done /\ snap' = [snap EXCEPT ![p] = rs']
        /\ saved' = {} /\ waiting' = waiting /\ over' = over
    BY <1>6 DEF FinishRound, Goto
  <2>2. Delivered(done) /\ Recorded(done) = Recorded(snap[p])
    BY <2>1, CloseBooksCounts
  <2>3. pc[p] \in Closing /\ waiting = Players /\ Recorded(snap[p]) = Players
        /\ \A q \in Players \ {p} : pc[q] = "idle"
    BY <1>0, <2>1 DEF Phase, Closing
  <2>. HIDE DEF done
  <2>4. pc'[p] = "settled" /\ snap'[p] = done
        /\ \A q \in Players \ {p} : pc'[q] = "idle"
    BY <2>1, <2>3
  <2>5. Phase(p)'  BY <2>1, <2>2, <2>3, <2>4 DEF Phase, Closing
  <2>. QED BY <2>1, <2>2, <2>3, <2>4, <2>5, RoundMove
<1>7. ASSUME NEW p \in Players, FinishRoundFails(p) PROVE RoundInv'
  BY <1>7, RoundReturn DEF FinishRoundFails
<1>8. ASSUME NEW p \in Players, PersistRound(p) PROVE RoundInv'
  <2>1. /\ pc[p] = "settled" /\ pc' = [pc EXCEPT ![p] = "persisted"]
        /\ rs' = rs /\ snap' = snap /\ saved' = saved /\ waiting' = waiting /\ over' = over
    BY <1>8 DEF PersistRound, Goto
  <2>2. Phase(p)'  BY <1>0, <2>1 DEF Phase, Closing
  <2>. QED BY <1>0, <2>1, <2>2, RoundMove DEF Closing
<1>9. ASSUME NEW p \in Players, FinishGame(p) PROVE RoundInv'
  <2>1. /\ pc[p] = "persisted" /\ over' = TRUE /\ Return(p)
        /\ rs' = rs /\ saved' = saved /\ waiting' = waiting
    BY <1>9 DEF FinishGame
  <2>2. Delivered(rs) /\ \A q \in Players \ {p} : pc[q] = "idle"
    BY <1>0, <2>1 DEF Phase, Closing
  <2>3. \A q \in Players : pc'[q] = "idle"  BY <2>1, <2>2 DEF Return
  <2>4. \A q \in Players : Phase(q)'  BY <2>3 DEF Phase, Closing
  <2>. QED BY <1>0, <2>1, <2>2, <2>3, <2>4 DEF RoundInv
<1>10. ASSUME NEW p \in Players, ProcessEvents(p) PROVE RoundInv'
  <2>1. /\ pc[p] = "persisted" /\ pc' = [pc EXCEPT ![p] = "events"]
        /\ rs' = rs /\ snap' = snap /\ saved' = saved /\ waiting' = waiting /\ over' = over
    BY <1>10 DEF ProcessEvents, Goto
  <2>2. Phase(p)'  BY <1>0, <2>1 DEF Phase, Closing
  <2>. QED BY <1>0, <2>1, <2>2, RoundMove DEF Closing
<1>11. ASSUME NEW p \in Players, EvaluateEvent(p) PROVE RoundInv'
  <2>1. /\ rs' = rs /\ snap' = snap /\ saved' = saved /\ waiting' = waiting
        /\ over' = over /\ pc' = pc
    BY <1>11 DEF EvaluateEvent
  <2>2. \A q \in Players : Phase(q)'  BY <1>0, <2>1 DEF Phase, OpenCopy
  <2>. QED BY <1>0, <2>1, <2>2 DEF RoundInv
<1>12. ASSUME NEW p \in Players, ExecuteAction(p) PROVE RoundInv'
  <2>. DEFINE action == Head(agenda[p].actions)
              new    == ApplyAction(snap[p], action, agenda[p].targets)
  <2>1. /\ agenda[p].actions \in Seq(EventActions(Settings)) /\ agenda[p].actions # <<>>
        /\ snap[p] \in RoundStates
    BY <1>12 DEF ExecuteAction, Agendas
  <2>2. action \in EventActions(Settings)  BY <2>1
  <2>3. new.round = snap[p].round /\ new.round_orders = snap[p].round_orders
    BY <2>1, <2>2, ApplyActionCounts
  <2>4. /\ pc[p] = "events" /\ pc' = pc /\ snap' = [snap EXCEPT ![p] = new]
        /\ rs' = rs /\ saved' = saved /\ waiting' = waiting /\ over' = over
    BY <1>12 DEF ExecuteAction
  <2>. HIDE DEF new
  <2>5. snap'[p] = new  BY <2>4
  <2>6. Recorded(new) = Recorded(snap[p]) /\ (Delivered(new) <=> Delivered(snap[p]))
    BY <2>3 DEF Recorded, Delivered
  <2>7. Phase(p)'  BY <1>0, <2>3, <2>4, <2>5, <2>6 DEF Phase, Closing
  <2>. QED BY <1>0, <2>4, <2>7, RoundMove DEF Closing
<1>13. ASSUME NEW p \in Players, NewRound(p) PROVE RoundInv'
  <2>. DEFINE done == ClearRound(snap[p])
  <2>1. /\ pc[p] = "events" /\ pc' = [pc EXCEPT ![p] = "announcing"]
        /\ rs' = done /\ snap' = snap
        /\ saved' = saved /\ waiting' = waiting /\ over' = over
    BY <1>13 DEF NewRound, Goto
  <2>2. done.round = snap[p].round /\ Recorded(done) = {} /\ ~Delivered(done)
    BY <2>1, ClearRoundCounts
  <2>3. saved = {} /\ Delivered(rs)  BY <1>0, <2>1 DEF Phase
  <2>. HIDE DEF done
  <2>4. Phase(p)'  BY <1>0, <2>1, <2>2, <2>3 DEF Phase, Closing
  <2>. QED BY <1>0, <2>1, <2>2, <2>4, RoundMove DEF Closing
<1>14. ASSUME NEW p \in Players, AnnounceRound(p) PROVE RoundInv'
  <2>1. /\ pc[p] = "announcing" /\ waiting' = {} /\ Return(p)
        /\ rs' = rs /\ saved' = saved /\ over' = over
    BY <1>14 DEF AnnounceRound
  <2>2. /\ saved = {} /\ ~Delivered(rs) /\ \A q \in Players \ {p} : pc[q] = "idle"
    BY <1>0, <2>1 DEF Phase, Closing
  <2>3. \A q \in Players : pc'[q] = "idle"  BY <2>1, <2>2 DEF Return
  <2>4. \A q \in Players : Phase(q)'  BY <2>3 DEF Phase, Closing
  <2>. QED BY <1>0, <2>1, <2>2, <2>4 DEF RoundInv
<1>15. ASSUME NEW p \in Players, Interrupt(p) PROVE RoundInv'
  BY <1>15, RoundReturn DEF Interrupt
<1>16. ASSUME NEW p \in Players, NEW classes \in ClassMaps, UpdateClasses(p, classes)
       PROVE  RoundInv'
  <2>1. /\ rs'.round_orders = rs.round_orders /\ rs'.round = rs.round
        /\ snap' = snap /\ saved' = saved /\ waiting' = waiting
        /\ over' = over /\ pc' = pc
    BY <1>16 DEF UpdateClasses, RoundStates
  <2>2. Recorded(rs') = Recorded(rs) /\ (Delivered(rs') <=> Delivered(rs))
    BY <2>1 DEF Recorded, Delivered
  <2>3. \A q \in Players : Phase(q)'
    BY <1>0, <2>1, <2>2 DEF Phase, OpenCopy
  <2>. QED BY <1>0, <2>1, <2>2, <2>3 DEF RoundInv
<1>17. ASSUME NEW settings \in SettingsUpdates, UpdateSettings(settings)
       PROVE  RoundInv'
  <2>1. /\ rs' = rs /\ snap' = snap /\ saved' = saved /\ waiting' = waiting
        /\ over' = over /\ pc' = pc
    BY <1>17 DEF UpdateSettings
  <2>2. \A q \in Players : Phase(q)'  BY <1>0, <2>1 DEF Phase, OpenCopy
  <2>. QED BY <1>0, <2>1, <2>2 DEF RoundInv
<1>18. CASE UNCHANGED vars
  <2>1. \A q \in Players : Phase(q)'  BY <1>0, <1>18 DEF vars, Phase, OpenCopy
  <2>. QED BY <1>0, <1>18, <2>1 DEF vars, RoundInv
<1>. QED
  BY <1>1, <1>2, <1>3, <1>4, <1>5, <1>6, <1>7, <1>8, <1>9, <1>10, <1>11, <1>12,
     <1>13, <1>14, <1>15, <1>16, <1>17, <1>18 DEF Next, HandlerStep

-----------------------------------------------------------------------------
(* Every copy is sound: a task drops its clone, or puts a sound one in the *)
(* place of it, of the shared state, or of both.                           *)

LEMMA CopyReturn ==
  ASSUME TypeInv, CopyInv, NEW p \in Players, Return(p), CopySound(rs')
  PROVE  CopyInv'
<1>1. \A q \in Players : pc'[q] # "idle" => pc[q] # "idle" /\ snap'[q] = snap[q]
  BY TypeFacts DEF Return
<1>. QED BY <1>1 DEF CopyInv

LEMMA CopyMove ==
  ASSUME CopyInv, NEW p \in Players,
         \A q \in Players \ {p} : pc'[q] = pc[q] /\ snap'[q] = snap[q],
         CopySound(snap'[p]), CopySound(rs')
  PROVE  CopyInv'
BY DEF CopyInv

LEMMA NextCopyInv == TypeInv /\ RoundInv /\ CopyInv /\ [Next]_vars => CopyInv'
<1>. SUFFICES ASSUME TypeInv, RoundInv, CopyInv, [Next]_vars PROVE CopyInv'
  OBVIOUS
<1>. USE TypeFacts
<1>0. /\ CopySound(rs)
      /\ \A p \in Players : (pc[p] # "idle" => CopySound(snap[p])) /\ Phase(p)
  BY DEF CopyInv, RoundInv
<1>1. ASSUME NEW p \in Players, NEW o \in Messages, ReceiveRoundEnd(p, o)
      PROVE  CopyInv'
  BY <1>0, <1>1, CopyMove DEF ReceiveRoundEnd, Goto
<1>2. ASSUME NEW p \in Players, RejectOrder(p) PROVE CopyInv'
  BY <1>0, <1>2, CopyReturn DEF RejectOrder
<1>3. ASSUME NEW p \in Players, AckOrder(p) PROVE CopyInv'
  BY <1>0, <1>3, CopyMove DEF AckOrder, Goto
<1>4. ASSUME NEW p \in Players, FailOrder(p) PROVE CopyInv'
  BY <1>0, <1>4, CopyReturn DEF FailOrder
<1>5. ASSUME NEW p \in Players, SaveOrder(p) PROVE CopyInv'
  <2>. DEFINE done == RecordOrder(snap[p], p, order[p])
  <2>1. pc[p] = "acked" /\ QueuesReady(snap[p].users_states[p]) /\ rs' = done
    BY <1>5 DEF SaveOrder
  <2>2. p \notin Recorded(snap[p]) /\ ~Delivered(snap[p])
    BY <1>0, <2>1 DEF Phase, OpenCopy
  <2>3. CopySound(done)  BY <1>0, <2>1, <2>2, RecordOrderSound
  <2>4. CASE done.players_finished = Cardinality(Players)
    <3>1. Goto(p, "finishing") /\ snap' = [snap EXCEPT ![p] = done]
      BY <1>5, <2>4 DEF SaveOrder
    <3>. HIDE DEF done
    <3>. QED BY <1>0, <2>1, <2>3, <3>1, CopyMove DEF Goto
  <2>5. CASE done.players_finished # Cardinality(Players)
    <3>1. Return(p)  BY <1>5, <2>5 DEF SaveOrder
    <3>. HIDE DEF done
    <3>. QED BY <2>1, <2>3, <3>1, CopyReturn
  <2>. QED BY <2>4, <2>5
<1>6. ASSUME NEW p \in Players, FinishRound(p) PROVE CopyInv'
  <2>1. pc[p] = "finishing" /\ rs' = CloseBooks(snap[p])  BY <1>6 DEF FinishRound
  <2>2. Recorded(snap[p]) = Players /\ ~Delivered(snap[p])
    BY <1>0, <2>1 DEF Phase, Closing
  <2>3. CopySound(rs')  BY <1>0, <2>1, <2>2, CloseBooksSound
  <2>. QED BY <1>0, <1>6, <2>3, CopyMove DEF FinishRound, Goto
<1>7. ASSUME NEW p \in Players, FinishRoundFails(p) PROVE CopyInv'
  BY <1>0, <1>7, CopyReturn DEF FinishRoundFails
<1>8. ASSUME NEW p \in Players, PersistRound(p) PROVE CopyInv'
  BY <1>0, <1>8, CopyMove DEF PersistRound, Goto
<1>9. ASSUME NEW p \in Players, FinishGame(p) PROVE CopyInv'
  BY <1>0, <1>9, CopyReturn DEF FinishGame
<1>10. ASSUME NEW p \in Players, ProcessEvents(p) PROVE CopyInv'
  BY <1>0, <1>10, CopyMove DEF ProcessEvents, Goto
<1>11. ASSUME NEW p \in Players, EvaluateEvent(p) PROVE CopyInv'
  BY <1>0, <1>11, CopyMove DEF EvaluateEvent
<1>12. ASSUME NEW p \in Players, ExecuteAction(p) PROVE CopyInv'
  <2>. DEFINE action == Head(agenda[p].actions)
              new    == ApplyAction(snap[p], action, agenda[p].targets)
  <2>1. /\ agenda[p].actions \in Seq(EventActions(Settings)) /\ agenda[p].actions # <<>>
        /\ agenda[p].targets \in SUBSET Players /\ snap[p] \in RoundStates
        /\ CopySound(snap[p])
    BY <1>0, <1>12 DEF ExecuteAction, Agendas
  <2>2. action \in EventActions(Settings)  BY <2>1
  <2>3. CopySound(new)  BY <2>1, <2>2, ApplyActionSound
  <2>4. snap' = [snap EXCEPT ![p] = new] /\ rs' = rs /\ pc' = pc
    BY <1>12 DEF ExecuteAction
  <2>. HIDE DEF new
  <2>. QED BY <1>0, <2>3, <2>4, CopyMove
<1>13. ASSUME NEW p \in Players, NewRound(p) PROVE CopyInv'
  <2>1. pc[p] = "events" /\ rs' = ClearRound(snap[p])  BY <1>13 DEF NewRound
  <2>2. Delivered(snap[p])  BY <1>0, <2>1 DEF Phase
  <2>3. CopySound(rs')  BY <1>0, <2>1, <2>2, ClearRoundSound
  <2>. QED BY <1>0, <1>13, <2>3, CopyMove DEF NewRound, Goto
<1>14. ASSUME NEW p \in Players, AnnounceRound(p) PROVE CopyInv'
  BY <1>0, <1>14, CopyReturn DEF AnnounceRound
<1>15. ASSUME NEW p \in Players, Interrupt(p) PROVE CopyInv'
  BY <1>0, <1>15, CopyReturn DEF Interrupt
<1>16. ASSUME NEW p \in Players, NEW classes \in ClassMaps, UpdateClasses(p, classes)
       PROVE  CopyInv'
  <2>1. /\ rs'.users_states = rs.users_states /\ rs'.send_orders = rs.send_orders
        /\ rs'.round_orders = rs.round_orders
        /\ rs'.players_finished = rs.players_finished
    BY <1>16 DEF UpdateClasses, RoundStates
  <2>2. CopySound(rs')  BY <1>0, <2>1 DEF CopySound, Recorded, Delivered
  <2>. QED BY <1>0, <1>16, <2>2 DEF UpdateClasses, CopyInv
<1>17. ASSUME NEW settings \in SettingsUpdates, UpdateSettings(settings)
       PROVE  CopyInv'
  BY <1>0, <1>17 DEF UpdateSettings, CopyInv
<1>18. CASE UNCHANGED vars
  BY <1>18 DEF vars, CopyInv
<1>. QED
  BY <1>1, <1>2, <1>3, <1>4, <1>5, <1>6, <1>7, <1>8, <1>9, <1>10, <1>11, <1>12,
     <1>13, <1>14, <1>15, <1>16, <1>17, <1>18 DEF Next, HandlerStep

\* What all steps of a patient game keep.
BarrierInv == TypeInv /\ RoundInv /\ CopyInv

LEMMA BarrierInvariant == Impatient = {} => (Spec => []BarrierInv)
<1>. SUFFICES ASSUME Impatient = {} PROVE Spec => []BarrierInv
  OBVIOUS
<1>1. Init => BarrierInv  BY InitTypeInv, InitRound DEF BarrierInv
<1>2. BarrierInv /\ [Next]_vars => BarrierInv'
  BY NextTypeInv, NextRoundInv, NextCopyInv DEF BarrierInv
<1>. QED BY <1>1, <1>2, PTL DEF Spec

\* If no client sends again before he saw the next RoundStart, the counter
\* that closes the round is the number of orders on record, in the shared
\* state and in every clone, whatever the tasks write over each other.
THEOREM CounterIsExact == Impatient = {} => (Spec => []FinishedCountsOrders)
<1>1. BarrierInv => FinishedCountsOrders  BY CopyInvMeaning DEF BarrierInv
<1>. QED BY <1>1, BarrierInvariant, PTL

\* Then one task closes the round, and while it works on the result no other
\* handles an order that could be written over it.
THEOREM OneTaskCloses == Impatient = {} => (Spec => []SingleFinisher)
<1>1. BarrierInv => SingleFinisher  BY AloneMeaning DEF BarrierInv
<1>. QED BY <1>1, BarrierInvariant, PTL

\* And the pipeline of every player stays as deep as it was at the start: the
\* newest entry of each queue is replaced once a round, the rest never moves.
THEOREM PipelineNeverDrains == Impatient = {} => (Spec => []PipelineIsStack)
<1>1. BarrierInv => PipelineIsStack  BY CopyInvMeaning DEF BarrierInv
<1>. QED BY <1>1, BarrierInvariant, PTL

-----------------------------------------------------------------------------
(* The end of the game.                                                    *)

\* When GameEnd is out every client waits for a RoundStart that nobody is
\* left to send: of all steps, only the updates are possible.
LEMMA GameEndStep ==
  ASSUME BarrierInv, [Next]_vars, over
  PROVE  rs'.users_states = rs.users_states
<1>. USE TypeFacts DEF BarrierInv
<1>1. waiting = Players /\ \A p \in Players : pc[p] = "idle"
  BY DEF RoundInv
<1>2. ASSUME NEW p \in Players, HandlerStep(p) PROVE FALSE
  <2>1. pc[p] = "idle"  BY <1>1
  <2>. QED
    BY <1>2, <2>1 DEF HandlerStep, RejectOrder, AckOrder, FailOrder, SaveOrder,
       FinishRound, FinishRoundFails, PersistRound, FinishGame, ProcessEvents,
       EvaluateEvent, ExecuteAction, NewRound, AnnounceRound
<1>3. ASSUME NEW p \in Players, NEW o \in Messages, ReceiveRoundEnd(p, o)
      PROVE  rs'.users_states = rs.users_states
  BY <1>3 DEF ReceiveRoundEnd
<1>4. ASSUME NEW p \in Players, Interrupt(p)
      PROVE  rs'.users_states = rs.users_states
  BY <1>4 DEF Interrupt
<1>5. ASSUME NEW p \in Players, NEW classes \in ClassMaps, UpdateClasses(p, classes)
      PROVE  rs'.users_states = rs.users_states
  BY <1>5 DEF UpdateClasses, RoundStates
<1>6. ASSUME NEW settings \in SettingsUpdates, UpdateSettings(settings)
      PROVE  rs'.users_states = rs.users_states
  BY <1>6 DEF UpdateSettings
<1>7. CASE UNCHANGED vars  BY <1>7 DEF vars
<1>. QED BY <1>2, <1>3, <1>4, <1>5, <1>6, <1>7 DEF Next

\* After GameEnd no player's books change any more.
THEOREM EndIsFinal == Impatient = {} => (Spec => GameEndIsFinal)
<1>1. BarrierInv /\ [Next]_vars => [over => rs'.users_states = rs.users_states]_vars
  BY GameEndStep
<1>. QED BY <1>1, BarrierInvariant, PTL DEF Spec, GameEndIsFinal

-----------------------------------------------------------------------------
(***************************************************************************)
(* The stored rows and the round in memory.  A round that is still open is *)
(* the last one stored.  From the close of its books to the row the stored *)
(* rows are one behind, and a task that is cut off there leaves them so    *)
(* for good.                                                               *)
(***************************************************************************)
Stored == {"persisted", "events", "announcing"}

RowsInv ==
  /\ \A i \in DOMAIN game_states : game_states[i].round = i - 1
  /\ rs.round \in {Len(game_states) - 1, Len(game_states)}
  /\ ~Delivered(rs) => rs.round = Len(game_states) - 1
  /\ \A p \in Players :
       /\ pc[p] = "settled"  => rs.round = Len(game_states)
       /\ pc[p] \in Stored => rs.round = Len(game_states) - 1

LEMMA RowsInvMeaning == RoundInv /\ RowsInv => RowsMatchRounds
<1>. SUFFICES ASSUME RoundInv, RowsInv PROVE RowsMatchRounds
  OBVIOUS
<1>1. \A p \in Players : pc[p] = "events" => snap[p].round = rs.round
  BY DEF RoundInv, Phase, Closing
<1>. QED BY <1>1 DEF RowsInv, RowsMatchRounds, Stored

LEMMA RowsQuiet ==
  ASSUME RowsInv, game_states' = game_states, rs'.round = rs.round,
         Delivered(rs') <=> Delivered(rs),
         \A q \in Players :
           /\ pc'[q] = "settled"  => pc[q] = "settled"
           /\ pc'[q] \in Stored => pc[q] \in Stored
  PROVE  RowsInv'
BY DEF RowsInv

\* A task that ends, or works on an order, does not touch them.
LEMMA RowsElsewhere ==
  ASSUME TypeInv, RowsInv, NEW p \in Players, rs' = rs, game_states' = game_states,
         NEW label, pc' = [pc EXCEPT ![p] = label],
         label \notin Stored \cup {"settled"}
  PROVE  RowsInv'
BY RowsQuiet, TypeFacts

\* What an order does to the round of the shared state: nothing.
LEMMA SaveOrderRound ==
  ASSUME TypeInv, RoundInv, NEW p \in Players, SaveOrder(p)
  PROVE  /\ rs'.round = rs.round /\ ~Delivered(rs) /\ ~Delivered(rs')
         /\ \E label \in {"idle", "finishing"} : pc' = [pc EXCEPT ![p] = label]
<1>. DEFINE done == RecordOrder(snap[p], p, order[p])
<1>1. pc[p] = "acked" /\ rs' = done  BY DEF SaveOrder
<1>2. OpenCopy(p)  BY <1>1 DEF RoundInv, Phase
<1>3. done.round = snap[p].round /\ (Delivered(done) <=> Delivered(snap[p]))
  BY <1>1, TypeFacts, RecordOrderCounts
<1>4. \E label \in {"idle", "finishing"} : pc' = [pc EXCEPT ![p] = label]
  BY DEF SaveOrder, Return, Goto
<1>. QED BY <1>1, <1>2, <1>3, <1>4 DEF OpenCopy

LEMMA NextRowsInv == TypeInv /\ RoundInv /\ RowsInv /\ [Next]_vars => RowsInv'
<1>. SUFFICES ASSUME TypeInv, RoundInv, RowsInv, [Next]_vars PROVE RowsInv'
  OBVIOUS
<1>. USE TypeFacts DEF Stored
<1>0. /\ \A i \in DOMAIN game_states : game_states[i].round = i - 1
      /\ rs.round \in {Len(game_states) - 1, Len(game_states)}
      /\ ~Delivered(rs) => rs.round = Len(game_states) - 1
      /\ \A p \in Players :
           /\ pc[p] = "settled"  => rs.round = Len(game_states)
           /\ pc[p] \in Stored => rs.round = Len(game_states) - 1
           /\ Phase(p)
  BY DEF RowsInv, RoundInv
<1>1. ASSUME NEW p \in Players, NEW o \in Messages, ReceiveRoundEnd(p, o)
      PROVE  RowsInv'
  BY <1>1, RowsElsewhere DEF ReceiveRoundEnd, Goto
<1>2. ASSUME NEW p \in Players,
             \/ RejectOrder(p) \/ FailOrder(p) \/ FinishRoundFails(p)
             \/ FinishGame(p) \/ AnnounceRound(p) \/ Interrupt(p)
      PROVE  RowsInv'
  <2>1. Return(p) /\ rs' = rs /\ game_states' = game_states
    BY <1>2 DEF RejectOrder, FailOrder, FinishRoundFails, FinishGame,
                AnnounceRound, Interrupt
  <2>. QED BY <2>1, RowsElsewhere DEF Return
<1>3. ASSUME NEW p \in Players, AckOrder(p) PROVE RowsInv'
  BY <1>3, RowsElsewhere DEF AckOrder, Goto
<1>4. ASSUME NEW p \in Players, SaveOrder(p) PROVE RowsInv'
  <2>1. PICK label \in {"idle", "finishing"} : pc' = [pc EXCEPT ![p] = label]
    BY <1>4, SaveOrderRound
  <2>2. \A q \in Players : pc'[q] \in Stored \cup {"settled"} => pc'[q] = pc[q]
    BY <2>1
  <2>. QED BY <1>4, <2>2, SaveOrderRound, RowsQuiet DEF SaveOrder
<1>5. ASSUME NEW p \in Players, FinishRound(p) PROVE RowsInv'
  <2>1. /\ pc[p] = "finishing" /\ pc' = [pc EXCEPT ![p] = "settled"]
        /\ rs' = CloseBooks(snap[p]) /\ game_states' = game_states
    BY <1>5 DEF FinishRound, Goto
  <2>2. rs'.round = snap[p].round + 1 /\ Delivered(rs')
    BY <2>1, CloseBooksCounts
  <2>3. /\ snap[p].round = rs.round /\ ~Delivered(rs)
        /\ \A q \in Players \ {p} : pc[q] = "idle"
    BY <1>0, <2>1 DEF Phase, Closing
  <2>4. rs'.round = Len(game_states)
    BY <1>0, <2>2, <2>3
  <2>5. \A q \in Players : pc'[q] \notin Stored  BY <2>1, <2>3
  <2>. QED BY <1>0, <2>1, <2>2, <2>4, <2>5 DEF RowsInv
<1>6. ASSUME NEW p \in Players, PersistRound(p) PROVE RowsInv'
  <2>. DEFINE row == [round |-> snap[p].round, users_states |-> snap[p].users_states]
  <2>1. /\ pc[p] = "settled" /\ pc' = [pc EXCEPT ![p] = "persisted"] /\ rs' = rs
        /\ game_states' = Append(game_states, row)
    BY <1>6 DEF PersistRound, Goto
  <2>2. snap[p].round = rs.round /\ Delivered(rs) /\ \A q \in Players \ {p} : pc[q] = "idle"
    BY <1>0, <2>1 DEF Phase, Closing
  <2>3. rs.round = Len(game_states) /\ row.round = Len(game_states)
    BY <1>0, <2>1, <2>2
  <2>. HIDE DEF row
  <2>4. /\ Len(game_states') = Len(game_states) + 1
        /\ \A i \in DOMAIN game_states' : game_states'[i].round = i - 1
    BY <1>0, <2>1, <2>3
  <2>5. \A q \in Players : pc'[q] # "settled"  BY <2>1, <2>2
  <2>. QED BY <2>1, <2>2, <2>3, <2>4, <2>5 DEF RowsInv
<1>7. ASSUME NEW p \in Players, ProcessEvents(p) PROVE RowsInv'
  BY <1>7, RowsQuiet DEF ProcessEvents, Goto
<1>8. ASSUME NEW p \in Players, EvaluateEvent(p) \/ ExecuteAction(p) PROVE RowsInv'
  BY <1>8, RowsQuiet DEF EvaluateEvent, ExecuteAction
<1>9. ASSUME NEW p \in Players, NewRound(p) PROVE RowsInv'
  <2>1. /\ pc[p] = "events" /\ pc' = [pc EXCEPT ![p] = "announcing"]
        /\ rs' = ClearRound(snap[p]) /\ game_states' = game_states
    BY <1>9 DEF NewRound, Goto
  <2>2. rs'.round = snap[p].round /\ ~Delivered(rs')  BY <2>1, ClearRoundCounts
  <2>3. snap[p].round = rs.round /\ \A q \in Players \ {p} : pc[q] = "idle"
    BY <1>0, <2>1 DEF Phase, Closing
  <2>4. \A q \in Players : pc'[q] # "settled"  BY <2>1, <2>3
  <2>. QED BY <1>0, <2>1, <2>2, <2>3, <2>4 DEF RowsInv
<1>10. ASSUME NEW p \in Players, NEW classes \in ClassMaps, UpdateClasses(p, classes)
       PROVE  RowsInv'
  <2>1. rs'.round_orders = rs.round_orders /\ rs'.round = rs.round
    BY <1>10 DEF UpdateClasses, RoundStates
  <2>. QED BY <1>10, <2>1, RowsQuiet DEF UpdateClasses, Delivered
<1>11. ASSUME NEW settings \in SettingsUpdates, UpdateSettings(settings)
       PROVE  RowsInv'
  BY <1>11, RowsQuiet DEF UpdateSettings
<1>12. CASE UNCHANGED vars  BY <1>12, RowsQuiet DEF vars
<1>. QED
  BY <1>1, <1>2, <1>3, <1>4, <1>5, <1>6, <1>7, <1>8, <1>9, <1>10, <1>11, <1>12
     DEF Next, HandlerStep

LEMMA InitRows == Init => RowsInv
<1>. SUFFICES ASSUME Init PROVE RowsInv
  OBVIOUS
<1>1. /\ game_states = <<[round |-> 0, users_states |-> InitialUserStates]>>
      /\ rs.round = 0 /\ \A p \in Players : pc[p] = "idle"
  BY DEF Init
<1>. QED BY <1>1 DEF RowsInv, Stored

\* The rows are those of rounds 0, 1, 2, ... without a gap or a repetition,
\* and an event that compares with the round before always finds its row.
THEOREM RowsFollowRounds == Impatient = {} => (Spec => []RowsMatchRounds)
<1>. SUFFICES ASSUME Impatient = {} PROVE Spec => []RowsMatchRounds
  OBVIOUS
<1>1. BarrierInv /\ RowsInv /\ [Next]_vars => RowsInv'
  BY NextRowsInv DEF BarrierInv
<1>2. BarrierInv /\ RowsInv => RowsMatchRounds
  BY RowsInvMeaning DEF BarrierInv
<1>. QED BY <1>1, <1>2, InitRows, BarrierInvariant, PTL DEF Spec

-----------------------------------------------------------------------------
(***************************************************************************)
(* The last round.  The code asks whether the round is equal to max_rounds,*)
(* once, between the row and the events.  Every round the game starts is   *)
(* below the limit, so it meets the limit before it can pass it, as long   *)
(* as nobody lowers the limit: that is an assumption on the behaviour, not *)
(* on the constants.                                                       *)
(***************************************************************************)
Raised == settings_db'.max_rounds >= settings_db.max_rounds

LimitInv ==
  /\ rs.round <= settings_db.max_rounds
  /\ ~Delivered(rs) => rs.round < settings_db.max_rounds
  /\ \A p \in Players :
       pc[p] \in {"events", "announcing"} => rs.round < settings_db.max_rounds

LEMMA LimitQuiet ==
  ASSUME TypeInv, TypeInv', LimitInv, Raised, rs'.round = rs.round,
         Delivered(rs) => Delivered(rs'),
         \A q \in Players :
           pc'[q] \in {"events", "announcing"} => pc[q] \in {"events", "announcing"}
  PROVE  LimitInv'
<1>1. /\ settings_db.max_rounds \in Int /\ settings_db'.max_rounds \in Int
      /\ rs.round \in Nat
  BY TypeFacts, RoundStateFields DEF TypeInv, TypeOK, Settings
<1>. QED BY <1>1 DEF LimitInv, Raised

LEMMA LimitElsewhere ==
  ASSUME TypeInv, TypeInv', LimitInv, Raised, NEW p \in Players, rs' = rs,
         NEW label, pc' = [pc EXCEPT ![p] = label], label \notin {"events", "announcing"}
  PROVE  LimitInv'
BY LimitQuiet, TypeFacts

LEMMA NextLimitInv ==
  TypeInv /\ TypeInv' /\ RoundInv /\ LimitInv /\ [Next]_vars /\ [Raised]_vars => LimitInv'
<1>. SUFFICES ASSUME TypeInv, TypeInv', RoundInv, LimitInv, [Next]_vars, [Raised]_vars
              PROVE  LimitInv'
  OBVIOUS
<1>1. CASE UNCHANGED vars  BY <1>1 DEF vars, LimitInv
<1>2. CASE Next /\ Raised
  <2>. USE <1>2, TypeFacts
  <2>0. /\ rs.round <= settings_db.max_rounds
        /\ ~Delivered(rs) => rs.round < settings_db.max_rounds
        /\ \A p \in Players :
             /\ pc[p] \in {"events", "announcing"} => rs.round < settings_db.max_rounds
             /\ Phase(p)
        /\ settings_db.max_rounds \in Int /\ settings_db'.max_rounds \in Int
        /\ rs.round \in Nat
    BY RoundStateFields DEF LimitInv, RoundInv, TypeInv, TypeOK, Settings
  <2>1. ASSUME NEW p \in Players, NEW o \in Messages, ReceiveRoundEnd(p, o)
        PROVE  LimitInv'
    BY <2>1, LimitElsewhere DEF ReceiveRoundEnd, Goto
  <2>2. ASSUME NEW p \in Players,
               \/ RejectOrder(p) \/ FailOrder(p) \/ FinishRoundFails(p)
               \/ FinishGame(p) \/ AnnounceRound(p) \/ Interrupt(p)
        PROVE  LimitInv'
    <3>1. Return(p) /\ rs' = rs
      BY <2>2 DEF RejectOrder, FailOrder, FinishRoundFails, FinishGame,
                  AnnounceRound, Interrupt
    <3>2. pc' = [pc EXCEPT ![p] = "idle"]  BY <3>1 DEF Return
    <3>3. "idle" \notin {"events", "announcing"}  OBVIOUS
    <3>. QED BY <3>1, <3>2, <3>3, LimitElsewhere
  <2>3. ASSUME NEW p \in Players, AckOrder(p) \/ PersistRound(p) PROVE LimitInv'
    <3>1. rs' = rs /\ \E label \in {"acked", "persisted"} : pc' = [pc EXCEPT ![p] = label]
      BY <2>3 DEF AckOrder, PersistRound, Goto
    <3>. QED BY <3>1, LimitElsewhere
  <2>4. ASSUME NEW p \in Players, SaveOrder(p) PROVE LimitInv'
    <3>1. PICK label \in {"idle", "finishing"} : pc' = [pc EXCEPT ![p] = label]
      BY <2>4, SaveOrderRound
    <3>2. \A q \in Players : pc'[q] \in {"events", "announcing"} => pc'[q] = pc[q]
      BY <3>1
    <3>. QED BY <2>4, <3>2, SaveOrderRound, LimitQuiet
  <2>5. ASSUME NEW p \in Players, FinishRound(p) PROVE LimitInv'
    <3>1. /\ pc[p] = "finishing" /\ pc' = [pc EXCEPT ![p] = "settled"]
          /\ rs' = CloseBooks(snap[p]) /\ settings_db' = settings_db
      BY <2>5 DEF FinishRound, Goto
    <3>2. rs'.round = snap[p].round + 1 /\ Delivered(rs')
      BY <3>1, CloseBooksCounts
    <3>3. /\ snap[p].round = rs.round /\ ~Delivered(rs)
          /\ \A q \in Players \ {p} : pc[q] = "idle"
      BY <2>0, <3>1 DEF Phase, Closing
    <3>4. rs'.round <= settings_db'.max_rounds
      BY <2>0, <3>1, <3>2, <3>3
    <3>5. \A q \in Players : pc'[q] \notin {"events", "announcing"}  BY <3>1, <3>3
    <3>. QED BY <3>2, <3>4, <3>5 DEF LimitInv
  <2>6. ASSUME NEW p \in Players, ProcessEvents(p) PROVE LimitInv'
    <3>1. /\ pc[p] = "persisted" /\ pc' = [pc EXCEPT ![p] = "events"] /\ rs' = rs
          /\ settings_db' = settings_db /\ snap[p].round # settings_db.max_rounds
      BY <2>6 DEF ProcessEvents, Goto, IsLastRound
    <3>2. /\ snap[p].round = rs.round /\ Delivered(rs)
      BY <2>0, <3>1 DEF Phase, Closing
    <3>3. rs.round < settings_db.max_rounds  BY <2>0, <3>1, <3>2
    <3>. QED BY <2>0, <3>1, <3>2, <3>3 DEF LimitInv
  <2>7. ASSUME NEW p \in Players, EvaluateEvent(p) \/ ExecuteAction(p) PROVE LimitInv'
    BY <2>7, LimitQuiet DEF EvaluateEvent, ExecuteAction
  <2>8. ASSUME NEW p \in Players, NewRound(p) PROVE LimitInv'
    <3>1. /\ pc[p] = "events" /\ pc' = [pc EXCEPT ![p] = "announcing"]
          /\ rs' = ClearRound(snap[p]) /\ settings_db' = settings_db
      BY <2>8 DEF NewRound, Goto
    <3>2. rs'.round = rs.round
      BY <2>0, <3>1, ClearRoundCounts DEF Phase, Closing
    <3>3. rs.round < settings_db.max_rounds  BY <2>0, <3>1
    <3>. QED BY <2>0, <3>1, <3>2, <3>3 DEF LimitInv
  <2>9. ASSUME NEW p \in Players, NEW classes \in ClassMaps, UpdateClasses(p, classes)
        PROVE  LimitInv'
    <3>1. rs'.round_orders = rs.round_orders /\ rs'.round = rs.round
      BY <2>9 DEF UpdateClasses, RoundStates
    <3>. QED BY <2>9, <3>1, LimitQuiet DEF UpdateClasses, Delivered
  <2>10. ASSUME NEW settings \in SettingsUpdates, UpdateSettings(settings)
         PROVE  LimitInv'
    BY <2>10, LimitQuiet DEF UpdateSettings
  <2>. QED
    BY <2>1, <2>2, <2>3, <2>4, <2>5, <2>6, <2>7, <2>8, <2>9, <2>10 DEF Next, HandlerStep
<1>. QED BY <1>1, <1>2

LEMMA InitLimit ==
  (\A s \in SettingsChoices : s.max_rounds >= 1) /\ Init => LimitInv
<1>. SUFFICES ASSUME \A s \in SettingsChoices : s.max_rounds >= 1, Init
              PROVE  LimitInv
  OBVIOUS
<1>1. settings_db \in SettingsChoices /\ rs.round = 0 /\ \A p \in Players : pc[p] = "idle"
  BY DEF Init
<1>2. settings_db.max_rounds >= 1 /\ settings_db.max_rounds \in Int
  BY <1>1, SettingsAssumption DEF Settings
<1>. QED BY <1>1, <1>2 DEF LimitInv

\* A game that starts with at least one round to play, and whose limit neither
\* a request nor an event lowers while it runs, never plays past the limit.
THEOREM RoundsEnd ==
  (Impatient = {} /\ (\A s \in SettingsChoices : s.max_rounds >= 1))
    => (Spec /\ [][Raised]_vars => []NeverPastMaxRounds)
<1>. SUFFICES ASSUME Impatient = {}, \A s \in SettingsChoices : s.max_rounds >= 1
              PROVE  Spec /\ [][Raised]_vars => []NeverPastMaxRounds
  OBVIOUS
<1>1. Init => LimitInv  BY InitLimit
<1>2. BarrierInv /\ BarrierInv' /\ LimitInv /\ [Next]_vars /\ [Raised]_vars => LimitInv'
  BY NextLimitInv DEF BarrierInv
<1>3. LimitInv => NeverPastMaxRounds  BY DEF LimitInv, NeverPastMaxRounds
<1>. QED BY <1>1, <1>2, <1>3, BarrierInvariant, PTL DEF Spec

-----------------------------------------------------------------------------
(***************************************************************************)
(* What can strand a round.  A client whose order was acknowledged has it  *)
(* written back, unless his task is cut off: his queues are not empty, for *)
(* nobody has popped them since the round began.  So as long as no task is *)
(* cut off, either the game is over, or somebody closes the round, or the  *)
(* round collects orders and everybody who waits has placed his.           *)
(***************************************************************************)
QueuesGiven == \A p \in Players : QueuesReady(InitialUserState(p))

LEMMA QueuesStayReady ==
  ASSUME QueuesGiven, BarrierInv, NEW p \in Players, pc[p] = "acked"
  PROVE  QueuesReady(snap[p].users_states[p])
<1>. DEFINE us == snap[p].users_states[p]
            in == IncomingStart[InitialClasses[p]]
            rq == RequestedStart[InitialClasses[p]]
<1>1. snap[p] \in RoundStates /\ CopySound(snap[p]) /\ Phase(p)
  BY TypeFacts DEF BarrierInv, CopyInv, RoundInv
<1>2. p \notin Recorded(snap[p])
  BY <1>1 DEF Phase, OpenCopy
<1>3. (p \in Recorded(snap[p]) /\ ~Delivered(snap[p])) = FALSE  BY <1>2
<1>4. QueuesAre(p, us, FALSE)  BY <1>1, <1>3 DEF CopySound
<1>5. /\ InitialUserState(p).incoming_orders = in
      /\ InitialUserState(p).requested_orders = rq
  BY DEF InitialUserState
<1>6. in # <<>> /\ rq # <<>>  BY <1>5 DEF QueuesGiven, QueuesReady
<1>7. in \in Seq(Int) /\ rq \in Seq(Int)  BY StartQueues
<1>8. us \in UserStates  BY <1>1, RoundStateFields
<1>9. us.incoming_orders \in Seq(Int) /\ us.requested_orders \in Seq(Int)
  BY <1>8 DEF UserStates
<1>10. ASSUME NEW queue \in Seq(Int), NEW start \in Seq(Int), start # <<>>,
              QueueIs(queue, start, FALSE)
       PROVE  queue # <<>>
  BY <1>10 DEF QueueIs
<1>. HIDE DEF us, in, rq
<1>11. us.incoming_orders # <<>> /\ us.requested_orders # <<>>
  <2>1. /\ QueueIs(us.incoming_orders, in, FALSE)
        /\ QueueIs(us.requested_orders, rq, FALSE)
    BY <1>4 DEF QueuesAre, in, rq
  <2>. QED BY <2>1, <1>6, <1>7, <1>9, <1>10
<1>. QED BY <1>11 DEF QueuesReady, us

\* An order that was acknowledged never runs into an empty queue, however
\* tasks overlap and are cut off, if no queue of the start request was empty.
THEOREM OrdersFindTheirQueues ==
  (Impatient = {} /\ QueuesGiven) => (Spec => []OrdersExpected)
<1>. SUFFICES ASSUME Impatient = {}, QueuesGiven PROVE Spec => []OrdersExpected
  OBVIOUS
<1>1. BarrierInv => OrdersExpected  BY QueuesStayReady DEF OrdersExpected
<1>. QED BY <1>1, BarrierInvariant, PTL

Collecting ==
  /\ ~Delivered(rs) /\ Recorded(rs) # Players
  /\ \A p \in waiting : pc[p] = "idle" => p \in saved

StrandInv ==
  faults = 0 => over \/ (\E p \in Players : pc[p] \in Closing) \/ Collecting

LEMMA StrandMeaning == BarrierInv /\ StrandInv => HangsForAReason
<1>. SUFFICES ASSUME BarrierInv, StrandInv, waiting = Players,
                     \A p \in Players : pc[p] = "idle", ~over, ~(faults > 0)
              PROVE  saved \ Recorded(rs) # {}
  BY DEF HangsForAReason
<1>1. faults = 0  BY TypeFacts, BoundsAssumption DEF BarrierInv
<1>2. Collecting  BY <1>1 DEF StrandInv, Closing
<1>3. saved = Players  BY <1>2, TypeFacts DEF Collecting, BarrierInv
<1>4. Recorded(rs) \subseteq Players  BY DEF Recorded
<1>. QED BY <1>2, <1>3, <1>4 DEF Collecting

LEMMA InitStrand == Init => StrandInv
<1>. SUFFICES ASSUME Init PROVE Collecting
  BY DEF StrandInv
<1>1. rs.round_orders = NoOrders /\ waiting = {}  BY DEF Init
<1>2. Recorded(rs) = {} /\ ~Delivered(rs)
  BY <1>1 DEF Recorded, Delivered, NoOrders, Stations
<1>. QED BY <1>1, <1>2, PlayersAssumption DEF Collecting

\* A closing task that goes on closing.
LEMMA StrandMove ==
  ASSUME TypeInv, NEW p \in Players, NEW label \in Closing,
         pc' = [pc EXCEPT ![p] = label]
  PROVE  StrandInv'
<1>1. pc'[p] \in Closing  BY TypeFacts
<1>. QED BY <1>1 DEF StrandInv

LEMMA NextStrandInv ==
  QueuesGiven /\ Impatient = {} /\ BarrierInv /\ StrandInv /\ [Next]_vars => StrandInv'
<1>. SUFFICES ASSUME QueuesGiven, Impatient = {}, BarrierInv, StrandInv, [Next]_vars
              PROVE  StrandInv'
  OBVIOUS
<1>0. /\ TypeInv /\ pc \in [Players -> Labels]
      /\ \A p \in Players : Phase(p)
      /\ over => Delivered(rs) /\ \A p \in Players : pc[p] = "idle"
  BY TypeFacts DEF BarrierInv, RoundInv
<1>1. ASSUME NEW p \in Players, NEW o \in Messages, ReceiveRoundEnd(p, o)
      PROVE  StrandInv'
  <2>1. /\ pc[p] = "idle" /\ p \notin waiting /\ pc' = [pc EXCEPT ![p] = "cloned"]
        /\ UNCHANGED <<rs, waiting, over, faults, saved>>
    BY <1>1 DEF ReceiveRoundEnd, Goto
  <2>2. (\E q \in Players : pc[q] \in Closing) => (\E q \in Players : pc'[q] \in Closing)
    BY <1>0, <2>1 DEF Closing
  <2>3. Collecting => Collecting'  BY <1>0, <2>1 DEF Collecting
  <2>. QED BY <2>1, <2>2, <2>3 DEF StrandInv
<1>2. ASSUME NEW p \in Players, RejectOrder(p) PROVE StrandInv'
  <2>1. /\ pc[p] = "cloned" /\ pc' = [pc EXCEPT ![p] = "idle"]
        /\ UNCHANGED <<rs, waiting, over, faults, saved>>
    BY <1>2 DEF RejectOrder, Return
  <2>2. p \notin waiting  BY <1>0, <2>1 DEF Phase
  <2>3. (\E q \in Players : pc[q] \in Closing) => (\E q \in Players : pc'[q] \in Closing)
    BY <1>0, <2>1 DEF Closing
  <2>4. Collecting => Collecting'  BY <1>0, <2>1, <2>2 DEF Collecting
  <2>. QED BY <2>1, <2>3, <2>4 DEF StrandInv
<1>3. ASSUME NEW p \in Players, AckOrder(p) PROVE StrandInv'
  <2>1. /\ pc[p] = "cloned" /\ pc' = [pc EXCEPT ![p] = "acked"]
        /\ waiting' = waiting \cup {p} /\ UNCHANGED <<rs, over, faults, saved>>
    BY <1>3 DEF AckOrder, Goto
  <2>2. (\E q \in Players : pc[q] \in Closing) => (\E q \in Players : pc'[q] \in Closing)
    BY <1>0, <2>1 DEF Closing
  <2>3. Collecting => Collecting'
    <3>1. \A q \in waiting' : pc'[q] = "idle" => q \in waiting /\ pc[q] = "idle"
      BY <1>0, <2>1, TypeFacts
    <3>. QED BY <2>1, <3>1 DEF Collecting
  <2>. QED BY <2>1, <2>2, <2>3 DEF StrandInv
<1>4. ASSUME NEW p \in Players, FailOrder(p) PROVE StrandInv'
  BY <1>4, QueuesStayReady DEF FailOrder
<1>5. ASSUME NEW p \in Players, SaveOrder(p) PROVE StrandInv'
  <2>. DEFINE done == RecordOrder(snap[p], p, order[p])
  <2>1. /\ pc[p] = "acked" /\ rs' = done /\ saved' = saved \cup {p}
        /\ UNCHANGED <<waiting, over, faults>>
    BY <1>5 DEF SaveOrder
  <2>2. OpenCopy(p) /\ p \notin saved  BY <1>0, <2>1 DEF Phase
  <2>3. ~over /\ \A q \in Players : pc[q] \notin Closing
    BY <1>0, <2>1 DEF Phase, Closing
  <2>4. /\ snap[p] \in RoundStates /\ order[p] \in Messages
        /\ CopySound(snap[p]) /\ QueuesReady(snap[p].users_states[p])
    BY <1>0, <1>5, <2>1, TypeFacts DEF SaveOrder, BarrierInv, CopyInv
  <2>5. p \notin Recorded(snap[p]) /\ ~Delivered(snap[p])  BY <2>2 DEF OpenCopy
  <2>6. CopySound(done)  BY <2>4, <2>5, RecordOrderSound
  <2>7. ~Delivered(done)  BY <2>4, <2>5, RecordOrderCounts
  <2>8. CASE done.players_finished = Cardinality(Players)
    <3>1. pc' = [pc EXCEPT ![p] = "finishing"]  BY <1>5, <2>8 DEF SaveOrder, Goto
    <3>2. "finishing" \in Closing  BY DEF Closing
    <3>. QED BY <1>0, <3>1, <3>2, StrandMove
  <2>9. CASE done.players_finished # Cardinality(Players)
    <3>1. pc' = [pc EXCEPT ![p] = "idle"]  BY <1>5, <2>9 DEF SaveOrder, Return
    <3>2. Recorded(done) # Players  BY <2>6, <2>9 DEF CopySound
    <3>. HIDE DEF done
    <3>3. Collecting => Collecting'
      BY <1>0, <2>1, <2>7, <3>1, <3>2 DEF Collecting
    <3>. QED BY <2>1, <2>3, <3>3 DEF StrandInv
  <2>. QED BY <2>8, <2>9
<1>6. ASSUME NEW p \in Players,
             \/ FinishRound(p) \/ PersistRound(p) \/ ProcessEvents(p) \/ NewRound(p)
      PROVE  StrandInv'
  <2>1. \E label \in Closing : pc' = [pc EXCEPT ![p] = label]
    BY <1>6 DEF FinishRound, PersistRound, ProcessEvents, NewRound, Goto, Closing
  <2>. QED BY <1>0, <2>1, StrandMove
<1>7. ASSUME NEW p \in Players, FinishRoundFails(p) PROVE StrandInv'
  <2>1. pc[p] = "finishing" /\ snap[p].round_orders[first_player] = NoOrder
    BY <1>7 DEF FinishRoundFails
  <2>2. first_player \in Recorded(snap[p])
    BY <1>0, <2>1, Neighbours DEF Phase, Closing
  <2>. QED BY <2>1, <2>2 DEF Recorded
<1>8. ASSUME NEW p \in Players, FinishGame(p) PROVE StrandInv'
  BY <1>8 DEF FinishGame, StrandInv
<1>9. ASSUME NEW p \in Players, EvaluateEvent(p) \/ ExecuteAction(p) PROVE StrandInv'
  <2>1. pc[p] = "events" /\ pc' = pc
    BY <1>9 DEF EvaluateEvent, ExecuteAction
  <2>. QED BY <2>1 DEF StrandInv, Closing
<1>10. ASSUME NEW p \in Players, AnnounceRound(p) PROVE StrandInv'
  <2>1. pc[p] = "announcing" /\ waiting' = {} /\ rs' = rs  BY <1>10 DEF AnnounceRound
  <2>2. ~Delivered(rs) /\ saved = {}  BY <1>0, <2>1 DEF Phase
  <2>3. Recorded(rs) = {}  BY <2>2 DEF BarrierInv, RoundInv
  <2>4. Collecting'  BY <2>1, <2>2, <2>3, PlayersAssumption DEF Collecting
  <2>. QED BY <2>4 DEF StrandInv
<1>11. ASSUME NEW p \in Players, Interrupt(p) PROVE StrandInv'
  <2>1. faults' # 0
    BY <1>0, <1>11, TypeFacts, BoundsAssumption DEF Interrupt
  <2>. QED BY <2>1 DEF StrandInv
<1>12. ASSUME NEW p \in Players, NEW classes \in ClassMaps, UpdateClasses(p, classes)
       PROVE  StrandInv'
  <2>1. /\ rs'.round_orders = rs.round_orders
        /\ UNCHANGED <<pc, waiting, over, faults, saved>>
    BY <1>0, <1>12, TypeFacts DEF UpdateClasses, RoundStates
  <2>2. Collecting => Collecting'
    BY <2>1 DEF Collecting, Recorded, Delivered
  <2>. QED BY <2>1, <2>2 DEF StrandInv
<1>13. ASSUME NEW settings \in SettingsUpdates, UpdateSettings(settings)
       PROVE  StrandInv'
  BY <1>13 DEF UpdateSettings, StrandInv, Collecting
<1>14. CASE UNCHANGED vars
  BY <1>14 DEF vars, StrandInv, Collecting
<1>. QED
  BY <1>1, <1>2, <1>3, <1>4, <1>5, <1>6, <1>7, <1>8, <1>9, <1>10, <1>11, <1>12,
     <1>13, <1>14 DEF Next, HandlerStep

\* The safety half of RoundProgress, for every game whose start queues are not
\* empty: if all clients wait and no task is at work, the game is over, a task
\* was cut off, or a write-back has dropped an order.
THEOREM RoundsHangForAReason ==
  (Impatient = {} /\ QueuesGiven) => (Spec => []HangsForAReason)
<1>. SUFFICES ASSUME Impatient = {}, QueuesGiven PROVE Spec => []HangsForAReason
  OBVIOUS
<1>1. BarrierInv /\ StrandInv /\ [Next]_vars => StrandInv'
  BY NextStrandInv
<1>. QED BY <1>1, InitStrand, StrandMeaning, BarrierInvariant, PTL DEF Spec

-----------------------------------------------------------------------------
(***************************************************************************)
(* Nothing is paid for an order that is lost.  The row stored at the end   *)
(* of a round is the measure: a round starts from the clone the row was    *)
(* taken from, changed by events alone, and a task that records an order   *)
(* changes the books of its own player and no others of its clone.         *)
(***************************************************************************)
OffRecordAsIn(r, row) ==
  \A p \in Players \ Recorded(r) : AsInRow(r.users_states[p], row[p])

AllAsIn(r, row) == \A p \in Players : AsInRow(r.users_states[p], row[p])

\* A task at the label, on its clone, against the last row.
UnpaidPhase(label, r, row) ==
  /\ label \in {"cloned", "acked"} => OffRecordAsIn(r, row)
  /\ label \in {"persisted", "events"} => AllAsIn(r, row)

UnpaidInv ==
  /\ game_states # <<>>
  /\ ~Delivered(rs) => OffRecordAsIn(rs, Last(game_states).users_states)
  /\ \A q \in Players :
       UnpaidPhase(pc[q], snap[q], Last(game_states).users_states)

LEMMA UnpaidMeaning == BarrierInv /\ UnpaidInv => OffRecordUnpaid
<1>. SUFFICES ASSUME BarrierInv, UnpaidInv, NEW r \in Copies,
                     NEW p \in Players \ Recorded(r), ~Delivered(r)
              PROVE  AsInRow(r.users_states[p], Last(game_states).users_states[p])
  BY DEF OffRecordUnpaid
<1>1. CASE r = rs  BY <1>1 DEF UnpaidInv, OffRecordAsIn
<1>2. ASSUME NEW q \in Players, pc[q] # "idle", r = snap[q]
      PROVE  AsInRow(r.users_states[p], Last(game_states).users_states[p])
  <2>1. CASE pc[q] \in {"cloned", "acked"}
    BY <1>2, <2>1 DEF UnpaidInv, UnpaidPhase, OffRecordAsIn
  <2>2. CASE pc[q] \notin {"cloned", "acked"}
    <3>1. Phase(q) /\ pc[q] \in Labels  BY TypeFacts DEF BarrierInv, RoundInv
    <3>2. CASE pc[q] \in Closing
      BY <1>2, <3>1, <3>2 DEF Phase, Closing
    <3>3. CASE pc[q] \notin Closing
      BY <1>2, <2>2, <3>1, <3>3 DEF Closing, Labels
    <3>. QED BY <3>2, <3>3
  <2>. QED BY <2>1, <2>2
<1>. QED BY <1>1, <1>2 DEF Copies

\* Recording an order leaves the books of all others alone.
LEMMA RecordOrderAsIn ==
  ASSUME NEW r \in RoundStates, NEW p \in Players, NEW o \in Messages,
         NEW row, OffRecordAsIn(r, row)
  PROVE  OffRecordAsIn(RecordOrder(r, p, o), row)
<1>. DEFINE done == RecordOrder(r, p, o)
            new  == SettleUser(r.users_states[p], o,
                               r.settings.magazine_cost[r.player_classes[p]])
<1>1. done.users_states = [r.users_states EXCEPT ![p] = new]
  BY DEF RecordOrder, RoundStates
<1>2. Recorded(done) = Recorded(r) \cup {p}  BY RecordOrderCounts
<1>. HIDE DEF done, new
<1>3. \A q \in Players \ {p} : done.users_states[q] = r.users_states[q]
  BY <1>1, RoundStateFields
<1>4. OffRecordAsIn(done, row)  BY <1>2, <1>3 DEF OffRecordAsIn
<1>. QED BY <1>4 DEF done

\* What an event gives is not paid for.
LEMMA ApplyActionAsIn ==
  ASSUME NEW r \in RoundStates, NEW action \in EventActions(Settings),
         NEW targets \in SUBSET Players, NEW row, AllAsIn(r, row)
  PROVE  AllAsIn(ApplyAction(r, action, targets), row)
<1>. DEFINE done == ApplyAction(r, action, targets)
<1>1. ASSUME NEW p \in Players PROVE AsInRow(done.users_states[p], row[p])
  <2>0. AsInRow(r.users_states[p], row[p])  BY DEF AllAsIn
  <2>1. CASE action.type = "ShowMessage"  BY <2>0, <2>1 DEF ApplyAction
  <2>2. CASE action.type = "ChangeSettings"
    BY <2>0, <2>2 DEF ApplyAction, RoundStates
  <2>3. CASE action.type = "AddResource"
    <3>1. action.resource \in Resources /\ action.value \in Int
      BY <2>3 DEF EventActions
    <3>. DEFINE us    == r.users_states[p]
                given == IF action.target = "EventTarget" THEN targets ELSE Players
                more  == GrantResource(us, action.resource, action.value)
    <3>2. us \in UserStates  BY RoundStateFields
    <3>3. /\ more.money - more.granted = us.money - us.granted
          /\ more.spent_money = us.spent_money
          /\ more.incoming_orders = us.incoming_orders
          /\ more.requested_orders = us.requested_orders
      BY <3>1, <3>2 DEF GrantResource, UserStates, Resources
    <3>4. done.users_states[p] = IF p \in given THEN more ELSE us
      BY <2>3 DEF ApplyAction, RoundStates
    <3>. HIDE DEF more, done
    <3>. QED BY <2>0, <3>3, <3>4 DEF AsInRow
  <2>. QED BY <2>1, <2>2, <2>3 DEF EventActions
<1>. QED BY <1>1 DEF AllAsIn

LEMMA InitUnpaid == Init => UnpaidInv
<1>. SUFFICES ASSUME Init PROVE UnpaidInv
  OBVIOUS
<1>1. /\ game_states = <<[round |-> 0, users_states |-> InitialUserStates]>>
      /\ rs.users_states = InitialUserStates
      /\ \A q \in Players : pc[q] = "idle"
  BY DEF Init
<1>2. game_states # <<>> /\ Last(game_states).users_states = InitialUserStates
  BY <1>1 DEF Last
<1>. QED BY <1>1, <1>2 DEF UnpaidInv, UnpaidPhase, OffRecordAsIn, AsInRow

\* A task that ends, or reaches a label the measure says nothing of.
LEMMA UnpaidQuiet ==
  ASSUME TypeInv, UnpaidInv, NEW p \in Players, game_states' = game_states,
         \A q \in Players \ {p} : pc'[q] = pc[q] /\ snap'[q] = snap[q],
         UnpaidPhase(pc'[p], snap'[p], Last(game_states).users_states),
         ~Delivered(rs') => OffRecordAsIn(rs', Last(game_states).users_states)
  PROVE  UnpaidInv'
BY DEF UnpaidInv

LEMMA UnpaidReturn ==
  ASSUME TypeInv, UnpaidInv, NEW p \in Players, game_states' = game_states,
         Return(p),
         ~Delivered(rs') => OffRecordAsIn(rs', Last(game_states).users_states)
  PROVE  UnpaidInv'
<1>1. pc'[p] = "idle" /\ \A q \in Players \ {p} : pc'[q] = pc[q] /\ snap'[q] = snap[q]
  BY TypeFacts DEF Return
<1>2. UnpaidPhase(pc'[p], snap'[p], Last(game_states).users_states)
  BY <1>1 DEF UnpaidPhase
<1>. QED BY <1>1, <1>2, UnpaidQuiet

LEMMA NextUnpaidInv ==
  Impatient = {} /\ BarrierInv /\ UnpaidInv /\ [Next]_vars => UnpaidInv'
<1>. SUFFICES ASSUME Impatient = {}, BarrierInv, UnpaidInv, [Next]_vars
              PROVE  UnpaidInv'
  OBVIOUS
<1>. DEFINE row == Last(game_states).users_states
<1>0. /\ TypeInv /\ pc \in [Players -> Labels]
      /\ snap \in [Players -> RoundStates \cup {NoSnapshot}]
      /\ \A p \in Players : Phase(p) /\ UnpaidPhase(pc[p], snap[p], row)
      /\ ~Delivered(rs) => OffRecordAsIn(rs, row)
      /\ Delivered(rs) => waiting = Players
      /\ game_states # <<>> /\ game_states \in Seq(GameRows)
  BY TypeFacts DEF BarrierInv, RoundInv, UnpaidInv
<1>1. ASSUME NEW p \in Players, NEW o \in Messages, ReceiveRoundEnd(p, o)
      PROVE  UnpaidInv'
  <2>1. /\ p \notin waiting /\ pc' = [pc EXCEPT ![p] = "cloned"]
        /\ snap' = [snap EXCEPT ![p] = rs]
        /\ rs' = rs /\ game_states' = game_states
    BY <1>1 DEF ReceiveRoundEnd, Goto
  <2>2. OffRecordAsIn(rs, row)  BY <1>0, <2>1
  <2>3. pc'[p] = "cloned" /\ snap'[p] = rs  BY <1>0, <2>1
  <2>4. UnpaidPhase(pc'[p], snap'[p], row)  BY <2>2, <2>3 DEF UnpaidPhase
  <2>. QED BY <1>0, <2>1, <2>2, <2>4, UnpaidQuiet
<1>2. ASSUME NEW p \in Players,
             \/ RejectOrder(p) \/ FailOrder(p) \/ FinishRoundFails(p)
             \/ FinishGame(p) \/ AnnounceRound(p) \/ Interrupt(p)
      PROVE  UnpaidInv'
  <2>1. Return(p) /\ rs' = rs /\ game_states' = game_states
    BY <1>2 DEF RejectOrder, FailOrder, FinishRoundFails, FinishGame,
                AnnounceRound, Interrupt
  <2>. QED BY <1>0, <2>1, UnpaidReturn
<1>3. ASSUME NEW p \in Players, AckOrder(p) PROVE UnpaidInv'
  <2>1. /\ pc[p] = "cloned" /\ pc' = [pc EXCEPT ![p] = "acked"]
        /\ snap' = snap /\ rs' = rs /\ game_states' = game_states
    BY <1>3 DEF AckOrder, Goto
  <2>2. pc'[p] = "acked"  BY <1>0, <2>1
  <2>3. UnpaidPhase(pc'[p], snap'[p], row)  BY <1>0, <2>1, <2>2 DEF UnpaidPhase
  <2>. QED BY <1>0, <2>1, <2>3, UnpaidQuiet
<1>4. ASSUME NEW p \in Players, SaveOrder(p) PROVE UnpaidInv'
  <2>. DEFINE done == RecordOrder(snap[p], p, order[p])
  <2>1. /\ pc[p] = "acked" /\ rs' = done /\ game_states' = game_states
    BY <1>4 DEF SaveOrder
  <2>2. snap[p] \in RoundStates /\ order[p] \in Messages
    BY <1>0, <2>1, TypeFacts
  <2>3. OffRecordAsIn(snap[p], row)  BY <1>0, <2>1 DEF UnpaidPhase
  <2>4. OffRecordAsIn(done, row)  BY <2>2, <2>3, RecordOrderAsIn
  <2>5. CASE done.players_finished = Cardinality(Players)
    <3>1. pc' = [pc EXCEPT ![p] = "finishing"] /\ snap' = [snap EXCEPT ![p] = done]
      BY <1>4, <2>5 DEF SaveOrder, Goto
    <3>. HIDE DEF done
    <3>2. pc'[p] = "finishing"  BY <1>0, <3>1
    <3>3. UnpaidPhase(pc'[p], snap'[p], row)  BY <3>2 DEF UnpaidPhase
    <3>4. \A q \in Players \ {p} : pc'[q] = pc[q] /\ snap'[q] = snap[q]
      BY <1>0, <3>1
    <3>. QED BY <1>0, <2>1, <2>4, <3>3, <3>4, UnpaidQuiet
  <2>6. CASE done.players_finished # Cardinality(Players)
    <3>1. Return(p)  BY <1>4, <2>6 DEF SaveOrder
    <3>. HIDE DEF done
    <3>. QED BY <1>0, <2>1, <2>4, <3>1, UnpaidReturn
  <2>. QED BY <2>5, <2>6
<1>5. ASSUME NEW p \in Players, FinishRound(p) PROVE UnpaidInv'
  <2>1. /\ pc[p] = "finishing" /\ pc' = [pc EXCEPT ![p] = "settled"]
        /\ rs' = CloseBooks(snap[p]) /\ snap' = [snap EXCEPT ![p] = rs']
        /\ game_states' = game_states
    BY <1>5 DEF FinishRound, Goto
  <2>2. Delivered(rs')  BY <1>0, <2>1, TypeFacts, CloseBooksCounts
  <2>3. pc'[p] = "settled" /\ \A q \in Players \ {p} : pc'[q] = pc[q] /\ snap'[q] = snap[q]
    BY <1>0, <2>1
  <2>4. UnpaidPhase(pc'[p], snap'[p], row)  BY <2>3 DEF UnpaidPhase
  <2>. QED BY <1>0, <2>1, <2>2, <2>3, <2>4, UnpaidQuiet
<1>6. ASSUME NEW p \in Players, PersistRound(p) PROVE UnpaidInv'
  <2>. DEFINE new == [round |-> snap[p].round, users_states |-> snap[p].users_states]
  <2>1. /\ pc[p] = "settled" /\ pc' = [pc EXCEPT ![p] = "persisted"]
        /\ rs' = rs /\ snap' = snap /\ game_states' = Append(game_states, new)
    BY <1>6 DEF PersistRound, Goto
  <2>2. new.users_states = snap[p].users_states  OBVIOUS
  <2>. HIDE DEF new
  <2>3. game_states' # <<>> /\ Last(game_states') = new
    BY <1>0, <2>1 DEF Last
  <2>4. Delivered(rs) /\ \A q \in Players \ {p} : pc[q] = "idle"
    BY <1>0, <2>1 DEF Phase, Closing
  <2>5. pc'[p] = "persisted" /\ \A q \in Players \ {p} : pc'[q] = "idle"
    BY <1>0, <2>1, <2>4
  <2>6. AllAsIn(snap'[p], Last(game_states').users_states)
    BY <2>1, <2>2, <2>3 DEF AllAsIn, AsInRow
  <2>7. \A q \in Players : UnpaidPhase(pc'[q], snap'[q], Last(game_states').users_states)
    BY <2>5, <2>6 DEF UnpaidPhase
  <2>. QED BY <2>1, <2>3, <2>4, <2>7 DEF UnpaidInv
<1>7. ASSUME NEW p \in Players, ProcessEvents(p) PROVE UnpaidInv'
  <2>1. /\ pc[p] = "persisted" /\ pc' = [pc EXCEPT ![p] = "events"]
        /\ snap' = snap /\ rs' = rs /\ game_states' = game_states
    BY <1>7 DEF ProcessEvents, Goto
  <2>2. pc'[p] = "events"  BY <1>0, <2>1
  <2>3. UnpaidPhase(pc'[p], snap'[p], row)  BY <1>0, <2>1, <2>2 DEF UnpaidPhase
  <2>. QED BY <1>0, <2>1, <2>3, UnpaidQuiet
<1>8. ASSUME NEW p \in Players, EvaluateEvent(p) PROVE UnpaidInv'
  <2>1. pc' = pc /\ snap' = snap /\ rs' = rs /\ game_states' = game_states
    BY <1>8 DEF EvaluateEvent
  <2>. QED BY <1>0, <2>1, UnpaidQuiet
<1>9. ASSUME NEW p \in Players, ExecuteAction(p) PROVE UnpaidInv'
  <2>. DEFINE action == Head(agenda[p].actions)
              new    == ApplyAction(snap[p], action, agenda[p].targets)
  <2>1. /\ agenda[p].actions \in Seq(EventActions(Settings)) /\ agenda[p].actions # <<>>
        /\ agenda[p].targets \in SUBSET Players /\ snap[p] \in RoundStates
        /\ pc[p] = "events"
    BY <1>0, <1>9, TypeFacts DEF ExecuteAction, Agendas
  <2>2. action \in EventActions(Settings)  BY <2>1
  <2>3. AllAsIn(snap[p], row)  BY <1>0, <2>1 DEF UnpaidPhase
  <2>4. AllAsIn(new, row)  BY <2>1, <2>2, <2>3, ApplyActionAsIn
  <2>5. /\ snap' = [snap EXCEPT ![p] = new] /\ pc' = pc
        /\ rs' = rs /\ game_states' = game_states
    BY <1>9 DEF ExecuteAction
  <2>. HIDE DEF new
  <2>6. snap'[p] = new /\ \A q \in Players \ {p} : snap'[q] = snap[q]  BY <1>0, <2>5
  <2>7. UnpaidPhase(pc'[p], snap'[p], row)  BY <2>1, <2>4, <2>5, <2>6 DEF UnpaidPhase
  <2>. QED BY <1>0, <2>5, <2>6, <2>7, UnpaidQuiet
<1>10. ASSUME NEW p \in Players, NewRound(p) PROVE UnpaidInv'
  <2>1. /\ pc[p] = "events" /\ pc' = [pc EXCEPT ![p] = "announcing"]
        /\ rs' = ClearRound(snap[p]) /\ snap' = snap /\ game_states' = game_states
    BY <1>10 DEF NewRound, Goto
  <2>2. AllAsIn(snap[p], row)  BY <1>0, <2>1 DEF UnpaidPhase
  <2>3. rs'.users_states = snap[p].users_states
    BY <1>0, <2>1, TypeFacts DEF ClearRound, RoundStates
  <2>4. OffRecordAsIn(rs', row)  BY <2>2, <2>3 DEF OffRecordAsIn, AllAsIn
  <2>5. pc'[p] = "announcing"  BY <1>0, <2>1
  <2>6. UnpaidPhase(pc'[p], snap'[p], row)  BY <2>5 DEF UnpaidPhase
  <2>. QED BY <1>0, <2>1, <2>4, <2>6, UnpaidQuiet
<1>11. ASSUME NEW p \in Players, NEW classes \in ClassMaps, UpdateClasses(p, classes)
       PROVE  UnpaidInv'
  <2>1. /\ rs'.users_states = rs.users_states /\ rs'.round_orders = rs.round_orders
        /\ UNCHANGED <<pc, snap, game_states>>
    BY <1>0, <1>11, TypeFacts DEF UpdateClasses, RoundStates
  <2>2. ~Delivered(rs') => OffRecordAsIn(rs', row)
    BY <1>0, <2>1 DEF OffRecordAsIn, Recorded, Delivered
  <2>. QED BY <1>0, <2>1, <2>2, UnpaidQuiet
<1>12. ASSUME NEW settings \in SettingsUpdates, UpdateSettings(settings)
       PROVE  UnpaidInv'
  BY <1>12 DEF UpdateSettings, UnpaidInv
<1>13. CASE UNCHANGED vars  BY <1>13 DEF vars, UnpaidInv
<1>. QED
  BY <1>1, <1>2, <1>3, <1>4, <1>5, <1>6, <1>7, <1>8, <1>9, <1>10, <1>11, <1>12,
     <1>13 DEF Next, HandlerStep

\* An order is lost whole: a player of whom no order is on record has paid for
\* none since the last stored row, in the shared state and in every clone.
THEOREM LostOrdersCostNothing == Impatient = {} => (Spec => []OffRecordUnpaid)
<1>. SUFFICES ASSUME Impatient = {} PROVE Spec => []OffRecordUnpaid
  OBVIOUS
<1>1. BarrierInv /\ UnpaidInv /\ [Next]_vars => UnpaidInv'
  BY NextUnpaidInv
<1>2. BarrierInv /\ UnpaidInv => OffRecordUnpaid
  BY UnpaidMeaning
<1>. QED BY <1>1, <1>2, InitUnpaid, BarrierInvariant, PTL DEF Spec

-----------------------------------------------------------------------------
(***************************************************************************)
(* The refinement of RoundBarrier: recording an order is Place, closing    *)
(* the books is Close, all else leaves the barrier as it is.               *)
(***************************************************************************)
Placed(r) == IF Delivered(r) THEN {} ELSE Recorded(r)

LEMMA BarrierStutters ==
  ASSUME rs'.round = rs.round, Placed(rs') = Placed(rs), saved' = saved
  PROVE  [Barrier!Next]_(Barrier!barrierVars)
BY DEF Barrier!barrierVars, Placed

LEMMA BarrierInit == Init => Barrier!Init
<1>. SUFFICES ASSUME Init PROVE Barrier!Init
  OBVIOUS
<1>1. rs.round = 0 /\ rs.round_orders = NoOrders /\ saved = {}  BY DEF Init
<1>2. Recorded(rs) = {}  BY <1>1 DEF Recorded, NoOrders, Stations
<1>. QED BY <1>1, <1>2 DEF Barrier!Init

LEMMA BarrierNext ==
  ASSUME BarrierInv, [Next]_vars
  PROVE  [Barrier!Next]_(Barrier!barrierVars)
<1>. USE TypeFacts DEF BarrierInv
<1>0. \A p \in Players : Phase(p)  BY DEF RoundInv
<1>1. ASSUME NEW p \in Players, SaveOrder(p) PROVE Barrier!Next
  <2>. DEFINE done == RecordOrder(snap[p], p, order[p])
              kept == Recorded(snap[p])
  <2>1. pc[p] = "acked" /\ rs' = done /\ saved' = saved \cup {p}
    BY <1>1 DEF SaveOrder
  <2>2. p \notin saved /\ OpenCopy(p)  BY <1>0, <2>1 DEF Phase
  <2>3. /\ done.round = rs.round /\ ~Delivered(done)
        /\ Recorded(done) = kept \cup {p} /\ kept \in SUBSET saved
    BY <2>1, <2>2, RecordOrderCounts DEF OpenCopy
  <2>. HIDE DEF done, kept
  <2>4. (IF Delivered(rs') THEN {} ELSE Recorded(rs')) = kept \cup {p}
    BY <2>1, <2>3
  <2>5. rs'.round = rs.round  BY <2>1, <2>3
  <2>6. Barrier!Place(p)  BY <2>1, <2>2, <2>3, <2>4, <2>5 DEF Barrier!Place
  <2>. QED BY <2>6 DEF Barrier!Next
<1>2. ASSUME NEW p \in Players, FinishRound(p) PROVE Barrier!Next
  <2>1. pc[p] = "finishing" /\ rs' = CloseBooks(snap[p]) /\ saved' = {}
    BY <1>2 DEF FinishRound
  <2>2. snap[p].round = rs.round /\ ~Delivered(rs) /\ Recorded(rs) = Players
    BY <1>0, <2>1 DEF Phase, Closing
  <2>3. rs'.round = rs.round + 1 /\ Delivered(rs')
    BY <2>1, <2>2, CloseBooksCounts
  <2>4. Barrier!Close  BY <2>1, <2>2, <2>3 DEF Barrier!Close
  <2>. QED BY <2>4 DEF Barrier!Next
<1>3. ASSUME NEW p \in Players, NewRound(p)
      PROVE  [Barrier!Next]_(Barrier!barrierVars)
  <2>1. pc[p] = "events" /\ rs' = ClearRound(snap[p]) /\ saved' = saved
    BY <1>3 DEF NewRound
  <2>2. Delivered(rs) /\ snap[p].round = rs.round  BY <1>0, <2>1 DEF Phase, Closing
  <2>3. rs'.round = rs.round /\ Recorded(rs') = {}
    BY <2>1, <2>2, ClearRoundCounts
  <2>. QED BY <2>1, <2>2, <2>3, BarrierStutters DEF Placed
<1>4. ASSUME NEW p \in Players, NEW classes \in ClassMaps, UpdateClasses(p, classes)
      PROVE  [Barrier!Next]_(Barrier!barrierVars)
  <2>1. /\ rs'.round_orders = rs.round_orders /\ rs'.round = rs.round /\ saved' = saved
    BY <1>4 DEF UpdateClasses, RoundStates
  <2>. QED BY <2>1, BarrierStutters DEF Placed, Delivered, Recorded
<1>5. ASSUME rs' = rs, saved' = saved PROVE [Barrier!Next]_(Barrier!barrierVars)
  BY <1>5, BarrierStutters
<1>6. ASSUME NEW p \in Players, HandlerStep(p), ~SaveOrder(p), ~FinishRound(p), ~NewRound(p)
      PROVE  rs' = rs /\ saved' = saved
  BY <1>6 DEF HandlerStep, RejectOrder, AckOrder, FailOrder, FinishRoundFails,
     PersistRound, FinishGame, ProcessEvents, EvaluateEvent, ExecuteAction, AnnounceRound
<1>7. ASSUME NEW p \in Players, HandlerStep(p)
      PROVE  [Barrier!Next]_(Barrier!barrierVars)
  BY <1>1, <1>2, <1>3, <1>5, <1>6, <1>7
<1>8. ASSUME NEW p \in Players, NEW o \in Messages, ReceiveRoundEnd(p, o)
      PROVE  rs' = rs /\ saved' = saved
  BY <1>8 DEF ReceiveRoundEnd
<1>9. ASSUME NEW p \in Players, Interrupt(p) PROVE rs' = rs /\ saved' = saved
  BY <1>9 DEF Interrupt
<1>10. ASSUME NEW settings \in SettingsUpdates, UpdateSettings(settings)
       PROVE  rs' = rs /\ saved' = saved
  BY <1>10 DEF UpdateSettings
<1>11. CASE UNCHANGED vars  BY <1>5, <1>11 DEF vars
<1>. QED BY <1>4, <1>5, <1>7, <1>8, <1>9, <1>10, <1>11 DEF Next

\* The engine implements the barrier: a player enters a round at most once,
\* and the round closes only when an order of every player is on record.
THEOREM EngineIsBarrier == Impatient = {} => (Spec => BarrierSpec)
<1>1. BarrierInv /\ [Next]_vars => [Barrier!Next]_(Barrier!barrierVars)
  BY BarrierNext
<1>. QED BY <1>1, BarrierInit, BarrierInvariant, PTL DEF Spec, BarrierSpec, Barrier!Spec
=============================================================================
