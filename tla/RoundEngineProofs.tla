------------------------- MODULE RoundEngineProofs -------------------------
(***************************************************************************)
(* What is proved about RoundEngine for every value of its constants: type *)
(* correctness and the books of every player, with clients that may or may *)
(* not wait their turn, and tasks that may be cut off anywhere; and, for   *)
(* games that are set up without negative numbers and whose events leave   *)
(* stocks alone, that nobody holds stock while he owes goods.              *)
(***************************************************************************)
EXTENDS RoundEngine, FiniteSetTheorems, TLAPS

-----------------------------------------------------------------------------
(* The arithmetic of Orders. *)

LEMMA TruncDivType ==
  ASSUME NEW a \in Int, NEW b \in Nat \ {0}
  PROVE  TruncDiv(a, b) \in Int
BY DEF TruncDiv

LEMMA EPowType ==
  ASSUME NEW n \in Int, n <= MaxPower
  PROVE  EPow(n) \in Int
<1>1. n < 0 \/ n = 0 \/ n = 1 \/ n = 2 \/ n = 3 \/ n = 4 \/ n = 5 \/ n = 6
  BY DEF MaxPower
<1>. QED BY <1>1 DEF EPow

\* Whatever the style, the next demand is an integer.
LEMMA DemandType ==
  ASSUME NEW last \in Int, NEW style \in OrderStyles
  PROVE  generate_demand(last, style) \in Int
<1>1. CASE style.type = "Default"
  <2>1. TruncDiv(3 * last, 2) \in Int  BY TruncDivType
  <2>. QED BY <1>1, <2>1 DEF generate_demand
<1>2. CASE style.type = "Linear"
  <2>1. style.increase \in Int  BY <1>2 DEF OrderStyles
  <2>. QED BY <1>2, <2>1 DEF generate_demand
<1>3. CASE style.type = "Multiplication"
  <2>1. style.increase \in Int  BY <1>3 DEF OrderStyles
  <2>. QED BY <1>3, <2>1 DEF generate_demand
<1>4. CASE style.type = "Exponential"
  <2>1. style.power \in Int /\ style.power <= MaxPower /\ style.modulator \in Int
    BY <1>4 DEF OrderStyles
  <2>2. EPow(style.power) \in Int  BY <2>1, EPowType
  <2>3. style.modulator * EPow(style.power) \in Int  BY <2>1, <2>2
  <2>. QED BY <1>4, <2>3 DEF generate_demand
<1>5. CASE style.type = "List"
  <2>1. style.list \in Seq(Int) /\ style.list # <<>>  BY <1>5 DEF OrderStyles
  <2>2. style.list[Len(style.list)] \in Int  BY <2>1
  <2>. QED BY <1>5, <2>2 DEF generate_demand
<1>. QED BY <1>1, <1>2, <1>3, <1>4, <1>5 DEF OrderStyles

\* Settling keeps the stock less the debt, up to the request.
LEMMA SettleNetsStock ==
  ASSUME NEW stock \in Int, NEW back \in Int, NEW request \in Int
  PROVE  LET s == SettleRequest(stock, back, request) IN
         /\ s.stock \in Int /\ s.back \in Int /\ s.sent \in Int
         /\ s.stock - s.back = stock - back - request
<1>. DEFINE paid == PayBackOrders(stock, back)
<1>1. /\ paid.stock \in Int /\ paid.back \in Int /\ paid.sent \in Int
      /\ paid.stock - paid.back = stock - back
  BY DEF PayBackOrders
<1>. QED BY <1>1 DEF SettleRequest

-----------------------------------------------------------------------------
(* One player's state. *)

LEMMA FrontLastType ==
  ASSUME NEW q \in Seq(Int), q # <<>>
  PROVE  Front(q) \in Seq(Int) /\ Last(q) \in Int
BY DEF Front, Last

\* Recording an order keeps the type and the books of the player.
LEMMA SettleUserBooks ==
  ASSUME NEW p \in Players, NEW us \in UserStates, NEW o \in Messages,
         NEW unit_cost \in Int, QueuesReady(us)
  PROVE  /\ SettleUser(us, o, unit_cost) \in UserStates
         /\ Balanced(p, us) => Balanced(p, SettleUser(us, o, unit_cost))
         /\ Shipment(us) \in Int
<1>. DEFINE storage  == us.magazine_state * unit_cost
            received == Last(us.incoming_orders)
            request  == Last(us.requested_orders)
            stock    == us.magazine_state + received
            settled  == SettleRequest(stock, us.back_order_sum, request)
            money    == us.money - o.cost - storage
            spent    == us.spent_money + o.cost + storage
            goods    == us.goods + received - request
            new      == [us EXCEPT !.money = money, !.spent_money = spent,
                                   !.magazine_state = settled.stock,
                                   !.back_order_sum = settled.back,
                                   !.incoming_orders = Front(us.incoming_orders),
                                   !.requested_orders = Front(us.requested_orders),
                                   !.goods = goods]
<1>1. /\ us.money \in Int /\ us.spent_money \in Int /\ us.magazine_state \in Int
      /\ us.back_order_sum \in Int /\ us.granted \in Int /\ us.goods \in Int
  BY DEF UserStates
<1>2. /\ us.incoming_orders \in Seq(Int) /\ us.incoming_orders # <<>>
      /\ us.requested_orders \in Seq(Int) /\ us.requested_orders # <<>>
  BY DEF UserStates, QueuesReady
<1>3. /\ received \in Int /\ request \in Int
      /\ Front(us.incoming_orders) \in Seq(Int) /\ Front(us.requested_orders) \in Seq(Int)
  BY <1>2, FrontLastType
<1>4. o.cost \in Int  BY OrdersAssumption DEF Messages
<1>5. storage \in Int  BY <1>1
<1>6. stock \in Int  BY <1>1, <1>3
<1>7. /\ settled.stock \in Int /\ settled.back \in Int /\ settled.sent \in Int
      /\ settled.stock - settled.back = stock - us.back_order_sum - request
  <2>. DEFINE back == us.back_order_sum
  <2>1. stock \in Int /\ back \in Int /\ request \in Int  BY <1>1, <1>3, <1>6
  <2>. HIDE DEF stock, back, request
  <2>2. LET s == SettleRequest(stock, back, request) IN
        /\ s.stock \in Int /\ s.back \in Int /\ s.sent \in Int
        /\ s.stock - s.back = stock - back - request
    BY <2>1, SettleNetsStock, Zenon
  <2>. QED BY <2>2, Zenon DEF back
<1>8. Shipment(us) \in Int  BY <1>7 DEF Shipment
<1>9. /\ money \in Int /\ spent \in Int /\ goods \in Int
  <2>1. received \in Int /\ request \in Int  BY <1>3
  <2>. HIDE DEF storage, received, request
  <2>. QED BY <1>1, <1>4, <1>5, <2>1
<1>10. SettleUser(us, o, unit_cost) = new
  BY Zenon DEF SettleUser
<1>11. /\ new \in UserStates
       /\ new.money = money /\ new.spent_money = spent /\ new.granted = us.granted
       /\ new.magazine_state = settled.stock /\ new.back_order_sum = settled.back
       /\ new.goods = goods
  <2>. DEFINE left == settled.stock
              owed == settled.back
              in   == Front(us.incoming_orders)
              req  == Front(us.requested_orders)
  <2>1. left \in Int /\ owed \in Int /\ in \in Seq(Int) /\ req \in Seq(Int)
    BY <1>3, <1>7
  <2>2. new = [us EXCEPT !.money = money, !.spent_money = spent,
                         !.magazine_state = left, !.back_order_sum = owed,
                         !.incoming_orders = in, !.requested_orders = req,
                         !.goods = goods]
    OBVIOUS
  <2>. DEFINE plain == [us EXCEPT !.money = money, !.spent_money = spent,
                         !.magazine_state = left, !.back_order_sum = owed,
                         !.incoming_orders = in, !.requested_orders = req,
                         !.goods = goods]
  <2>3. new = plain  BY <2>2
  <2>. HIDE DEF money, spent, goods, left, owed, in, req, new
  <2>4. plain \in UserStates  BY <1>9, <2>1 DEF UserStates
  <2>5. /\ plain.money = money /\ plain.spent_money = spent
        /\ plain.granted = us.granted /\ plain.magazine_state = left
        /\ plain.back_order_sum = owed /\ plain.goods = goods
    BY DEF UserStates
  <2>. HIDE DEF plain
  <2>. QED BY <2>3, <2>4, <2>5 DEF left, owed
<1>12. ASSUME Balanced(p, us) PROVE Balanced(p, new)
  <2>1. StartMagazine[InitialClasses[p]] \in Int /\ StartMoney[InitialClasses[p]] \in Int
    BY StartAssumption, ClassesAssumption
  <2>2. stock = us.magazine_state + received /\ goods = us.goods + received - request
    OBVIOUS
  <2>3. money = us.money - o.cost - storage /\ spent = us.spent_money + o.cost + storage
    OBVIOUS
  <2>. HIDE DEF storage, received, request, stock, settled, money, spent, goods, new
  <2>4. money + spent = us.money + us.spent_money
    BY <1>1, <1>4, <1>5, <2>3
  <2>5. us.magazine_state - us.back_order_sum = StartMagazine[InitialClasses[p]] + us.goods
    BY <1>12 DEF Balanced
  <2>6. received \in Int /\ request \in Int  BY <1>3
  <2>7. settled.stock - settled.back = StartMagazine[InitialClasses[p]] + goods
    BY <1>1, <1>7, <2>1, <2>2, <2>5, <2>6
  <2>8. us.money + us.spent_money = StartMoney[InitialClasses[p]] + us.granted
    BY <1>12 DEF Balanced
  <2>. QED BY <1>11, <2>4, <2>7, <2>8 DEF Balanced
<1>. HIDE DEF new
<1>. QED BY <1>8, <1>10, <1>11, <1>12

LEMMA ReceiveBooks ==
  ASSUME NEW p \in Players, NEW us \in UserStates,
         NEW request \in Int \cup {NoOrder}, NEW shipment \in Int \cup {NoOrder}
  PROVE  /\ Receive(us, request, shipment) \in UserStates
         /\ Balanced(p, us) => Balanced(p, Receive(us, request, shipment))
<1>1. us.incoming_orders \in Seq(Int) /\ us.requested_orders \in Seq(Int)
  BY DEF UserStates
<1>2. Deliver(us.requested_orders, request) \in Seq(Int)  BY <1>1 DEF Deliver
<1>3. Deliver(us.incoming_orders, shipment) \in Seq(Int)  BY <1>1 DEF Deliver
<1>. QED BY <1>2, <1>3 DEF Receive, UserStates, Balanced

LEMMA GrantBooks ==
  ASSUME NEW p \in Players, NEW us \in UserStates,
         NEW resource \in Resources, NEW value \in Int
  PROVE  /\ GrantResource(us, resource, value) \in UserStates
         /\ Balanced(p, us) => Balanced(p, GrantResource(us, resource, value))
<1>. DEFINE money   == us.money + value
            granted == us.granted + value
            stock   == us.magazine_state + value
            perf    == us.performance + value
            back    == us.back_order_sum + value
            more    == us.goods + value
            less    == us.goods - value
<1>1. /\ us.money \in Int /\ us.spent_money \in Int /\ us.magazine_state \in Int
      /\ us.back_order_sum \in Int /\ us.granted \in Int /\ us.goods \in Int
      /\ us.performance \in Int
  BY DEF UserStates
<1>2. /\ money \in Int /\ granted \in Int /\ stock \in Int /\ perf \in Int
      /\ back \in Int /\ more \in Int /\ less \in Int
  BY <1>1
<1>3. /\ StartMoney[InitialClasses[p]] \in Int /\ StartMagazine[InitialClasses[p]] \in Int
  BY StartAssumption, ClassesAssumption
<1>4. CASE resource = "Money"
  <2>. DEFINE new == [us EXCEPT !.money = money, !.granted = granted]
  <2>1. GrantResource(us, resource, value) = new  BY <1>4 DEF GrantResource
  <2>. HIDE DEF money, granted
  <2>2. new \in UserStates  BY <1>2 DEF UserStates
  <2>3. /\ new.money = money /\ new.granted = granted /\ new.spent_money = us.spent_money
        /\ new.magazine_state = us.magazine_state /\ new.goods = us.goods
        /\ new.back_order_sum = us.back_order_sum
    BY DEF UserStates
  <2>. HIDE DEF new
  <2>4. Balanced(p, us) => Balanced(p, new)
    <3>1. money = us.money + value /\ granted = us.granted + value
      BY DEF money, granted
    <3>2. ASSUME us.money + us.spent_money = StartMoney[InitialClasses[p]] + us.granted
          PROVE  money + us.spent_money = StartMoney[InitialClasses[p]] + granted
      <4>. DEFINE m == us.money  s == us.spent_money  g == us.granted
                  b == StartMoney[InitialClasses[p]]
      <4>1. m \in Int /\ s \in Int /\ g \in Int /\ b \in Int  BY <1>1, <1>3
      <4>2. m + s = b + g  BY <3>2
      <4>3. money = m + value /\ granted = g + value  BY <3>1
      <4>. HIDE DEF m, s, g, b
      <4>4. money + s = b + granted  BY <4>1, <4>2, <4>3
      <4>. QED BY <4>4 DEF s, b
    <3>. QED BY <2>3, <3>2 DEF Balanced
  <2>. QED BY <2>1, <2>2, <2>4
<1>5. CASE resource = "MagazineState"
  <2>. DEFINE new == [us EXCEPT !.magazine_state = stock, !.goods = more]
  <2>1. GrantResource(us, resource, value) = new  BY <1>5 DEF GrantResource
  <2>. HIDE DEF stock, more
  <2>2. new \in UserStates  BY <1>2 DEF UserStates
  <2>3. /\ new.money = us.money /\ new.granted = us.granted
        /\ new.spent_money = us.spent_money
        /\ new.magazine_state = stock /\ new.goods = more
        /\ new.back_order_sum = us.back_order_sum
    BY DEF UserStates
  <2>. HIDE DEF new
  <2>4. Balanced(p, us) => Balanced(p, new)
    <3>1. us.magazine_state - us.back_order_sum = StartMagazine[InitialClasses[p]] + us.goods
            => stock - us.back_order_sum = StartMagazine[InitialClasses[p]] + more
      BY <1>1, <1>3 DEF stock, more
    <3>. QED BY <2>3, <3>1 DEF Balanced
  <2>. QED BY <2>1, <2>2, <2>4
<1>6. CASE resource = "Performance"
  <2>. DEFINE new == [us EXCEPT !.performance = perf]
  <2>1. GrantResource(us, resource, value) = new  BY <1>6 DEF GrantResource
  <2>. HIDE DEF perf
  <2>2. new \in UserStates  BY <1>2 DEF UserStates
  <2>3. /\ new.money = us.money /\ new.granted = us.granted
        /\ new.spent_money = us.spent_money
        /\ new.magazine_state = us.magazine_state /\ new.goods = us.goods
        /\ new.back_order_sum = us.back_order_sum
    BY DEF UserStates
  <2>. HIDE DEF new
  <2>4. Balanced(p, us) => Balanced(p, new)  BY <2>3 DEF Balanced
  <2>. QED BY <2>1, <2>2, <2>4
<1>7. CASE resource = "BackOrderValue"
  <2>. DEFINE new == [us EXCEPT !.back_order_sum = back, !.goods = less]
  <2>1. GrantResource(us, resource, value) = new  BY <1>7 DEF GrantResource
  <2>. HIDE DEF back, less
  <2>2. new \in UserStates  BY <1>2 DEF UserStates
  <2>3. /\ new.money = us.money /\ new.granted = us.granted
        /\ new.spent_money = us.spent_money
        /\ new.magazine_state = us.magazine_state /\ new.goods = less
        /\ new.back_order_sum = back
    BY DEF UserStates
  <2>. HIDE DEF new
  <2>4. Balanced(p, us) => Balanced(p, new)
    <3>1. us.magazine_state - us.back_order_sum = StartMagazine[InitialClasses[p]] + us.goods
            => us.magazine_state - back = StartMagazine[InitialClasses[p]] + less
      BY <1>1, <1>3 DEF back, less
    <3>. QED BY <2>3, <3>1 DEF Balanced
  <2>. QED BY <2>1, <2>2, <2>4
<1>. QED BY <1>4, <1>5, <1>6, <1>7 DEF Resources

-----------------------------------------------------------------------------
(* The round state. *)

BooksOf(users) == \A p \in Players : Balanced(p, users[p])

LEMMA RoundStateFields ==
  ASSUME NEW r \in RoundStates
  PROVE  /\ r.round \in Nat /\ r.players_finished \in Nat
         /\ r.users_states \in [Players -> UserStates]
         /\ r.round_orders \in OrderBooks /\ r.send_orders \in OrderBooks
         /\ r.player_classes \in PlayerClasses /\ r.settings \in Settings
         /\ r.demand \in Int
BY DEF RoundStates

\* The market's neighbours: the chain is not empty, and what lies up or down
\* the chain from a player is a player or the market.
LEMMA Neighbours ==
  /\ first_player \in Players
  /\ \A p \in Players : get_recipient(p) \in Stations /\ get_sender(p) \in Stations
<1>1. Len(Chain) \in Nat /\ Len(Chain) > 0
  BY PlayersAssumption, ChainAssumption
<1>2. first_player \in Players
  BY <1>1, ChainAssumption DEF first_player
<1>3. ASSUME NEW p \in Players
      PROVE  Position(p) \in 1..Len(Chain) /\ Chain[Position(p)] = p
  BY ChainAssumption DEF Position
<1>4. ASSUME NEW p \in Players PROVE get_recipient(p) \in Stations
  <2>1. CASE p = last_player  BY <2>1 DEF get_recipient, Stations
  <2>2. CASE p # last_player
    <3>1. Position(p) + 1 \in 1..Len(Chain)
      BY <1>1, <1>3, <2>2 DEF last_player
    <3>2. Chain[Position(p) + 1] \in Players  BY <3>1, ChainAssumption
    <3>. QED BY <2>2, <3>2 DEF get_recipient, Stations
  <2>. QED BY <2>1, <2>2
<1>5. ASSUME NEW p \in Players PROVE get_sender(p) \in Stations
  <2>1. CASE p = first_player  BY <2>1 DEF get_sender, Stations
  <2>2. CASE p # first_player
    <3>1. Position(p) - 1 \in 1..Len(Chain)
      BY <1>1, <1>3, <2>2 DEF first_player
    <3>2. Chain[Position(p) - 1] \in Players  BY <3>1, ChainAssumption
    <3>. QED BY <2>2, <3>2 DEF get_sender, Stations
  <2>. QED BY <2>1, <2>2
<1>. QED BY <1>2, <1>4, <1>5

LEMMA RecordOrderBooks ==
  ASSUME NEW r \in RoundStates, NEW p \in Players, NEW o \in Messages,
         ~Rejected(r, p, o), QueuesReady(r.users_states[p])
  PROVE  /\ RecordOrder(r, p, o) \in RoundStates
         /\ BooksOf(r.users_states) => BooksOf(RecordOrder(r, p, o).users_states)
<1>. DEFINE class     == r.player_classes[p]
            unit_cost == r.settings.magazine_cost[class]
            old       == r.users_states[p]
            new       == SettleUser(old, o, unit_cost)
            users     == [r.users_states EXCEPT ![p] = new]
            placed    == [r.round_orders EXCEPT ![p] = o.value]
            sent      == [r.send_orders EXCEPT ![p] = Shipment(old)]
            finished  == r.players_finished + 1
            done      == [r EXCEPT !.users_states = users, !.round_orders = placed,
                                   !.send_orders = sent, !.players_finished = finished]
<1>1. class \in Classes
  BY RoundStateFields DEF Rejected, PlayerClasses
<1>2. unit_cost \in Int
  BY <1>1, RoundStateFields DEF Settings
<1>3. old \in UserStates  BY RoundStateFields
<1>4. /\ new \in UserStates /\ Shipment(old) \in Int
      /\ Balanced(p, old) => Balanced(p, new)
  BY <1>2, <1>3, SettleUserBooks
<1>5. o.value \in Int  BY OrdersAssumption DEF Messages
<1>6. RecordOrder(r, p, o) = done  BY DEF RecordOrder
<1>. HIDE DEF new
<1>7. users \in [Players -> UserStates]  BY <1>4, RoundStateFields
<1>8. placed \in OrderBooks  BY <1>5, RoundStateFields DEF OrderBooks
<1>9. sent \in OrderBooks  BY <1>4, RoundStateFields DEF OrderBooks
<1>10. finished \in Nat  BY RoundStateFields
<1>11. BooksOf(r.users_states) => BooksOf(users)
  BY <1>4, RoundStateFields DEF BooksOf
<1>. HIDE DEF users, placed, sent, finished
<1>12. done \in RoundStates /\ done.users_states = users
  BY <1>7, <1>8, <1>9, <1>10 DEF RoundStates
<1>. HIDE DEF done
<1>. QED BY <1>6, <1>11, <1>12

LEMMA CloseBooksBooks ==
  ASSUME NEW r \in RoundStates, r.round_orders[first_player] # NoOrder
  PROVE  /\ CloseBooks(r) \in RoundStates
         /\ BooksOf(r.users_states) => BooksOf(CloseBooks(r).users_states)
<1>. DEFINE demand    == generate_demand(r.demand, r.settings.demand_style)
            supply    == generate_demand(InitialSupply, r.settings.supply_style)
            ordered   == r.round_orders[first_player]
            supplied  == IF supply < ordered THEN supply ELSE ordered
            requests  == [r.round_orders EXCEPT ![Nil] = demand]
            shipments == [r.send_orders EXCEPT ![Nil] = supplied]
            users     == [p \in Players |->
                            Receive(r.users_states[p], requests[get_recipient(p)],
                                    shipments[get_sender(p)])]
            next      == r.round + 1
            done      == [r EXCEPT !.round = next, !.demand = demand,
                                   !.round_orders = requests, !.send_orders = shipments,
                                   !.users_states = users]
<1>1. r.settings.demand_style \in OrderStyles /\ r.settings.supply_style \in OrderStyles
  BY RoundStateFields DEF Settings
<1>2. demand \in Int /\ supply \in Int
  BY <1>1, RoundStateFields, StartAssumption, DemandType
<1>3. ordered \in Int
  BY RoundStateFields, Neighbours DEF OrderBooks, Stations
<1>4. CloseBooks(r) = done  BY DEF CloseBooks
<1>. HIDE DEF demand, supply, ordered
<1>5. supplied \in Int  BY <1>2, <1>3
<1>. HIDE DEF supplied
<1>6. requests \in OrderBooks /\ shipments \in OrderBooks
  BY <1>2, <1>5, RoundStateFields DEF OrderBooks
<1>. HIDE DEF requests, shipments
<1>7. ASSUME NEW p \in Players
      PROVE  /\ users[p] \in UserStates
             /\ Balanced(p, r.users_states[p]) => Balanced(p, users[p])
  <2>1. /\ requests[get_recipient(p)] \in Int \cup {NoOrder}
        /\ shipments[get_sender(p)] \in Int \cup {NoOrder}
    BY <1>6, Neighbours DEF OrderBooks
  <2>2. r.users_states[p] \in UserStates  BY RoundStateFields
  <2>. QED BY <2>1, <2>2, ReceiveBooks
<1>8. users \in [Players -> UserStates]  BY <1>7
<1>9. BooksOf(r.users_states) => BooksOf(users)  BY <1>7 DEF BooksOf
<1>10. next \in Nat  BY RoundStateFields
<1>. HIDE DEF users, next
<1>11. done \in RoundStates /\ done.users_states = users
  BY <1>2, <1>6, <1>8, <1>10 DEF RoundStates
<1>. HIDE DEF done
<1>. QED BY <1>4, <1>9, <1>11

LEMMA ClearRoundBooks ==
  ASSUME NEW r \in RoundStates
  PROVE  /\ ClearRound(r) \in RoundStates
         /\ ClearRound(r).users_states = r.users_states
<1>1. NoOrders \in OrderBooks  BY DEF NoOrders, OrderBooks
<1>. QED BY <1>1 DEF ClearRound, RoundStates

LEMMA ApplyActionBooks ==
  ASSUME NEW r \in RoundStates, NEW action \in EventActions(Settings),
         NEW targets \in SUBSET Players
  PROVE  /\ ApplyAction(r, action, targets) \in RoundStates
         /\ BooksOf(r.users_states) => BooksOf(ApplyAction(r, action, targets).users_states)
<1>1. CASE action.type = "ShowMessage"
  BY <1>1 DEF ApplyAction
<1>2. CASE action.type = "ChangeSettings"
  <2>1. action.new_settings \in Settings  BY <1>2 DEF EventActions
  <2>2. ApplyAction(r, action, targets) = [r EXCEPT !.settings = action.new_settings]
    BY <1>2 DEF ApplyAction
  <2>3. /\ [r EXCEPT !.settings = action.new_settings] \in RoundStates
        /\ [r EXCEPT !.settings = action.new_settings].users_states = r.users_states
    BY <2>1 DEF RoundStates
  <2>. QED BY <2>2, <2>3
<1>3. CASE action.type = "AddResource"
  <2>1. action.resource \in Resources /\ action.value \in Int
    BY <1>3 DEF EventActions
  <2>. DEFINE given == IF action.target = "EventTarget" THEN targets ELSE Players
              users == [p \in Players |->
                          IF p \in given
                            THEN GrantResource(r.users_states[p], action.resource, action.value)
                            ELSE r.users_states[p]]
              done  == [r EXCEPT !.users_states = users]
  <2>2. ApplyAction(r, action, targets) = done  BY <1>3 DEF ApplyAction
  <2>3. ASSUME NEW p \in Players
        PROVE  /\ users[p] \in UserStates
               /\ Balanced(p, r.users_states[p]) => Balanced(p, users[p])
    <3>1. r.users_states[p] \in UserStates  BY RoundStateFields
    <3>. QED BY <2>1, <3>1, GrantBooks
  <2>4. users \in [Players -> UserStates]  BY <2>3
  <2>5. BooksOf(r.users_states) => BooksOf(users)  BY <2>3 DEF BooksOf
  <2>. HIDE DEF users
  <2>6. done \in RoundStates /\ done.users_states = users  BY <2>4 DEF RoundStates
  <2>. HIDE DEF done
  <2>. QED BY <2>2, <2>5, <2>6
<1>. QED BY <1>1, <1>2, <1>3 DEF EventActions

\* An event never targets anybody but the players of the game.
LEMMA VerdictTargets ==
  ASSUME NEW round, NEW users, DOMAIN users = Players, NEW last,
         NEW cond \in EventConditions
  PROVE  evaluate_cond(round, users, last, cond).targets \subseteq Players
<1>1. CASE cond.type = "RoundMet"
  BY <1>1 DEF evaluate_cond, evaluate_round_cond
<1>2. CASE cond.type = "ValueExceed"
  <2>1. evaluate_value_exceed(users, cond).targets \subseteq Players
    BY DEF evaluate_value_exceed
  <2>. QED BY <1>2, <2>1 DEF evaluate_cond
<1>3. CASE cond.type = "SingleChange"
  BY <1>3 DEF evaluate_cond, evaluate_single_change
<1>. QED BY <1>1, <1>2, <1>3 DEF EventConditions

-----------------------------------------------------------------------------
(***************************************************************************)
(* Type correctness.  The one thing TypeOK does not say of itself: an      *)
(* order that was acknowledged had a class and a price.                    *)
(***************************************************************************)
TypeInv ==
  /\ TypeOK
  /\ \A p \in Players : pc[p] = "acked" => ~Rejected(snap[p], p, order[p])

LEMMA EmptyAgendaType == EmptyAgenda \in Agendas
BY DEF EmptyAgenda, Agendas, GameEvents

LEMMA InitialUsers ==
  InitialUserStates \in [Players -> UserStates] /\ BooksOf(InitialUserStates)
<1>1. ASSUME NEW p \in Players
      PROVE  /\ InitialUserState(p) \in UserStates
             /\ Balanced(p, InitialUserState(p))
  <2>. DEFINE class == InitialClasses[p]
  <2>1. class \in Classes  BY ClassesAssumption
  <2>2. /\ StartMoney[class] \in Int /\ StartMagazine[class] \in Int
        /\ IncomingStart[class] \in Seq(Int) /\ RequestedStart[class] \in Seq(Int)
    BY <2>1, StartAssumption
  <2>. QED BY <2>2 DEF InitialUserState, UserStates, Balanced
<1>. QED BY <1>1 DEF InitialUserStates, BooksOf

LEMMA InitTypeInv == Init => TypeInv
<1>. SUFFICES ASSUME Init PROVE TypeInv
  OBVIOUS
<1>1. settings_db \in Settings  BY SettingsAssumption DEF Init
<1>2. NoOrders \in OrderBooks  BY DEF NoOrders, OrderBooks
<1>3. InitialClasses \in PlayerClasses  BY ClassesAssumption DEF PlayerClasses
<1>4. rs \in RoundStates
  <2>1. PICK settings \in SettingsChoices :
          rs = [round |-> 0, players_finished |-> 0, users_states |-> InitialUserStates,
                round_orders |-> NoOrders, send_orders |-> NoOrders,
                player_classes |-> InitialClasses, settings |-> settings,
                demand |-> InitialDemand]
    BY DEF Init
  <2>2. settings \in Settings  BY SettingsAssumption
  <2>. QED
    BY <2>1, <2>2, <1>2, <1>3, InitialUsers, StartAssumption DEF RoundStates
<1>5. game_states \in Seq(GameRows)
  <2>1. [round |-> 0, users_states |-> InitialUserStates] \in GameRows
    BY InitialUsers DEF GameRows
  <2>. QED BY <2>1 DEF Init
<1>6. agenda \in [Players -> Agendas]  BY EmptyAgendaType DEF Init
<1>7. pc = [p \in Players |-> "idle"] /\ snap = [p \in Players |-> NoSnapshot]
      /\ order = [p \in Players |-> NoOrder]
  BY DEF Init
<1>8. pc \in [Players -> Labels] /\ snap \in [Players -> RoundStates \cup {NoSnapshot}]
      /\ order \in [Players -> Messages \cup {NoOrder}]
  BY <1>7 DEF Labels
<1>9. waiting \subseteq Players /\ saved \subseteq Players /\ over \in BOOLEAN
      /\ extra \in 0..MaxExtra /\ faults \in 0..MaxFaults
  <2>1. waiting = {} /\ saved = {} /\ over = FALSE /\ extra = 0 /\ faults = 0
    BY DEF Init
  <2>2. 0 \in 0..MaxExtra /\ 0 \in 0..MaxFaults  BY BoundsAssumption
  <2>. QED BY <2>1, <2>2
<1>10. \A p \in Players : pc[p] = "idle"  BY <1>7
<1>. QED BY <1>1, <1>4, <1>5, <1>6, <1>8, <1>9, <1>10 DEF TypeInv, TypeOK

\* The control part of TypeInv survives the end of a task.
LEMMA ReturnType ==
  ASSUME TypeInv, NEW p \in Players, Return(p),
         rs' \in RoundStates, settings_db' = settings_db,
         game_states' = game_states, waiting' \subseteq Players,
         saved' \subseteq Players, over' \in BOOLEAN,
         extra' \in 0..MaxExtra, faults' \in 0..MaxFaults
  PROVE  TypeInv'
<1>1. /\ pc' = [pc EXCEPT ![p] = "idle"] /\ snap' = [snap EXCEPT ![p] = NoSnapshot]
      /\ order' = [order EXCEPT ![p] = NoOrder]
      /\ agenda' = [agenda EXCEPT ![p] = EmptyAgenda]
  BY DEF Return
<1>2. /\ pc \in [Players -> Labels] /\ snap \in [Players -> RoundStates \cup {NoSnapshot}]
      /\ order \in [Players -> Messages \cup {NoOrder}] /\ agenda \in [Players -> Agendas]
  BY DEF TypeInv, TypeOK
<1>3. /\ pc' \in [Players -> Labels] /\ snap' \in [Players -> RoundStates \cup {NoSnapshot}]
      /\ order' \in [Players -> Messages \cup {NoOrder}] /\ agenda' \in [Players -> Agendas]
  BY <1>1, <1>2, EmptyAgendaType DEF Labels
<1>4. \A q \in Players :
        /\ q = p => pc'[q] = "idle"
        /\ q # p => pc'[q] = pc[q] /\ snap'[q] = snap[q] /\ order'[q] = order[q]
  BY <1>1, <1>2
<1>5. \A q \in Players :
        /\ pc'[q] # "idle" => snap'[q] \in RoundStates
        /\ pc'[q] \in {"cloned", "acked"} => order'[q] \in Messages
        /\ pc'[q] = "acked" => ~Rejected(snap'[q], q, order'[q])
  BY <1>4 DEF TypeInv, TypeOK
<1>6. settings_db' \in Settings /\ game_states' \in Seq(GameRows)
  BY DEF TypeInv, TypeOK
<1>. QED BY <1>3, <1>5, <1>6 DEF TypeInv, TypeOK

\* It survives every step that moves one task to another await.
LEMMA MoveType ==
  ASSUME TypeInv, NEW p \in Players, NEW label \in Labels \ {"idle"}, Goto(p, label),
         \A q \in Players \ {p} : snap'[q] = snap[q] /\ order'[q] = order[q],
         snap'[p] \in RoundStates,
         label \in {"cloned", "acked"} => order'[p] \in Messages,
         label = "acked" => ~Rejected(snap'[p], p, order'[p]),
         snap' \in [Players -> RoundStates \cup {NoSnapshot}],
         order' \in [Players -> Messages \cup {NoOrder}],
         agenda' \in [Players -> Agendas],
         rs' \in RoundStates, settings_db' \in Settings,
         game_states' \in Seq(GameRows), waiting' \subseteq Players,
         saved' \subseteq Players, over' \in BOOLEAN,
         extra' \in 0..MaxExtra, faults' \in 0..MaxFaults
  PROVE  TypeInv'
<1>1. pc' = [pc EXCEPT ![p] = label] /\ pc \in [Players -> Labels]
  BY DEF Goto, TypeInv, TypeOK
<1>2. pc' \in [Players -> Labels]  BY <1>1
<1>3. \A q \in Players :
        /\ q = p => pc'[q] = label
        /\ q # p => pc'[q] = pc[q] /\ snap'[q] = snap[q] /\ order'[q] = order[q]
  BY <1>1
<1>4. \A q \in Players :
        /\ pc'[q] # "idle" => snap'[q] \in RoundStates
        /\ pc'[q] \in {"cloned", "acked"} => order'[q] \in Messages
        /\ pc'[q] = "acked" => ~Rejected(snap'[q], q, order'[q])
  BY <1>3 DEF TypeInv, TypeOK
<1>. QED BY <1>2, <1>4 DEF TypeInv, TypeOK

LEMMA TypeFacts ==
  ASSUME TypeInv
  PROVE  /\ rs \in RoundStates /\ settings_db \in Settings /\ game_states \in Seq(GameRows)
         /\ pc \in [Players -> Labels] /\ snap \in [Players -> RoundStates \cup {NoSnapshot}]
         /\ order \in [Players -> Messages \cup {NoOrder}] /\ agenda \in [Players -> Agendas]
         /\ waiting \subseteq Players /\ saved \subseteq Players /\ over \in BOOLEAN
         /\ extra \in 0..MaxExtra /\ faults \in 0..MaxFaults
         /\ \A p \in Players :
              /\ pc[p] # "idle" => snap[p] \in RoundStates
              /\ pc[p] \in {"cloned", "acked"} => order[p] \in Messages
              /\ pc[p] = "acked" => ~Rejected(snap[p], p, order[p])
BY DEF TypeInv, TypeOK

LEMMA NextTypeInv == TypeInv /\ [Next]_vars => TypeInv'
<1>. SUFFICES ASSUME TypeInv, [Next]_vars PROVE TypeInv'
  OBVIOUS
<1>. USE TypeFacts
<1>1. ASSUME NEW p \in Players, NEW o \in Messages, ReceiveRoundEnd(p, o)
      PROVE  TypeInv'
  <2>1. extra' \in 0..MaxExtra
    BY <1>1, BoundsAssumption DEF ReceiveRoundEnd
  <2>2. snap' = [snap EXCEPT ![p] = rs] /\ order' = [order EXCEPT ![p] = o]
    BY <1>1 DEF ReceiveRoundEnd
  <2>. QED BY <1>1, <2>1, <2>2, MoveType DEF ReceiveRoundEnd, Labels
<1>2. ASSUME NEW p \in Players, RejectOrder(p) PROVE TypeInv'
  BY <1>2, ReturnType DEF RejectOrder
<1>3. ASSUME NEW p \in Players, AckOrder(p) PROVE TypeInv'
  <2>1. waiting' \subseteq Players  BY <1>3 DEF AckOrder
  <2>. QED BY <1>3, <2>1, MoveType DEF AckOrder, Labels
<1>4. ASSUME NEW p \in Players, FailOrder(p) PROVE TypeInv'
  BY <1>4, ReturnType DEF FailOrder
<1>5. ASSUME NEW p \in Players, SaveOrder(p) PROVE TypeInv'
  <2>. DEFINE done == RecordOrder(snap[p], p, order[p])
  <2>1. done \in RoundStates
    BY <1>5, RecordOrderBooks DEF SaveOrder
  <2>2. rs' = done /\ saved' \subseteq Players  BY <1>5 DEF SaveOrder
  <2>3. CASE done.players_finished = Cardinality(Players)
    <3>1. /\ Goto(p, "finishing") /\ snap' = [snap EXCEPT ![p] = done]
          /\ order' = [order EXCEPT ![p] = NoOrder] /\ agenda' = agenda
      BY <1>5, <2>3 DEF SaveOrder
    <3>. HIDE DEF done
    <3>. QED BY <1>5, <2>1, <2>2, <3>1, MoveType DEF SaveOrder, Labels
  <2>4. CASE done.players_finished # Cardinality(Players)
    <3>1. Return(p)  BY <1>5, <2>4 DEF SaveOrder
    <3>. HIDE DEF done
    <3>. QED BY <1>5, <2>1, <2>2, <3>1, ReturnType DEF SaveOrder
  <2>. QED BY <2>3, <2>4
<1>6. ASSUME NEW p \in Players, FinishRound(p) PROVE TypeInv'
  <2>1. rs' \in RoundStates
    BY <1>6, CloseBooksBooks DEF FinishRound
  <2>2. snap' = [snap EXCEPT ![p] = rs'] /\ saved' = {}
    BY <1>6 DEF FinishRound
  <2>. QED BY <1>6, <2>1, <2>2, MoveType DEF FinishRound, Labels
<1>7. ASSUME NEW p \in Players, FinishRoundFails(p) PROVE TypeInv'
  BY <1>7, ReturnType DEF FinishRoundFails
<1>8. ASSUME NEW p \in Players, PersistRound(p) PROVE TypeInv'
  <2>. DEFINE row == [round |-> snap[p].round, users_states |-> snap[p].users_states]
  <2>1. snap[p] \in RoundStates  BY <1>8 DEF PersistRound
  <2>2. row \in GameRows  BY <2>1, RoundStateFields DEF GameRows
  <2>3. game_states' = Append(game_states, row)  BY <1>8 DEF PersistRound
  <2>4. game_states' \in Seq(GameRows)  BY <2>2, <2>3
  <2>. QED BY <1>8, <2>1, <2>4, MoveType DEF PersistRound, Labels
<1>9. ASSUME NEW p \in Players, FinishGame(p) PROVE TypeInv'
  BY <1>9, ReturnType DEF FinishGame
<1>10. ASSUME NEW p \in Players, ProcessEvents(p) PROVE TypeInv'
  <2>1. agenda' \in [Players -> Agendas]
    <3>. DEFINE new == [agenda[p] EXCEPT !.events = EventsList]
    <3>1. agenda[p] \in Agendas  OBVIOUS
    <3>2. EventsList \in GameEvents(Settings)  BY SettingsAssumption
    <3>3. new \in Agendas  BY <3>1, <3>2 DEF Agendas
    <3>4. agenda' = [agenda EXCEPT ![p] = new]  BY <1>10 DEF ProcessEvents
    <3>. HIDE DEF new
    <3>. QED BY <3>3, <3>4
  <2>. QED BY <1>10, <2>1, MoveType DEF ProcessEvents, Labels
<1>11. ASSUME NEW p \in Players, EvaluateEvent(p) PROVE TypeInv'
  <2>. DEFINE event == Head(agenda[p].events)
              rest  == Tail(agenda[p].events)
  <2>1. /\ agenda[p].events \in GameEvents(Settings)
        /\ agenda[p].events # <<>>
        /\ snap[p] \in RoundStates
    BY <1>11 DEF EvaluateEvent, Agendas
  <2>2. /\ event.condition \in EventConditions /\ event.actions \in Seq(EventActions(Settings))
        /\ rest \in GameEvents(Settings)
    <3>. DEFINE E == [condition : EventConditions, actions : Seq(EventActions(Settings))]
                list == agenda[p].events
    <3>1. list \in Seq(E) /\ list # <<>>  BY <2>1 DEF GameEvents
    <3>. HIDE DEF E, list
    <3>2. Head(list) \in E /\ Tail(list) \in Seq(E)  BY <3>1
    <3>3. event \in E /\ rest \in Seq(E)  BY <3>2 DEF list
    <3>. HIDE DEF event, rest
    <3>. QED BY <3>3 DEF E, GameEvents
  <2>3. PICK i \in DOMAIN game_states :
          LET verdict == evaluate_cond(snap[p].round, snap[p].users_states,
                                       game_states[i].users_states, event.condition)
          IN  agenda' = [agenda EXCEPT ![p] =
                [events  |-> rest,
                 actions |-> IF verdict.met THEN event.actions ELSE <<>>,
                 targets |-> IF verdict.met THEN verdict.targets ELSE {}]]
    BY <1>11 DEF EvaluateEvent
  <2>. DEFINE verdict == evaluate_cond(snap[p].round, snap[p].users_states,
                                       game_states[i].users_states, event.condition)
              actions == IF verdict.met THEN event.actions ELSE <<>>
              targets == IF verdict.met THEN verdict.targets ELSE {}
  <2>4. verdict.targets \subseteq Players
    BY <2>1, <2>2, RoundStateFields, VerdictTargets
  <2>5. actions \in Seq(EventActions(Settings)) /\ targets \in SUBSET Players
    BY <2>2, <2>4
  <2>6. agenda' = [agenda EXCEPT ![p] = [events |-> rest, actions |-> actions, targets |-> targets]]
    BY <2>3
  <2>. HIDE DEF actions, targets, rest, event, verdict
  <2>7. [events |-> rest, actions |-> actions, targets |-> targets] \in Agendas
    BY <2>2, <2>5 DEF Agendas
  <2>8. agenda' \in [Players -> Agendas]  BY <2>6, <2>7
  <2>. QED BY <1>11, <2>8 DEF EvaluateEvent, TypeInv, TypeOK
<1>12. ASSUME NEW p \in Players, ExecuteAction(p) PROVE TypeInv'
  <2>. DEFINE action == Head(agenda[p].actions)
  <2>1. /\ agenda[p].actions \in Seq(EventActions(Settings)) /\ agenda[p].actions # <<>>
        /\ agenda[p].targets \in SUBSET Players /\ snap[p] \in RoundStates
    BY <1>12 DEF ExecuteAction, Agendas
  <2>2. action \in EventActions(Settings) /\ Tail(agenda[p].actions) \in Seq(EventActions(Settings))
    BY <2>1
  <2>3. ApplyAction(snap[p], action, agenda[p].targets) \in RoundStates
    BY <2>1, <2>2, ApplyActionBooks
  <2>4. settings_db' \in Settings
    BY <1>12, <2>2 DEF ExecuteAction, EventActions
  <2>5. agenda' \in [Players -> Agendas]
    <3>. DEFINE tail == Tail(agenda[p].actions)
                new  == [agenda[p] EXCEPT !.actions = tail]
    <3>1. tail \in Seq(EventActions(Settings))  BY <2>2
    <3>2. agenda' = [agenda EXCEPT ![p] = new]  BY <1>12 DEF ExecuteAction
    <3>. HIDE DEF tail
    <3>3. agenda[p] \in Agendas  OBVIOUS
    <3>4. new \in Agendas  BY <3>1, <3>3 DEF Agendas
    <3>. HIDE DEF new
    <3>. QED BY <3>2, <3>4
  <2>6. /\ snap' = [snap EXCEPT ![p] = ApplyAction(snap[p], action, agenda[p].targets)]
        /\ pc[p] = "events"
    BY <1>12 DEF ExecuteAction
  <2>7. snap' \in [Players -> RoundStates \cup {NoSnapshot}] /\ snap'[p] \in RoundStates
        /\ \A q \in Players \ {p} : snap'[q] = snap[q]
    BY <2>3, <2>6
  <2>8. \A q \in Players :
          /\ pc[q] # "idle" => snap'[q] \in RoundStates
          /\ pc[q] = "acked" => ~Rejected(snap'[q], q, order[q])
    BY <2>6, <2>7
  <2>. QED BY <1>12, <2>4, <2>5, <2>7, <2>8 DEF ExecuteAction, TypeInv, TypeOK
<1>13. ASSUME NEW p \in Players, NewRound(p) PROVE TypeInv'
  <2>1. rs' \in RoundStates  BY <1>13, ClearRoundBooks DEF NewRound
  <2>. QED BY <1>13, <2>1, MoveType DEF NewRound, Labels
<1>14. ASSUME NEW p \in Players, AnnounceRound(p) PROVE TypeInv'
  <2>1. waiting' \subseteq Players  BY <1>14 DEF AnnounceRound
  <2>. QED BY <1>14, <2>1, ReturnType DEF AnnounceRound
<1>15. ASSUME NEW p \in Players, Interrupt(p) PROVE TypeInv'
  <2>1. faults' \in 0..MaxFaults  BY <1>15, BoundsAssumption DEF Interrupt
  <2>. QED BY <1>15, <2>1, ReturnType DEF Interrupt
<1>16. ASSUME NEW p \in Players, NEW classes \in ClassMaps, UpdateClasses(p, classes)
       PROVE  TypeInv'
  <2>1. rs' \in RoundStates
    BY <1>16, ClassesAssumption DEF UpdateClasses, RoundStates
  <2>. QED BY <1>16, <2>1 DEF UpdateClasses, TypeInv, TypeOK
<1>17. ASSUME NEW settings \in SettingsUpdates, UpdateSettings(settings)
       PROVE  TypeInv'
  <2>1. settings_db' \in Settings  BY <1>17, SettingsAssumption DEF UpdateSettings
  <2>. QED BY <1>17, <2>1 DEF UpdateSettings, TypeInv, TypeOK
<1>18. CASE UNCHANGED vars
  BY <1>18 DEF vars, TypeInv, TypeOK
<1>. QED
  BY <1>1, <1>2, <1>3, <1>4, <1>5, <1>6, <1>7, <1>8, <1>9, <1>10, <1>11, <1>12,
     <1>13, <1>14, <1>15, <1>16, <1>17, <1>18 DEF Next, HandlerStep

\* In every state the program can reach the variables have their types, and
\* no task works on an order it should have rejected.
THEOREM TypeCorrect == Spec => []TypeOK
<1>1. Init => TypeInv  BY InitTypeInv
<1>2. TypeInv /\ [Next]_vars => TypeInv'  BY NextTypeInv
<1>3. TypeInv => TypeOK  BY DEF TypeInv
<1>. QED BY <1>1, <1>2, <1>3, PTL DEF Spec

-----------------------------------------------------------------------------
(***************************************************************************)
(* The books.  Stated over whole user_states maps the invariant is         *)
(* inductive given the types: every step either carries a map over as it   *)
(* is or builds the next one with an operator that keeps the books.        *)
(***************************************************************************)
BooksInv ==
  /\ BooksOf(rs.users_states)
  /\ \A p \in Players : pc[p] # "idle" => BooksOf(snap[p].users_states)
  /\ \A i \in DOMAIN game_states : BooksOf(game_states[i].users_states)

LEMMA BooksInvMeaning == BooksInv <=> BooksBalance
BY DEF BooksInv, BooksBalance, BooksOf, Copies

LEMMA BooksReturn ==
  ASSUME TypeInv, BooksInv, NEW p \in Players, Return(p),
         BooksOf(rs'.users_states), game_states' = game_states
  PROVE  BooksInv'
<1>1. \A q \in Players : pc'[q] # "idle" => q # p /\ pc[q] # "idle" /\ snap'[q] = snap[q]
  BY TypeFacts DEF Return
<1>. QED BY <1>1 DEF BooksInv

LEMMA BooksMove ==
  ASSUME BooksInv, NEW p \in Players,
         \A q \in Players \ {p} : pc'[q] = pc[q] /\ snap'[q] = snap[q],
         BooksOf(snap'[p].users_states), BooksOf(rs'.users_states),
         \A i \in DOMAIN game_states' : BooksOf(game_states'[i].users_states)
  PROVE  BooksInv'
BY DEF BooksInv

LEMMA NextBooksInv == TypeInv /\ BooksInv /\ [Next]_vars => BooksInv'
<1>. SUFFICES ASSUME TypeInv, BooksInv, [Next]_vars PROVE BooksInv'
  OBVIOUS
<1>. USE TypeFacts
<1>0. /\ BooksOf(rs.users_states)
      /\ \A p \in Players : pc[p] # "idle" => BooksOf(snap[p].users_states)
      /\ \A i \in DOMAIN game_states : BooksOf(game_states[i].users_states)
  BY DEF BooksInv
<1>1. ASSUME NEW p \in Players, NEW o \in Messages, ReceiveRoundEnd(p, o)
      PROVE  BooksInv'
  BY <1>0, <1>1, BooksMove DEF ReceiveRoundEnd, Goto
<1>2. ASSUME NEW p \in Players, RejectOrder(p) PROVE BooksInv'
  BY <1>0, <1>2, BooksReturn DEF RejectOrder
<1>3. ASSUME NEW p \in Players, AckOrder(p) PROVE BooksInv'
  BY <1>0, <1>3, BooksMove DEF AckOrder, Goto
<1>4. ASSUME NEW p \in Players, FailOrder(p) PROVE BooksInv'
  BY <1>0, <1>4, BooksReturn DEF FailOrder
<1>5. ASSUME NEW p \in Players, SaveOrder(p) PROVE BooksInv'
  <2>. DEFINE done == RecordOrder(snap[p], p, order[p])
  <2>1. BooksOf(done.users_states)
    BY <1>0, <1>5, RecordOrderBooks DEF SaveOrder
  <2>2. rs' = done /\ game_states' = game_states  BY <1>5 DEF SaveOrder
  <2>3. CASE done.players_finished = Cardinality(Players)
    <3>1. Goto(p, "finishing") /\ snap' = [snap EXCEPT ![p] = done]
      BY <1>5, <2>3 DEF SaveOrder
    <3>. HIDE DEF done
    <3>. QED BY <1>0, <2>1, <2>2, <3>1, BooksMove DEF Goto
  <2>4. CASE done.players_finished # Cardinality(Players)
    <3>1. Return(p)  BY <1>5, <2>4 DEF SaveOrder
    <3>. HIDE DEF done
    <3>. QED BY <2>1, <2>2, <3>1, BooksReturn
  <2>. QED BY <2>3, <2>4
<1>6. ASSUME NEW p \in Players, FinishRound(p) PROVE BooksInv'
  <2>1. BooksOf(rs'.users_states)
    BY <1>0, <1>6, CloseBooksBooks DEF FinishRound
  <2>. QED BY <1>0, <1>6, <2>1, BooksMove DEF FinishRound, Goto
<1>7. ASSUME NEW p \in Players, FinishRoundFails(p) PROVE BooksInv'
  BY <1>0, <1>7, BooksReturn DEF FinishRoundFails
<1>8. ASSUME NEW p \in Players, PersistRound(p) PROVE BooksInv'
  <2>. DEFINE row == [round |-> snap[p].round, users_states |-> snap[p].users_states]
  <2>1. game_states' = Append(game_states, row) /\ pc[p] # "idle" /\ snap' = snap /\ rs' = rs
    BY <1>8 DEF PersistRound
  <2>2. BooksOf(row.users_states)  BY <1>0, <2>1
  <2>. HIDE DEF row
  <2>3. \A i \in DOMAIN game_states' : BooksOf(game_states'[i].users_states)
    BY <1>0, <2>1, <2>2
  <2>. QED BY <1>0, <1>8, <2>1, <2>3, BooksMove DEF PersistRound, Goto
<1>9. ASSUME NEW p \in Players, FinishGame(p) PROVE BooksInv'
  BY <1>0, <1>9, BooksReturn DEF FinishGame
<1>10. ASSUME NEW p \in Players, ProcessEvents(p) PROVE BooksInv'
  BY <1>0, <1>10, BooksMove DEF ProcessEvents, Goto
<1>11. ASSUME NEW p \in Players, EvaluateEvent(p) PROVE BooksInv'
  BY <1>0, <1>11, BooksMove DEF EvaluateEvent
<1>12. ASSUME NEW p \in Players, ExecuteAction(p) PROVE BooksInv'
  <2>. DEFINE action == Head(agenda[p].actions)
              new    == ApplyAction(snap[p], action, agenda[p].targets)
  <2>1. /\ agenda[p].actions \in Seq(EventActions(Settings)) /\ agenda[p].actions # <<>>
        /\ agenda[p].targets \in SUBSET Players /\ snap[p] \in RoundStates
        /\ BooksOf(snap[p].users_states)
    BY <1>0, <1>12 DEF ExecuteAction, Agendas
  <2>2. action \in EventActions(Settings)  BY <2>1
  <2>3. BooksOf(new.users_states)  BY <2>1, <2>2, ApplyActionBooks
  <2>4. /\ snap' = [snap EXCEPT ![p] = new] /\ rs' = rs /\ pc' = pc
        /\ game_states' = game_states
    BY <1>12 DEF ExecuteAction
  <2>. HIDE DEF new
  <2>. QED BY <1>0, <2>3, <2>4, BooksMove
<1>13. ASSUME NEW p \in Players, NewRound(p) PROVE BooksInv'
  <2>1. BooksOf(rs'.users_states)
    BY <1>0, <1>13, ClearRoundBooks DEF NewRound
  <2>. QED BY <1>0, <1>13, <2>1, BooksMove DEF NewRound, Goto
<1>14. ASSUME NEW p \in Players, AnnounceRound(p) PROVE BooksInv'
  BY <1>0, <1>14, BooksReturn DEF AnnounceRound
<1>15. ASSUME NEW p \in Players, Interrupt(p) PROVE BooksInv'
  BY <1>0, <1>15, BooksReturn DEF Interrupt
<1>16. ASSUME NEW p \in Players, NEW classes \in ClassMaps, UpdateClasses(p, classes)
       PROVE  BooksInv'
  <2>1. rs'.users_states = rs.users_states
    BY <1>16 DEF UpdateClasses, RoundStates
  <2>. QED BY <1>0, <1>16, <2>1 DEF UpdateClasses, BooksInv
<1>17. ASSUME NEW settings \in SettingsUpdates, UpdateSettings(settings)
       PROVE  BooksInv'
  BY <1>0, <1>17 DEF UpdateSettings, BooksInv
<1>18. CASE UNCHANGED vars
  BY <1>18 DEF vars, BooksInv
<1>. QED
  BY <1>1, <1>2, <1>3, <1>4, <1>5, <1>6, <1>7, <1>8, <1>9, <1>10, <1>11, <1>12,
     <1>13, <1>14, <1>15, <1>16, <1>17, <1>18 DEF Next, HandlerStep

\* However clients hurry, tasks overwrite each other's results and are cut
\* off, nobody's money or goods are lost or made in the books of a round.
THEOREM BooksAlwaysBalance == Spec => []BooksBalance
<1>1. Init => TypeInv /\ BooksInv
  <2>. SUFFICES ASSUME Init PROVE BooksInv
    BY InitTypeInv
  <2>1. rs.users_states = InitialUserStates  BY DEF Init
  <2>. QED BY <2>1, InitialUsers DEF Init, BooksInv
<1>2. TypeInv /\ BooksInv /\ [Next]_vars => (TypeInv /\ BooksInv)'
  BY NextTypeInv, NextBooksInv
<1>3. BooksInv => BooksBalance  BY BooksInvMeaning
<1>. QED BY <1>1, <1>2, <1>3, PTL DEF Spec

-----------------------------------------------------------------------------
(***************************************************************************)
(* The stock.  In a game that is set up with stocks, queues, orders and    *)
(* styles that are not negative, and whose events give money or            *)
(* performance but neither stock nor debts, no copy ever holds a negative  *)
(* stock, a negative debt, or a stock together with a debt.                *)
(***************************************************************************)
NatStyles ==
         [type : {"Default"}]
  \cup   [type : {"Linear"}, increase : Nat]
  \cup   [type : {"Multiplication"}, increase : Nat]
  \cup   [type : {"Exponential"}, power : {n \in Int : n <= MaxPower}, modulator : Nat]
  \cup   [type : {"List"}, list : Seq(Nat) \ {<<>>}]

PlainSettings ==
  {s \in Settings : s.demand_style \in NatStyles /\ s.supply_style \in NatStyles}

PlainActions ==
         [type : {"ShowMessage"}, target : ActionTargets]
  \cup   [type : {"ChangeSettings"}, new_settings : PlainSettings]
  \cup   [type : {"AddResource"}, resource : {"Money", "Performance"},
          target : ActionTargets, value : Int]

PlainEvents == [condition : EventConditions, actions : Seq(PlainActions)]

PlainGame ==
  /\ OrderValues \subseteq Nat
  /\ StartMagazine \in [Classes -> Nat]
  /\ IncomingStart \in [Classes -> Seq(Nat)] /\ RequestedStart \in [Classes -> Seq(Nat)]
  /\ InitialDemand \in Nat /\ InitialSupply \in Nat
  /\ SettingsChoices \subseteq PlainSettings /\ EventsList \in Seq(PlainEvents)

\* Demand that is not negative stays so.
LEMMA DemandNat ==
  ASSUME NEW last \in Nat, NEW style \in NatStyles
  PROVE  generate_demand(last, style) \in Nat
<1>1. CASE style.type = "Default"
  <2>1. TruncDiv(3 * last, 2) \in Nat  BY DEF TruncDiv
  <2>. QED BY <1>1, <2>1 DEF generate_demand
<1>2. CASE style.type = "Linear"
  <2>1. style.increase \in Nat  BY <1>2 DEF NatStyles
  <2>. QED BY <1>2, <2>1 DEF generate_demand
<1>3. CASE style.type = "Multiplication"
  <2>1. style.increase \in Nat  BY <1>3 DEF NatStyles
  <2>2. last * style.increase \in Nat  BY <2>1
  <2>. QED BY <1>3, <2>2 DEF generate_demand
<1>4. CASE style.type = "Exponential"
  <2>1. style.power \in Int /\ style.power <= MaxPower /\ style.modulator \in Nat
    BY <1>4 DEF NatStyles
  <2>2. EPow(style.power) \in Nat
    <3>1. style.power < 0 \/ style.power = 0 \/ style.power = 1 \/ style.power = 2
            \/ style.power = 3 \/ style.power = 4 \/ style.power = 5 \/ style.power = 6
      BY <2>1 DEF MaxPower
    <3>. QED BY <3>1 DEF EPow
  <2>3. style.modulator * EPow(style.power) \in Nat  BY <2>1, <2>2
  <2>4. last * (style.modulator * EPow(style.power)) \in Nat  BY <2>3
  <2>. QED BY <1>4, <2>4 DEF generate_demand
<1>5. CASE style.type = "List"
  <2>1. style.list \in Seq(Nat) /\ style.list # <<>>  BY <1>5 DEF NatStyles
  <2>2. style.list[Len(style.list)] \in Nat  BY <2>1
  <2>. QED BY <1>5, <2>2 DEF generate_demand
<1>. QED BY <1>1, <1>2, <1>3, <1>4, <1>5 DEF NatStyles

\* A settlement serves debts first, and owes nothing it could have served.
LEMMA SettleKeepsStock ==
  ASSUME NEW stock \in Nat, NEW back \in Nat, NEW request \in Nat
  PROVE  LET s == SettleRequest(stock, back, request) IN
         /\ s.stock \in Nat /\ s.back \in Nat /\ s.sent \in Nat
         /\ s.stock = 0 \/ s.back = 0
<1>. DEFINE paid == PayBackOrders(stock, back)
<1>1. /\ paid.stock \in Nat /\ paid.back \in Nat /\ paid.sent \in Nat
      /\ paid.stock = 0 \/ paid.back = 0
  BY DEF PayBackOrders
<1>. HIDE DEF paid
<1>2. CASE paid.stock > request  BY <1>1, <1>2 DEF SettleRequest, paid
<1>3. CASE ~(paid.stock > request)  BY <1>1, <1>3 DEF SettleRequest, paid
<1>. QED BY <1>2, <1>3

StockOfUser(us) ==
  /\ us.magazine_state \in Nat /\ us.back_order_sum \in Nat
  /\ us.magazine_state = 0 \/ us.back_order_sum = 0
  /\ us.incoming_orders \in Seq(Nat) /\ us.requested_orders \in Seq(Nat)

StockOf(r) ==
  /\ \A p \in Players : StockOfUser(r.users_states[p])
  /\ \A s \in Stations : /\ r.round_orders[s] \in Nat \cup {NoOrder}
                         /\ r.send_orders[s] \in Nat \cup {NoOrder}
  /\ r.demand \in Nat /\ r.settings \in PlainSettings

StockInv ==
  /\ StockOf(rs)
  /\ \A p \in Players : pc[p] # "idle" => StockOf(snap[p])
  /\ \A p \in Players : /\ agenda[p].events \in Seq(PlainEvents)
                        /\ agenda[p].actions \in Seq(PlainActions)

LEMMA StockInvMeaning == StockInv => StockSettled
BY DEF StockInv, StockOf, StockOfUser, StockSettled, Copies

LEMMA FrontLastNat ==
  ASSUME NEW q \in Seq(Nat), q # <<>>
  PROVE  Front(q) \in Seq(Nat) /\ Last(q) \in Nat
BY DEF Front, Last

LEMMA NothingToDo == <<>> \in Seq(PlainEvents) /\ <<>> \in Seq(PlainActions)
OBVIOUS

LEMMA RecordOrderStock ==
  ASSUME PlainGame, NEW r \in RoundStates, NEW p \in Players, NEW o \in Messages,
         QueuesReady(r.users_states[p]), StockOf(r)
  PROVE  StockOf(RecordOrder(r, p, o))
<1>. DEFINE us       == r.users_states[p]
            cost     == r.settings.magazine_cost[r.player_classes[p]]
            new      == SettleUser(us, o, cost)
            received == Last(us.incoming_orders)
            request  == Last(us.requested_orders)
            settled  == SettleRequest(us.magazine_state + received, us.back_order_sum, request)
            done     == RecordOrder(r, p, o)
<1>1. /\ done.round_orders = [r.round_orders EXCEPT ![p] = o.value]
      /\ done.send_orders = [r.send_orders EXCEPT ![p] = Shipment(us)]
      /\ done.users_states = [r.users_states EXCEPT ![p] = new]
      /\ done.demand = r.demand /\ done.settings = r.settings
  BY DEF RecordOrder, RoundStates
<1>2. o.value \in Nat  BY DEF Messages, PlainGame
<1>3. us \in UserStates /\ StockOfUser(us)  BY RoundStateFields DEF StockOf
<1>4. /\ us.incoming_orders \in Seq(Nat) /\ us.incoming_orders # <<>>
      /\ us.requested_orders \in Seq(Nat) /\ us.requested_orders # <<>>
      /\ us.magazine_state \in Nat /\ us.back_order_sum \in Nat
  BY <1>3 DEF StockOfUser, QueuesReady
<1>5. /\ received \in Nat /\ request \in Nat
      /\ Front(us.incoming_orders) \in Seq(Nat) /\ Front(us.requested_orders) \in Seq(Nat)
  BY <1>4, FrontLastNat
<1>6. us.magazine_state + received \in Nat
  <2>1. received \in Nat /\ us.magazine_state \in Nat  BY <1>4, <1>5
  <2>. HIDE DEF received
  <2>. QED BY <2>1
<1>7. /\ settled.stock \in Nat /\ settled.back \in Nat /\ settled.sent \in Nat
      /\ settled.stock = 0 \/ settled.back = 0
  BY <1>4, <1>5, <1>6, SettleKeepsStock, Zenon
<1>8. Shipment(us) \in Nat  BY <1>7 DEF Shipment
<1>9. /\ new.magazine_state = settled.stock /\ new.back_order_sum = settled.back
      /\ new.incoming_orders = Front(us.incoming_orders)
      /\ new.requested_orders = Front(us.requested_orders)
  BY <1>3 DEF SettleUser, UserStates
<1>. HIDE DEF settled, new, done
<1>10. StockOfUser(new)  BY <1>5, <1>7, <1>9 DEF StockOfUser
<1>11. \A q \in Players : StockOfUser(done.users_states[q])
  BY <1>1, <1>10, RoundStateFields DEF StockOf
<1>12. \A s \in Stations : /\ done.round_orders[s] \in Nat \cup {NoOrder}
                           /\ done.send_orders[s] \in Nat \cup {NoOrder}
  BY <1>1, <1>2, <1>8, RoundStateFields DEF StockOf, OrderBooks, Stations
<1>13. StockOf(done)  BY <1>1, <1>11, <1>12 DEF StockOf
<1>. QED BY <1>13 DEF done

LEMMA CloseBooksStock ==
  ASSUME PlainGame, NEW r \in RoundStates, r.round_orders[first_player] # NoOrder,
         StockOf(r)
  PROVE  StockOf(CloseBooks(r))
<1>. DEFINE demand    == generate_demand(r.demand, r.settings.demand_style)
            supply    == generate_demand(InitialSupply, r.settings.supply_style)
            ordered   == r.round_orders[first_player]
            supplied  == IF supply < ordered THEN supply ELSE ordered
            requests  == [r.round_orders EXCEPT ![Nil] = demand]
            shipments == [r.send_orders EXCEPT ![Nil] = supplied]
            users     == [p \in Players |->
                            Receive(r.users_states[p], requests[get_recipient(p)],
                                    shipments[get_sender(p)])]
            done      == CloseBooks(r)
<1>1. /\ done.round_orders = requests /\ done.send_orders = shipments
      /\ done.users_states = users /\ done.demand = demand /\ done.settings = r.settings
  BY DEF CloseBooks, RoundStates
<1>2. demand \in Nat /\ supply \in Nat
  <2>1. r.settings.demand_style \in NatStyles /\ r.settings.supply_style \in NatStyles
        /\ r.demand \in Nat /\ InitialSupply \in Nat
    BY DEF StockOf, PlainSettings, PlainGame
  <2>. QED BY <2>1, DemandNat
<1>3. ordered \in Nat  BY Neighbours DEF StockOf, Stations
<1>. HIDE DEF demand, supply, ordered
<1>4. supplied \in Nat  BY <1>2, <1>3
<1>. HIDE DEF supplied
<1>5. \A s \in Stations : /\ requests[s] \in Nat \cup {NoOrder}
                          /\ shipments[s] \in Nat \cup {NoOrder}
  BY <1>2, <1>4, RoundStateFields DEF StockOf, OrderBooks
<1>. HIDE DEF requests, shipments
<1>6. ASSUME NEW p \in Players PROVE StockOfUser(users[p])
  <2>. DEFINE us == r.users_states[p]
              request  == requests[get_recipient(p)]
              shipment == shipments[get_sender(p)]
              new      == Receive(us, request, shipment)
  <2>1. request \in Nat \cup {NoOrder} /\ shipment \in Nat \cup {NoOrder}
    BY <1>5, Neighbours
  <2>2. us \in UserStates /\ StockOfUser(us)  BY RoundStateFields DEF StockOf
  <2>3. users[p] = new  OBVIOUS
  <2>. HIDE DEF request, shipment
  <2>4. /\ new.incoming_orders = Deliver(us.incoming_orders, shipment)
        /\ new.requested_orders = Deliver(us.requested_orders, request)
        /\ new.magazine_state = us.magazine_state
        /\ new.back_order_sum = us.back_order_sum
    BY <2>2 DEF Receive, UserStates
  <2>5. /\ Deliver(us.incoming_orders, shipment) \in Seq(Nat)
        /\ Deliver(us.requested_orders, request) \in Seq(Nat)
    BY <2>1, <2>2 DEF Deliver, StockOfUser
  <2>. HIDE DEF new
  <2>. QED BY <2>2, <2>3, <2>4, <2>5 DEF StockOfUser
<1>. HIDE DEF users, done
<1>7. StockOf(done)  BY <1>1, <1>2, <1>5, <1>6 DEF StockOf
<1>. QED BY <1>7 DEF done

LEMMA ClearRoundStock ==
  ASSUME NEW r \in RoundStates, StockOf(r)
  PROVE  StockOf(ClearRound(r))
<1>. DEFINE done == ClearRound(r)
<1>1. /\ done.round_orders = NoOrders /\ done.send_orders = NoOrders
      /\ done.users_states = r.users_states /\ done.demand = r.demand
      /\ done.settings = r.settings
  BY DEF ClearRound, RoundStates
<1>. HIDE DEF done
<1>2. StockOf(done)  BY <1>1 DEF StockOf, NoOrders
<1>. QED BY <1>2 DEF done

LEMMA ApplyActionStock ==
  ASSUME NEW r \in RoundStates, NEW action \in PlainActions, NEW targets, StockOf(r)
  PROVE  StockOf(ApplyAction(r, action, targets))
<1>1. CASE action.type = "ShowMessage"  BY <1>1 DEF ApplyAction
<1>2. CASE action.type = "ChangeSettings"
  <2>1. action.new_settings \in PlainSettings  BY <1>2 DEF PlainActions
  <2>. QED BY <1>2, <2>1 DEF ApplyAction, RoundStates, StockOf
<1>3. CASE action.type = "AddResource"
  <2>1. action.resource \in {"Money", "Performance"}  BY <1>3 DEF PlainActions
  <2>. DEFINE given == IF action.target = "EventTarget" THEN targets ELSE Players
              users == [p \in Players |->
                          IF p \in given
                            THEN GrantResource(r.users_states[p], action.resource, action.value)
                            ELSE r.users_states[p]]
              done  == ApplyAction(r, action, targets)
  <2>2. /\ done.users_states = users /\ done.demand = r.demand
        /\ done.settings = r.settings /\ done.round_orders = r.round_orders
        /\ done.send_orders = r.send_orders
    BY <1>3 DEF ApplyAction, RoundStates
  <2>3. ASSUME NEW p \in Players PROVE StockOfUser(users[p])
    <3>. DEFINE us == r.users_states[p]
    <3>1. us \in UserStates /\ StockOfUser(us)  BY RoundStateFields DEF StockOf
    <3>2. StockOfUser(GrantResource(us, action.resource, action.value))
      BY <2>1, <3>1 DEF GrantResource, StockOfUser, UserStates
    <3>. QED BY <3>1, <3>2
  <2>. HIDE DEF users, done
  <2>4. StockOf(done)  BY <2>2, <2>3 DEF StockOf
  <2>. QED BY <2>4 DEF done
<1>. QED BY <1>1, <1>2, <1>3 DEF PlainActions

LEMMA StockReturn ==
  ASSUME TypeInv, StockInv, NEW p \in Players, Return(p), StockOf(rs')
  PROVE  StockInv'
<1>1. \A q \in Players : pc'[q] # "idle" => pc[q] # "idle" /\ snap'[q] = snap[q]
  BY TypeFacts DEF Return
<1>2. \A q \in Players : agenda'[q] = agenda[q] \/ agenda'[q] = EmptyAgenda
  BY TypeFacts DEF Return
<1>3. EmptyAgenda.events = <<>> /\ EmptyAgenda.actions = <<>>  BY DEF EmptyAgenda
<1>. QED BY <1>1, <1>2, <1>3, NothingToDo DEF StockInv

LEMMA StockMove ==
  ASSUME StockInv, NEW p \in Players, agenda' = agenda,
         \A q \in Players \ {p} : pc'[q] = pc[q] /\ snap'[q] = snap[q],
         StockOf(snap'[p]), StockOf(rs')
  PROVE  StockInv'
BY DEF StockInv

LEMMA NextStockInv == PlainGame /\ TypeInv /\ StockInv /\ [Next]_vars => StockInv'
<1>. SUFFICES ASSUME PlainGame, TypeInv, StockInv, [Next]_vars PROVE StockInv'
  OBVIOUS
<1>. USE TypeFacts
<1>0. /\ StockOf(rs)
      /\ \A p \in Players : /\ pc[p] # "idle" => StockOf(snap[p])
                            /\ agenda[p].events \in Seq(PlainEvents)
                            /\ agenda[p].actions \in Seq(PlainActions)
  BY DEF StockInv
<1>1. ASSUME NEW p \in Players, NEW o \in Messages, ReceiveRoundEnd(p, o)
      PROVE  StockInv'
  BY <1>0, <1>1, StockMove DEF ReceiveRoundEnd, Goto
<1>2. ASSUME NEW p \in Players,
             \/ RejectOrder(p) \/ FailOrder(p) \/ FinishRoundFails(p)
             \/ FinishGame(p) \/ AnnounceRound(p) \/ Interrupt(p)
      PROVE  StockInv'
  <2>1. Return(p) /\ rs' = rs
    BY <1>2 DEF RejectOrder, FailOrder, FinishRoundFails, FinishGame,
                AnnounceRound, Interrupt
  <2>. QED BY <1>0, <2>1, StockReturn
<1>3. ASSUME NEW p \in Players, AckOrder(p) \/ PersistRound(p) PROVE StockInv'
  <2>1. /\ pc[p] # "idle" /\ rs' = rs /\ snap' = snap /\ agenda' = agenda
        /\ \A q \in Players \ {p} : pc'[q] = pc[q]
    BY <1>3 DEF AckOrder, PersistRound, Goto
  <2>. QED BY <1>0, <2>1, StockMove
<1>4. ASSUME NEW p \in Players, SaveOrder(p) PROVE StockInv'
  <2>. DEFINE done == RecordOrder(snap[p], p, order[p])
  <2>1. pc[p] = "acked" /\ QueuesReady(snap[p].users_states[p]) /\ rs' = done
    BY <1>4 DEF SaveOrder
  <2>2. StockOf(done)  BY <1>0, <2>1, RecordOrderStock
  <2>3. CASE done.players_finished = Cardinality(Players)
    <3>1. Goto(p, "finishing") /\ snap' = [snap EXCEPT ![p] = done] /\ agenda' = agenda
      BY <1>4, <2>3 DEF SaveOrder
    <3>. HIDE DEF done
    <3>. QED BY <1>0, <2>1, <2>2, <3>1, StockMove DEF Goto
  <2>4. CASE done.players_finished # Cardinality(Players)
    <3>1. Return(p)  BY <1>4, <2>4 DEF SaveOrder
    <3>. HIDE DEF done
    <3>. QED BY <2>1, <2>2, <3>1, StockReturn
  <2>. QED BY <2>3, <2>4
<1>5. ASSUME NEW p \in Players, FinishRound(p) PROVE StockInv'
  <2>1. StockOf(rs')  BY <1>0, <1>5, CloseBooksStock DEF FinishRound
  <2>. QED BY <1>0, <1>5, <2>1, StockMove DEF FinishRound, Goto
<1>6. ASSUME NEW p \in Players, ProcessEvents(p) PROVE StockInv'
  <2>. DEFINE new == [agenda[p] EXCEPT !.events = EventsList]
  <2>1. /\ pc[p] = "persisted" /\ agenda' = [agenda EXCEPT ![p] = new]
        /\ snap' = snap /\ rs' = rs /\ \A q \in Players \ {p} : pc'[q] = pc[q]
    BY <1>6 DEF ProcessEvents, Goto
  <2>2. new.events = EventsList /\ new.actions = agenda[p].actions
    BY DEF Agendas
  <2>3. EventsList \in Seq(PlainEvents)  BY DEF PlainGame
  <2>. HIDE DEF new
  <2>4. \A q \in Players : /\ agenda'[q].events \in Seq(PlainEvents)
                           /\ agenda'[q].actions \in Seq(PlainActions)
    BY <1>0, <2>1, <2>2, <2>3
  <2>. QED BY <1>0, <2>1, <2>4 DEF StockInv
<1>7. ASSUME NEW p \in Players, EvaluateEvent(p) PROVE StockInv'
  <2>. DEFINE event == Head(agenda[p].events)
  <2>1. agenda[p].events \in Seq(PlainEvents) /\ agenda[p].events # <<>>
    BY <1>0, <1>7 DEF EvaluateEvent
  <2>2. event \in PlainEvents /\ Tail(agenda[p].events) \in Seq(PlainEvents)
    BY <2>1
  <2>3. event.actions \in Seq(PlainActions)  BY <2>2 DEF PlainEvents
  <2>4. PICK i \in DOMAIN game_states :
          LET verdict == evaluate_cond(snap[p].round, snap[p].users_states,
                                       game_states[i].users_states, event.condition)
          IN  agenda' = [agenda EXCEPT ![p] =
                [events  |-> Tail(agenda[p].events),
                 actions |-> IF verdict.met THEN event.actions ELSE <<>>,
                 targets |-> IF verdict.met THEN verdict.targets ELSE {}]]
    BY <1>7 DEF EvaluateEvent
  <2>5. /\ agenda'[p].events = Tail(agenda[p].events)
        /\ agenda'[p].actions \in {event.actions, <<>>}
        /\ \A q \in Players \ {p} : agenda'[q] = agenda[q]
    BY <2>4
  <2>. HIDE DEF event
  <2>6. \A q \in Players : /\ agenda'[q].events \in Seq(PlainEvents)
                           /\ agenda'[q].actions \in Seq(PlainActions)
    BY <1>0, <2>2, <2>3, <2>5, NothingToDo
  <2>7. snap' = snap /\ rs' = rs /\ pc' = pc  BY <1>7 DEF EvaluateEvent
  <2>. QED BY <1>0, <2>6, <2>7 DEF StockInv
<1>8. ASSUME NEW p \in Players, ExecuteAction(p) PROVE StockInv'
  <2>. DEFINE action == Head(agenda[p].actions)
              new    == ApplyAction(snap[p], action, agenda[p].targets)
  <2>1. /\ agenda[p].actions \in Seq(PlainActions) /\ agenda[p].actions # <<>>
        /\ snap[p] \in RoundStates /\ StockOf(snap[p])
    BY <1>0, <1>8 DEF ExecuteAction
  <2>2. action \in PlainActions /\ Tail(agenda[p].actions) \in Seq(PlainActions)
    BY <2>1
  <2>3. StockOf(new)  BY <2>1, <2>2, ApplyActionStock
  <2>4. /\ snap' = [snap EXCEPT ![p] = new] /\ rs' = rs /\ pc' = pc
        /\ agenda' = [agenda EXCEPT ![p] = [agenda[p] EXCEPT !.actions = Tail(agenda[p].actions)]]
    BY <1>8 DEF ExecuteAction
  <2>. HIDE DEF new, action
  <2>5. /\ agenda'[p].events = agenda[p].events
        /\ agenda'[p].actions = Tail(agenda[p].actions)
        /\ \A q \in Players \ {p} : agenda'[q] = agenda[q]
    BY <2>4 DEF Agendas
  <2>6. \A q \in Players : /\ agenda'[q].events \in Seq(PlainEvents)
                           /\ agenda'[q].actions \in Seq(PlainActions)
    BY <1>0, <2>2, <2>5
  <2>7. \A q \in Players : pc'[q] # "idle" => StockOf(snap'[q])
    BY <1>0, <2>3, <2>4
  <2>. QED BY <1>0, <2>4, <2>6, <2>7 DEF StockInv
<1>9. ASSUME NEW p \in Players, NewRound(p) PROVE StockInv'
  <2>1. StockOf(rs')  BY <1>0, <1>9, ClearRoundStock DEF NewRound
  <2>. QED BY <1>0, <1>9, <2>1, StockMove DEF NewRound, Goto
<1>10. ASSUME NEW p \in Players, NEW classes \in ClassMaps, UpdateClasses(p, classes)
       PROVE  StockInv'
  <2>1. /\ rs'.users_states = rs.users_states /\ rs'.round_orders = rs.round_orders
        /\ rs'.send_orders = rs.send_orders /\ rs'.demand = rs.demand
        /\ rs'.settings = rs.settings
    BY <1>10 DEF UpdateClasses, RoundStates
  <2>2. StockOf(rs')  BY <1>0, <2>1 DEF StockOf
  <2>. QED BY <1>0, <1>10, <2>2 DEF UpdateClasses, StockInv
<1>11. ASSUME NEW settings \in SettingsUpdates, UpdateSettings(settings)
       PROVE  StockInv'
  BY <1>0, <1>11 DEF UpdateSettings, StockInv
<1>12. CASE UNCHANGED vars  BY <1>12 DEF vars, StockInv
<1>. QED
  BY <1>1, <1>2, <1>3, <1>4, <1>5, <1>6, <1>7, <1>8, <1>9, <1>10, <1>11, <1>12
     DEF Next, HandlerStep

LEMMA InitStock == PlainGame /\ Init => StockInv
<1>. SUFFICES ASSUME PlainGame, Init PROVE StockInv
  OBVIOUS
<1>1. PICK settings \in SettingsChoices :
        rs = [round |-> 0, players_finished |-> 0, users_states |-> InitialUserStates,
              round_orders |-> NoOrders, send_orders |-> NoOrders,
              player_classes |-> InitialClasses, settings |-> settings,
              demand |-> InitialDemand]
  BY DEF Init
<1>2. ASSUME NEW p \in Players PROVE StockOfUser(rs.users_states[p])
  <2>. DEFINE class == InitialClasses[p]
  <2>1. /\ StartMagazine[class] \in Nat
        /\ IncomingStart[class] \in Seq(Nat) /\ RequestedStart[class] \in Seq(Nat)
    BY ClassesAssumption DEF PlainGame
  <2>2. rs.users_states[p] = InitialUserState(p)  BY <1>1 DEF InitialUserStates
  <2>. QED BY <2>1, <2>2 DEF InitialUserState, StockOfUser
<1>3. StockOf(rs)
  BY <1>1, <1>2 DEF StockOf, NoOrders, PlainGame
<1>4. \A p \in Players : pc[p] = "idle" /\ agenda[p].events = <<>> /\ agenda[p].actions = <<>>
  BY DEF Init, EmptyAgenda
<1>. QED BY <1>3, <1>4, NothingToDo DEF StockInv

\* In such a game a player never owes goods while he holds stock, and neither
\* is ever negative, in the shared state and in every clone.
THEOREM StockAlwaysSettled == PlainGame => (Spec => []StockSettled)
<1>. SUFFICES ASSUME PlainGame PROVE Spec => []StockSettled
  OBVIOUS
<1>1. TypeInv /\ StockInv /\ [Next]_vars => (TypeInv /\ StockInv)'
  BY NextTypeInv, NextStockInv
<1>. QED BY <1>1, InitTypeInv, InitStock, StockInvMeaning, PTL DEF Spec
=============================================================================
