--------------------------- MODULE SessionsProofs ---------------------------
(***************************************************************************)
(* What is proved about Sessions for any number of connections, users and  *)
(* lobbies and any capacity of the channels: the types of its state, that  *)
(* clients see their messages in order and without gaps, and that answers  *)
(* to orders reach those who gave them.                                    *)
(***************************************************************************)
EXTENDS Sessions, SequenceTheorems, TLAPS

Deletions == {"no", "kicked", "removed", "done"}
Phases    == {"unused", "look", "subscribe", "open", "over", "panicked"}
Labels    == {"waiting", "order", "acked", "close", "leave", "tell", "ended"}

RowTypes ==
  /\ game_id \in [Users -> Lobbies \cup {Nowhere}]
  /\ entry \subseteq Lobbies
  /\ channel \in [Lobbies -> Seq(Messages)]
  /\ deleting \in [Lobbies -> Deletions]
  /\ faults \in 0..MaxFaults

TaskTypes ==
  /\ user \in [Connections -> Users \cup {NoUser}]
  /\ phase \in [Connections -> Phases]
  /\ game \in [Connections -> Lobbies \cup {Nowhere}]
  /\ since \in [Connections -> Nat] /\ rx \in [Connections -> Nat]
  /\ sending \in [Connections -> {"running", "ended"}]
  /\ receiving \in [Connections -> Labels]
  /\ left \in [Connections -> Lobbies \cup {Nowhere}]
  /\ link \in [Connections -> BOOLEAN]
  /\ shown \in [Connections -> Seq(Nat)]
  /\ orders \in [Connections -> 0..MaxOrders] /\ asked \in [Connections -> Nat]

(***************************************************************************)
(* What the client of c has seen is what was due up to the moment at which *)
(* the connection was lost, and all of it while there is a connection.     *)
(***************************************************************************)
Seen(c) ==
  /\ user[c] \in Users /\ game[c] \in Lobbies
  /\ 1 <= since[c] /\ since[c] <= rx[c] /\ rx[c] <= Len(channel[game[c]]) + 1
  /\ \E lost \in since[c]..rx[c] : Range(shown[c]) = {i \in Due(c) : i < lost}
  /\ link[c] => Range(shown[c]) = Due(c)

\* A session runs its tasks only while it is open, and a connection that was
\* lost does not come back.
Session(c) ==
  /\ InOrder(shown[c])
  /\ phase[c] \in {"unused", "over", "panicked"} => ~link[c]
  /\ phase[c] \in {"unused", "look", "subscribe"} => shown[c] = <<>>
  /\ phase[c] \in {"look", "subscribe"} => user[c] \in Users
  /\ phase[c] = "subscribe" => game[c] \in Lobbies
  /\ phase[c] # "open" => sending[c] = "ended" /\ receiving[c] = "ended"
  /\ phase[c] = "open" \/ (phase[c] = "over" /\ game[c] # Nowhere) => Seen(c)

SessionsInv == RowTypes /\ TaskTypes /\ \A c \in Connections : Session(c)
-----------------------------------------------------------------------------
LEMMA TypeFacts ==
  ASSUME SessionsInv
  PROVE  /\ RowTypes /\ TaskTypes
         /\ \A c \in Connections : Session(c)
         /\ \A l \in Lobbies : channel[l] \in Seq(Messages) /\ Len(channel[l]) \in Nat
BY LenProperties DEF SessionsInv, RowTypes

\* Channels only get longer.
Grows ==
  \A l \in Lobbies :
    /\ Len(channel[l]) <= Len(channel'[l])
    /\ \A i \in 1..Len(channel[l]) : channel'[l][i] = channel[l][i]

LEMMA BroadcastFacts ==
  ASSUME SessionsInv, NEW l \in Lobbies, NEW to \in Users \cup {Everyone},
         NEW kind \in {"news", "Ack", "Error", "UserDisconnected", "KickAll"},
         Broadcast(l, kind, to)
  PROVE  channel' \in [Lobbies -> Seq(Messages)] /\ Grows
<1>. USE TypeFacts
<1>. DEFINE m == [kind |-> kind, to |-> to]
<1>1. m \in Messages  BY DEF Messages
<1>2. channel' = [channel EXCEPT ![l] = Append(channel[l], m)]  BY DEF Broadcast
<1>3. channel \in [Lobbies -> Seq(Messages)]  BY DEF RowTypes
<1>. HIDE DEF m
<1>4. /\ Append(channel[l], m) \in Seq(Messages)
      /\ Len(Append(channel[l], m)) = Len(channel[l]) + 1
      /\ \A i \in 1..Len(channel[l]) : Append(channel[l], m)[i] = channel[l][i]
  BY <1>1, AppendProperties
<1>5. channel' \in [Lobbies -> Seq(Messages)]  BY <1>2, <1>3, <1>4
<1>6. ASSUME NEW k \in Lobbies
      PROVE  /\ Len(channel[k]) <= Len(channel'[k])
             /\ \A i \in 1..Len(channel[k]) : channel'[k][i] = channel[k][i]
  <2>1. CASE k = l  BY <1>2, <1>3, <1>4, <2>1
  <2>2. CASE k # l
    <3>1. channel'[k] = channel[k]  BY <1>2, <1>3, <2>2
    <3>. QED BY <3>1
  <2>. QED BY <2>1, <2>2
<1>. QED BY <1>5, <1>6 DEF Grows

LEMMA TryBroadcastFacts ==
  ASSUME SessionsInv, NEW l, NEW to \in Users \cup {Everyone},
         NEW kind \in {"news", "Ack", "Error", "UserDisconnected", "KickAll"},
         TryBroadcast(l, kind, to)
  PROVE  channel' \in [Lobbies -> Seq(Messages)] /\ Grows
<1>1. CASE l \in entry
  <2>1. l \in Lobbies  BY <1>1, TypeFacts DEF RowTypes
  <2>. QED BY <1>1, <2>1, BroadcastFacts DEF TryBroadcast
<1>2. CASE l \notin entry
  BY <1>2, TypeFacts DEF TryBroadcast, RowTypes, Grows
<1>. QED BY <1>1, <1>2

\* What is due does not depend on what is sent later.
LEMMA DueStays ==
  ASSUME SessionsInv, NEW c \in Connections, Grows, Seen(c),
         user'[c] = user[c], game'[c] = game[c], since'[c] = since[c], rx'[c] = rx[c]
  PROVE  Due(c)' = Due(c)
<1>. USE TypeFacts
<1>1. /\ game[c] \in Lobbies /\ since[c] \in Nat /\ rx[c] \in Nat
      /\ 1 <= since[c] /\ rx[c] <= Len(channel[game[c]]) + 1
  BY DEF Seen, TaskTypes
<1>2. \A i \in since[c]..(rx[c] - 1) : channel'[game[c]][i] = channel[game[c]][i]
  <2>1. \A i \in since[c]..(rx[c] - 1) : i \in 1..Len(channel[game[c]])  BY <1>1
  <2>. QED BY <1>1, <2>1 DEF Grows
<1>. QED BY <1>2 DEF Due

\* A session that may lose its client, but otherwise stays as it is.
LEMMA SessionStays ==
  ASSUME SessionsInv, NEW c \in Connections, Grows, channel' \in [Lobbies -> Seq(Messages)],
         user'[c] = user[c], phase'[c] = phase[c], game'[c] = game[c],
         since'[c] = since[c], rx'[c] = rx[c], shown'[c] = shown[c], link'[c] => link[c],
         phase[c] # "open" => sending'[c] = sending[c] /\ receiving'[c] = receiving[c]
  PROVE  Session(c)'
<1>. USE TypeFacts
<1>1. Session(c)  OBVIOUS
<1>2. ASSUME Seen(c) PROVE Seen(c)'
  <2>1. Due(c)' = Due(c)  BY <1>2, DueStays
  <2>2. rx'[c] <= Len(channel'[game'[c]]) + 1
    <3>1. /\ game[c] \in Lobbies /\ rx[c] \in Nat /\ rx[c] <= Len(channel[game[c]]) + 1
          /\ Len(channel[game[c]]) \in Nat
      BY <1>2 DEF Seen, TaskTypes
    <3>2. Len(channel'[game[c]]) \in Nat  BY <3>1, LenProperties
    <3>. QED BY <3>1, <3>2 DEF Grows
  <2>. QED BY <1>2, <2>1, <2>2 DEF Seen
<1>. QED BY <1>1, <1>2 DEF Session
-----------------------------------------------------------------------------
\* A step that is nothing to any session but, at most, the loss of a client or
\* the end of a task.
LEMMA SessionsStay ==
  ASSUME SessionsInv, RowTypes', TaskTypes', Grows,
         UNCHANGED <<user, phase, game, since, rx, shown>>,
         \A c \in Connections : link'[c] => link[c],
         \A c \in Connections :
           phase[c] # "open" => sending'[c] = sending[c] /\ receiving'[c] = receiving[c]
  PROVE  SessionsInv'
<1>1. channel' \in [Lobbies -> Seq(Messages)]  BY DEF RowTypes
<1>2. \A c \in Connections : Session(c)'  BY <1>1, SessionStays
<1>. QED BY <1>2 DEF SessionsInv

\* A step of one session.
LEMMA OneSession ==
  ASSUME SessionsInv, NEW c \in Connections, TaskTypes', UNCHANGED rows, Session(c)',
         \A d \in Connections \ {c} :
           /\ user'[d] = user[d] /\ phase'[d] = phase[d] /\ game'[d] = game[d]
           /\ since'[d] = since[d] /\ rx'[d] = rx[d] /\ shown'[d] = shown[d]
           /\ link'[d] = link[d] /\ sending'[d] = sending[d] /\ receiving'[d] = receiving[d]
  PROVE  SessionsInv'
<1>1. RowTypes'  BY TypeFacts DEF RowTypes, rows
<1>2. Grows /\ channel' \in [Lobbies -> Seq(Messages)]
  BY TypeFacts DEF Grows, RowTypes, rows
<1>3. ASSUME NEW d \in Connections \ {c} PROVE Session(d)'  BY <1>2, SessionStays
<1>. QED BY <1>1, <1>3 DEF SessionsInv

LEMMA RowsGrow ==
  ASSUME SessionsInv, NEW l \in Lobbies,
         \/ \E u \in Users : Join(u, l)
         \/ \E to \in Users \cup {Everyone} : News(l, to)
         \/ KickAll(l) \/ RemoveEntry(l) \/ CommitDeletion(l) \/ RollBackDeletion(l)
  PROVE  channel' \in [Lobbies -> Seq(Messages)] /\ Grows
<1>. USE TypeFacts
<1>1. ASSUME NEW u \in Users, Join(u, l) PROVE Broadcast(l, "news", Everyone)
  BY <1>1 DEF Join
<1>2. ASSUME NEW to \in Users \cup {Everyone}, News(l, to) PROVE Broadcast(l, "news", to)
  BY <1>2 DEF News
<1>3. CASE KickAll(l)  BY <1>3, BroadcastFacts DEF KickAll
<1>4. CASE RemoveEntry(l) \/ CommitDeletion(l) \/ RollBackDeletion(l)
  BY <1>4 DEF RemoveEntry, CommitDeletion, RollBackDeletion, Grows, RowTypes
<1>. QED BY <1>1, <1>2, <1>3, <1>4, BroadcastFacts

LEMMA RowsStep ==
  ASSUME SessionsInv, NEW l \in Lobbies,
         \/ \E u \in Users : Join(u, l)
         \/ \E to \in Users \cup {Everyone} : News(l, to)
         \/ KickAll(l) \/ RemoveEntry(l) \/ CommitDeletion(l) \/ RollBackDeletion(l)
  PROVE  SessionsInv'
<1>. USE TypeFacts
<1>1. UNCHANGED tasks
  BY DEF Join, News, KickAll, RemoveEntry, CommitDeletion, RollBackDeletion
<1>2. channel' \in [Lobbies -> Seq(Messages)] /\ Grows  BY RowsGrow
<1>3. game_id' \in [Users -> Lobbies \cup {Nowhere}]
  BY DEF Join, News, KickAll, RemoveEntry, CommitDeletion, RollBackDeletion, RowTypes
<1>4. entry' \subseteq Lobbies
  BY DEF Join, News, KickAll, RemoveEntry, CommitDeletion, RollBackDeletion, RowTypes
<1>5. deleting' \in [Lobbies -> Deletions]
  BY DEF Join, News, KickAll, RemoveEntry, CommitDeletion, RollBackDeletion, RowTypes,
         Deletions
<1>6. faults' \in 0..MaxFaults
  BY SessionsAssumption
     DEF Join, News, KickAll, RemoveEntry, CommitDeletion, RollBackDeletion, RowTypes
<1>7. RowTypes'  BY <1>2, <1>3, <1>4, <1>5, <1>6 DEF RowTypes
<1>8. TaskTypes'  BY <1>1 DEF tasks, TaskTypes
<1>. QED BY <1>1, <1>2, <1>7, <1>8, SessionsStay DEF tasks
-----------------------------------------------------------------------------
LEMMA UpgradeStep ==
  ASSUME SessionsInv, NEW c \in Connections, NEW u \in Users, Upgrade(c, u)
  PROVE  SessionsInv'
<1>. USE TypeFacts
<1>1. TaskTypes'  BY DEF Upgrade, TaskTypes, Phases
<1>2. Session(c)'  BY DEF Upgrade, Session, TaskTypes
<1>. QED BY <1>1, <1>2, OneSession DEF Upgrade, TaskTypes

LEMMA OpeningStep ==
  ASSUME SessionsInv, NEW c \in Connections, Opening(c)
  PROVE  SessionsInv'
<1>. USE TypeFacts
<1>1. CASE LookUp(c)
  <2>1. user[c] \in Users  BY <1>1 DEF LookUp, Session
  <2>2. game_id[user[c]] \in Lobbies \cup {Nowhere}  BY <2>1 DEF RowTypes
  <2>3. TaskTypes'  BY <1>1, <2>2 DEF LookUp, TaskTypes, Phases
  <2>4. Session(c)'  BY <1>1, <2>1, <2>2 DEF LookUp, Session, TaskTypes
  <2>5. /\ UNCHANGED rows
        /\ \A d \in Connections \ {c} :
             /\ user'[d] = user[d] /\ phase'[d] = phase[d] /\ game'[d] = game[d]
             /\ since'[d] = since[d] /\ rx'[d] = rx[d] /\ shown'[d] = shown[d]
             /\ link'[d] = link[d] /\ sending'[d] = sending[d]
             /\ receiving'[d] = receiving[d]
    BY <1>1 DEF LookUp, TaskTypes
  <2>. QED BY <2>3, <2>4, <2>5, OneSession
<1>2. CASE Subscribe(c)
  <2>. DEFINE n == Len(channel[game[c]])
  <2>1. /\ game[c] \in Lobbies /\ user[c] \in Users /\ shown[c] = <<>> /\ n \in Nat
        /\ phase[c] = "subscribe"
    BY <1>2 DEF Subscribe, Session
  <2>2. TaskTypes'  BY <1>2, <2>1 DEF Subscribe, TaskTypes, Phases, Labels
  <2>3. /\ since'[c] = n + 1 /\ rx'[c] = n + 1 /\ phase'[c] = "open"
        /\ UNCHANGED <<rows, user, game, shown>>
    BY <1>2 DEF Subscribe, TaskTypes
  <2>4. Due(c)' = {}  BY <2>1, <2>3 DEF Due
  <2>5. Range(shown'[c]) = {}  BY <2>1, <2>3 DEF Range
  <2>6. Seen(c)'
    <3>1. n + 1 \in since'[c]..rx'[c] /\ Range(shown'[c]) = {i \in Due(c)' : i < n + 1}
      BY <2>1, <2>3, <2>4, <2>5
    <3>. QED BY <2>1, <2>3, <2>4, <2>5, <3>1 DEF Seen, rows
  <2>7. InOrder(shown'[c])  BY <2>1, <2>3 DEF InOrder
  <2>8. Session(c)'  BY <2>3, <2>6, <2>7 DEF Session
  <2>. QED BY <1>2, <2>2, <2>8, OneSession DEF Subscribe, TaskTypes
<1>3. CASE MissEntry(c)
  <2>1. TaskTypes'  BY <1>3 DEF MissEntry, TaskTypes, Phases
  <2>2. Session(c)'  BY <1>3 DEF MissEntry, Session, TaskTypes
  <2>. QED BY <1>3, <2>1, <2>2, OneSession DEF MissEntry, TaskTypes
<1>. QED BY <1>1, <1>2, <1>3 DEF Opening

LEMMA LaggedStep ==
  ASSUME SessionsInv, NEW c \in Connections, Lagged(c)
  PROVE  SessionsInv'
<1>. USE TypeFacts
<1>1. phase[c] = "open"  BY DEF Lagged, Session
<1>2. RowTypes' /\ Grows  BY DEF Lagged, rows, RowTypes, Grows
<1>3. TaskTypes'  BY DEF Lagged, TaskTypes
<1>4. \A d \in Connections : phase[d] # "open" => sending'[d] = sending[d]
  BY <1>1 DEF Lagged, TaskTypes
<1>. QED BY <1>2, <1>3, <1>4, SessionsStay DEF Lagged

\* One position more, beyond those that were shown.
LEMMA ShowOneMore ==
  ASSUME NEW positions \in Seq(Nat), NEW n \in Nat, InOrder(positions),
         \A i \in Range(positions) : i < n
  PROVE  /\ Append(positions, n) \in Seq(Nat)
         /\ Range(Append(positions, n)) = Range(positions) \cup {n}
         /\ InOrder(Append(positions, n))
<1>. DEFINE longer == Append(positions, n)
            len    == Len(positions)
<1>1. /\ longer \in Seq(Nat) /\ Len(longer) = len + 1 /\ len \in Nat
      /\ \A i \in 1..len : longer[i] = positions[i]
      /\ longer[len + 1] = n
      /\ DOMAIN positions = 1..len /\ DOMAIN longer = 1..(len + 1)
  BY AppendProperties, LenProperties
<1>. HIDE DEF longer, len
<1>2. 1..(len + 1) = 1..len \cup {len + 1}  BY <1>1
<1>3. Range(longer) = Range(positions) \cup {n}
  <2>1. Range(longer) = {longer[i] : i \in 1..(len + 1)}  BY <1>1 DEF Range
  <2>2. Range(positions) = {positions[i] : i \in 1..len}  BY <1>1 DEF Range
  <2>3. {longer[i] : i \in 1..(len + 1)} = {longer[i] : i \in 1..len} \cup {n}
    BY <1>1, <1>2
  <2>4. {longer[i] : i \in 1..len} = {positions[i] : i \in 1..len}  BY <1>1
  <2>. QED BY <2>1, <2>2, <2>3, <2>4
<1>4. InOrder(longer)
  <2>. SUFFICES ASSUME NEW i \in 1..(len + 1), NEW j \in 1..(len + 1), i < j
                PROVE  longer[i] < longer[j]
    BY <1>1 DEF InOrder
  <2>1. i \in 1..len  BY <1>1
  <2>2. CASE j \in 1..len
    <3>1. positions[i] < positions[j]  BY <1>1, <2>1, <2>2 DEF InOrder
    <3>. QED BY <1>1, <2>1, <2>2, <3>1
  <2>3. CASE j = len + 1
    <3>1. positions[i] \in Range(positions)  BY <1>1, <2>1 DEF Range
    <3>2. positions[i] < n  BY <3>1
    <3>. QED BY <1>1, <2>1, <2>3, <3>2
  <2>. QED BY <1>2, <2>2, <2>3
<1>. QED BY <1>1, <1>3, <1>4 DEF longer

\* The next message is shown if it is for the client, and passed if it is not
\* or if the client is gone.
LEMMA ShowStep ==
  ASSUME SessionsInv, NEW c \in Connections, Show(c)
  PROVE  SessionsInv'
<1>. USE TypeFacts
<1>. DEFINE here == rx[c]
            mine == Addressed(channel[game[c]][here], user[c])
<1>1. /\ phase[c] = "open" /\ Seen(c) /\ InOrder(shown[c])
  BY DEF Show, Session
<1>2. /\ here \in Nat /\ since[c] \in Nat /\ since[c] <= here /\ 1 <= since[c]
      /\ here <= Len(channel[game[c]]) /\ shown[c] \in Seq(Nat)
      /\ rx'[c] = here + 1 /\ rx' = [rx EXCEPT ![c] = here + 1]
      /\ UNCHANGED <<rows, user, phase, game, since, sending, receiving, left, link,
                     orders, asked>>
  BY <1>1 DEF Show, Seen, TaskTypes
<1>3. Due(c)' = Due(c) \cup (IF mine THEN {here} ELSE {})
  BY <1>2 DEF Due, Addressed, For, rows
<1>4. \A i \in Due(c) : i < here  BY <1>2 DEF Due
<1>5. PICK lost \in since[c]..here : Range(shown[c]) = {i \in Due(c) : i < lost}
  BY <1>1 DEF Seen
<1>6. CASE mine /\ link[c]
  <2>1. shown' = [shown EXCEPT ![c] = Append(shown[c], here)]  BY <1>6 DEF Show
  <2>2. shown'[c] = Append(shown[c], here)  BY <2>1 DEF TaskTypes
  <2>3. Range(shown[c]) = Due(c)  BY <1>1, <1>6 DEF Seen
  <2>4. /\ Append(shown[c], here) \in Seq(Nat)
        /\ Range(shown'[c]) = Range(shown[c]) \cup {here} /\ InOrder(shown'[c])
    BY <1>1, <1>2, <1>4, <2>2, <2>3, ShowOneMore
  <2>5. Range(shown'[c]) = Due(c)'  BY <1>3, <1>6, <2>3, <2>4
  <2>6. Seen(c)'
    <3>1. \A i \in Due(c)' : i < here + 1  BY <1>2, <1>3, <1>4, <1>6 DEF Due
    <3>2. here + 1 \in since'[c]..rx'[c] /\ Range(shown'[c]) = {i \in Due(c)' : i < here + 1}
      BY <1>2, <2>5, <3>1
    <3>3. 1 <= since'[c] /\ since'[c] <= rx'[c] /\ rx'[c] <= Len(channel'[game'[c]]) + 1
      BY <1>1, <1>2 DEF Seen, rows
    <3>. QED BY <1>1, <1>2, <2>5, <3>2, <3>3 DEF Seen
  <2>7. TaskTypes'  BY <1>2, <2>1, <2>4 DEF TaskTypes
  <2>8. Session(c)'  BY <1>1, <1>2, <2>4, <2>6 DEF Session
  <2>. QED BY <1>2, <2>1, <2>7, <2>8, OneSession DEF TaskTypes
<1>7. CASE ~(mine /\ link[c])
  <2>1. shown' = shown  BY <1>7 DEF Show
  <2>2. Seen(c)'
    <3>1. lost \in since'[c]..rx'[c]  BY <1>2
    <3>2. {i \in Due(c)' : i < lost} = {i \in Due(c) : i < lost}  BY <1>2, <1>3
    <3>3. link'[c] => Range(shown'[c]) = Due(c)'
      BY <1>1, <1>2, <1>3, <1>7, <2>1 DEF Seen
    <3>4. 1 <= since'[c] /\ since'[c] <= rx'[c] /\ rx'[c] <= Len(channel'[game'[c]]) + 1
      BY <1>1, <1>2 DEF Seen, rows
    <3>. QED BY <1>1, <1>2, <1>5, <2>1, <3>1, <3>2, <3>3, <3>4 DEF Seen
  <2>3. TaskTypes'  BY <1>2, <2>1 DEF TaskTypes
  <2>4. Session(c)'  BY <1>1, <1>2, <2>1, <2>2 DEF Session
  <2>. QED BY <1>2, <2>1, <2>3, <2>4, OneSession DEF TaskTypes
<1>. QED BY <1>6, <1>7
-----------------------------------------------------------------------------
(***************************************************************************)
(* The task that serves the client only broadcasts: no session, its own    *)
(* included, depends on where it stands.                                   *)
(***************************************************************************)
LEMMA ServingFacts ==
  ASSUME SessionsInv, NEW c \in Connections, receiving[c] # "ended"
  PROVE  phase[c] = "open" /\ user[c] \in Users /\ game[c] \in Lobbies
BY TypeFacts DEF Session, Seen

LEMMA ServedStep ==
  ASSUME SessionsInv, NEW c \in Connections, phase[c] = "open", RowTypes', Grows,
         NEW label \in Labels, Served(c, label),
         UNCHANGED <<user, phase, game, since, rx, sending, shown>>,
         left' \in [Connections -> Lobbies \cup {Nowhere}],
         link' \in [Connections -> BOOLEAN], \A d \in Connections : link'[d] => link[d],
         orders' \in [Connections -> 0..MaxOrders], asked' \in [Connections -> Nat]
  PROVE  SessionsInv'
<1>. USE TypeFacts
<1>1. TaskTypes'  BY DEF Served, TaskTypes
<1>2. \A d \in Connections : phase[d] # "open" => receiving'[d] = receiving[d]
  BY DEF Served, TaskTypes
<1>. QED BY <1>1, <1>2, SessionsStay

LEMMA RowsKept ==
  ASSUME SessionsInv, UNCHANGED rows
  PROVE  RowTypes' /\ Grows
BY TypeFacts DEF rows, RowTypes, Grows

\* Steps that touch no row and no channel.
LEMMA LocalStep ==
  ASSUME SessionsInv, NEW c \in Connections,
         TakeOrder(c) \/ FinishOrder(c) \/ TakeClientError(c) \/ TakeClose(c)
           \/ ReadMembership(c) \/ StreamEnds(c)
  PROVE  SessionsInv'
<1>. USE TypeFacts
<1>1. receiving[c] # "ended"
  BY DEF TakeOrder, FinishOrder, TakeClientError, TakeClose, ReadMembership, StreamEnds
<1>2. phase[c] = "open" /\ user[c] \in Users /\ game[c] \in Lobbies
  BY <1>1, ServingFacts
<1>3. /\ left \in [Connections -> Lobbies \cup {Nowhere}] /\ link \in [Connections -> BOOLEAN]
      /\ orders \in [Connections -> 0..MaxOrders] /\ asked \in [Connections -> Nat]
  BY DEF TaskTypes
<1>4. CASE TakeOrder(c)
  <2>1. /\ orders' \in [Connections -> 0..MaxOrders] /\ asked' \in [Connections -> Nat]
    BY <1>2, <1>3, <1>4, SessionsAssumption DEF TakeOrder
  <2>2. Served(c, "order") /\ "order" \in Labels  BY <1>4 DEF TakeOrder, Labels
  <2>3. UNCHANGED <<rows, user, phase, game, since, rx, sending, left, link, shown>>
    BY <1>4 DEF TakeOrder
  <2>. QED BY <1>2, <1>3, <2>1, <2>2, <2>3, RowsKept, ServedStep
<1>5. CASE FinishOrder(c)
  <2>1. Served(c, "waiting") /\ "waiting" \in Labels  BY <1>5 DEF FinishOrder, Labels
  <2>2. UNCHANGED <<rows, user, phase, game, since, rx, sending, left, link, shown,
                    orders, asked>>
    BY <1>5 DEF FinishOrder
  <2>. QED BY <1>2, <1>3, <2>1, <2>2, RowsKept, ServedStep
<1>6. CASE TakeClientError(c) \/ StreamEnds(c)
  <2>1. Served(c, "ended") /\ "ended" \in Labels
    BY <1>6 DEF TakeClientError, StreamEnds, Labels
  <2>2. UNCHANGED <<rows, user, phase, game, since, rx, sending, left, link, shown,
                    orders, asked>>
    BY <1>6 DEF TakeClientError, StreamEnds
  <2>. QED BY <1>2, <1>3, <2>1, <2>2, RowsKept, ServedStep
<1>7. CASE TakeClose(c)
  <2>1. Served(c, "close") /\ "close" \in Labels  BY <1>7 DEF TakeClose, Labels
  <2>2. UNCHANGED <<rows, user, phase, game, since, rx, sending, left, shown, orders, asked>>
    BY <1>7 DEF TakeClose
  <2>3. /\ link' \in [Connections -> BOOLEAN]
        /\ \A d \in Connections : link'[d] => link[d]
    BY <1>3, <1>7 DEF TakeClose
  <2>. QED BY <1>2, <1>3, <2>1, <2>2, <2>3, RowsKept, ServedStep
<1>8. CASE ReadMembership(c)
  <2>1. PICK label \in {"ended", "leave"} : Served(c, label)
    BY <1>8 DEF ReadMembership
  <2>2. label \in Labels  BY DEF Labels
  <2>3. UNCHANGED <<rows, user, phase, game, since, rx, sending, link, shown, orders, asked>>
    BY <1>8 DEF ReadMembership
  <2>4. left' \in [Connections -> Lobbies \cup {Nowhere}]
    <3>1. game_id[user[c]] \in Lobbies \cup {Nowhere}  BY <1>2 DEF RowTypes
    <3>. QED BY <1>3, <1>8, <3>1 DEF ReadMembership
  <2>. QED BY <1>2, <1>3, <2>1, <2>2, <2>3, <2>4, RowsKept, ServedStep
<1>. QED BY <1>4, <1>5, <1>6, <1>7, <1>8

LEMMA SharedGrow ==
  ASSUME SessionsInv, NEW c \in Connections,
         AcceptOrder(c) \/ FailOrder(c) \/ Leave(c) \/ TellLeft(c)
  PROVE  channel' \in [Lobbies -> Seq(Messages)] /\ Grows
<1>. USE TypeFacts
<1>1. user[c] \in Users /\ game[c] \in Lobbies
  BY ServingFacts DEF AcceptOrder, FailOrder, Leave, TellLeft
<1>2. CASE AcceptOrder(c)
  <2>1. Broadcast(game[c], "Ack", user[c])  BY <1>2 DEF AcceptOrder
  <2>. QED BY <1>1, <2>1, BroadcastFacts
<1>3. CASE FailOrder(c)
  <2>1. TryBroadcast(game[c], "Error", user[c])  BY <1>3 DEF FailOrder
  <2>. QED BY <1>1, <2>1, TryBroadcastFacts
<1>4. CASE TellLeft(c)
  <2>1. TryBroadcast(left[c], "UserDisconnected", Everyone)  BY <1>4 DEF TellLeft
  <2>. QED BY <2>1, TryBroadcastFacts
<1>5. CASE Leave(c)  BY <1>5 DEF Leave, RowTypes, Grows
<1>. QED BY <1>2, <1>3, <1>4, <1>5

\* Steps that broadcast, or write the row of a user who leaves.
LEMMA SharedStep ==
  ASSUME SessionsInv, NEW c \in Connections,
         AcceptOrder(c) \/ FailOrder(c) \/ Leave(c) \/ TellLeft(c)
  PROVE  SessionsInv'
<1>. USE TypeFacts
<1>1. /\ receiving[c] # "ended"
      /\ UNCHANGED <<entry, deleting, faults, user, phase, game, since, rx, sending,
                     left, link, shown, orders, asked>>
  BY DEF AcceptOrder, FailOrder, Leave, TellLeft
<1>2. phase[c] = "open" /\ user[c] \in Users /\ game[c] \in Lobbies
  BY <1>1, ServingFacts
<1>3. PICK label \in Labels : Served(c, label)
  BY DEF AcceptOrder, FailOrder, Leave, TellLeft, Labels
<1>4. channel' \in [Lobbies -> Seq(Messages)] /\ Grows  BY SharedGrow
<1>5. game_id' \in [Users -> Lobbies \cup {Nowhere}]
  BY <1>2 DEF AcceptOrder, FailOrder, Leave, TellLeft, RowTypes
<1>6. RowTypes'  BY <1>1, <1>4, <1>5 DEF RowTypes
<1>7. /\ left' \in [Connections -> Lobbies \cup {Nowhere}]
      /\ link' \in [Connections -> BOOLEAN]
      /\ orders' \in [Connections -> 0..MaxOrders] /\ asked' \in [Connections -> Nat]
  BY <1>1 DEF TaskTypes
<1>8. \A d \in Connections : link'[d] => link[d]  BY <1>1
<1>9. UNCHANGED <<user, phase, game, since, rx, sending, shown>>  BY <1>1
<1>. QED BY <1>2, <1>3, <1>4, <1>6, <1>7, <1>8, <1>9, ServedStep

LEMMA VanishStep ==
  ASSUME SessionsInv, NEW c \in Connections, Vanish(c)
  PROVE  SessionsInv'
<1>. USE TypeFacts
<1>1. TaskTypes' /\ \A d \in Connections : link'[d] => link[d]
  BY DEF Vanish, TaskTypes
<1>. QED BY <1>1, RowsKept, SessionsStay DEF Vanish

LEMMA FailDisconnectStep ==
  ASSUME SessionsInv, NEW c \in Connections, FailDisconnect(c)
  PROVE  SessionsInv'
<1>. USE TypeFacts
<1>1. TaskTypes'  BY DEF FailDisconnect, Served, TaskTypes, Labels
<1>2. faults' \in 0..MaxFaults  BY SessionsAssumption DEF FailDisconnect, RowTypes
<1>3. RowTypes' /\ Grows  BY <1>2 DEF FailDisconnect, RowTypes, Grows
<1>4. /\ UNCHANGED <<user, phase, game, since, rx, sending, link, shown>>
      /\ \A d \in Connections : d # c => receiving'[d] = receiving[d]
  BY DEF FailDisconnect, Served, TaskTypes
<1>5. phase[c] = "open"  BY ServingFacts DEF FailDisconnect
<1>. QED BY <1>1, <1>3, <1>4, <1>5, SessionsStay

LEMMA SelectStep ==
  ASSUME SessionsInv, NEW c \in Connections, Select(c)
  PROVE  SessionsInv'
<1>. USE TypeFacts
<1>1. TaskTypes'  BY DEF Select, TaskTypes, Phases, Labels
<1>2. /\ phase[c] = "open" /\ phase'[c] = "over" /\ ~link'[c]
      /\ sending'[c] = "ended" /\ receiving'[c] = "ended"
      /\ UNCHANGED <<rows, user, game, since, rx, left, shown, orders, asked>>
  BY DEF Select, TaskTypes
<1>3. Seen(c) /\ InOrder(shown[c])  BY <1>2 DEF Session
<1>4. Seen(c)'
  <2>1. Due(c)' = Due(c)  BY <1>2 DEF Due, rows
  <2>. QED BY <1>2, <1>3, <2>1 DEF Seen, rows
<1>5. Session(c)'  BY <1>2, <1>3, <1>4 DEF Session
<1>. QED BY <1>1, <1>2, <1>5, OneSession DEF Select, TaskTypes
-----------------------------------------------------------------------------
LEMMA NextSessionsInv == SessionsInv /\ [Next]_vars => SessionsInv'
<1>. SUFFICES ASSUME SessionsInv, [Next]_vars PROVE SessionsInv'
  OBVIOUS
<1>1. CASE UNCHANGED vars
  <2>1. RowTypes' /\ Grows  BY <1>1, RowsKept DEF vars
  <2>2. TaskTypes'  BY <1>1, TypeFacts DEF vars, tasks, TaskTypes
  <2>. QED BY <1>1, <2>1, <2>2, SessionsStay DEF vars, tasks
<1>2. ASSUME NEW c \in Connections, Showing(c) PROVE SessionsInv'
  BY <1>2, LaggedStep, ShowStep DEF Showing
<1>3. ASSUME NEW c \in Connections, Serving(c) PROVE SessionsInv'
  BY <1>3, LocalStep, SharedStep DEF Serving
<1>. QED
  BY <1>1, <1>2, <1>3, RowsStep, UpgradeStep, OpeningStep, LocalStep, VanishStep, SelectStep,
     FailDisconnectStep
  DEF Next

LEMMA InitSessionsInv == Init => SessionsInv
<1>. SUFFICES ASSUME Init PROVE SessionsInv
  OBVIOUS
<1>1. <<>> \in Seq(Messages) /\ <<>> \in Seq(Nat) /\ DOMAIN <<>> = {}
  BY EmptySeq, LenProperties
<1>2. RowTypes  BY <1>1, SessionsAssumption DEF Init, RowTypes, Deletions
<1>3. TaskTypes  BY <1>1, SessionsAssumption DEF Init, TaskTypes, Phases, Labels
<1>4. \A c \in Connections : Session(c)
  BY <1>1 DEF Init, Session, InOrder
<1>. QED BY <1>2, <1>3, <1>4 DEF SessionsInv

LEMMA AlwaysSessionsInv == Spec => []SessionsInv
BY InitSessionsInv, NextSessionsInv, PTL DEF Spec

\* Rows, channels and sessions keep their types, and no receiver is ahead of
\* its channel: not even when the lobby is deleted, or its entry is gone, while
\* the session goes on.
THEOREM SessionTypes == Spec => []TypeOK
<1>1. SessionsInv => TypeOK
  BY DEF SessionsInv, RowTypes, TaskTypes, Session, Seen, TypeOK, Deletions, Phases, Labels
<1>. QED BY <1>1, AlwaysSessionsInv, PTL

\* Every client sees exactly the messages for it, in the order in which they
\* were sent, from its subscription on until the connection is lost, however
\* small the channel and however slow the client.
THEOREM ClientsSeeAll == Spec => []NoGaps
<1>1. SessionsInv => NoGaps
  <2>. SUFFICES ASSUME SessionsInv, NEW c \in Connections
                PROVE  /\ InOrder(shown[c])
                       /\ phase[c] \in {"open", "over"} /\ game[c] # Nowhere => Seen(c)
                       /\ phase[c] = "open" => Seen(c)
    BY DEF NoGaps, Seen
  <2>. QED BY DEF SessionsInv, Session
<1>. QED BY <1>1, AlwaysSessionsInv, PTL
-----------------------------------------------------------------------------
(***************************************************************************)
(* Orders and their answers.  Once the serving task is through with an     *)
(* order, the channel of the lobby holds an answer that was sent after the *)
(* order was taken, if the lobby still has its entry; and the session was  *)
(* subscribed by then.                                                     *)
(***************************************************************************)
Told(c) ==
  \E i \in 1..Len(channel[game[c]]) :
    /\ i > asked[c]
    /\ channel[game[c]][i].kind \in {"Ack", "Error"}
    /\ channel[game[c]][i].to = user[c]

AnswerInv(c) ==
  /\ phase[c] \in {"unused", "look", "subscribe"} => orders[c] = 0
  /\ phase[c] = "open" /\ orders[c] > 0 =>
       /\ since[c] <= asked[c] + 1 /\ asked[c] <= Len(channel[game[c]])
       /\ receiving[c] # "order" /\ game[c] \in entry => Told(c)

AnswersInv == SessionsInv /\ \A c \in Connections : AnswerInv(c)

\* In every step channels grow and entries only go.
LEMMA NextGrows ==
  ASSUME SessionsInv, [Next]_vars
  PROVE  Grows /\ entry' \subseteq entry
<1>. USE TypeFacts
<1>1. CASE UNCHANGED rows  BY <1>1, RowsKept DEF rows
<1>2. ASSUME NEW l \in Lobbies,
             \/ \E u \in Users : Join(u, l)
             \/ \E to \in Users \cup {Everyone} : News(l, to)
             \/ KickAll(l) \/ RemoveEntry(l) \/ CommitDeletion(l) \/ RollBackDeletion(l)
      PROVE  Grows /\ entry' \subseteq entry
  <2>1. Grows  BY <1>2, RowsGrow
  <2>2. entry' \subseteq entry
    BY <1>2 DEF Join, News, KickAll, RemoveEntry, CommitDeletion, RollBackDeletion
  <2>. QED BY <2>1, <2>2
<1>3. ASSUME NEW c \in Connections,
             AcceptOrder(c) \/ FailOrder(c) \/ Leave(c) \/ TellLeft(c)
      PROVE  Grows /\ entry' \subseteq entry
  <2>1. Grows  BY <1>3, SharedGrow
  <2>2. entry' \subseteq entry  BY <1>3 DEF AcceptOrder, FailOrder, Leave, TellLeft
  <2>. QED BY <2>1, <2>2
<1>4. ASSUME NEW c \in Connections, NEW u \in Users, Upgrade(c, u) PROVE UNCHANGED rows
  BY <1>4 DEF Upgrade
<1>5. ASSUME NEW c \in Connections,
             TakeOrder(c) \/ TakeClientError(c) \/ TakeClose(c) \/ Vanish(c) \/ StreamEnds(c)
      PROVE  UNCHANGED rows
  BY <1>5 DEF TakeOrder, TakeClientError, TakeClose, Vanish, StreamEnds
<1>6. ASSUME NEW c \in Connections,
             Opening(c) \/ Showing(c) \/ FinishOrder(c) \/ ReadMembership(c) \/ Select(c)
      PROVE  UNCHANGED rows
  BY <1>6 DEF Opening, Showing, LookUp, Subscribe, MissEntry, Lagged, Show, FinishOrder,
              ReadMembership, Select
<1>7. ASSUME NEW c \in Connections, FailDisconnect(c) PROVE Grows /\ entry' \subseteq entry
  BY <1>7 DEF FailDisconnect, Grows
<1>. QED BY <1>1, <1>2, <1>3, <1>4, <1>5, <1>6, <1>7, RowsKept DEF Next, Serving, vars

\* A session that is not answered now: its last order stays the last one, and
\* what the channel held it holds.
LEMMA AnswerStays ==
  ASSUME SessionsInv, NEW c \in Connections, AnswerInv(c), Grows, entry' \subseteq entry,
         channel' \in [Lobbies -> Seq(Messages)],
         user'[c] = user[c], game'[c] = game[c], phase'[c] = phase[c], since'[c] = since[c],
         orders'[c] = orders[c], asked'[c] = asked[c],
         receiving[c] = "order" => receiving'[c] = "order"
  PROVE  AnswerInv(c)'
<1>. SUFFICES ASSUME phase[c] = "open", orders[c] > 0
              PROVE  /\ since'[c] <= asked'[c] + 1 /\ asked'[c] <= Len(channel'[game'[c]])
                     /\ receiving'[c] # "order" /\ game'[c] \in entry' => Told(c)'
  BY DEF AnswerInv
<1>1. /\ since[c] <= asked[c] + 1 /\ asked[c] <= Len(channel[game[c]])
      /\ receiving[c] # "order" /\ game[c] \in entry => Told(c)
  BY DEF AnswerInv
<1>2. game[c] \in Lobbies /\ asked[c] \in Nat
  BY TypeFacts DEF Session, Seen, TaskTypes
<1>3. /\ Len(channel[game[c]]) \in Nat /\ Len(channel'[game[c]]) \in Nat
      /\ Len(channel[game[c]]) <= Len(channel'[game[c]])
  BY <1>2, TypeFacts, LenProperties DEF Grows
<1>4. asked'[c] <= Len(channel'[game'[c]])  BY <1>1, <1>2, <1>3
<1>5. ASSUME receiving'[c] # "order", game'[c] \in entry' PROVE Told(c)'
  <2>1. PICK i \in 1..Len(channel[game[c]]) :
          /\ i > asked[c]
          /\ channel[game[c]][i].kind \in {"Ack", "Error"}
          /\ channel[game[c]][i].to = user[c]
    BY <1>1, <1>5 DEF Told
  <2>2. i \in 1..Len(channel'[game[c]])  BY <1>3
  <2>3. channel'[game[c]][i] = channel[game[c]][i]  BY <1>2 DEF Grows
  <2>. QED BY <2>1, <2>2, <2>3 DEF Told
<1>. QED BY <1>1, <1>4, <1>5

\* An answer goes to the end of the channel, and so after the order.
LEMMA AnswerSent ==
  ASSUME SessionsInv, NEW c \in Connections, AnswerInv(c), game[c] \in Lobbies,
         user[c] \in Users, phase[c] = "open",
         NEW kind \in {"Ack", "Error"}, Broadcast(game[c], kind, user[c]),
         UNCHANGED <<user, game, phase, since, orders, asked>>
  PROVE  AnswerInv(c)'
<1>. USE TypeFacts
<1>. SUFFICES ASSUME orders[c] > 0
              PROVE  /\ since[c] <= asked[c] + 1 /\ asked[c] <= Len(channel'[game[c]])
                     /\ Told(c)'
  BY DEF AnswerInv
<1>. DEFINE m == [kind |-> kind, to |-> user[c]]
            n == Len(channel[game[c]])
<1>1. since[c] <= asked[c] + 1 /\ asked[c] <= n /\ asked[c] \in Nat /\ n \in Nat
  BY DEF AnswerInv, TaskTypes
<1>2. m \in Messages  BY DEF Messages
<1>3. channel'[game[c]] = Append(channel[game[c]], m)  BY DEF Broadcast, RowTypes
<1>4. m.kind \in {"Ack", "Error"} /\ m.to = user[c]  OBVIOUS
<1>. HIDE DEF m
<1>5. Len(channel'[game[c]]) = n + 1 /\ channel'[game[c]][n + 1] = m
  BY <1>2, <1>3, AppendProperties
<1>6. n + 1 \in 1..Len(channel'[game[c]]) /\ n + 1 > asked[c]  BY <1>1, <1>5
<1>7. Told(c)'  BY <1>4, <1>5, <1>6 DEF Told
<1>. QED BY <1>1, <1>5, <1>7

LEMMA AnswerStep ==
  ASSUME SessionsInv, NEW c \in Connections, AnswerInv(c), SessionsInv',
         Grows, entry' \subseteq entry,
         AcceptOrder(c) \/ FailOrder(c)
  PROVE  AnswerInv(c)'
<1>1. phase[c] = "open" /\ user[c] \in Users /\ game[c] \in Lobbies
  BY ServingFacts DEF AcceptOrder, FailOrder
<1>2. UNCHANGED <<entry, user, game, phase, since, orders, asked>>
  BY DEF AcceptOrder, FailOrder
<1>3. CASE AcceptOrder(c)
  <2>1. Broadcast(game[c], "Ack", user[c])  BY <1>3 DEF AcceptOrder
  <2>. QED BY <1>1, <1>2, <2>1, AnswerSent
<1>4. CASE FailOrder(c)
  <2>1. CASE game[c] \in entry
    <3>1. Broadcast(game[c], "Error", user[c])  BY <1>4, <2>1 DEF FailOrder, TryBroadcast
    <3>. QED BY <1>1, <1>2, <3>1, AnswerSent
  <2>2. CASE game[c] \notin entry
    <3>1. channel' = channel  BY <1>4, <2>2 DEF FailOrder, TryBroadcast
    <3>. QED BY <1>1, <1>2, <2>2, <3>1 DEF AnswerInv
  <2>. QED BY <2>1, <2>2
<1>. QED BY <1>3, <1>4

\* What an order finds: the session has subscribed, and its answer will come
\* after all that the channel holds.
LEMMA TakeOrderStep ==
  ASSUME SessionsInv, NEW c \in Connections, TakeOrder(c)
  PROVE  AnswerInv(c)'
<1>. USE TypeFacts
<1>1. phase[c] = "open" /\ Seen(c)
  BY ServingFacts DEF TakeOrder, Session
<1>2. /\ receiving'[c] = "order" /\ asked'[c] = Len(channel[game[c]])
      /\ UNCHANGED <<rows, phase, game, since>>
  BY DEF TakeOrder, Served, TaskTypes
<1>3. /\ since[c] \in Nat /\ rx[c] \in Nat /\ Len(channel[game[c]]) \in Nat
      /\ since[c] <= rx[c] /\ rx[c] <= Len(channel[game[c]]) + 1
  BY <1>1 DEF Seen, TaskTypes
<1>4. since[c] <= Len(channel[game[c]]) + 1  BY <1>3
<1>. QED BY <1>1, <1>2, <1>3, <1>4 DEF AnswerInv, rows

LEMMA NextAnswersInv == AnswersInv /\ [Next]_vars => AnswersInv'
<1>. SUFFICES ASSUME AnswersInv, [Next]_vars PROVE AnswersInv'
  OBVIOUS
<1>. USE DEF AnswersInv
<1>1. SessionsInv /\ SessionsInv'  BY NextSessionsInv
<1>2. Grows /\ entry' \subseteq entry /\ channel' \in [Lobbies -> Seq(Messages)]
  BY <1>1, NextGrows DEF SessionsInv, RowTypes
<1>. SUFFICES ASSUME NEW c \in Connections PROVE AnswerInv(c)'
  BY <1>1
<1>3. AnswerInv(c) /\ TaskTypes /\ Session(c)  BY <1>1, TypeFacts
<1>4. ASSUME UNCHANGED <<user, game, phase, since, orders, asked, receiving>>
      PROVE  AnswerInv(c)'
  BY <1>1, <1>2, <1>3, <1>4, AnswerStays
<1>5. ASSUME NEW d \in Connections, d # c, NEW label, Served(d, label),
             UNCHANGED <<user, game, phase, since>>,
             orders'[c] = orders[c], asked'[c] = asked[c]
      PROVE  AnswerInv(c)'
  <2>1. receiving'[c] = receiving[c]  BY <1>3, <1>5 DEF Served, TaskTypes
  <2>. QED BY <1>1, <1>2, <1>3, <1>5, <2>1, AnswerStays
<1>6. CASE UNCHANGED tasks  BY <1>4, <1>6 DEF tasks
<1>7. ASSUME NEW l \in Lobbies,
             \/ \E u \in Users : Join(u, l)
             \/ \E to \in Users \cup {Everyone} : News(l, to)
             \/ KickAll(l) \/ RemoveEntry(l) \/ CommitDeletion(l) \/ RollBackDeletion(l)
      PROVE  UNCHANGED tasks
  BY <1>7 DEF Join, News, KickAll, RemoveEntry, CommitDeletion, RollBackDeletion
<1>8. ASSUME NEW d \in Connections, NEW u \in Users, Upgrade(d, u) PROVE AnswerInv(c)'
  <2>1. CASE d = c
    <3>1. phase[c] = "unused" /\ phase'[c] = "look" /\ orders' = orders
      BY <1>3, <1>8, <2>1 DEF Upgrade, TaskTypes
    <3>. QED BY <1>3, <3>1 DEF AnswerInv
  <2>2. CASE d # c
    <3>1. /\ user'[c] = user[c] /\ phase'[c] = phase[c]
          /\ UNCHANGED <<game, since, orders, asked, receiving>>
      BY <1>3, <1>8, <2>2 DEF Upgrade, TaskTypes
    <3>. QED BY <1>1, <1>2, <1>3, <3>1, AnswerStays
  <2>. QED BY <2>1, <2>2
<1>9. ASSUME NEW d \in Connections, Opening(d) PROVE AnswerInv(c)'
  <2>1. CASE d = c
    <3>1. /\ phase[c] \in {"look", "subscribe"} /\ orders' = orders
      BY <1>9, <2>1 DEF Opening, LookUp, Subscribe, MissEntry
    <3>2. orders[c] = 0  BY <1>3, <3>1 DEF AnswerInv
    <3>. QED BY <3>1, <3>2 DEF AnswerInv
  <2>2. CASE d # c
    <3>1. /\ game'[c] = game[c] /\ phase'[c] = phase[c] /\ since'[c] = since[c]
          /\ receiving'[c] = receiving[c] /\ UNCHANGED <<user, orders, asked>>
      BY <1>3, <1>9, <2>2 DEF Opening, LookUp, Subscribe, MissEntry, TaskTypes
    <3>. QED BY <1>1, <1>2, <1>3, <3>1, AnswerStays
  <2>. QED BY <2>1, <2>2
<1>10. ASSUME NEW d \in Connections, Showing(d) \/ Vanish(d) PROVE AnswerInv(c)'
  BY <1>4, <1>10 DEF Showing, Lagged, Show, Vanish
<1>11. ASSUME NEW d \in Connections, Select(d) PROVE AnswerInv(c)'
  <2>1. CASE d = c
    <3>1. phase'[c] = "over"  BY <1>3, <1>11, <2>1 DEF Select, TaskTypes
    <3>. QED BY <3>1 DEF AnswerInv
  <2>2. CASE d # c
    <3>1. /\ phase'[c] = phase[c] /\ receiving'[c] = receiving[c]
          /\ UNCHANGED <<user, game, since, orders, asked>>
      BY <1>3, <1>11, <2>2 DEF Select, TaskTypes
    <3>. QED BY <1>1, <1>2, <1>3, <3>1, AnswerStays
  <2>. QED BY <2>1, <2>2
<1>12. ASSUME NEW d \in Connections, TakeOrder(d) PROVE AnswerInv(c)'
  <2>1. CASE d = c  BY <1>1, <1>12, <2>1, TakeOrderStep
  <2>2. CASE d # c
    <3>1. orders'[c] = orders[c] /\ asked'[c] = asked[c]
      BY <1>3, <1>12, <2>2 DEF TakeOrder, TaskTypes
    <3>2. Served(d, "order") /\ UNCHANGED <<user, game, phase, since>>
      BY <1>12 DEF TakeOrder
    <3>. QED BY <1>5, <2>2, <3>1, <3>2
  <2>. QED BY <2>1, <2>2
<1>13. ASSUME NEW d \in Connections, AcceptOrder(d) \/ FailOrder(d) PROVE AnswerInv(c)'
  <2>1. CASE d = c  BY <1>1, <1>2, <1>3, <1>13, <2>1, AnswerStep
  <2>2. CASE d # c
    <3>1. Served(d, "acked") \/ Served(d, "waiting")  BY <1>13 DEF AcceptOrder, FailOrder
    <3>2. UNCHANGED <<user, game, phase, since, orders, asked>>
      BY <1>13 DEF AcceptOrder, FailOrder
    <3>. QED BY <1>5, <2>2, <3>1, <3>2
  <2>. QED BY <2>1, <2>2
<1>14. ASSUME NEW d \in Connections,
              \/ FinishOrder(d) \/ TakeClientError(d) \/ TakeClose(d) \/ StreamEnds(d)
              \/ ReadMembership(d) \/ Leave(d) \/ TellLeft(d) \/ FailDisconnect(d)
       PROVE  AnswerInv(c)'
  <2>1. PICK label : Served(d, label)
    BY <1>14 DEF FinishOrder, TakeClientError, TakeClose, StreamEnds, ReadMembership, Leave,
                 TellLeft, FailDisconnect
  <2>2. receiving[d] # "order" /\ UNCHANGED <<user, game, phase, since, orders, asked>>
    BY <1>14 DEF FinishOrder, TakeClientError, TakeClose, StreamEnds, ReadMembership, Leave,
                 TellLeft, FailDisconnect
  <2>3. CASE d = c  BY <1>1, <1>2, <1>3, <2>2, <2>3, AnswerStays
  <2>4. CASE d # c  BY <1>5, <2>1, <2>2, <2>4
  <2>. QED BY <2>3, <2>4
<1>. QED
  BY <1>6, <1>7, <1>8, <1>9, <1>10, <1>11, <1>12, <1>13, <1>14 DEF Next, Serving, vars

LEMMA AlwaysAnswersInv == Spec => []AnswersInv
<1>1. Init => AnswersInv
  <2>1. ASSUME Init, NEW c \in Connections PROVE AnswerInv(c)
    BY <2>1 DEF Init, AnswerInv
  <2>. QED BY <2>1, InitSessionsInv DEF AnswersInv
<1>. QED BY <1>1, NextAnswersInv, PTL DEF Spec

\* A client that has been shown all that its channel holds has seen an answer to
\* its last order (websockets.rs:180-199), whatever the capacity of the channel
\* and whatever else is broadcast: the answer comes after the subscription, and
\* no session passes over a message for its client.
THEOREM AnswersReachClients == Spec => []AnswersArrive
<1>1. AnswersInv => AnswersArrive
  <2>. SUFFICES ASSUME AnswersInv, NEW c \in Connections, phase[c] = "open", ~Gone(c),
                       orders[c] > 0, receiving[c] # "order",
                       rx[c] > Len(channel[game[c]])
                PROVE  Answered(c, asked[c])
    BY DEF AnswersArrive
  <2>. USE DEF AnswersInv
  <2>1. link[c] /\ game[c] \in entry  BY DEF Gone
  <2>2. Seen(c) /\ AnswerInv(c) /\ TaskTypes  BY TypeFacts DEF Session
  <2>3. since[c] <= asked[c] + 1 /\ Told(c)  BY <2>1, <2>2 DEF AnswerInv
  <2>4. PICK i \in 1..Len(channel[game[c]]) :
          /\ i > asked[c]
          /\ channel[game[c]][i].kind \in {"Ack", "Error"}
          /\ channel[game[c]][i].to = user[c]
    BY <2>3 DEF Told
  <2>5. i \in since[c]..(rx[c] - 1)
    <3>1. /\ since[c] \in Nat /\ rx[c] \in Nat /\ asked[c] \in Nat
          /\ game[c] \in Lobbies
      BY <2>2 DEF TaskTypes, Seen
    <3>2. Len(channel[game[c]]) \in Nat  BY <3>1, TypeFacts
    <3>. QED BY <2>3, <2>4, <3>1, <3>2
  <2>6. i \in Due(c)  BY <2>4, <2>5 DEF Due, For
  <2>7. i \in Range(shown[c])  BY <2>1, <2>2, <2>6 DEF Seen
  <2>8. PICK k \in DOMAIN shown[c] : shown[c][k] = i  BY <2>7 DEF Range
  <2>. QED BY <2>4, <2>8 DEF Answered
<1>. QED BY <1>1, AlwaysAnswersInv, PTL
=============================================================================
