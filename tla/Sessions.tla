------------------------------ MODULE Sessions ------------------------------
(***************************************************************************)
(* The websocket sessions: src/websockets.rs.  A lobby with an entry in    *)
(* State.lobbies has a broadcast channel.  A connection looks up the lobby *)
(* of its user, subscribes, and then runs two tasks until the first one    *)
(* ends: one shows what the channel brings, one serves what the client     *)
(* sends.  What the round engine makes of an order (RoundEngine) is here   *)
(* just its Ack or Error and whatever else it broadcasts.                  *)
(*                                                                         *)
(* A channel holds the last Capacity messages.  It is modelled as all that *)
(* was ever sent, with a position per receiver.  Its Sender never fails:   *)
(* LobbyState keeps a receiver.                                            *)
(***************************************************************************)
EXTENDS Integers, Sequences, SequencesExt

CONSTANTS
  Connections,     \* websockets, each opened at most once
  Users, Lobbies,
  InitialMembers,  \* who is in which lobby at the start
  Capacity,        \* of a broadcast channel
  Nowhere,         \* game_id is null
  NoUser,          \* the connection is not there yet
  Everyone,        \* the addressee of a message for all
  MaxNews,         \* bound: messages of a channel that no session asked for
  MaxOrders,       \* bound: messages a client sends over one connection
  MaxFaults        \* bound: transactions rolled back and queries that fail

ASSUME SessionsAssumption ==
  /\ Capacity \in Nat \ {0}
  /\ MaxNews \in Nat /\ MaxOrders \in Nat /\ MaxFaults \in Nat
  /\ Nowhere \notin Lobbies /\ NoUser \notin Users /\ Everyone \notin Users
  /\ InitialMembers \in [Users -> Lobbies \cup {Nowhere}]

\* "news" stands for every event that is not one of the others.
Messages == [kind : {"news", "Ack", "Error", "UserDisconnected", "KickAll"},
             to : Users \cup {Everyone}]

VARIABLES
  game_id,    \* the column of "user"
  entry,      \* the lobbies with an entry, and so a channel
  channel,    \* what was sent to each lobby
  deleting,   \* where delete_lobby_endpoint stands for each lobby
  user,       \* whose connection it is
  phase,      \* where game_process stands
  game,       \* the lobby of the connection
  since, rx,  \* the first, and the next, message of its receiver
  sending,    \* the task that shows messages
  receiving,  \* the task that serves the client
  left,       \* the lobby that disconnect_user has read
  link,       \* whether the client is there
  shown,      \* the positions of the messages the client was shown
  orders,     \* how many messages the client has sent
  asked,      \* the length of the channel when the last order was taken
  faults

rows  == <<game_id, entry, channel, deleting, faults>>
tasks == <<user, phase, game, since, rx, sending, receiving, left, link, shown,
           orders, asked>>
vars  == <<rows, tasks>>

Init ==
  /\ game_id = InitialMembers
  /\ entry = Lobbies
  /\ channel = [l \in Lobbies |-> <<>>]
  /\ deleting = [l \in Lobbies |-> "no"]
  /\ user      = [c \in Connections |-> NoUser]
  /\ phase     = [c \in Connections |-> "unused"]
  /\ game      = [c \in Connections |-> Nowhere]
  /\ since     = [c \in Connections |-> 1]
  /\ rx        = [c \in Connections |-> 1]
  /\ sending   = [c \in Connections |-> "ended"]
  /\ receiving = [c \in Connections |-> "ended"]
  /\ left      = [c \in Connections |-> Nowhere]
  /\ link      = [c \in Connections |-> FALSE]
  /\ shown     = [c \in Connections |-> <<>>]
  /\ orders    = [c \in Connections |-> 0]
  /\ asked     = [c \in Connections |-> 0]
  /\ faults = 0

\* send_broadcast_msg to a lobby whose entry is there.
Broadcast(l, kind, to) ==
  channel' = [channel EXCEPT ![l] = Append(@, [kind |-> kind, to |-> to])]

\* send_broadcast_msg whose error is only logged.
TryBroadcast(l, kind, to) ==
  IF l \in entry THEN Broadcast(l, kind, to) ELSE UNCHANGED channel

MoreNews(l) ==
  Len(SelectSeq(channel[l], LAMBDA m : m.kind = "news")) < MaxNews
-----------------------------------------------------------------------------
(***************************************************************************)
(* What happens elsewhere: requests and the round engine.                  *)
(***************************************************************************)
\* connect_user, whose transaction waits for a deletion.
Join(u, l) ==
  /\ game_id[u] = Nowhere /\ l \in entry /\ deleting[l] = "no" /\ MoreNews(l)
  /\ game_id' = [game_id EXCEPT ![u] = l]
  /\ Broadcast(l, "news", Everyone)
  /\ UNCHANGED <<entry, deleting, faults, tasks>>

\* The round engine, a ping, an update of the lobby or of its classes.
News(l, to) ==
  /\ l \in entry /\ MoreNews(l)
  /\ Broadcast(l, "news", to)
  /\ UNCHANGED <<game_id, entry, deleting, faults, tasks>>

\* The entry goes first: then there is no channel for the message.
Mutant_KickAll(l) ==
  /\ l \in entry /\ deleting[l] = "no"
  /\ deleting' = [deleting EXCEPT ![l] = "kicked"]
  /\ UNCHANGED <<game_id, entry, channel, faults, tasks>>

\* delete_lobby_endpoint, with the lobby table locked.
KickAll(l) ==
  /\ l \in entry /\ deleting[l] = "no"
  /\ Broadcast(l, "KickAll", Everyone)
  /\ deleting' = [deleting EXCEPT ![l] = "kicked"]
  /\ UNCHANGED <<game_id, entry, faults, tasks>>

RemoveEntry(l) ==
  /\ deleting[l] = "kicked"
  /\ entry' = entry \ {l}
  /\ deleting' = [deleting EXCEPT ![l] = "removed"]
  /\ UNCHANGED <<game_id, channel, faults, tasks>>

CommitDeletion(l) ==
  /\ deleting[l] = "removed"
  /\ game_id' = [u \in Users |-> IF game_id[u] = l THEN Nowhere ELSE game_id[u]]
  /\ deleting' = [deleting EXCEPT ![l] = "done"]
  /\ UNCHANGED <<entry, channel, faults, tasks>>

\* A statement fails, for instance by fk_game_state, or the client hangs up:
\* the rows stay, and the entry if it is still there.
RollBackDeletion(l) ==
  /\ deleting[l] \in {"kicked", "removed"} /\ faults < MaxFaults
  /\ deleting' = [deleting EXCEPT ![l] = IF l \in entry THEN "no" ELSE "done"]
  /\ faults' = faults + 1
  /\ UNCHANGED <<game_id, entry, channel, tasks>>
-----------------------------------------------------------------------------
(***************************************************************************)
(* Opening a session.                                                      *)
(***************************************************************************)
Upgrade(c, u) ==
  /\ phase[c] = "unused"
  /\ user'  = [user EXCEPT ![c] = u]
  /\ phase' = [phase EXCEPT ![c] = "look"]
  /\ link'  = [link EXCEPT ![c] = TRUE]
  /\ UNCHANGED <<rows, game, since, rx, sending, receiving, left, shown, orders, asked>>

\* The row is read over the pool: a user who is in no lobby is turned away.
LookUp(c) ==
  /\ phase[c] = "look"
  /\ game' = [game EXCEPT ![c] = game_id[user[c]]]
  /\ IF game_id[user[c]] = Nowhere
       THEN /\ phase' = [phase EXCEPT ![c] = "over"]
            /\ link' = [link EXCEPT ![c] = FALSE]
       ELSE phase' = [phase EXCEPT ![c] = "subscribe"] /\ UNCHANGED link
  /\ UNCHANGED <<rows, user, since, rx, sending, receiving, left, shown, orders, asked>>

\* The receiver misses the next message.
Mutant_Subscribe(c) ==
  /\ phase[c] = "subscribe" /\ game[c] \in entry
  /\ phase'     = [phase EXCEPT ![c] = "open"]
  /\ since'     = [since EXCEPT ![c] = Len(channel[game[c]]) + 2]
  /\ rx'        = [rx EXCEPT ![c] = Len(channel[game[c]]) + 2]
  /\ sending'   = [sending EXCEPT ![c] = "running"]
  /\ receiving' = [receiving EXCEPT ![c] = "waiting"]
  /\ UNCHANGED <<rows, user, game, left, link, shown, orders, asked>>

\* A receiver gets what is sent from now on.
Subscribe(c) ==
  /\ phase[c] = "subscribe" /\ game[c] \in entry
  /\ phase'     = [phase EXCEPT ![c] = "open"]
  /\ since'     = [since EXCEPT ![c] = Len(channel[game[c]]) + 1]
  /\ rx'        = [rx EXCEPT ![c] = Len(channel[game[c]]) + 1]
  /\ sending'   = [sending EXCEPT ![c] = "running"]
  /\ receiving' = [receiving EXCEPT ![c] = "waiting"]
  /\ UNCHANGED <<rows, user, game, left, link, shown, orders, asked>>

\* `None => todo!()`: the task panics and the connection goes with it.
MissEntry(c) ==
  /\ phase[c] = "subscribe" /\ game[c] \notin entry
  /\ phase' = [phase EXCEPT ![c] = "panicked"]
  /\ link' = [link EXCEPT ![c] = FALSE]
  /\ UNCHANGED <<rows, user, game, since, rx, sending, receiving, left, shown, orders, asked>>
-----------------------------------------------------------------------------
(***************************************************************************)
(* The task that shows messages.                                           *)
(***************************************************************************)
\* Others' answers are shown, one's own are not.
Mutant_Addressed(m, u) == m.to = Everyone \/ m.to # u

Addressed(m, u) == m.to \in {u, Everyone}

\* More messages came than the channel holds: the next one is lost.
Lags(c) == Len(channel[game[c]]) - (rx[c] - 1) > Capacity

\* The receiver goes on with the oldest message that is left.
Mutant_Lagged(c) ==
  /\ sending[c] = "running" /\ Lags(c)
  /\ rx' = [rx EXCEPT ![c] = Len(channel[game[c]]) - Capacity + 1]
  /\ UNCHANGED <<rows, user, phase, game, since, sending, receiving, left, link, shown,
                 orders, asked>>

\* recv returns an error, which ends the loop.
Lagged(c) ==
  /\ sending[c] = "running" /\ Lags(c)
  /\ sending' = [sending EXCEPT ![c] = "ended"]
  /\ UNCHANGED <<rows, user, phase, game, since, rx, receiving, left, link, shown,
                 orders, asked>>

\* A message that cannot be sent is not kept and does not end the task.
Show(c) ==
  /\ sending[c] = "running" /\ ~Lags(c)
  /\ rx[c] <= Len(channel[game[c]])
  /\ rx' = [rx EXCEPT ![c] = @ + 1]
  /\ shown' = IF Addressed(channel[game[c]][rx[c]], user[c]) /\ link[c]
                THEN [shown EXCEPT ![c] = Append(@, rx[c])] ELSE shown
  /\ UNCHANGED <<rows, user, phase, game, since, sending, receiving, left, link,
                 orders, asked>>
-----------------------------------------------------------------------------
(***************************************************************************)
(* The task that serves the client, one message at a time.                 *)
(***************************************************************************)
Served(c, label) == receiving' = [receiving EXCEPT ![c] = label]

\* A RoundEnd comes in.
TakeOrder(c) ==
  /\ receiving[c] = "waiting" /\ link[c] /\ orders[c] < MaxOrders
  /\ orders' = [orders EXCEPT ![c] = @ + 1]
  /\ asked' = [asked EXCEPT ![c] = Len(channel[game[c]])]
  /\ Served(c, "order")
  /\ UNCHANGED <<rows, user, phase, game, since, rx, sending, left, link, shown>>

AcceptOrder(c) ==
  /\ receiving[c] = "order" /\ game[c] \in entry
  /\ Broadcast(game[c], "Ack", user[c])
  /\ Served(c, "acked")
  /\ UNCHANGED <<game_id, entry, deleting, faults, user, phase, game, since, rx, sending,
                 left, link, shown, orders, asked>>

\* The error is only logged.
Mutant_FailOrder(c) ==
  /\ receiving[c] \in {"order", "acked"}
  /\ Served(c, "waiting")
  /\ UNCHANGED <<rows, user, phase, game, since, rx, sending, left, link, shown,
                 orders, asked>>

\* process_user_msg fails, before its Ack or after it.  Without an entry it
\* always does, and the client is not told.
FailOrder(c) ==
  /\ receiving[c] \in {"order", "acked"}
  /\ TryBroadcast(game[c], "Error", user[c])
  /\ Served(c, "waiting")
  /\ UNCHANGED <<game_id, entry, deleting, faults, user, phase, game, since, rx, sending,
                 left, link, shown, orders, asked>>

FinishOrder(c) ==
  /\ receiving[c] = "acked"
  /\ Served(c, "waiting")
  /\ UNCHANGED <<rows, user, phase, game, since, rx, sending, left, link, shown,
                 orders, asked>>

\* A ClientMessage::Error comes in: `todo!()`, a panic that ends the task.
TakeClientError(c) ==
  /\ receiving[c] = "waiting" /\ link[c]
  /\ Served(c, "ended")
  /\ UNCHANGED <<rows, user, phase, game, since, rx, sending, left, link, shown,
                 orders, asked>>

TakeClose(c) ==
  /\ receiving[c] = "waiting" /\ link[c]
  /\ link' = [link EXCEPT ![c] = FALSE]
  /\ Served(c, "close")
  /\ UNCHANGED <<rows, user, phase, game, since, rx, sending, left, shown, orders, asked>>

\* The task ends without disconnecting the user.
Mutant_ReadMembership(c) ==
  /\ receiving[c] = "close"
  /\ Served(c, "ended")
  /\ UNCHANGED <<rows, user, phase, game, since, rx, sending, left, link, shown,
                 orders, asked>>

\* disconnect_user: the lobby the user is in now, not that of the session.
ReadMembership(c) ==
  /\ receiving[c] = "close"
  /\ left' = [left EXCEPT ![c] = game_id[user[c]]]
  /\ Served(c, IF game_id[user[c]] = Nowhere THEN "ended" ELSE "leave")
  /\ UNCHANGED <<rows, user, phase, game, since, rx, sending, link, shown, orders, asked>>

\* The row is written, once no deletion holds it.
Leave(c) ==
  /\ receiving[c] = "leave"
  /\ game_id[user[c]] \in Lobbies => deleting[game_id[user[c]]] # "removed"
  /\ game_id' = [game_id EXCEPT ![user[c]] = Nowhere]
  /\ Served(c, "tell")
  /\ UNCHANGED <<entry, channel, deleting, faults, user, phase, game, since, rx, sending,
                 left, link, shown, orders, asked>>

TellLeft(c) ==
  /\ receiving[c] = "tell"
  /\ TryBroadcast(left[c], "UserDisconnected", Everyone)
  /\ Served(c, "ended")
  /\ UNCHANGED <<game_id, entry, deleting, faults, user, phase, game, since, rx, sending,
                 left, link, shown, orders, asked>>

\* A query of disconnect_user fails, before or after the row is written: that
\* is only logged.
FailDisconnect(c) ==
  /\ receiving[c] \in {"close", "leave", "tell"} /\ faults < MaxFaults
  /\ faults' = faults + 1
  /\ Served(c, "ended")
  /\ UNCHANGED <<game_id, entry, channel, deleting, user, phase, game, since, rx, sending,
                 left, link, shown, orders, asked>>

\* The client vanishes.  That the stream ends is noticed between two
\* messages, and nobody disconnects the user.
Vanish(c) ==
  /\ phase[c] = "open" /\ link[c]
  /\ link' = [link EXCEPT ![c] = FALSE]
  /\ UNCHANGED <<rows, user, phase, game, since, rx, sending, receiving, left, shown,
                 orders, asked>>

StreamEnds(c) ==
  /\ receiving[c] = "waiting" /\ ~link[c]
  /\ Served(c, "ended")
  /\ UNCHANGED <<rows, user, phase, game, since, rx, sending, left, link, shown,
                 orders, asked>>
-----------------------------------------------------------------------------
\* tokio::select!: the task that still runs is aborted, wherever it awaits.
Select(c) ==
  /\ phase[c] = "open" /\ (sending[c] = "ended" \/ receiving[c] = "ended")
  /\ phase'     = [phase EXCEPT ![c] = "over"]
  /\ sending'   = [sending EXCEPT ![c] = "ended"]
  /\ receiving' = [receiving EXCEPT ![c] = "ended"]
  /\ link'      = [link EXCEPT ![c] = FALSE]
  /\ UNCHANGED <<rows, user, game, since, rx, left, shown, orders, asked>>

Opening(c) == LookUp(c) \/ Subscribe(c) \/ MissEntry(c)
Showing(c) == Lagged(c) \/ Show(c)
Serving(c) ==
  \/ AcceptOrder(c) \/ FailOrder(c) \/ FinishOrder(c)
  \/ ReadMembership(c) \/ Leave(c) \/ TellLeft(c)

Next ==
  \/ \E l \in Lobbies :
       \/ \E u \in Users : Join(u, l)
       \/ \E to \in Users \cup {Everyone} : News(l, to)
       \/ KickAll(l) \/ RemoveEntry(l) \/ CommitDeletion(l) \/ RollBackDeletion(l)
  \/ \E c \in Connections :
       \/ \E u \in Users : Upgrade(c, u)
       \/ TakeOrder(c) \/ TakeClientError(c) \/ TakeClose(c) \/ Vanish(c) \/ StreamEnds(c)
       \/ FailDisconnect(c)
       \/ Opening(c) \/ Showing(c) \/ Serving(c) \/ Select(c)

Spec == Init /\ [][Next]_vars

\* tokio runs every task that can go on; what clients do is up to them.  That
\* includes StreamEnds: whether a client that is gone is ever noticed depends
\* on its network, and an error of the stream is only logged.
FairSpec ==
  /\ Spec
  /\ \A c \in Connections :
       WF_vars(Opening(c)) /\ WF_vars(Showing(c)) /\ WF_vars(Serving(c)) /\ WF_vars(Select(c))
  /\ \A l \in Lobbies : WF_vars(RemoveEntry(l)) /\ WF_vars(CommitDeletion(l))
-----------------------------------------------------------------------------
(***************************************************************************)
(* Properties.                                                             *)
(***************************************************************************)
For(u) == {u, Everyone}

\* Rows, channels and tasks have the types of what they stand for; a session
\* has a lobby, and no receiver is ahead of its channel.
TypeOK ==
  /\ game_id \in [Users -> Lobbies \cup {Nowhere}]
  /\ entry \subseteq Lobbies
  /\ channel \in [Lobbies -> Seq(Messages)]
  /\ deleting \in [Lobbies -> {"no", "kicked", "removed", "done"}]
  /\ user \in [Connections -> Users \cup {NoUser}]
  /\ phase \in [Connections -> {"unused", "look", "subscribe", "open", "over", "panicked"}]
  /\ game \in [Connections -> Lobbies \cup {Nowhere}]
  /\ since \in [Connections -> Nat] /\ rx \in [Connections -> Nat]
  /\ sending \in [Connections -> {"running", "ended"}]
  /\ receiving \in [Connections -> {"waiting", "order", "acked", "close", "leave",
                                    "tell", "ended"}]
  /\ left \in [Connections -> Lobbies \cup {Nowhere}]
  /\ link \in [Connections -> BOOLEAN]
  /\ shown \in [Connections -> Seq(Nat)]
  /\ orders \in [Connections -> 0..MaxOrders] /\ asked \in [Connections -> Nat]
  /\ faults \in 0..MaxFaults
  /\ \A c \in Connections : phase[c] = "open" =>
       /\ user[c] \in Users /\ game[c] \in Lobbies
       /\ 1 <= since[c] /\ since[c] <= rx[c] /\ rx[c] <= Len(channel[game[c]]) + 1

\* What the receiver of c has passed and its client should have seen.
Due(c) == {i \in since[c]..(rx[c] - 1) : channel[game[c]][i].to \in For(user[c])}

InOrder(positions) ==
  \A i, j \in DOMAIN positions : i < j => positions[i] < positions[j]

\* A client sees the messages for it in the order in which they were sent and
\* without a gap, from the moment it is connected for as long as it is: one
\* that is too slow loses its connection, not a message (websockets.rs:128).
NoGaps ==
  \A c \in Connections :
    /\ InOrder(shown[c])
    /\ phase[c] \in {"open", "over"} /\ game[c] # Nowhere =>
         \E lost \in since[c]..rx[c] : Range(shown[c]) = {i \in Due(c) : i < lost}
    /\ phase[c] = "open" /\ link[c] => Range(shown[c]) = Due(c)

Gone(c) == ~link[c] \/ game[c] \notin entry

Answered(c, n) ==
  \E i \in DOMAIN shown[c] :
    /\ shown[c][i] > n
    /\ channel[game[c]][shown[c][i]].kind \in {"Ack", "Error"}

\* A client that has been shown all that its channel holds has seen an answer to
\* its last order, unless that one is still being processed: what the serving
\* task answers reaches the client through the channel like any other message
\* (websockets.rs:180-199), and there is no way past it.
AnswersArrive ==
  \A c \in Connections :
    /\ phase[c] = "open" /\ ~Gone(c)
    /\ orders[c] > 0 /\ receiving[c] # "order"
    /\ rx[c] > Len(channel[game[c]])
    => Answered(c, asked[c])

\* Every order that is taken is answered, and the client sees the answer,
\* unless it loses its connection or the lobby is deleted.
OrdersAnswered ==
  \A c \in Connections : receiving[c] = "order" ~> Answered(c, asked[c]) \/ Gone(c)

KickAlls(l) == {i \in DOMAIN channel[l] : channel[l][i].kind = "KickAll"}

\* The client has seen the deletion of l that came last.
Kicked(c, l) ==
  \E i \in KickAlls(l) : i \in Range(shown[c]) /\ \A j \in KickAlls(l) : j <= i

\* It was connected after the message of every deletion of l.
CameLate(c, l) == KickAlls(l) # {} /\ \A i \in KickAlls(l) : i < since[c]

\* When a lobby is deleted, whoever is connected to it sees the KickAll of this
\* deletion or loses the connection.  One gap stays: a session that subscribes
\* between the broadcast (lobby_endpoints.rs:133) and the removal of the entry
\* (153) came too late for the message, is told nothing, and is left with a
\* channel on which nobody sends.
EverybodyKicked ==
  \A c \in Connections : \A l \in Lobbies :
    phase[c] = "open" /\ game[c] = l /\ l \notin entry ~>
      ~link[c] \/ Kicked(c, l) \/ CameLate(c, l)

\* A client that says Close leaves its lobby (websockets.rs:217), even when a
\* deletion holds its row at that moment, unless a query fails from then on, or
\* the showing task ends and the farewell is cut off with the session (239).
CloseLeaves ==
  \A c \in Connections : \A n \in 0..MaxFaults :
    receiving[c] = "close" /\ faults = n ~>
      /\ phase[c] = "open"
      /\ game_id[user[c]] = Nowhere \/ sending[c] = "ended" \/ faults > n
=============================================================================
