---------------------------- MODULE LobbyRoster ----------------------------
(***************************************************************************)
(* What the requests of LobbyStore promise together: each of them has its  *)
(* effect on the lobbies and on who is in them at one instant, and its     *)
(* conditions hold at that instant, whatever runs beside it.               *)
(***************************************************************************)
EXTENDS Integers, FiniteSets

CONSTANTS Lobbies, Users, Forms, NoRow, Nowhere, Deleted

VARIABLES lobby, game_id

Members(l) == {u \in Users : game_id[u] = l}

Row(form, started) ==
  [started |-> started, max_players |-> form.max_players,
   code |-> form.code, code_use_times |-> form.code_use_times]

Init == /\ \A l \in Lobbies : lobby[l] # NoRow => ~lobby[l].started
        /\ game_id = [u \in Users |-> Nowhere]

Exists(l) == lobby[l] # NoRow

\* Somebody enters a lobby that is not full and whose game is not started.
Enter(u, l) ==
  /\ game_id[u] = Nowhere
  /\ Exists(l) /\ ~lobby[l].started
  /\ Cardinality(Members(l)) < lobby[l].max_players
  /\ game_id' = [game_id EXCEPT ![u] = l]

Join(u, l) == Enter(u, l) /\ UNCHANGED lobby

\* Every entry by code costs one of its uses.
JoinByCode(u, l) ==
  /\ Enter(u, l)
  /\ lobby[l].code /\ lobby[l].code_use_times > 0
  /\ lobby' = [lobby EXCEPT ![l].code_use_times = @ - 1]

Leave(u) ==
  /\ game_id[u] \in Lobbies
  /\ game_id' = [game_id EXCEPT ![u] = Nowhere]
  /\ UNCHANGED lobby

Remove(u) ==
  /\ game_id' = [game_id EXCEPT ![u] = Deleted]
  /\ UNCHANGED lobby

Open(l, form) ==
  /\ ~Exists(l)
  /\ lobby' = [lobby EXCEPT ![l] = Row(form, FALSE)]
  /\ UNCHANGED game_id

\* A form may change everything but whether the game is started; without a
\* new code the old one keeps the uses it has left.
Change(l, form) ==
  /\ Exists(l)
  /\ lobby' = [lobby EXCEPT ![l] =
       IF form.code THEN Row(form, @.started)
                    ELSE [@ EXCEPT !.max_players = form.max_players]]
  /\ UNCHANGED game_id

SetStarted(l, started) ==
  /\ Exists(l)
  /\ lobby' = [lobby EXCEPT ![l].started = started]
  /\ UNCHANGED game_id

\* A lobby whose game is not started goes, and nobody stays in it.
Close(l) ==
  /\ Exists(l) /\ ~lobby[l].started
  /\ lobby' = [lobby EXCEPT ![l] = NoRow]
  /\ game_id' = [u \in Users |-> IF game_id[u] = l THEN Nowhere ELSE game_id[u]]

Next ==
  \/ \E u \in Users : Leave(u) \/ Remove(u)
  \/ \E u \in Users, l \in Lobbies : Join(u, l) \/ JoinByCode(u, l)
  \/ \E l \in Lobbies, form \in Forms : Open(l, form) \/ Change(l, form)
  \/ \E l \in Lobbies, started \in BOOLEAN : SetStarted(l, started)
  \/ \E l \in Lobbies : Close(l)

Spec == Init /\ [][Next]_<<lobby, game_id>>
=============================================================================
