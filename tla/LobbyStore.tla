----------------------------- MODULE LobbyStore -----------------------------
(***************************************************************************)
(* The requests that create, change, start, stop and delete lobbies and    *)
(* that bring users in and out of them: src/lobby/lobby_endpoints.rs,      *)
(* lobby.rs, src/user/user_endpoints.rs, user.rs, and restore_lobbies of   *)
(* src/main.rs.  They share two database tables, "lobby" and "user", and   *)
(* the map State.lobbies in memory.                                        *)
(*                                                                         *)
(* Most requests run in a transaction that locks whole tables, in an order *)
(* of their own; some read a row before the transaction begins, and some   *)
(* write without one.  A transaction reads once it has its locks, its      *)
(* writes are `pending` until it commits, and what it does to the map it   *)
(* does at once.                                                           *)
(***************************************************************************)
EXTENDS Integers, FiniteSets, Sequences

CONSTANTS
  Workers,         \* the tasks that serve requests, one at a time each
  Lobbies, Users,  \* ids
  Owner,           \* the admin that owns the lobbies; fk_owner keeps it
  InitialLobbies,  \* the lobbies that exist at the start, none of them started
  Forms,           \* CreateLobby payloads
  Kinds,           \* the kinds of requests that come
  NoRow,           \* no row of that id in "lobby"
  NoEntry,         \* no entry of that id in State.lobbies
  Nowhere,         \* game_id is null
  Deleted,         \* no row of that id in "user"
  NoRequest, NothingPending,
  Unwritten,       \* the transaction writes no lobby row
  MaxFaults,       \* bound: hang-ups and database failures
  MaxRestarts      \* bound: restarts of the process

\* `code` says whether a (fresh) connect code is generated.
AllForms == [max_players : Int, code : BOOLEAN, code_use_times : Int]

LobbyRows == [started : BOOLEAN, max_players : Int, code : BOOLEAN, code_use_times : Int]

\* What is left to commit: the row of a lobby, users that come in or are put
\* out, rows for game_state.
Transactions == [lobby : Lobbies, row : LobbyRows \cup {NoRow, Unwritten},
                 joined : SUBSET Users, kicked : SUBSET Users,
                 game : SUBSET SUBSET Users]

AllKinds == {"Create", "Update", "Delete", "Start", "Stop", "Connect",
             "QuickConnect", "QuickConnectTemp", "Disconnect", "DeleteUser"}

Requests ==
  {q \in [kind : {"Create"}, form : Forms]
    \cup [kind : {"Update"}, lobby : Lobbies, form : Forms]
    \cup [kind : {"Delete", "Start", "Stop"}, lobby : Lobbies]
    \cup [kind : {"Connect", "QuickConnect"}, lobby : Lobbies, user : Users]
    \cup [kind : {"QuickConnectTemp"}, lobby : Lobbies]
    \cup [kind : {"Disconnect"}, user : Users]
    \cup [kind : {"DeleteUser"}, user : Users \ {Owner}] : q.kind \in Kinds}

ASSUME IdsAssumption ==
  /\ IsFiniteSet(Users) /\ Owner \in Users /\ InitialLobbies \subseteq Lobbies
  /\ Nowhere \notin Lobbies /\ Deleted \notin Lobbies /\ Nowhere # Deleted
  /\ \A players \in SUBSET Users : NoEntry # players
ASSUME FormsAssumption ==
  /\ Forms # {} /\ Forms \subseteq AllForms
  /\ NoRow \notin LobbyRows /\ Unwritten \notin LobbyRows \cup {NoRow}
  /\ NothingPending \notin Transactions
ASSUME KindsAssumption == Kinds \subseteq AllKinds /\ NoRequest \notin Requests
ASSUME BoundsAssumption == MaxFaults \in Nat /\ MaxRestarts \in Nat

VARIABLES
  lobby,     \* the committed rows of "lobby"
  game_id,   \* the committed column of "user"
  games,     \* the players in the game_state rows of each lobby
  entry,     \* State.lobbies: the players of the game in memory
  fresh,     \* ids not handed out yet
  req, pc,   \* what each worker serves and where it stands
  held,      \* how many of its locks it has taken
  pending,   \* what its transaction will commit
  faults, restarts

vars == <<lobby, game_id, games, entry, fresh, req, pc, held, pending,
          faults, restarts>>

Members(l) == {u \in Users : game_id[u] = l}

LobbyRow(form, started) ==
  [started |-> started, max_players |-> form.max_players,
   code |-> form.code, code_use_times |-> form.code_use_times]
-----------------------------------------------------------------------------
(***************************************************************************)
(* Table locks.  A statement that reads or writes rows takes a weak lock,  *)
(* `lock table` an exclusive one; a transaction keeps both to its end.     *)
(***************************************************************************)
Weak(table)      == [table |-> table, exclusive |-> FALSE]
Exclusive(table) == [table |-> table, exclusive |-> TRUE]

\* Connections that rely on the locks of their statements.
Mutant_Locks(kind) ==
  CASE kind \in {"Start", "Delete", "Update"}    -> <<Exclusive("lobby"), Weak("user")>>
    [] kind = "Stop"                             -> <<Exclusive("lobby")>>
    [] kind \in {"Connect", "QuickConnect"}      -> <<Weak("user"), Weak("lobby")>>
    [] kind = "QuickConnectTemp" -> <<Weak("lobby"), Exclusive("user"), Exclusive("lobby")>>
    [] kind = "Create"                           -> <<Weak("user"), Weak("lobby")>>
    [] OTHER                                     -> <<>>

\* A creation that looks at the lobbies first and locks them then.
Mutant_Upgrade(kind) ==
  CASE kind \in {"Start", "Delete", "Update"}    -> <<Exclusive("lobby"), Weak("user")>>
    [] kind = "Stop"                             -> <<Exclusive("lobby")>>
    [] kind \in {"Connect", "QuickConnect"}      -> <<Exclusive("user"), Exclusive("lobby")>>
    [] kind = "QuickConnectTemp" -> <<Weak("lobby"), Exclusive("user"), Exclusive("lobby")>>
    [] kind = "Create"                           -> <<Weak("lobby"), Exclusive("lobby")>>
    [] OTHER                                     -> <<>>

\* The locks of a transaction, in the order in which it takes them.
Locks(kind) ==
  CASE kind \in {"Start", "Delete", "Update"}    -> <<Exclusive("lobby"), Weak("user")>>
    [] kind = "Stop"                             -> <<Exclusive("lobby")>>
    [] kind \in {"Connect", "QuickConnect"}      -> <<Exclusive("user"), Exclusive("lobby")>>
    [] kind = "QuickConnectTemp" -> <<Weak("lobby"), Exclusive("user"), Exclusive("lobby")>>
    [] kind = "Create"                           -> <<Weak("user"), Weak("lobby")>>
    [] OTHER                                     -> <<>>

LocksOf(w) == IF req[w] = NoRequest THEN <<>> ELSE Locks(req[w].kind)
Held(w)    == {LocksOf(w)[i] : i \in 1..held[w]}

Conflict(a, b) == a.table = b.table /\ (a.exclusive \/ b.exclusive)

\* The transactions whose locks keep w from taking its next one.
Blockers(w) ==
  IF pc[w] = "lock" /\ held[w] < Len(LocksOf(w))
    THEN {v \in Workers \ {w} :
            \E lock \in Held(v) : Conflict(lock, LocksOf(w)[held[w] + 1])}
    ELSE {}

\* A statement outside a transaction gets at a table nobody locked.
Accessible(table) == \A w \in Workers : Exclusive(table) \notin Held(w)

\* w waits for itself along a chain of blockers.
Deadlocked(w) ==
  \A C \in SUBSET Workers :
    (Blockers(w) \subseteq C /\ \A v \in C : Blockers(v) \subseteq C) => w \in C
-----------------------------------------------------------------------------
(***************************************************************************)
(* What the requests check.                                                *)
(***************************************************************************)
Exists(l) == lobby[l] # NoRow

\* The check of a request made before its transaction, or before the write.
Admits(q) ==
  CASE q.kind = "Start"      -> Exists(q.lobby) /\ ~lobby[q.lobby].started
    [] q.kind = "Stop"       -> Exists(q.lobby) /\ lobby[q.lobby].started
    [] q.kind = "Disconnect" -> game_id[q.user] \in Lobbies
    [] q.kind = "DeleteUser" -> game_id[q.user] = Nowhere

\* Nobody asks whether the game started.
Mutant_CanJoin(u, l) ==
  /\ game_id[u] = Nowhere
  /\ Exists(l)
  /\ Cardinality(Members(l)) < lobby[l].max_players
  /\ entry[l] # NoEntry

CanJoin(u, l) ==
  /\ game_id[u] = Nowhere
  /\ Exists(l) /\ ~lobby[l].started
  /\ Cardinality(Members(l)) < lobby[l].max_players
  /\ entry[l] # NoEntry

\* One use too many.
Mutant_CodeWorks(row) == row.code /\ row.code_use_times >= 0

CodeWorks(row) == row.code /\ row.code_use_times > 0

\* Also someone who has an account logs in on the way.
Mutant_LogsIn(kind) == kind \in {"QuickConnect", "QuickConnectTemp"}

\* The temporary user is logged in over another connection to the database.
LogsIn(kind) == kind = "QuickConnectTemp"

Players(l) == Members(l) \ {Owner}
-----------------------------------------------------------------------------
Init ==
  /\ lobby \in [Lobbies -> {LobbyRow(form, FALSE) : form \in Forms} \cup {NoRow}]
  /\ \A l \in Lobbies : lobby[l] # NoRow <=> l \in InitialLobbies
  /\ game_id = [u \in Users |-> Nowhere]
  /\ games = [l \in Lobbies |-> {}]
  /\ entry = [l \in Lobbies |-> IF l \in InitialLobbies THEN {} ELSE NoEntry]
  /\ fresh = Lobbies \ InitialLobbies
  /\ req     = [w \in Workers |-> NoRequest]
  /\ pc      = [w \in Workers |-> "idle"]
  /\ held    = [w \in Workers |-> 0]
  /\ pending = [w \in Workers |-> NothingPending]
  /\ faults = 0 /\ restarts = 0

\* The answer is out and the transaction, if any, at its end.
Answer(w) ==
  /\ req'     = [req EXCEPT ![w] = NoRequest]
  /\ pc'      = [pc EXCEPT ![w] = "idle"]
  /\ held'    = [held EXCEPT ![w] = 0]
  /\ pending' = [pending EXCEPT ![w] = NothingPending]

Goto(w, label) == pc' = [pc EXCEPT ![w] = label]

Receive(w, q) ==
  /\ pc[w] = "idle"
  /\ req' = [req EXCEPT ![w] = q]
  /\ Goto(w, IF q.kind \in {"Start", "Stop", "Disconnect", "DeleteUser"}
               THEN "read" ELSE "lock")
  /\ UNCHANGED <<lobby, game_id, games, entry, fresh, held, pending, faults, restarts>>

\* The row is read without a lock that would keep it as it is.
Read(w) ==
  /\ pc[w] = "read"
  /\ Accessible(IF req[w].kind \in {"Start", "Stop"} THEN "lobby" ELSE "user")
  /\ IF Admits(req[w])
       THEN /\ Goto(w, IF req[w].kind \in {"Start", "Stop"} THEN "lock" ELSE "write")
            /\ UNCHANGED <<req, held, pending>>
       ELSE Answer(w)
  /\ UNCHANGED <<lobby, game_id, games, entry, fresh, faults, restarts>>

\* A row that a transaction is about to change is locked.
RowFree(u) ==
  \A w \in Workers : pending[w] # NothingPending => u \notin pending[w].kicked

\* disconnect_user and delete_user_endpoint: one statement of its own.
WriteUser(w) ==
  /\ pc[w] = "write"
  /\ Accessible("user") /\ RowFree(req[w].user)
  /\ game_id' = [game_id EXCEPT ![req[w].user] =
       IF @ = Deleted \/ req[w].kind = "DeleteUser" THEN Deleted ELSE Nowhere]
  /\ Answer(w)
  /\ UNCHANGED <<lobby, games, entry, fresh, faults, restarts>>

TakeLock(w) ==
  /\ pc[w] = "lock" /\ held[w] < Len(LocksOf(w)) /\ Blockers(w) = {}
  /\ held' = [held EXCEPT ![w] = @ + 1]
  /\ UNCHANGED <<lobby, game_id, games, entry, fresh, req, pc, pending, faults, restarts>>

AllLocked(w, kinds) ==
  pc[w] = "lock" /\ req[w].kind \in kinds /\ held[w] = Len(LocksOf(w))

Prepare(w, l, row, joined, kicked, game) ==
  /\ pending' = [pending EXCEPT ![w] = [lobby |-> l, row |-> row, joined |-> joined,
                                        kicked |-> kicked, game |-> game]]
  /\ Goto(w, "commit")
  /\ UNCHANGED <<lobby, game_id, games, req, held, faults, restarts>>

\* create_lobby.  The code it generates is not the one it looked up; a name
\* or code that is taken fails in Refuse, by the unique columns.
CreateLobby(w) ==
  /\ AllLocked(w, {"Create"})
  /\ \E l \in fresh :
       /\ fresh' = fresh \ {l}
       /\ entry' = [entry EXCEPT ![l] = {}]
       /\ Prepare(w, l, LobbyRow(req[w].form, FALSE), {}, {}, {})

\* update_lobby.  Nothing asks whether the game is started.
UpdateLobby(w) ==
  LET l == req[w].lobby  form == req[w].form IN
  /\ AllLocked(w, {"Update"})
  /\ Exists(l) /\ entry[l] # NoEntry
  /\ Prepare(w, l, IF form.code THEN LobbyRow(form, lobby[l].started)
                   ELSE [lobby[l] EXCEPT !.max_players = form.max_players], {}, {}, {})
  /\ UNCHANGED <<entry, fresh>>

\* delete_lobby_endpoint.  fk_game_state keeps a lobby that ever had a game:
\* then the statement fails, after KickAll.
DeleteLobby(w) ==
  LET l == req[w].lobby IN
  /\ AllLocked(w, {"Delete"})
  /\ Exists(l) /\ ~lobby[l].started /\ entry[l] # NoEntry
  /\ games[l] = {}
  /\ entry' = [entry EXCEPT ![l] = NoEntry]
  /\ Prepare(w, l, NoRow, {}, Members(l), {})
  /\ UNCHANGED fresh

\* start_game_endpoint and start_new_game.  `started` is not read again.
StartGame(w) ==
  LET l == req[w].lobby IN
  /\ AllLocked(w, {"Start"})
  /\ Exists(l) /\ Players(l) # {} /\ entry[l] # NoEntry
  /\ entry' = [entry EXCEPT ![l] = Players(l)]
  /\ Prepare(w, l, [lobby[l] EXCEPT !.started = TRUE], {}, {}, {Players(l)})
  /\ UNCHANGED fresh

\* stop_game_endpoint.  The game in memory goes on; a row that is gone by now
\* is not missed.
StopGame(w) ==
  LET l == req[w].lobby IN
  /\ AllLocked(w, {"Stop"})
  /\ Prepare(w, l, IF Exists(l) THEN [lobby[l] EXCEPT !.started = FALSE] ELSE Unwritten,
             {}, {}, {})
  /\ UNCHANGED <<entry, fresh>>

\* connect_user, behind connect_user_endpoint or quick_connect.
JoinLobby(w) ==
  LET l == req[w].lobby  u == req[w].user IN
  /\ AllLocked(w, {"Connect", "QuickConnect"})
  /\ CanJoin(u, l)
  /\ req[w].kind = "QuickConnect" => CodeWorks(lobby[l])
  /\ Prepare(w, l, IF req[w].kind = "QuickConnect"
                     THEN [lobby[l] EXCEPT !.code_use_times = @ - 1] ELSE Unwritten,
             {u}, {}, {})
  /\ UNCHANGED <<entry, fresh>>

\* quick_connect_endpoint_no_user has created its user and asks another
\* connection to log it in: that one waits for the table locked by this one.
LogIn(w) ==
  /\ AllLocked(w, {k \in AllKinds : LogsIn(k)})
  /\ Goto(w, "login")
  /\ UNCHANGED <<lobby, game_id, games, entry, fresh, req, held, pending, faults, restarts>>

\* The lobby or the user is not there or not in the state the request needs,
\* or what came with it is wrong (password, code, role, classes, name).
Refuse(w) ==
  /\ AllLocked(w, AllKinds \ {"Stop"})
  /\ Answer(w)
  /\ UNCHANGED <<lobby, game_id, games, entry, fresh, faults, restarts>>

Commit(w) ==
  /\ pc[w] = "commit"
  /\ LET p == pending[w] IN
     /\ lobby' = [lobby EXCEPT ![p.lobby] = IF p.row = Unwritten THEN @ ELSE p.row]
     /\ game_id' = [u \in Users |-> IF u \in p.joined THEN p.lobby
                                    ELSE IF u \in p.kicked THEN Nowhere ELSE game_id[u]]
     /\ games' = [games EXCEPT ![p.lobby] = @ \cup p.game]
  /\ Answer(w)
  /\ UNCHANGED <<entry, fresh, faults, restarts>>

\* The database ends one transaction of a cycle with an error.
BreakDeadlock(w) ==
  /\ Deadlocked(w)
  /\ Answer(w)
  /\ UNCHANGED <<lobby, game_id, games, entry, fresh, faults, restarts>>

\* The client hangs up, which drops the handler, or the database fails: the
\* transaction is rolled back, the map is not.
Interrupt(w) ==
  /\ pc[w] # "idle" /\ faults < MaxFaults
  /\ faults' = faults + 1
  /\ Answer(w)
  /\ UNCHANGED <<lobby, game_id, games, entry, fresh, restarts>>

\* Only lobbies whose game is not started come back.
Mutant_RestoredEntries ==
  {e \in [Lobbies -> {NoEntry, {}}] : \A l \in Lobbies :
     e[l] = {} <=> Exists(l) /\ ~lobby[l].started}

\* What restore_lobbies may find: for a started lobby any of its rows.
RestoredEntries ==
  {e \in [Lobbies -> {NoEntry} \cup SUBSET Users] : \A l \in Lobbies :
     CASE ~Exists(l)        -> e[l] = NoEntry
       [] ~lobby[l].started -> e[l] = {}
       [] OTHER             -> e[l] \in games[l]}

Restart ==
  /\ restarts < MaxRestarts
  /\ restarts' = restarts + 1
  /\ entry' \in RestoredEntries
  /\ req'     = [w \in Workers |-> NoRequest]
  /\ pc'      = [w \in Workers |-> "idle"]
  /\ held'    = [w \in Workers |-> 0]
  /\ pending' = [w \in Workers |-> NothingPending]
  /\ UNCHANGED <<lobby, game_id, games, fresh, faults>>

Step(w) ==
  \/ Read(w) \/ WriteUser(w) \/ TakeLock(w)
  \/ CreateLobby(w) \/ UpdateLobby(w) \/ DeleteLobby(w) \/ StartGame(w) \/ StopGame(w)
  \/ JoinLobby(w) \/ LogIn(w) \/ Refuse(w) \/ Commit(w)

Next ==
  \/ \E w \in Workers :
       (\E q \in Requests : Receive(w, q)) \/ Step(w) \/ BreakDeadlock(w) \/ Interrupt(w)
  \/ Restart

Spec == Init /\ [][Next]_vars

\* The database grants locks in the order in which they are asked for, so
\* that nobody is passed over for ever, and looks for deadlocks.
FairSpec ==
  /\ Spec
  /\ \A w \in Workers : SF_vars(Step(w)) /\ WF_vars(BreakDeadlock(w))
-----------------------------------------------------------------------------
(***************************************************************************)
(* Properties.                                                             *)
(***************************************************************************)
\* Rows, entries and requests have the types of the columns, map values and
\* locals they stand for; a code never has fewer uses left than none, unless
\* its form gave it fewer.
TypeOK ==
  /\ lobby \in [Lobbies -> LobbyRows \cup {NoRow}]
  /\ \A l \in Lobbies : Exists(l) =>
       lobby[l].code_use_times >= 0
         \/ \E form \in Forms : lobby[l].code_use_times = form.code_use_times
  /\ game_id \in [Users -> Lobbies \cup {Nowhere, Deleted}]
  /\ games \in [Lobbies -> SUBSET SUBSET Users]
  /\ entry \in [Lobbies -> {NoEntry} \cup SUBSET Users]
  /\ fresh \subseteq Lobbies
  /\ req \in [Workers -> Requests \cup {NoRequest}]
  /\ pc \in [Workers -> {"idle", "read", "write", "lock", "login", "commit"}]
  /\ held \in [Workers -> Nat] /\ \A w \in Workers : held[w] \in 0..Len(LocksOf(w))
  /\ pending \in [Workers -> Transactions \cup {NothingPending}]
  /\ faults \in 0..MaxFaults /\ restarts \in 0..MaxRestarts

\* The requests take effect one after the other (LobbyRoster): nobody enters
\* a full lobby, a started game or two lobbies, every entry by code costs one
\* use, and a lobby goes with everybody in it.
Roster == INSTANCE LobbyRoster
RosterSpec == Roster!Spec

\* Everybody who is in a started lobby plays: he is among the players of the
\* game in memory, even if starts, stops, entries and rolled-back requests
\* overlap.  A restart may bring back a game of other players.
MembersPlay ==
  \A l \in Lobbies : restarts = 0 /\ Exists(l) /\ lobby[l].started =>
    entry[l] # NoEntry /\ Players(l) \subseteq entry[l]

\* A started lobby always has its entry in memory, also after requests that
\* were rolled back and after restarts: whoever opens a websocket finds it
\* (the branch at websockets.rs:124 is a panic).
StartedHasEntry ==
  \A l \in Lobbies : Exists(l) /\ lobby[l].started => entry[l] # NoEntry

\* "game already started" (error.rs:63): a start is refused while the game
\* runs, so that no running game is set back to round 0.
NotStartedTwice ==
  \A w \in Workers :
    pc[w] = "commit" /\ req[w].kind = "Start" => ~lobby[req[w].lobby].started

\* Only those who enter a lobby lock the user table before the lobby table:
\* every circle of requests that wait for each other has one of them in it who
\* has the user table, and creations, updates, starts, stops and deletions
\* alone never wait in a circle.
CirclesHaveEntrants ==
  \A w \in Workers : Deadlocked(w) =>
    \E v \in Workers :
      /\ Deadlocked(v) /\ Exclusive("user") \in Held(v)
      /\ req[v].kind \in {"Connect", "QuickConnect", "QuickConnectTemp"}

\* Every request is answered, although requests lock the tables in different
\* orders.
RequestsAnswered == \A w \in Workers : pc[w] # "idle" ~> pc[w] = "idle"
=============================================================================
