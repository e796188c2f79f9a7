--------------------------- MODULE LobbyStoreProofs --------------------------
(***************************************************************************)
(* What is proved about LobbyStore for any number of workers, lobbies and  *)
(* users, any forms and any kinds of requests, with requests cut off and   *)
(* the process restarted: type correctness, that the requests take effect  *)
(* one after the other, and that the map in memory has the players of the  *)
(* games that run.                                                         *)
(***************************************************************************)
EXTENDS LobbyStore, TLAPS

\* The kinds that end in a Commit; the table locks of each have "lobby" in it.
Committing == {"Create", "Update", "Delete", "Start", "Stop", "Connect", "QuickConnect"}

-----------------------------------------------------------------------------
(* What a request carries. *)

\* A request carries the form, lobby and user that its handler takes from the
\* path and the payload.
LEMMA RequestFields ==
  ASSUME NEW q \in Requests
  PROVE  /\ q.kind \in AllKinds
         /\ q.kind \in {"Create", "Update"} => q.form \in Forms
         /\ q.kind \in {"Update", "Delete", "Start", "Stop", "Connect", "QuickConnect",
                        "QuickConnectTemp"} => q.lobby \in Lobbies
         /\ q.kind \in {"Connect", "QuickConnect", "Disconnect", "DeleteUser"}
              => q.user \in Users
BY DEF Requests, AllKinds

\* Every kind of request takes a number of locks.
LEMMA LockCount ==
  ASSUME NEW kind \in AllKinds
  PROVE  Len(Locks(kind)) \in Nat
<1>1. CASE kind \in {"Start", "Delete", "Update"}  BY <1>1 DEF Locks
<1>2. CASE kind = "Stop"  BY <1>2 DEF Locks
<1>3. CASE kind \in {"Connect", "QuickConnect"}  BY <1>3 DEF Locks
<1>4. CASE kind = "QuickConnectTemp"  BY <1>4 DEF Locks
<1>5. CASE kind = "Create"  BY <1>5 DEF Locks
<1>6. CASE kind \in {"Disconnect", "DeleteUser"}  BY <1>6 DEF Locks
<1>. QED BY <1>1, <1>2, <1>3, <1>4, <1>5, <1>6 DEF AllKinds

\* A transaction with all its locks has one on the lobby table, an exclusive
\* one unless it creates a lobby; who connects has the user table for himself.
LEMMA AllLocks ==
  ASSUME NEW w \in Workers, req[w] # NoRequest, req[w].kind \in Committing,
         held[w] = Len(LocksOf(w))
  PROVE  /\ req[w].kind = "Create" => Weak("lobby") \in Held(w)
         /\ req[w].kind # "Create" => Exclusive("lobby") \in Held(w)
         /\ req[w].kind \in {"Connect", "QuickConnect"} => Exclusive("user") \in Held(w)
<1>1. CASE req[w].kind \in {"Start", "Delete", "Update"}
  <2>1. LocksOf(w) = <<Exclusive("lobby"), Weak("user")>>  BY <1>1 DEF LocksOf, Locks
  <2>2. held[w] = 2 /\ LocksOf(w)[1] = Exclusive("lobby")  BY <2>1
  <2>. QED BY <1>1, <2>2 DEF Held
<1>2. CASE req[w].kind = "Stop"
  <2>1. LocksOf(w) = <<Exclusive("lobby")>>  BY <1>2 DEF LocksOf, Locks
  <2>2. held[w] = 1 /\ LocksOf(w)[1] = Exclusive("lobby")  BY <2>1
  <2>. QED BY <1>2, <2>2 DEF Held
<1>3. CASE req[w].kind \in {"Connect", "QuickConnect"}
  <2>1. LocksOf(w) = <<Exclusive("user"), Exclusive("lobby")>>  BY <1>3 DEF LocksOf, Locks
  <2>2. held[w] = 2 /\ LocksOf(w)[1] = Exclusive("user") /\ LocksOf(w)[2] = Exclusive("lobby")
    BY <2>1
  <2>. QED BY <1>3, <2>2 DEF Held
<1>4. CASE req[w].kind = "Create"
  <2>1. LocksOf(w) = <<Weak("user"), Weak("lobby")>>  BY <1>4 DEF LocksOf, Locks
  <2>2. held[w] = 2 /\ LocksOf(w)[2] = Weak("lobby")  BY <2>1
  <2>. QED BY <1>4, <2>2 DEF Held
<1>. QED BY <1>1, <1>2, <1>3, <1>4 DEF Committing

-----------------------------------------------------------------------------
(* The inductive invariant behind type correctness. *)

\* A code has no fewer uses left than none, unless its form gave it fewer.
UsesFit(row) ==
  row.code_use_times >= 0 \/ \E form \in Forms : row.code_use_times = form.code_use_times

\* Where a worker stands fits what it serves.
Position(w) ==
  /\ pc[w] = "idle" <=> req[w] = NoRequest
  /\ pc[w] = "read"  => req[w].kind \in {"Start", "Stop", "Disconnect", "DeleteUser"}
  /\ pc[w] = "write" => req[w].kind \in {"Disconnect", "DeleteUser"}
  /\ pc[w] = "commit" =>
       /\ req[w].kind \in Committing /\ held[w] = Len(LocksOf(w))
       /\ pending[w] \in Transactions
       /\ pending[w].row \in LobbyRows => UsesFit(pending[w].row)
  /\ pc[w] # "commit" => pending[w] = NothingPending

TypeInv == TypeOK /\ \A w \in Workers : Position(w)

\* Rows, workers and locks fit at the start.
LEMMA InitType == Init => TypeInv
<1>. SUFFICES ASSUME Init PROVE TypeInv  OBVIOUS
<1>. USE IdsAssumption, FormsAssumption, KindsAssumption, BoundsAssumption
<1>1. \A form \in Forms : LobbyRow(form, FALSE) \in LobbyRows
  BY DEF LobbyRow, LobbyRows, AllForms
<1>2. lobby \in [Lobbies -> LobbyRows \cup {NoRow}]  BY <1>1 DEF Init
<1>3. \A l \in Lobbies : Exists(l) =>
        \E form \in Forms : lobby[l].code_use_times = form.code_use_times
  BY DEF Init, Exists, LobbyRow
<1>4. entry \in [Lobbies -> {NoEntry} \cup SUBSET Users]  BY DEF Init
<1>5. \A w \in Workers : LocksOf(w) = <<>>  BY DEF Init, LocksOf
<1>6. \A w \in Workers : held[w] \in 0..Len(LocksOf(w))  BY <1>5 DEF Init
<1>7. TypeOK  BY <1>2, <1>3, <1>4, <1>6 DEF Init, TypeOK
<1>8. \A w \in Workers : Position(w)  BY DEF Init, Position
<1>. QED BY <1>7, <1>8 DEF TypeInv

(* Type correctness falls into what the workers do and what they share. *)

WorkerType ==
  /\ req \in [Workers -> Requests \cup {NoRequest}]
  /\ pc \in [Workers -> {"idle", "read", "write", "lock", "login", "commit"}]
  /\ held \in [Workers -> Nat]
  /\ \A w \in Workers : held[w] \in 0..Len(LocksOf(w))
  /\ pending \in [Workers -> Transactions \cup {NothingPending}]
  /\ \A w \in Workers : Position(w)

SharedType ==
  /\ lobby \in [Lobbies -> LobbyRows \cup {NoRow}]
  /\ \A l \in Lobbies : Exists(l) => UsesFit(lobby[l])
  /\ game_id \in [Users -> Lobbies \cup {Nowhere, Deleted}]
  /\ games \in [Lobbies -> SUBSET SUBSET Users]
  /\ entry \in [Lobbies -> {NoEntry} \cup SUBSET Users]
  /\ fresh \subseteq Lobbies
  /\ faults \in 0..MaxFaults /\ restarts \in 0..MaxRestarts

\* TypeInv is what holds of the workers and what holds of the tables and the
\* map.
LEMMA TypeParts ==
  /\ TypeInv <=> WorkerType /\ SharedType
  /\ TypeInv' <=> WorkerType' /\ SharedType'
BY DEF TypeInv, TypeOK, WorkerType, SharedType, UsesFit

\* A worker that has answered serves nothing, holds nothing and has nothing to
\* commit.
LEMMA AnswerWorkers ==
  ASSUME WorkerType, NEW w \in Workers, Answer(w)
  PROVE  WorkerType'
<1>. USE DEF WorkerType
<1>1. /\ req' \in [Workers -> Requests \cup {NoRequest}]
      /\ pc' \in [Workers -> {"idle", "read", "write", "lock", "login", "commit"}]
      /\ held' \in [Workers -> Nat]
      /\ pending' \in [Workers -> Transactions \cup {NothingPending}]
  BY DEF Answer
<1>2. ASSUME NEW v \in Workers, v # w
      PROVE  LocksOf(v)' = LocksOf(v) /\ held'[v] = held[v] /\ pc'[v] = pc[v]
             /\ req'[v] = req[v] /\ pending'[v] = pending[v]
  BY <1>2 DEF Answer, LocksOf
<1>3. /\ LocksOf(w)' = <<>> /\ held'[w] = 0 /\ pc'[w] = "idle"
      /\ req'[w] = NoRequest /\ pending'[w] = NothingPending
  BY DEF Answer, LocksOf
<1>4. \A v \in Workers : (held[v] \in 0..Len(LocksOf(v)))'  BY <1>2, <1>3
<1>5. ASSUME NEW v \in Workers PROVE Position(v)'
  BY <1>2, <1>3 DEF Position
<1>. QED BY <1>1, <1>4, <1>5

\* A worker that goes on with what it serves.
LEMMA GoOnWorkers ==
  ASSUME WorkerType, NEW w \in Workers,
         NEW label \in {"read", "write", "lock", "login", "commit"}, Goto(w, label),
         UNCHANGED <<req, held>>, pc[w] # "idle",
         pending' \in [Workers -> Transactions \cup {NothingPending}],
         \A v \in Workers \ {w} : pending'[v] = pending[v],
         Position(w)'
  PROVE  WorkerType'
<1>. USE DEF WorkerType
<1>1. \A v \in Workers : LocksOf(v)' = LocksOf(v)  BY DEF LocksOf
<1>2. pc' \in [Workers -> {"idle", "read", "write", "lock", "login", "commit"}]
  BY DEF Goto
<1>3. ASSUME NEW v \in Workers \ {w} PROVE Position(v)'
  BY <1>1, <1>3 DEF Goto, Position
<1>. QED BY <1>1, <1>2, <1>3

\* A worker with a new request starts without a lock.
LEMMA ReceiveWorkers ==
  ASSUME WorkerType, NEW w \in Workers, NEW q \in Requests, Receive(w, q)
  PROVE  WorkerType'
<1>. USE DEF WorkerType
<1>. USE KindsAssumption
<1>1. /\ req' \in [Workers -> Requests \cup {NoRequest}]
      /\ pc' \in [Workers -> {"idle", "read", "write", "lock", "login", "commit"}]
  BY DEF Receive, Goto
<1>2. ASSUME NEW v \in Workers, v # w
      PROVE  LocksOf(v)' = LocksOf(v) /\ req'[v] = req[v] /\ pc'[v] = pc[v]
  BY <1>2 DEF Receive, Goto, LocksOf
<1>3. req[w] = NoRequest /\ held[w] = 0  BY DEF Receive, Position, LocksOf
<1>4. Len(LocksOf(w)') \in Nat
  BY RequestFields, LockCount DEF Receive, LocksOf
<1>5. \A v \in Workers : (held[v] \in 0..Len(LocksOf(v)))'
  <2>1. held' = held  BY DEF Receive
  <2>2. (held[w] \in 0..Len(LocksOf(w)))'  BY <1>3, <1>4, <2>1
  <2>. QED BY <1>2, <2>1, <2>2
<1>6. Position(w)'  BY DEF Receive, Goto, Position
<1>7. ASSUME NEW v \in Workers, v # w PROVE Position(v)'
  BY <1>2, <1>7 DEF Receive, Position
<1>. QED BY <1>1, <1>5, <1>6, <1>7 DEF Receive

\* A worker never takes more locks than its request needs.
LEMMA TakeLockWorkers ==
  ASSUME WorkerType, NEW w \in Workers, TakeLock(w)
  PROVE  WorkerType'
<1>. USE DEF WorkerType
<1>1. \A v \in Workers : LocksOf(v)' = LocksOf(v)  BY DEF TakeLock, LocksOf
<1>2. Len(LocksOf(w)) \in Nat
  BY RequestFields, LockCount DEF TakeLock, LocksOf
<1>3. held' \in [Workers -> Nat] /\ held'[w] = held[w] + 1
      /\ \A v \in Workers \ {w} : held'[v] = held[v]
  BY DEF TakeLock
<1>4. \A v \in Workers : (held[v] \in 0..Len(LocksOf(v)))'  BY <1>1, <1>2, <1>3 DEF TakeLock
<1>5. ASSUME NEW v \in Workers PROVE Position(v)'
  BY <1>1, <1>3, <1>5 DEF TakeLock, Position
<1>. QED BY <1>1, <1>3, <1>4, <1>5 DEF TakeLock

\* A read before the transaction keeps the types, refused or not.
LEMMA ReadType ==
  ASSUME TypeInv, NEW w \in Workers, Read(w)
  PROVE  TypeInv'
<1>. USE TypeParts
<1>1. SharedType'  BY DEF Read, SharedType, Exists
<1>2. CASE Answer(w)  BY <1>1, <1>2, AnswerWorkers
<1>3. CASE UNCHANGED <<req, held, pending>> /\ Goto(w, "lock")
  <2>1. Position(w)'  BY <1>3, TypeParts DEF Read, Goto, WorkerType, Position
  <2>. QED BY <1>1, <1>3, <2>1, GoOnWorkers DEF Read, WorkerType
<1>4. CASE UNCHANGED <<req, held, pending>> /\ Goto(w, "write") /\ req[w].kind \notin {"Start", "Stop"}
  <2>1. Position(w)'  BY <1>4, TypeParts DEF Read, Goto, WorkerType, Position
  <2>. QED BY <1>1, <1>4, <2>1, GoOnWorkers DEF Read, WorkerType
<1>. QED BY <1>2, <1>3, <1>4 DEF Read

\* The single statement of disconnect_user and delete_user_endpoint keeps the
\* types.
LEMMA WriteUserType ==
  ASSUME TypeInv, NEW w \in Workers, WriteUser(w)
  PROVE  TypeInv'
<1>. USE TypeParts
<1>1. WorkerType'  BY AnswerWorkers DEF WriteUser
<1>2. req[w].user \in Users
  <2>1. req[w] \in Requests /\ req[w].kind \in {"Disconnect", "DeleteUser"}
    BY DEF WriteUser, WorkerType, Position
  <2>. QED BY <2>1, RequestFields
<1>3. game_id' \in [Users -> Lobbies \cup {Nowhere, Deleted}]
  BY <1>2 DEF WriteUser, SharedType
<1>4. SharedType'  BY <1>3 DEF WriteUser, SharedType, Exists
<1>. QED BY <1>1, <1>4

\* A commit writes rows and members of the right types.
LEMMA CommitType ==
  ASSUME TypeInv, NEW w \in Workers, Commit(w)
  PROVE  TypeInv'
<1>. USE TypeParts
<1>. DEFINE p == pending[w]
<1>1. WorkerType'  BY AnswerWorkers DEF Commit
<1>2. p \in Transactions /\ (p.row \in LobbyRows => UsesFit(p.row))
  BY DEF Commit, WorkerType, Position
<1>3. p.lobby \in Lobbies /\ p.row \in LobbyRows \cup {NoRow, Unwritten}
      /\ p.joined \in SUBSET Users /\ p.kicked \in SUBSET Users /\ p.game \in SUBSET SUBSET Users
  BY <1>2 DEF Transactions
<1>4. lobby' = [lobby EXCEPT ![p.lobby] = IF p.row = Unwritten THEN @ ELSE p.row]
  BY DEF Commit
<1>5. lobby' \in [Lobbies -> LobbyRows \cup {NoRow}]
  BY <1>3, <1>4 DEF SharedType
<1>6. \A l \in Lobbies : (Exists(l) => UsesFit(lobby[l]))'
  <2>. SUFFICES ASSUME NEW l \in Lobbies, lobby'[l] # NoRow PROVE UsesFit(lobby'[l])
    BY DEF Exists, UsesFit
  <2>1. CASE lobby'[l] = lobby[l]  BY <2>1 DEF SharedType, Exists
  <2>2. CASE lobby'[l] = p.row /\ p.row # Unwritten  BY <1>2, <1>3, <2>2
  <2>. QED BY <1>3, <1>4, <2>1, <2>2 DEF SharedType
<1>7. game_id' \in [Users -> Lobbies \cup {Nowhere, Deleted}]
  BY <1>3 DEF Commit, SharedType
<1>8. games' \in [Lobbies -> SUBSET SUBSET Users]
  BY <1>3 DEF Commit, SharedType
<1>9. SharedType'  BY <1>5, <1>6, <1>7, <1>8 DEF Commit, SharedType
<1>. QED BY <1>1, <1>9

\* What restore_lobbies puts into the map has the type of an entry.
LEMMA RestartType ==
  ASSUME TypeInv, Restart
  PROVE  TypeInv'
<1>. USE TypeParts, BoundsAssumption
<1>1. /\ req' \in [Workers -> Requests \cup {NoRequest}]
      /\ pc' \in [Workers -> {"idle", "read", "write", "lock", "login", "commit"}]
      /\ held' \in [Workers -> Nat]
      /\ pending' \in [Workers -> Transactions \cup {NothingPending}]
  BY DEF Restart
<1>2. \A v \in Workers : LocksOf(v)' = <<>> /\ held'[v] = 0  BY DEF Restart, LocksOf
<1>3. \A v \in Workers : (held[v] \in 0..Len(LocksOf(v)))'  BY <1>2
<1>4. \A v \in Workers : Position(v)'  BY DEF Restart, Position
<1>5. WorkerType'  BY <1>1, <1>3, <1>4 DEF WorkerType
<1>6. entry' \in [Lobbies -> {NoEntry} \cup SUBSET Users]
  BY DEF Restart, RestoredEntries
<1>7. restarts' \in 0..MaxRestarts  BY DEF Restart, SharedType
<1>8. SharedType'  BY <1>6, <1>7 DEF Restart, SharedType, Exists
<1>. QED BY <1>5, <1>8

-----------------------------------------------------------------------------
(* The bodies of the transactions. *)

\* A transaction that is ready to commit has all its locks and a well-formed
\* row.
LEMMA PrepareWorkers ==
  ASSUME TypeInv, NEW w \in Workers, AllLocked(w, Committing),
         NEW l \in Lobbies, NEW row \in LobbyRows \cup {NoRow, Unwritten},
         NEW joined \in SUBSET Users, NEW kicked \in SUBSET Users,
         NEW game \in SUBSET SUBSET Users, Prepare(w, l, row, joined, kicked, game),
         row \in LobbyRows => UsesFit(row)
  PROVE  /\ WorkerType'
         /\ pending'[w] = [lobby |-> l, row |-> row, joined |-> joined,
                           kicked |-> kicked, game |-> game]
<1>. USE TypeParts
<1>. DEFINE p == [lobby |-> l, row |-> row, joined |-> joined, kicked |-> kicked, game |-> game]
<1>1. p \in Transactions  BY DEF Transactions
<1>2. /\ pending' \in [Workers -> Transactions \cup {NothingPending}] /\ pending'[w] = p
      /\ \A v \in Workers \ {w} : pending'[v] = pending[v]
  BY <1>1 DEF Prepare, WorkerType
<1>3. LocksOf(w)' = LocksOf(w)  BY DEF Prepare, LocksOf
<1>4. Position(w)'
  BY <1>1, <1>2, <1>3 DEF Prepare, AllLocked, Goto, WorkerType, Position
<1>5. WorkerType'  BY <1>2, <1>4, GoOnWorkers DEF Prepare, AllLocked
<1>. QED BY <1>2, <1>5

\* What the requests make of a row is a row; a code that works has a use to
\* lose.
LEMMA RowTypes ==
  /\ \A form \in Forms, started \in BOOLEAN :
       LobbyRow(form, started) \in LobbyRows /\ UsesFit(LobbyRow(form, started))
  /\ \A row \in LobbyRows : \A form \in Forms, started \in BOOLEAN :
       /\ [row EXCEPT !.max_players = form.max_players] \in LobbyRows
       /\ [row EXCEPT !.started = started] \in LobbyRows
       /\ [row EXCEPT !.code_use_times = @ - 1] \in LobbyRows
       /\ UsesFit(row) => /\ UsesFit([row EXCEPT !.max_players = form.max_players])
                          /\ UsesFit([row EXCEPT !.started = started])
       /\ CodeWorks(row) => UsesFit([row EXCEPT !.code_use_times = @ - 1])
<1>. USE FormsAssumption
<1>1. \A form \in Forms, started \in BOOLEAN :
        LobbyRow(form, started) \in LobbyRows /\ UsesFit(LobbyRow(form, started))
  BY DEF AllForms, LobbyRows, LobbyRow, UsesFit
<1>2. ASSUME NEW row \in LobbyRows, NEW form \in Forms, NEW started \in BOOLEAN
      PROVE  /\ [row EXCEPT !.max_players = form.max_players] \in LobbyRows
             /\ [row EXCEPT !.started = started] \in LobbyRows
             /\ [row EXCEPT !.code_use_times = @ - 1] \in LobbyRows
  BY <1>2 DEF AllForms, LobbyRows
<1>3. ASSUME NEW row \in LobbyRows, NEW form \in Forms, NEW started \in BOOLEAN
      PROVE  /\ [row EXCEPT !.max_players = form.max_players].code_use_times = row.code_use_times
             /\ [row EXCEPT !.started = started].code_use_times = row.code_use_times
             /\ [row EXCEPT !.code_use_times = @ - 1].code_use_times = row.code_use_times - 1
             /\ row.code_use_times \in Int
  BY <1>3 DEF LobbyRows
<1>4. ASSUME NEW row \in LobbyRows, CodeWorks(row)
      PROVE  row.code_use_times - 1 >= 0
  BY <1>3, <1>4 DEF CodeWorks, LobbyRows
<1>. QED BY <1>1, <1>2, <1>3, <1>4 DEF UsesFit

\* The shared state when a transaction has done its reading.
LEMMA PrepareShared ==
  ASSUME SharedType, NEW w, NEW l, NEW row, NEW joined, NEW kicked, NEW game,
         Prepare(w, l, row, joined, kicked, game),
         entry' \in [Lobbies -> {NoEntry} \cup SUBSET Users], fresh' \subseteq fresh
  PROVE  SharedType'
BY DEF Prepare, SharedType, Exists

\* A transaction with all its locks still has its request.
LEMMA LockedRequest ==
  ASSUME TypeInv, NEW w \in Workers, NEW kinds, AllLocked(w, kinds)
  PROVE  req[w] \in Requests /\ req[w].kind \in kinds
BY DEF AllLocked, TypeInv, TypeOK, Position

\* create_lobby keeps the types.
LEMMA CreateLobbyType ==
  ASSUME TypeInv, NEW w \in Workers, CreateLobby(w)
  PROVE  TypeInv'
<1>. USE TypeParts
<1>1. PICK l \in fresh :
        /\ entry' = [entry EXCEPT ![l] = {}] /\ fresh' = fresh \ {l}
        /\ Prepare(w, l, LobbyRow(req[w].form, FALSE), {}, {}, {})
  BY DEF CreateLobby
<1>2. l \in Lobbies  BY DEF SharedType
<1>3. req[w].form \in Forms
  BY LockedRequest, RequestFields DEF CreateLobby
<1>4. WorkerType'
  BY <1>1, <1>2, <1>3, RowTypes, PrepareWorkers DEF CreateLobby, AllLocked, Committing
<1>5. SharedType'
  <2>1. entry' \in [Lobbies -> {NoEntry} \cup SUBSET Users]  BY <1>1 DEF SharedType
  <2>. QED BY <1>1, <2>1, PrepareShared
<1>. QED BY <1>4, <1>5

\* update_lobby keeps the types.
LEMMA UpdateLobbyType ==
  ASSUME TypeInv, NEW w \in Workers, UpdateLobby(w)
  PROVE  TypeInv'
<1>. USE TypeParts
<1>. DEFINE l    == req[w].lobby
            form == req[w].form
            row  == IF form.code THEN LobbyRow(form, lobby[l].started)
                    ELSE [lobby[l] EXCEPT !.max_players = form.max_players]
<1>1. form \in Forms /\ l \in Lobbies
  BY LockedRequest, RequestFields DEF UpdateLobby
<1>2. lobby[l] \in LobbyRows /\ UsesFit(lobby[l])
  BY <1>1 DEF UpdateLobby, Exists, SharedType
<1>3. lobby[l].started \in BOOLEAN  BY <1>2 DEF LobbyRows
<1>4. row \in LobbyRows /\ UsesFit(row)  BY <1>1, <1>2, <1>3, RowTypes
<1>5. Prepare(w, l, row, {}, {}, {})  BY DEF UpdateLobby
<1>6. WorkerType'
  <2>. HIDE DEF row, l
  <2>1. AllLocked(w, Committing)  BY DEF UpdateLobby, AllLocked, Committing
  <2>2. {} \in SUBSET Users /\ {} \in SUBSET SUBSET Users  OBVIOUS
  <2>. QED BY <1>1, <1>4, <1>5, <2>1, <2>2, PrepareWorkers
<1>7. SharedType'
  BY <1>5, PrepareShared DEF UpdateLobby, SharedType
<1>. QED BY <1>6, <1>7

\* delete_lobby_endpoint keeps the types.
LEMMA DeleteLobbyType ==
  ASSUME TypeInv, NEW w \in Workers, DeleteLobby(w)
  PROVE  TypeInv'
<1>. USE TypeParts
<1>1. req[w].lobby \in Lobbies  BY LockedRequest, RequestFields DEF DeleteLobby
<1>2. Prepare(w, req[w].lobby, NoRow, {}, Members(req[w].lobby), {})  BY DEF DeleteLobby
<1>3. WorkerType'
  BY <1>1, <1>2, PrepareWorkers, FormsAssumption
  DEF DeleteLobby, AllLocked, Committing, Members
<1>4. SharedType'
  <2>1. entry' \in [Lobbies -> {NoEntry} \cup SUBSET Users]
    BY <1>1 DEF DeleteLobby, SharedType
  <2>. QED BY <1>2, <2>1, PrepareShared DEF DeleteLobby
<1>. QED BY <1>3, <1>4

\* start_game_endpoint keeps the types.
LEMMA StartGameType ==
  ASSUME TypeInv, NEW w \in Workers, StartGame(w)
  PROVE  TypeInv'
<1>. USE TypeParts
<1>. DEFINE l   == req[w].lobby
            row == [lobby[l] EXCEPT !.started = TRUE]
<1>1. l \in Lobbies  BY LockedRequest, RequestFields DEF StartGame
<1>2. lobby[l] \in LobbyRows /\ UsesFit(lobby[l])
  BY <1>1 DEF StartGame, Exists, SharedType
<1>3. row \in LobbyRows /\ UsesFit(row)  BY <1>2, RowTypes, FormsAssumption
<1>4. Prepare(w, l, row, {}, {}, {Players(l)})  BY DEF StartGame
<1>5. Players(l) \in SUBSET Users  BY DEF Players, Members
<1>6. WorkerType'
  <2>. HIDE DEF row, l
  <2>1. AllLocked(w, Committing)  BY DEF StartGame, AllLocked, Committing
  <2>2. {} \in SUBSET Users /\ {} \in SUBSET SUBSET Users /\ {Players(l)} \in SUBSET SUBSET Users  BY <1>5
  <2>. QED BY <1>1, <1>3, <1>4, <1>5, <2>1, <2>2, PrepareWorkers
<1>7. SharedType'
  <2>1. entry' \in [Lobbies -> {NoEntry} \cup SUBSET Users]
    BY <1>1, <1>5 DEF StartGame, SharedType
  <2>. QED BY <1>4, <2>1, PrepareShared DEF StartGame
<1>. QED BY <1>6, <1>7

\* stop_game_endpoint keeps the types.
LEMMA StopGameType ==
  ASSUME TypeInv, NEW w \in Workers, StopGame(w)
  PROVE  TypeInv'
<1>. USE TypeParts
<1>. DEFINE l   == req[w].lobby
            row == IF Exists(l) THEN [lobby[l] EXCEPT !.started = FALSE] ELSE Unwritten
<1>1. l \in Lobbies  BY LockedRequest, RequestFields DEF StopGame
<1>2. Exists(l) => lobby[l] \in LobbyRows /\ UsesFit(lobby[l])
  BY <1>1 DEF Exists, SharedType
<1>3. row \in LobbyRows \cup {NoRow, Unwritten} /\ (row \in LobbyRows => UsesFit(row))
  BY <1>2, RowTypes, FormsAssumption
<1>4. Prepare(w, l, row, {}, {}, {})  BY DEF StopGame
<1>5. WorkerType'
  <2>. HIDE DEF row, l
  <2>1. AllLocked(w, Committing)  BY DEF StopGame, AllLocked, Committing
  <2>2. {} \in SUBSET Users /\ {} \in SUBSET SUBSET Users  OBVIOUS
  <2>. QED BY <1>1, <1>3, <1>4, <2>1, <2>2, PrepareWorkers
<1>6. SharedType'  BY <1>4, PrepareShared DEF StopGame, SharedType
<1>. QED BY <1>5, <1>6

\* connect_user keeps the types, and the uses of a code above zero.
LEMMA JoinLobbyType ==
  ASSUME TypeInv, NEW w \in Workers, JoinLobby(w)
  PROVE  TypeInv'
<1>. USE TypeParts
<1>. DEFINE l   == req[w].lobby
            row == IF req[w].kind = "QuickConnect"
                     THEN [lobby[l] EXCEPT !.code_use_times = @ - 1] ELSE Unwritten
<1>1. l \in Lobbies /\ req[w].user \in Users
  BY LockedRequest, RequestFields DEF JoinLobby
<1>2. lobby[l] \in LobbyRows
  BY <1>1 DEF JoinLobby, CanJoin, Exists, SharedType
<1>3. row \in LobbyRows \cup {NoRow, Unwritten} /\ (row \in LobbyRows => UsesFit(row))
  BY <1>2, RowTypes, FormsAssumption DEF JoinLobby
<1>4. Prepare(w, l, row, {req[w].user}, {}, {})  BY DEF JoinLobby
<1>5. WorkerType'
  <2>. HIDE DEF row, l
  <2>1. AllLocked(w, Committing)  BY DEF JoinLobby, AllLocked, Committing
  <2>2. {} \in SUBSET Users /\ {} \in SUBSET SUBSET Users /\ {req[w].user} \in SUBSET Users  BY <1>1
  <2>. QED BY <1>1, <1>3, <1>4, <2>1, <2>2, PrepareWorkers
<1>6. SharedType'  BY <1>4, PrepareShared DEF JoinLobby, SharedType
<1>. QED BY <1>5, <1>6

\* So do the steps that neither write nor prepare a write.
LEMMA OtherSteps ==
  ASSUME TypeInv, NEW w \in Workers,
         LogIn(w) \/ Refuse(w) \/ TakeLock(w) \/ BreakDeadlock(w) \/ Interrupt(w)
           \/ \E q \in Requests : Receive(w, q)
  PROVE  TypeInv'
<1>. USE TypeParts
<1>1. CASE LogIn(w)
  <2>1. SharedType'  BY <1>1 DEF LogIn, SharedType, Exists
  <2>2. Position(w)'  BY <1>1 DEF LogIn, AllLocked, Goto, WorkerType, Position
  <2>. QED BY <1>1, <2>1, <2>2, GoOnWorkers DEF LogIn, AllLocked, WorkerType
<1>2. CASE Refuse(w)
  <2>1. SharedType'  BY <1>2 DEF Refuse, SharedType, Exists
  <2>. QED BY <1>2, <2>1, AnswerWorkers DEF Refuse
<1>3. CASE TakeLock(w)
  <2>1. SharedType'  BY <1>3 DEF TakeLock, SharedType, Exists
  <2>. QED BY <1>3, <2>1, TakeLockWorkers
<1>4. CASE BreakDeadlock(w)
  <2>1. SharedType'  BY <1>4 DEF BreakDeadlock, SharedType, Exists
  <2>. QED BY <1>4, <2>1, AnswerWorkers DEF BreakDeadlock
<1>5. CASE Interrupt(w)
  <2>1. faults' \in 0..MaxFaults  BY <1>5, BoundsAssumption DEF Interrupt, SharedType
  <2>2. SharedType'  BY <1>5, <2>1 DEF Interrupt, SharedType, Exists
  <2>. QED BY <1>5, <2>2, AnswerWorkers DEF Interrupt
<1>6. ASSUME NEW q \in Requests, Receive(w, q) PROVE TypeInv'
  <2>1. SharedType'  BY <1>6 DEF Receive, SharedType, Exists
  <2>. QED BY <1>6, <2>1, ReceiveWorkers
<1>. QED BY <1>1, <1>2, <1>3, <1>4, <1>5, <1>6

\* Every step keeps the types.
LEMMA NextType == TypeInv /\ [Next]_vars => TypeInv'
<1>. SUFFICES ASSUME TypeInv, [Next]_vars PROVE TypeInv'  OBVIOUS
<1>1. CASE UNCHANGED vars
  BY <1>1 DEF vars, TypeInv, TypeOK, Position, UsesFit, Exists, LocksOf
<1>2. CASE Restart  BY <1>2, RestartType
<1>3. ASSUME NEW w \in Workers,
             (\E q \in Requests : Receive(w, q)) \/ Step(w) \/ BreakDeadlock(w) \/ Interrupt(w)
      PROVE  TypeInv'
  BY <1>3, ReadType, WriteUserType, CreateLobbyType, UpdateLobbyType, DeleteLobbyType,
     StartGameType, StopGameType, JoinLobbyType, CommitType, OtherSteps DEF Step
<1>. QED BY <1>1, <1>2, <1>3 DEF Next

\* Rows, entries, requests, locks and pending transactions have the types of
\* the columns, map values and locals they stand for, and no code is used more
\* often than it may (the checks of quick_connect under both table locks).
THEOREM TypeCorrect == Spec => []TypeOK
<1>1. Init => TypeInv  BY InitType
<1>2. TypeInv /\ [Next]_vars => TypeInv'  BY NextType
<1>3. TypeInv => TypeOK  BY DEF TypeInv
<1>. QED BY <1>1, <1>2, <1>3, PTL DEF Spec

-----------------------------------------------------------------------------
(* Locks that exclude each other are never held by two transactions. *)

NoConflict ==
  \A v, w \in Workers : v # w =>
    \A a \in Held(v), b \in Held(w) : ~Conflict(a, b)

\* Who is about to commit, or has what it takes to prepare that, is the only
\* one, except that lobbies are created beside each other.
Busy(w) == pc[w] = "commit" \/ AllLocked(w, Committing)

\* So the connections, starts, stops, updates and deletions have the lobby
\* table for themselves.
LEMMA Solo ==
  ASSUME TypeInv, NoConflict, NEW v \in Workers, NEW w \in Workers, v # w, Busy(v), Busy(w)
  PROVE  req[v].kind = "Create" /\ req[w].kind = "Create"
<1>1. ASSUME NEW u \in Workers, Busy(u)
      PROVE  req[u] # NoRequest /\ req[u].kind \in Committing /\ held[u] = Len(LocksOf(u))
  BY <1>1 DEF Busy, AllLocked, TypeInv, Position
<1>2. \A u \in Workers : Busy(u) => /\ req[u].kind = "Create" => Weak("lobby") \in Held(u)
                                    /\ req[u].kind # "Create" => Exclusive("lobby") \in Held(u)
  BY <1>1, AllLocks
<1>. QED BY <1>2 DEF NoConflict, Conflict, Weak, Exclusive

\* The locks of a worker depend on its request and on how many it has taken.
LEMMA SameLocks ==
  ASSUME NEW v, req'[v] = req[v], held'[v] = held[v]
  PROVE  Held(v)' = Held(v)
BY DEF Held, LocksOf

\* Giving locks back makes no conflict.
LEMMA AnswerLocks ==
  ASSUME TypeInv, NoConflict, NEW w \in Workers, Answer(w)
  PROVE  NoConflict'
<1>1. held'[w] = 0  BY DEF Answer, TypeInv, TypeOK
<1>2. Held(w)' = {}  BY <1>1 DEF Held
<1>3. \A v \in Workers : v # w => Held(v)' = Held(v)
  BY SameLocks DEF Answer, TypeInv, TypeOK
<1>4. \A a, b : Conflict(a, b)' <=> Conflict(a, b)  BY DEF Conflict
<1>. QED BY <1>2, <1>3, <1>4 DEF NoConflict

\* Nor does a new request.
LEMMA ReceiveLocks ==
  ASSUME TypeInv, NoConflict, NEW w \in Workers, NEW q \in Requests, Receive(w, q)
  PROVE  NoConflict'
<1>1. held[w] = 0  BY DEF Receive, TypeInv, TypeOK, Position, LocksOf
<1>2. Held(w)' = {}  BY <1>1 DEF Held, Receive
<1>3. \A v \in Workers : v # w => Held(v)' = Held(v)
  BY SameLocks DEF Receive, TypeInv, TypeOK
<1>. QED BY <1>2, <1>3 DEF NoConflict

\* A lock is granted only beside locks that allow it.
LEMMA TakeLockLocks ==
  ASSUME TypeInv, NoConflict, NEW w \in Workers, TakeLock(w)
  PROVE  NoConflict'
<1>. DEFINE next == LocksOf(w)[held[w] + 1]
<1>1. /\ held'[w] = held[w] + 1 /\ held[w] \in Nat
      /\ \A v \in Workers : v # w => held'[v] = held[v]
      /\ req' = req
  BY DEF TakeLock, TypeInv, TypeOK
<1>2. LocksOf(w)' = LocksOf(w)  BY <1>1 DEF LocksOf
<1>3. Held(w)' = Held(w) \cup {next}  BY <1>1, <1>2 DEF Held
<1>4. \A v \in Workers : v # w => Held(v)' = Held(v)  BY <1>1, SameLocks
<1>5. \A v \in Workers : v # w => \A lock \in Held(v) : ~Conflict(lock, next)
  BY DEF TakeLock, Blockers
<1>6. \A a, b : Conflict(a, b) => Conflict(b, a)  BY DEF Conflict
<1>. HIDE DEF next
<1>. QED BY <1>3, <1>4, <1>5, <1>6 DEF NoConflict

\* Nor do steps that take and give back none.
LEMMA QuietLocks ==
  ASSUME NoConflict, UNCHANGED <<req, held>>
  PROVE  NoConflict'
BY DEF NoConflict, Held, LocksOf


-----------------------------------------------------------------------------
(* What a transaction that is about to commit relies on. *)

CreateDue(w) ==
  /\ pending[w].row = LobbyRow(req[w].form, FALSE)
  /\ pending[w].joined = {} /\ pending[w].kicked = {}
  /\ ~Exists(pending[w].lobby) /\ pending[w].lobby \notin fresh

UpdateDue(w) ==
  LET row == lobby[pending[w].lobby]  form == req[w].form IN
  /\ Exists(pending[w].lobby)
  /\ pending[w].row = IF form.code THEN LobbyRow(form, row.started)
                      ELSE [row EXCEPT !.max_players = form.max_players]
  /\ pending[w].joined = {} /\ pending[w].kicked = {}

DeleteDue(w) ==
  /\ Exists(pending[w].lobby) /\ ~lobby[pending[w].lobby].started
  /\ pending[w].row = NoRow
  /\ pending[w].joined = {} /\ pending[w].kicked = Members(pending[w].lobby)

StartDue(w) ==
  LET l == pending[w].lobby IN
  /\ Exists(l) /\ pending[w].row = [lobby[l] EXCEPT !.started = TRUE]
  /\ pending[w].joined = {} /\ pending[w].kicked = {}
  /\ entry[l] # NoEntry /\ Players(l) \subseteq entry[l]

StopDue(w) ==
  LET l == pending[w].lobby IN
  /\ pending[w].row = IF Exists(l) THEN [lobby[l] EXCEPT !.started = FALSE] ELSE Unwritten
  /\ pending[w].joined = {} /\ pending[w].kicked = {}

\* Still true of the tables: what CanJoin and CodeWorks said of them.
JoinDue(w) ==
  LET l == pending[w].lobby  row == lobby[l]  coded == req[w].kind = "QuickConnect" IN
  /\ game_id[req[w].user] = Nowhere
  /\ Exists(l) /\ ~row.started /\ Cardinality(Members(l)) < row.max_players
  /\ coded => CodeWorks(row)
  /\ pending[w].row = IF coded THEN [row EXCEPT !.code_use_times = @ - 1] ELSE Unwritten
  /\ pending[w].joined = {req[w].user} /\ pending[w].kicked = {}

Due(w) ==
  /\ req[w].kind = "Create" => CreateDue(w)
  /\ req[w].kind = "Update" => UpdateDue(w)
  /\ req[w].kind = "Delete" => DeleteDue(w)
  /\ req[w].kind = "Start"  => StartDue(w)
  /\ req[w].kind = "Stop"   => StopDue(w)
  /\ req[w].kind \in {"Connect", "QuickConnect"} => JoinDue(w)

AllDue == \A w \in Workers : pc[w] = "commit" => Due(w)

\* Ids that are not handed out have no row; no id is handed out twice.
FreshIds ==
  /\ \A l \in fresh : ~Exists(l)
  /\ \A v, w \in Workers :
       v # w /\ pc[v] = "commit" /\ pc[w] = "commit" => pending[v].lobby # pending[w].lobby

StoreInv ==
  TypeInv /\ NoConflict /\ AllDue /\ FreshIds /\ StartedHasEntry /\ MembersPlay

\* The invariant holds before the first request.
LEMMA InitStore == Init => StoreInv
<1>. SUFFICES ASSUME Init PROVE StoreInv  OBVIOUS
<1>1. TypeInv  BY InitType
<1>2. NoConflict  BY DEF Init, NoConflict, Held
<1>3. AllDue  BY DEF Init, AllDue
<1>4. FreshIds  BY DEF Init, FreshIds, Exists
<1>5. \A l \in Lobbies : Exists(l) => ~lobby[l].started
  BY DEF Init, Exists, LobbyRow
<1>6. StartedHasEntry /\ MembersPlay  BY <1>5 DEF StartedHasEntry, MembersPlay
<1>. QED BY <1>1, <1>2, <1>3, <1>4, <1>6 DEF StoreInv

\* A step that changes no table, no entry and no transaction to commit.
LEMMA QuietStore ==
  ASSUME StoreInv, UNCHANGED <<lobby, game_id, entry, fresh, restarts>>,
         \A v \in Workers : pc'[v] = "commit" =>
           pc[v] = "commit" /\ req'[v] = req[v] /\ pending'[v] = pending[v]
  PROVE  AllDue' /\ FreshIds' /\ StartedHasEntry' /\ MembersPlay'
<1>1. ASSUME NEW v \in Workers, pc'[v] = "commit" PROVE Due(v)'
  <2>1. Due(v) /\ req'[v] = req[v] /\ pending'[v] = pending[v]
    BY <1>1 DEF StoreInv, AllDue
  <2>2. \A l : Exists(l)' = Exists(l) /\ Members(l)' = Members(l) /\ Players(l)' = Players(l)
    BY DEF Exists, Members, Players
  <2>3. CreateDue(v) => CreateDue(v)'  BY <2>1, <2>2 DEF CreateDue
  <2>4. UpdateDue(v) => UpdateDue(v)'  BY <2>1, <2>2 DEF UpdateDue
  <2>5. DeleteDue(v) => DeleteDue(v)'  BY <2>1, <2>2 DEF DeleteDue
  <2>6. StartDue(v) => StartDue(v)'  BY <2>1, <2>2 DEF StartDue
  <2>7. StopDue(v) => StopDue(v)'  BY <2>1, <2>2 DEF StopDue
  <2>8. JoinDue(v) => JoinDue(v)'  BY <2>1, <2>2 DEF JoinDue
  <2>. QED BY <2>1, <2>3, <2>4, <2>5, <2>6, <2>7, <2>8 DEF Due
<1>2. AllDue'  BY <1>1 DEF AllDue
<1>3. FreshIds'  BY DEF StoreInv, FreshIds, Exists
<1>4. StartedHasEntry' /\ MembersPlay'
  BY DEF StoreInv, StartedHasEntry, MembersPlay, Exists, Players, Members
<1>. QED BY <1>2, <1>3, <1>4

\* An answer leaves what the others are about to commit.
LEMMA AnswerQuiet ==
  ASSUME TypeInv, NEW w \in Workers, Answer(w)
  PROVE  \A v \in Workers : pc'[v] = "commit" =>
           v # w /\ pc[v] = "commit" /\ req'[v] = req[v] /\ pending'[v] = pending[v]
BY DEF Answer, TypeInv, TypeOK

-----------------------------------------------------------------------------
(* Transactions that have read and are about to commit. *)

\* A transaction that prepares its commit disturbs no other and keeps the map
\* in step.
LEMMA PrepareStore ==
  ASSUME StoreInv, NEW w \in Workers, AllLocked(w, Committing), TypeInv',
         NEW l \in Lobbies, NEW row, NEW joined, NEW kicked, NEW game,
         Prepare(w, l, row, joined, kicked, game),
         pending'[w].lobby = l, Due(w)',
         fresh' \subseteq fresh, req[w].kind = "Create" => l \in fresh,
         \A k \in Lobbies : k # l => entry'[k] = entry[k],
         Exists(l) /\ lobby[l].started =>
           \/ entry'[l] = entry[l]
           \/ entry'[l] # NoEntry /\ Players(l) \subseteq entry'[l]
  PROVE  AllDue' /\ FreshIds' /\ StartedHasEntry' /\ MembersPlay'
<1>1. UNCHANGED <<lobby, game_id, req, held, restarts>>  BY DEF Prepare
<1>2. \A k : Exists(k)' = Exists(k) /\ Players(k)' = Players(k)
  BY <1>1 DEF Exists, Members, Players
<1>3. ASSUME NEW v \in Workers, v # w, pc'[v] = "commit"
      PROVE  /\ pc[v] = "commit" /\ req[v].kind = "Create" /\ req[w].kind = "Create"
             /\ pending'[v] = pending[v] /\ pending[v].lobby \notin fresh /\ CreateDue(v)'
  <2>1. pc[v] = "commit" /\ pending'[v] = pending[v]
    BY <1>3 DEF Prepare, Goto, StoreInv, TypeInv, TypeOK
  <2>2. req[v].kind = "Create" /\ req[w].kind = "Create"
    BY <1>3, <2>1, Solo DEF StoreInv, Busy
  <2>3. CreateDue(v)  BY <2>1, <2>2 DEF StoreInv, AllDue, Due
  <2>4. CreateDue(v)'  BY <1>1, <1>2, <2>1, <2>3 DEF CreateDue
  <2>5. pending[v].lobby \notin fresh  BY <2>3 DEF CreateDue
  <2>. QED BY <2>1, <2>2, <2>4, <2>5
<1>4. AllDue'
  <2>. SUFFICES ASSUME NEW v \in Workers, pc'[v] = "commit" PROVE Due(v)'
    BY DEF AllDue
  <2>1. CASE v # w
    <3>1. CreateDue(v)' /\ req'[v].kind = "Create"  BY <1>1, <1>3, <2>1
    <3>. QED BY <3>1 DEF Due
  <2>. QED BY <2>1
<1>5. FreshIds'
  <2>1. \A k \in fresh' : ~Exists(k)'  BY <1>2 DEF StoreInv, FreshIds
  <2>2. \A v \in Workers : v # w /\ pc'[v] = "commit" => pending'[v].lobby # l
    BY <1>3
  <2>3. \A v, u \in Workers :
          v # u /\ v # w /\ u # w /\ pc'[v] = "commit" /\ pc'[u] = "commit"
            => pending'[v].lobby # pending'[u].lobby
    BY <1>3 DEF StoreInv, FreshIds
  <2>. QED BY <2>1, <2>2, <2>3 DEF FreshIds
<1>6. \A k \in Lobbies : Exists(k) /\ lobby[k].started =>
        \/ entry'[k] = entry[k]
        \/ entry'[k] # NoEntry /\ Players(k) \subseteq entry'[k]
  OBVIOUS
<1>7. StartedHasEntry'  BY <1>1, <1>2, <1>6 DEF StoreInv, StartedHasEntry
<1>8. MembersPlay'  BY <1>1, <1>2, <1>6 DEF StoreInv, MembersPlay
<1>. QED BY <1>4, <1>5, <1>7, <1>8

\* What a prepared transaction has read is still in the tables.
LEMMA Prepared ==
  ASSUME TypeInv, NEW w \in Workers, NEW l, NEW row, NEW joined, NEW kicked, NEW game,
         Prepare(w, l, row, joined, kicked, game)
  PROVE  /\ pending'[w].lobby = l /\ pending'[w].row = row
         /\ pending'[w].joined = joined /\ pending'[w].kicked = kicked
         /\ UNCHANGED <<lobby, game_id, req>>
         /\ \A k : /\ Exists(k)' = Exists(k) /\ Members(k)' = Members(k)
                   /\ Players(k)' = Players(k)
<1>1. pending \in [Workers -> Transactions \cup {NothingPending}]  BY DEF TypeInv, TypeOK
<1>2. pending'[w] = [lobby |-> l, row |-> row, joined |-> joined, kicked |-> kicked,
                     game |-> game]
  BY <1>1 DEF Prepare
<1>. QED BY <1>2 DEF Prepare, Exists, Members, Players

\* create_lobby: its id is its own, and the entry comes before the row.
LEMMA CreateLobbyStore ==
  ASSUME StoreInv, NEW w \in Workers, CreateLobby(w), TypeInv'
  PROVE  AllDue' /\ FreshIds' /\ StartedHasEntry' /\ MembersPlay'
<1>1. PICK l \in fresh :
        /\ entry' = [entry EXCEPT ![l] = {}] /\ fresh' = fresh \ {l}
        /\ Prepare(w, l, LobbyRow(req[w].form, FALSE), {}, {}, {})
  BY DEF CreateLobby
<1>2. l \in Lobbies /\ ~Exists(l)  BY DEF StoreInv, TypeInv, TypeOK, FreshIds
<1>3. req[w].kind = "Create" /\ AllLocked(w, Committing)
  BY DEF CreateLobby, AllLocked, Committing
<1>4. /\ pending'[w].lobby = l /\ pending'[w].row = LobbyRow(req[w].form, FALSE)
      /\ pending'[w].joined = {} /\ pending'[w].kicked = {}
      /\ UNCHANGED <<lobby, game_id, req>> /\ Exists(l)' = Exists(l)
  BY <1>1, Prepared DEF StoreInv
<1>5. Due(w)'  BY <1>1, <1>2, <1>3, <1>4 DEF Due, CreateDue
<1>6. \A k \in Lobbies : k # l => entry'[k] = entry[k]
  BY <1>1 DEF StoreInv, TypeInv, TypeOK
<1>. QED BY <1>1, <1>2, <1>3, <1>4, <1>5, <1>6, PrepareStore

\* update_lobby keeps `started` as it is.
LEMMA UpdateLobbyStore ==
  ASSUME StoreInv, NEW w \in Workers, UpdateLobby(w), TypeInv'
  PROVE  AllDue' /\ FreshIds' /\ StartedHasEntry' /\ MembersPlay'
<1>. DEFINE form == req[w].form
<1>1. PICK l \in Lobbies : l = req[w].lobby
  BY LockedRequest, RequestFields DEF UpdateLobby, StoreInv
<1>. DEFINE row  == IF form.code THEN LobbyRow(form, lobby[l].started)
                    ELSE [lobby[l] EXCEPT !.max_players = form.max_players]
<1>2. req[w].kind = "Update" /\ AllLocked(w, Committing)
  BY DEF UpdateLobby, AllLocked, Committing
<1>3. Prepare(w, l, row, {}, {}, {}) /\ Exists(l) /\ UNCHANGED <<entry, fresh>>
  BY <1>1 DEF UpdateLobby
<1>4. /\ pending'[w].lobby = l /\ pending'[w].row = row
      /\ pending'[w].joined = {} /\ pending'[w].kicked = {}
      /\ UNCHANGED <<lobby, game_id, req>> /\ Exists(l)' = Exists(l)
  <2>. HIDE DEF row
  <2>. QED BY <1>3, Prepared DEF StoreInv
<1>5. UpdateDue(w)'  BY <1>3, <1>4 DEF UpdateDue
<1>6. Due(w)'  BY <1>1, <1>2, <1>4, <1>5 DEF Due
<1>. HIDE DEF row
<1>. QED BY <1>1, <1>2, <1>3, <1>4, <1>6, PrepareStore

\* delete_lobby_endpoint takes only entries of lobbies without a running game.
LEMMA DeleteLobbyStore ==
  ASSUME StoreInv, NEW w \in Workers, DeleteLobby(w), TypeInv'
  PROVE  AllDue' /\ FreshIds' /\ StartedHasEntry' /\ MembersPlay'
<1>1. PICK l \in Lobbies : l = req[w].lobby
  BY LockedRequest, RequestFields DEF DeleteLobby, StoreInv
<1>2. req[w].kind = "Delete" /\ AllLocked(w, Committing)
  BY DEF DeleteLobby, AllLocked, Committing
<1>3. Prepare(w, l, NoRow, {}, Members(l), {}) /\ Exists(l) /\ ~lobby[l].started
      /\ entry' = [entry EXCEPT ![l] = NoEntry] /\ fresh' = fresh
  BY <1>1 DEF DeleteLobby
<1>4. /\ pending'[w].lobby = l /\ pending'[w].row = NoRow
      /\ pending'[w].joined = {} /\ pending'[w].kicked = Members(l)
      /\ UNCHANGED <<lobby, game_id, req>> /\ Exists(l)' = Exists(l) /\ Members(l)' = Members(l)
  BY <1>3, Prepared DEF StoreInv
<1>5. DeleteDue(w)'  BY <1>3, <1>4 DEF DeleteDue
<1>6. Due(w)'  BY <1>1, <1>2, <1>4, <1>5 DEF Due
<1>7. \A k \in Lobbies : k # l => entry'[k] = entry[k]
  BY <1>3 DEF StoreInv, TypeInv, TypeOK
<1>. QED BY <1>1, <1>2, <1>3, <1>4, <1>6, <1>7, PrepareStore

\* start_game_endpoint puts the members into the map before it commits.
LEMMA StartGameStore ==
  ASSUME StoreInv, NEW w \in Workers, StartGame(w), TypeInv'
  PROVE  AllDue' /\ FreshIds' /\ StartedHasEntry' /\ MembersPlay'
<1>1. PICK l \in Lobbies : l = req[w].lobby
  BY LockedRequest, RequestFields DEF StartGame, StoreInv
<1>. DEFINE row == [lobby[l] EXCEPT !.started = TRUE]
<1>2. req[w].kind = "Start" /\ AllLocked(w, Committing)
  BY DEF StartGame, AllLocked, Committing
<1>3. Prepare(w, l, row, {}, {}, {Players(l)}) /\ Exists(l)
      /\ entry' = [entry EXCEPT ![l] = Players(l)] /\ fresh' = fresh
  BY <1>1 DEF StartGame
<1>4. /\ pending'[w].lobby = l /\ pending'[w].row = row
      /\ pending'[w].joined = {} /\ pending'[w].kicked = {}
      /\ UNCHANGED <<lobby, game_id, req>> /\ Exists(l)' = Exists(l) /\ Players(l)' = Players(l)
  <2>. HIDE DEF row
  <2>. QED BY <1>3, Prepared DEF StoreInv
<1>5. entry'[l] = Players(l) /\ entry'[l] # NoEntry
      /\ \A k \in Lobbies : k # l => entry'[k] = entry[k]
  <2>1. Players(l) \in SUBSET Users  BY DEF Players, Members
  <2>2. Players(l) # NoEntry  BY <2>1, IdsAssumption
  <2>. QED BY <1>1, <1>2, <1>3, <2>2 DEF StoreInv, TypeInv, TypeOK
<1>6. StartDue(w)'  BY <1>3, <1>4, <1>5 DEF StartDue
<1>7. Due(w)'  BY <1>1, <1>2, <1>4, <1>6 DEF Due
<1>. HIDE DEF row
<1>. QED BY <1>1, <1>2, <1>3, <1>4, <1>5, <1>7, PrepareStore

\* stop_game_endpoint leaves the map alone.
LEMMA StopGameStore ==
  ASSUME StoreInv, NEW w \in Workers, StopGame(w), TypeInv'
  PROVE  AllDue' /\ FreshIds' /\ StartedHasEntry' /\ MembersPlay'
<1>1. PICK l \in Lobbies : l = req[w].lobby
  BY LockedRequest, RequestFields DEF StopGame, StoreInv
<1>. DEFINE row == IF Exists(l) THEN [lobby[l] EXCEPT !.started = FALSE] ELSE Unwritten
<1>2. req[w].kind = "Stop" /\ AllLocked(w, Committing)
  BY DEF StopGame, AllLocked, Committing
<1>3. Prepare(w, l, row, {}, {}, {}) /\ UNCHANGED <<entry, fresh>>  BY <1>1 DEF StopGame
<1>4. /\ pending'[w].lobby = l /\ pending'[w].row = row
      /\ pending'[w].joined = {} /\ pending'[w].kicked = {}
      /\ UNCHANGED <<lobby, game_id, req>> /\ Exists(l)' = Exists(l)
  <2>. HIDE DEF row
  <2>. QED BY <1>3, Prepared DEF StoreInv
<1>5. StopDue(w)'  BY <1>3, <1>4 DEF StopDue
<1>6. Due(w)'  BY <1>1, <1>2, <1>4, <1>5 DEF Due
<1>. HIDE DEF row
<1>. QED BY <1>1, <1>2, <1>3, <1>4, <1>6, PrepareStore

\* connect_user lets people only into lobbies without a running game.
LEMMA JoinLobbyStore ==
  ASSUME StoreInv, NEW w \in Workers, JoinLobby(w), TypeInv'
  PROVE  AllDue' /\ FreshIds' /\ StartedHasEntry' /\ MembersPlay'
<1>1. PICK l \in Lobbies : l = req[w].lobby
  BY LockedRequest, RequestFields DEF JoinLobby, StoreInv
<1>. DEFINE row == IF req[w].kind = "QuickConnect"
                     THEN [lobby[l] EXCEPT !.code_use_times = @ - 1] ELSE Unwritten
<1>2. req[w].kind \in {"Connect", "QuickConnect"} /\ AllLocked(w, Committing)
  BY DEF JoinLobby, AllLocked, Committing
<1>3. Prepare(w, l, row, {req[w].user}, {}, {}) /\ UNCHANGED <<entry, fresh>>
      /\ CanJoin(req[w].user, l) /\ (req[w].kind = "QuickConnect" => CodeWorks(lobby[l]))
  BY <1>1 DEF JoinLobby
<1>4. /\ pending'[w].lobby = l /\ pending'[w].row = row
      /\ pending'[w].joined = {req[w].user} /\ pending'[w].kicked = {}
      /\ UNCHANGED <<lobby, game_id, req>> /\ Exists(l)' = Exists(l) /\ Members(l)' = Members(l)
  <2>. HIDE DEF row
  <2>. QED BY <1>3, Prepared DEF StoreInv
<1>5. JoinDue(w)'  BY <1>3, <1>4 DEF JoinDue, CanJoin
<1>6. Due(w)'  BY <1>1, <1>2, <1>4, <1>5 DEF Due
<1>. HIDE DEF row
<1>. QED BY <1>1, <1>2, <1>3, <1>4, <1>6, PrepareStore

-----------------------------------------------------------------------------
(* The steps that change the tables. *)

\* A disconnection or deletion beside a transaction leaves true what that
\* relies on.
LEMMA WriteUserStore ==
  ASSUME StoreInv, NEW w \in Workers, WriteUser(w)
  PROVE  AllDue' /\ FreshIds' /\ StartedHasEntry' /\ MembersPlay'
<1>. PICK u : u = req[w].user  OBVIOUS
<1>1. UNCHANGED <<lobby, entry, fresh, restarts>> /\ Answer(w)  BY DEF WriteUser
<1>2. \A k : Exists(k)' = Exists(k)  BY <1>1 DEF Exists
<1>3. \A x \in Users : \/ game_id'[x] = game_id[x]
                       \/ x = u /\ game_id'[x] \in {Nowhere, Deleted}
  <2>1. game_id \in [Users -> Lobbies \cup {Nowhere, Deleted}]
    BY DEF StoreInv, TypeInv, TypeOK
  <2>2. PICK value \in {Nowhere, Deleted} : game_id' = [game_id EXCEPT ![u] = value]
    BY DEF WriteUser
  <2>. QED BY <2>1, <2>2
<1>4. \A l \in Lobbies : Members(l)' \subseteq Members(l) /\ Players(l)' \subseteq Players(l)
                         /\ (u \notin Members(l) => Members(l)' = Members(l))
  BY <1>3, IdsAssumption DEF Members, Players
<1>5. ASSUME NEW v \in Workers, pc'[v] = "commit" PROVE Due(v)'
  <2>1. v # w /\ pc[v] = "commit" /\ req'[v] = req[v] /\ pending'[v] = pending[v]
    BY <1>1, <1>5, AnswerQuiet DEF StoreInv
  <2>2. Due(v)  BY <2>1 DEF StoreInv, AllDue
  <2>3. req[v] # NoRequest /\ req[v].kind \in Committing /\ held[v] = Len(LocksOf(v))
        /\ pending[v] \in Transactions
    BY <2>1 DEF StoreInv, TypeInv, Position
  <2>4. pending[v].lobby \in Lobbies  BY <2>3 DEF Transactions
  <2>5. req[v].kind \notin {"Connect", "QuickConnect"}
    BY <2>3, AllLocks DEF WriteUser, Accessible
  <2>6. CreateDue(v) => CreateDue(v)'  BY <1>1, <1>2, <2>1 DEF CreateDue
  <2>7. UpdateDue(v) => UpdateDue(v)'  BY <1>1, <1>2, <2>1 DEF UpdateDue
  <2>8. DeleteDue(v) => DeleteDue(v)'
    <3>1. u \notin pending[v].kicked
      BY <2>3, FormsAssumption DEF WriteUser, RowFree
    <3>2. ASSUME DeleteDue(v) PROVE Members(pending[v].lobby)' = Members(pending[v].lobby)
      <4>. PICK l \in Lobbies : l = pending[v].lobby  BY <2>4
      <4>1. Members(l)' = Members(l)  BY <1>4, <3>1, <3>2 DEF DeleteDue
      <4>2. Members(pending[v].lobby)' = Members(l)'  BY <2>1 DEF Members
      <4>. QED BY <4>1, <4>2
    <3>. QED BY <1>1, <1>2, <2>1, <3>2 DEF DeleteDue
  <2>9. StartDue(v) => StartDue(v)'
    <3>. PICK l \in Lobbies : l = pending[v].lobby  BY <2>4
    <3>1. Players(l)' \subseteq Players(l) /\ pending'[v].lobby = l  BY <1>4, <2>1
    <3>2. Players(pending[v].lobby)' = Players(l)'  BY <3>1 DEF Players, Members
    <3>. QED BY <1>1, <1>2, <2>1, <3>1, <3>2 DEF StartDue
  <2>10. StopDue(v) => StopDue(v)'  BY <1>1, <1>2, <2>1 DEF StopDue
  <2>. QED BY <2>1, <2>2, <2>5, <2>6, <2>7, <2>8, <2>9, <2>10 DEF Due
<1>6. AllDue'  BY <1>5 DEF AllDue
<1>7. FreshIds'
  BY <1>1, <1>2, AnswerQuiet DEF StoreInv, FreshIds
<1>8. StartedHasEntry'  BY <1>1, <1>2 DEF StoreInv, StartedHasEntry
<1>9. MembersPlay'  BY <1>1, <1>2, <1>4 DEF StoreInv, MembersPlay
<1>. QED BY <1>6, <1>7, <1>8, <1>9

\* What a commit does to the lobbies, to who is in them and to who plays.
CommitEffect(w) ==
  LET l == pending[w].lobby  p == pending[w] IN
  /\ lobby'[l] = IF p.row = Unwritten THEN lobby[l] ELSE p.row
  /\ \A k \in Lobbies : k # l => lobby'[k] = lobby[k]
  /\ \A u \in Users : game_id'[u] = IF u \in p.joined THEN l
                                    ELSE IF u \in p.kicked THEN Nowhere ELSE game_id[u]
  /\ UNCHANGED <<entry, fresh, restarts>>

\* A commit has its effect, and what it relies on is true.
LEMMA Committed ==
  ASSUME StoreInv, NEW w \in Workers, Commit(w)
  PROVE  /\ pending[w] \in Transactions /\ pending[w].lobby \in Lobbies
         /\ req[w].kind \in Committing /\ req[w] \in Requests
         /\ Due(w) /\ Answer(w) /\ CommitEffect(w)
<1>1. pending[w] \in Transactions /\ req[w].kind \in Committing /\ req[w] \in Requests
  BY DEF Commit, StoreInv, TypeInv, TypeOK, Position
<1>2. pending[w].lobby \in Lobbies  BY <1>1 DEF Transactions
<1>3. Due(w)  BY DEF Commit, StoreInv, AllDue
<1>4. CommitEffect(w)
  BY <1>2 DEF Commit, CommitEffect, StoreInv, TypeInv, TypeOK
<1>. QED BY <1>1, <1>2, <1>3, <1>4 DEF Commit

\* Nobody gets into a started lobby who is not among its players in memory.
LEMMA CommitPlayers ==
  ASSUME StoreInv, NEW w \in Workers, Commit(w), NEW l \in Lobbies,
         lobby'[l] # NoRow, lobby'[l].started
  PROVE  \/ Exists(l) /\ lobby[l].started /\ Players(l)' \subseteq Players(l)
         \/ entry[l] # NoEntry /\ Players(l)' \subseteq entry[l]
<1>1. Due(w) /\ CommitEffect(w) /\ req[w].kind \in Committing /\ req[w] \in Requests
      /\ pending[w].lobby \in Lobbies
  BY Committed
<1>2. CASE pending[w].lobby # l
  <2>1. lobby'[l] = lobby[l]  BY <1>1, <1>2 DEF CommitEffect
  <2>2. \A u \in Users : game_id'[u] = l => game_id[u] = l
    BY <1>1, <1>2, IdsAssumption DEF CommitEffect
  <2>3. Players(l)' \subseteq Players(l)  BY <2>2 DEF Players, Members
  <2>. QED BY <2>1, <2>3 DEF Exists
<1>3. CASE pending[w].lobby = l
  <2>1. pending[w].joined = {} => Players(l)' \subseteq Players(l)
    <3>1. ASSUME pending[w].joined = {}
          PROVE  \A u \in Users : game_id'[u] = l => game_id[u] = l
      BY <1>1, <1>3, <3>1, IdsAssumption DEF CommitEffect
    <3>. QED BY <3>1 DEF Players, Members
  <2>2. lobby'[l] = IF pending[w].row = Unwritten THEN lobby[l] ELSE pending[w].row
    BY <1>1, <1>3 DEF CommitEffect
  <2>3. Exists(l) => lobby[l] \in LobbyRows
    BY DEF Exists, StoreInv, TypeInv, TypeOK
  <2>4. CASE req[w].kind = "Create"
    BY <1>1, <1>3, <2>2, <2>4, FormsAssumption DEF Due, CreateDue, LobbyRow, Exists
  <2>5. CASE req[w].kind = "Update"
    <3>1. UpdateDue(w) /\ req[w].form \in Forms
      BY <1>1, <2>5, RequestFields DEF Due
    <3>2. lobby'[l].started = lobby[l].started
      <4>1. lobby[l] \in LobbyRows /\ lobby[l].started \in BOOLEAN
        BY <1>3, <2>3, <3>1 DEF UpdateDue, LobbyRows
      <4>2. pending[w].row \in LobbyRows /\ pending[w].row.started = lobby[l].started
        BY <1>3, <3>1, <4>1, RowTypes DEF UpdateDue, LobbyRow, LobbyRows
      <4>. QED BY <2>2, <4>2, FormsAssumption
    <3>. QED BY <1>3, <2>1, <3>1, <3>2 DEF UpdateDue
  <2>6. CASE req[w].kind = "Delete"
    BY <1>1, <1>3, <2>2, <2>6 DEF Due, DeleteDue
  <2>7. CASE req[w].kind = "Start"
    BY <1>1, <1>3, <2>1, <2>7 DEF Due, StartDue
  <2>8. CASE req[w].kind = "Stop"
    BY <1>1, <1>3, <2>1, <2>2, <2>3, <2>8 DEF Due, StopDue, LobbyRows, Exists
  <2>9. CASE req[w].kind \in {"Connect", "QuickConnect"}
    <3>1. JoinDue(w)  BY <1>1, <2>9 DEF Due
    <3>. QED BY <1>3, <2>2, <2>3, <3>1 DEF JoinDue, LobbyRows
  <2>. QED BY <1>1, <2>4, <2>5, <2>6, <2>7, <2>8, <2>9 DEF Committing
<1>. QED BY <1>2, <1>3

\* A commit disturbs no other transaction and keeps the map in step.
LEMMA CommitStore ==
  ASSUME StoreInv, NEW w \in Workers, Commit(w)
  PROVE  AllDue' /\ FreshIds' /\ StartedHasEntry' /\ MembersPlay'
<1>1. Due(w) /\ CommitEffect(w) /\ Answer(w) /\ pending[w].lobby \in Lobbies
  BY Committed
<1>2. UNCHANGED <<entry, fresh, restarts>>  BY <1>1 DEF CommitEffect
<1>3. ASSUME NEW v \in Workers, pc'[v] = "commit"
      PROVE  /\ v # w /\ pc[v] = "commit" /\ req'[v] = req[v] /\ pending'[v] = pending[v]
             /\ req[v].kind = "Create" /\ CreateDue(v)'
  <2>1. v # w /\ pc[v] = "commit" /\ req'[v] = req[v] /\ pending'[v] = pending[v]
    BY <1>1, <1>3, AnswerQuiet DEF StoreInv
  <2>2. req[v].kind = "Create"  BY <2>1, Solo DEF StoreInv, Busy, Commit
  <2>3. CreateDue(v)  BY <2>1, <2>2 DEF StoreInv, AllDue, Due
  <2>4. pending[v].lobby # pending[w].lobby /\ pending[v].lobby \in Lobbies
    BY <2>1 DEF Commit, StoreInv, FreshIds, TypeInv, Position, Transactions
  <2>5. lobby'[pending[v].lobby] = lobby[pending[v].lobby]  BY <1>1, <2>4 DEF CommitEffect
  <2>6. CreateDue(v)'  BY <1>2, <2>1, <2>3, <2>5 DEF CreateDue, Exists
  <2>. QED BY <2>1, <2>2, <2>6
<1>4. AllDue'
  <2>. SUFFICES ASSUME NEW v \in Workers, pc'[v] = "commit" PROVE Due(v)'
    BY DEF AllDue
  <2>1. CreateDue(v)' /\ req'[v].kind = "Create"  BY <1>3
  <2>. QED BY <2>1 DEF Due
<1>5. FreshIds'
  <2>1. \A l \in fresh' : ~Exists(l)'
    <3>. SUFFICES ASSUME NEW l \in fresh, lobby'[l] # NoRow PROVE FALSE
      BY <1>2 DEF Exists
    <3>1. l \in Lobbies /\ ~Exists(l)  BY DEF StoreInv, TypeInv, TypeOK, FreshIds
    <3>2. pending[w].lobby = l /\ pending[w].row \notin {Unwritten, NoRow}
      BY <1>1, <3>1 DEF CommitEffect, Exists
    <3>3. req[w].kind \in Committing  BY Committed
    <3>. QED BY <1>1, <3>1, <3>2, <3>3
      DEF Due, CreateDue, UpdateDue, DeleteDue, StartDue, StopDue, JoinDue, Committing
  <2>. QED BY <1>3, <2>1 DEF StoreInv, FreshIds
<1>6. StartedHasEntry'
  BY <1>2, CommitPlayers DEF StoreInv, StartedHasEntry, Exists
<1>7. MembersPlay'
  <2>. SUFFICES ASSUME NEW l \in Lobbies, restarts = 0, lobby'[l] # NoRow, lobby'[l].started
                PROVE  entry[l] # NoEntry /\ Players(l)' \subseteq entry[l]
    BY <1>2 DEF MembersPlay, Exists
  <2>. QED BY CommitPlayers DEF StoreInv, MembersPlay
<1>. QED BY <1>4, <1>5, <1>6, <1>7

\* After a restart the map has an entry for every started lobby.
LEMMA RestartStore ==
  ASSUME StoreInv, Restart
  PROVE  NoConflict' /\ AllDue' /\ FreshIds' /\ StartedHasEntry' /\ MembersPlay'
<1>1. NoConflict'  BY DEF Restart, NoConflict, Held
<1>2. AllDue' /\ FreshIds'  BY DEF Restart, AllDue, FreshIds, StoreInv, Exists
<1>3. StartedHasEntry'
  <2>. SUFFICES ASSUME NEW l \in Lobbies, lobby[l] # NoRow, lobby[l].started
                PROVE  entry'[l] # NoEntry
    BY DEF StartedHasEntry, Exists, Restart
  <2>1. entry'[l] \in games[l]  BY DEF Restart, RestoredEntries, Exists
  <2>2. entry'[l] \in SUBSET Users  BY <2>1 DEF StoreInv, TypeInv, TypeOK
  <2>. QED BY <2>2, IdsAssumption
<1>4. MembersPlay'
  BY BoundsAssumption DEF Restart, MembersPlay, StoreInv, TypeInv, TypeOK
<1>. QED BY <1>1, <1>2, <1>3, <1>4

\* Every step keeps the invariant.
LEMMA NextStore == StoreInv /\ [Next]_vars => StoreInv'
<1>. SUFFICES ASSUME StoreInv, [Next]_vars PROVE StoreInv'  OBVIOUS
<1>1. TypeInv'  BY NextType DEF StoreInv
<1>. DEFINE Others == AllDue' /\ FreshIds' /\ StartedHasEntry' /\ MembersPlay'
<1>2. CASE UNCHANGED vars
  <2>1. NoConflict'  BY <1>2, QuietLocks DEF vars, StoreInv
  <2>2. Others  BY <1>2, QuietStore DEF vars
  <2>. QED BY <1>1, <2>1, <2>2 DEF StoreInv
<1>3. CASE Restart  BY <1>1, <1>3, RestartStore DEF StoreInv
<1>4. ASSUME NEW w \in Workers, Answer(w), UNCHANGED <<lobby, game_id, entry, fresh, restarts>>
      PROVE  StoreInv'
  <2>1. NoConflict'  BY <1>4, AnswerLocks DEF StoreInv
  <2>2. Others  BY <1>4, AnswerQuiet, QuietStore DEF StoreInv
  <2>. QED BY <1>1, <2>1, <2>2 DEF StoreInv
<1>5. ASSUME NEW w \in Workers,
             (\E q \in Requests : Receive(w, q)) \/ Step(w) \/ BreakDeadlock(w) \/ Interrupt(w)
      PROVE  StoreInv'
  <2>1. CASE BreakDeadlock(w) \/ Interrupt(w) \/ Refuse(w)
    BY <1>4, <2>1 DEF BreakDeadlock, Interrupt, Refuse
  <2>2. ASSUME NEW q \in Requests, Receive(w, q) PROVE StoreInv'
    <3>1. NoConflict'  BY <2>2, ReceiveLocks DEF StoreInv
    <3>2. Others
      <4>1. \A v \in Workers : pc'[v] = "commit" =>
              pc[v] = "commit" /\ req'[v] = req[v] /\ pending'[v] = pending[v]
        BY <2>2 DEF Receive, Goto, StoreInv, TypeInv, TypeOK
      <4>. QED BY <2>2, <4>1, QuietStore DEF Receive
    <3>. QED BY <1>1, <3>1, <3>2 DEF StoreInv
  <2>3. CASE Read(w)
    <3>1. CASE Answer(w)  BY <1>4, <2>3, <3>1 DEF Read
    <3>2. CASE ~Answer(w)
      <4>1. NoConflict'  BY <2>3, <3>2, QuietLocks DEF Read, StoreInv
      <4>2. \A v \in Workers : pc'[v] = "commit" =>
              pc[v] = "commit" /\ req'[v] = req[v] /\ pending'[v] = pending[v]
        BY <2>3, <3>2 DEF Read, Goto, StoreInv, TypeInv, TypeOK
      <4>3. Others  BY <2>3, <4>2, QuietStore DEF Read
      <4>. QED BY <1>1, <4>1, <4>3 DEF StoreInv
    <3>. QED BY <3>1, <3>2
  <2>4. CASE WriteUser(w)
    <3>1. NoConflict'  BY <2>4, AnswerLocks DEF WriteUser, StoreInv
    <3>. QED BY <1>1, <2>4, <3>1, WriteUserStore DEF StoreInv
  <2>5. CASE TakeLock(w)
    <3>1. NoConflict'  BY <2>5, TakeLockLocks DEF StoreInv
    <3>2. Others  BY <2>5, QuietStore DEF TakeLock
    <3>. QED BY <1>1, <3>1, <3>2 DEF StoreInv
  <2>6. CASE LogIn(w)
    <3>1. NoConflict'  BY <2>6, QuietLocks DEF LogIn, StoreInv
    <3>2. \A v \in Workers : pc'[v] = "commit" =>
            pc[v] = "commit" /\ req'[v] = req[v] /\ pending'[v] = pending[v]
      BY <2>6 DEF LogIn, Goto, StoreInv, TypeInv, TypeOK
    <3>3. Others  BY <2>6, <3>2, QuietStore DEF LogIn
    <3>. QED BY <1>1, <3>1, <3>3 DEF StoreInv
  <2>7. CASE \/ CreateLobby(w) \/ UpdateLobby(w) \/ DeleteLobby(w)
             \/ StartGame(w) \/ StopGame(w) \/ JoinLobby(w)
    <3>1. UNCHANGED <<req, held>>
      BY <2>7 DEF CreateLobby, UpdateLobby, DeleteLobby, StartGame, StopGame, JoinLobby, Prepare
    <3>2. NoConflict'  BY <3>1, QuietLocks DEF StoreInv
    <3>3. Others
      BY <1>1, <2>7, CreateLobbyStore, UpdateLobbyStore, DeleteLobbyStore, StartGameStore,
         StopGameStore, JoinLobbyStore
    <3>. QED BY <1>1, <3>2, <3>3 DEF StoreInv
  <2>8. CASE Commit(w)
    <3>1. NoConflict'  BY <2>8, AnswerLocks DEF Commit, StoreInv
    <3>. QED BY <1>1, <2>8, <3>1, CommitStore DEF StoreInv
  <2>. QED BY <1>5, <2>1, <2>2, <2>3, <2>4, <2>5, <2>6, <2>7, <2>8 DEF Step
<1>. QED BY <1>2, <1>3, <1>5 DEF Next

\* A started lobby has its entry in memory, whatever requests overlap, are
\* rolled back or cut off by a restart, and for any number of them.
THEOREM StartedLobbiesHaveEntries == Spec => []StartedHasEntry
<1>1. StoreInv => StartedHasEntry  BY DEF StoreInv
<1>. QED BY <1>1, InitStore, NextStore, PTL DEF Spec

\* Until the process restarts, everybody in a started lobby is a player of
\* the game in memory: who enters cannot slip in beside a start.
THEOREM MembersOfGamesPlay == Spec => []MembersPlay
<1>1. StoreInv => MembersPlay  BY DEF StoreInv
<1>. QED BY <1>1, InitStore, NextStore, PTL DEF Spec

-----------------------------------------------------------------------------
(***************************************************************************)
(* Circles of requests that wait for each other.  Of the blocked ones only *)
(* an entrant holds the user table exclusively; one at a time can.  The    *)
(* others are ranked by what they hold and want: who waits for the user    *)
(* table with the lobby table in hand waits for an entrant or for somebody *)
(* who has all his locks, a creation for such a one at most, a temporary   *)
(* user for a creation at most, and for who holds nothing nobody waits.    *)
(***************************************************************************)
Entering == {"Connect", "QuickConnect", "QuickConnectTemp"}

\* Blocked with the user table in hand.
Entrant(w) == Blockers(w) # {} /\ Exclusive("user") \in Held(w)

Wanted(w) == LocksOf(w)[held[w] + 1]

\* A blocked transaction that holds just the lock a, and wants b.
Holds(w, a, b) == held[w] = 1 /\ Held(w) = {a} /\ Wanted(w) = b

Rank(w) ==
  IF Blockers(w) = {} THEN 0
  ELSE IF held[w] = 0 THEN 4
  ELSE IF req[w].kind \in {"Start", "Delete", "Update"} THEN 1
  ELSE IF req[w].kind = "Create" THEN 2 ELSE 3

\* What a blocked transaction may hold and want.
LEMMA BlockedShapes ==
  ASSUME TypeInv, NEW w \in Workers, Blockers(w) # {}
  PROVE  \/ held[w] = 0 /\ Held(w) = {}
         \/ /\ req[w].kind \in {"Start", "Delete", "Update"}
            /\ Holds(w, Exclusive("lobby"), Weak("user"))
         \/ req[w].kind = "Create" /\ Holds(w, Weak("user"), Weak("lobby"))
         \/ /\ req[w].kind = "QuickConnectTemp"
            /\ Holds(w, Weak("lobby"), Exclusive("user"))
         \/ req[w].kind \in Entering /\ Exclusive("user") \in Held(w)
<1>1. pc[w] = "lock" /\ held[w] < Len(LocksOf(w)) /\ held[w] \in Nat
  BY DEF Blockers, TypeInv, TypeOK
<1>2. req[w] # NoRequest /\ req[w].kind \in AllKinds /\ LocksOf(w) = Locks(req[w].kind)
  BY <1>1, RequestFields DEF TypeInv, TypeOK, Position, LocksOf
<1>3. CASE held[w] = 0
  <2>1. Held(w) = {}  BY <1>3 DEF Held
  <2>. QED BY <1>3, <2>1
<1>4. CASE held[w] # 0
  <2>1. CASE req[w].kind \in {"Start", "Delete", "Update"}
    <3>1. LocksOf(w) = <<Exclusive("lobby"), Weak("user")>>  BY <1>2, <2>1 DEF Locks
    <3>2. held[w] = 1 /\ Wanted(w) = Weak("user") /\ LocksOf(w)[1] = Exclusive("lobby")
      BY <1>1, <1>4, <3>1 DEF Wanted
    <3>3. Held(w) = {Exclusive("lobby")}  BY <3>2 DEF Held
    <3>. QED BY <2>1, <3>2, <3>3 DEF Holds
  <2>2. CASE req[w].kind = "Stop"
    <3>1. Len(LocksOf(w)) = 1  BY <1>2, <2>2 DEF Locks
    <3>. QED BY <1>1, <1>4, <3>1
  <2>3. CASE req[w].kind \in {"Connect", "QuickConnect"}
    <3>1. LocksOf(w) = <<Exclusive("user"), Exclusive("lobby")>>  BY <1>2, <2>3 DEF Locks
    <3>2. held[w] >= 1 /\ LocksOf(w)[1] = Exclusive("user")  BY <1>1, <1>4, <3>1
    <3>. QED BY <1>1, <2>3, <3>2 DEF Held, Entering
  <2>4. CASE req[w].kind = "QuickConnectTemp"
    <3>1. LocksOf(w) = <<Weak("lobby"), Exclusive("user"), Exclusive("lobby")>>
      BY <1>2, <2>4 DEF Locks
    <3>2. /\ Len(LocksOf(w)) = 3 /\ LocksOf(w)[1] = Weak("lobby")
          /\ LocksOf(w)[2] = Exclusive("user")
      BY <3>1
    <3>3. CASE held[w] = 1
      <4>1. Held(w) = {Weak("lobby")}  BY <3>2, <3>3 DEF Held
      <4>2. Wanted(w) = Exclusive("user")  BY <3>2, <3>3 DEF Wanted
      <4>. QED BY <2>4, <3>3, <4>1, <4>2 DEF Holds
    <3>4. CASE held[w] = 2
      <4>1. Exclusive("user") \in Held(w)  BY <3>2, <3>4 DEF Held
      <4>. QED BY <2>4, <4>1 DEF Entering
    <3>. QED BY <1>1, <1>4, <3>2, <3>3, <3>4
  <2>5. CASE req[w].kind = "Create"
    <3>1. LocksOf(w) = <<Weak("user"), Weak("lobby")>>  BY <1>2, <2>5 DEF Locks
    <3>2. held[w] = 1 /\ Wanted(w) = Weak("lobby") /\ LocksOf(w)[1] = Weak("user")
      BY <1>1, <1>4, <3>1 DEF Wanted
    <3>3. Held(w) = {Weak("user")}  BY <3>2 DEF Held
    <3>. QED BY <2>5, <3>2, <3>3 DEF Holds
  <2>6. CASE req[w].kind \in {"Disconnect", "DeleteUser"}
    <3>1. LocksOf(w) = <<>>  BY <1>2, <2>6 DEF Locks
    <3>. QED BY <1>1, <3>1
  <2>. QED BY <1>2, <2>1, <2>2, <2>3, <2>4, <2>5, <2>6 DEF AllKinds
<1>. QED BY <1>3, <1>4

\* Who is blocked is so by an entrant or by somebody of a lower rank.
LEMMA BlockersRankLower ==
  ASSUME TypeInv, NEW v \in Workers, ~Entrant(v), NEW b \in Blockers(v)
  PROVE  Entrant(b) \/ Rank(b) < Rank(v)
<1>1. b \in Workers /\ \E lock \in Held(b) : Conflict(lock, Wanted(v))
  BY DEF Blockers, Wanted
<1>2. PICK lock \in Held(b) : Conflict(lock, Wanted(v))  BY <1>1
<1>3. Blockers(v) # {}  OBVIOUS
<1>4. CASE Blockers(b) = {}
  <2>1. Rank(b) = 0  BY <1>4 DEF Rank
  <2>2. Rank(v) \in 1..4  BY <1>3 DEF Rank
  <2>. QED BY <2>1, <2>2
<1>5. CASE Blockers(b) # {}
  <2>1. \/ /\ req[b].kind \in {"Start", "Delete", "Update"}
           /\ Holds(b, Exclusive("lobby"), Weak("user"))
        \/ req[b].kind = "Create" /\ Holds(b, Weak("user"), Weak("lobby"))
        \/ /\ req[b].kind = "QuickConnectTemp"
           /\ Holds(b, Weak("lobby"), Exclusive("user"))
        \/ Entrant(b)
    <3>1. Held(b) # {}  BY <1>2
    <3>. QED BY <1>1, <1>5, <3>1, BlockedShapes DEF Entrant
  <2>2. CASE Entrant(b)  BY <2>2
  <2>3. CASE ~Entrant(b)
    <3>1. held[b] = 1 /\ Rank(b) \in 1..3  BY <1>5, <2>1, <2>3 DEF Holds, Rank
    <3>2. CASE held[v] = 0
      <4>1. Rank(v) = 4  BY <1>3, <3>2 DEF Rank
      <4>. QED BY <3>1, <4>1
    <3>3. CASE /\ req[v].kind \in {"Start", "Delete", "Update"}
               /\ Holds(v, Exclusive("lobby"), Weak("user"))
      <4>1. lock.table = "user" /\ lock.exclusive
        BY <1>2, <3>3 DEF Holds, Conflict, Weak, Exclusive
      <4>. QED BY <1>2, <2>1, <2>3, <4>1 DEF Holds, Weak, Exclusive
    <3>4. CASE req[v].kind = "Create" /\ Holds(v, Weak("user"), Weak("lobby"))
      <4>1. lock.table = "lobby" /\ lock.exclusive
        BY <1>2, <3>4 DEF Holds, Conflict, Weak, Exclusive
      <4>2. req[b].kind \in {"Start", "Delete", "Update"}
        BY <1>2, <2>1, <2>3, <4>1 DEF Holds, Weak, Exclusive
      <4>3. Rank(b) = 1  BY <1>5, <3>1, <4>2 DEF Rank
      <4>4. Rank(v) = 2  BY <1>3, <3>4 DEF Rank, Holds
      <4>. QED BY <4>3, <4>4
    <3>5. CASE /\ req[v].kind = "QuickConnectTemp"
               /\ Holds(v, Weak("lobby"), Exclusive("user"))
      <4>1. lock.table = "user"
        BY <1>2, <3>5 DEF Holds, Conflict, Weak, Exclusive
      <4>2. req[b].kind = "Create"
        BY <1>2, <2>1, <2>3, <4>1 DEF Holds, Weak, Exclusive
      <4>3. Rank(b) = 2  BY <1>5, <3>1, <4>2 DEF Rank
      <4>4. Rank(v) = 3  BY <1>3, <3>5 DEF Rank, Holds
      <4>. QED BY <4>3, <4>4
    <3>. QED BY <1>3, <3>2, <3>3, <3>4, <3>5, BlockedShapes DEF Entrant
  <2>. QED BY <2>2, <2>3
<1>. QED BY <1>4, <1>5

\* One transaction at a time has the user table for itself.
LEMMA OneEntrant ==
  ASSUME NoConflict, NEW v \in Workers, NEW w \in Workers, Entrant(v), Entrant(w)
  PROVE  v = w
BY DEF NoConflict, Entrant, Conflict, Exclusive

\* Without an entrant in it there is no circle: the set of those of lower rank
\* is closed under waiting, and so is what it leaves of a closed set.
LEMMA CirclesNeedEntrants ==
  ASSUME TypeInv, NoConflict, NEW w \in Workers, Deadlocked(w)
  PROVE  \E v \in Workers : Deadlocked(v) /\ Entrant(v)
<1>. SUFFICES ASSUME \A v \in Workers : Entrant(v) => ~Deadlocked(v) PROVE FALSE
  OBVIOUS
<1>0. \A v \in Workers : Blockers(v) \in SUBSET Workers /\ Rank(v) \in 0..4
  BY DEF Blockers, Rank
<1>. DEFINE Lower == {v \in Workers : ~Entrant(v) /\ Rank(v) < Rank(w)}
<1>1. ~Entrant(w)  OBVIOUS
<1>2. \A C \in SUBSET Workers :
        (Blockers(w) \subseteq C /\ \A v \in C : Blockers(v) \subseteq C) => w \in C
  BY DEF Deadlocked
<1>3. \A v \in Lower \cup {w} : \A b \in Blockers(v) : Entrant(b) \/ b \in Lower
  <2>. SUFFICES ASSUME NEW v \in Lower \cup {w}, NEW b \in Blockers(v), ~Entrant(b)
                PROVE  b \in Lower
    OBVIOUS
  <2>1. v \in Workers /\ ~Entrant(v) /\ Rank(v) <= Rank(w)  BY <1>0, <1>1
  <2>2. Rank(b) < Rank(v) /\ b \in Workers  BY <1>0, <2>1, BlockersRankLower
  <2>. QED BY <1>0, <2>1, <2>2
<1>4. w \notin Lower /\ Lower \in SUBSET Workers  BY <1>0
<1>. HIDE DEF Lower
<1>5. CASE \A x \in Workers : ~Entrant(x)
  <2>1. \A v \in Lower \cup {w} : Blockers(v) \subseteq Lower
    BY <1>0, <1>3, <1>4, <1>5
  <2>. QED BY <1>2, <1>4, <2>1
<1>6. ASSUME NEW x \in Workers, Entrant(x) PROVE FALSE
  <2>1. PICK C \in SUBSET Workers :
          Blockers(x) \subseteq C /\ (\A v \in C : Blockers(v) \subseteq C) /\ x \notin C
    BY <1>6 DEF Deadlocked
  <2>2. \A v \in Lower \cup {w} : \A b \in Blockers(v) : b = x \/ b \in Lower
    BY <1>0, <1>3, <1>4, <1>6, OneEntrant
  <2>3. x # w  BY <1>1, <1>6
  <2>4. CASE w \in C
    <3>. DEFINE D == Lower \cap C
    <3>1. \A v \in D \cup {w} : Blockers(v) \subseteq D  BY <2>1, <2>2, <2>4
    <3>2. D \in SUBSET Workers /\ w \notin D  BY <1>4
    <3>. QED BY <1>2, <3>1, <3>2
  <2>5. CASE w \notin C
    <3>. DEFINE D == Lower \cup C \cup {x}
    <3>1. \A v \in D \cup {w} : Blockers(v) \subseteq D  BY <2>1, <2>2
    <3>2. D \in SUBSET Workers /\ w \notin D  BY <1>4, <2>1, <2>3, <2>5
    <3>. QED BY <1>2, <3>1, <3>2
  <2>. QED BY <2>4, <2>5
<1>. QED BY <1>5, <1>6

\* Every circle of requests that wait for each other, of any length, has in it
\* one that enters a lobby and has the user table: the others, whatever their
\* number, never wait for each other in a circle.
THEOREM CirclesThroughEntrants == Spec => []CirclesHaveEntrants
<1>1. StoreInv => CirclesHaveEntrants
  <2>. SUFFICES ASSUME StoreInv, NEW w \in Workers, Deadlocked(w)
                PROVE  \E v \in Workers :
                         /\ Deadlocked(v) /\ Exclusive("user") \in Held(v)
                         /\ req[v].kind \in Entering
    BY DEF CirclesHaveEntrants, Entering
  <2>1. TypeInv /\ NoConflict  BY DEF StoreInv
  <2>2. PICK v \in Workers : Deadlocked(v) /\ Entrant(v)
    BY <2>1, CirclesNeedEntrants
  <2>3. req[v].kind \in Entering
    BY <2>1, <2>2, BlockedShapes DEF Entrant, Holds, Weak, Exclusive
  <2>. QED BY <2>2, <2>3 DEF Entrant
<1>. QED BY <1>1, InitStore, NextStore, PTL DEF Spec

-----------------------------------------------------------------------------
(* Every step of a request is one of LobbyRoster, or changes neither table. *)

\* The single statement about a user is Leave, Remove or nothing.
LEMMA WriteUserRoster ==
  ASSUME StoreInv, NEW w \in Workers, WriteUser(w)
  PROVE  Roster!Next \/ UNCHANGED <<lobby, game_id>>
<1>1. PICK u \in Users : u = req[w].user
  <2>1. req[w] \in Requests /\ req[w].kind \in {"Disconnect", "DeleteUser"}
    BY DEF WriteUser, StoreInv, TypeInv, TypeOK, Position
  <2>. QED BY <2>1, RequestFields
<1>2. game_id \in [Users -> Lobbies \cup {Nowhere, Deleted}] /\ lobby' = lobby
  BY DEF WriteUser, StoreInv, TypeInv, TypeOK
<1>3. game_id' = [game_id EXCEPT ![u] =
        IF @ = Deleted \/ req[w].kind = "DeleteUser" THEN Deleted ELSE Nowhere]
  BY <1>1 DEF WriteUser
<1>4. CASE game_id[u] = Deleted \/ req[w].kind = "DeleteUser"
  <2>1. Roster!Remove(u)  BY <1>2, <1>3, <1>4 DEF Roster!Remove
  <2>. QED BY <2>1 DEF Roster!Next
<1>5. CASE ~(game_id[u] = Deleted \/ req[w].kind = "DeleteUser") /\ game_id[u] \in Lobbies
  <2>1. Roster!Leave(u)  BY <1>2, <1>3, <1>5 DEF Roster!Leave
  <2>. QED BY <2>1 DEF Roster!Next
<1>6. CASE ~(game_id[u] = Deleted \/ req[w].kind = "DeleteUser") /\ game_id[u] = Nowhere
  BY <1>2, <1>3, <1>6
<1>. QED BY <1>2, <1>4, <1>5, <1>6

\* A commit is the step of LobbyRoster that its request stands for, or nothing.
LEMMA CommitRoster ==
  ASSUME StoreInv, NEW w \in Workers, Commit(w)
  PROVE  Roster!Next \/ UNCHANGED <<lobby, game_id>>
<1>1. Due(w) /\ req[w].kind \in Committing /\ req[w] \in Requests
  BY Committed
<1>2. PICK l \in Lobbies : l = pending[w].lobby  BY Committed
<1>3. /\ game_id \in [Users -> Lobbies \cup {Nowhere, Deleted}]
      /\ lobby \in [Lobbies -> LobbyRows \cup {NoRow}]
  BY DEF StoreInv, TypeInv, TypeOK
<1>4. lobby' = [lobby EXCEPT ![l] =
        IF pending[w].row = Unwritten THEN @ ELSE pending[w].row]
  BY <1>2 DEF Commit
<1>5. game_id' = [u \in Users |-> IF u \in pending[w].joined THEN l
                                  ELSE IF u \in pending[w].kicked THEN Nowhere ELSE game_id[u]]
  BY <1>2 DEF Commit
<1>6. pending[w].joined = {} /\ pending[w].kicked = {} => game_id' = game_id
  BY <1>3, <1>5
<1>7. CASE req[w].kind = "Create"
  <2>1. PICK form \in Forms : form = req[w].form  BY <1>1, <1>7, RequestFields
  <2>2. pending[w].row = LobbyRow(form, FALSE) /\ lobby[l] = NoRow /\ game_id' = game_id
    BY <1>1, <1>2, <1>6, <1>7, <2>1 DEF Due, CreateDue, Exists
  <2>3. LobbyRow(form, FALSE) # Unwritten  BY RowTypes, FormsAssumption
  <2>4. Roster!Open(l, form)
    BY <1>4, <2>2, <2>3 DEF Roster!Open, Roster!Exists, Roster!Row, LobbyRow
  <2>. QED BY <2>4 DEF Roster!Next
<1>8. CASE req[w].kind = "Update"
  <2>1. PICK form \in Forms : form = req[w].form  BY <1>1, <1>8, RequestFields
  <2>. DEFINE row == IF form.code THEN LobbyRow(form, lobby[l].started)
                     ELSE [lobby[l] EXCEPT !.max_players = form.max_players]
  <2>2. pending[w].row = row /\ lobby[l] # NoRow /\ game_id' = game_id
    BY <1>1, <1>2, <1>6, <1>8, <2>1 DEF Due, UpdateDue, Exists
  <2>3. lobby[l] \in LobbyRows /\ lobby[l].started \in BOOLEAN
    BY <1>3, <2>2 DEF LobbyRows
  <2>4. row # Unwritten  BY <2>3, RowTypes, FormsAssumption
  <2>5. lobby' = [lobby EXCEPT ![l] = row]  BY <1>4, <2>2, <2>4
  <2>6. Roster!Change(l, form)
    BY <2>2, <2>5 DEF Roster!Change, Roster!Exists, Roster!Row, LobbyRow
  <2>. QED BY <2>6 DEF Roster!Next
<1>9. CASE req[w].kind = "Delete"
  <2>1. /\ lobby[l] # NoRow /\ ~lobby[l].started /\ pending[w].row = NoRow
        /\ pending[w].joined = {} /\ pending[w].kicked = Members(l)
    BY <1>1, <1>2, <1>9 DEF Due, DeleteDue, Exists
  <2>2. lobby' = [lobby EXCEPT ![l] = NoRow]  BY <1>4, <2>1, FormsAssumption
  <2>3. game_id' = [u \in Users |-> IF game_id[u] = l THEN Nowhere ELSE game_id[u]]
    BY <1>5, <2>1 DEF Members
  <2>4. Roster!Close(l)  BY <2>1, <2>2, <2>3 DEF Roster!Close, Roster!Exists
  <2>. QED BY <2>4 DEF Roster!Next
<1>10. ASSUME NEW started \in BOOLEAN, lobby[l] # NoRow, game_id' = game_id,
              pending[w].row = [lobby[l] EXCEPT !.started = started]
       PROVE  Roster!Next
  <2>1. pending[w].row # Unwritten
    <3>1. lobby[l] \in LobbyRows  BY <1>3, <1>10
    <3>2. [lobby[l] EXCEPT !.started = started] \in LobbyRows  BY <3>1 DEF LobbyRows
    <3>. QED BY <1>10, <3>2, FormsAssumption
  <2>2. lobby' = [lobby EXCEPT ![l] = [lobby[l] EXCEPT !.started = started]]
    BY <1>4, <1>10, <2>1
  <2>3. Roster!SetStarted(l, started)
    BY <1>10, <2>2 DEF Roster!SetStarted, Roster!Exists
  <2>. QED BY <2>3 DEF Roster!Next
<1>11. CASE req[w].kind = "Start"
  BY <1>1, <1>2, <1>6, <1>10, <1>11 DEF Due, StartDue, Exists
<1>12. CASE req[w].kind = "Stop"
  <2>1. StopDue(w) /\ game_id' = game_id  BY <1>1, <1>6, <1>12 DEF Due, StopDue
  <2>2. CASE lobby[l] # NoRow  BY <1>2, <1>10, <2>1, <2>2 DEF StopDue, Exists
  <2>3. CASE lobby[l] = NoRow
    <3>1. pending[w].row = Unwritten  BY <1>2, <2>1, <2>3 DEF StopDue, Exists
    <3>. QED BY <1>3, <1>4, <2>1, <3>1
  <2>. QED BY <2>2, <2>3
<1>13. CASE req[w].kind \in {"Connect", "QuickConnect"}
  <2>1. PICK u \in Users : u = req[w].user  BY <1>1, <1>13, RequestFields
  <2>2. JoinDue(w)  BY <1>1, <1>13 DEF Due
  <2>3. game_id' = [game_id EXCEPT ![u] = l]
    BY <1>2, <1>3, <1>5, <2>1, <2>2 DEF JoinDue
  <2>4. Roster!Enter(u, l)
    <3>1. game_id[u] = Nowhere /\ lobby[l] # NoRow /\ ~lobby[l].started
          /\ Cardinality(Members(l)) < lobby[l].max_players
      BY <1>2, <2>1, <2>2 DEF JoinDue, Exists
    <3>2. Roster!Members(l) = Members(l)  BY DEF Members, Roster!Members
    <3>3. Roster!Cardinality(Members(l)) = Cardinality(Members(l))
      BY DEF Roster!Cardinality, Cardinality
    <3>. QED BY <2>3, <3>1, <3>2, <3>3 DEF Roster!Enter, Roster!Exists
  <2>5. CASE req[w].kind = "QuickConnect"
    <3>1. /\ pending[w].row = [lobby[l] EXCEPT !.code_use_times = @ - 1]
          /\ CodeWorks(lobby[l]) /\ lobby[l] # NoRow
      BY <1>2, <2>2, <2>5 DEF JoinDue, Exists
    <3>2. pending[w].row # Unwritten
      <4>1. lobby[l] \in LobbyRows  BY <1>3, <3>1
      <4>2. [lobby[l] EXCEPT !.code_use_times = @ - 1] \in LobbyRows  BY <4>1 DEF LobbyRows
      <4>. QED BY <3>1, <4>2, FormsAssumption
    <3>3. lobby' = [lobby EXCEPT ![l] = [lobby[l] EXCEPT !.code_use_times = @ - 1]]
      BY <1>4, <3>1, <3>2
    <3>4. Roster!JoinByCode(u, l)
      BY <2>4, <3>1, <3>3 DEF Roster!JoinByCode, CodeWorks
    <3>. QED BY <3>4 DEF Roster!Next
  <2>6. CASE req[w].kind # "QuickConnect"
    <3>1. lobby' = lobby  BY <1>3, <1>4, <2>2, <2>6 DEF JoinDue
    <3>2. Roster!Join(u, l)  BY <2>4, <3>1 DEF Roster!Join
    <3>. QED BY <3>2 DEF Roster!Next
  <2>. QED BY <2>5, <2>6
<1>. QED BY <1>1, <1>7, <1>8, <1>9, <1>11, <1>12, <1>13 DEF Committing

\* Every step of LobbyStore is one of LobbyRoster or changes neither table.
LEMMA RosterStep ==
  StoreInv /\ [Next]_vars => [Roster!Next]_<<lobby, game_id>>
<1>. SUFFICES ASSUME StoreInv, [Next]_vars
              PROVE  Roster!Next \/ UNCHANGED <<lobby, game_id>>
  OBVIOUS
<1>1. CASE UNCHANGED vars  BY <1>1 DEF vars
<1>2. CASE Restart  BY <1>2 DEF Restart
<1>3. ASSUME NEW w \in Workers,
             (\E q \in Requests : Receive(w, q)) \/ Step(w) \/ BreakDeadlock(w) \/ Interrupt(w)
      PROVE  Roster!Next \/ UNCHANGED <<lobby, game_id>>
  <2>1. CASE WriteUser(w)  BY <2>1, WriteUserRoster
  <2>2. CASE Commit(w)  BY <2>2, CommitRoster
  <2>3. CASE ~WriteUser(w) /\ ~Commit(w)
    BY <1>3, <2>3
    DEF Step, Receive, Read, TakeLock, CreateLobby, UpdateLobby, DeleteLobby, StartGame,
        StopGame, JoinLobby, Prepare, LogIn, Refuse, BreakDeadlock, Interrupt
  <2>. QED BY <2>1, <2>2, <2>3
<1>. QED BY <1>1, <1>2, <1>3 DEF Next

\* The requests, each of which reads and writes in several steps beside the
\* others, have their effects one at a time, under conditions that hold at
\* that time: LobbyStore implements LobbyRoster.
THEOREM RequestsAreSerial == Spec => RosterSpec
<1>1. Init => Roster!Init
  BY DEF Init, Roster!Init, LobbyRow
<1>. QED BY <1>1, InitStore, NextStore, RosterStep, PTL DEF Spec, RosterSpec, Roster!Spec
=============================================================================
