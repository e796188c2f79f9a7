------------------------------ MODULE Accounts ------------------------------
(***************************************************************************)
(* Accounts: create_user and update_user_password of src/user/user.rs, the *)
(* requests of src/user/user_endpoints.rs that call them or delete a user, *)
(* and authorize of src/auth.rs.                                           *)
(*                                                                         *)
(* The transactions lock no table.  A name that is being inserted is held  *)
(* by the unique index, and a row that is being changed by its row lock,   *)
(* until the transaction ends; whoever wants the same waits.  A hash is    *)
(* the password it was made from, a token the id and role it carries.      *)
(* What a user owns or has entered (fk_owner, game_id) is in LobbyStore.   *)
(***************************************************************************)
EXTENDS FiniteSets, Naturals

CONSTANTS
  Workers,       \* the tasks that serve requests, one at a time each
  Ids, Names, Passwords,
  Empty,         \* the empty password; a name is never empty
  InitialUsers,  \* the rows at the start, by id
  Kinds,         \* the kinds of requests that come
  NoRow, NoRequest, NoAnswer,
  MaxRequests,   \* bound: requests made
  MaxFaults      \* bound: requests cut off

Roles    == {"User", "Admin", "Temp"}
UserRows == [username : Names, password : Passwords, role : Roles]
AllKinds == {"Create", "Register", "Password", "Delete", "Login"}

ASSUME AccountsAssumption ==
  /\ NoRow \notin UserRows /\ InitialUsers \in [Ids -> UserRows \cup {NoRow}]
  /\ \A i, j \in Ids :
       InitialUsers[i] # NoRow /\ InitialUsers[j] # NoRow
         /\ InitialUsers[i].username = InitialUsers[j].username => i = j
  /\ Empty \in Passwords /\ Kinds \subseteq AllKinds
  /\ MaxRequests \in Nat /\ MaxFaults \in Nat

VARIABLES
  users,     \* the committed rows of "user"
  fresh,     \* ids not handed out yet
  req, pc,   \* what each worker serves and where it stands
  row,       \* the row it has read, or is about to commit
  target,    \* the id of that row
  answer,    \* its last answer
  before,    \* history: the tables there were since its request came
  requests, faults

vars == <<users, fresh, req, pc, row, target, answer, before, requests, faults>>

Requests ==
  {q \in [kind : {"Create", "Register"}, username : Names, password : Passwords, role : Roles]
    \cup [kind : {"Password"}, id : Ids, password : Passwords]
    \cup [kind : {"Delete"}, id : Ids]
    \cup [kind : {"Login"}, username : Names, password : Passwords] : q.kind \in Kinds}

Named(table, name) == {i \in Ids : table[i] # NoRow /\ table[i].username = name}

Init ==
  /\ users = InitialUsers
  /\ fresh = {i \in Ids : InitialUsers[i] = NoRow}
  /\ req    = [w \in Workers |-> NoRequest]
  /\ pc     = [w \in Workers |-> "idle"]
  /\ row    = [w \in Workers |-> NoRow]
  /\ target = [w \in Workers |-> NoRow]
  /\ answer = [w \in Workers |-> NoAnswer]
  /\ before = [w \in Workers |-> {}]
  /\ requests = 0 /\ faults = 0

Goto(w, label) == pc' = [pc EXCEPT ![w] = label]

Answer(w, result) ==
  /\ answer' = [answer EXCEPT ![w] = result]
  /\ Goto(w, "idle")
  /\ row' = [row EXCEPT ![w] = NoRow]

Refuse(w, error) == Answer(w, [error |-> error])

\* The table changes for all requests in progress.
SetUsers(table) ==
  /\ users' = table
  /\ before' = [w \in Workers |-> IF pc[w] = "idle" THEN before[w] ELSE before[w] \cup {table}]

\* Transactions that hold a row of the table, or a name.
Holds(w, i)       == pc[w] = "commit" /\ target[w] = i
Inserting(w, name) == pc[w] = "commit" /\ req[w].kind \in {"Create", "Register"}
                        /\ row[w].username = name
-----------------------------------------------------------------------------
\* register_endpoint creates no user of another role than User, authorize
\* looks up nobody without a password.
Receive(w, q) ==
  /\ pc[w] = "idle" /\ requests < MaxRequests
  /\ requests' = requests + 1
  /\ req' = [req EXCEPT ![w] = q]
  /\ before' = [before EXCEPT ![w] = {users}]
  /\ IF q.kind = "Register" /\ q.role # "User"
       THEN Refuse(w, "Unauthorized")
     ELSE IF q.kind = "Login" /\ q.password = Empty
       THEN Refuse(w, "MissingCredentials")
       ELSE /\ Goto(w, CASE q.kind \in {"Create", "Register"} -> "count"
                         [] q.kind = "Password"               -> "update"
                         [] q.kind = "Delete"                 -> "find"
                         [] q.kind = "Login"                  -> "look")
            /\ UNCHANGED <<row, answer>>
  /\ UNCHANGED <<users, fresh, target, faults>>

\* All users are counted.
Mutant_CountNames(w) ==
  /\ pc[w] = "count"
  /\ IF \E i \in Ids : users[i] # NoRow
       THEN Refuse(w, "AlreadyExists")
       ELSE Goto(w, "insert") /\ UNCHANGED <<row, answer>>
  /\ UNCHANGED <<users, fresh, req, target, before, requests, faults>>

\* create_user counts the committed rows of that name.  It refuses an empty
\* password, which update_user_password does not.
CountNames(w) ==
  /\ pc[w] = "count"
  /\ IF Named(users, req[w].username) # {}
       THEN Refuse(w, "AlreadyExists")
     ELSE IF req[w].password = Empty
       THEN Refuse(w, "EmptyData")
       ELSE Goto(w, "insert") /\ UNCHANGED <<row, answer>>
  /\ UNCHANGED <<users, fresh, req, target, before, requests, faults>>

\* The count is relied on, and no index.
Mutant_InsertUser(w) ==
  /\ pc[w] = "insert"
  /\ \E i \in fresh :
       /\ fresh' = fresh \ {i}
       /\ target' = [target EXCEPT ![w] = i]
       /\ row' = [row EXCEPT ![w] = [username |-> req[w].username,
                                     password |-> req[w].password, role |-> req[w].role]]
       /\ Goto(w, "commit") /\ UNCHANGED answer
  /\ UNCHANGED <<users, req, before, requests, faults>>

\* The insert waits for another one of that name, and fails with NotCreated
\* if that one is committed.
InsertUser(w) ==
  LET name == req[w].username IN
  /\ pc[w] = "insert" /\ \A v \in Workers : ~Inserting(v, name)
  /\ IF Named(users, name) # {}
       THEN Refuse(w, "NotCreated") /\ UNCHANGED <<fresh, target>>
       ELSE \E i \in fresh :
              /\ fresh' = fresh \ {i}
              /\ target' = [target EXCEPT ![w] = i]
              /\ row' = [row EXCEPT ![w] = [username |-> name, password |-> req[w].password,
                                            role |-> req[w].role]]
              /\ Goto(w, "commit") /\ UNCHANGED answer
  /\ UNCHANGED <<users, req, before, requests, faults>>

\* update_user_password, which fails if there is no row to return.
UpdatePassword(w) ==
  LET i == req[w].id IN
  /\ pc[w] = "update" /\ \A v \in Workers : ~Holds(v, i)
  /\ IF users[i] = NoRow
       THEN Refuse(w, "DbErr") /\ UNCHANGED target
       ELSE /\ target' = [target EXCEPT ![w] = i]
            /\ row' = [row EXCEPT ![w] = [users[i] EXCEPT !.password = req[w].password]]
            /\ Goto(w, "commit") /\ UNCHANGED answer
  /\ UNCHANGED <<users, fresh, req, before, requests, faults>>

Commit(w) ==
  /\ pc[w] = "commit"
  /\ SetUsers([users EXCEPT ![target[w]] = row[w]])
  /\ Answer(w, row[w])
  /\ UNCHANGED <<fresh, req, target, requests, faults>>

\* delete_user_endpoint reads the row before it deletes it.
FindUser(w) ==
  /\ pc[w] = "find"
  /\ IF users[req[w].id] = NoRow
       THEN Refuse(w, "NotFound")
       ELSE Goto(w, "delete") /\ UNCHANGED <<row, answer>>
  /\ UNCHANGED <<users, fresh, req, target, before, requests, faults>>

\* A row that is gone by now is not missed.
DeleteUser(w) ==
  /\ pc[w] = "delete" /\ \A v \in Workers : ~Holds(v, req[w].id)
  /\ SetUsers([users EXCEPT ![req[w].id] = NoRow])
  /\ Answer(w, [deleted |-> req[w].id])
  /\ UNCHANGED <<fresh, req, target, requests, faults>>

\* authorize: the row of that name is read, and its hash verified later.
LookUp(w) ==
  /\ pc[w] = "look"
  /\ IF Named(users, req[w].username) = {}
       THEN Refuse(w, "WrongCredentials") /\ UNCHANGED target
       ELSE \E i \in Named(users, req[w].username) :
              /\ target' = [target EXCEPT ![w] = i]
              /\ row' = [row EXCEPT ![w] = users[i]]
              /\ Goto(w, "verify") /\ UNCHANGED answer
  /\ UNCHANGED <<users, fresh, req, before, requests, faults>>

\* The account must be there, whatever its password.
Mutant_Verified(password, r) == r.username \in Names

Verified(password, r) == r.password = password

Verify(w) ==
  /\ pc[w] = "verify"
  /\ IF Verified(req[w].password, row[w])
       THEN Answer(w, [user_id |-> target[w], role |-> row[w].role])
       ELSE Refuse(w, "WrongCredentials")
  /\ UNCHANGED <<users, fresh, req, target, before, requests, faults>>

\* The client hangs up or the database fails; the transaction is rolled back.
Interrupt(w) ==
  /\ pc[w] # "idle" /\ faults < MaxFaults
  /\ faults' = faults + 1
  /\ Refuse(w, "Interrupted")
  /\ UNCHANGED <<users, fresh, req, target, before, requests>>

Serve(w) ==
  \/ CountNames(w) \/ InsertUser(w) \/ UpdatePassword(w) \/ Commit(w)
  \/ FindUser(w) \/ DeleteUser(w) \/ LookUp(w) \/ Verify(w)

Next == \E w \in Workers :
  (\E q \in Requests : Receive(w, q)) \/ Serve(w) \/ Interrupt(w)

Spec == Init /\ [][Next]_vars
-----------------------------------------------------------------------------
\* No two accounts have the same name, although the count of create_user is
\* read before the row is inserted: two creations that both count none are told
\* apart by the unique index.
UniqueNames ==
  \A i, j \in Ids :
    users[i] # NoRow /\ users[j] # NoRow /\ users[i].username = users[j].username => i = j

Refused(w, errors) ==
  answer[w] # NoAnswer /\ "error" \in DOMAIN answer[w] /\ answer[w].error \in errors

\* Nobody is refused a name that was free all along: while the request was
\* served, there was an account of that name.
RefusedIfTaken ==
  \A w \in Workers :
    pc[w] = "idle" /\ Refused(w, {"AlreadyExists", "NotCreated"}) =>
      \E table \in before[w] : Named(table, req[w].username) # {}

\* A token is for an account that had that name, password and role at one
\* moment of the request, although the row is read before the hash is verified
\* and the password may be changed, or the account deleted, in between.
TokensMatch ==
  \A w \in Workers :
    answer[w] # NoAnswer /\ "user_id" \in DOMAIN answer[w] /\ pc[w] = "idle" =>
      [username |-> req[w].username, password |-> req[w].password, role |-> answer[w].role]
        \in {table[answer[w].user_id] : table \in before[w]}
=============================================================================
