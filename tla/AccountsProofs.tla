--------------------------- MODULE AccountsProofs ---------------------------
(***************************************************************************)
(* What is proved about Accounts for any number of workers, ids and names: *)
(* that names stay unique, that a refused name was taken, and that a token *)
(* is for an account that was there.                                       *)
(***************************************************************************)
EXTENDS Accounts, TLAPS

Tables  == [Ids -> UserRows \cup {NoRow}]
Labels  == {"idle", "count", "insert", "update", "find", "delete", "look", "verify", "commit"}
Errors  == {"Unauthorized", "MissingCredentials", "EmptyData", "AlreadyExists", "NotCreated",
            "DbErr", "NotFound", "WrongCredentials", "Interrupted"}
Answers == [error : Errors] \cup UserRows \cup [deleted : Ids] \cup [user_id : Ids, role : Roles]

Types ==
  /\ users \in Tables /\ fresh \subseteq Ids
  /\ pc \in [Workers -> Labels]
  /\ req \in [Workers -> Requests \cup {NoRequest}]
  /\ row \in [Workers -> UserRows \cup {NoRow}]
  /\ target \in [Workers -> Ids \cup {NoRow}]
  /\ answer \in [Workers -> Answers \cup {NoAnswer}]
  /\ before \in [Workers -> SUBSET Tables]

(***************************************************************************)
(* What a worker relies on at each await.  The table it sees is one of     *)
(* those in its history; a row it has looked up was in one of them; a row  *)
(* it is about to commit is new, its id and name not in use, or replaces   *)
(* one of the same name.                                                   *)
(***************************************************************************)
Adding(w) == pc[w] = "commit" /\ req[w].kind \in {"Create", "Register"}

Working(w) ==
  /\ pc[w] # "idle" => req[w] \in Requests /\ users \in before[w]
  /\ pc[w] \in {"count", "insert"} => req[w].kind \in {"Create", "Register"}
  /\ pc[w] = "update" => req[w].kind = "Password"
  /\ pc[w] \in {"find", "delete"} => req[w].kind = "Delete"
  /\ pc[w] \in {"look", "verify"} => req[w].kind = "Login"
  /\ pc[w] = "verify" =>
       /\ row[w] \in UserRows /\ target[w] \in Ids
       /\ row[w].username = req[w].username
       /\ \E table \in before[w] : table[target[w]] = row[w]
  /\ pc[w] = "commit" => row[w] \in UserRows /\ target[w] \in Ids
  /\ Adding(w) =>
       /\ users[target[w]] = NoRow /\ target[w] \notin fresh
       /\ Named(users, row[w].username) = {}
  /\ pc[w] = "commit" /\ ~Adding(w) =>
       users[target[w]] # NoRow /\ users[target[w]].username = row[w].username

Apart(v, w) ==
  /\ pc[v] = "commit" /\ pc[w] = "commit" => target[v] # target[w]
  /\ Adding(v) /\ Adding(w) => row[v].username # row[w].username

AccountsInv ==
  /\ Types
  /\ \A i \in fresh : users[i] = NoRow
  /\ \A w \in Workers : Working(w)
  /\ \A v, w \in Workers : v # w => Apart(v, w)
  /\ UniqueNames /\ RefusedIfTaken /\ TokensMatch

RefusalFounded(w) ==
  pc[w] = "idle" /\ Refused(w, {"AlreadyExists", "NotCreated"}) =>
    \E table \in before[w] : Named(table, req[w].username) # {}

TokenFounded(w) ==
  answer[w] # NoAnswer /\ "user_id" \in DOMAIN answer[w] /\ pc[w] = "idle" =>
    [username |-> req[w].username, password |-> req[w].password, role |-> answer[w].role]
      \in {table[answer[w].user_id] : table \in before[w]}

LEMMA Founded ==
  /\ RefusedIfTaken <=> \A w \in Workers : RefusalFounded(w)
  /\ TokensMatch <=> \A w \in Workers : TokenFounded(w)
BY DEF RefusedIfTaken, TokensMatch, RefusalFounded, TokenFounded

LEMMA RequestFields ==
  ASSUME NEW q \in Requests
  PROVE  /\ q.kind \in {"Create", "Register", "Password", "Delete", "Login"}
         /\ q.kind \in {"Create", "Register"} =>
              q.username \in Names /\ q.password \in Passwords /\ q.role \in Roles
         /\ q.kind = "Password" => q.id \in Ids /\ q.password \in Passwords
         /\ q.kind = "Delete" => q.id \in Ids
         /\ q.kind = "Login" => q.username \in Names /\ q.password \in Passwords
BY DEF Requests

\* A row is a record of its three fields, and none of them is "error" or
\* "user_id".
LEMMA RowFields ==
  ASSUME NEW r \in UserRows
  PROVE  /\ r = [username |-> r.username, password |-> r.password, role |-> r.role]
         /\ r.username \in Names /\ r.password \in Passwords /\ r.role \in Roles
         /\ "error" \notin DOMAIN r /\ "user_id" \notin DOMAIN r
         /\ r # NoRow
BY AccountsAssumption DEF UserRows

LEMMA TypeFacts ==
  ASSUME AccountsInv
  PROVE  /\ users \in Tables /\ fresh \subseteq Ids /\ pc \in [Workers -> Labels]
         /\ req \in [Workers -> Requests \cup {NoRequest}]
         /\ row \in [Workers -> UserRows \cup {NoRow}]
         /\ target \in [Workers -> Ids \cup {NoRow}]
         /\ answer \in [Workers -> Answers \cup {NoAnswer}]
         /\ before \in [Workers -> SUBSET Tables]
         /\ \A i \in fresh : users[i] = NoRow
         /\ \A w \in Workers : Working(w) /\ RefusalFounded(w) /\ TokenFounded(w)
         /\ \A v, w \in Workers : v # w => Apart(v, w)
         /\ UniqueNames
BY Founded DEF AccountsInv, Types

Same(v) ==
  /\ pc'[v] = pc[v] /\ req'[v] = req[v] /\ row'[v] = row[v]
  /\ target'[v] = target[v] /\ before'[v] = before[v] /\ answer'[v] = answer[v]

\* A step of one worker that leaves the table as it is.
LEMMA QuietStep ==
  ASSUME AccountsInv, NEW w \in Workers, Types', users' = users, fresh' \subseteq fresh,
         \A v \in Workers \ {w} : Same(v),
         Working(w)', RefusalFounded(w)', TokenFounded(w)',
         \A v \in Workers \ {w} : Apart(v, w)' /\ Apart(w, v)'
  PROVE  AccountsInv'
<1>1. ASSUME NEW v \in Workers \ {w} PROVE Working(v)'
  <2>1. Same(v) /\ Working(v)  BY TypeFacts
  <2>2. Adding(v)' <=> Adding(v)  BY <2>1 DEF Same, Adding
  <2>. QED BY <2>1, <2>2 DEF Same, Working
<1>. USE TypeFacts
<1>2. ASSUME NEW v \in Workers \ {w} PROVE RefusalFounded(v)' /\ TokenFounded(v)'
  <2>1. RefusalFounded(v) /\ TokenFounded(v)  OBVIOUS
  <2>2. /\ pc'[v] = pc[v] /\ req'[v] = req[v] /\ before'[v] = before[v]
        /\ answer'[v] = answer[v]
    BY DEF Same
  <2>3. RefusalFounded(v)'  BY <2>1, <2>2 DEF RefusalFounded, Refused
  <2>4. TokenFounded(v)'  BY <2>1, <2>2 DEF TokenFounded
  <2>. QED BY <2>3, <2>4
<1>3. \A u, v \in Workers : u # v => Apart(u, v)'
  <2>. SUFFICES ASSUME NEW u \in Workers, NEW v \in Workers, u # v PROVE Apart(u, v)'
    OBVIOUS
  <2>1. CASE u = w \/ v = w  BY <2>1
  <2>2. CASE u # w /\ v # w  BY <2>2 DEF Same, Apart, Adding
  <2>. QED BY <2>1, <2>2
<1>4. \A i \in fresh' : users'[i] = NoRow  OBVIOUS
<1>5. UniqueNames'  BY DEF UniqueNames
<1>6. RefusedIfTaken' /\ TokensMatch'
  <2>1. \A v \in Workers : RefusalFounded(v)' /\ TokenFounded(v)'  BY <1>2
  <2>. QED BY <2>1 DEF RefusedIfTaken, TokensMatch, RefusalFounded, TokenFounded
<1>7. \A v \in Workers : Working(v)'  BY <1>1
<1>. QED BY <1>3, <1>4, <1>5, <1>6, <1>7 DEF AccountsInv

\* A request that is refused: the refusal of a name needs a holder of it.
LEMMA RefuseStep ==
  ASSUME AccountsInv, NEW w \in Workers, NEW error \in Errors, Refuse(w, error),
         UNCHANGED <<users, fresh, req, target, before>>,
         error \in {"AlreadyExists", "NotCreated"} =>
           \E table \in before[w] : Named(table, req[w].username) # {}
  PROVE  AccountsInv'
<1>. USE TypeFacts
<1>1. /\ answer' = [answer EXCEPT ![w] = [error |-> error]]
      /\ pc' = [pc EXCEPT ![w] = "idle"] /\ row' = [row EXCEPT ![w] = NoRow]
  BY DEF Refuse, Answer, Goto
<1>2. [error |-> error] \in Answers  BY DEF Answers, Errors
<1>3. Types'  BY <1>1, <1>2 DEF Types, Labels
<1>4. \A v \in Workers \ {w} : Same(v)  BY <1>1 DEF Same
<1>5. pc'[w] = "idle" /\ answer'[w] = [error |-> error]  BY <1>1
<1>6. Working(w)' /\ \A v \in Workers \ {w} : Apart(v, w)' /\ Apart(w, v)'
  BY <1>5 DEF Working, Apart, Adding
<1>7. RefusalFounded(w)'  BY <1>5 DEF RefusalFounded, Refused
<1>8. TokenFounded(w)'  BY <1>5 DEF TokenFounded
<1>. QED BY <1>3, <1>4, <1>6, <1>7, <1>8, QuietStep

\* A worker that goes on to another await with its request; what it relies on
\* there is given.
LEMMA MoveStep ==
  ASSUME AccountsInv, NEW w \in Workers, NEW label \in Labels \ {"idle"}, Goto(w, label),
         UNCHANGED <<users, answer>>, fresh' \subseteq fresh, Types',
         \A v \in Workers \ {w} : req'[v] = req[v] /\ row'[v] = row[v]
                                  /\ target'[v] = target[v] /\ before'[v] = before[v],
         Working(w)', label = "commit" => \A v \in Workers \ {w} : Apart(v, w)' /\ Apart(w, v)'
  PROVE  AccountsInv'
<1>. USE TypeFacts
<1>1. pc' = [pc EXCEPT ![w] = label]  BY DEF Goto
<1>2. \A v \in Workers \ {w} : Same(v)  BY <1>1 DEF Same
<1>3. pc'[w] = label  BY <1>1
<1>4. RefusalFounded(w)' /\ TokenFounded(w)'
  BY <1>3 DEF RefusalFounded, TokenFounded
<1>5. \A v \in Workers \ {w} : Apart(v, w)' /\ Apart(w, v)'
  <2>1. CASE label = "commit"  BY <2>1
  <2>2. CASE label # "commit"  BY <1>3, <2>2 DEF Apart, Adding
  <2>. QED BY <2>1, <2>2
<1>. QED BY <1>2, <1>4, <1>5, QuietStep

\* A write: the rows that others are about to commit, and the names they are
\* about to add, are left alone.
LEMMA WriteStep ==
  ASSUME AccountsInv, NEW w \in Workers, NEW table \in Tables, SetUsers(table),
         NEW result \in Answers, Answer(w, result),
         "error" \notin DOMAIN result, "user_id" \notin DOMAIN result,
         UNCHANGED <<fresh, req, target>>,
         \A i \in fresh : table[i] = NoRow,
         \A v \in Workers \ {w} :
           /\ pc[v] = "commit" => table[target[v]] = users[target[v]]
           /\ Adding(v) => Named(table, row[v].username) = {},
         \A i, j \in Ids : table[i] # NoRow /\ table[j] # NoRow
                             /\ table[i].username = table[j].username => i = j
  PROVE  AccountsInv'
<1>. USE TypeFacts
<1>1. /\ answer' = [answer EXCEPT ![w] = result] /\ pc' = [pc EXCEPT ![w] = "idle"]
      /\ row' = [row EXCEPT ![w] = NoRow] /\ users' = table
      /\ before' = [v \in Workers |->
                     IF pc[v] = "idle" THEN before[v] ELSE before[v] \cup {table}]
  BY DEF Answer, Goto, SetUsers
<1>2. Types'
  <2>1. before' \in [Workers -> SUBSET Tables]  BY <1>1
  <2>. QED BY <1>1, <2>1 DEF Types, Labels
<1>3. pc'[w] = "idle" /\ answer'[w] = result  BY <1>1
<1>4. ASSUME NEW v \in Workers \ {w}
      PROVE  /\ pc'[v] = pc[v] /\ row'[v] = row[v] /\ answer'[v] = answer[v]
             /\ req'[v] = req[v] /\ target'[v] = target[v]
             /\ pc[v] = "idle" => before'[v] = before[v]
             /\ pc[v] # "idle" => table \in before'[v] /\ before[v] \subseteq before'[v]
  BY <1>1
<1>5. ASSUME NEW v \in Workers PROVE Working(v)'
  <2>1. CASE v = w  BY <1>3, <2>1 DEF Working, Adding
  <2>2. CASE v # w
    <3>1. Working(v)  OBVIOUS
    <3>2. Adding(v)' <=> Adding(v)  BY <1>4, <2>2 DEF Adding
    <3>3. pc[v] = "verify" => \E t \in before'[v] : t[target'[v]] = row'[v]
      BY <1>4, <2>2, <3>1 DEF Working
    <3>4. Adding(v) => /\ users'[target'[v]] = NoRow /\ target'[v] \notin fresh'
                       /\ Named(users', row'[v].username) = {}
      BY <1>1, <1>4, <2>2, <3>1 DEF Working, Adding
    <3>5. pc[v] = "commit" => users'[target'[v]] = users[target[v]]
      BY <1>1, <1>4, <2>2
    <3>. QED BY <1>1, <1>4, <2>2, <3>1, <3>2, <3>3, <3>4, <3>5 DEF Working
  <2>. QED BY <2>1, <2>2
<1>6. \A u, v \in Workers : u # v => Apart(u, v)'
  BY <1>3, <1>4 DEF Apart, Adding
<1>7. RefusedIfTaken'
  <2>. SUFFICES ASSUME NEW v \in Workers, pc'[v] = "idle",
                       Refused(v, {"AlreadyExists", "NotCreated"})'
                PROVE  \E t \in before'[v] : Named(t, req'[v].username) # {}
    BY DEF RefusedIfTaken
  <2>1. v # w  BY <1>3 DEF Refused
  <2>2. Refused(v, {"AlreadyExists", "NotCreated"})  BY <1>4, <2>1 DEF Refused
  <2>. QED BY <1>4, <2>1, <2>2 DEF RefusalFounded
<1>8. TokensMatch'
  <2>. SUFFICES ASSUME NEW v \in Workers, pc'[v] = "idle",
                       answer'[v] # NoAnswer, "user_id" \in DOMAIN answer'[v]
                PROVE  [username |-> req'[v].username, password |-> req'[v].password,
                        role |-> answer'[v].role]
                          \in {t[answer'[v].user_id] : t \in before'[v]}
    BY DEF TokensMatch
  <2>1. v # w  BY <1>3
  <2>. QED BY <1>4, <2>1 DEF TokenFounded
<1>9. UniqueNames'  BY <1>1 DEF UniqueNames
<1>10. \A i \in fresh' : users'[i] = NoRow  BY <1>1
<1>. QED BY <1>2, <1>5, <1>6, <1>7, <1>8, <1>9, <1>10 DEF AccountsInv

LEMMA NextAccountsInv == AccountsInv /\ [Next]_vars => AccountsInv'
<1>. SUFFICES ASSUME AccountsInv, [Next]_vars PROVE AccountsInv'
  OBVIOUS
<1>. USE TypeFacts
<1>1. ASSUME NEW w \in Workers, NEW q \in Requests, Receive(w, q) PROVE AccountsInv'
  <2>1. /\ pc[w] = "idle" /\ req' = [req EXCEPT ![w] = q]
        /\ before' = [before EXCEPT ![w] = {users}]
        /\ UNCHANGED <<users, fresh, target>>
    BY <1>1 DEF Receive
  <2>2. before' \in [Workers -> SUBSET Tables] /\ req' \in [Workers -> Requests \cup {NoRequest}]
    BY <2>1
  <2>3. q.kind \in {"Create", "Register", "Password", "Delete", "Login"}  BY RequestFields
  <2>4. ASSUME NEW error \in {"Unauthorized", "MissingCredentials"}, Refuse(w, error)
        PROVE  AccountsInv'
    <3>1. /\ answer' = [answer EXCEPT ![w] = [error |-> error]]
          /\ pc' = [pc EXCEPT ![w] = "idle"] /\ row' = [row EXCEPT ![w] = NoRow]
      BY <2>4 DEF Refuse, Answer, Goto
    <3>2. Types'
      <4>1. [error |-> error] \in Answers  BY DEF Answers, Errors
      <4>. QED BY <2>1, <2>2, <3>1, <4>1 DEF Types, Labels
    <3>3. \A v \in Workers \ {w} : Same(v)  BY <2>1, <3>1 DEF Same
    <3>4. pc'[w] = "idle" /\ answer'[w] = [error |-> error]  BY <3>1
    <3>5. Working(w)' /\ \A v \in Workers \ {w} : Apart(v, w)' /\ Apart(w, v)'
      BY <3>4 DEF Working, Apart, Adding
    <3>6. RefusalFounded(w)' /\ TokenFounded(w)'
      BY <3>4 DEF RefusalFounded, TokenFounded, Refused
    <3>. QED BY <2>1, <3>2, <3>3, <3>5, <3>6, QuietStep
  <2>5. ASSUME NEW label \in {"count", "update", "find", "look"}, Goto(w, label),
               row' = row, answer' = answer,
               label = "count" => q.kind \in {"Create", "Register"},
               label = "update" => q.kind = "Password",
               label = "find" => q.kind = "Delete",
               label = "look" => q.kind = "Login"
        PROVE  AccountsInv'
    <3>1. pc' = [pc EXCEPT ![w] = label]  BY <2>5 DEF Goto
    <3>2. Types'  BY <2>1, <2>2, <2>5, <3>1 DEF Types, Labels
    <3>3. Working(w)'
      BY <2>1, <2>5, <3>1 DEF Working, Adding
    <3>. QED BY <2>1, <2>5, <3>2, <3>3, MoveStep DEF Labels
  <2>6. CASE q.kind = "Register" /\ q.role # "User"
    BY <1>1, <2>4, <2>6 DEF Receive
  <2>7. CASE q.kind = "Login" /\ q.password = Empty
    BY <1>1, <2>4, <2>7 DEF Receive
  <2>8. CASE /\ ~(q.kind = "Register" /\ q.role # "User")
             /\ ~(q.kind = "Login" /\ q.password = Empty)
    <3>1. /\ Goto(w, CASE q.kind \in {"Create", "Register"} -> "count"
                       [] q.kind = "Password"               -> "update"
                       [] q.kind = "Delete"                 -> "find"
                       [] q.kind = "Login"                  -> "look")
          /\ row' = row /\ answer' = answer
      BY <1>1, <2>8 DEF Receive
    <3>2. CASE q.kind \in {"Create", "Register"}
      <4>1. Goto(w, "count")  BY <3>1, <3>2
      <4>. QED BY <2>5, <3>1, <3>2, <4>1
    <3>3. CASE q.kind = "Password"
      <4>1. Goto(w, "update")  BY <3>1, <3>3
      <4>. QED BY <2>5, <3>1, <3>3, <4>1
    <3>4. CASE q.kind = "Delete"
      <4>1. Goto(w, "find")  BY <3>1, <3>4
      <4>. QED BY <2>5, <3>1, <3>4, <4>1
    <3>5. CASE q.kind = "Login"
      <4>1. Goto(w, "look")  BY <3>1, <3>5
      <4>. QED BY <2>5, <3>1, <3>5, <4>1
    <3>. QED BY <2>3, <3>2, <3>3, <3>4, <3>5
  <2>. QED BY <2>6, <2>7, <2>8
<1>2. ASSUME NEW w \in Workers, CountNames(w) PROVE AccountsInv'
  <2>1. /\ pc[w] = "count" /\ UNCHANGED <<users, fresh, req, target, before>>
    BY <1>2 DEF CountNames
  <2>2. users \in before[w] /\ Working(w)  BY <2>1 DEF Working
  <2>3. CASE Named(users, req[w].username) # {}
    <3>1. Refuse(w, "AlreadyExists")  BY <1>2, <2>3 DEF CountNames
    <3>. QED BY <2>1, <2>2, <2>3, <3>1, RefuseStep DEF Errors
  <2>4. CASE Named(users, req[w].username) = {} /\ req[w].password = Empty
    <3>1. Refuse(w, "EmptyData")  BY <1>2, <2>4 DEF CountNames
    <3>. QED BY <2>1, <3>1, RefuseStep DEF Errors
  <2>5. CASE Named(users, req[w].username) = {} /\ req[w].password # Empty
    <3>1. Goto(w, "insert") /\ row' = row /\ answer' = answer
      BY <1>2, <2>5 DEF CountNames
    <3>2. Types'  BY <2>1, <3>1 DEF Types, Labels, Goto
    <3>3. Working(w)'  BY <2>1, <2>2, <3>1 DEF Working, Adding, Goto
    <3>. QED BY <2>1, <3>1, <3>2, <3>3, MoveStep DEF Labels
  <2>. QED BY <2>3, <2>4, <2>5
<1>3. ASSUME NEW w \in Workers, InsertUser(w) PROVE AccountsInv'
  <2>. DEFINE name == req[w].username
  <2>1. /\ pc[w] = "insert" /\ UNCHANGED <<users, req, before>>
        /\ \A v \in Workers : ~Inserting(v, name)
    BY <1>3 DEF InsertUser
  <2>2. /\ users \in before[w] /\ req[w] \in Requests
        /\ req[w].kind \in {"Create", "Register"}
    BY <2>1 DEF Working
  <2>3. CASE Named(users, name) # {}
    <3>1. Refuse(w, "NotCreated") /\ UNCHANGED <<fresh, target>>
      BY <1>3, <2>3 DEF InsertUser
    <3>. QED BY <2>1, <2>2, <2>3, <3>1, RefuseStep DEF Errors
  <2>4. CASE Named(users, name) = {}
    <3>. DEFINE new == [username |-> name, password |-> req[w].password, role |-> req[w].role]
    <3>1. PICK i \in fresh :
            /\ fresh' = fresh \ {i} /\ target' = [target EXCEPT ![w] = i]
            /\ row' = [row EXCEPT ![w] = new]
            /\ Goto(w, "commit") /\ answer' = answer
      BY <1>3, <2>4 DEF InsertUser
    <3>2. new \in UserRows /\ new.username = name
      BY <2>2, RequestFields DEF UserRows
    <3>3. i \in Ids /\ users[i] = NoRow  OBVIOUS
    <3>. HIDE DEF new
    <3>4. Types'
      BY <2>1, <3>1, <3>2, <3>3 DEF Types, Labels, Goto
    <3>5. pc'[w] = "commit" /\ target'[w] = i /\ row'[w] = new /\ req'[w] = req[w]
      BY <2>1, <3>1 DEF Goto
    <3>6. Working(w)'
      BY <2>1, <2>2, <2>4, <3>1, <3>2, <3>3, <3>5 DEF Working, Adding
    <3>7. ASSUME NEW v \in Workers \ {w} PROVE Apart(v, w)' /\ Apart(w, v)'
      <4>1. pc'[v] = pc[v] /\ target'[v] = target[v] /\ row'[v] = row[v] /\ req'[v] = req[v]
        BY <2>1, <3>1 DEF Goto
      <4>2. pc[v] = "commit" => target[v] # i
        BY <3>3 DEF Working
      <4>3. Adding(v) => row[v].username # name  BY <2>1 DEF Inserting, Adding
      <4>. QED BY <3>2, <3>5, <4>1, <4>2, <4>3 DEF Apart, Adding
    <3>. QED BY <2>1, <3>1, <3>4, <3>6, <3>7, MoveStep DEF Labels
  <2>. QED BY <2>3, <2>4
<1>4. ASSUME NEW w \in Workers, UpdatePassword(w) PROVE AccountsInv'
  <2>. DEFINE i == req[w].id
  <2>1. /\ pc[w] = "update" /\ UNCHANGED <<users, fresh, req, before>>
        /\ \A v \in Workers : ~Holds(v, i)
    BY <1>4 DEF UpdatePassword
  <2>2. /\ users \in before[w] /\ req[w] \in Requests /\ req[w].kind = "Password"
    BY <2>1 DEF Working
  <2>3. CASE users[i] = NoRow
    <3>1. Refuse(w, "DbErr") /\ target' = target  BY <1>4, <2>3 DEF UpdatePassword
    <3>. QED BY <2>1, <3>1, RefuseStep DEF Errors
  <2>4. CASE users[i] # NoRow
    <3>. DEFINE new == [users[i] EXCEPT !.password = req[w].password]
    <3>1. /\ target' = [target EXCEPT ![w] = i] /\ row' = [row EXCEPT ![w] = new]
          /\ Goto(w, "commit") /\ answer' = answer
      BY <1>4, <2>4 DEF UpdatePassword
    <3>2. i \in Ids /\ users[i] \in UserRows /\ req[w].password \in Passwords
      BY <2>2, <2>4, RequestFields DEF Tables
    <3>3. new \in UserRows /\ new.username = users[i].username
      BY <3>2 DEF UserRows
    <3>. HIDE DEF new
    <3>4. Types'
      BY <2>1, <3>1, <3>2, <3>3 DEF Types, Labels, Goto
    <3>5. pc'[w] = "commit" /\ target'[w] = i /\ row'[w] = new /\ req'[w] = req[w]
      BY <2>1, <3>1 DEF Goto
    <3>6. Working(w)'
      BY <2>1, <2>2, <2>4, <3>1, <3>2, <3>3, <3>5 DEF Working, Adding
    <3>7. ASSUME NEW v \in Workers \ {w} PROVE Apart(v, w)' /\ Apart(w, v)'
      <4>1. pc'[v] = pc[v] /\ target'[v] = target[v]
        BY <2>1, <3>1 DEF Goto
      <4>2. pc[v] = "commit" => target[v] # i  BY <2>1 DEF Holds
      <4>3. ~Adding(w)'  BY <2>2, <3>5 DEF Adding
      <4>. QED BY <3>5, <4>1, <4>2, <4>3 DEF Apart
    <3>. QED BY <2>1, <3>1, <3>4, <3>6, <3>7, MoveStep DEF Labels
  <2>. QED BY <2>3, <2>4
<1>5. ASSUME NEW w \in Workers, Commit(w) PROVE AccountsInv'
  <2>. DEFINE i     == target[w]
              new   == row[w]
              table == [users EXCEPT ![i] = new]
  <2>1. /\ pc[w] = "commit" /\ SetUsers(table) /\ Answer(w, new)
        /\ UNCHANGED <<fresh, req, target>>
    BY <1>5 DEF Commit
  <2>2. new \in UserRows /\ i \in Ids /\ new # NoRow
    BY <2>1, RowFields DEF Working
  <2>3. table \in Tables /\ new \in Answers  BY <2>2 DEF Tables, Answers
  <2>4. "error" \notin DOMAIN new /\ "user_id" \notin DOMAIN new
    BY <2>2, RowFields
  <2>5. table[i] = new /\ \A j \in Ids \ {i} : table[j] = users[j]
    BY <2>2 DEF Tables
  <2>6. /\ Adding(w) => /\ users[i] = NoRow /\ i \notin fresh
                        /\ Named(users, new.username) = {}
        /\ ~Adding(w) => users[i] # NoRow /\ users[i].username = new.username
    BY <2>1 DEF Working
  <2>. HIDE DEF i, new, table
  <2>7. \A j \in fresh : table[j] = NoRow
    <3>1. i \notin fresh  BY <2>6
    <3>. QED BY <2>5, <3>1
  <2>8. ASSUME NEW v \in Workers \ {w}
        PROVE  /\ pc[v] = "commit" => table[target[v]] = users[target[v]]
               /\ Adding(v) => Named(table, row[v].username) = {}
    <3>1. Working(v) /\ Apart(v, w)  OBVIOUS
    <3>2. pc[v] = "commit" => target[v] \in Ids /\ target[v] # i
      BY <2>1, <3>1 DEF Working, Apart, i
    <3>3. ASSUME Adding(v) PROVE Named(table, row[v].username) = {}
      <4>1. Named(users, row[v].username) = {}  BY <3>1, <3>3 DEF Working
      <4>2. new.username # row[v].username
        <5>1. CASE Adding(w)  BY <3>1, <3>3, <5>1 DEF Apart, new
        <5>2. CASE ~Adding(w)  BY <2>2, <2>6, <4>1, <5>2 DEF Named
        <5>. QED BY <5>1, <5>2
      <4>. QED BY <2>5, <4>1, <4>2 DEF Named
    <3>. QED BY <2>5, <3>2, <3>3
  <2>9. \A j, k \in Ids : table[j] # NoRow /\ table[k] # NoRow
                            /\ table[j].username = table[k].username => j = k
    <3>1. \A j \in Ids \ {i} : users[j] # NoRow => users[j].username # new.username
      <4>1. CASE Adding(w)  BY <2>6, <4>1 DEF Named
      <4>2. CASE ~Adding(w)  BY <2>2, <2>6, <4>2 DEF UniqueNames
      <4>. QED BY <4>1, <4>2
    <3>. QED BY <2>5, <3>1 DEF UniqueNames
  <2>. QED BY <2>1, <2>3, <2>4, <2>7, <2>8, <2>9, WriteStep
<1>6. ASSUME NEW w \in Workers, FindUser(w) PROVE AccountsInv'
  <2>1. /\ pc[w] = "find" /\ UNCHANGED <<users, fresh, req, target, before>>
    BY <1>6 DEF FindUser
  <2>2. CASE users[req[w].id] = NoRow
    <3>1. Refuse(w, "NotFound")  BY <1>6, <2>2 DEF FindUser
    <3>. QED BY <2>1, <3>1, RefuseStep DEF Errors
  <2>3. CASE users[req[w].id] # NoRow
    <3>1. Goto(w, "delete") /\ row' = row /\ answer' = answer
      BY <1>6, <2>3 DEF FindUser
    <3>2. Types'  BY <2>1, <3>1 DEF Types, Labels, Goto
    <3>3. Working(w)'  BY <2>1, <3>1 DEF Working, Adding, Goto
    <3>. QED BY <2>1, <3>1, <3>2, <3>3, MoveStep DEF Labels
  <2>. QED BY <2>2, <2>3
<1>7. ASSUME NEW w \in Workers, DeleteUser(w) PROVE AccountsInv'
  <2>. DEFINE i      == req[w].id
              table  == [users EXCEPT ![i] = NoRow]
              result == [deleted |-> i]
  <2>1. /\ pc[w] = "delete" /\ SetUsers(table) /\ Answer(w, result)
        /\ UNCHANGED <<fresh, req, target>> /\ \A v \in Workers : ~Holds(v, i)
    BY <1>7 DEF DeleteUser
  <2>2. i \in Ids  BY <2>1, RequestFields DEF Working
  <2>3. table \in Tables /\ result \in Answers  BY <2>2 DEF Tables, Answers
  <2>4. "error" \notin DOMAIN result /\ "user_id" \notin DOMAIN result
    OBVIOUS
  <2>5. table[i] = NoRow /\ \A j \in Ids \ {i} : table[j] = users[j]
    BY <2>2 DEF Tables
  <2>. HIDE DEF i, table, result
  <2>6. \A j \in fresh : table[j] = NoRow  BY <2>5
  <2>7. ASSUME NEW v \in Workers \ {w}
        PROVE  /\ pc[v] = "commit" => table[target[v]] = users[target[v]]
               /\ Adding(v) => Named(table, row[v].username) = {}
    BY <2>1, <2>5 DEF Working, Holds, Named, Adding
  <2>8. \A j, k \in Ids : table[j] # NoRow /\ table[k] # NoRow
                            /\ table[j].username = table[k].username => j = k
    BY <2>5 DEF UniqueNames
  <2>. QED BY <2>1, <2>3, <2>4, <2>6, <2>7, <2>8, WriteStep
<1>8. ASSUME NEW w \in Workers, LookUp(w) PROVE AccountsInv'
  <2>. DEFINE name == req[w].username
  <2>1. /\ pc[w] = "look" /\ UNCHANGED <<users, fresh, req, before>>
    BY <1>8 DEF LookUp
  <2>2. users \in before[w] /\ req[w] \in Requests /\ req[w].kind = "Login"
    BY <2>1 DEF Working
  <2>3. CASE Named(users, name) = {}
    <3>1. Refuse(w, "WrongCredentials") /\ target' = target  BY <1>8, <2>3 DEF LookUp
    <3>. QED BY <2>1, <3>1, RefuseStep DEF Errors
  <2>4. CASE Named(users, name) # {}
    <3>1. PICK i \in Named(users, name) :
            /\ target' = [target EXCEPT ![w] = i] /\ row' = [row EXCEPT ![w] = users[i]]
            /\ Goto(w, "verify") /\ answer' = answer
      BY <1>8, <2>4 DEF LookUp
    <3>2. i \in Ids /\ users[i] \in UserRows /\ users[i].username = name
      BY DEF Named, Tables
    <3>3. Types'  BY <2>1, <3>1, <3>2 DEF Types, Labels, Goto
    <3>4. pc'[w] = "verify" /\ target'[w] = i /\ row'[w] = users[i]
      BY <3>1 DEF Goto
    <3>5. Working(w)'  BY <2>1, <2>2, <3>2, <3>4 DEF Working, Adding
    <3>. QED BY <2>1, <3>1, <3>3, <3>5, MoveStep DEF Labels
  <2>. QED BY <2>3, <2>4
<1>9. ASSUME NEW w \in Workers, Verify(w) PROVE AccountsInv'
  <2>1. /\ pc[w] = "verify" /\ UNCHANGED <<users, fresh, req, target, before>>
    BY <1>9 DEF Verify
  <2>2. CASE ~Verified(req[w].password, row[w])
    <3>1. Refuse(w, "WrongCredentials")  BY <1>9, <2>2 DEF Verify
    <3>. QED BY <2>1, <3>1, RefuseStep DEF Errors
  <2>3. CASE Verified(req[w].password, row[w])
    <3>. DEFINE token == [user_id |-> target[w], role |-> row[w].role]
    <3>1. Answer(w, token)  BY <1>9, <2>3 DEF Verify
    <3>2. /\ row[w] \in UserRows /\ target[w] \in Ids
          /\ row[w].username = req[w].username
          /\ \E table \in before[w] : table[target[w]] = row[w]
      BY <2>1 DEF Working
    <3>3. row[w].password = req[w].password  BY <2>3 DEF Verified
    <3>4. /\ row[w] = [username |-> req[w].username, password |-> req[w].password,
                       role |-> row[w].role]
          /\ row[w].role \in Roles
      BY <3>2, <3>3, RowFields
    <3>5. /\ token \in Answers /\ token.user_id = target[w] /\ token.role = row[w].role
          /\ "error" \notin DOMAIN token
      BY <3>2, <3>4 DEF Answers
    <3>. HIDE DEF token
    <3>6. /\ answer' = [answer EXCEPT ![w] = token] /\ pc' = [pc EXCEPT ![w] = "idle"]
          /\ row' = [row EXCEPT ![w] = NoRow]
      BY <3>1 DEF Answer, Goto
    <3>7. Types'  BY <2>1, <3>5, <3>6 DEF Types, Labels
    <3>8. \A v \in Workers \ {w} : Same(v)  BY <2>1, <3>6 DEF Same
    <3>9. pc'[w] = "idle" /\ answer'[w] = token  BY <3>6
    <3>10. Working(w)' /\ \A v \in Workers \ {w} : Apart(v, w)' /\ Apart(w, v)'
      BY <3>9 DEF Working, Apart, Adding
    <3>11. RefusalFounded(w)'  BY <3>5, <3>9 DEF RefusalFounded, Refused
    <3>12. TokenFounded(w)'
      <4>1. [username |-> req[w].username, password |-> req[w].password, role |-> token.role]
              \in {table[token.user_id] : table \in before[w]}
        BY <3>2, <3>4, <3>5
      <4>. QED BY <2>1, <3>9, <4>1 DEF TokenFounded
    <3>. QED BY <2>1, <3>7, <3>8, <3>10, <3>11, <3>12, QuietStep
  <2>. QED BY <2>2, <2>3
<1>10. ASSUME NEW w \in Workers, Interrupt(w) PROVE AccountsInv'
  BY <1>10, RefuseStep DEF Interrupt, Errors
<1>11. CASE UNCHANGED vars
  <2>. USE <1>11 DEF vars
  <2>1. Types'  BY DEF AccountsInv, Types
  <2>2. \A w \in Workers : Working(w)'  BY DEF AccountsInv, Working, Adding
  <2>3. \A v, w \in Workers : v # w => Apart(v, w)'  BY DEF AccountsInv, Apart, Adding
  <2>4. UniqueNames'  BY DEF AccountsInv, UniqueNames
  <2>5. RefusedIfTaken'  BY DEF AccountsInv, RefusedIfTaken, Refused
  <2>6. TokensMatch'  BY DEF AccountsInv, TokensMatch
  <2>7. \A i \in fresh' : users'[i] = NoRow  BY DEF AccountsInv
  <2>. QED BY <2>1, <2>2, <2>3, <2>4, <2>5, <2>6, <2>7 DEF AccountsInv
<1>. QED
  BY <1>1, <1>2, <1>3, <1>4, <1>5, <1>6, <1>7, <1>8, <1>9, <1>10, <1>11 DEF Next, Serve

LEMMA InitAccounts == Init => AccountsInv
<1>. SUFFICES ASSUME Init PROVE AccountsInv
  OBVIOUS
<1>. USE DEF Init
<1>1. Types  BY AccountsAssumption DEF Types, Tables, Labels
<1>2. \A w \in Workers : pc[w] = "idle" /\ answer[w] = NoAnswer  OBVIOUS
<1>3. \A w \in Workers : Working(w)  BY <1>2 DEF Working, Adding
<1>4. \A v, w \in Workers : Apart(v, w)  BY <1>2 DEF Apart, Adding
<1>5. UniqueNames  BY AccountsAssumption DEF UniqueNames
<1>6. RefusedIfTaken /\ TokensMatch
  BY <1>2 DEF RefusedIfTaken, TokensMatch, Refused
<1>. QED BY <1>1, <1>3, <1>4, <1>5, <1>6 DEF AccountsInv

LEMMA AccountsInvariant == Spec => []AccountsInv
BY InitAccounts, NextAccountsInv, PTL DEF Spec

\* No two accounts ever have the same name, however many creations count none
\* of it at the same time.
THEOREM NamesStayUnique == Spec => []UniqueNames
<1>1. AccountsInv => UniqueNames  BY DEF AccountsInv
<1>. QED BY <1>1, AccountsInvariant, PTL

\* Who is refused a name was refused it while somebody had it.
THEOREM RefusalsAreFounded == Spec => []RefusedIfTaken
<1>1. AccountsInv => RefusedIfTaken  BY DEF AccountsInv
<1>. QED BY <1>1, AccountsInvariant, PTL

\* A token is for an account that had the name, the password and the role at
\* one moment of the request, whatever was changed or deleted meanwhile.
THEOREM TokensAreFounded == Spec => []TokensMatch
<1>1. AccountsInv => TokensMatch  BY DEF AccountsInv
<1>. QED BY <1>1, AccountsInvariant, PTL
=============================================================================
