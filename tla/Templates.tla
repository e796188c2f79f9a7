----------------------------- MODULE Templates ------------------------------
(***************************************************************************)
(* Templates of lobbies: src/template/template.rs.  A template keeps what  *)
(* a lobby is set up with: its form, that is max_players, settings and     *)
(* events.  It is made from a payload or from a lobby, and lobbies are     *)
(* made from it.                                                           *)
(*                                                                         *)
(* Every request reads a row over the pool and writes with a statement of  *)
(* its own later; only the creation of a lobby commits a transaction.  Of  *)
(* the lobbies only their forms are kept (create_lobby, update_lobby and   *)
(* the deletion are in LobbyStore).                                        *)
(***************************************************************************)
EXTENDS FiniteSets, Naturals

CONSTANTS
  Workers,         \* the tasks that serve requests, one at a time each
  Templates,       \* ids of templates
  Lobbies,         \* ids of lobbies
  Admins,          \* users of that role
  Owners,          \* all who may ask for a deletion, Admins among them
  Limits, Setups,  \* values of max_players, and of settings with events
  InitialLobbies,  \* the lobbies at the start, by id
  NoRow, NoRequest, NoAnswer,
  MaxRequests,     \* bound: requests made
  MaxChanges       \* bound: updates and deletions of lobbies

Forms        == [max_players : Limits, setup : Setups]
TemplateRows == [form : Forms, owner_id : Admins]

ASSUME TemplatesAssumption ==
  /\ Admins \subseteq Owners
  /\ NoRow \notin Forms \cup TemplateRows
  /\ InitialLobbies \in [Lobbies -> Forms \cup {NoRow}]
  /\ MaxRequests \in Nat /\ MaxChanges \in Nat

VARIABLES
  template,  \* the rows of "template"
  lobby,     \* the forms of the committed rows of "lobby"
  unused,    \* ids not given out yet, of either kind
  req, pc,   \* what each worker serves and where it stands
  read,      \* the form it has read
  answer,    \* its last answer
  before,    \* history: the forms its source had since the request came
  deleted,   \* history: the templates whose deletion was answered
  requests, changes

vars == <<template, lobby, unused, req, pc, read, answer, before, deleted, requests, changes>>

Requests ==
  [kind : {"FromLobby"}, id : Lobbies, caller : Admins]
    \cup [kind : {"Create"}, form : Forms, caller : Admins]
    \cup [kind : {"Delete"}, id : Templates, caller : Owners]
    \cup [kind : {"Update"}, id : Templates, form : Forms]
    \cup [kind : {"CreateLobby"}, id : Templates]

Init ==
  /\ template = [t \in Templates |-> NoRow]
  /\ lobby = InitialLobbies
  /\ unused = Templates \cup {l \in Lobbies : lobby[l] = NoRow}
  /\ req    = [w \in Workers |-> NoRequest]
  /\ pc     = [w \in Workers |-> "idle"]
  /\ read   = [w \in Workers |-> NoRow]
  /\ answer = [w \in Workers |-> NoAnswer]
  /\ before = [w \in Workers |-> {}]
  /\ deleted = {} /\ requests = 0 /\ changes = 0

Goto(w, label) == pc' = [pc EXCEPT ![w] = label]

Answer(w, result) ==
  /\ answer' = [answer EXCEPT ![w] = result]
  /\ read' = [read EXCEPT ![w] = NoRow]
  /\ Goto(w, "idle")

Refuse(w, error) == Answer(w, [error |-> error])

\* The form of what a request copies or changes.
Source(q, templates, lobbies) ==
  CASE q.kind = "Create"    -> {}
    [] q.kind = "FromLobby" -> {lobbies[q.id]} \ {NoRow}
    [] OTHER                -> {row.form : row \in {templates[q.id]} \ {NoRow}}

\* Both tables change for all requests in progress.
Write(templates, lobbies) ==
  /\ template' = templates /\ lobby' = lobbies
  /\ before' = [w \in Workers |->
       IF pc[w] = "idle" THEN before[w]
       ELSE before[w] \cup Source(req[w], templates, lobbies)]

Receive(w, q) ==
  /\ pc[w] = "idle" /\ requests < MaxRequests
  /\ requests' = requests + 1
  /\ req' = [req EXCEPT ![w] = q]
  /\ answer' = [answer EXCEPT ![w] = NoAnswer]
  /\ before' = [before EXCEPT ![w] = Source(q, template, lobby)]
  /\ Goto(w, CASE q.kind = "FromLobby" -> "get_lobby"
               [] q.kind = "Create"    -> "insert"
               [] OTHER                -> "get_template")
  /\ UNCHANGED <<template, lobby, unused, read, deleted, changes>>
-----------------------------------------------------------------------------
\* create_template_from_lobby_endpoint
GetLobby(w) ==
  LET l == req[w].id IN
  /\ pc[w] = "get_lobby"
  /\ IF lobby[l] = NoRow
       THEN Refuse(w, "NotFound")
       ELSE /\ read' = [read EXCEPT ![w] = lobby[l]]
            /\ Goto(w, "insert") /\ UNCHANGED answer
  /\ UNCHANGED <<template, lobby, unused, req, before, deleted, requests, changes>>

\* The owner of a template, if he is an admin.
MayDelete(caller, row) == row.owner_id = caller /\ caller \in Admins

\* Every admin may update every template, and make lobbies from it.
GetTemplate(w) ==
  LET t == req[w].id IN
  /\ pc[w] = "get_template"
  /\ IF template[t] = NoRow
       THEN Refuse(w, "DbErr")
     ELSE IF req[w].kind = "Delete" /\ ~MayDelete(req[w].caller, template[t])
       THEN Refuse(w, "Unauthorized")
       ELSE /\ read' = [read EXCEPT ![w] = template[t].form]
            /\ Goto(w, req[w].kind) /\ UNCHANGED answer
  /\ UNCHANGED <<template, lobby, unused, req, before, deleted, requests, changes>>

NewForm(w) == IF req[w].kind = "Create" THEN req[w].form ELSE read[w]

\* The insert of create_template, and of create_template_from_lobby_endpoint.
InsertTemplate(w) ==
  /\ pc[w] = "insert"
  /\ \E t \in unused \cap Templates :
       LET row == [form |-> NewForm(w), owner_id |-> req[w].caller] IN
       /\ unused' = unused \ {t}
       /\ Write([template EXCEPT ![t] = row], lobby)
       /\ Answer(w, [inserted |-> row])
  /\ UNCHANGED <<req, deleted, requests, changes>>

\* A template that is gone by now is not missed.
DeleteTemplate(w) ==
  /\ pc[w] = "Delete"
  /\ Write([template EXCEPT ![req[w].id] = NoRow], lobby)
  /\ deleted' = deleted \cup {req[w].id}
  /\ Answer(w, [deleted |-> req[w].id])
  /\ UNCHANGED <<unused, req, requests, changes>>

\* What was read is written back with the new form, whether or not it is
\* still there.
Mutant_UpdateTemplate(w) ==
  /\ pc[w] = "Update"
  /\ \E owner \in Admins :
       Write([template EXCEPT ![req[w].id] =
                [form |-> req[w].form,
                 owner_id |-> IF @ = NoRow THEN owner ELSE @.owner_id]], lobby)
  /\ Answer(w, [updated |-> req[w].form])
  /\ UNCHANGED <<unused, req, deleted, requests, changes>>

\* `update ... returning`, which fails if there is no row to return.
UpdateTemplate(w) ==
  LET t == req[w].id IN
  /\ pc[w] = "Update"
  /\ IF template[t] = NoRow
       THEN Refuse(w, "DbErr") /\ UNCHANGED <<template, lobby, before>>
       ELSE /\ Write([template EXCEPT ![t].form = req[w].form], lobby)
            /\ Answer(w, [updated |-> req[w].form])
  /\ UNCHANGED <<unused, req, deleted, requests, changes>>

\* The template is looked at once more for what the lobby is set up with.
Mutant_LobbyForm(w) ==
  IF template[req[w].id] = NoRow THEN read[w]
  ELSE [max_players |-> read[w].max_players, setup |-> template[req[w].id].form.setup]

LobbyForm(w) == read[w]

\* create_lobby and its commit.
CreateLobby(w) ==
  /\ pc[w] = "CreateLobby"
  /\ \E l \in unused \cap Lobbies :
       /\ unused' = unused \ {l}
       /\ Write(template, [lobby EXCEPT ![l] = LobbyForm(w)])
       /\ Answer(w, [created |-> l, form |-> LobbyForm(w)])
  /\ UNCHANGED <<req, deleted, requests, changes>>

\* update_lobby and delete_lobby_endpoint.
ChangeLobby(l) ==
  /\ lobby[l] # NoRow /\ changes < MaxChanges
  /\ changes' = changes + 1
  /\ \E row \in Forms \cup {NoRow} : Write(template, [lobby EXCEPT ![l] = row])
  /\ UNCHANGED <<unused, req, pc, read, answer, deleted, requests>>

\* The client hangs up, the database fails, or the name of the lobby is taken.
Interrupt(w) ==
  /\ pc[w] # "idle"
  /\ Refuse(w, "Interrupted")
  /\ UNCHANGED <<template, lobby, unused, req, before, deleted, requests, changes>>

Serve(w) ==
  \/ GetLobby(w) \/ GetTemplate(w) \/ InsertTemplate(w) \/ DeleteTemplate(w)
  \/ UpdateTemplate(w) \/ CreateLobby(w)

Next ==
  \/ \E w \in Workers : (\E q \in Requests : Receive(w, q)) \/ Serve(w) \/ Interrupt(w)
  \/ \E l \in Lobbies : ChangeLobby(l)

Spec == Init /\ [][Next]_vars
-----------------------------------------------------------------------------
Answered(w, what) == answer[w] # NoAnswer /\ what \in DOMAIN answer[w]

\* A lobby that is made from a template, and a template that is made from a
\* lobby, has the number of players and the setup its source had together at
\* one moment of the request: updates of the source that come in between are
\* never mixed in.
CopiesAreWhole ==
  \A w \in Workers :
    /\ Answered(w, "created") => answer[w].form \in before[w]
    /\ Answered(w, "inserted") /\ req[w].kind = "FromLobby" =>
         answer[w].inserted.form \in before[w]

\* A template whose deletion was answered does not come back, although updates
\* that have read it before may still write.
GoneForGood == \A t \in deleted : template[t] = NoRow
=============================================================================
