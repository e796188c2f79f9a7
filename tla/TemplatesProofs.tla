--------------------------- MODULE TemplatesProofs --------------------------
(***************************************************************************)
(* What is proved about Templates for any number of workers, templates and *)
(* lobbies: that copies are whole, and that a deleted template stays gone. *)
(***************************************************************************)
EXTENDS Templates, TLAPS

Labels  == {"idle", "get_lobby", "get_template", "insert", "Delete", "Update", "CreateLobby"}
Errors  == {"NotFound", "DbErr", "Unauthorized", "Interrupted"}
Answers ==
  [error : Errors] \cup [inserted : TemplateRows] \cup [deleted : Templates]
    \cup [updated : Forms] \cup [created : Lobbies, form : Forms]

Types ==
  /\ template \in [Templates -> TemplateRows \cup {NoRow}]
  /\ lobby \in [Lobbies -> Forms \cup {NoRow}]
  /\ req \in [Workers -> Requests \cup {NoRequest}]
  /\ pc \in [Workers -> Labels]
  /\ read \in [Workers -> Forms \cup {NoRow}]
  /\ answer \in [Workers -> Answers \cup {NoAnswer}]
  /\ before \in [Workers -> SUBSET Forms]

(***************************************************************************)
(* What a worker relies on at each await: its history holds the form its   *)
(* source has now; what it has read is in its history; and a template it   *)
(* has found once will never be the id of a new one.                       *)
(***************************************************************************)
Working(w) ==
  /\ pc[w] # "idle" =>
       /\ req[w] \in Requests /\ answer[w] = NoAnswer
       /\ Source(req[w], template, lobby) \subseteq before[w]
  /\ pc[w] = "get_lobby" => req[w].kind = "FromLobby"
  /\ pc[w] = "get_template" => req[w].kind \in {"Delete", "Update", "CreateLobby"}
  /\ pc[w] = "insert" => req[w].kind \in {"Create", "FromLobby"}
  /\ pc[w] \in {"Delete", "Update", "CreateLobby"} =>
       req[w].kind = pc[w] /\ req[w].id \notin unused
  /\ pc[w] = "insert" /\ req[w].kind = "FromLobby" => read[w] \in before[w]
  /\ pc[w] = "CreateLobby" => read[w] \in before[w]

Whole(w) ==
  /\ Answered(w, "created") => answer[w].form \in before[w]
  /\ Answered(w, "inserted") /\ req[w].kind = "FromLobby" =>
       answer[w].inserted.form \in before[w]

\* The id of a template that is gone was given out, once.
Ids ==
  /\ \A t \in Templates \cap unused : template[t] = NoRow
  /\ \A t \in deleted : t \in Templates /\ t \notin unused /\ template[t] = NoRow

TemplatesInv ==
  /\ Types
  /\ Ids
  /\ \A w \in Workers : Working(w) /\ Whole(w)

TemplateTables == [Templates -> TemplateRows \cup {NoRow}]
LobbyTables    == [Lobbies -> Forms \cup {NoRow}]

LEMMA RequestFields ==
  ASSUME NEW q \in Requests
  PROVE  /\ q.kind \in {"FromLobby", "Create", "Delete", "Update", "CreateLobby"}
         /\ q.kind = "FromLobby" => q.id \in Lobbies /\ q.caller \in Admins
         /\ q.kind = "Create" => q.form \in Forms /\ q.caller \in Admins
         /\ q.kind \in {"Delete", "Update", "CreateLobby"} => q.id \in Templates
         /\ q.kind = "Update" => q.form \in Forms
BY DEF Requests

\* What a request copies is a form.
LEMMA SourceForms ==
  ASSUME NEW q \in Requests, NEW templates \in TemplateTables, NEW lobbies \in LobbyTables
  PROVE  Source(q, templates, lobbies) \subseteq Forms
<1>1. CASE q.kind = "Create"  BY <1>1 DEF Source
<1>2. CASE q.kind = "FromLobby"
  BY <1>2, RequestFields DEF Source, LobbyTables
<1>3. CASE q.kind \in {"Delete", "Update", "CreateLobby"}
  <2>1. q.id \in Templates /\ templates[q.id] \in TemplateRows \cup {NoRow}
    BY <1>3, RequestFields DEF TemplateTables
  <2>2. templates[q.id] # NoRow => templates[q.id].form \in Forms
    BY <2>1 DEF TemplateRows
  <2>. QED BY <1>3, <2>2 DEF Source
<1>. QED BY <1>1, <1>2, <1>3, RequestFields

LEMMA TypeFacts ==
  ASSUME TemplatesInv
  PROVE  /\ template \in TemplateTables /\ lobby \in LobbyTables
         /\ req \in [Workers -> Requests \cup {NoRequest}] /\ pc \in [Workers -> Labels]
         /\ read \in [Workers -> Forms \cup {NoRow}]
         /\ answer \in [Workers -> Answers \cup {NoAnswer}]
         /\ before \in [Workers -> SUBSET Forms]
         /\ \A t \in Templates \cap unused : template[t] = NoRow
         /\ \A t \in deleted : t \in Templates /\ t \notin unused /\ template[t] = NoRow
         /\ \A w \in Workers : Working(w) /\ Whole(w)
BY DEF TemplatesInv, Types, Ids, TemplateTables, LobbyTables

Same(v) ==
  pc'[v] = pc[v] /\ req'[v] = req[v] /\ read'[v] = read[v] /\ answer'[v] = answer[v]

\* A step of one worker that leaves both tables as they are.
LEMMA QuietStep ==
  ASSUME TemplatesInv, NEW w \in Workers, Types',
         UNCHANGED <<template, lobby, unused, deleted>>,
         \A v \in Workers \ {w} : Same(v) /\ before'[v] = before[v],
         Working(w)', Whole(w)'
  PROVE  TemplatesInv'
<1>. USE TypeFacts
<1>1. ASSUME NEW v \in Workers \ {w} PROVE Working(v)' /\ Whole(v)'
  <2>1. Working(v) /\ Whole(v) /\ Same(v) /\ before'[v] = before[v]  OBVIOUS
  <2>2. Working(v)'  BY <2>1 DEF Same, Working
  <2>3. Whole(v)'  BY <2>1 DEF Same, Whole, Answered
  <2>. QED BY <2>2, <2>3
<1>2. Ids'  BY DEF Ids
<1>. QED BY <1>1, <1>2 DEF TemplatesInv

LEMMA RefuseStep ==
  ASSUME TemplatesInv, NEW w \in Workers, NEW error \in Errors, Refuse(w, error),
         UNCHANGED <<template, lobby, unused, req, before, deleted>>
  PROVE  TemplatesInv'
<1>. USE TypeFacts
<1>1. /\ answer' = [answer EXCEPT ![w] = [error |-> error]]
      /\ pc' = [pc EXCEPT ![w] = "idle"] /\ read' = [read EXCEPT ![w] = NoRow]
  BY DEF Refuse, Answer, Goto
<1>2. [error |-> error] \in Answers  BY DEF Answers
<1>3. Types'  BY <1>1, <1>2 DEF Types, Labels, TemplateTables, LobbyTables
<1>4. \A v \in Workers \ {w} : Same(v)  BY <1>1 DEF Same
<1>5. pc'[w] = "idle" /\ answer'[w] = [error |-> error]  BY <1>1
<1>6. Working(w)' /\ Whole(w)'  BY <1>5 DEF Working, Whole, Answered
<1>. QED BY <1>3, <1>4, <1>6, QuietStep

\* A write enters the history of every request in progress.
LEMMA WriteHistory ==
  ASSUME TemplatesInv, NEW templates \in TemplateTables, NEW lobbies \in LobbyTables,
         Write(templates, lobbies)
  PROVE  /\ template' = templates /\ lobby' = lobbies
         /\ before' \in [Workers -> SUBSET Forms]
         /\ \A v \in Workers :
              /\ before[v] \subseteq before'[v]
              /\ pc[v] # "idle" => Source(req[v], templates, lobbies) \subseteq before'[v]
<1>. USE TypeFacts
<1>1. ASSUME NEW v \in Workers, pc[v] # "idle"
      PROVE  Source(req[v], templates, lobbies) \subseteq Forms
  BY <1>1, SourceForms DEF Working
<1>. QED BY <1>1 DEF Write

LEMMA WriteOthers ==
  ASSUME TemplatesInv, NEW templates \in TemplateTables, NEW lobbies \in LobbyTables,
         Write(templates, lobbies), unused' \subseteq unused, NEW v \in Workers, Same(v)
  PROVE  Working(v)' /\ Whole(v)'
<1>. USE TypeFacts
<1>1. Working(v) /\ Whole(v)  OBVIOUS
<1>2. /\ template' = templates /\ lobby' = lobbies
      /\ before[v] \subseteq before'[v]
      /\ pc[v] # "idle" => Source(req[v], templates, lobbies) \subseteq before'[v]
  BY WriteHistory
<1>3. /\ pc'[v] = pc[v] /\ req'[v] = req[v] /\ read'[v] = read[v] /\ answer'[v] = answer[v]
  BY DEF Same
<1>4. Working(v)'  BY <1>1, <1>2, <1>3 DEF Working
<1>5. Whole(v)'  BY <1>1, <1>2, <1>3 DEF Whole, Answered
<1>. QED BY <1>4, <1>5

\* A request whose last statement writes.
LEMMA WriteStep ==
  ASSUME TemplatesInv, NEW w \in Workers,
         NEW templates \in TemplateTables, NEW lobbies \in LobbyTables,
         Write(templates, lobbies), NEW result \in Answers, Answer(w, result),
         req' = req, unused' \subseteq unused, Ids',
         "created" \in DOMAIN result => result.form \in before[w],
         "inserted" \in DOMAIN result /\ req[w].kind = "FromLobby" =>
           result.inserted.form \in before[w]
  PROVE  TemplatesInv'
<1>. USE TypeFacts
<1>1. /\ answer' = [answer EXCEPT ![w] = result]
      /\ pc' = [pc EXCEPT ![w] = "idle"] /\ read' = [read EXCEPT ![w] = NoRow]
  BY DEF Answer, Goto
<1>2. /\ template' = templates /\ lobby' = lobbies
      /\ before' \in [Workers -> SUBSET Forms] /\ before[w] \subseteq before'[w]
  BY WriteHistory
<1>3. Types'  BY <1>1, <1>2 DEF Types, Labels, TemplateTables, LobbyTables
<1>4. ASSUME NEW v \in Workers \ {w} PROVE Working(v)' /\ Whole(v)'
  <2>1. Same(v)  BY <1>1 DEF Same
  <2>. QED BY <2>1, WriteOthers
<1>5. pc'[w] = "idle" /\ answer'[w] = result  BY <1>1
<1>6. Working(w)'  BY <1>5 DEF Working
<1>7. Whole(w)'  BY <1>2, <1>5 DEF Whole, Answered
<1>. QED BY <1>3, <1>4, <1>6, <1>7 DEF TemplatesInv

LEMMA NextTemplatesInv == TemplatesInv /\ [Next]_vars => TemplatesInv'
<1>. SUFFICES ASSUME TemplatesInv, [Next]_vars PROVE TemplatesInv'
  OBVIOUS
<1>. USE TypeFacts
<1>1. ASSUME NEW w \in Workers, NEW q \in Requests, Receive(w, q) PROVE TemplatesInv'
  <2>1. /\ pc[w] = "idle" /\ req' = [req EXCEPT ![w] = q]
        /\ answer' = [answer EXCEPT ![w] = NoAnswer]
        /\ before' = [before EXCEPT ![w] = Source(q, template, lobby)]
        /\ UNCHANGED <<template, lobby, unused, read, deleted>>
    BY <1>1 DEF Receive
  <2>2. PICK label \in {"get_lobby", "insert", "get_template"} :
          /\ pc' = [pc EXCEPT ![w] = label]
          /\ label = "get_lobby" <=> q.kind = "FromLobby"
          /\ label = "insert" <=> q.kind = "Create"
    BY <1>1 DEF Receive, Goto
  <2>3. Source(q, template, lobby) \subseteq Forms  BY SourceForms
  <2>4. Types'  BY <2>1, <2>2, <2>3 DEF Types, Labels, TemplateTables, LobbyTables
  <2>5. \A v \in Workers \ {w} : Same(v) /\ before'[v] = before[v]
    BY <2>1, <2>2 DEF Same
  <2>6. /\ pc'[w] = label /\ req'[w] = q /\ answer'[w] = NoAnswer
        /\ before'[w] = Source(q, template, lobby)
    BY <2>1, <2>2
  <2>7. q.kind \in {"FromLobby", "Create", "Delete", "Update", "CreateLobby"}
    BY RequestFields
  <2>8. Working(w)'  BY <2>1, <2>2, <2>6, <2>7 DEF Working
  <2>9. Whole(w)'  BY <2>6 DEF Whole, Answered
  <2>. QED BY <2>1, <2>4, <2>5, <2>8, <2>9, QuietStep
<1>2. ASSUME NEW w \in Workers, GetLobby(w) PROVE TemplatesInv'
  <2>1. /\ pc[w] = "get_lobby" /\ req[w].kind = "FromLobby" /\ req[w] \in Requests
        /\ answer[w] = NoAnswer /\ Source(req[w], template, lobby) \subseteq before[w]
        /\ UNCHANGED <<template, lobby, unused, req, before, deleted>>
    BY <1>2 DEF GetLobby, Working
  <2>2. CASE lobby[req[w].id] = NoRow
    BY <1>2, <2>1, <2>2, RefuseStep DEF GetLobby, Errors
  <2>3. CASE lobby[req[w].id] # NoRow
    <3>1. /\ read' = [read EXCEPT ![w] = lobby[req[w].id]]
          /\ pc' = [pc EXCEPT ![w] = "insert"] /\ answer' = answer
      BY <1>2, <2>3 DEF GetLobby, Goto
    <3>2. lobby[req[w].id] \in Forms
      BY <2>1, <2>3, RequestFields DEF LobbyTables
    <3>3. Types'  BY <2>1, <3>1, <3>2 DEF Types, Labels, TemplateTables, LobbyTables
    <3>4. \A v \in Workers \ {w} : Same(v)  BY <2>1, <3>1 DEF Same
    <3>5. lobby[req[w].id] \in before[w]
      <4>1. Source(req[w], template, lobby) = {lobby[req[w].id]} \ {NoRow}
        BY <2>1 DEF Source
      <4>. QED BY <2>1, <2>3, <4>1
    <3>6. Working(w)'  BY <2>1, <3>1, <3>5 DEF Working
    <3>7. Whole(w)'  BY <2>1, <3>1 DEF Whole, Answered
    <3>. QED BY <2>1, <3>3, <3>4, <3>6, <3>7, QuietStep
  <2>. QED BY <2>2, <2>3
<1>3. ASSUME NEW w \in Workers, GetTemplate(w) PROVE TemplatesInv'
  <2>1. /\ pc[w] = "get_template" /\ req[w].kind \in {"Delete", "Update", "CreateLobby"}
        /\ req[w] \in Requests /\ answer[w] = NoAnswer
        /\ Source(req[w], template, lobby) \subseteq before[w]
        /\ UNCHANGED <<template, lobby, unused, req, before, deleted>>
    BY <1>3 DEF GetTemplate, Working
  <2>2. req[w].id \in Templates  BY <2>1, RequestFields
  <2>3. CASE \E error \in Errors : Refuse(w, error)
    BY <2>1, <2>3, RefuseStep
  <2>4. CASE ~ \E error \in Errors : Refuse(w, error)
    <3>1. /\ template[req[w].id] # NoRow
          /\ read' = [read EXCEPT ![w] = template[req[w].id].form]
          /\ pc' = [pc EXCEPT ![w] = req[w].kind] /\ answer' = answer
      BY <1>3, <2>4 DEF GetTemplate, Goto, Errors
    <3>2. template[req[w].id].form \in Forms
      BY <2>2, <3>1 DEF TemplateTables, TemplateRows
    <3>3. Types'
      BY <2>1, <3>1, <3>2 DEF Types, Labels, TemplateTables, LobbyTables
    <3>4. \A v \in Workers \ {w} : Same(v)  BY <2>1, <3>1 DEF Same
    <3>5. template[req[w].id].form \in before[w]  BY <2>1, <3>1 DEF Source
    <3>6. req[w].id \notin unused  BY <2>2, <3>1
    <3>7. Working(w)'  BY <2>1, <3>1, <3>5, <3>6 DEF Working
    <3>8. Whole(w)'  BY <2>1, <3>1 DEF Whole, Answered
    <3>. QED BY <2>1, <3>3, <3>4, <3>7, <3>8, QuietStep
  <2>. QED BY <2>3, <2>4
<1>4. ASSUME NEW w \in Workers, InsertTemplate(w) PROVE TemplatesInv'
  <2>1. /\ pc[w] = "insert" /\ req[w].kind \in {"Create", "FromLobby"}
        /\ req[w] \in Requests /\ req' = req /\ deleted' = deleted
        /\ req[w].kind = "FromLobby" => read[w] \in before[w]
    BY <1>4 DEF InsertTemplate, Working
  <2>. DEFINE row == [form |-> NewForm(w), owner_id |-> req[w].caller]
  <2>2. PICK t \in unused \cap Templates :
          /\ unused' = unused \ {t}
          /\ Write([template EXCEPT ![t] = row], lobby)
          /\ Answer(w, [inserted |-> row])
    BY <1>4 DEF InsertTemplate
  <2>3. NewForm(w) \in Forms /\ req[w].caller \in Admins
    BY <2>1, RequestFields DEF NewForm
  <2>4. row \in TemplateRows  BY <2>3 DEF TemplateRows
  <2>5. req[w].kind = "FromLobby" => row.form \in before[w]
    BY <2>1 DEF NewForm
  <2>. HIDE DEF row
  <2>6. [template EXCEPT ![t] = row] \in TemplateTables /\ [inserted |-> row] \in Answers
    BY <2>4 DEF TemplateTables, Answers
  <2>7. template' = [template EXCEPT ![t] = row]  BY <2>2 DEF Write
  <2>8. Ids'  BY <2>1, <2>2, <2>7 DEF Ids, TemplateTables
  <2>. QED BY <2>1, <2>2, <2>5, <2>6, <2>8, WriteStep
<1>5. ASSUME NEW w \in Workers, DeleteTemplate(w) PROVE TemplatesInv'
  <2>1. /\ pc[w] = "Delete" /\ req[w].kind = "Delete" /\ req[w].id \notin unused
        /\ req[w] \in Requests /\ req' = req /\ unused' = unused
        /\ deleted' = deleted \cup {req[w].id}
        /\ Write([template EXCEPT ![req[w].id] = NoRow], lobby)
        /\ Answer(w, [deleted |-> req[w].id])
    BY <1>5 DEF DeleteTemplate, Working
  <2>2. req[w].id \in Templates  BY <2>1, RequestFields
  <2>3. /\ [template EXCEPT ![req[w].id] = NoRow] \in TemplateTables
        /\ [deleted |-> req[w].id] \in Answers
    BY <2>2 DEF TemplateTables, Answers
  <2>4. template' = [template EXCEPT ![req[w].id] = NoRow]  BY <2>1 DEF Write
  <2>5. Ids'  BY <2>1, <2>2, <2>4 DEF Ids, TemplateTables
  <2>. QED BY <2>1, <2>3, <2>5, WriteStep
<1>6. ASSUME NEW w \in Workers, UpdateTemplate(w) PROVE TemplatesInv'
  <2>1. /\ pc[w] = "Update" /\ req[w].kind = "Update" /\ req[w].id \notin unused
        /\ req[w] \in Requests /\ req' = req /\ unused' = unused /\ deleted' = deleted
    BY <1>6 DEF UpdateTemplate, Working
  <2>2. req[w].id \in Templates /\ req[w].form \in Forms  BY <2>1, RequestFields
  <2>3. CASE template[req[w].id] = NoRow
    BY <1>6, <2>1, <2>3, RefuseStep DEF UpdateTemplate, Errors
  <2>4. CASE template[req[w].id] # NoRow
    <3>. DEFINE templates == [template EXCEPT ![req[w].id].form = req[w].form]
    <3>1. Write(templates, lobby) /\ Answer(w, [updated |-> req[w].form])
      BY <1>6, <2>4 DEF UpdateTemplate
    <3>2. template[req[w].id] \in TemplateRows  BY <2>2, <2>4 DEF TemplateTables
    <3>3. [template[req[w].id] EXCEPT !.form = req[w].form] \in TemplateRows
      BY <2>2, <3>2 DEF TemplateRows
    <3>4. templates \in TemplateTables  BY <3>3 DEF TemplateTables
    <3>5. [updated |-> req[w].form] \in Answers  BY <2>2 DEF Answers
    <3>6. template' = templates  BY <3>1 DEF Write
    <3>7. \A t \in Templates : template[t] = NoRow => templates[t] = NoRow
      BY <2>4 DEF TemplateTables
    <3>8. Ids'  BY <2>1, <3>6, <3>7 DEF Ids
    <3>. HIDE DEF templates
    <3>. QED BY <2>1, <3>1, <3>4, <3>5, <3>8, WriteStep
  <2>. QED BY <2>3, <2>4
<1>7. ASSUME NEW w \in Workers, CreateLobby(w) PROVE TemplatesInv'
  <2>1. /\ pc[w] = "CreateLobby" /\ read[w] \in before[w] /\ LobbyForm(w) = read[w]
        /\ req' = req /\ deleted' = deleted
    BY <1>7 DEF CreateLobby, Working, LobbyForm
  <2>2. PICK l \in unused \cap Lobbies :
          /\ unused' = unused \ {l}
          /\ Write(template, [lobby EXCEPT ![l] = read[w]])
          /\ Answer(w, [created |-> l, form |-> read[w]])
    BY <1>7, <2>1 DEF CreateLobby
  <2>3. read[w] \in Forms  BY <2>1
  <2>4. [lobby EXCEPT ![l] = read[w]] \in LobbyTables  BY <2>3 DEF LobbyTables
  <2>5. [created |-> l, form |-> read[w]] \in Answers  BY <2>3 DEF Answers
  <2>6. template' = template  BY <2>2 DEF Write
  <2>7. Ids'  BY <2>1, <2>2, <2>6 DEF Ids
  <2>. QED BY <2>1, <2>2, <2>4, <2>5, <2>7, WriteStep
<1>8. ASSUME NEW w \in Workers, Interrupt(w) PROVE TemplatesInv'
  BY <1>8, RefuseStep DEF Interrupt, Errors
<1>9. ASSUME NEW l \in Lobbies, ChangeLobby(l) PROVE TemplatesInv'
  <2>1. PICK form \in Forms \cup {NoRow} : Write(template, [lobby EXCEPT ![l] = form])
    BY <1>9 DEF ChangeLobby
  <2>2. UNCHANGED <<unused, req, pc, read, answer, deleted>>  BY <1>9 DEF ChangeLobby
  <2>3. [lobby EXCEPT ![l] = form] \in LobbyTables  BY DEF LobbyTables
  <2>4. /\ template' = template /\ lobby' = [lobby EXCEPT ![l] = form]
        /\ before' \in [Workers -> SUBSET Forms]
    BY <2>1, <2>3, WriteHistory
  <2>5. Types'  BY <2>2, <2>3, <2>4 DEF Types, TemplateTables, LobbyTables
  <2>6. \A v \in Workers : Same(v)  BY <2>2 DEF Same
  <2>7. \A v \in Workers : Working(v)' /\ Whole(v)'
    BY <2>1, <2>2, <2>3, <2>6, WriteOthers
  <2>8. Ids'  BY <2>2, <2>4 DEF Ids
  <2>. QED BY <2>5, <2>7, <2>8 DEF TemplatesInv
<1>10. CASE UNCHANGED vars
  <2>1. Types'  BY <1>10 DEF vars, Types, TemplateTables, LobbyTables
  <2>2. \A v \in Workers : Working(v)' /\ Whole(v)'
    BY <1>10 DEF vars, Working, Whole, Answered
  <2>3. Ids'  BY <1>10 DEF vars, Ids
  <2>. QED BY <2>1, <2>2, <2>3 DEF TemplatesInv
<1>. QED
  BY <1>1, <1>2, <1>3, <1>4, <1>5, <1>6, <1>7, <1>8, <1>9, <1>10 DEF Next, Serve

LEMMA InitTemplatesInv == Init => TemplatesInv
<1>. SUFFICES ASSUME Init PROVE TemplatesInv
  OBVIOUS
<1>1. Types  BY TemplatesAssumption DEF Init, Types, Labels
<1>2. Ids  BY DEF Init, Ids
<1>3. \A w \in Workers : Working(w) /\ Whole(w)
  BY DEF Init, Working, Whole, Answered
<1>. QED BY <1>1, <1>2, <1>3 DEF TemplatesInv

LEMMA AlwaysTemplatesInv == Spec => []TemplatesInv
BY InitTemplatesInv, NextTemplatesInv, PTL DEF Spec

\* A lobby made from a template (create_lobby_from_template_endpoint) and a
\* template made from a lobby has the number of players and the setup that its
\* source had together at one moment of the request, however many requests,
\* updates and deletions run at once.
THEOREM CopiesStayWhole == Spec => []CopiesAreWhole
<1>1. TemplatesInv => CopiesAreWhole  BY DEF TemplatesInv, CopiesAreWhole, Whole
<1>. QED BY <1>1, AlwaysTemplatesInv, PTL

\* A template whose deletion was answered stays gone: an update that has read
\* it before finds no row to write, and no later template gets its id.
THEOREM DeletedStaysGone == Spec => []GoneForGood
<1>1. TemplatesInv => GoneForGood  BY DEF TemplatesInv, Ids, GoneForGood
<1>. QED BY <1>1, AlwaysTemplatesInv, PTL
=============================================================================
