------------------------------ MODULE Workbench ------------------------------
(***************************************************************************)
(* The review workbench: a loopback server that pins one retained database *)
(* (tools/sqlite_workbench.py) and the page that browses it                *)
(* (tools/sqlite_workbench/app.js).  The page's requests are answered one  *)
(* at a time, but answers are delivered in any order, or not at all, while *)
(* its user goes on clicking, typing and opening worksheets.  The server   *)
(* may be restarted, and the archive it read replaced.                     *)
(*                                                                         *)
(* What an answer contains is SqliteReader's and SqliteExplore's; here it  *)
(* is the database it was computed from.  Optional values are sequences of *)
(* length at most one.                                                     *)
(***************************************************************************)
EXTENDS Naturals, Sequences, FiniteSets

CONSTANTS Databases, First,   \* contents of the archive, and the one at the start
          LastOffset,         \* the offset of the last page of a table
          MaxActions,         \* what the user does: clicks, edits, worksheets
          MaxPending,         \* requests the page has under way
          MaxRestarts

ASSUME WorkbenchAssumption ==
  /\ First \in Databases
  /\ \A n \in {LastOffset, MaxActions, MaxPending, MaxRestarts} : n \in Nat

VARIABLES
  archive, server,                                 \* the ZIP, the process
  net,                                             \* requests of the page and their answers
  boot, binding, current, stack, generation,       \* the page: its state ...
  worksheetLoad, editorRevision, draft, loads,
  rendered, buttons, status, worksheetStatus,      \* ... and what its elements show
  actions, clicks, origin, opened, overwrote,
  superseded                                       \* history, for the properties

pageVars == <<boot, binding, current, stack, generation, worksheetLoad, editorRevision, draft,
              loads, rendered, buttons, status, worksheetStatus>>
historyVars == <<clicks, origin, actions, opened, overwrote, superseded>>
vars == <<archive, server, net, pageVars, historyVars>>

(***************************************************************************)
(* The server.                                                             *)
(***************************************************************************)

\* Workbench.__init__: the archive is read once; session and token are new.
Workbench(data, session) == [session |-> session, token |-> session, data |-> data, digest |-> data]

Error == [ok |-> FALSE, session |-> 0, digest |-> First, content |-> First]
Reply(s, content) == [ok |-> TRUE, session |-> s.session, digest |-> s.digest, content |-> content]

\* dispatch: only for this session and this database, from the pinned bytes.
\* A request may also be refused for what it asks.
dispatch_Rereads(s, m, now) ==
  IF m.binding = <<[session |-> s.session, digest |-> s.digest]>>
  THEN {Reply(s, now), Error} ELSE {Error}

dispatch(s, m, now) ==
  IF m.binding = <<[session |-> s.session, digest |-> s.digest]>>
  THEN {Reply(s, s.data), Error} ELSE {Error}

\* do_POST: the token first, then bootstrap or dispatch.
do_POST(s, m, now) ==
  CASE m.token # s.token -> {Error}
    [] m.token = s.token /\ m.kind = "bootstrap" -> {Reply(s, s.data)}
    [] OTHER -> dispatch(s, m, now)

\* serve_forever: one request at a time.
Serve(m) ==
  /\ m \in net /\ m.reply = <<>>
  /\ \E r \in do_POST(server, m, archive) : net' = (net \ {m}) \cup {[m EXCEPT !.reply = <<r>>]}
  /\ UNCHANGED <<archive, server, pageVars, historyVars>>

\* A connection is refused, reset or times out before its answer arrives.
Lose(m) ==
  /\ m \in net /\ m.reply = <<>>
  /\ net' = (net \ {m}) \cup {[m EXCEPT !.reply = <<Error>>]}
  /\ UNCHANGED <<archive, server, pageVars, historyVars>>

\* main again on the same port: another session over what the archive holds now.
Restart ==
  /\ server.session <= MaxRestarts
  /\ server' = Workbench(archive, server.session + 1)
  /\ UNCHANGED <<archive, net, pageVars, historyVars>>

\* Somebody writes another ZIP over the one the server was started with, once.
ReplaceArchive ==
  /\ archive = First /\ \E db \in Databases \ {archive} : archive' = db
  /\ UNCHANGED <<server, net, pageVars, historyVars>>

(***************************************************************************)
(* The page.  A request is [op, offset, sql], a result what it answered,   *)
(* or the members of a cell of one.                                        *)
(***************************************************************************)

PageToken == 1      \* from the address the first server printed
Request(op, offset, sql) == [op |-> op, offset |-> offset, sql |-> sql]
Result(reply, request) ==
  [session |-> reply.session, digest |-> reply.digest, content |-> reply.content,
   request |-> request, members |-> FALSE]
Tabular(result) == result.request.op \in {"rows", "related"} /\ ~result.members
Matrix(result) == result.request.op = "crosstab" /\ ~result.members
HasMore_AtEnd(result) == Tabular(result) /\ result.request.offset <= LastOffset

HasMore(result) == Tabular(result) /\ result.request.offset < LastOffset

NoButtons == [back |-> FALSE, previous |-> FALSE, next |-> FALSE, download |-> FALSE]

Init ==
  /\ archive = First /\ server = Workbench(First, 1)
  /\ boot = "bootstrap" /\ binding = <<>> /\ current = <<>> /\ stack = <<>> /\ generation = 0
  /\ worksheetLoad = 0 /\ editorRevision = 0 /\ draft = "" /\ loads = {}
  /\ rendered = <<>> /\ buttons = NoButtons /\ status = "" /\ worksheetStatus = ""
  /\ net = {[kind |-> "bootstrap", token |-> PageToken, binding |-> <<>>, ticket |-> 0, click |-> 0,
             request |-> Request("schema", 0, ""), reply |-> <<>>]}
  /\ clicks = 0 /\ origin = 0 /\ actions = 0 /\ opened = 0 /\ overwrote = FALSE /\ superseded = FALSE

\* api: the binding of the page goes with every request.
Send(kind, ticket, click, request) ==
  [kind |-> kind, token |-> PageToken, binding |-> binding, ticket |-> ticket, click |-> click,
   request |-> request, reply |-> <<>>]

\* ready: bootstrap gives the binding, the schema must agree with it.
Booted(m) ==
  /\ m \in net /\ m.reply # <<>> /\ m.kind = boot
  /\ LET r == m.reply[1] IN
     \/ /\ r.ok /\ boot = "bootstrap" /\ boot' = "schema"
        /\ binding' = <<[session |-> r.session, digest |-> r.digest]>>
        /\ net' = (net \ {m}) \cup {[m EXCEPT !.kind = "schema", !.binding = binding', !.reply = <<>>]}
        /\ UNCHANGED status
     \/ /\ r.ok /\ boot = "schema" /\ binding = <<[session |-> r.session, digest |-> r.digest]>>
        /\ boot' = "ready" /\ status' = "ready" /\ net' = net \ {m} /\ UNCHANGED binding
     \/ /\ ~r.ok
        /\ boot' = "failed" /\ status' = "refused" /\ net' = net \ {m} /\ UNCHANGED binding
  /\ UNCHANGED <<archive, server, current, stack, generation, worksheetLoad, editorRevision, draft,
                 loads, rendered, buttons, worksheetStatus, historyVars>>

\* render: the results, the buttons and the line that describes them.
render(result, depth) ==
  /\ rendered' = <<result>> /\ status' = "shown"
  /\ buttons' = [back |-> depth > 0, previous |-> Tabular(result) /\ result.request.offset # 0,
                 next |-> HasMore(result), download |-> ~Matrix(result)]

\* What supersedes a worksheet being read leaves its message where it is.
Supersede ==
  /\ worksheetLoad' = worksheetLoad + 1 /\ loads' = {[l EXCEPT !.late = TRUE] : l \in loads}
  /\ superseded' = (worksheetStatus' = "reading")

Act == actions < MaxActions /\ actions' = actions + 1

\* A click on something that changes the view.
Click ==
  /\ Act /\ clicks' = clicks + 1
  /\ generation' = generation + 1 /\ UNCHANGED worksheetStatus /\ Supersede

\* navigate, up to its await.
navigate(request) ==
  /\ Cardinality(net) < MaxPending /\ Click
  /\ net' = net \cup {Send("navigate", generation', clicks', request)}
  /\ status' = "reading"
  /\ UNCHANGED <<archive, server, boot, binding, current, stack, editorRevision, draft, rendered,
                 buttons, origin, opened, overwrote>>

Browse(op) == boot = "ready" /\ navigate(Request(op, 0, ""))
RunQuery == navigate(Request("query", 0, draft))
FollowRelation == rendered # <<>> /\ Tabular(rendered[1]) /\ navigate(Request("related", 0, ""))
NextPage == buttons.next /\ navigate([current[1].request EXCEPT !.offset = @ + 1])
PreviousPage == buttons.previous /\ navigate([current[1].request EXCEPT !.offset = @ - 1])

\* navigate, after its await: only the newest request of this page may answer.
Stale(m, r) == binding # <<[session |-> r.session, digest |-> r.digest]>>
Remember_Never(view) == stack

Remember(view) == IF view = <<>> THEN stack ELSE Append(stack, view[1])
Refusal_Silent(m) == UNCHANGED status

Refusal(m) == status' = IF m.ticket = generation THEN "refused" ELSE status
Deliver(m) ==
  /\ m \in net /\ m.reply # <<>> /\ m.kind = "navigate" /\ net' = net \ {m}
  /\ LET r == m.reply[1] IN
     \/ /\ r.ok /\ m.ticket # generation
        /\ UNCHANGED <<current, stack, rendered, buttons, status, origin>>
     \/ /\ ~r.ok \/ (m.ticket = generation /\ Stale(m, r))
        /\ Refusal(m) /\ UNCHANGED <<current, stack, rendered, buttons, origin>>
     \/ /\ r.ok /\ m.ticket = generation /\ ~Stale(m, r)
        /\ stack' = Remember(current)
        /\ current' = <<[request |-> m.request, result |-> Result(r, m.request)]>>
        /\ render(Result(r, m.request), Len(stack')) /\ origin' = m.click
  /\ UNCHANGED <<archive, server, boot, binding, generation, worksheetLoad, editorRevision, draft,
                 loads, worksheetStatus, clicks, actions, opened, overwrote, superseded>>

\* The members of a cell of a crosstab or of a band: no request is needed.
OpenMembers ==
  /\ rendered # <<>> /\ Matrix(rendered[1]) /\ Click
  /\ LET detail == [rendered[1] EXCEPT !.members = TRUE] IN
     /\ stack' = Append(stack, current[1])
     /\ current' = <<[request |-> current[1].request, result |-> detail]>>
     /\ render(detail, Len(stack')) /\ origin' = clicks'
  /\ UNCHANGED <<archive, server, net, boot, binding, editorRevision, draft, opened, overwrote>>

BackClick_KeepsTicket ==
  /\ Act /\ clicks' = clicks + 1 /\ UNCHANGED <<generation, worksheetStatus>> /\ Supersede

BackClick == Click
Back ==
  /\ buttons.back /\ BackClick
  /\ LET view == stack[Len(stack)] IN
     /\ current' = <<view>> /\ stack' = SubSeq(stack, 1, Len(stack) - 1)
     /\ render(view.result, Len(stack')) /\ origin' = clicks'
  /\ UNCHANGED <<archive, server, net, boot, binding, editorRevision, draft, opened, overwrote>>

(***************************************************************************)
(* The SQL editor and its worksheets.  A file is the source it was saved   *)
(* for; one that does not parse is refused as one of another source is.    *)
(***************************************************************************)

\* worksheetEdited
Edit ==
  /\ Act /\ editorRevision' = editorRevision + 1 /\ draft' = "typed"
  /\ loads' = {[l EXCEPT !.dirty = TRUE] : l \in loads}
  /\ UNCHANGED <<archive, server, net, boot, binding, current, stack, generation, worksheetLoad,
                 rendered, buttons, status, worksheetStatus, clicks, origin, opened, overwrote,
                 superseded>>

\* openWorksheet, up to its await; the click on the chooser came just before.
ChooseFile(digest) ==
  /\ boot = "ready" /\ Act
  /\ worksheetLoad' = worksheetLoad + 1 /\ worksheetStatus' = "reading" /\ superseded' = FALSE
  /\ loads' = {[l EXCEPT !.late = TRUE] : l \in loads}
              \cup {[ticket |-> worksheetLoad', revision |-> editorRevision, digest |-> digest,
                     late |-> FALSE, dirty |-> FALSE]}
  /\ UNCHANGED <<archive, server, net, boot, binding, current, stack, generation, editorRevision,
                 draft, rendered, buttons, status, clicks, origin, opened, overwrote>>

\* The chooser is opened again while an earlier file is still being read, or
\* the line still says so; it stays open, or is closed with nothing chosen.
CancelFile ==
  /\ boot = "ready" /\ Act /\ worksheetStatus = "reading"
  /\ worksheetStatus' \in {"reading", "cancelled"} /\ Supersede
  /\ UNCHANGED <<archive, server, net, boot, binding, current, stack, generation, editorRevision,
                 draft, rendered, buttons, status, clicks, origin, opened, overwrote>>

\* checkWorksheet, and the editor as it was when the file was chosen.
worksheetAccepts_Unchanged(l) == l.digest = binding[1].digest

worksheetAccepts(l) == l.digest = binding[1].digest /\ l.revision = editorRevision
\* The results of the old draft go, and with them every answer still to come.
Forget_Keeps ==
  /\ current' = <<>> /\ stack' = <<>> /\ rendered' = <<>> /\ status' = "reopened"
  /\ buttons' = NoButtons /\ UNCHANGED generation
Forget_Rendered ==
  /\ generation' = generation + 1 /\ current' = <<>> /\ stack' = <<>> /\ status' = "reopened"
  /\ buttons' = [NoButtons EXCEPT !.download = buttons.download] /\ UNCHANGED rendered

Forget ==
  /\ generation' = generation + 1
  /\ current' = <<>> /\ stack' = <<>> /\ rendered' = <<>> /\ status' = "reopened"
  /\ buttons' = NoButtons

\* openWorksheet, after its await.  A load that was superseded returns without
\* a word, and the line goes on saying that a worksheet is being read.
WorksheetRefusal_Silent == UNCHANGED worksheetStatus

WorksheetRefusal == worksheetStatus' = "refused"
FileRead(l) ==
  /\ l \in loads
  /\ \/ /\ l.ticket # worksheetLoad
        /\ loads' = loads \ {l} /\ UNCHANGED worksheetStatus
        /\ UNCHANGED <<current, stack, generation, editorRevision, draft, rendered, buttons, status,
                       opened, overwrote>>
     \/ /\ l.ticket = worksheetLoad /\ ~worksheetAccepts(l)
        /\ loads' = loads \ {l} /\ WorksheetRefusal
        /\ UNCHANGED <<current, stack, generation, editorRevision, draft, rendered, buttons, status,
                       opened, overwrote>>
     \/ /\ l.ticket = worksheetLoad /\ worksheetAccepts(l) /\ editorRevision' = editorRevision + 1
        /\ draft' = "file" /\ Forget /\ worksheetStatus' = "reopened"
        /\ loads' = {[k EXCEPT !.dirty = TRUE] : k \in loads \ {l}}
        /\ opened' = clicks /\ overwrote' = (overwrote \/ l.late \/ l.dirty)
  /\ UNCHANGED <<archive, server, net, boot, binding, worksheetLoad, clicks, origin, actions, superseded>>

Next ==
  \/ \E m \in net : Serve(m) \/ Lose(m) \/ Booted(m) \/ Deliver(m)
  \/ Restart \/ ReplaceArchive
  \/ \E op \in {"rows", "crosstab"} : Browse(op)
  \/ RunQuery \/ FollowRelation \/ NextPage \/ PreviousPage
  \/ OpenMembers \/ Back
  \/ Edit \/ CancelFile
  \/ \E db \in Databases : ChooseFile(db)
  \/ \E l \in loads : FileRead(l)

\* A fetch ends: the server answers what reaches it and connections time out;
\* a file is read or cannot be; and the browser runs the continuation of a
\* settled promise.
Fairness ==
  /\ WF_vars(\E m \in net : Serve(m) \/ Lose(m))
  /\ WF_vars(\E m \in net : Booted(m) \/ Deliver(m))
  /\ WF_vars(\E l \in loads : FileRead(l))

Spec == Init /\ [][Next]_vars /\ Fairness

(***************************************************************************)
(* Properties.                                                             *)
(***************************************************************************)

Replies == [ok : BOOLEAN, session : 0 .. MaxRestarts + 1, digest : Databases, content : Databases]
Bindings == [session : 1 .. MaxRestarts + 1, digest : Databases]
Drafts == {"", "typed", "file"}
Requests == [op : {"schema", "rows", "related", "crosstab", "query"}, offset : 0 .. LastOffset, sql : Drafts]
Answers(sessions, databases) ==
  [session : sessions, digest : databases, content : databases, request : Requests, members : BOOLEAN]
IsView(v) == v.request \in Requests /\ v.result \in Answers(1 .. MaxRestarts + 1, Databases)

\* Every page asked for exists, every ticket was issued, and what the page
\* keeps are views.
TypeOK ==
  /\ archive \in Databases
  /\ server \in [session : 1 .. MaxRestarts + 1, token : 1 .. MaxRestarts + 1, data : Databases, digest : Databases]
  /\ \A m \in net : /\ m.kind \in {"bootstrap", "schema", "navigate"} /\ m.request \in Requests
                    /\ m.ticket \in 0 .. generation /\ m.click \in 0 .. clicks
                    /\ m.reply = <<>> \/ m.reply[1] \in Replies
                    /\ m.binding = <<>> \/ m.binding[1] \in Bindings
  /\ boot \in {"bootstrap", "schema", "ready", "failed"} /\ (binding = <<>> \/ binding[1] \in Bindings)
  /\ Len(current) <= 1 /\ \A i \in DOMAIN current : IsView(current[i])
  /\ \A i \in DOMAIN stack : IsView(stack[i])
  /\ draft \in Drafts /\ status \in {"", "ready", "reading", "shown", "refused", "reopened"}
  /\ worksheetStatus \in {"", "reading", "cancelled", "refused", "reopened"}
  /\ \A l \in loads : l.ticket \in 1 .. worksheetLoad /\ l.revision \in 0 .. editorRevision
  /\ origin \in 0 .. clicks /\ opened \in 0 .. clicks /\ {overwrote, superseded} \subseteq BOOLEAN

\* Every successful answer, on the wire, on the screen or behind the back
\* button, was computed from the database whose fingerprint it carries, and the
\* page keeps only answers of the session and the fingerprint it was bound to,
\* although the archive is replaced and the server restarted meanwhile.
ServedIsPinned ==
  LET Pinned(r) == r.content = r.digest
      Kept(v) == Pinned(v.result) /\ binding = <<[session |-> v.result.session, digest |-> v.result.digest]>>
  IN /\ \A m \in net : m.reply # <<>> /\ m.reply[1].ok => Pinned(m.reply[1])
     /\ \A i \in DOMAIN current : Kept(current[i])
     /\ \A i \in DOMAIN stack : Kept(stack[i])

\* The table on the screen, the four buttons and the download, which all read
\* different variables, agree: downloads take `current`, so a screen that shows
\* another result would be saved as something the user does not see.
ShownIsCurrent ==
  /\ Len(rendered) = Len(current)
  /\ stack # <<>> => current # <<>>
  /\ current = <<>> => buttons = NoButtons
  /\ current # <<>> =>
       LET result == current[1].result IN
       /\ rendered[1] = result
       /\ buttons.back = (stack # <<>>)
       /\ buttons.download = (result.members \/ result.request.op # "crosstab")
       /\ buttons.next => result.request.offset < LastOffset
       /\ buttons.previous => result.request.offset > 0

\* The view changes only to what the user asked for last: an answer that was
\* overtaken by a later click, Back included, never replaces what that click
\* shows.
AnswerFollowsLastClick == [][origin' # origin => origin' = clicks']_vars

\* A result on the screen was asked for after the last worksheet was opened:
\* "Only the user's next explicit Run can produce rows."  What is typed after
\* that Run leaves its result where it is.
NoResultForUnrunDraft == current # <<>> => origin > opened

\* The screen can be trusted: what it shows is what a download would save, and
\* was asked for by the user after the last worksheet was opened, never a
\* result of the draft that the worksheet replaced.
ScreenTruthful == ShownIsCurrent /\ NoResultForUnrunDraft

\* A worksheet replaces the editor only if, since choosing the file, the user
\* has neither typed, nor changed the view, nor opened the chooser again.
NothingOverwritten == ~overwrote

\* The line under the buttons stops saying that it is reading: every request
\* is answered, refused or superseded by something that says so, restarts
\* included.
StatusSettles == (status = "reading") ~> (status # "reading")

\* A worksheet being read ends in a message, unless a click or the chooser
\* supersedes it.  It has to be said this way: a superseded load returns
\* without a word (app.js:87), and "Reading worksheet locally..." then stays
\* until another worksheet is chosen, cancelled or saved.
WorksheetSettles == (worksheetStatus = "reading") ~> (worksheetStatus # "reading" \/ superseded)

\* What is asked of the page comes to an end that it reports: requests always,
\* worksheets if nothing supersedes them.
Settles == StatusSettles /\ WorksheetSettles

\* The page is a history of views of the one database it was bound to first.
History == INSTANCE ReviewHistory WITH
  Views <- Answers({1}, {First}),
  views <- [i \in 1 .. Len(stack) + Len(current) |->
              IF i <= Len(stack) THEN stack[i].result ELSE current[1].result]
ImplementsHistory == History!Spec
=============================================================================
