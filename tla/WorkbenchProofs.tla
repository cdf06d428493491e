--------------------------- MODULE WorkbenchProofs ---------------------------
(***************************************************************************)
(* Proofs about Workbench for any contents of the archive, any length of   *)
(* the tables, and any number of clicks, requests and restarts.  The       *)
(* invariant carries three arguments: the token of the page names the      *)
(* first server, so all it accepts was pinned by that one; the newest      *)
(* ticket belongs to the last click, made after the last worksheet was     *)
(* opened; and the screen is a function of the view the page keeps.        *)
(***************************************************************************)
EXTENDS Workbench, TLAPS

\* The token the page has is the first server's, so every answer it accepts
\* is that server's, about the database that one pinned.
PinnedReply == Reply(Workbench(First, 1), First)
Bound == [session |-> 1, digest |-> First]

Servers == [session : 1 .. MaxRestarts + 1, token : 1 .. MaxRestarts + 1,
            data : Databases, digest : Databases]
Messages == [kind : {"bootstrap", "schema", "navigate"}, token : {PageToken},
             binding : {<<>>, <<Bound>>}, ticket : Nat, click : Nat, request : Requests,
             reply : {<<>>, <<Error>>, <<PinnedReply>>}]
Loads == [ticket : Nat, revision : Nat, digest : Databases, late : BOOLEAN, dirty : BOOLEAN]
Kept == {v \in [request : Requests, result : Answers({1}, {First})] : v.result.request = v.request}

ServerInv ==
  /\ archive \in Databases /\ server \in Servers
  /\ server.token = server.session /\ server.digest = server.data
  /\ server.session = 1 => server.data = First

\* A request that carries the newest ticket is the user's last click, and came
\* after the draft in the editor was opened.
MessageInv ==
  /\ net \subseteq Messages
  /\ \A m \in net : /\ m.ticket <= generation /\ m.click <= clicks
                    /\ m.kind = "navigate" /\ m.ticket = generation =>
                         m.click = clicks /\ opened < clicks

PageInv ==
  /\ boot \in {"bootstrap", "schema", "ready", "failed"}
  /\ binding \in {<<>>, <<Bound>>}
  /\ draft \in Drafts
  /\ status \in {"", "ready", "reading", "shown", "refused", "reopened"}

CounterInv ==
  /\ generation \in Nat /\ worksheetLoad \in Nat /\ editorRevision \in Nat
  /\ clicks \in Nat /\ origin \in 0 .. clicks /\ opened \in 0 .. clicks

\* Only answers of the bound session are kept.
ViewInv ==
  /\ current = <<>> \/ \E v \in Kept : current = <<v>>
  /\ stack \in Seq(Kept)
  /\ current = <<>> => stack = <<>>
  /\ current # <<>> => binding = <<Bound>> /\ opened < origin

\* What is on the screen is a function of what the page keeps.
ScreenInv ==
  /\ current = <<>> => rendered = <<>> /\ buttons = NoButtons
  /\ current # <<>> =>
       LET result == current[1].result IN
       /\ rendered = <<result>>
       /\ buttons = [back |-> Len(stack) > 0,
                     previous |-> Tabular(result) /\ result.request.offset # 0,
                     next |-> HasMore(result), download |-> ~Matrix(result)]

\* The two conditions of openWorksheet see every click and every edit.
WorksheetInv ==
  /\ loads \subseteq Loads
  /\ \A l \in loads : /\ l.ticket \in 1 .. worksheetLoad /\ l.revision <= editorRevision
                      /\ l.late => l.ticket < worksheetLoad
                      /\ l.dirty => l.revision < editorRevision
  /\ overwrote = FALSE

Inv == /\ ServerInv /\ MessageInv /\ PageInv /\ CounterInv
       /\ ViewInv /\ ScreenInv /\ WorksheetInv
-----------------------------------------------------------------------------
\* The bounds, one by one.
LEMMA Bounds == /\ First \in Databases
                /\ LastOffset \in Nat /\ MaxActions \in Nat
                /\ MaxPending \in Nat /\ MaxRestarts \in Nat
  BY WorkbenchAssumption

\* A request for a first page is one.
LEMMA FirstPage ==
  ASSUME NEW op \in {"schema", "rows", "related", "crosstab", "query"}, NEW sql \in Drafts
  PROVE  Request(op, 0, sql) \in Requests
  BY Bounds DEF Request, Requests

\* do_POST answers a page with the first server's token from that server.
LEMMA AnswerIsPinned ==
  ASSUME ServerInv, NEW m \in Messages
  PROVE  do_POST(server, m, archive) \subseteq {Error, PinnedReply}
<1>1. CASE m.token # server.token
  BY <1>1 DEF do_POST
<1>2. CASE m.token = server.token
  <2>1. server.session = 1 /\ server.data = First /\ server.digest = First
    BY <1>2 DEF ServerInv, Messages, PageToken
  <2>2. Reply(server, server.data) = PinnedReply
    BY <2>1 DEF Reply, PinnedReply, Workbench
  <2>3. do_POST(server, m, archive) \subseteq {Error, Reply(server, server.data)}
    BY <1>2 DEF do_POST, dispatch
  <2> QED
    BY <2>2, <2>3
<1> QED
  BY <1>1, <1>2

\* What the page finds in a settled request.
LEMMA SettledReply ==
  ASSUME NEW m \in Messages, m.reply # <<>>
  PROVE  m.reply[1] \in {Error, PinnedReply}
  BY DEF Messages

\* An answer or a failure settles one request and keeps what it was sent with.
LEMMA SettleKeepsMessages ==
  ASSUME MessageInv, NEW m \in net, NEW r \in {Error, PinnedReply},
         net' = (net \ {m}) \cup {[m EXCEPT !.reply = <<r>>]},
         UNCHANGED <<generation, clicks, opened>>
  PROVE  MessageInv'
<1> DEFINE n == [m EXCEPT !.reply = <<r>>]
<1>1. m \in Messages
  BY DEF MessageInv
<1>2. n \in Messages /\ n.ticket = m.ticket /\ n.click = m.click /\ n.kind = m.kind
  BY <1>1 DEF Messages
<1> HIDE DEF n
<1>3. \A k \in net' : k \in net \/ k = n
  BY DEF n
<1> QED
  BY <1>2, <1>3 DEF MessageInv

\* Serve, Lose and everything that happens to the server leave the page alone.
LEMMA ServerStep ==
  ASSUME Inv, UNCHANGED <<pageVars, historyVars>>, ServerInv', MessageInv'
  PROVE  Inv'
  BY DEF Inv, pageVars, historyVars, PageInv, CounterInv, ViewInv, ScreenInv, WorksheetInv

\* The clicks of the user: what a click does to tickets, loads and counters.
LEMMA ClickKeeps ==
  ASSUME Inv, Click, UNCHANGED <<editorRevision, opened, overwrote>>
  PROVE  /\ generation' = generation + 1 /\ clicks' = clicks + 1
         /\ generation' \in Nat /\ clicks' \in Nat /\ worksheetLoad' \in Nat
         /\ WorksheetInv'
<1>1. generation' = generation + 1 /\ clicks' = clicks + 1 /\ worksheetLoad' = worksheetLoad + 1
  BY DEF Click, Supersede
<1>2. ASSUME NEW k \in loads'
      PROVE  /\ k \in Loads /\ k.ticket \in 1 .. worksheetLoad' /\ k.revision <= editorRevision'
             /\ k.ticket < worksheetLoad' /\ (k.dirty => k.revision < editorRevision')
  <2>1. PICK l \in loads : k = [l EXCEPT !.late = TRUE]
    BY DEF Click, Supersede
  <2>2. /\ l \in Loads /\ l.ticket \in 1 .. worksheetLoad /\ l.revision <= editorRevision
        /\ l.dirty => l.revision < editorRevision
    BY DEF Inv, WorksheetInv
  <2>3. /\ k \in Loads /\ k.ticket = l.ticket /\ k.revision = l.revision /\ k.dirty = l.dirty
    BY <2>1, <2>2 DEF Loads
  <2> QED
    BY <1>1, <2>2, <2>3 DEF Inv, CounterInv
<1> QED
  BY <1>1, <1>2 DEF Inv, CounterInv, WorksheetInv
\* navigate, up to its await: the request carries the new ticket and click.
LEMMA NavigateKeeps ==
  ASSUME Inv, NEW request \in Requests, navigate(request)
  PROVE  Inv'
<1> DEFINE n == Send("navigate", generation', clicks', request)
<1>1. Click /\ net' = net \cup {n} /\ status' = "reading"
  BY DEF navigate
<1>2. UNCHANGED <<archive, server, boot, binding, current, stack, editorRevision, draft, rendered,
                  buttons, origin, opened, overwrote>>
  BY DEF navigate
<1>3. /\ generation' = generation + 1 /\ clicks' = clicks + 1
      /\ generation' \in Nat /\ clicks' \in Nat /\ worksheetLoad' \in Nat
      /\ WorksheetInv'
  BY <1>1, <1>2, ClickKeeps
<1>4. n \in Messages /\ n.ticket = generation' /\ n.click = clicks'
  BY <1>3 DEF Inv, PageInv, Messages, Send
<1> HIDE DEF n
<1>5. CounterInv'
  BY <1>2, <1>3 DEF Inv, CounterInv
<1>6. MessageInv'
  BY <1>1, <1>2, <1>3, <1>4 DEF Inv, CounterInv, MessageInv, Messages
<1>7. ServerInv' /\ PageInv' /\ ViewInv' /\ ScreenInv'
  BY <1>1, <1>2 DEF Inv, ServerInv, PageInv, ViewInv, ScreenInv
<1> QED
  BY <1>3, <1>5, <1>6, <1>7 DEF Inv

\* A page the buttons lead to is a page of the table.
LEMMA PageExists ==
  ASSUME Inv
  PROVE  /\ buttons.next => [current[1].request EXCEPT !.offset = @ + 1] \in Requests
         /\ buttons.previous => [current[1].request EXCEPT !.offset = @ - 1] \in Requests
<1> SUFFICES ASSUME buttons.next \/ buttons.previous
             PROVE  /\ buttons.next => [current[1].request EXCEPT !.offset = @ + 1] \in Requests
                    /\ buttons.previous => [current[1].request EXCEPT !.offset = @ - 1] \in Requests
  OBVIOUS
<1>1. current # <<>>
  BY DEF Inv, ScreenInv, NoButtons
<1>2. PICK v \in Kept : current = <<v>>
  BY <1>1 DEF Inv, ViewInv
<1>3. v.request \in Requests /\ v.result.request = v.request
  BY DEF Kept
<1>4. /\ buttons.next => v.request.offset < LastOffset
      /\ buttons.previous => v.request.offset # 0
  <2>1. /\ buttons.next = HasMore(v.result)
        /\ buttons.previous = (Tabular(v.result) /\ v.result.request.offset # 0)
    BY <1>1, <1>2 DEF Inv, ScreenInv
  <2> QED
    BY <1>3, <2>1 DEF HasMore
<1> QED
  BY <1>2, <1>3, <1>4, Bounds DEF Requests

\* ready: the page is bound, if at all, to what the first server pinned.
LEMMA BootedKeeps ==
  ASSUME Inv, NEW m \in net, Booted(m)
  PROVE  Inv'
<1>1. m \in Messages /\ m.reply[1] \in {Error, PinnedReply}
  BY SettledReply DEF Inv, MessageInv, Booted
<1>2. UNCHANGED <<archive, server, current, stack, generation, worksheetLoad, editorRevision, draft,
                  loads, rendered, buttons, historyVars>>
  BY DEF Booted
<1>3. /\ binding' = <<Bound>> \/ binding' = binding
      /\ boot' \in {"schema", "ready", "failed"}
      /\ status' = status \/ status' \in {"ready", "refused"}
  BY <1>1 DEF Booted, Error, PinnedReply, Reply, Workbench, Bound
<1>4. MessageInv'
  <2> DEFINE n == [m EXCEPT !.kind = "schema", !.binding = binding', !.reply = <<>>]
  <2>1. net' = net \ {m} \/ net' = (net \ {m}) \cup {n}
    BY DEF Booted
  <2>2. n \in Messages /\ n.ticket = m.ticket /\ n.click = m.click /\ n.kind = "schema"
    BY <1>1, <1>3 DEF Inv, PageInv, Messages
  <2> HIDE DEF n
  <2> QED
    BY <1>2, <2>1, <2>2 DEF Inv, MessageInv, historyVars
<1>5. PageInv' /\ ViewInv'
  BY <1>2, <1>3 DEF Inv, PageInv, ViewInv, historyVars
<1> QED
  BY <1>2, <1>4, <1>5 DEF Inv, ServerInv, CounterInv, ScreenInv, WorksheetInv, historyVars
\* render shows the view the page has just made its current one.
LEMMA RenderKeeps ==
  ASSUME NEW v, current' = <<v>>, render(v.result, Len(stack'))
  PROVE  ScreenInv' /\ status' = "shown"
<1>1. current'[1] = v /\ current' # <<>>
  OBVIOUS
<1> QED
  BY <1>1 DEF ScreenInv, render

\* navigate, after its await.
LEMMA DeliverKeeps ==
  ASSUME Inv, NEW m \in net, Deliver(m)
  PROVE  Inv'
<1> DEFINE r == m.reply[1]
           v == [request |-> m.request, result |-> Result(r, m.request)]
<1>1. m \in Messages /\ r \in {Error, PinnedReply}
  BY SettledReply DEF Inv, MessageInv, Deliver
<1>2. UNCHANGED <<archive, server, boot, binding, generation, worksheetLoad, editorRevision, draft,
                  loads, clicks, actions, opened, overwrote>>
  BY DEF Deliver
<1>3. ServerInv' /\ MessageInv' /\ WorksheetInv'
  BY <1>2 DEF Inv, ServerInv, MessageInv, WorksheetInv, Deliver
<1>4. CASE UNCHANGED <<current, stack, rendered, buttons, origin>> /\ status' \in {status, "refused"}
  BY <1>2, <1>3, <1>4 DEF Inv, PageInv, CounterInv, ViewInv, ScreenInv
<1>5. CASE /\ r.ok /\ m.ticket = generation /\ ~Stale(m, r)
           /\ stack' = Remember(current) /\ current' = <<v>>
           /\ render(Result(r, m.request), Len(stack')) /\ origin' = m.click
  <2>1. r = PinnedReply
    BY <1>1, <1>5 DEF Error
  <2>2. binding = <<Bound>>
    BY <1>5, <2>1 DEF Stale, PinnedReply, Reply, Workbench, Bound
  <2>3. v \in Kept
    BY <1>1, <2>1 DEF Messages, Kept, Answers, Result, PinnedReply, Reply, Workbench
  <2>4. m.click = clicks /\ opened < clicks
    BY <1>5 DEF Inv, MessageInv, Deliver
  <2>5. stack' \in Seq(Kept)
    <3>1. CASE current = <<>>
      BY <1>5, <3>1 DEF Remember, Inv, ViewInv
    <3>2. CASE current # <<>>
      <4>1. PICK w \in Kept : current = <<w>>
        BY <3>2 DEF Inv, ViewInv
      <4> QED
        BY <1>5, <3>2, <4>1 DEF Remember, Inv, ViewInv
    <3> QED
      BY <3>1, <3>2
  <2>6. ScreenInv' /\ status' = "shown"
    BY <1>5, RenderKeeps
  <2> HIDE DEF v, r
  <2>7. ViewInv'
    BY <1>2, <1>5, <2>2, <2>3, <2>4, <2>5 DEF Inv, ViewInv
  <2>8. PageInv'
    BY <1>2, <2>6 DEF Inv, PageInv
  <2>9. CounterInv'
    BY <1>2, <1>5, <2>4 DEF Inv, CounterInv
  <2> QED
    BY <1>3, <2>6, <2>7, <2>8, <2>9 DEF Inv
<1> QED
  BY <1>4, <1>5 DEF Deliver, Refusal

\* The back button is enabled only over a view to return to.
LEMMA BackHasView ==
  ASSUME Inv, Back
  PROVE  current # <<>> /\ Len(stack) > 0
<1>1. current # <<>>
  BY DEF Inv, ScreenInv, NoButtons, Back
<1>2. buttons.back = (Len(stack) > 0)
  BY <1>1 DEF Inv, ScreenInv
<1> QED
  BY <1>1, <1>2 DEF Back

\* Back returns to a view the page kept.
LEMMA BackKeeps ==
  ASSUME Inv, Back
  PROVE  Inv'
<1> DEFINE v == stack[Len(stack)]
<1>1. Click /\ current' = <<v>> /\ stack' = SubSeq(stack, 1, Len(stack) - 1)
      /\ render(v.result, Len(stack')) /\ origin' = clicks'
  BY DEF Back, BackClick
<1>2. UNCHANGED <<archive, server, net, boot, binding, editorRevision, draft, opened, overwrote>>
  BY DEF Back
<1>3. /\ generation' = generation + 1 /\ clicks' = clicks + 1
      /\ generation' \in Nat /\ clicks' \in Nat /\ worksheetLoad' \in Nat
      /\ WorksheetInv'
  BY <1>1, <1>2, ClickKeeps
<1>4. current # <<>> /\ Len(stack) > 0
  BY BackHasView
<1>5. v \in Kept /\ stack' \in Seq(Kept)
  BY <1>1, <1>4 DEF Inv, ViewInv
<1> HIDE DEF v
<1>6. ScreenInv' /\ status' = "shown"
  BY <1>1, RenderKeeps
<1>7. ViewInv'
  BY <1>1, <1>2, <1>3, <1>4, <1>5 DEF Inv, ViewInv, CounterInv
<1>8. MessageInv'
  BY <1>2, <1>3 DEF Inv, MessageInv, CounterInv, Messages
<1>9. ServerInv' /\ PageInv'
  BY <1>2, <1>6 DEF Inv, ServerInv, PageInv
<1>10. CounterInv'
  BY <1>1, <1>2, <1>3 DEF Inv, CounterInv
<1> QED
  BY <1>3, <1>6, <1>7, <1>8, <1>9, <1>10 DEF Inv

\* The members of a cell are part of an answer the page kept.
LEMMA OpenMembersKeeps ==
  ASSUME Inv, OpenMembers
  PROVE  Inv'
<1> DEFINE v == [request |-> current[1].request, result |-> [rendered[1] EXCEPT !.members = TRUE]]
<1>1. /\ Click /\ current' = <<v>> /\ stack' = Append(stack, current[1])
      /\ render(v.result, Len(stack')) /\ origin' = clicks'
  BY DEF OpenMembers
<1>2. UNCHANGED <<archive, server, net, boot, binding, editorRevision, draft, opened, overwrote>>
  BY DEF OpenMembers
<1>3. /\ generation' = generation + 1 /\ clicks' = clicks + 1
      /\ generation' \in Nat /\ clicks' \in Nat /\ worksheetLoad' \in Nat
      /\ WorksheetInv'
  BY <1>1, <1>2, ClickKeeps
<1>4. current # <<>>
  BY DEF Inv, ScreenInv, OpenMembers
<1>5. PICK w \in Kept : current = <<w>>
  BY <1>4 DEF Inv, ViewInv
<1>6. rendered[1] = w.result
  BY <1>4, <1>5 DEF Inv, ScreenInv
<1>7. v \in Kept
  BY <1>5, <1>6 DEF Kept, Answers
<1>8. stack' \in Seq(Kept)
  BY <1>1, <1>5 DEF Inv, ViewInv
<1> HIDE DEF v
<1>9. ScreenInv' /\ status' = "shown"
  BY <1>1, RenderKeeps
<1>10. ViewInv'
  BY <1>1, <1>2, <1>3, <1>4, <1>7, <1>8 DEF Inv, ViewInv, CounterInv
<1>11. MessageInv'
  BY <1>2, <1>3 DEF Inv, MessageInv, CounterInv, Messages
<1>12. ServerInv' /\ PageInv'
  BY <1>2, <1>9 DEF Inv, ServerInv, PageInv
<1>13. CounterInv'
  BY <1>1, <1>2, <1>3 DEF Inv, CounterInv
<1> QED
  BY <1>3, <1>9, <1>10, <1>11, <1>12, <1>13 DEF Inv
\* worksheetEdited: every file that is still being read is now out of date.
LEMMA EditKeeps ==
  ASSUME Inv, Edit
  PROVE  Inv'
<1>1. editorRevision' = editorRevision + 1 /\ draft' = "typed"
  BY DEF Edit
<1>2. UNCHANGED <<archive, server, net, boot, binding, current, stack, generation, worksheetLoad,
                  rendered, buttons, status, clicks, origin, opened, overwrote>>
  BY DEF Edit
<1>3. ASSUME NEW k \in loads'
      PROVE  /\ k \in Loads /\ k.ticket \in 1 .. worksheetLoad /\ k.revision < editorRevision'
             /\ k.late => k.ticket < worksheetLoad
  <2>1. PICK l \in loads : k = [l EXCEPT !.dirty = TRUE]
    BY DEF Edit
  <2>2. /\ l \in Loads /\ l.ticket \in 1 .. worksheetLoad /\ l.revision <= editorRevision
        /\ l.late => l.ticket < worksheetLoad
    BY DEF Inv, WorksheetInv
  <2>3. k \in Loads /\ k.ticket = l.ticket /\ k.revision = l.revision /\ k.late = l.late
    BY <2>1, <2>2 DEF Loads
  <2> QED
    BY <1>1, <2>2, <2>3 DEF Inv, CounterInv, Loads
<1>4. WorksheetInv'
  BY <1>1, <1>2, <1>3 DEF Inv, CounterInv, WorksheetInv, Loads
<1>5. PageInv' /\ CounterInv'
  <2>1. draft' \in Drafts
    BY <1>1 DEF Drafts
  <2>2. PageInv'
    BY <1>2, <2>1 DEF Inv, PageInv
  <2> QED
    BY <1>1, <1>2, <2>2 DEF Inv, CounterInv
<1> QED
  BY <1>2, <1>4, <1>5 DEF Inv, ServerInv, MessageInv, ViewInv, ScreenInv

\* Choosing a file, or closing the chooser, supersedes the file before it.
LEMMA SupersedeKeeps ==
  ASSUME Inv, worksheetLoad' = worksheetLoad + 1,
         UNCHANGED <<editorRevision, overwrote>>,
         \A k \in loads' : \/ \E l \in loads : k = [l EXCEPT !.late = TRUE]
                           \/ \E d \in Databases :
                                k = [ticket |-> worksheetLoad', revision |-> editorRevision,
                                     digest |-> d, late |-> FALSE, dirty |-> FALSE]
  PROVE  WorksheetInv' /\ worksheetLoad' \in Nat
<1>1. worksheetLoad' \in Nat /\ worksheetLoad' \in 1 .. worksheetLoad'
  BY DEF Inv, CounterInv
<1>2. ASSUME NEW k \in loads'
      PROVE  /\ k \in Loads /\ k.ticket \in 1 .. worksheetLoad' /\ k.revision <= editorRevision
             /\ k.late => k.ticket < worksheetLoad'
             /\ k.dirty => k.revision < editorRevision
  <2>1. ASSUME NEW l \in loads, k = [l EXCEPT !.late = TRUE]
        PROVE  <1>2!2
    <3>1. /\ l \in Loads /\ l.ticket \in 1 .. worksheetLoad /\ l.revision <= editorRevision
          /\ l.dirty => l.revision < editorRevision
      BY DEF Inv, WorksheetInv
    <3>2. k \in Loads /\ k.ticket = l.ticket /\ k.revision = l.revision /\ k.dirty = l.dirty
      BY <2>1, <3>1 DEF Loads
    <3> QED
      BY <1>1, <3>1, <3>2 DEF Inv, CounterInv
  <2>2. ASSUME NEW d \in Databases,
               k = [ticket |-> worksheetLoad', revision |-> editorRevision,
                    digest |-> d, late |-> FALSE, dirty |-> FALSE]
        PROVE  <1>2!2
    BY <1>1, <2>2 DEF Inv, CounterInv, Loads
  <2> QED
    BY <2>1, <2>2
<1> QED
  BY <1>1, <1>2 DEF Inv, WorksheetInv

\* openWorksheet, up to its await, and a chooser that is closed again.
LEMMA ChooseFileKeeps ==
  ASSUME Inv, NEW d \in Databases, ChooseFile(d) \/ CancelFile
  PROVE  Inv'
<1>1. worksheetLoad' = worksheetLoad + 1
  BY DEF ChooseFile, CancelFile, Supersede
<1>2. UNCHANGED <<archive, server, net, boot, binding, current, stack, generation, editorRevision,
                  draft, rendered, buttons, status, clicks, origin, opened, overwrote>>
  BY DEF ChooseFile, CancelFile, Supersede
<1>3. \A k \in loads' : \/ \E l \in loads : k = [l EXCEPT !.late = TRUE]
                        \/ \E e \in Databases :
                             k = [ticket |-> worksheetLoad', revision |-> editorRevision,
                                  digest |-> e, late |-> FALSE, dirty |-> FALSE]
  BY DEF ChooseFile, CancelFile, Supersede
<1>4. WorksheetInv' /\ worksheetLoad' \in Nat
  BY <1>1, <1>2, <1>3, SupersedeKeeps
<1>5. CounterInv'
  BY <1>2, <1>4 DEF Inv, CounterInv
<1> QED
  BY <1>2, <1>4, <1>5 DEF Inv, ServerInv, MessageInv, PageInv, ViewInv, ScreenInv

\* openWorksheet, after its await: a file that is accepted is the last thing
\* the user asked for.
LEMMA FileReadKeeps ==
  ASSUME Inv, NEW l \in loads, FileRead(l)
  PROVE  Inv'
<1>1. UNCHANGED <<archive, server, net, boot, binding, worksheetLoad, clicks, origin, actions>>
  BY DEF FileRead
<1>2. CASE /\ loads' = loads \ {l}
           /\ UNCHANGED <<current, stack, generation, editorRevision, draft, rendered, buttons,
                          status, opened, overwrote>>
  BY <1>1, <1>2
  DEF Inv, ServerInv, MessageInv, PageInv, CounterInv, ViewInv, ScreenInv, WorksheetInv
<1>3. CASE /\ l.ticket = worksheetLoad /\ worksheetAccepts(l)
           /\ editorRevision' = editorRevision + 1 /\ draft' = "file" /\ Forget
           /\ loads' = {[k EXCEPT !.dirty = TRUE] : k \in loads \ {l}}
           /\ opened' = clicks /\ overwrote' = (overwrote \/ l.late \/ l.dirty)
  <2>1. /\ generation' = generation + 1
        /\ current' = <<>> /\ stack' = <<>> /\ rendered' = <<>> /\ status' = "reopened"
        /\ buttons' = NoButtons
    BY <1>3 DEF Forget
  <2>2. ~l.late /\ ~l.dirty
    BY <1>3 DEF Inv, CounterInv, WorksheetInv, worksheetAccepts
  <2>3. overwrote' = FALSE
    BY <1>3, <2>2, Zenon DEF Inv, WorksheetInv
  <2>4. ASSUME NEW k \in loads'
        PROVE  /\ k \in Loads /\ k.ticket \in 1 .. worksheetLoad /\ k.revision < editorRevision'
               /\ k.late => k.ticket < worksheetLoad
    <3>1. PICK j \in loads : k = [j EXCEPT !.dirty = TRUE]
      BY <1>3
    <3>2. /\ j \in Loads /\ j.ticket \in 1 .. worksheetLoad /\ j.revision <= editorRevision
          /\ j.late => j.ticket < worksheetLoad
      BY DEF Inv, WorksheetInv
    <3>3. k \in Loads /\ k.ticket = j.ticket /\ k.revision = j.revision /\ k.late = j.late
      BY <3>1, <3>2 DEF Loads
    <3> QED
      BY <1>3, <3>2, <3>3 DEF Inv, CounterInv, Loads
  <2>5. WorksheetInv'
    BY <1>1, <1>3, <2>3, <2>4 DEF Inv, CounterInv, WorksheetInv, Loads
  <2>6. MessageInv'
    BY <1>1, <2>1 DEF Inv, MessageInv, CounterInv, Messages
  <2>7. ServerInv' /\ PageInv' /\ CounterInv'
    <3>1. draft' \in Drafts
      BY <1>3 DEF Drafts
    <3>2. PageInv'
      BY <1>1, <2>1, <3>1 DEF Inv, PageInv
    <3>3. CounterInv'
      BY <1>1, <1>3, <2>1 DEF Inv, CounterInv
    <3> QED
      BY <1>1, <3>2, <3>3 DEF Inv, ServerInv
  <2>8. ViewInv' /\ ScreenInv'
    BY <2>1 DEF ViewInv, ScreenInv
  <2> QED
    BY <2>5, <2>6, <2>7, <2>8 DEF Inv
<1> QED
  BY <1>2, <1>3 DEF FileRead

\* Every step of the server, the network, the page and its user keeps Inv.
LEMMA InvNext == Inv /\ [Next]_vars => Inv'
<1> SUFFICES ASSUME Inv, [Next]_vars
             PROVE  Inv'
  OBVIOUS
<1>1. ASSUME NEW m \in net, Serve(m)
      PROVE  Inv'
  <2>1. m \in Messages
    BY DEF Inv, MessageInv
  <2>2. PICK r \in {Error, PinnedReply} : net' = (net \ {m}) \cup {[m EXCEPT !.reply = <<r>>]}
    BY <1>1, <2>1, AnswerIsPinned DEF Serve, Inv
  <2>3. UNCHANGED <<archive, server, pageVars, historyVars>>
    BY <1>1 DEF Serve
  <2>4. MessageInv'
    BY <2>2, <2>3, SettleKeepsMessages DEF Inv, pageVars, historyVars
  <2> QED
    BY <2>3, <2>4, ServerStep DEF Inv, ServerInv
<1>2. ASSUME NEW m \in net, Lose(m)
      PROVE  Inv'
  <2>1. UNCHANGED <<archive, server, pageVars, historyVars>>
    BY <1>2 DEF Lose
  <2>2. MessageInv'
    BY <1>2, <2>1, SettleKeepsMessages DEF Lose, Inv, pageVars, historyVars
  <2> QED
    BY <2>1, <2>2, ServerStep DEF Inv, ServerInv
<1>3. ASSUME Restart
      PROVE  Inv'
  <2>1. ServerInv'
    BY <1>3, Bounds DEF Restart, Inv, ServerInv, Servers, Workbench
  <2> QED
    BY <1>3, <2>1, ServerStep DEF Restart, Inv, MessageInv, pageVars, historyVars
<1>4. ASSUME ReplaceArchive
      PROVE  Inv'
  <2>1. ServerInv'
    BY <1>4 DEF ReplaceArchive, Inv, ServerInv
  <2> QED
    BY <1>4, <2>1, ServerStep DEF ReplaceArchive, Inv, MessageInv, pageVars, historyVars
<1>5. ASSUME NEW op \in {"rows", "crosstab"}, Browse(op)
      PROVE  Inv'
  <2>1. Request(op, 0, "") \in Requests
    BY FirstPage DEF Drafts
  <2> QED
    BY <1>5, <2>1, NavigateKeeps DEF Browse
<1>6. ASSUME RunQuery
      PROVE  Inv'
  <2>1. Request("query", 0, draft) \in Requests
    <3>1. draft \in Drafts
      BY DEF Inv, PageInv
    <3> QED
      BY <3>1, FirstPage
  <2> QED
    BY <1>6, <2>1, NavigateKeeps DEF RunQuery
<1>7. ASSUME FollowRelation
      PROVE  Inv'
  <2>1. Request("related", 0, "") \in Requests
    BY FirstPage DEF Drafts
  <2> QED
    BY <1>7, <2>1, NavigateKeeps DEF FollowRelation
<1>8. ASSUME NextPage \/ PreviousPage
      PROVE  Inv'
  BY <1>8, PageExists, NavigateKeeps DEF NextPage, PreviousPage
<1>9. ASSUME UNCHANGED vars
      PROVE  Inv'
  BY <1>9, ServerStep DEF vars, Inv, ServerInv, MessageInv, pageVars, historyVars
<1> QED
  BY <1>1, <1>2, <1>3, <1>4, <1>5, <1>6, <1>7, <1>8, <1>9, Bounds, BootedKeeps,
     DeliverKeeps, OpenMembersKeeps, BackKeeps, EditKeeps, ChooseFileKeeps, FileReadKeeps
  DEF Next

\* The page starts with nothing, and its first request under way.
LEMMA InvInit == Init => Inv
<1> SUFFICES ASSUME Init
             PROVE  Inv
  OBVIOUS
<1>a. archive = First /\ server = Workbench(First, 1)
  BY DEF Init
<1>b. boot = "bootstrap" /\ binding = <<>> /\ status = "" /\ draft = ""
  BY DEF Init
<1>c. /\ generation = 0 /\ worksheetLoad = 0 /\ editorRevision = 0
      /\ clicks = 0 /\ origin = 0 /\ opened = 0
  BY DEF Init
<1>d. current = <<>> /\ stack = <<>> /\ rendered = <<>> /\ buttons = NoButtons
  BY DEF Init
<1>e. loads = {} /\ overwrote = FALSE
  BY DEF Init
<1>1. ServerInv
  BY <1>a, Bounds DEF ServerInv, Servers, Workbench
<1>2. draft \in Drafts /\ Request("schema", 0, "") \in Requests
  <2>1. "" \in Drafts
    BY Zenon DEF Drafts
  <2> QED
    BY <1>b, <2>1, FirstPage, Zenon
<1>3. MessageInv
  <2> DEFINE n == [kind |-> "bootstrap", token |-> PageToken, binding |-> <<>>, ticket |-> 0,
                   click |-> 0, request |-> Request("schema", 0, ""), reply |-> <<>>]
  <2>1. n \in Messages /\ n.ticket = 0 /\ n.click = 0 /\ n.kind = "bootstrap"
    BY <1>2 DEF Messages
  <2>2. net = {n} /\ generation = 0 /\ clicks = 0
    BY DEF Init
  <2> HIDE DEF n
  <2> QED
    BY <2>1, <2>2 DEF MessageInv
<1>4. PageInv /\ CounterInv
  <2>1. PageInv
    BY <1>b, <1>2, Zenon DEF PageInv
  <2> QED
    BY <1>c, <2>1 DEF CounterInv
<1>5. ViewInv /\ ScreenInv /\ WorksheetInv
  BY <1>d, <1>e DEF ViewInv, ScreenInv, WorksheetInv
<1> QED
  BY <1>1, <1>3, <1>4, <1>5 DEF Inv

\* Inv holds in every state of the workbench.
THEOREM WorkbenchInvariant == Spec => []Inv
  BY InvInit, InvNext, PTL DEF Spec

\* The line about worksheets.
LineInv ==
  /\ worksheetStatus \in {"", "reading", "cancelled", "refused", "reopened"}
  /\ superseded \in BOOLEAN

LEMMA LineNext == LineInv /\ [Next]_vars => LineInv'
<1> SUFFICES ASSUME LineInv, [Next]_vars
             PROVE  LineInv'
  OBVIOUS
<1> DEFINE Same == UNCHANGED <<worksheetStatus, superseded>>
<1>1. ASSUME Supersede, worksheetStatus' \in {worksheetStatus, "reading", "cancelled"}
      PROVE  LineInv'
  <2>1. superseded' \in BOOLEAN
    BY <1>1, Zenon DEF Supersede
  <2> QED
    BY <1>1, <2>1 DEF LineInv
<1>2. ASSUME Click \/ CancelFile
      PROVE  LineInv'
  BY <1>1, <1>2 DEF Click, CancelFile
<1>3. ASSUME NEW d \in Databases, ChooseFile(d)
      PROVE  LineInv'
  <2>1. worksheetStatus' = "reading" /\ superseded' = FALSE
    BY <1>3 DEF ChooseFile
  <2> QED
    BY <2>1, Zenon DEF LineInv
<1>4. ASSUME NEW l \in loads, FileRead(l)
      PROVE  LineInv'
  <2>1. superseded' = superseded /\ worksheetStatus' \in {worksheetStatus, "refused", "reopened"}
    BY <1>4 DEF FileRead, WorksheetRefusal
  <2> QED
    BY <2>1 DEF LineInv
<1>5. ASSUME Same
      PROVE  LineInv'
  BY <1>5 DEF LineInv
<1>6. ASSUME NEW m \in net, Serve(m) \/ Lose(m) \/ Booted(m) \/ Deliver(m)
      PROVE  LineInv'
  BY <1>5, <1>6 DEF Serve, Lose, Booted, Deliver, pageVars, historyVars
<1>7. ASSUME Restart \/ ReplaceArchive \/ Edit \/ UNCHANGED vars
      PROVE  LineInv'
  BY <1>5, <1>7 DEF Restart, ReplaceArchive, Edit, vars, pageVars, historyVars
<1>8. ASSUME NEW request, navigate(request)
      PROVE  LineInv'
  BY <1>2, <1>8 DEF navigate
<1>9. ASSUME OpenMembers \/ Back
      PROVE  LineInv'
  BY <1>2, <1>9 DEF OpenMembers, Back, BackClick
<1>10. ASSUME \/ \E op \in {"rows", "crosstab"} : Browse(op)
              \/ RunQuery \/ FollowRelation \/ NextPage \/ PreviousPage
       PROVE  LineInv'
  BY <1>8, <1>10 DEF Browse, RunQuery, FollowRelation, NextPage, PreviousPage
<1> QED
  BY <1>2, <1>3, <1>4, <1>6, <1>7, <1>9, <1>10 DEF Next

LEMMA LineInvariant == Spec => []LineInv
<1>1. Init => LineInv
  <2>1. Init => worksheetStatus = "" /\ superseded = FALSE
    BY DEF Init
  <2> QED
    BY <2>1, Zenon DEF LineInv
<1> QED
  BY <1>1, LineNext, PTL DEF Spec

(***************************************************************************)
(* Everything the workbench keeps has its type: every page asked for       *)
(* exists, every ticket was issued.                                        *)
(***************************************************************************)
THEOREM TypeCorrect == Spec => []TypeOK
<1>1. ASSUME Inv, LineInv
      PROVE  TypeOK
  <2>1. /\ Bound \in Bindings /\ Error \in Replies /\ PinnedReply \in Replies
    BY Bounds DEF Bound, Bindings, Error, Replies, PinnedReply, Reply, Workbench
  <2>2. ASSUME NEW v \in Kept
        PROVE  IsView(v)
    <3>1. v.request \in Requests /\ v.result \in Answers({1}, {First})
      BY DEF Kept
    <3>2. v.result \in Answers(1 .. MaxRestarts + 1, Databases)
      BY <3>1, Bounds DEF Answers
    <3> QED
      BY <3>1, <3>2 DEF IsView
  <2>3. ASSUME NEW m \in net
        PROVE  /\ m.kind \in {"bootstrap", "schema", "navigate"} /\ m.request \in Requests
               /\ m.ticket \in 0 .. generation /\ m.click \in 0 .. clicks
               /\ m.reply = <<>> \/ m.reply[1] \in Replies
               /\ m.binding = <<>> \/ m.binding[1] \in Bindings
    <3>1. m \in Messages /\ m.ticket <= generation /\ m.click <= clicks
      BY <1>1 DEF Inv, MessageInv
    <3>2. m.ticket \in 0 .. generation /\ m.click \in 0 .. clicks
      BY <1>1, <3>1 DEF Inv, CounterInv, Messages
    <3>3. m.reply = <<>> \/ m.reply[1] \in Replies
      BY <2>1, <3>1, SettledReply
    <3> QED
      BY <2>1, <3>1, <3>2, <3>3 DEF Messages
  <2>4. binding = <<>> \/ binding[1] \in Bindings
    <3>1. binding \in {<<>>, <<Bound>>}
      BY <1>1 DEF Inv, PageInv
    <3> QED
      BY <2>1, <3>1
  <2>5. Len(current) <= 1 /\ \A i \in DOMAIN current : IsView(current[i])
    <3>1. CASE current = <<>>
      BY <3>1
    <3>2. CASE current # <<>>
      <4>1. PICK v \in Kept : current = <<v>>
        BY <1>1, <3>2 DEF Inv, ViewInv
      <4> QED
        BY <2>2, <4>1
    <3> QED
      BY <3>1, <3>2
  <2>6. \A i \in DOMAIN stack : IsView(stack[i])
    BY <1>1, <2>2 DEF Inv, ViewInv
  <2>7. \A l \in loads : l.ticket \in 1 .. worksheetLoad /\ l.revision \in 0 .. editorRevision
    BY <1>1 DEF Inv, WorksheetInv, CounterInv, Loads
  <2>8. {overwrote, superseded} \subseteq BOOLEAN
    BY <1>1 DEF Inv, WorksheetInv, LineInv
  <2> QED
    BY <1>1, <2>3, <2>4, <2>5, <2>6, <2>7, <2>8
    DEF TypeOK, Inv, ServerInv, Servers, PageInv, CounterInv, LineInv
<1> QED
  BY <1>1, WorkbenchInvariant, LineInvariant, PTL

(***************************************************************************)
(* Every successful answer was computed from the database whose            *)
(* fingerprint it carries, and the page keeps answers of its own session   *)
(* only, for any number of restarts and replaced archives.                 *)
(***************************************************************************)
THEOREM AnswersArePinned == Spec => []ServedIsPinned
<1>1. ASSUME Inv
      PROVE  ServedIsPinned
  <2>1. ASSUME NEW m \in net, m.reply # <<>>, m.reply[1].ok
        PROVE  m.reply[1].content = m.reply[1].digest
    BY <1>1, <2>1, SettledReply DEF Inv, MessageInv, Error, PinnedReply, Reply, Workbench
  <2>2. ASSUME NEW v \in Kept
        PROVE  /\ v.result.content = v.result.digest
               /\ <<Bound>> = <<[session |-> v.result.session, digest |-> v.result.digest]>>
    BY DEF Kept, Answers, Bound
  <2>3. ASSUME NEW i \in DOMAIN current
        PROVE  current[i] \in Kept /\ binding = <<Bound>>
    BY <1>1 DEF Inv, ViewInv
  <2>4. ASSUME NEW i \in DOMAIN stack
        PROVE  stack[i] \in Kept /\ binding = <<Bound>>
    BY <1>1 DEF Inv, ViewInv
  <2> QED
    BY <2>1, <2>2, <2>3, <2>4 DEF ServedIsPinned
<1> QED
  BY <1>1, WorkbenchInvariant, PTL

(***************************************************************************)
(* The table on the screen, the buttons and the download agree, and what   *)
(* is shown was asked for after the last worksheet was opened.             *)
(***************************************************************************)
THEOREM ScreenIsTruthful == Spec => []ScreenTruthful
<1>1. ASSUME Inv
      PROVE  ShownIsCurrent
  <2>1. CASE current = <<>>
    BY <1>1, <2>1 DEF Inv, ViewInv, ScreenInv, ShownIsCurrent
  <2>2. CASE current # <<>>
    <3>1. PICK v \in Kept : current = <<v>>
      BY <1>1, <2>2 DEF Inv, ViewInv
    <3> DEFINE result == v.result
    <3>2. /\ rendered = <<result>>
          /\ buttons.back = (Len(stack) > 0)
          /\ buttons.previous = (Tabular(result) /\ result.request.offset # 0)
          /\ buttons.next = HasMore(result)
          /\ buttons.download = ~Matrix(result)
      BY <1>1, <2>2, <3>1 DEF Inv, ScreenInv
    <3>3. result.request.offset \in Nat /\ result.members \in BOOLEAN
      BY <3>1, Bounds DEF Kept, Answers, Requests
    <3>4. buttons.back = (stack # <<>>)
      BY <1>1, <3>2 DEF Inv, ViewInv
    <3>5. buttons.download = (result.members \/ result.request.op # "crosstab")
      BY <3>2, <3>3 DEF Matrix
    <3>6. buttons.next => result.request.offset < LastOffset
      BY <3>2 DEF HasMore
    <3>7. buttons.previous => result.request.offset > 0
      <4>1. buttons.previous => result.request.offset # 0
        BY <3>2, Zenon
      <4> QED
        BY <3>3, <4>1
    <3> HIDE DEF result
    <3> QED
      BY <2>2, <3>1, <3>2, <3>4, <3>5, <3>6, <3>7 DEF ShownIsCurrent, result
  <2> QED
    BY <2>1, <2>2
<1>2. ASSUME Inv
      PROVE  NoResultForUnrunDraft
  BY <1>2 DEF Inv, ViewInv, CounterInv, NoResultForUnrunDraft
<1>3. Inv => ScreenTruthful
  BY <1>1, <1>2 DEF ScreenTruthful
<1> QED
  BY <1>3, WorkbenchInvariant, PTL

(***************************************************************************)
(* openWorksheet never replaces an editor the user typed in, or opens a    *)
(* file after another click: its two conditions see every one of them.     *)
(***************************************************************************)
THEOREM EditorIsKept == Spec => []NothingOverwritten
<1>1. Inv => NothingOverwritten
  BY DEF Inv, WorksheetInv, NothingOverwritten
<1> QED
  BY <1>1, WorkbenchInvariant, PTL

(***************************************************************************)
(* An answer changes the view only if it answers the user's last click.    *)
(***************************************************************************)
THEOREM AnswersFollowClicks == Spec => AnswerFollowsLastClick
<1>1. Inv /\ [Next]_vars => [origin' # origin => origin' = clicks']_vars
  <2> SUFFICES ASSUME Inv, Next, origin' # origin
               PROVE  origin' = clicks'
    OBVIOUS
  <2>1. ASSUME NEW m \in net, Deliver(m)
        PROVE  origin' = clicks'
    <3>1. m.kind = "navigate" /\ m.ticket = generation /\ origin' = m.click /\ clicks' = clicks
      BY <2>1 DEF Deliver
    <3> QED
      BY <3>1 DEF Inv, MessageInv
  <2>2. ASSUME OpenMembers \/ Back
        PROVE  origin' = clicks'
    BY <2>2 DEF OpenMembers, Back
  <2> QED
    BY <2>1, <2>2
    DEF Next, Serve, Lose, Booted, Restart, ReplaceArchive, Browse, RunQuery, FollowRelation,
        NextPage, PreviousPage, navigate, Edit, CancelFile, ChooseFile, FileRead, historyVars
<1> QED
  BY <1>1, WorkbenchInvariant, PTL DEF Spec, AnswerFollowsLastClick
-----------------------------------------------------------------------------
(***************************************************************************)
(* The refinement: the page is a history of views of one database.         *)
(***************************************************************************)

HistoryViews == [i \in 1 .. Len(stack) + Len(current) |->
                   IF i <= Len(stack) THEN stack[i].result ELSE current[1].result]
PinnedViews == Answers({1}, {First})

\* The history is a sequence of answers about the pinned database, and as
\* long as what the page keeps.
LEMMA HistoryIsSeq ==
  ASSUME ViewInv
  PROVE  /\ HistoryViews \in Seq(PinnedViews)
         /\ Len(HistoryViews) = Len(stack) + Len(current)
         /\ Len(stack) \in Nat /\ Len(current) \in {0, 1}
         /\ current # <<>> => Len(current) = 1
<1>1. Len(stack) \in Nat /\ \A i \in 1 .. Len(stack) : stack[i].result \in PinnedViews
  <2>1. \A v \in Kept : v.result \in PinnedViews
    BY DEF Kept, PinnedViews
  <2>2. stack \in Seq(Kept)
    BY DEF ViewInv
  <2> QED
    BY <2>1, <2>2
<1>2. CASE current = <<>>
  BY <1>1, <1>2 DEF HistoryViews
<1>3. CASE current # <<>>
  <2>1. PICK v \in Kept : current = <<v>>
    BY <1>3 DEF ViewInv
  <2>2. current[1].result \in PinnedViews /\ Len(current) = 1
    BY <2>1 DEF Kept, PinnedViews
  <2> QED
    BY <1>1, <2>2 DEF HistoryViews
<1> QED
  BY <1>2, <1>3

\* A new current view, the old one remembered, is one more view.
LEMMA ViewShown ==
  ASSUME ViewInv, ViewInv', NEW v \in Kept, current' = <<v>>, stack' = Remember(current)
  PROVE  HistoryViews' = Append(HistoryViews, v.result)
<1> DEFINE n == Len(stack) + Len(current)
<1>1. /\ HistoryViews \in Seq(PinnedViews) /\ Len(HistoryViews) = n /\ n \in Nat
  BY HistoryIsSeq
<1>2. Len(current') = 1 /\ current'[1] = v
  OBVIOUS
<1>3. Len(stack') = n /\ \A i \in 1 .. n : stack'[i].result = HistoryViews[i]
  <2>1. CASE current = <<>>
    BY <2>1 DEF ViewInv, Remember, HistoryViews
  <2>2. CASE current # <<>>
    <3>1. PICK w \in Kept : current = <<w>>
      BY <2>2 DEF ViewInv
    <3>2. stack \in Seq(Kept) /\ stack' = Append(stack, w) /\ Len(current) = 1 /\ current[1] = w
      BY <2>2, <3>1 DEF ViewInv, Remember
    <3> QED
      BY <3>2 DEF HistoryViews
  <2> QED
    BY <2>1, <2>2
<1>4. HistoryViews' = [i \in 1 .. n + 1 |-> IF i <= n THEN stack'[i].result ELSE v.result]
  BY <1>2, <1>3 DEF HistoryViews
<1> HIDE DEF n
<1>5. Append(HistoryViews, v.result) = [i \in 1 .. n + 1 |-> IF i <= n THEN HistoryViews[i] ELSE v.result]
  BY <1>1
<1> QED
  BY <1>1, <1>3, <1>4, <1>5
\* The last view taken off the history is the one before.
LEMMA ViewLeft ==
  ASSUME ViewInv, ViewInv', current # <<>>, Len(stack) > 0,
         current' = <<stack[Len(stack)]>>, stack' = SubSeq(stack, 1, Len(stack) - 1)
  PROVE  /\ Len(HistoryViews) > 1
         /\ HistoryViews' = SubSeq(HistoryViews, 1, Len(HistoryViews) - 1)
<1> DEFINE n == Len(stack)
<1>1. /\ HistoryViews \in Seq(PinnedViews) /\ Len(HistoryViews) = n + 1
      /\ stack \in Seq(Kept) /\ n \in Nat /\ n > 0
  BY HistoryIsSeq DEF ViewInv
<1>2. /\ Len(stack') = n - 1 /\ Len(current') = 1 /\ current'[1] = stack[n]
      /\ \A i \in 1 .. n - 1 : stack'[i] = stack[i]
  BY <1>1
<1>3. \A i \in 1 .. n : HistoryViews[i] = stack[i].result
  BY <1>1, HistoryIsSeq DEF HistoryViews
<1>4. HistoryViews' = [i \in 1 .. n |-> IF i <= n - 1 THEN stack'[i].result ELSE stack[n].result]
  BY <1>1, <1>2 DEF HistoryViews
<1>5. HistoryViews' = [i \in 1 .. n |-> HistoryViews[i]]
  <2>1. \A i \in 1 .. n : (IF i <= n - 1 THEN stack'[i].result ELSE stack[n].result) = HistoryViews[i]
    BY <1>1, <1>2, <1>3
  <2> QED
    BY <1>4, <2>1
<1> HIDE DEF n
<1>6. SubSeq(HistoryViews, 1, n) = [i \in 1 .. n |-> HistoryViews[i]]
  BY <1>1
<1> QED
  BY <1>1, <1>5, <1>6

(***************************************************************************)
(* The page implements ReviewHistory: whatever the network, the server and *)
(* the user do, what it shows is a history of views of the one database it *)
(* was bound to first, that grows by one view, goes back by one, or is     *)
(* forgotten.                                                              *)
(***************************************************************************)
THEOREM PageIsHistory == Spec => ImplementsHistory
<1>1. Init => History!Init
  <2>1. ASSUME stack = <<>>, current = <<>>
        PROVE  HistoryViews = <<>>
    BY <2>1 DEF HistoryViews
  <2>2. Init => stack = <<>> /\ current = <<>>
    BY DEF Init
  <2> QED
    BY <2>1, <2>2 DEF History!Init, HistoryViews
<1>2. Inv /\ Inv' /\ [Next]_vars => [History!Next]_HistoryViews
  <2> SUFFICES ASSUME Inv, Inv', [Next]_vars
               PROVE  History!Next \/ UNCHANGED HistoryViews
    OBVIOUS
  <2>0. ViewInv /\ ViewInv'
    BY DEF Inv
  <2>1. ASSUME NEW v \in Kept, HistoryViews' = Append(HistoryViews, v.result)
        PROVE  History!Next
    <3>1. v.result \in Answers({1}, {First})
      BY DEF Kept
    <3> QED
      BY <2>1, <3>1 DEF History!Next, History!Show, HistoryViews
  <2>2. ASSUME NEW m \in net, Deliver(m)
        PROVE  History!Next \/ UNCHANGED HistoryViews
    <3>1. CASE UNCHANGED <<stack, current>>
      BY <3>1 DEF HistoryViews
    <3>2. CASE /\ stack' = Remember(current)
               /\ current' = <<[request |-> m.request, result |-> Result(m.reply[1], m.request)]>>
      <4>1. PICK v \in Kept : current' = <<v>>
        BY <2>0, <3>2 DEF ViewInv
      <4> QED
        BY <2>0, <2>1, <3>2, <4>1, ViewShown
    <3> QED
      BY <2>2, <3>1, <3>2 DEF Deliver
  <2>3. ASSUME OpenMembers
        PROVE  History!Next
    <3>1. rendered # <<>> /\ stack' = Append(stack, current[1]) /\ current' # <<>>
      BY <2>3 DEF OpenMembers
    <3>2. current # <<>>
      BY <3>1 DEF Inv, ScreenInv
    <3>3. stack' = Remember(current)
      BY <3>1, <3>2 DEF Remember
    <3>4. PICK v \in Kept : current' = <<v>>
      BY <2>0, <3>1 DEF ViewInv
    <3> QED
      BY <2>0, <2>1, <3>3, <3>4, ViewShown
  <2>4. ASSUME Back
        PROVE  History!Next
    <3>1. current # <<>> /\ Len(stack) > 0
      BY <2>4, BackHasView
    <3>2. /\ Len(HistoryViews) > 1
          /\ HistoryViews' = SubSeq(HistoryViews, 1, Len(HistoryViews) - 1)
      BY <2>0, <2>4, <3>1, ViewLeft DEF Back
    <3> QED
      BY <3>2 DEF History!Next, History!Back, HistoryViews
  <2>5. ASSUME NEW l \in loads, FileRead(l)
        PROVE  History!Next \/ UNCHANGED HistoryViews
    <3>1. CASE UNCHANGED <<stack, current>>
      BY <3>1 DEF HistoryViews
    <3>2. CASE stack' = <<>> /\ current' = <<>>
      <4>1. HistoryViews' = <<>>
        BY <3>2 DEF HistoryViews
      <4> QED
        BY <4>1 DEF History!Next, History!Forget, HistoryViews
    <3> QED
      BY <2>5, <3>1, <3>2 DEF FileRead, Forget
  <2>6. ASSUME UNCHANGED <<stack, current>>
        PROVE  UNCHANGED HistoryViews
    BY <2>6 DEF HistoryViews
  <2> QED
    BY <2>2, <2>3, <2>4, <2>5, <2>6
    DEF Next, Serve, Lose, Booted, Restart, ReplaceArchive, Browse, RunQuery, FollowRelation,
        NextPage, PreviousPage, navigate, Edit, CancelFile, ChooseFile, pageVars, vars
<1> QED
  BY <1>1, <1>2, WorkbenchInvariant, PTL DEF Spec, ImplementsHistory, History!Spec, HistoryViews
=============================================================================
