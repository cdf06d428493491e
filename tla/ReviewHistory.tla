---------------------------- MODULE ReviewHistory ----------------------------
(***************************************************************************)
(* What the review workbench promises its user: a history of views, each   *)
(* an answer about the one pinned database.  Looking at something new adds *)
(* a view, going back returns to the view before, and opening a worksheet  *)
(* forgets them all.  Nothing else changes what is on the screen.          *)
(***************************************************************************)
EXTENDS Naturals, Sequences

CONSTANT Views      \* the answers about the pinned database

VARIABLE views      \* the last is on the screen

Init == views = <<>>

Show == \E v \in Views : views' = Append(views, v)
Back == Len(views) > 1 /\ views' = SubSeq(views, 1, Len(views) - 1)
Forget == views' = <<>>

Next == Show \/ Back \/ Forget

Spec == Init /\ [][Next]_views
=============================================================================
