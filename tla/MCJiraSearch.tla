---------------------------- MODULE MCJiraSearch ----------------------------
(***************************************************************************)
(* Three matching issues and tokens for every place after the first, two   *)
(* of them naming the same page as after an empty one.                     *)
(***************************************************************************)
EXTENDS JiraSearch, TLC

CONSTANTS i1, i2, i3, t1, t2, t3, t4

Found  == <<i1, i2, i3>>
Handed == {t1, t2, t3, t4}
Places == t1 :> 1 @@ t2 :> 2 @@ t3 :> 2 @@ t4 :> 3
=============================================================================
