------------------------------ MODULE Mailbox ------------------------------
(***************************************************************************)
(* What a display driver with one buffer promises: the box takes one       *)
(* picture at a time, the picture is shown whole, and the box is emptied   *)
(* only when what it held is on show.                                      *)
(***************************************************************************)
CONSTANTS Picture,
          Nothing  \* an empty box

VARIABLES wanted, box, shown  \* the caller's copy, the box, what is on show

vars == <<wanted, box, shown>>

Init == wanted \in Picture /\ box \in Picture /\ shown \in Picture

Change == wanted' \in Picture /\ UNCHANGED <<box, shown>>

Put == box = Nothing /\ box' = wanted /\ UNCHANGED <<wanted, shown>>

Show == box # Nothing /\ shown' = box /\ UNCHANGED <<wanted, box>>

Release == box # Nothing /\ box = shown /\ box' = Nothing /\ UNCHANGED <<wanted, shown>>

Next == Change \/ Put \/ Show \/ Release

Fairness == WF_vars(Show) /\ WF_vars(Release)

Spec == Init /\ [][Next]_vars /\ Fairness
=============================================================================
