----------------------------- MODULE TokenFamily -----------------------------
(***************************************************************************)
(* What one family of refresh tokens promises (docstrings of refresh and   *)
(* logout in src/server/app/routers/auth.py, RefreshToken in               *)
(* src/server/app/models.py): one token at a time, each used up before its *)
(* successor is issued, none issued twice, and none any more once the      *)
(* family has ended.                                                       *)
(***************************************************************************)
CONSTANT Token

VARIABLES used,   \* tokens issued in the family
          live,   \* those that may still be presented
          over    \* a logout or a reuse has ended the family

vars == <<used, live, over>>

Init == used = {} /\ live = {} /\ over = FALSE

Issue ==
    /\ ~over /\ live = {}
    /\ \E k \in Token \ used : used' = used \union {k} /\ live' = {k}
    /\ UNCHANGED over

Spend == live # {} /\ live' = {} /\ UNCHANGED <<used, over>>

End == used # {} /\ live' = {} /\ over' = TRUE /\ UNCHANGED used

Next == Issue \/ Spend \/ End

Spec == Init /\ [][Next]_vars
=============================================================================
