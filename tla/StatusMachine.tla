--------------------------- MODULE StatusMachine ---------------------------
(***************************************************************************)
(* What every status column of the backend promises its readers: the row   *)
(* is created in one status and afterwards moves only along the edges of   *)
(* the transition table its model.go declares.  The applications, the      *)
(* approval requests and the interview sessions each claim this contract   *)
(* and each implement it with a read, a check and a guarded UPDATE; their  *)
(* modules are compared with this one.                                     *)
(***************************************************************************)
CONSTANTS Initial,   \* the status a new row is given
          Edges      \* the pairs <<from, to>> of the transition table

VARIABLE status

Init == status = Initial

Next == <<status, status'>> \in Edges

Spec == Init /\ [][Next]_status
=============================================================================
