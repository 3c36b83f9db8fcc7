---------------------------- MODULE FaultSession -----------------------------
(***************************************************************************)
(* What the fault manager promises (Core/App/fault_manager.h): a session    *)
(* opens with the first cause reported, keeps every cause reported in it    *)
(* and the one it opened with, and ends by a clear alone.                   *)
(***************************************************************************)
CONSTANT Causes

VARIABLES
  held,    \* the causes of the session, {} outside one
  opening  \* the causes it opened with

svars == <<held, opening>>

Init == held = {} /\ opening = {}

(* A report may hold several causes, and a report may follow it at once.    *)
Report ==
  /\ \E S \in (SUBSET Causes) \ {{}}, T \in SUBSET Causes :
        /\ held' = held \cup S \cup T
        /\ opening' = IF held = {} THEN S ELSE opening

Clear == held # {} /\ held' = {} /\ opening' = {}

Next == Report \/ Clear

Spec == Init /\ [][Next]_svars

=============================================================================
