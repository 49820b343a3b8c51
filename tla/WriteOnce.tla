----------------------------- MODULE WriteOnce ------------------------------
(***************************************************************************)
(* What relation creation promises (README.md, docs/api.md): an edge is    *)
(* identified by its triple; creating it again returns the existing edge   *)
(* and does not replace its reason; an edge is never lost.                 *)
(***************************************************************************)
CONSTANTS Triple, Reason, NoReason

VARIABLES reason,   \* reason[t]: of the stored edge, NoReason if there is none
          answered  \* the edges successful requests returned

WriteOnceInit == /\ reason \in [Triple -> Reason \cup {NoReason}]
                 /\ answered = {}

Create(t, r) == /\ reason[t] = NoReason
                /\ reason' = [reason EXCEPT ![t] = r]

Answer(t) == /\ reason'[t] # NoReason
             /\ answered' = answered \cup {[t |-> t, r |-> reason'[t]]}

WriteOnceNext ==
    \E t \in Triple :
        \/ (\E r \in Reason : Create(t, r)) /\ UNCHANGED answered
        \/ (\E r \in Reason : Create(t, r)) /\ Answer(t)
        \/ UNCHANGED reason /\ Answer(t)

WriteOnceSpec == WriteOnceInit /\ [][WriteOnceNext]_<<reason, answered>>
=============================================================================
