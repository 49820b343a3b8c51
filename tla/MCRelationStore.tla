--------------------------- MODULE MCRelationStore --------------------------
(***************************************************************************)
(* Two triples with a common endpoint, two reasons.  Legacy tables: empty, *)
(* and with a duplicated triple before and behind another one.             *)
(***************************************************************************)
EXTENDS RelationStore, TLC

CONSTANTS t1, t2, r1, r2, c1, c2, c3

MCEndpoints == t1 :> {c1, c2} @@ t2 :> {c2, c3}

MCLegacy == {<<>>,
             <<[t |-> t1, r |-> r1], [t |-> t1, r |-> r2]>>,
             <<[t |-> t1, r |-> r2], [t |-> t2, r |-> r1], [t |-> t1, r |-> r1]>>}
=============================================================================
