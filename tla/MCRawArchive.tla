---------------------------- MODULE MCRawArchive ----------------------------
(***************************************************************************)
(* Three events.  The text q1 is a whole token of e1 and part of a longer  *)
(* word of the others; q2 is a token of all three, one more than a search  *)
(* returns.                                                                *)
(***************************************************************************)
EXTENDS RawArchive, TLC

CONSTANTS e1, e2, e3, q1, q2

MCLikeMatch  == q1 :> {e1, e2, e3} @@ q2 :> {e1, e2, e3}
MCTokenMatch == q1 :> {e1} @@ q2 :> {e1, e2, e3}
=============================================================================
