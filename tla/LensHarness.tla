---------------------------- MODULE LensHarness ----------------------------
(***************************************************************************)
(* lens_from_store of tfk-eval: the evaluation harness answers lens        *)
(* requests from a store of its own with a copy of the handler's           *)
(* selection, not with the handler.                                        *)
(***************************************************************************)
EXTENDS LensHandler

Hits(v) == {id \in DOMAIN v : ~request.blank /\ db.row[id].status = "active"}

\* What the query finds in continuations, also the closed ones, the vector
\* index and the commitments.
Direct(v) == ToSet(SearchHits(db, request, FALSE)) \cup Hits(v)
               \cup ToSet(SearchCommitments(db, request))

RawHits(v) == IF Direct(v) = {} THEN SearchRawEvents(db, request) ELSE <<>>

Linked(v) == UNION {ToSet(LinkedTo(db, event)) : event \in ToSet(RawHits(v))}

\* Variant: the commitments are not looked up again for what was promoted.
ConstraintsOfDirect(v) == UNION {CommitmentsOf(db, id) : id \in Direct(v)}

HarnessConstraints(v) == UNION {CommitmentsOf(db, id) : id \in Direct(v) \cup Linked(v)}

\* The store is the harness's own: its reads are one step.
LensFromStore(v) ==
  LET linked == Linked(v)
      chosen == Direct(v) \cup linked
      given  == {[db.row[id] EXCEPT !.phrase = @ \/ linked # {},
                                    !.bare = @ /\ linked = {}] : id \in chosen}
      Strength == [id \in chosen |-> IF id \in Hits(v) THEN v[id] ELSE 0]
  IN Generate(request, given, UNION {RelationsOf(db, id) : id \in chosen},
              RuleFacts(given, request), Strength,
              IF linked = {} THEN Len(RawHits(v)) ELSE 0)

(***************************************************************************)
(* The harness evaluates the lens that the daemon serves.  The handler's   *)
(* undisturbed answer is the copy's, at the limits too, unless a closed    *)
(* continuation, which the handler does not search, matches the query, or  *)
(* takes another one's place among the fifty rows of a token.              *)
(***************************************************************************)
HarnessAgrees ==
  /\ Answered /\ touched = {}
  /\ \A id \in DOMAIN db.row : Matches(id) => Living(db.row[id].status)
  /\ \A t \in ToSet(SearchedTokens(request)) :
       LET holders == {id \in DOMAIN db.row : t \in db.row[id].tokens}
       IN \/ \A id \in holders : Living(db.row[id].status)
          \/ Cardinality(holders) <= TokenCandidateLimit
  => LensFromStore(vector) = card /\ HarnessConstraints(vector) = constraints
=============================================================================
