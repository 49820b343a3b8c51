------------------------- MODULE ContinuationSearch -------------------------
(***************************************************************************)
(* What a lens reads of the store: the literal and token search over       *)
(* continuations, and its queries for commitments, relations and           *)
(* continuations linked to raw events.  Each operator is one SQL statement *)
(* on the tables it is given.                                              *)
(*                                                                         *)
(* The tables: row[id] of each continuation, and at[id], when it was last  *)
(* updated; pact[id], the state of the one commitment a continuation may   *)
(* have, and age[id], when that was made; edges; events, the raw events    *)
(* that contain the query, by age; now, the time to come.                  *)
(***************************************************************************)
EXTENDS LensEngine

CONSTANTS
  Token, Event,
  ResultLimit,          \* CONTINUATION_SEARCH_RESULT_LIMIT, and LIMIT 20 elsewhere
  TokenLimit,           \* CONTINUATION_SEARCH_TOKEN_LIMIT
  TokenCandidateLimit   \* CONTINUATION_SEARCH_TOKEN_CANDIDATE_LIMIT

ASSUME SearchAssumption == /\ ResultLimit \in Nat \ {0}
                           /\ TokenLimit \in Nat /\ TokenLimit >= 2
                           /\ TokenCandidateLimit \in Nat \ {0}

\* A stored continuation: what the query finds in its text is part of it.
Continuation == [id : Nat, type : ContinuationType, status : ContinuationStatus,
                 phrase : BOOLEAN, tokens : SUBSET Token, event : Event,
                 risk : BOOLEAN, near : BOOLEAN, bare : BOOLEAN]

\* The members of S, a finite set, in the strict total order that before is.
Ranked(S, before) ==
  [i \in 1 .. Cardinality(S) |->
     CHOOSE x \in S : Cardinality({y \in S : <<y, x>> \in before}) = i - 1]

ByTime(S, time) == Ranked(S, {p \in S \X S : time[p[1]] < time[p[2]]})

\* ORDER BY and LIMIT.
First(n, seq) == SubSeq(seq, 1, Least(n, Len(seq)))
Oldest(n, S, time) == ToSet(First(n, ByTime(S, time)))

Living(status) == status \in {"active", "deferred"}

\* The rows a search may return.
Searchable(db, livingOnly) ==
  {id \in DOMAIN db.row : livingOnly => Living(db.row[id].status)}

\* Variant: the status is looked at behind the LIMIT.
LiteralThenLiving(db, livingOnly) ==
  Oldest(ResultLimit, {id \in DOMAIN db.row : db.row[id].phrase}, db.at)
    \cap Searchable(db, livingOnly)

LiteralCandidates(db, livingOnly) ==
  Oldest(ResultLimit, {id \in Searchable(db, livingOnly) : db.row[id].phrase}, db.at)

\* The tokens searched for; the cut after 256 characters is left out.
SearchedTokens(request) ==
  IF request.wild THEN <<>> ELSE First(TokenLimit, request.tokens)

TokenHits(db, id, tokens) == Cardinality(db.row[id].tokens \cap ToSet(tokens))

\* The full-text rows of one token, cut off before those with too few tokens go.
TokenCandidates(db, token, tokens, livingOnly) ==
  {id \in Oldest(TokenCandidateLimit,
                 {id \in Searchable(db, livingOnly) : token \in db.row[id].tokens}, db.at) :
     TokenHits(db, id, tokens) >= Least(Len(tokens), 2)}

\* The rows found in order: phrases first, then by token hits, then in the order in
\* which the queries found them.
InOrder(db, literal, byToken, tokens) ==
  LET found == literal \cup UNION {byToken[i] : i \in DOMAIN tokens}
      Phrase(id) == IF id \in literal THEN 1 ELSE 0
      Hits(id) == IF \E i \in DOMAIN tokens : id \in byToken[i]
                  THEN TokenHits(db, id, tokens) ELSE 0
      Queries(id) == IF id \in literal THEN 0
                     ELSE Cardinality({i \in DOMAIN tokens :
                                         \A j \in 1 .. i : id \notin byToken[j]})
      Before(a, b) ==
        \/ Phrase(a) > Phrase(b)
        \/ Phrase(a) = Phrase(b) /\ Hits(a) > Hits(b)
        \/ Phrase(a) = Phrase(b) /\ Hits(a) = Hits(b) /\ Queries(a) < Queries(b)
        \/ /\ Phrase(a) = Phrase(b) /\ Hits(a) = Hits(b) /\ Queries(a) = Queries(b)
           /\ db.at[a] < db.at[b]
  IN Ranked(found, {p \in found \X found : Before(p[1], p[2])})

\* Variant: the literal search is left out where the token search may run.
SearchHitsByToken(db, request, livingOnly) ==
  LET tokens == SearchedTokens(request)
      found  == IF tokens = <<>> THEN LiteralCandidates(db, livingOnly)
                ELSE UNION {TokenCandidates(db, t, tokens, livingOnly) : t \in ToSet(tokens)}
  IN IF request.blank THEN <<>> ELSE First(ResultLimit, ByTime(found, db.at))

\* search_continuation_hits and the cut to the result limit.
SearchHits(db, request, livingOnly) ==
  LET tokens  == SearchedTokens(request)
      byToken == [i \in DOMAIN tokens |-> TokenCandidates(db, tokens[i], tokens, livingOnly)]
  IN IF request.blank THEN <<>>
     ELSE First(ResultLimit,
                InOrder(db, LiteralCandidates(db, livingOnly), byToken, tokens))
-----------------------------------------------------------------------------
\* A commitment that constrains: it and its continuation are active.
Constrains(db, id) == db.pact[id] = "active" /\ db.row[id].status = "active"

\* active_commitments_for_continuations, one id of its loop.
CommitmentsOf(db, id) == {c \in {id} : Constrains(db, c)}

\* search_active_commitments: /v1/commit writes what it searches into the
\* continuation's title and summary, so that its text is the continuation's.
SearchCommitments(db, request) ==
  LET found == {id \in DOMAIN db.row : Constrains(db, id) /\ db.row[id].phrase}
  IN IF request.blank THEN <<>> ELSE First(ResultLimit, ByTime(found, db.age))

\* active_continuation_relations_for_continuation_ids, one id of its loop.
RelationsOf(db, id) ==
  {e \in db.edges : /\ id \in {e.from, e.to}
                    /\ db.row[e.from].status = "active"
                    /\ db.row[e.to].status = "active"}

\* search_raw_events; RawArchive has its two searches.
SearchRawEvents(db, request) ==
  IF request.blank THEN <<>> ELSE First(ResultLimit, db.events)

\* active_continuations_for_raw_event_ids, one event of its loop.
LinkedTo(db, event) ==
  ByTime({id \in DOMAIN db.row : /\ db.row[id].status = "active"
                                 /\ db.row[id].event = event}, db.at)
=============================================================================
