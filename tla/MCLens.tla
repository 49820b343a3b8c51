------------------------------- MODULE MCLens -------------------------------
(***************************************************************************)
(* Four families of stores and requests.  Searching: three continuations   *)
(* with every text that a query of three tokens can tell apart, against    *)
(* limits of two.  Crowding: five, against the token limit.  Ranking: two    *)
(* living continuations of four types, with relations, markers and a       *)
(* vector index.  Racing: an obligation and what is related to it or       *)
(* linked to an event, and two writes of another daemon at any two points  *)
(* of the request.                                                         *)
(***************************************************************************)
EXTENDS LensHarness, TLC

Query == [tokens |-> <<"a", "b", "c">>, wild |-> FALSE, blank |-> FALSE,
          horizon |-> "none", perspective |-> FALSE, favoured |-> {}]

Text(phrase, tokens) == [phrase |-> phrase, tokens |-> tokens]

Row(id, type, status, text) ==
  [id |-> id, type |-> type, status |-> status, phrase |-> text.phrase,
   tokens |-> text.tokens, risk |-> FALSE, near |-> FALSE, bare |-> FALSE,
   event |-> "none"]

Tables(rows, pact, related, recalled, answers) ==
  [row |-> rows, at |-> [i \in DOMAIN rows |-> i], age |-> [i \in DOMAIN rows |-> i],
   pact |-> pact, edges |-> related, events |-> recalled, index |-> answers,
   now |-> Cardinality(DOMAIN rows) + 1]

Case(tables, query, n) == [db |-> tables, request |-> query, writes |-> n]
Edge(from, kind, to) == [from |-> from, to |-> to, kind |-> kind]

SearchTexts == {Text(FALSE, {}), Text(TRUE, {"a", "b", "c"}), Text(TRUE, {}),
                Text(FALSE, {"a"}), Text(FALSE, {"a", "b"}), Text(FALSE, {"b", "c"})}

\* The o-th is an obligation, with a commitment as long as it is not closed.
Searching ==
  {Case(Tables([i \in 1 .. 3 |-> Row(i, IF i = o THEN "obligation" ELSE "rhythm",
                                     s[i], t[i])],
               [i \in 1 .. 3 |-> IF i # o THEN "none"
                                 ELSE IF s[i] = "active" THEN "active" ELSE "released"],
               {}, <<"e1">>, {<<>>}),
        q, 0) :
     s \in [1 .. 3 -> {"active", "closed"}], t \in [1 .. 3 -> SearchTexts],
     o \in {1, 3}, q \in {Query, [Query EXCEPT !.wild = TRUE]}}

\* Two continuations for each of two tokens, and one that has both.
Crowding ==
  {Case(Tables([i \in 1 .. 5 |-> Row(i, "epistemic", s[i], t[i])],
               [i \in 1 .. 5 |-> "none"], {}, <<>>, {<<>>}), Query, 0) :
     s \in {f \in [1 .. 5 -> {"active", "closed"}] : f[5] = "active"},
     t \in [1 .. 5 -> {Text(FALSE, {"a"}), Text(FALSE, {"b", "c"}), Text(FALSE, {"a", "b"})}]}

RankQuery == [Query EXCEPT !.tokens = <<"a", "b", "c", "d", "e">>]
RankTexts == {Text(TRUE, {"a", "b", "c", "d", "e"}), Text(FALSE, {"a", "b"})}
RankTypes == {"obligation", "risk", "relational", "narrative"}
RankEdges == {{}, {Edge(2, "supports", 1)}, {Edge(1, "blocks", 2)},
              {Edge(1, "depends_on", 2), Edge(1, "conflicts", 2)}}

Ranking ==
  {Case(Tables(<<[Row(1, y[1], s[1], t[1]) EXCEPT !.risk = marked, !.near = marked],
                 [Row(2, y[2], s[2], t[2]) EXCEPT !.bare = marked]>>,
               <<"none", "none">>, e, <<>>, {<<>>, <<100>>}),
        [RankQuery EXCEPT !.perspective = marked, !.favoured = {"risk", "obligation"}], 0) :
     y \in [1 .. 2 -> RankTypes], s \in [1 .. 2 -> {"active", "deferred"}],
     t \in [1 .. 2 -> RankTexts], e \in RankEdges, marked \in BOOLEAN}

\* The second continuation is the event's, and what the query finds of both
\* ranges from everything to nothing.
Racing ==
  {Case(Tables(<<Row(1, "obligation", "active", t),
                 [Row(2, y, "active", u) EXCEPT !.event = "e1"]>>,
               <<p, IF y = "obligation" THEN "active" ELSE "none">>, e, <<"e1">>,
               {<<>>, [k \in {2} |-> 100]}),
        Query, 2) :
     t \in {Text(TRUE, {"a", "b", "c"}), Text(FALSE, {})},
     u \in {Text(FALSE, {"a", "b"}), Text(FALSE, {})},
     y \in {"risk", "obligation"}, p \in {"active", "released"},
     e \in {{}, {Edge(1, "conflicts", 2)}, {Edge(2, "blocks", 1)}}}

MCCases == Searching \cup Crowding \cup Ranking \cup Racing
MCNewRow == 3 :> Row(3, "obligation", "active", Text(TRUE, {"a", "b", "c"}))
MCNewEdges == {Edge(2, "blocks", 1)}
=============================================================================
