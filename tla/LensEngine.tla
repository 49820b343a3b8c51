----------------------------- MODULE LensEngine -----------------------------
(***************************************************************************)
(* TimeFieldLensEngine of tfk-core: from a request, continuations, the     *)
(* relations between them, the facts of the rules and the hits of the      *)
(* vector index to a lens card.                                            *)
(*                                                                         *)
(* A request is its query (its tokens in order, and whether it has one of  *)
(* the LIKE characters), its horizon and its perspective (the types it     *)
(* favours).  A continuation's text is what the query finds in it: the     *)
(* whole query as a substring (phrase), tokens of it, and the markers      *)
(* risk_level=high and horizon=near.  Weights and activations are whole    *)
(* millionths; the code's are f64, so that the two may order activations   *)
(* differently that are less than a millionth apart.                       *)
(***************************************************************************)
EXTENDS Naturals, Sequences, FiniteSets, FiniteSetsExt, SequencesExt

ContinuationType == {"obligation", "risk", "opportunity", "epistemic",
                     "relational", "rhythm", "narrative"}
ContinuationStatus == {"active", "stabilized", "deferred", "closed", "retired"}
RelationKind == {"supports", "depends_on", "subsumes", "conflicts", "blocks"}

One == 1000000
Scale(x, percent) == (x * percent) \div 100

IsClosed(status) == status \in {"closed", "retired", "stabilized"}

-----------------------------------------------------------------------------
(* How well the query matches, and how much a continuation presses.        *)

QueryTokens(request) == ToSet(request.tokens)
Least(m, n) == IF m < n THEN m ELSE n

SemanticMatch(c, request) ==
  LET tokens == QueryTokens(request)
      hits == Cardinality(tokens \cap c.tokens)
  IN CASE request.blank -> 0
       [] ~request.blank /\ c.phrase -> One
       [] ~request.blank /\ ~c.phrase ->
            IF request.wild \/ tokens = {} \/ hits < Least(Cardinality(tokens), 2)
            THEN 0
            ELSE 500000 + (400000 * hits) \div Cardinality(tokens)

\* strength in hundredths: 0 where the index has no hit.
VectorMatch(strength) == IF strength = 0 THEN 0 ELSE 350000 + 1000 * strength

BasePressure == [obligation |-> 950000, risk |-> 900000, opportunity |-> 750000,
                 epistemic |-> 650000, relational |-> 600000, rhythm |-> 550000,
                 narrative |-> 400000]

\* Variant: deferred and stabilized have each other's weight.
SwappedStatusPercent == [active |-> 100, stabilized |-> 35, deferred |-> 60,
                         closed |-> 0, retired |-> 0]
StatusPercent == [active |-> 100, stabilized |-> 60, deferred |-> 35,
                  closed |-> 0, retired |-> 0]

Pressure(c) == Scale(BasePressure[c.type], StatusPercent[c.status])

HorizonPercent(request) == IF request.horizon = "none" THEN 100 ELSE 90

PerspectivePercent(c, request) ==
  CASE ~request.perspective -> 100
    [] request.perspective /\ c.type \notin request.favoured -> 95
    [] request.perspective /\ c.type \in request.favoured ->
         IF c.type = "risk" THEN 115 ELSE 110

ConfidencePercent(c) == IF c.bare THEN 80 ELSE 95

Activation(c, request, strength) ==
  LET semantic == SemanticMatch(c, request)
      vector == VectorMatch(strength)
      match == IF semantic >= vector THEN semantic ELSE vector
      pressed == (match \div 1000) * (Pressure(c) \div 1000)
      both == IF semantic > 0 /\ vector > 0 THEN strength ELSE 0
      near == Scale(pressed, HorizonPercent(request))
      weighted == Scale(Scale(near, PerspectivePercent(c, request)), ConfidencePercent(c))
  IN weighted + (weighted * 5 * both) \div 10000

-----------------------------------------------------------------------------
(* The facts the rules derive and the lens uses; RuleFactsFollowInput of   *)
(* LensRules says that the rule engine derives these and no others.        *)

RulePredicates == {"needs_review", "risk_marker", "timing_attention", "path_choice"}

PressureFacts(c, request) ==
  LET review == c.status = "active" /\ c.risk
      timing == c.status = "active" /\ (c.near \/ request.horizon = "near")
  IN (IF review THEN {"needs_review", "risk_marker"} ELSE {})
       \cup (IF timing THEN {"timing_attention"} ELSE {})
       \cup (IF review /\ timing THEN {"path_choice"} ELSE {})

RuleFacts(continuations, request) ==
  UNION {{[predicate |-> p, id |-> c.id] : p \in PressureFacts(c, request)} :
         c \in continuations}

RulePercent == [needs_review |-> 125, risk_marker |-> 105,
                timing_attention |-> 110, path_choice |-> 120]

\* What one edge does to the activation of its two ends.
ToPercent   == [supports |-> 110, depends_on |-> 115, subsumes |-> 95,
                conflicts |-> 100, blocks |-> 100]
FromPercent == [supports |-> 100, depends_on |-> 95, subsumes |-> 115,
                conflicts |-> 100, blocks |-> 100]

\* apply_relation_kind_activation, then apply_rule_fact_activation, to the
\* activation x of one continuation.
ScaledByRelations(x, id, edges) ==
  FoldSet(LAMBDA e, y : Scale(Scale(y, IF e.to = id THEN ToPercent[e.kind] ELSE 100),
                              IF e.from = id THEN FromPercent[e.kind] ELSE 100),
          x, {e \in edges : id \in {e.from, e.to}})

ScaledByRules(x, id, facts) ==
  LET By(y, p) == IF [predicate |-> p, id |-> id] \in facts
                  THEN Scale(y, RulePercent[p]) ELSE y
  IN By(By(By(By(x, "needs_review"), "path_choice"), "risk_marker"), "timing_attention")

RecommendedDelta(c, facts) ==
  IF \/ c.type \in {"risk", "epistemic"}
     \/ \E f \in facts : f.id = c.id /\ f.predicate \in {"needs_review", "path_choice"}
  THEN "verify"
  ELSE IF c.type = "narrative" THEN "defer" ELSE "advance"

\* active_continuation_for, and what relations and rules add to it.
ActiveFor(c, request, edges, facts, strength) ==
  [id |-> c.id, type |-> c.type, status |-> c.status, pressure |-> Pressure(c),
   activation |-> ScaledByRules(ScaledByRelations(Activation(c, request, strength), c.id, edges),
                                c.id, facts),
   delta |-> RecommendedDelta(c, facts)]

ActiveOf(continuations, request, edges, facts, influence) ==
  {ActiveFor(c, request, edges, facts, influence[c.id]) :
     c \in {k \in continuations : /\ ~IsClosed(k.status)
                                  /\ Activation(k, request, influence[k.id]) > 0}}

\* The order of sort_active_continuations; a card's active is the set.
Precedes(a, b) == \/ a.activation > b.activation
                  \/ a.activation = b.activation /\ a.id < b.id
-----------------------------------------------------------------------------
(* The card.                                                               *)

DebtWeight == [risk |-> 45, epistemic |-> 35, obligation |-> 25, relational |-> 20,
               opportunity |-> 10, rhythm |-> 10, narrative |-> 5]

TemporalDebt(active) ==
  LET score == MapThenSumSet(LAMBDA a : Scale(a.pressure, DebtWeight[a.type]), active)
  IN CASE score < 500000 -> "none"
       [] score >= 500000 /\ score < 750000 -> "medium"
       [] score >= 750000 -> "high"

RelationBoundaries(active, edges) ==
  LET ids == {a.id : a \in active}
  IN {e \in edges : \/ e.kind = "conflicts" /\ {e.from, e.to} \cap ids # {}
                    \/ e.kind = "blocks" /\ e.to \in ids}

HasProgressRiskConflict(active) ==
  /\ \E a \in active : a.type \in {"obligation", "opportunity"}
  /\ \E a \in active : a.type = "risk"

Nothing == [verb |-> "none", id |-> 0]

Card(stance, active, boundaries, preferred) ==
  [stance |-> stance, active |-> active, boundaries |-> boundaries,
   preferred |-> preferred, debt |-> TemporalDebt(active)]

\* What the card of a type asks for: verification_card, action_card, repair_card
\* or continuation_recall_card.
Stance == [risk |-> "verify", epistemic |-> "verify", obligation |-> "act",
           opportunity |-> "act", relational |-> "repair",
           narrative |-> "continuation_recall", rhythm |-> "continuation_recall"]
Verb == [verify |-> "verify", act |-> "advance", repair |-> "repair",
         continuation_recall |-> "stabilize"]

CardOfFirst(active) ==
  LET first == CHOOSE a \in active : \A b \in active \ {a} : Precedes(a, b)
      stance == Stance[first.type]
  IN Card(stance, active, IF stance = "verify" THEN {"evidence_boundary"} ELSE {},
          [verb |-> Verb[stance], id |-> first.id])

RawOrEmptyCard(rawEventCount) ==
  Card(IF rawEventCount = 0 THEN "wait" ELSE "grounded_recall", {}, {}, Nothing)

\* generate_with_relations_and_rule_facts_and_vector_influences.
Generate(request, continuations, edges, facts, influence, rawEventCount) ==
  LET active == ActiveOf(continuations, request, edges, facts, influence)
      bounds == RelationBoundaries(active, edges)
  IN IF active = {} THEN RawOrEmptyCard(rawEventCount)
     ELSE IF bounds # {} THEN Card("verify", active, {e.kind : e \in bounds}, Nothing)
     ELSE IF HasProgressRiskConflict(active)
          THEN Card("verify", active, {"temporal_conflict"}, Nothing)
     ELSE CardOfFirst(active)
=============================================================================
