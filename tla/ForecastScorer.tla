--------------------------- MODULE ForecastScorer ---------------------------
(***************************************************************************)
(* PreflightScorer and ForecastScorer of tfk-core: whether an action needs *)
(* a confirmation, and the order in which a forecast ranks candidate       *)
(* actions under the commitments on their continuations and the relations  *)
(* the request states.                                                     *)
(*                                                                         *)
(* A number of a request is a count of Unit-ths and may lie outside        *)
(* 0 .. Unit; a score counts hundredths of a Unit-th, so that the weights  *)
(* 0.55 and 0.25 stay whole.  The code's numbers are f64.                  *)
(***************************************************************************)
EXTENDS Integers, Sequences

CONSTANTS Unit,          \* 1.0
          Continuation,
          NoContinuation \* the continuation_id of an action that has none

ASSUME UnitAssumption == Unit \in Nat \ {0}
ASSUME NoContinuationAssumption == NoContinuation \notin Continuation

CandidateAction ==
    [continuation : Continuation \cup {NoContinuation},
     progress : Int, closure : Int, option : Int, risk : Int,
     irreversibility : Int, confusion : Int, friction : Int, debt : Int,
     uncertainty : Int, externality : Int]

StoredCommitment == [on : Continuation, revocable : BOOLEAN, active : BOOLEAN]

RelationEdge == [from : Continuation, to : Continuation,
                 kind : {"supports", "depends_on", "subsumes", "conflicts", "blocks"}]
-----------------------------------------------------------------------------
Clamp01(v) == IF v < 0 THEN 0 ELSE IF v > Unit THEN Unit ELSE v

Larger(m, n) == IF m > n THEN m ELSE n

RiskProduct(a) == Clamp01(a.uncertainty) * Clamp01(a.irreversibility) * Clamp01(a.externality)

\* PreflightScorer::score; the threshold in percent.
Preflight(a, threshold) == 100 * RiskProduct(a) > threshold * Unit * Unit * Unit

\* Variant: a commitment counts against every action.
ActiveCommitmentsOfAll(a, commitments) == {c \in commitments : c.active}

ActiveCommitments(a, commitments) == {c \in commitments : c.active /\ c.on = a.continuation}

CommitmentConsequence(a) ==
    Larger(Larger(Clamp01(a.irreversibility), Clamp01(a.risk)), Clamp01(a.debt))

CommitmentWeight(matching) ==
    IF \E c \in matching : ~ c.revocable THEN 55 ELSE IF matching # {} THEN 25 ELSE 0

CommitmentPenalty(a, matching) == CommitmentWeight(matching) * CommitmentConsequence(a)

CommitmentConfirms(a, matching) ==
    \E c \in matching : ~ c.revocable /\ 2 * CommitmentConsequence(a) >= Unit

IsConstrained(id, relations) ==
    \E e \in relations : \/ e.kind = "conflicts" /\ id \in {e.from, e.to}
                         \/ e.kind = "blocks" /\ id = e.to

RelationPenalty(a, relations) ==
    IF a.continuation # NoContinuation /\ IsConstrained(a.continuation, relations)
    THEN 50 * Unit ELSE 0

Benefit(a) == Clamp01(a.progress) + Clamp01(a.closure) + Clamp01(a.option)
Cost(a)    == Clamp01(a.risk) + Clamp01(a.irreversibility) + Clamp01(a.confusion)
                + Clamp01(a.friction) + Clamp01(a.debt)

Score(a, relations, matching) ==
    100 * (Benefit(a) - Cost(a)) - CommitmentPenalty(a, matching) - RelationPenalty(a, relations)

AskScore(a) ==
    100 * (Clamp01(a.uncertainty) + Clamp01(a.risk) - Clamp01(a.friction) - Clamp01(a.progress))

RequiresConfirmation(a, matching) ==
    2 * RiskProduct(a) > Unit * Unit * Unit \/ CommitmentConfirms(a, matching)

AskBeforeAct(a, relations, matching) ==
    RequiresConfirmation(a, matching) \/ AskScore(a) > Score(a, relations, matching)

\* What the answer says of an action.
Verdict(a, relations, commitments) ==
    LET matching == ActiveCommitments(a, commitments)
    IN [score |-> Score(a, relations, matching),
        confirm |-> RequiresConfirmation(a, matching),
        ask |-> AskBeforeAct(a, relations, matching)]

Verdicts(actions, relations, commitments) ==
    [i \in DOMAIN actions |-> Verdict(actions[i], relations, commitments)]

\* The sort is by score alone and stable: the i-th action comes before the
\* j-th in the answer.
RankedBefore(verdicts, i, j) ==
    \/ verdicts[i].score > verdicts[j].score
    \/ verdicts[i].score = verdicts[j].score /\ i < j
-----------------------------------------------------------------------------
\* What commitments may do to a ranking.
OnlyRestrains(actions, relations, commitments) ==
    LET without   == Verdicts(actions, relations, {})
        with      == Verdicts(actions, relations, commitments)
        Untied(i) == \A c \in commitments : c.on # actions[i].continuation
    IN \A i \in DOMAIN actions :
          /\ with[i].score <= without[i].score
          /\ without[i].confirm => with[i].confirm
          /\ without[i].ask => with[i].ask
          /\ Untied(i) => with[i] = without[i]
          /\ Untied(i) => \A j \in DOMAIN actions :
                RankedBefore(without, i, j) => RankedBefore(with, i, j)
=============================================================================
