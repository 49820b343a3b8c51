------------------------------ MODULE LensRules ------------------------------
(***************************************************************************)
(* lens_rule_facts of tfk-core: the lens's use of the rule engine.  It     *)
(* asserts what it knows of each living continuation into an engine with   *)
(* the core rules, evaluates once, and takes the engine's facts.           *)
(* A continuation is its status, its type, and whether its title and       *)
(* summary carry the markers risk_level=high and horizon=near.             *)
(***************************************************************************)
EXTENDS RuleEngine

CONSTANTS Ids, Types

\* The words of the core rules and of the facts asserted for them.
Words == {"continuation", "continuation_status", "continuation_type", "risk_level",
          "time_horizon", "active", "needs_review", "risk_marker", "living_past",
          "commitment", "forming_future", "timing_attention", "path_choice",
          "stabilized", "deferred", "closed", "retired", "high", "near", "review",
          "review_now", "obligation", "opportunity"}

ASSUME LensAssumption == Ids \cup Types \cup Words \subseteq Strings

VARIABLES continuations,  \* the continuations given to the lens, by id
          horizonNear,    \* the request's horizon names near, now or next-action
          left            \* the ids not asserted yet

lensVars == <<facts, rules, pc, addedTotal, asserted, before, settled,
              continuations, horizonNear, left>>

Status == {"active", "stabilized", "deferred", "closed", "retired"}
Continuation == [status : Status, type : Types, risk : BOOLEAN, near : BOOLEAN]

IsClosed(status) == status \in {"closed", "retired", "stabilized"}

\* Variant: only the continuation's own marker counts, not the request's horizon.
FactsOfMarkers(id) ==
  LET c == continuations[id]
  IN {Fact("continuation", <<id>>),
      Fact("continuation_status", <<id, c.status>>),
      Fact("continuation_type", <<id, c.type>>)}
     \cup {f \in {Fact("risk_level", <<id, "high">>)} : c.risk}
     \cup {f \in {Fact("time_horizon", <<id, "near">>)} : c.near}

\* The facts asserted of the living continuation id.
FactsOf(id) ==
  LET c == continuations[id]
  IN {Fact("continuation", <<id>>),
      Fact("continuation_status", <<id, c.status>>),
      Fact("continuation_type", <<id, c.type>>)}
     \cup {f \in {Fact("risk_level", <<id, "high">>)} : c.risk}
     \cup {f \in {Fact("time_horizon", <<id, "near">>)} : horizonNear \/ c.near}

LensInit ==
  /\ EngineInit(CoreRules)
  /\ continuations \in [Ids -> Continuation]
  /\ horizonNear \in BOOLEAN
  /\ left = {id \in Ids : ~IsClosed(continuations[id].status)}

AssertContinuation(id) ==
  /\ id \in left
  /\ AssertFacts(FactsOf(id))
  /\ left' = left \ {id}
  /\ UNCHANGED <<continuations, horizonNear>>

\* engine.evaluate(), once.
EvaluateOnce ==
  /\ left = {} /\ ~settled
  /\ Evaluate
  /\ UNCHANGED <<continuations, horizonNear, left>>

EvaluateRound == Round /\ UNCHANGED <<continuations, horizonNear, left>>

LensNext == \/ \E id \in Ids : AssertContinuation(id)
            \/ EvaluateOnce
            \/ EvaluateRound

LensSpec == LensInit /\ [][LensNext]_lensVars

-----------------------------------------------------------------------------
Lens == INSTANCE LensEngine

\* A rule fact the lens uses, as the engine has it.
PressureFact(p, id) ==
  Fact(p, CASE p = "risk_marker" -> <<id, "review">>
            [] p = "path_choice" -> <<id, "review_now">>
            [] p \in {"needs_review", "timing_attention"} -> <<id>>)

\* The pressure the lens takes from the rules is that of the continuation
\* itself and of no other one: a review for an active one marked risky, timing
\* for an active one that is near, the choice to review now for both; and a
\* deferred, closed, retired or stabilized one presses nothing.  So LensEngine
\* may have these facts without the engine.
RuleFactsFollowInput ==
  settled =>
    \A id \in DOMAIN continuations :
      LET c == continuations[id]
          active == c.status = "active"
      IN /\ {p \in Lens!RulePredicates : PressureFact(p, id) \in facts}
              = Lens!PressureFacts(c, [horizon |-> IF horizonNear THEN "near" ELSE "none"])
         /\ Fact("active", <<id>>) \in facts <=> active
         /\ Fact("living_past", <<id>>) \in facts <=> active
         /\ Fact("commitment", <<id>>) \in facts <=> active /\ c.type = "obligation"
         /\ Fact("forming_future", <<id>>) \in facts <=> active /\ c.type = "opportunity"
=============================================================================
