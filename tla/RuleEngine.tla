----------------------------- MODULE RuleEngine -----------------------------
(***************************************************************************)
(* The rule engine of tfk-rules: facts and rules are added, and evaluate   *)
(* adds what the rules derive, round by round, until a round adds nothing. *)
(* A term is <<"Var", name>> or <<"Lit", value>>.  The engine's vector and *)
(* set of facts always hold the same facts, the vector sorted: one set.    *)
(* Its vector of rules is a set: order and repetition only matter for the  *)
(* order in which a round meets its facts.                                 *)
(***************************************************************************)
EXTENDS Naturals, FiniteSets, Sequences, SequencesExt

CONSTANTS Strings,      \* what predicates, names of variables and values are
          BaseFacts,    \* the facts a caller may assert
          Rules         \* the rules a caller may add

Term == {"Var", "Lit"} \X Strings
Atoms == [predicate : Strings, terms : Seq(Term)]
FactSet == [predicate : Strings, args : Seq(Strings)]
RuleSet == [head : Atoms, body : Seq(Atoms)]

ASSUME EngineAssumption == BaseFacts \subseteq FactSet /\ Rules \subseteq RuleSet

VARIABLES facts,        \* facts and fact_set
          rules,        \* rules
          pc,           \* "idle" or "evaluating": inside evaluate's loop
          addedTotal,   \* added_total of the evaluation that runs or ran last
          asserted,     \* history: what callers have asserted
          before,       \* history: facts when that evaluation began
          settled       \* history: no fact or rule was added since it ended

engineVars == <<facts, rules, pc, addedTotal, asserted, before, settled>>

Var(name) == <<"Var", name>>
Lit(value) == <<"Lit", value>>
Atom(predicate, terms) == [predicate |-> predicate, terms |-> terms]
Fact(predicate, args) == [predicate |-> predicate, args |-> args]
Rule(head, body) == [head |-> head, body |-> body]

VarsOf(atom) == {term[2] : term \in {t \in ToSet(atom.terms) : t[1] = "Var"}}
NoBinding == [name \in {} |-> name]

\* What a term whose variable is bound stands for.
ValueOf(term, binding) == IF term[1] = "Lit" THEN term[2] ELSE binding[term[2]]

\* Variant: a variable's second occurrence is not compared.
UnifyFirst(atom, fact, binding) ==
  LET firstOf(name) == CHOOSE i \in DOMAIN atom.terms : atom.terms[i] = Var(name)
      updated == [name \in DOMAIN binding \cup VarsOf(atom) |->
                    IF name \in DOMAIN binding THEN binding[name]
                                               ELSE fact.args[firstOf(name)]]
  IN {u \in {updated} : \A i \in DOMAIN atom.terms :
                          atom.terms[i][1] = "Lit" => atom.terms[i][2] = fact.args[i]}

\* unify: each variable not bound yet takes the argument it first meets; the
\* bindings are empty if a literal, a bound or a repeated variable disagrees.
Unify(atom, fact, binding) ==
  LET firstOf(name) == CHOOSE i \in DOMAIN atom.terms :
                         /\ atom.terms[i] = Var(name)
                         /\ \A j \in 1..(i - 1) : atom.terms[j] # Var(name)
      updated == [name \in DOMAIN binding \cup VarsOf(atom) |->
                    IF name \in DOMAIN binding THEN binding[name]
                                               ELSE fact.args[firstOf(name)]]
  IN {u \in {updated} :
        \A i \in DOMAIN atom.terms : ValueOf(atom.terms[i], u) = fact.args[i]}

\* match_atom: every binding with every fact of the atom's shape.
MatchAtom(atom, known, bindings) ==
  LET candidates == {f \in known : /\ f.predicate = atom.predicate
                                   /\ Len(f.args) = Len(atom.terms)}
  IN UNION {Unify(atom, f, b) : f \in candidates, b \in bindings}

\* instantiate_head: nothing if the binding leaves a variable of it open.
InstantiateHead(head, binding) ==
  {Fact(head.predicate, [i \in DOMAIN head.terms |-> ValueOf(head.terms[i], b)]) :
     b \in {c \in {binding} : VarsOf(head) \subseteq DOMAIN c}}

\* derive_rule's loop: the bindings behind each of the body's atoms.
Bindings(rule, known) ==
  LET after[n \in 0 .. Len(rule.body)] ==
        IF n = 0 THEN {NoBinding} ELSE MatchAtom(rule.body[n], known, after[n - 1])
  IN after

\* derive_rule: match the body's atoms one after the other, then the head.
DeriveRule(rule, known) ==
  UNION {InstantiateHead(rule.head, b) : b \in Bindings(rule, known)[Len(rule.body)]}

\* core_rules, as rules/core.dl writes them.
CoreRules ==
  LET c == Var("continuation")
      of(predicate) == Atom(predicate, <<c>>)
      is(predicate, value) == Atom(predicate, <<c, Lit(value)>>)
  IN {Rule(of("active"), <<of("continuation"), is("continuation_status", "active")>>),
      Rule(of("needs_review"), <<of("active"), is("risk_level", "high")>>),
      Rule(is("risk_marker", "review"), <<of("needs_review")>>),
      Rule(of("living_past"), <<of("active")>>),
      Rule(of("commitment"), <<of("active"), is("continuation_type", "obligation")>>),
      Rule(of("forming_future"), <<of("active"), is("continuation_type", "opportunity")>>),
      Rule(of("timing_attention"), <<of("active"), is("time_horizon", "near")>>),
      Rule(is("path_choice", "review_now"), <<of("needs_review"), of("timing_attention")>>)}

EngineInit(initialRules) ==
  /\ facts = {} /\ rules = initialRules /\ pc = "idle" /\ addedTotal = 0
  /\ asserted = {} /\ before = {} /\ settled = FALSE

\* assert_fact, for each of fs.
AssertFacts(fs) ==
  /\ pc = "idle"
  /\ facts' = facts \cup fs
  /\ asserted' = asserted \cup fs
  /\ settled' = (settled /\ fs \subseteq facts)
  /\ UNCHANGED <<rules, pc, addedTotal, before>>

AssertFact(f) == AssertFacts({f})

AddRule(rule) ==
  /\ pc = "idle"
  /\ rules' = rules \cup {rule}
  /\ settled' = FALSE
  /\ UNCHANGED <<facts, pc, addedTotal, asserted, before>>

\* evaluate, up to its loop.
Evaluate ==
  /\ pc = "idle"
  /\ pc' = "evaluating"
  /\ addedTotal' = 0
  /\ before' = facts
  /\ UNCHANGED <<facts, rules, asserted, settled>>

\* insert_fact for each of added, count of them new; then the loop's break.
Turn(added, count, last) ==
  /\ pc = "evaluating"
  /\ facts' = facts \cup added
  /\ addedTotal' = addedTotal + count
  /\ pc' = IF last THEN "idle" ELSE "evaluating"
  /\ settled' = last
  /\ UNCHANGED <<rules, asserted, before>>

\* Variants: the loop ends when nothing is derived; the count is of what is
\* derived.
RoundWhileDerived ==
  LET derived == UNION {DeriveRule(rule, facts) : rule \in rules}
  IN Turn(derived, Cardinality(derived \ facts), derived = {})
RoundCountingDerived ==
  LET derived == UNION {DeriveRule(rule, facts) : rule \in rules}
  IN Turn(derived, Cardinality(derived), derived \subseteq facts)

\* One turn of the loop: every rule against the facts the turn began with.
Round ==
  LET derived == UNION {DeriveRule(rule, facts) : rule \in rules}
      added == derived \ facts
  IN Turn(added, Cardinality(added), added = {})

Init == EngineInit({})
Next == \/ \E f \in BaseFacts : AssertFact(f)
        \/ \E rule \in Rules : AddRule(rule)
        \/ Evaluate
        \/ Round

\* evaluate runs in the caller's thread, and nothing in it waits.
Spec == Init /\ [][Next]_engineVars /\ WF_engineVars(Round)

-----------------------------------------------------------------------------
(* What the rules mean, stated without matching: an instance of a rule     *)
(* gives a value to each variable of its body.                             *)

BodyVars(rule) == UNION {VarsOf(atom) : atom \in ToSet(rule.body)}
ValuesIn(S) == UNION {ToSet(f.args) : f \in S}
Ground(atom, a) == Fact(atom.predicate,
                        [i \in DOMAIN atom.terms |-> ValueOf(atom.terms[i], a)])

Consequences(S) ==
  UNION {{Ground(rule.head, a) :
            a \in {b \in [BodyVars(rule) -> ValuesIn(S)] :
                     \A atom \in ToSet(rule.body) : Ground(atom, b) \in S}} :
         rule \in {r \in rules : VarsOf(r.head) \subseteq BodyVars(r)}}

\* What follows from the asserted facts in at most n steps.
FollowsIn[n \in Nat] ==
  IF n = 0 THEN asserted
           ELSE LET known == FollowsIn[n - 1] IN known \cup Consequences(known)

\* Once evaluate has returned, and until something new is added, the facts are
\* the least model of the rules that has the asserted facts: nothing that
\* follows is missing and nothing is there that does not follow, in whatever
\* order facts and rules came and however often evaluate ran in between.
LeastModel ==
  settled => /\ Consequences(facts) \subseteq facts
             /\ asserted \subseteq facts
             /\ facts \subseteq FollowsIn[Cardinality(facts \ asserted)]

\* evaluate returns the number of facts it has added: its callers' counts
\* (and a second call's zero) are right also when rules derive facts twice.
CountsWhatItAdds == pc = "idle" /\ settled =>
                      addedTotal = Cardinality(facts) - Cardinality(before)

\* evaluate returns, whatever the rules, recursive ones included: the heads
\* build no values that no fact or rule has.
EvaluateEnds == (pc = "evaluating") ~> (pc = "idle")
=============================================================================
