-------------------------- MODULE LensRulesProofs --------------------------
(***************************************************************************)
(* Theorems about RuleEngine and LensRules, for any rules and facts, any   *)
(* number of evaluations, and any continuations.  First the matching of a  *)
(* body: after n atoms the engine has the bindings of their variables      *)
(* under which all n are facts (BindingsAre), so that a round derives what *)
(* follows in one step (RoundDerives).  On that rests EngineInv, whose     *)
(* Sound says that the engine's facts are in every model of the rules that *)
(* has the asserted facts.  That evaluate ends rests on                    *)
(* HeadsBuildNoValues: all it can add is finite.  The core rules are then  *)
(* a matter of one step written out (CoreConcludes) and of one model, the  *)
(* facts Allowed.                                                          *)
(* A recursion over a body, or over the steps of FollowsIn, is reasoned    *)
(* about by the least number for which a claim would fail (LeastNumber).   *)
(***************************************************************************)
EXTENDS LensRules, FiniteSetTheorems, WellFoundedInduction, TLAPS

\* A set of numbers has a least one.
LEMMA LeastNumber ==
    ASSUME NEW T \in SUBSET Nat, T # {}
    PROVE  \E n \in T : \A m \in T : n <= m
<1>1. PICK n \in T : \A m \in T : ~ (<<m, n>> \in OpToRel(<, Nat))
  BY NatLessThanWellFounded, WFMin, Zenon
<1>2. \A m \in T : <<m, n>> \in OpToRel(<, Nat) <=> m < n
  BY DEF OpToRel
<1>3. \A m \in T : ~ (m < n)
  BY <1>1, <1>2, Zenon
<1>4. \A m \in T : m \in Nat
  OBVIOUS
<1>. QED
  BY <1>3, <1>4

\* What a function makes of a finite set is finite.
LEMMA ImageIsFinite ==
    ASSUME NEW S, IsFiniteSet(S), NEW f, f = [x \in S |-> f[x]]
    PROVE  IsFiniteSet({f[x] : x \in S})
<1> DEFINE T == {f[x] : x \in S}
<1>1. f \in Surjection(S, T)
  BY DEF Surjection
<1>. HIDE DEF T
<1>. QED
  BY <1>1, FS_Surjection DEF T

-----------------------------------------------------------------------------
\* Matching.

\* A term is a variable of its atom or a literal.
LEMMA Terms ==
    ASSUME NEW atom \in Atoms
    PROVE  /\ DOMAIN atom.terms = 1 .. Len(atom.terms) /\ Len(atom.terms) \in Nat
           /\ \A i \in DOMAIN atom.terms :
                \/ atom.terms[i][1] = "Lit" /\ atom.terms[i][2] \in Strings
                \/ /\ atom.terms[i][1] = "Var" /\ atom.terms[i][2] \in VarsOf(atom)
                   /\ atom.terms[i] = Var(atom.terms[i][2])
           /\ VarsOf(atom) \subseteq Strings
           /\ \A name \in VarsOf(atom) : \E i \in DOMAIN atom.terms : atom.terms[i] = Var(name)
<1>1. atom.terms \in Seq(Term)
  BY DEF Atoms
<1>2. DOMAIN atom.terms = 1 .. Len(atom.terms) /\ Len(atom.terms) \in Nat
  BY <1>1
<1>3. \A i \in DOMAIN atom.terms : atom.terms[i] \in Term
  BY <1>1
<1>4. \A t \in Term : /\ t[1] \in {"Var", "Lit"} /\ t[2] \in Strings
                      /\ t[1] = "Var" => t = Var(t[2])
  BY DEF Term, Var
<1>5. \A i \in DOMAIN atom.terms : atom.terms[i] \in ToSet(atom.terms)
  BY DEF ToSet
<1>6. \A t \in ToSet(atom.terms) : \E i \in DOMAIN atom.terms : atom.terms[i] = t
  BY DEF ToSet
<1>. QED
  BY <1>2, <1>3, <1>4, <1>5, <1>6 DEF VarsOf

\* Where unify meets a variable first.
FirstOf(atom, name) ==
  CHOOSE i \in DOMAIN atom.terms : /\ atom.terms[i] = Var(name)
                                   /\ \A j \in 1..(i - 1) : atom.terms[j] # Var(name)

\* A variable of an atom has a first occurrence.
LEMMA FirstOccurrence ==
    ASSUME NEW atom \in Atoms, NEW name \in VarsOf(atom)
    PROVE  FirstOf(atom, name) \in DOMAIN atom.terms /\ atom.terms[FirstOf(atom, name)] = Var(name)
<1> DEFINE T == {i \in DOMAIN atom.terms : atom.terms[i] = Var(name)}
<1>1. DOMAIN atom.terms = 1 .. Len(atom.terms) /\ Len(atom.terms) \in Nat /\ T # {}
  BY Terms
<1>2. T \in SUBSET Nat
  BY <1>1
<1>3. PICK i \in T : \A m \in T : i <= m
  BY <1>1, <1>2, LeastNumber
<1>4. i \in DOMAIN atom.terms /\ atom.terms[i] = Var(name)
      /\ \A j \in 1..(i - 1) : atom.terms[j] # Var(name)
  <2>1. i \in DOMAIN atom.terms /\ atom.terms[i] = Var(name)
    OBVIOUS
  <2>2. ASSUME NEW j \in 1..(i - 1) PROVE atom.terms[j] # Var(name)
    <3>1. j \in DOMAIN atom.terms /\ ~ (i <= j)
      BY <1>1, <2>1
    <3>. QED
      BY <1>3, <3>1
  <2>. QED
    BY <2>1, <2>2
<1>. QED
  BY <1>4 DEF FirstOf

\* Only the values of an atom's variables matter to it.
LEMMA GroundAgrees ==
    ASSUME NEW atom \in Atoms, NEW a, NEW b, \A name \in VarsOf(atom) : a[name] = b[name]
    PROVE  Ground(atom, a) = Ground(atom, b)
<1>1. \A i \in DOMAIN atom.terms : ValueOf(atom.terms[i], a) = ValueOf(atom.terms[i], b)
  BY Terms DEF ValueOf
<1>. QED
  BY <1>1 DEF Ground

\* What unify makes of a binding.
Updated(atom, fact, b) ==
  [name \in DOMAIN b \cup VarsOf(atom) |->
     IF name \in DOMAIN b THEN b[name] ELSE fact.args[FirstOf(atom, name)]]

\* A binding makes an atom a fact if its terms have the fact's arguments.
LEMMA Grounds ==
    ASSUME NEW atom \in Atoms, NEW fact \in FactSet, NEW u,
           fact.predicate = atom.predicate, Len(fact.args) = Len(atom.terms)
    PROVE  (\A i \in DOMAIN atom.terms : ValueOf(atom.terms[i], u) = fact.args[i])
             <=> Ground(atom, u) = fact
<1>1. /\ fact.args \in Seq(Strings) /\ DOMAIN fact.args = DOMAIN atom.terms
      /\ fact = Fact(fact.predicate, fact.args)
  BY Terms DEF FactSet, Fact
<1> DEFINE args == [i \in DOMAIN atom.terms |-> ValueOf(atom.terms[i], u)]
<1>2. (\A i \in DOMAIN atom.terms : ValueOf(atom.terms[i], u) = fact.args[i]) <=> args = fact.args
  <2>1. (\A i \in DOMAIN atom.terms : ValueOf(atom.terms[i], u) = fact.args[i]) => args = fact.args
    BY <1>1
  <2>2. args = fact.args => \A i \in DOMAIN atom.terms : ValueOf(atom.terms[i], u) = fact.args[i]
    BY <1>1
  <2>. QED
    BY <2>1, <2>2
<1>3. Ground(atom, u) = Fact(atom.predicate, args)
  BY DEF Ground
<1>. HIDE DEF args
<1>. QED
  BY <1>1, <1>2, <1>3 DEF Fact

\* u extends b by what the fact has for the atom's other variables.
IsBinding(b) == b = [name \in DOMAIN b |-> b[name]]
Extension(atom, fact, b, u) ==
  /\ IsBinding(u) /\ DOMAIN u = DOMAIN b \cup VarsOf(atom)
  /\ \A name \in DOMAIN b : u[name] = b[name]
  /\ \A name \in VarsOf(atom) \ DOMAIN b :
       u[name] = fact.args[FirstOf(atom, name)] /\ u[name] \in ToSet(fact.args)

\* Unification extends a binding by what the fact has for the other variables.
LEMMA Extends ==
    ASSUME NEW atom \in Atoms, NEW fact \in FactSet, NEW b,
           fact.predicate = atom.predicate, Len(fact.args) = Len(atom.terms)
    PROVE  /\ Unify(atom, fact, b) = {x \in {Updated(atom, fact, b)} : Ground(atom, x) = fact}
           /\ Extension(atom, fact, b, Updated(atom, fact, b))
<1> DEFINE u == Updated(atom, fact, b)
<1>1. Unify(atom, fact, b) = {x \in {u} : Ground(atom, x) = fact}
  <2>1. Unify(atom, fact, b) =
          {x \in {u} : \A i \in DOMAIN atom.terms : ValueOf(atom.terms[i], x) = fact.args[i]}
    BY DEF Unify, FirstOf, Updated
  <2>. HIDE DEF u
  <2>. QED
    BY <2>1, Grounds
<1>2. DOMAIN fact.args = DOMAIN atom.terms
  BY Terms DEF FactSet
<1>3. \A name \in VarsOf(atom) : fact.args[FirstOf(atom, name)] \in ToSet(fact.args)
  BY <1>2, FirstOccurrence DEF ToSet
<1>4. /\ IsBinding(u) /\ DOMAIN u = DOMAIN b \cup VarsOf(atom)
      /\ \A name \in DOMAIN b : u[name] = b[name]
      /\ \A name \in VarsOf(atom) \ DOMAIN b : u[name] = fact.args[FirstOf(atom, name)]
  BY DEF Updated, IsBinding
<1>. HIDE DEF u
<1>5. Extension(atom, fact, b, u)
  BY <1>3, <1>4 DEF Extension
<1>. QED
  BY <1>1, <1>5 DEF u

\* There is no other extension that makes the atom the fact.
LEMMA ExtendsAlone ==
    ASSUME NEW atom \in Atoms, NEW fact \in FactSet, NEW b,
           fact.predicate = atom.predicate, Len(fact.args) = Len(atom.terms),
           NEW a, IsBinding(a), DOMAIN a = DOMAIN b \cup VarsOf(atom),
           \A name \in DOMAIN b : a[name] = b[name], Ground(atom, a) = fact
    PROVE  a \in Unify(atom, fact, b)
<1> DEFINE u == Updated(atom, fact, b)
<1>0. Unify(atom, fact, b) = {x \in {u} : Ground(atom, x) = fact} /\ Extension(atom, fact, b, u)
  BY Extends, Zenon
<1>. HIDE DEF u
<1>1. /\ Unify(atom, fact, b) = {x \in {u} : Ground(atom, x) = fact}
      /\ IsBinding(u) /\ DOMAIN u = DOMAIN b \cup VarsOf(atom)
      /\ \A name \in DOMAIN b : u[name] = b[name]
      /\ \A name \in VarsOf(atom) \ DOMAIN b : u[name] = fact.args[FirstOf(atom, name)]
  BY <1>0 DEF Extension
<1>2. \A name \in VarsOf(atom) : a[name] = fact.args[FirstOf(atom, name)]
  <2>1. \A i \in DOMAIN atom.terms : ValueOf(atom.terms[i], a) = fact.args[i]
    BY Grounds
  <2>2. \A name : ValueOf(Var(name), a) = a[name]
    BY DEF ValueOf, Var
  <2>. QED
    BY <2>1, <2>2, FirstOccurrence
<1>3. \A name \in DOMAIN a : a[name] = u[name]
  BY <1>1, <1>2
<1>4. a = u
  BY <1>1, <1>3 DEF IsBinding
<1>. QED
  BY <1>1, <1>4

\* The variables of the first n atoms, and the bindings of these under which the atoms
\* are facts.
Vars(body, n) == UNION {VarsOf(body[i]) : i \in 1 .. n}
Matched(body, S, n) ==
  {b \in [Vars(body, n) -> ValuesIn(S)] : \A i \in 1 .. n : Ground(body[i], b) \in S}

\* Before the first atom there is the empty binding alone.
LEMMA NothingMatched ==
    ASSUME NEW body, NEW S
    PROVE  Matched(body, S, 0) = {NoBinding}
<1>1. 1 .. 0 = {} /\ Vars(body, 0) = {}
  BY DEF Vars
<1>2. Matched(body, S, 0) = [{} -> ValuesIn(S)]
  BY <1>1 DEF Matched
<1>3. \A b : b \in [{} -> ValuesIn(S)] <=> b = NoBinding
  BY DEF NoBinding
<1>. QED
  BY <1>2, <1>3

\* One turn of the loop over a rule's body.
LEMMA NextAtom ==
    ASSUME NEW rule \in RuleSet, NEW S \in SUBSET FactSet, NEW n \in 1 .. Len(rule.body)
    PROVE  MatchAtom(rule.body[n], S, Matched(rule.body, S, n - 1)) = Matched(rule.body, S, n)
<1> DEFINE atom == rule.body[n]
           B == Matched(rule.body, S, n - 1)
           V == Vars(rule.body, n - 1)
           W == ValuesIn(S)
           candidates == {f \in S : f.predicate = atom.predicate /\ Len(f.args) = Len(atom.terms)}
<1>1. /\ rule.body \in Seq(Atoms) /\ Len(rule.body) \in Nat
      /\ \A i \in 1 .. n : rule.body[i] \in Atoms
      /\ n \in Nat /\ n - 1 \in Nat /\ 1 .. n = 1 .. (n - 1) \cup {n}
  <2>1. rule.body \in Seq(Atoms)
    BY DEF RuleSet
  <2>. QED
    BY <2>1
<1>2. Vars(rule.body, n) = V \cup VarsOf(atom) /\ \A i \in 1 .. (n - 1) : VarsOf(rule.body[i]) \subseteq V
  BY <1>1 DEF Vars
<1>3. MatchAtom(atom, S, B) = UNION {Unify(atom, f, b) : f \in candidates, b \in B}
  BY DEF MatchAtom
<1>4. atom \in Atoms
  BY <1>1
<1>5. ASSUME NEW f \in candidates, NEW b \in B, NEW u \in Unify(atom, f, b)
      PROVE  u \in Matched(rule.body, S, n)
  <2>1. b \in [V -> W] /\ \A i \in 1 .. (n - 1) : Ground(rule.body[i], b) \in S
    BY DEF Matched
  <2>2. f \in S /\ f \in FactSet /\ f.predicate = atom.predicate /\ Len(f.args) = Len(atom.terms)
    OBVIOUS
  <2>3. DOMAIN b = V /\ \A name \in V : b[name] \in W
    BY <2>1
  <2>. HIDE DEF V, W, B, candidates, atom
  <2>4. /\ IsBinding(u) /\ DOMAIN u = DOMAIN b \cup VarsOf(atom)
        /\ \A name \in DOMAIN b : u[name] = b[name]
        /\ \A name \in VarsOf(atom) \ DOMAIN b : u[name] \in ToSet(f.args)
        /\ Ground(atom, u) = f
    <3>1. /\ Unify(atom, f, b) = {x \in {Updated(atom, f, b)} : Ground(atom, x) = f}
          /\ Extension(atom, f, b, Updated(atom, f, b))
      BY <1>4, <2>2, Extends, Zenon
    <3>2. u = Updated(atom, f, b) /\ Ground(atom, u) = f
      BY <3>1
    <3>. QED
      BY <3>1, <3>2 DEF Extension
  <2>5. ToSet(f.args) \subseteq W
    BY <2>2 DEF W, ValuesIn
  <2>6. u \in [Vars(rule.body, n) -> W]
    <3>1. \A name \in DOMAIN u : u[name] \in W
      BY <2>3, <2>4, <2>5
    <3>. QED
      BY <1>2, <2>3, <2>4, <3>1 DEF IsBinding
  <2>7. ASSUME NEW i \in 1 .. n PROVE Ground(rule.body[i], u) \in S
    <3>1. CASE i = n
      BY <2>2, <2>4, <3>1 DEF atom
    <3>2. CASE i \in 1 .. (n - 1)
      <4>1. \A name \in VarsOf(rule.body[i]) : u[name] = b[name]
        BY <1>2, <2>3, <2>4, <3>2
      <4>2. Ground(rule.body[i], u) = Ground(rule.body[i], b)
        BY <1>1, <4>1, GroundAgrees
      <4>. QED
        BY <2>1, <3>2, <4>2
    <3>. QED
      BY <1>1, <3>1, <3>2
  <2>. QED
    BY <2>6, <2>7 DEF Matched, W
<1>6. ASSUME NEW a \in Matched(rule.body, S, n)
      PROVE  \E f \in candidates, b \in B : a \in Unify(atom, f, b)
  <2>1. a \in [Vars(rule.body, n) -> W] /\ \A i \in 1 .. n : Ground(rule.body[i], a) \in S
    BY DEF Matched
  <2> DEFINE b == [name \in V |-> a[name]]
             f == Ground(atom, a)
  <2>2. b \in [V -> W] /\ \A name \in V : a[name] = b[name]
    BY <1>2, <2>1
  <2>3. ASSUME NEW i \in 1 .. (n - 1) PROVE Ground(rule.body[i], b) \in S
    <3>1. \A name \in VarsOf(rule.body[i]) : a[name] = b[name]
      BY <1>2, <2>2
    <3>. HIDE DEF b
    <3>2. Ground(rule.body[i], a) = Ground(rule.body[i], b)
      BY <1>1, <3>1, GroundAgrees
    <3>. QED
      BY <1>1, <2>1, <3>2
  <2>4. b \in B
    BY <2>2, <2>3 DEF Matched
  <2>5. f \in S /\ f \in FactSet
    BY <1>1, <2>1
  <2>6. f.predicate = atom.predicate /\ DOMAIN f.args = DOMAIN atom.terms
    BY DEF Ground, Fact
  <2>7. Len(f.args) = Len(atom.terms)
    <3>1. f.args \in Seq(Strings) /\ atom.terms \in Seq(Term)
      BY <1>4, <2>5 DEF FactSet, Atoms
    <3>. HIDE DEF f, atom
    <3>. QED
      BY <2>6, <3>1
  <2>8. f \in candidates
    BY <2>5, <2>6, <2>7
  <2>9. Ground(atom, a) = f
    OBVIOUS
  <2>11. /\ IsBinding(a) /\ DOMAIN a = DOMAIN b \cup VarsOf(atom)
         /\ \A name \in DOMAIN b : a[name] = b[name]
    BY <1>2, <2>1 DEF IsBinding
  <2>. HIDE DEF b, f, V, W, B, candidates, atom
  <2>10. a \in Unify(atom, f, b)
    BY <1>4, <2>5, <2>6, <2>7, <2>9, <2>11, ExtendsAlone
  <2>. QED
    BY <2>4, <2>8, <2>10
<1>. HIDE DEF candidates, B, atom
<1>7. MatchAtom(atom, S, B) = Matched(rule.body, S, n)
  BY <1>3, <1>5, <1>6
<1>. QED
  BY <1>7 DEF atom, B

\* The loop over a rule's body ends with the bindings under which all its atoms are facts.
LEMMA BindingsAre ==
    ASSUME NEW rule \in RuleSet, NEW S \in SUBSET FactSet
    PROVE  \A n \in 0 .. Len(rule.body) : Bindings(rule, S)[n] = Matched(rule.body, S, n)
<1> DEFINE L == Len(rule.body)
           Is(f) == f = [n \in 0 .. L |-> IF n = 0 THEN {NoBinding}
                                          ELSE MatchAtom(rule.body[n], S, f[n - 1])]
           g == [n \in 0 .. L |-> Matched(rule.body, S, n)]
<1>1. L \in Nat
  BY DEF RuleSet
<1>2. Matched(rule.body, S, 0) = {NoBinding}
  BY NothingMatched
<1>3. \A n \in 1 .. L : n - 1 \in 0 .. L /\ n # 0
                         /\ Matched(rule.body, S, n) = MatchAtom(rule.body[n], S, g[n - 1])
  <2>1. ASSUME NEW n \in 1 .. L PROVE n - 1 \in 0 .. L /\ n # 0
    BY <1>1
  <2>2. ASSUME NEW n \in 1 .. L
        PROVE  Matched(rule.body, S, n) = MatchAtom(rule.body[n], S, g[n - 1])
    BY <2>1, NextAtom
  <2>. QED
    BY <2>1, <2>2
<1>4. \A n \in 0 .. L : n = 0 \/ n \in 1 .. L
  BY <1>1
<1>5. Is(g)
  BY <1>2, <1>3, <1>4
<1>6. Is(Bindings(rule, S))
  <2>1. Bindings(rule, S) = CHOOSE f : Is(f)
    BY DEF Bindings
  <2>. HIDE DEF Is
  <2>. QED
    BY <1>5, <2>1
<1> DEFINE f == Bindings(rule, S)
           Bad == {n \in 0 .. L : f[n] # g[n]}
<1>7. ASSUME NEW h, Is(h)
      PROVE  h[0] = {NoBinding} /\ \A n \in 1 .. L : h[n] = MatchAtom(rule.body[n], S, h[n - 1])
  <2> DEFINE r == [n \in 0 .. L |-> IF n = 0 THEN {NoBinding}
                                    ELSE MatchAtom(rule.body[n], S, h[n - 1])]
  <2>1. h = r
    BY <1>7
  <2>2. r[0] = {NoBinding}
    BY <1>1
  <2>3. \A n \in 1 .. L : r[n] = MatchAtom(rule.body[n], S, h[n - 1])
    BY <1>1
  <2>. HIDE DEF r
  <2>. QED
    BY <2>1, <2>2, <2>3
<1>. HIDE DEF Is
<1>8. /\ f[0] = {NoBinding} /\ g[0] = {NoBinding}
      /\ \A n \in 1 .. L : /\ f[n] = MatchAtom(rule.body[n], S, f[n - 1])
                          /\ g[n] = MatchAtom(rule.body[n], S, g[n - 1])
  <2>. HIDE DEF f, g
  <2>. QED
    BY <1>5, <1>6, <1>7 DEF f
<1>. HIDE DEF f, g, L
<1>9. Bad = {}
  <2>1. SUFFICES ASSUME Bad # {} PROVE FALSE
    OBVIOUS
  <2>2. Bad \in SUBSET Nat
    BY <1>1
  <2>3. PICK n \in Bad : \A m \in Bad : n <= m
    BY <2>1, <2>2, LeastNumber
  <2>4. n \in 1 .. L
    BY <1>4, <1>8
  <2>5. n - 1 \in 0 .. L /\ ~ (n <= n - 1)
    BY <1>1, <2>4
  <2>6. f[n - 1] = g[n - 1]
    BY <2>3, <2>5
  <2>. QED
    BY <1>8, <2>4, <2>6
<1>. QED
  BY <1>9 DEF L, f, g

\* The rules' meaning, for a set of rules of its own.
ConsequencesOf(R, S) ==
  UNION {{Ground(rule.head, a) :
            a \in {b \in [BodyVars(rule) -> ValuesIn(S)] :
                     \A atom \in ToSet(rule.body) : Ground(atom, b) \in S}} :
         rule \in {r \in R : VarsOf(r.head) \subseteq BodyVars(r)}}

\* A rule derives its head under every binding that makes its body facts.
LEMMA Derives ==
    ASSUME NEW rule \in RuleSet, NEW S \in SUBSET FactSet
    PROVE  DeriveRule(rule, S) =
             {Ground(rule.head, a) :
                a \in {b \in [BodyVars(rule) -> ValuesIn(S)] :
                         /\ VarsOf(rule.head) \subseteq BodyVars(rule)
                         /\ \A atom \in ToSet(rule.body) : Ground(atom, b) \in S}}
<1> DEFINE L == Len(rule.body)
<1>1. L \in Nat /\ DOMAIN rule.body = 1 .. L /\ L \in 0 .. L
  BY DEF RuleSet
<1>2. BodyVars(rule) = Vars(rule.body, L)
  BY <1>1 DEF BodyVars, Vars, ToSet
<1>3. Matched(rule.body, S, L) =
        {b \in [BodyVars(rule) -> ValuesIn(S)] : \A atom \in ToSet(rule.body) : Ground(atom, b) \in S}
  BY <1>1, <1>2 DEF Matched, ToSet
<1>4. Bindings(rule, S)[L] = Matched(rule.body, S, L)
  BY <1>1, BindingsAre
<1>5. \A b : InstantiateHead(rule.head, b) =
               {x \in {Ground(rule.head, b)} : VarsOf(rule.head) \subseteq DOMAIN b}
  BY DEF InstantiateHead, Ground
<1>6. DeriveRule(rule, S) = UNION {InstantiateHead(rule.head, b) : b \in Matched(rule.body, S, L)}
  BY <1>4 DEF DeriveRule
<1>7. \A b \in Matched(rule.body, S, L) : DOMAIN b = BodyVars(rule)
  BY <1>3
<1> DEFINE H == VarsOf(rule.head) \subseteq BodyVars(rule)
<1>8. DeriveRule(rule, S) = {Ground(rule.head, b) : b \in {c \in Matched(rule.body, S, L) : H}}
  <2>1. \A b \in Matched(rule.body, S, L) :
           InstantiateHead(rule.head, b) = {x \in {Ground(rule.head, b)} : H}
    BY <1>5, <1>7
  <2>. HIDE DEF H, L
  <2>. QED
    BY <1>6, <2>1
<1>. QED
  BY <1>3, <1>8

\* One turn of evaluate's loop derives what follows in one step.
LEMMA RoundDerives ==
    ASSUME NEW R \in SUBSET RuleSet, NEW S \in SUBSET FactSet
    PROVE  UNION {DeriveRule(rule, S) : rule \in R} = ConsequencesOf(R, S)
<1> DEFINE A(rule) == {b \in [BodyVars(rule) -> ValuesIn(S)] :
                         \A atom \in ToSet(rule.body) : Ground(atom, b) \in S}
           H(rule) == VarsOf(rule.head) \subseteq BodyVars(rule)
<1>1. \A rule \in R : DeriveRule(rule, S) = {Ground(rule.head, a) : a \in {b \in A(rule) : H(rule)}}
  BY Derives
<1>2. ConsequencesOf(R, S) = UNION {{Ground(rule.head, a) : a \in A(rule)} : rule \in {r \in R : H(r)}}
  BY DEF ConsequencesOf
<1>. HIDE DEF A, H
<1>. QED
  BY <1>1, <1>2

\* What follows from facts are facts.
LEMMA FactsFollow ==
    ASSUME NEW R \in SUBSET RuleSet, NEW S \in SUBSET FactSet
    PROVE  ConsequencesOf(R, S) \subseteq FactSet
<1>1. \A name \in ValuesIn(S) : name \in Strings
  <2>1. ASSUME NEW f \in S, NEW name \in ToSet(f.args) PROVE name \in Strings
    BY DEF FactSet, ToSet
  <2>. QED
    BY <2>1 DEF ValuesIn
<1>2. ASSUME NEW rule \in R, VarsOf(rule.head) \subseteq BodyVars(rule),
             NEW a \in [BodyVars(rule) -> ValuesIn(S)]
      PROVE  Ground(rule.head, a) \in FactSet
  <2>1. rule.head \in Atoms /\ rule.head.predicate \in Strings
    BY DEF RuleSet, Atoms
  <2> DEFINE head == rule.head
             args == [i \in DOMAIN head.terms |-> ValueOf(head.terms[i], a)]
  <2>2. \A i \in DOMAIN head.terms : ValueOf(head.terms[i], a) \in Strings
    <3>1. \A name \in VarsOf(head) : a[name] \in Strings
      BY <1>1, <1>2
    <3>. HIDE DEF head
    <3>. QED
      BY <2>1, <3>1, Terms DEF ValueOf, head
  <2>3. DOMAIN head.terms = 1 .. Len(head.terms) /\ Len(head.terms) \in Nat
    BY <2>1, Terms
  <2>4. args \in Seq(Strings)
    <3>. HIDE DEF head
    <3>. QED
      BY <2>2, <2>3
  <2>5. Ground(head, a) = [predicate |-> head.predicate, args |-> args]
    BY DEF Ground, Fact
  <2>. HIDE DEF args
  <2>. QED
    BY <2>1, <2>4, <2>5 DEF FactSet
<1>. QED
  BY <1>2 DEF ConsequencesOf

\* More follows from more facts and rules.
LEMMA MoreFollows ==
    ASSUME NEW R, NEW Q, R \subseteq Q, NEW S, NEW T, S \subseteq T
    PROVE  ConsequencesOf(R, S) \subseteq ConsequencesOf(Q, T)
<1>1. ValuesIn(S) \subseteq ValuesIn(T)
  BY DEF ValuesIn
<1>2. \A V : \A b \in [V -> ValuesIn(S)] : b \in [V -> ValuesIn(T)]
  BY <1>1
<1>. QED
  BY <1>2 DEF ConsequencesOf

\* Finitely many facts have finitely many matches.
LEMMA FinitelyMatched ==
    ASSUME NEW rule \in RuleSet, NEW S \in SUBSET FactSet, IsFiniteSet(S)
    PROVE  \A n \in 0 .. Len(rule.body) : IsFiniteSet(Bindings(rule, S)[n])
<1> DEFINE L == Len(rule.body)
           Bad == {n \in 0 .. L : ~ IsFiniteSet(Bindings(rule, S)[n])}
<1>1. L \in Nat
  BY DEF RuleSet
<1>2. Matched(rule.body, S, 0) = {NoBinding}
  BY NothingMatched
<1>3. IsFiniteSet(Bindings(rule, S)[0])
  <2>1. 0 \in 0 .. L
    BY <1>1
  <2>2. Bindings(rule, S)[0] = {NoBinding}
    BY <1>2, <2>1, BindingsAre
  <2>. QED
    BY <2>2, FS_Singleton
<1>4. ASSUME NEW n \in 1 .. L, IsFiniteSet(Bindings(rule, S)[n - 1])
      PROVE  IsFiniteSet(Bindings(rule, S)[n])
  <2> DEFINE B == Bindings(rule, S)[n - 1]
             atom == rule.body[n]
             C == {f \in S : f.predicate = atom.predicate /\ Len(f.args) = Len(atom.terms)}
             g == [p \in C \X B |-> Unify(atom, p[1], p[2])]
  <2>1. n \in 0 .. L /\ n - 1 \in 0 .. L
    BY <1>1
  <2>2. Bindings(rule, S)[n] = MatchAtom(atom, S, B)
    BY <2>1, BindingsAre, NextAtom
  <2>3. IsFiniteSet(C \X B)
    <3>1. IsFiniteSet(C)
      BY FS_Subset
    <3>. HIDE DEF B, C
    <3>2. IsFiniteSet(B)
      BY <1>4 DEF B
    <3>. QED
      BY <3>1, <3>2, FS_Product
  <2>4. IsFiniteSet({g[p] : p \in C \X B})
    <3>. HIDE DEF B, C
    <3>1. g = [p \in C \X B |-> g[p]]
      OBVIOUS
    <3>. HIDE DEF g
    <3>. QED
      BY <2>3, <3>1, ImageIsFinite
  <2>5. ASSUME NEW T \in {g[p] : p \in C \X B} PROVE IsFiniteSet(T)
    <3>1. \A f, b : \E u : Unify(atom, f, b) \subseteq {u}
      <4>1. ASSUME NEW f, NEW b PROVE Unify(atom, f, b) \subseteq {Updated(atom, f, b)}
        BY DEF Unify, Updated, FirstOf
      <4>. QED
        BY <4>1
    <3>2. PICK u : T \subseteq {u}
      <4>. HIDE DEF B, C, atom
      <4>. QED
        BY <3>1
    <3>. QED
      BY <3>2, FS_Singleton, FS_Subset
  <2>6. MatchAtom(atom, S, B) = UNION {g[p] : p \in C \X B}
    <3>1. MatchAtom(atom, S, B) = UNION {Unify(atom, f, b) : f \in C, b \in B}
      BY DEF MatchAtom
    <3>. HIDE DEF B, C, atom
    <3>2. \A u : u \in UNION {Unify(atom, f, b) : f \in C, b \in B}
                    <=> \E f \in C, b \in B : u \in Unify(atom, f, b)
      OBVIOUS
    <3>3. \A f \in C, b \in B : <<f, b>> \in C \X B /\ g[<<f, b>>] = Unify(atom, f, b)
      OBVIOUS
    <3>4. \A p \in C \X B : p[1] \in C /\ p[2] \in B /\ g[p] = Unify(atom, p[1], p[2])
      OBVIOUS
    <3>. HIDE DEF g
    <3>5. ASSUME NEW f \in C, NEW b \in B PROVE Unify(atom, f, b) \subseteq UNION {g[p] : p \in C \X B}
      <4>1. PICK p \in C \X B : g[p] = Unify(atom, f, b)
        BY <3>3
      <4>. QED
        BY <4>1
    <3>6. ASSUME NEW p \in C \X B, NEW u \in g[p]
          PROVE  \E f \in C, b \in B : u \in Unify(atom, f, b)
      BY <3>4
    <3>7. \A u : u \in UNION {g[p] : p \in C \X B}
                    <=> \E f \in C, b \in B : u \in Unify(atom, f, b)
      BY <3>5, <3>6
    <3>. QED
      BY <3>1, <3>2, <3>7
  <2>. HIDE DEF g, B, C
  <2>7. IsFiniteSet(UNION {g[p] : p \in C \X B})
    BY <2>4, <2>5, FS_UNION
  <2>. QED
    BY <2>2, <2>6, <2>7
<1>5. Bad = {}
  <2>1. SUFFICES ASSUME Bad # {} PROVE FALSE
    OBVIOUS
  <2>2. Bad \in SUBSET Nat
    BY <1>1
  <2>3. PICK n \in Bad : \A m \in Bad : n <= m
    BY <2>1, <2>2, LeastNumber
  <2>. HIDE DEF L
  <2>4. n \in 1 .. L
    BY <1>1, <1>3
  <2>5. n - 1 \in 0 .. L /\ ~ (n <= n - 1)
    BY <1>1, <2>4
  <2>. QED
    BY <1>4, <2>3, <2>4, <2>5
<1>. QED
  BY <1>5

\* So finitely many facts follow from them in one step.
LEMMA FinitelyFollow ==
    ASSUME NEW R \in SUBSET RuleSet, IsFiniteSet(R), NEW S \in SUBSET FactSet, IsFiniteSet(S)
    PROVE  IsFiniteSet(ConsequencesOf(R, S))
<1>1. ASSUME NEW rule \in R PROVE IsFiniteSet(DeriveRule(rule, S))
  <2> DEFINE B == Bindings(rule, S)[Len(rule.body)]
             g == [b \in B |-> InstantiateHead(rule.head, b)]
  <2>1. Len(rule.body) \in Nat
    BY DEF RuleSet
  <2>2. IsFiniteSet(B)
    BY <2>1, FinitelyMatched
  <2>3. IsFiniteSet({g[b] : b \in B})
    <3>. HIDE DEF B
    <3>1. g = [b \in B |-> g[b]]
      OBVIOUS
    <3>. HIDE DEF g
    <3>. QED
      BY <2>2, <3>1, ImageIsFinite
  <2>4. ASSUME NEW T \in {g[b] : b \in B} PROVE IsFiniteSet(T)
    <3>1. \A b : InstantiateHead(rule.head, b) \subseteq {Ground(rule.head, b)}
      BY DEF InstantiateHead, Ground
    <3>2. PICK u : T \subseteq {u}
      <4>. HIDE DEF B
      <4>. QED
        BY <3>1
    <3>. QED
      BY <3>2, FS_Singleton, FS_Subset
  <2>5. DeriveRule(rule, S) = UNION {g[b] : b \in B}
    <3>1. DeriveRule(rule, S) = UNION {InstantiateHead(rule.head, b) : b \in B}
      BY DEF DeriveRule
    <3>. HIDE DEF B
    <3>. QED
      BY <3>1
  <2>. HIDE DEF g, B
  <2>. QED
    BY <2>3, <2>4, <2>5, FS_UNION
<1> DEFINE d == [rule \in R |-> DeriveRule(rule, S)]
<1>2. d = [rule \in R |-> d[rule]] /\ \A rule \in R : d[rule] = DeriveRule(rule, S)
  OBVIOUS
<1>3. IsFiniteSet({d[rule] : rule \in R})
  <2>. HIDE DEF d
  <2>. QED
    BY <1>2, ImageIsFinite
<1>4. \A T \in {d[rule] : rule \in R} : IsFiniteSet(T)
  BY <1>1
<1>5. UNION {d[rule] : rule \in R} = ConsequencesOf(R, S)
  BY RoundDerives
<1>. HIDE DEF d
<1>. QED
  BY <1>3, <1>4, <1>5, FS_UNION

-----------------------------------------------------------------------------
\* The engine.  Every model of the rules that has the asserted facts has all of the
\* engine's facts: what the engine adds follows.

Sound == \A M \in SUBSET FactSet :
           asserted \subseteq M /\ ConsequencesOf(rules, M) \subseteq M => facts \subseteq M

EngineInv ==
  /\ rules \in SUBSET RuleSet /\ IsFiniteSet(rules)
  /\ facts \in SUBSET FactSet /\ IsFiniteSet(facts)
  /\ addedTotal \in Nat /\ settled \in BOOLEAN
  /\ asserted \subseteq facts /\ before \subseteq facts
  /\ pc = "evaluating" \/ settled => addedTotal = Cardinality(facts) - Cardinality(before)
  /\ settled => ConsequencesOf(rules, facts) \subseteq facts
  /\ Sound

\* An engine with rules and no facts is as the invariant says.
LEMMA Starts ==
    ASSUME NEW R \in SUBSET RuleSet, IsFiniteSet(R), EngineInit(R)
    PROVE  EngineInv
BY FS_EmptySet DEF EngineInit, EngineInv, Sound

\* Callers assert facts between evaluations only, and may assert what is there.
LEMMA Asserts ==
    ASSUME NEW fs \in SUBSET FactSet, IsFiniteSet(fs), EngineInv, AssertFacts(fs)
    PROVE  EngineInv'
<1>1. /\ facts' = facts \cup fs /\ asserted' = asserted \cup fs
      /\ settled' = (settled /\ fs \subseteq facts)
      /\ pc = "idle" /\ pc' = "idle" /\ rules' = rules /\ addedTotal' = addedTotal /\ before' = before
  BY DEF AssertFacts
<1>2. facts' \in SUBSET FactSet /\ IsFiniteSet(facts')
  BY <1>1, FS_Union DEF EngineInv
<1>3. Sound'
  <2>1. Sound
    BY DEF EngineInv
  <2>. QED
    BY <1>1, <2>1 DEF Sound
<1>4. settled' => settled /\ facts' = facts
  BY <1>1
<1>. QED
  BY <1>1, <1>2, <1>3, <1>4 DEF EngineInv

\* Callers add rules between evaluations only.
LEMMA Adds ==
    ASSUME NEW rule \in RuleSet, EngineInv, AddRule(rule)
    PROVE  EngineInv'
<1>1. /\ rules' = rules \cup {rule} /\ settled' = FALSE /\ facts' = facts /\ asserted' = asserted
      /\ pc = "idle" /\ pc' = "idle" /\ addedTotal' = addedTotal /\ before' = before
  BY DEF AddRule
<1>2. rules' \in SUBSET RuleSet /\ IsFiniteSet(rules')
  BY <1>1, FS_AddElement DEF EngineInv
<1>3. Sound'
  <2>1. Sound
    BY DEF EngineInv
  <2>2. \A M : ConsequencesOf(rules, M) \subseteq ConsequencesOf(rules', M)
    BY <1>1, MoreFollows
  <2>. QED
    BY <1>1, <2>1, <2>2 DEF Sound
<1>. QED
  BY <1>1, <1>2, <1>3 DEF EngineInv

\* evaluate counts from what it finds.
LEMMA Evaluates ==
    ASSUME EngineInv, Evaluate
    PROVE  EngineInv'
<1>1. /\ addedTotal' = 0 /\ before' = facts /\ facts' = facts /\ rules' = rules
      /\ asserted' = asserted /\ settled' = settled
  BY DEF Evaluate
<1>2. Cardinality(facts) \in Nat
  BY FS_CardinalityType DEF EngineInv
<1>3. Sound'
  BY <1>1 DEF EngineInv, Sound
<1>4. addedTotal' = Cardinality(facts') - Cardinality(before')
  BY <1>1, <1>2
<1>. QED
  BY <1>1, <1>3, <1>4 DEF EngineInv

\* A round adds what follows in one step, counts it, and settles when that is nothing.
LEMMA RoundAdds ==
    ASSUME EngineInv, Round
    PROVE  /\ EngineInv'
           /\ rules' = rules /\ asserted' = asserted
           /\ settled' <=> ConsequencesOf(rules, facts) \subseteq facts
<1> DEFINE derived == ConsequencesOf(rules, facts)
           added == derived \ facts
<1>0. /\ rules \in SUBSET RuleSet /\ IsFiniteSet(rules)
      /\ facts \in SUBSET FactSet /\ IsFiniteSet(facts)
      /\ addedTotal \in Nat
      /\ asserted \subseteq facts /\ before \subseteq facts
      /\ pc = "evaluating" => addedTotal = Cardinality(facts) - Cardinality(before)
      /\ Sound
  BY DEF EngineInv
<1>1. Turn(added, Cardinality(added), added = {})
  <2>1. UNION {DeriveRule(rule, facts) : rule \in rules} = derived
    BY <1>0, RoundDerives
  <2>. QED
    BY <2>1 DEF Round
<1>2. /\ pc = "evaluating" /\ facts' = facts \cup added /\ addedTotal' = addedTotal + Cardinality(added)
      /\ settled' = (added = {}) /\ rules' = rules /\ asserted' = asserted /\ before' = before
  BY <1>1 DEF Turn
<1>3. derived \subseteq FactSet /\ IsFiniteSet(added)
  BY <1>0, FactsFollow, FinitelyFollow, FS_Difference
<1>4. facts' \in SUBSET FactSet /\ IsFiniteSet(facts')
  BY <1>0, <1>2, <1>3, FS_Union
<1>5. /\ Cardinality(facts') = Cardinality(facts) + Cardinality(added)
      /\ Cardinality(facts) \in Nat /\ Cardinality(added) \in Nat /\ Cardinality(before) \in Nat
  <2>1. facts \cap added = {}
    OBVIOUS
  <2>. HIDE DEF added
  <2>2. Cardinality(facts \cup added) = Cardinality(facts) + Cardinality(added) - 0
    BY <1>0, <1>3, <2>1, FS_Union, FS_EmptySet
  <2>3. IsFiniteSet(before)
    BY <1>0, FS_Subset
  <2>. QED
    BY <1>0, <1>2, <1>3, <2>2, <2>3, FS_CardinalityType
<1>6. addedTotal' = Cardinality(facts') - Cardinality(before') /\ addedTotal' \in Nat
  BY <1>0, <1>2, <1>5
<1>7. Sound'
  <2>1. ASSUME NEW M \in SUBSET FactSet, asserted \subseteq M, ConsequencesOf(rules, M) \subseteq M
        PROVE  facts' \subseteq M
    <3>1. facts \subseteq M
      BY <1>0, <2>1 DEF Sound
    <3>2. derived \subseteq ConsequencesOf(rules, M)
      BY <3>1, MoreFollows
    <3>. QED
      BY <1>2, <2>1, <3>1, <3>2
  <2>. QED
    BY <1>2, <2>1 DEF Sound
<1>8. settled' <=> derived \subseteq facts
  BY <1>2
<1>9. settled' => facts' = facts
  BY <1>2
<1>10. settled' \in BOOLEAN /\ asserted' \subseteq facts' /\ before' \subseteq facts'
  BY <1>0, <1>2
<1>. HIDE DEF added, derived
<1>11. settled' => ConsequencesOf(rules', facts') \subseteq facts'
  BY <1>2, <1>8, <1>9 DEF derived
<1>12. EngineInv'
  BY <1>0, <1>2, <1>4, <1>6, <1>7, <1>10, <1>11 DEF EngineInv
<1>. QED
  BY <1>2, <1>8, <1>12 DEF derived

\* From any start, a function of a set into itself can be applied again and again.
LEMMA Iterates ==
    ASSUME NEW X, NEW step \in [X -> X], NEW x0 \in X
    PROVE  \E g \in [Nat -> X] : g[0] = x0 /\ \A n \in Nat \ {0} : g[n] = step[g[n - 1]]
<1> DEFINE Runs(n) == {s \in [0 .. n -> X] : s[0] = x0 /\ \A i \in 1 .. n : s[i] = step[s[i - 1]]}
           Bad == {n \in Nat : Runs(n) = {}}
<1>1. Runs(0) # {}
  <2>1. [i \in 0 .. 0 |-> x0] \in Runs(0)
    OBVIOUS
  <2>. QED
    BY <2>1
<1>2. ASSUME NEW n \in Nat \ {0}, Runs(n - 1) # {} PROVE Runs(n) # {}
  <2>1. PICK s \in Runs(n - 1) : TRUE
    BY <1>2
  <2>2. s \in [0 .. (n - 1) -> X] /\ s[0] = x0 /\ \A i \in 1 .. (n - 1) : s[i] = step[s[i - 1]]
    BY <2>1
  <2> DEFINE t == [i \in 0 .. n |-> IF i = n THEN step[s[n - 1]] ELSE s[i]]
  <2>3. /\ 0 \in 0 .. n /\ 0 # n /\ n - 1 \in 0 .. (n - 1)
        /\ \A i \in 0 .. n : i # n => i \in 0 .. (n - 1)
        /\ \A i \in 1 .. n : /\ i - 1 \in 0 .. n /\ i - 1 # n /\ i \in 0 .. n
                             /\ i # n => i \in 1 .. (n - 1)
    OBVIOUS
  <2>4. t \in [0 .. n -> X]
    BY <2>2, <2>3
  <2>5. t[0] = x0
    BY <2>2, <2>3
  <2>6. \A i \in 0 .. n : t[i] = IF i = n THEN step[s[n - 1]] ELSE s[i]
    OBVIOUS
  <2>. HIDE DEF t
  <2>7. ASSUME NEW i \in 1 .. n PROVE t[i] = step[t[i - 1]]
    <3>1. CASE i = n
      BY <2>3, <2>6, <3>1
    <3>2. CASE i # n
      BY <2>2, <2>3, <2>6, <3>2
    <3>. QED
      BY <3>1, <3>2
  <2>8. t \in Runs(n)
    BY <2>4, <2>5, <2>7
  <2>. QED
    BY <2>8
<1>3. Bad = {}
  <2>1. SUFFICES ASSUME Bad # {} PROVE FALSE
    OBVIOUS
  <2>2. PICK n \in Bad : \A m \in Bad : n <= m
    BY <2>1, LeastNumber
  <2>. HIDE DEF Runs
  <2>3. n \in Nat \ {0} /\ n - 1 \in Nat /\ ~ (n <= n - 1)
    BY <1>1
  <2>. QED
    BY <1>2, <2>2, <2>3
<1>4. ASSUME NEW n \in Nat \ {0}, NEW s \in Runs(n), NEW t \in Runs(n - 1)
      PROVE  s[n - 1] = t[n - 1]
  <2> DEFINE Differ == {i \in 0 .. (n - 1) : s[i] # t[i]}
  <2>1. SUFFICES ASSUME Differ # {} PROVE FALSE
    <3>1. n - 1 \in 0 .. (n - 1)
      OBVIOUS
    <3>. QED
      BY <3>1
  <2>2. PICK i \in Differ : \A j \in Differ : i <= j
    <3>1. Differ \in SUBSET Nat
      OBVIOUS
    <3>. HIDE DEF Differ
    <3>. QED
      BY <2>1, <3>1, LeastNumber
  <2>3. i \in 1 .. (n - 1) /\ i \in 1 .. n
    OBVIOUS
  <2>4. i - 1 \in 0 .. (n - 1) /\ ~ (i <= i - 1)
    BY <2>3
  <2>5. s[i - 1] = t[i - 1]
    BY <2>2, <2>4
  <2>6. s[i] = step[s[i - 1]] /\ t[i] = step[t[i - 1]]
    BY <2>3
  <2>. QED
    BY <2>5, <2>6
<1> DEFINE r == [n \in Nat |-> CHOOSE s \in Runs(n) : TRUE]
           g == [n \in Nat |-> r[n][n]]
<1>5. \A n \in Nat : r[n] \in Runs(n)
  BY <1>3
<1>6. \A n \in Nat : g[n] = r[n][n]
  OBVIOUS
<1>7. g \in [Nat -> X]
  <2>. HIDE DEF r
  <2>1. \A n \in Nat : r[n] \in [0 .. n -> X] /\ n \in 0 .. n
    BY <1>5
  <2>2. \A n \in Nat : r[n][n] \in X
    BY <2>1
  <2>. QED
    BY <2>2
<1>8. g[0] = x0
  <2>. HIDE DEF r, g
  <2>. QED
    BY <1>5, <1>6
<1>9. ASSUME NEW n \in Nat \ {0} PROVE g[n] = step[g[n - 1]]
  <2>. HIDE DEF r, g
  <2>1. n - 1 \in Nat /\ n \in 1 .. n /\ r[n] \in Runs(n) /\ r[n - 1] \in Runs(n - 1)
    BY <1>5
  <2>2. r[n][n] = step[r[n][n - 1]]
    BY <2>1
  <2>3. r[n][n - 1] = r[n - 1][n - 1]
    BY <1>4, <2>1
  <2>. QED
    BY <1>6, <2>1, <2>2, <2>3
<1>. HIDE DEF g
<1>. QED
  BY <1>7, <1>8, <1>9

\* The consequences of n steps, as the recursion has them.
LEMMA FollowingSteps ==
    ASSUME rules \in SUBSET RuleSet, asserted \in SUBSET FactSet
    PROVE  /\ FollowsIn[0] = asserted
           /\ \A n \in Nat : FollowsIn[n + 1] = FollowsIn[n] \cup Consequences(FollowsIn[n])
<1> DEFINE X == SUBSET FactSet
           N(S) == S \cup Consequences(S)
           step == [S \in X |-> N(S)]
           Is(f) == f = [n \in Nat |-> IF n = 0 THEN asserted ELSE N(f[n - 1])]
<1>1. \A S : Consequences(S) = ConsequencesOf(rules, S)
  BY DEF Consequences, ConsequencesOf
<1>2. \A S \in X : N(S) \in X
  BY <1>1, FactsFollow
<1>3. PICK g \in [Nat -> X] : g[0] = asserted /\ \A n \in Nat \ {0} : g[n] = step[g[n - 1]]
  <2>1. step \in [X -> X] /\ asserted \in X
    BY <1>2
  <2>. HIDE DEF step, X
  <2>. QED
    BY <2>1, Iterates
<1>4. \A n \in Nat \ {0} : g[n] = N(g[n - 1])
  <2>1. \A n \in Nat \ {0} : g[n - 1] \in X
    BY <1>3
  <2>. HIDE DEF X, N
  <2>. QED
    BY <1>3, <2>1
<1>. HIDE DEF N, step
<1>5. Is(g)
  <2>1. g = [n \in Nat |-> g[n]]
    OBVIOUS
  <2>2. \A n \in Nat : g[n] = IF n = 0 THEN asserted ELSE N(g[n - 1])
    BY <1>3, <1>4
  <2>. HIDE DEF X
  <2>. QED
    BY <2>1, <2>2
<1>6. Is(FollowsIn)
  <2>1. FollowsIn = CHOOSE f : Is(f)
    BY DEF FollowsIn, N
  <2>. HIDE DEF Is
  <2>. QED
    BY <1>5, <2>1
<1> DEFINE f == FollowsIn
           r == [n \in Nat |-> IF n = 0 THEN asserted ELSE N(f[n - 1])]
<1>7. f = r
  BY <1>6
<1>8. r[0] = asserted
  OBVIOUS
<1>9. \A n \in Nat : r[n + 1] = N(f[n])
  <2>1. \A n \in Nat : n + 1 \in Nat /\ n + 1 # 0 /\ (n + 1) - 1 = n
    OBVIOUS
  <2>. HIDE DEF f
  <2>. QED
    BY <2>1
<1>. HIDE DEF r, f
<1>. QED
  BY <1>7, <1>8, <1>9 DEF N, f

\* Each step adds a fact until the engine's facts are reached, so as many steps as it
\* has facts of its own are enough.
LEMMA LeastModelFollows ==
    ASSUME EngineInv
    PROVE  LeastModel
<1>0. /\ rules \in SUBSET RuleSet /\ facts \in SUBSET FactSet /\ IsFiniteSet(facts)
      /\ asserted \subseteq facts /\ Sound
      /\ settled => ConsequencesOf(rules, facts) \subseteq facts
  BY DEF EngineInv
<1>1. \A S : Consequences(S) = ConsequencesOf(rules, S)
  BY DEF Consequences, ConsequencesOf
<1> DEFINE F(n) == FollowsIn[n]
           Own(S) == S \ asserted
           K == Cardinality(Own(facts))
           Reaches(n) == /\ asserted \subseteq F(n) /\ F(n) \subseteq facts
                         /\ F(n) = facts \/ n <= Cardinality(Own(F(n)))
           Bad == {n \in Nat : ~ Reaches(n)}
<1>2. SUFFICES ASSUME settled PROVE facts \subseteq F(K)
  BY <1>0, <1>1 DEF LeastModel
<1>3. F(0) = asserted /\ \A n \in Nat : F(n + 1) = F(n) \cup Consequences(F(n))
  BY <1>0, FollowingSteps
<1>. HIDE DEF F
<1>4. Reaches(0)
  <2>1. Own(asserted) = {}
    OBVIOUS
  <2>. QED
    BY <1>0, <1>3, <2>1, FS_EmptySet
<1>5. ASSUME NEW n \in Nat, Reaches(n) PROVE Reaches(n + 1)
  <2> DEFINE G == F(n)
             H == F(n + 1)
  <2>1. H = G \cup Consequences(G)
    BY <1>3
  <2>2. H \subseteq facts
    <3>1. Consequences(G) \subseteq Consequences(facts)
      BY <1>1, <1>5, MoreFollows
    <3>2. Consequences(facts) \subseteq facts
      BY <1>0, <1>1, <1>2
    <3>. QED
      BY <1>5, <2>1, <3>1, <3>2
  <2>3. CASE Consequences(G) \subseteq G
    <3>1. facts \subseteq G
      BY <1>0, <1>1, <1>5, <2>3 DEF Sound
    <3>. QED
      BY <1>5, <2>1, <2>2, <3>1
  <2>4. CASE ~ (Consequences(G) \subseteq G)
    <3>1. PICK x \in Consequences(G) : x \notin G
      BY <2>4
    <3>2. x \in Own(H) /\ x \notin Own(G) /\ Own(G) \subseteq Own(H)
      BY <1>5, <2>1, <3>1
    <3>3. IsFiniteSet(Own(H)) /\ IsFiniteSet(Own(G))
      <4>1. Own(H) \in SUBSET facts /\ Own(G) \in SUBSET facts
        BY <2>2, <1>5
      <4>. HIDE DEF G, H, Own
      <4>. QED
        BY <1>0, <4>1, FS_Subset
    <3>4. Cardinality(Own(G)) \in Nat /\ Cardinality(Own(H)) \in Nat
      <4>. HIDE DEF G, H, Own
      <4>. QED
        BY <3>3, FS_CardinalityType
    <3>5. Cardinality(Own(G)) + 1 <= Cardinality(Own(H))
      <4> DEFINE A == Own(G)
                 B == Own(H)
      <4>1. A \in SUBSET B /\ A # B
        BY <3>2
      <4>. HIDE DEF A, B
      <4>2. Cardinality(A) <= Cardinality(B) /\ Cardinality(A) # Cardinality(B)
        BY <3>3, <4>1, FS_Subset DEF A, B
      <4>. QED
        BY <3>4, <4>2 DEF A, B
    <3>6. CASE G = facts
      BY <1>5, <2>1, <2>2, <3>6
    <3>7. CASE n <= Cardinality(Own(G))
      <4>1. n + 1 <= Cardinality(Own(H))
        <5>. HIDE DEF Own, G, H
        <5>. QED
          BY <3>4, <3>5, <3>7
      <4>. QED
        BY <1>5, <2>1, <2>2, <4>1
    <3>. QED
      BY <1>5, <3>6, <3>7
  <2>. QED
    BY <2>3, <2>4
<1>6. Bad = {}
  <2>1. SUFFICES ASSUME Bad # {} PROVE FALSE
    OBVIOUS
  <2>2. PICK n \in Bad : \A m \in Bad : n <= m
    BY <2>1, LeastNumber
  <2>. HIDE DEF Reaches
  <2>3. n # 0 /\ n - 1 \in Nat /\ ~ (n <= n - 1) /\ (n - 1) + 1 = n
    BY <1>4
  <2>4. Reaches(n - 1)
    BY <2>2, <2>3
  <2>5. Reaches((n - 1) + 1)
    BY <1>5, <2>3, <2>4
  <2>. QED
    BY <2>3, <2>5
<1>7. IsFiniteSet(Own(facts)) /\ K \in Nat
  BY <1>0, FS_Difference, FS_CardinalityType
<1>8. Reaches(K)
  <2>. HIDE DEF Reaches, K
  <2>. QED
    BY <1>6, <1>7
<1>9. CASE F(K) = facts
  BY <1>9
<1>10. CASE K <= Cardinality(Own(F(K)))
  <2> DEFINE A == Own(F(K))
             B == Own(facts)
  <2>1. A \in SUBSET B
    BY <1>8
  <2>2. B \subseteq A => facts \subseteq F(K)
    BY <1>8
  <2>3. K = Cardinality(B) /\ K <= Cardinality(A) /\ IsFiniteSet(B)
    BY <1>7, <1>10
  <2>. HIDE DEF A, B, K
  <2>4. IsFiniteSet(A) /\ Cardinality(A) <= Cardinality(B)
    BY <2>1, <2>3, FS_Subset
  <2>5. Cardinality(A) \in Nat /\ Cardinality(B) \in Nat
    BY <2>3, <2>4, FS_CardinalityType
  <2>6. A = B
    BY <2>1, <2>3, <2>4, <2>5, FS_Subset
  <2>. QED
    BY <2>2, <2>6
<1>. QED
  BY <1>8, <1>9, <1>10

-----------------------------------------------------------------------------
\* The rounds of one evaluation.  Heads build no values, so that all it adds is among the
\* facts with a head's predicate, as many arguments as the head has terms, and no values
\* but those that facts had when it began or heads have themselves.

LiteralsOf(atom) == {term[2] : term \in {t \in ToSet(atom.terms) : t[1] = "Lit"}}
HeadValues(R, S) == ValuesIn(S) \cup UNION {LiteralsOf(rule.head) : rule \in R}
HeadFacts(R, S) ==
  UNION {{Fact(rule.head.predicate, args) :
            args \in [1 .. Len(rule.head.terms) -> HeadValues(R, S)]} : rule \in R}

\* There are finitely many functions on a finite interval.
LEMMA FinitelyManySequences ==
    ASSUME NEW V, IsFiniteSet(V)
    PROVE  \A n \in Nat : IsFiniteSet([1 .. n -> V])
<1> DEFINE Good(n) == IsFiniteSet([1 .. n -> V])
           Bad == {n \in Nat : ~ Good(n)}
<1>1. IsFiniteSet([1 .. 0 -> V])
  <2>1. 1 .. 0 = {}
    OBVIOUS
  <2>2. \A b : b \in [{} -> V] <=> b = NoBinding
    BY DEF NoBinding
  <2>3. [1 .. 0 -> V] = {NoBinding}
    BY <2>1, <2>2
  <2>. QED
    BY <2>3, FS_Singleton
<1>2. ASSUME NEW n \in Nat \ {0}, IsFiniteSet([1 .. (n - 1) -> V])
      PROVE  IsFiniteSet([1 .. n -> V])
  <2> DEFINE P == [1 .. (n - 1) -> V] \X V
             Longer(h, v) == [i \in 1 .. n |-> IF i = n THEN v ELSE h[i]]
             g == [p \in P |-> Longer(p[1], p[2])]
  <2>1. IsFiniteSet(P)
    BY <1>2, FS_Product
  <2>2. IsFiniteSet({g[p] : p \in P})
    <3>1. g = [p \in P |-> g[p]]
      OBVIOUS
    <3>. HIDE DEF g, P
    <3>. QED
      BY <2>1, <3>1, ImageIsFinite
  <2>3. ASSUME NEW h \in [1 .. n -> V] PROVE h \in {g[p] : p \in P}
    <3> DEFINE k == [i \in 1 .. (n - 1) |-> h[i]]
    <3>1. n \in 1 .. n /\ \A i \in 1 .. n : i # n => i \in 1 .. (n - 1)
      OBVIOUS
    <3>2. \A i \in 1 .. (n - 1) : i \in 1 .. n
      OBVIOUS
    <3>3. k \in [1 .. (n - 1) -> V] /\ h[n] \in V
      BY <3>1, <3>2
    <3>4. h = Longer(k, h[n])
      BY <3>1
    <3>. HIDE DEF k, Longer
    <3>5. <<k, h[n]>> \in P /\ g[<<k, h[n]>>] = Longer(k, h[n])
      BY <3>3
    <3>. HIDE DEF g, P
    <3>. QED
      BY <3>4, <3>5
  <2>. HIDE DEF g, P
  <2>4. [1 .. n -> V] \in SUBSET {g[p] : p \in P}
    BY <2>3
  <2>. QED
    BY <2>2, <2>4, FS_Subset
<1>3. Bad = {}
  <2>1. SUFFICES ASSUME Bad # {} PROVE FALSE
    OBVIOUS
  <2>2. PICK n \in Bad : \A m \in Bad : n <= m
    BY <2>1, LeastNumber
  <2>3. Good(0) /\ \A m \in Nat \ {0} : Good(m - 1) => Good(m)
    BY <1>1, <1>2
  <2>. HIDE DEF Good
  <2>4. n \in Nat \ {0} /\ n - 1 \in Nat /\ ~ (n <= n - 1)
    BY <2>3
  <2>. QED
    BY <2>2, <2>3, <2>4
<1>. QED
  BY <1>3

\* The members of a sequence are finitely many.
LEMMA FinitelyManyMembers ==
    ASSUME NEW T, NEW s \in Seq(T)
    PROVE  IsFiniteSet(ToSet(s))
<1>1. DOMAIN s = 1 .. Len(s) /\ Len(s) \in Nat /\ s = [i \in DOMAIN s |-> s[i]]
  OBVIOUS
<1>2. IsFiniteSet(DOMAIN s)
  <2>1. 1 \in Int /\ Len(s) \in Int
    BY <1>1
  <2>. QED
    BY <1>1, <2>1, FS_Interval
<1>3. IsFiniteSet({s[i] : i \in DOMAIN s})
  BY <1>1, <1>2, ImageIsFinite
<1>. QED
  BY <1>3 DEF ToSet

\* What may be added is finite.
LEMMA FinitelyManyHeadFacts ==
    ASSUME NEW R \in SUBSET RuleSet, IsFiniteSet(R), NEW S \in SUBSET FactSet, IsFiniteSet(S)
    PROVE  IsFiniteSet(HeadFacts(R, S))
<1>1. IsFiniteSet(ValuesIn(S))
  <2> DEFINE g == [f \in S |-> ToSet(f.args)]
  <2>1. g = [f \in S |-> g[f]] /\ \A f \in S : g[f] = ToSet(f.args)
    OBVIOUS
  <2>2. \A f \in S : IsFiniteSet(g[f])
    BY FinitelyManyMembers DEF FactSet
  <2>3. ValuesIn(S) = UNION {g[f] : f \in S}
    BY <2>1 DEF ValuesIn
  <2>. HIDE DEF g
  <2>4. IsFiniteSet({g[f] : f \in S})
    BY <2>1, ImageIsFinite
  <2>. QED
    BY <2>2, <2>3, <2>4, FS_UNION
<1>2. ASSUME NEW rule \in R PROVE IsFiniteSet(LiteralsOf(rule.head))
  <2> DEFINE T == ToSet(rule.head.terms)
             U == {t \in T : t[1] = "Lit"}
             g == [t \in U |-> t[2]]
  <2>1. IsFiniteSet(T)
    BY FinitelyManyMembers DEF RuleSet, Atoms
  <2>2. IsFiniteSet(U)
    BY <2>1, FS_Subset
  <2>3. LiteralsOf(rule.head) = {g[t] : t \in U}
    BY DEF LiteralsOf
  <2>4. g = [t \in U |-> g[t]]
    OBVIOUS
  <2>. HIDE DEF g, U
  <2>. QED
    BY <2>2, <2>3, <2>4, ImageIsFinite
<1>3. IsFiniteSet(HeadValues(R, S))
  <2> DEFINE g == [rule \in R |-> LiteralsOf(rule.head)]
  <2>1. g = [rule \in R |-> g[rule]] /\ \A rule \in R : IsFiniteSet(g[rule])
    BY <1>2
  <2>2. HeadValues(R, S) = ValuesIn(S) \cup UNION {g[rule] : rule \in R}
    BY DEF HeadValues
  <2>. HIDE DEF g
  <2>3. IsFiniteSet({g[rule] : rule \in R})
    BY <2>1, ImageIsFinite
  <2>4. \A T \in {g[rule] : rule \in R} : IsFiniteSet(T)
    BY <2>1
  <2>5. IsFiniteSet(UNION {g[rule] : rule \in R})
    BY <2>3, <2>4, FS_UNION
  <2> DEFINE L == UNION {g[rule] : rule \in R}
  <2>6. IsFiniteSet(L) /\ HeadValues(R, S) = ValuesIn(S) \cup L
    BY <2>2, <2>5
  <2>. HIDE DEF L
  <2>7. IsFiniteSet(ValuesIn(S) \cup L)
    BY <1>1, <2>6, FS_Union
  <2>. QED
    BY <2>6, <2>7
<1> DEFINE V == HeadValues(R, S)
           H(rule) == {Fact(rule.head.predicate, args) : args \in [1 .. Len(rule.head.terms) -> V]}
<1>4. ASSUME NEW rule \in R PROVE IsFiniteSet(H(rule))
  <2> DEFINE A == [1 .. Len(rule.head.terms) -> V]
             g == [args \in A |-> Fact(rule.head.predicate, args)]
  <2>1. Len(rule.head.terms) \in Nat
    BY DEF RuleSet, Atoms
  <2>2. IsFiniteSet(A)
    BY <1>3, <2>1, FinitelyManySequences
  <2>3. H(rule) = {g[args] : args \in A} /\ g = [args \in A |-> g[args]]
    OBVIOUS
  <2>. HIDE DEF g, A, H
  <2>. QED
    BY <2>2, <2>3, ImageIsFinite
<1> DEFINE h == [rule \in R |-> H(rule)]
<1>5. HeadFacts(R, S) = UNION {h[rule] : rule \in R}
  BY DEF HeadFacts
<1>6. h = [rule \in R |-> h[rule]] /\ \A rule \in R : IsFiniteSet(h[rule])
  <2>. HIDE DEF H
  <2>. QED
    BY <1>4
<1>. HIDE DEF h
<1>7. IsFiniteSet({h[rule] : rule \in R})
  BY <1>6, ImageIsFinite
<1>. QED
  BY <1>5, <1>6, <1>7, FS_UNION

\* What follows from such facts are such facts.
LEMMA HeadsBuildNoValues ==
    ASSUME NEW R \in SUBSET RuleSet, NEW S \in SUBSET FactSet,
           NEW F, F \subseteq S \cup HeadFacts(R, S)
    PROVE  ConsequencesOf(R, F) \subseteq HeadFacts(R, S)
<1> DEFINE V == HeadValues(R, S)
<1>1. ASSUME NEW f \in F PROVE ToSet(f.args) \subseteq V
  <2>1. CASE f \in S
    BY <2>1 DEF HeadValues, ValuesIn
  <2>2. CASE f \in HeadFacts(R, S)
    <3>1. PICK rule \in R : \E args \in [1 .. Len(rule.head.terms) -> V] :
                              f = Fact(rule.head.predicate, args)
      BY <2>2 DEF HeadFacts
    <3>. HIDE DEF V
    <3>2. PICK args \in [1 .. Len(rule.head.terms) -> V] : f = Fact(rule.head.predicate, args)
      BY <3>1
    <3>3. f.args = args
      BY <3>2 DEF Fact
    <3>. QED
      BY <3>3 DEF ToSet
  <2>. QED
    BY <2>1, <2>2
<1>2. ValuesIn(F) \subseteq V
  <2>. HIDE DEF V
  <2>. QED
    BY <1>1 DEF ValuesIn
<1>3. ASSUME NEW rule \in R, VarsOf(rule.head) \subseteq BodyVars(rule),
             NEW a \in [BodyVars(rule) -> ValuesIn(F)]
      PROVE  Ground(rule.head, a) \in HeadFacts(R, S)
  <2> DEFINE head == rule.head
             args == [i \in DOMAIN head.terms |-> ValueOf(head.terms[i], a)]
  <2>1. head \in Atoms
    BY DEF RuleSet
  <2>2. LiteralsOf(head) \subseteq V
    BY DEF HeadValues
  <2>3. \A name \in VarsOf(head) : a[name] \in V
    BY <1>2, <1>3
  <2>4. DOMAIN head.terms = 1 .. Len(head.terms)
    <3>. HIDE DEF head
    <3>. QED
      BY <2>1, Terms
  <2>5. ASSUME NEW i \in DOMAIN head.terms PROVE ValueOf(head.terms[i], a) \in V
    <3>. HIDE DEF head, V
    <3>1. head.terms[i] \in ToSet(head.terms)
      BY DEF ToSet
    <3>2. \/ head.terms[i][1] = "Lit"
          \/ head.terms[i][1] = "Var" /\ head.terms[i][2] \in VarsOf(head)
      BY <2>1, Terms
    <3>3. CASE head.terms[i][1] = "Lit"
      BY <2>2, <3>1, <3>3 DEF LiteralsOf, ValueOf
    <3>4. CASE head.terms[i][1] = "Var" /\ head.terms[i][2] \in VarsOf(head)
      BY <2>3, <3>4 DEF ValueOf
    <3>. QED
      BY <3>2, <3>3, <3>4
  <2>6. args \in [1 .. Len(head.terms) -> V]
    <3>. HIDE DEF head, V
    <3>. QED
      BY <2>4, <2>5
  <2>7. Ground(head, a) = Fact(head.predicate, args)
    BY DEF Ground
  <2>. HIDE DEF args
  <2>. QED
    BY <2>6, <2>7 DEF HeadFacts
<1>. QED
  BY <1>3 DEF ConsequencesOf

WithinHeads == pc = "evaluating" => facts \subseteq before \cup HeadFacts(rules, before)

\* An evaluation begins with the facts there are; callers do nothing while it runs.
LEMMA OutsideRounds ==
    ASSUME \/ \E fs : AssertFacts(fs)
           \/ \E rule : AddRule(rule)
           \/ Evaluate
    PROVE  WithinHeads'
<1>1. \/ pc' = "idle"
      \/ facts' = before'
  BY DEF AssertFacts, AddRule, Evaluate
<1>. QED
  BY <1>1 DEF WithinHeads

\* A round stays within the heads.
LEMMA RoundWithin ==
    ASSUME EngineInv, WithinHeads, Round
    PROVE  WithinHeads'
<1> DEFINE added == ConsequencesOf(rules, facts) \ facts
<1>1. rules \in SUBSET RuleSet /\ facts \in SUBSET FactSet /\ before \in SUBSET FactSet
  BY DEF EngineInv
<1>2. pc = "evaluating" /\ facts' = facts \cup added /\ rules' = rules /\ before' = before
  <2>1. UNION {DeriveRule(rule, facts) : rule \in rules} = ConsequencesOf(rules, facts)
    BY <1>1, RoundDerives
  <2>. QED
    BY <2>1 DEF Round, Turn
<1>3. ConsequencesOf(rules, facts) \subseteq HeadFacts(rules, before)
  BY <1>1, <1>2, HeadsBuildNoValues DEF WithinHeads
<1>. QED
  BY <1>2, <1>3 DEF WithinHeads

\* The count never exceeds the number of facts that heads can make.
CountBounded ==
  pc = "evaluating" => addedTotal <= Cardinality(HeadFacts(rules, before))

LEMMA BoundFollows ==
    ASSUME EngineInv, WithinHeads
    PROVE  CountBounded
<1>. SUFFICES ASSUME pc = "evaluating"
             PROVE  addedTotal <= Cardinality(HeadFacts(rules, before))
  BY DEF CountBounded
<1> DEFINE H == HeadFacts(rules, before)
           N == facts \ before
<1>1. /\ rules \in SUBSET RuleSet /\ IsFiniteSet(rules)
      /\ before \in SUBSET FactSet /\ before \subseteq facts /\ IsFiniteSet(facts)
      /\ addedTotal = Cardinality(facts) - Cardinality(before)
  BY DEF EngineInv
<1>2. IsFiniteSet(H)
  BY <1>1, FS_Subset, FinitelyManyHeadFacts
<1>3. N \in SUBSET H
  BY DEF WithinHeads
<1>4. Cardinality(N) = Cardinality(facts) - Cardinality(before)
  <2>1. facts \cap before = before
    BY <1>1
  <2>. QED
    BY <1>1, <2>1, FS_Difference
<1>. HIDE DEF H, N
<1>5. Cardinality(N) <= Cardinality(H)
  BY <1>2, <1>3, FS_Subset
<1>. QED
  BY <1>1, <1>4, <1>5 DEF H

\* A round after which evaluate goes on has counted something.
LEMMA RoundCounts ==
    ASSUME EngineInv, Round, pc' = "evaluating"
    PROVE  addedTotal' > addedTotal
<1> DEFINE added == ConsequencesOf(rules, facts) \ facts
<1>1. /\ rules \in SUBSET RuleSet /\ IsFiniteSet(rules)
      /\ facts \in SUBSET FactSet /\ IsFiniteSet(facts) /\ addedTotal \in Nat
  BY DEF EngineInv
<1>2. addedTotal' = addedTotal + Cardinality(added) /\ added # {}
  <2>1. UNION {DeriveRule(rule, facts) : rule \in rules} = ConsequencesOf(rules, facts)
    BY <1>1, RoundDerives
  <2>. QED
    BY <2>1 DEF Round, Turn
<1>3. IsFiniteSet(added)
  BY <1>1, FinitelyFollow, FS_Difference
<1>. HIDE DEF added
<1>4. Cardinality(added) \in Nat /\ Cardinality(added) # 0
  BY <1>2, <1>3, FS_EmptySet, FS_CardinalityType
<1>. QED
  BY <1>1, <1>2, <1>4

-----------------------------------------------------------------------------
\* The program that asserts and adds as it likes.

\* Its engine is always as the invariant says.
THEOREM EngineHolds == Spec => []EngineInv
<1>1. Init => EngineInv
  BY Starts, FS_EmptySet DEF Init
<1>2. EngineInv /\ [Next]_engineVars => EngineInv'
  <2>. SUFFICES ASSUME EngineInv, [Next]_engineVars PROVE EngineInv'
    OBVIOUS
  <2>1. CASE \E f \in BaseFacts : AssertFact(f)
    <3>1. PICK f \in BaseFacts : AssertFact(f)
      BY <2>1
    <3>2. {f} \in SUBSET FactSet /\ IsFiniteSet({f}) /\ AssertFacts({f})
      BY <3>1, EngineAssumption, FS_Singleton DEF AssertFact
    <3>. QED
      BY <3>2, Asserts
  <2>2. CASE \E rule \in Rules : AddRule(rule)
    BY <2>2, EngineAssumption, Adds
  <2>3. CASE Evaluate
    BY <2>3, Evaluates
  <2>4. CASE Round
    BY <2>4, RoundAdds
  <2>5. CASE UNCHANGED engineVars
    BY <2>5 DEF EngineInv, Sound, engineVars
  <2>. QED
    BY <2>1, <2>2, <2>3, <2>4, <2>5 DEF Next
<1>. QED
  BY <1>1, <1>2, PTL DEF Spec

\* Its facts are those that follow from what it asserted, once evaluate has returned.
THEOREM FactsAreLeastModel == Spec => []LeastModel
<1>1. EngineInv => LeastModel
  BY LeastModelFollows
<1>. QED
  BY <1>1, EngineHolds, PTL

\* evaluate returned the number of facts it added.
THEOREM CountIsRight == Spec => []CountsWhatItAdds
<1>1. EngineInv => CountsWhatItAdds
  BY DEF EngineInv, CountsWhatItAdds
<1>. QED
  BY <1>1, EngineHolds, PTL

\* evaluate ends: a round after which it goes on raises the count, and the count has a
\* bound that the evaluation does not move.
THEOREM EvaluationIsBounded ==
    Spec => /\ []CountBounded
            /\ [][Round /\ pc' = "evaluating" => addedTotal' > addedTotal]_engineVars
<1>1. Init => WithinHeads
  BY DEF Init, EngineInit, WithinHeads
<1>2. EngineInv /\ WithinHeads /\ [Next]_engineVars => WithinHeads'
  <2>. SUFFICES ASSUME EngineInv, WithinHeads, [Next]_engineVars PROVE WithinHeads'
    OBVIOUS
  <2>1. CASE \E f \in BaseFacts : AssertFact(f)
    BY <2>1, OutsideRounds DEF AssertFact
  <2>2. CASE \E rule \in Rules : AddRule(rule)
    BY <2>2, OutsideRounds
  <2>3. CASE Evaluate
    BY <2>3, OutsideRounds
  <2>4. CASE Round
    BY <2>4, RoundWithin
  <2>5. CASE UNCHANGED engineVars
    BY <2>5 DEF WithinHeads, engineVars
  <2>. QED
    BY <2>1, <2>2, <2>3, <2>4, <2>5 DEF Next
<1>3. EngineInv /\ WithinHeads => CountBounded
  BY BoundFollows
<1>4. EngineInv /\ [Next]_engineVars
        => [Round /\ pc' = "evaluating" => addedTotal' > addedTotal]_engineVars
  BY RoundCounts
<1>. QED
  BY <1>1, <1>2, <1>3, <1>4, EngineHolds, PTL DEF Spec

-----------------------------------------------------------------------------
\* The lens's rules.  Each is about one continuation.

Of(predicate) == Atom(predicate, <<Var("continuation")>>)
IsAt(predicate, value) == Atom(predicate, <<Var("continuation"), Lit(value)>>)
CoreAtom(x) == \E p \in Strings : x = Of(p) \/ \E v \in Strings : x = IsAt(p, v)
With(id) == [name \in {"continuation"} |-> id]

\* Their words are strings.
LEMMA CoreWords ==
    /\ "continuation" \in Strings /\ "continuation_status" \in Strings
    /\ "continuation_type" \in Strings /\ "risk_level" \in Strings /\ "time_horizon" \in Strings
    /\ "active" \in Strings /\ "needs_review" \in Strings /\ "risk_marker" \in Strings
    /\ "living_past" \in Strings /\ "commitment" \in Strings /\ "forming_future" \in Strings
    /\ "timing_attention" \in Strings /\ "path_choice" \in Strings
    /\ Status \subseteq Strings
    /\ "high" \in Strings /\ "near" \in Strings /\ "review" \in Strings
    /\ "review_now" \in Strings /\ "obligation" \in Strings /\ "opportunity" \in Strings
BY LensAssumption DEF Words, Status

\* What a binding makes of an atom of theirs.
LEMMA CoreGrounds ==
    /\ \A p, b : Ground(Of(p), b) = Fact(p, <<b["continuation"]>>)
    /\ \A p, v, b : Ground(IsAt(p, v), b) = Fact(p, <<b["continuation"], v>>)
<1> DEFINE c == Var("continuation")
<1>1. ASSUME NEW p, NEW b PROVE Ground(Of(p), b) = Fact(p, <<b["continuation"]>>)
  <2>1. Of(p).predicate = p /\ Of(p).terms = <<c>>
    BY DEF Of, Atom
  <2>2. ValueOf(c, b) = b["continuation"]
    BY DEF ValueOf, Var
  <2>. HIDE DEF c
  <2>3. [i \in DOMAIN <<c>> |-> ValueOf(<<c>>[i], b)] = <<ValueOf(c, b)>>
    OBVIOUS
  <2>. QED
    BY <2>1, <2>2, <2>3 DEF Ground
<1>2. ASSUME NEW p, NEW v, NEW b
      PROVE  Ground(IsAt(p, v), b) = Fact(p, <<b["continuation"], v>>)
  <2>1. IsAt(p, v).predicate = p /\ IsAt(p, v).terms = <<c, Lit(v)>>
    BY DEF IsAt, Atom
  <2>2. ValueOf(c, b) = b["continuation"] /\ ValueOf(Lit(v), b) = v
    BY DEF ValueOf, Var, Lit
  <2>. HIDE DEF c
  <2>3. [i \in DOMAIN <<c, Lit(v)>> |-> ValueOf(<<c, Lit(v)>>[i], b)]
          = <<ValueOf(c, b), ValueOf(Lit(v), b)>>
    OBVIOUS
  <2>. QED
    BY <2>1, <2>2, <2>3 DEF Ground
<1>. QED
  BY <1>1, <1>2

\* They are atoms with one variable, which is the fact's first argument.
LEMMA CoreAtoms ==
    ASSUME NEW x, CoreAtom(x)
    PROVE  /\ x \in Atoms /\ VarsOf(x) = {"continuation"}
           /\ \A b : b["continuation"] \in ToSet(Ground(x, b).args)
<1> DEFINE c == Var("continuation")
<1>1. c \in Term /\ c[1] = "Var" /\ c[2] = "continuation"
  BY CoreWords DEF Var, Term
<1>2. PICK p \in Strings : x = Of(p) \/ \E v \in Strings : x = IsAt(p, v)
  BY DEF CoreAtom
<1>3. CASE x = Of(p)
  <2>1. x = [predicate |-> p, terms |-> <<c>>]
    BY <1>3 DEF Of, Atom
  <2>. HIDE DEF c
  <2>2. x \in Atoms /\ ToSet(x.terms) = {c}
    BY <1>1, <2>1 DEF Atoms, ToSet
  <2>3. VarsOf(x) = {"continuation"}
    BY <1>1, <2>2 DEF VarsOf
  <2>4. \A b : Ground(x, b).args = <<b["continuation"]>>
    BY <1>3, CoreGrounds DEF Fact
  <2>5. \A b : b["continuation"] \in ToSet(Ground(x, b).args)
    <3>1. \A y : y \in ToSet(<<y>>)
      BY DEF ToSet
    <3>. QED
      BY <2>4, <3>1
  <2>. QED
    BY <2>2, <2>3, <2>5
<1>4. CASE \E v \in Strings : x = IsAt(p, v)
  <2>0. PICK v \in Strings : x = IsAt(p, v)
    BY <1>4
  <2>1. x = [predicate |-> p, terms |-> <<c, Lit(v)>>]
    BY <2>0 DEF IsAt, Atom
  <2>2. Lit(v) \in Term /\ Lit(v)[1] # "Var"
    BY DEF Term, Lit
  <2>. HIDE DEF c
  <2>3. x \in Atoms /\ ToSet(x.terms) = {c, Lit(v)}
    BY <1>1, <2>1, <2>2 DEF Atoms, ToSet
  <2>4. VarsOf(x) = {"continuation"}
    BY <1>1, <2>2, <2>3 DEF VarsOf
  <2>5. \A b : Ground(x, b).args = <<b["continuation"], v>>
    BY <2>0, CoreGrounds DEF Fact
  <2>6. \A b : b["continuation"] \in ToSet(Ground(x, b).args)
    <3>1. \A y : y \in ToSet(<<y, v>>)
      BY DEF ToSet
    <3>. QED
      BY <2>5, <3>1
  <2>. QED
    BY <2>3, <2>4, <2>6
<1>. QED
  BY <1>2, <1>3, <1>4

\* f is what the rule concludes from S under some binding; and for a rule about one
\* continuation, that binding names the continuation.
Follows(f, rule, S) ==
  \E a \in [BodyVars(rule) -> ValuesIn(S)] :
    (\A x \in ToSet(rule.body) : Ground(x, a) \in S) /\ f = Ground(rule.head, a)

Concludes(rule, S) ==
  /\ rule \in RuleSet /\ VarsOf(rule.head) \subseteq BodyVars(rule)
  /\ \A f : Follows(f, rule, S)
             <=> \E id : /\ \A x \in ToSet(rule.body) : Ground(x, With(id)) \in S
                         /\ f = Ground(rule.head, With(id))

\* A rule of theirs concludes from a continuation's facts what its head says of it.
LEMMA CoreRuleFollows ==
    ASSUME NEW S, NEW head, CoreAtom(head),
           NEW body \in Seq(Atoms), ToSet(body) # {}, \A x \in ToSet(body) : CoreAtom(x)
    PROVE  Concludes(Rule(head, body), S)
<1> DEFINE rule == Rule(head, body)
<1>1. rule = [head |-> head, body |-> body] /\ rule.head = head /\ rule.body = body
  BY DEF Rule
<1>2. rule \in RuleSet
  BY <1>1, CoreAtoms DEF RuleSet
<1>3. BodyVars(rule) = {"continuation"}
  <2>1. \A x \in ToSet(body) : VarsOf(x) = {"continuation"}
    BY CoreAtoms
  <2>. HIDE DEF rule
  <2>. QED
    BY <1>1, <2>1 DEF BodyVars
<1>4. VarsOf(head) = {"continuation"}
  BY CoreAtoms
<1>5. ASSUME NEW a \in [{"continuation"} -> ValuesIn(S)]
      PROVE  a = With(a["continuation"])
  BY DEF With
<1>6. ASSUME NEW id, \A x \in ToSet(body) : Ground(x, With(id)) \in S
      PROVE  With(id) \in [{"continuation"} -> ValuesIn(S)]
  <2>1. PICK x \in ToSet(body) : Ground(x, With(id)) \in S
    BY <1>6
  <2>2. With(id)["continuation"] = id
    BY DEF With
  <2>3. id \in ToSet(Ground(x, With(id)).args)
    BY <2>2, CoreAtoms
  <2>4. id \in ValuesIn(S)
    BY <2>1, <2>3 DEF ValuesIn
  <2>. QED
    BY <2>4 DEF With
<1>7. ASSUME NEW f
      PROVE  (\E a \in [{"continuation"} -> ValuesIn(S)] :
                (\A x \in ToSet(body) : Ground(x, a) \in S) /\ f = Ground(head, a))
             <=> \E id : (\A x \in ToSet(body) : Ground(x, With(id)) \in S) /\ f = Ground(head, With(id))
  <2>1. ASSUME NEW a \in [{"continuation"} -> ValuesIn(S)],
               \A x \in ToSet(body) : Ground(x, a) \in S, f = Ground(head, a)
        PROVE  \E id : (\A x \in ToSet(body) : Ground(x, With(id)) \in S) /\ f = Ground(head, With(id))
    <3>1. a = With(a["continuation"])
      BY <1>5
    <3>. QED
      BY <2>1, <3>1
  <2>2. ASSUME NEW id, \A x \in ToSet(body) : Ground(x, With(id)) \in S, f = Ground(head, With(id))
        PROVE  \E a \in [{"continuation"} -> ValuesIn(S)] :
                 (\A x \in ToSet(body) : Ground(x, a) \in S) /\ f = Ground(head, a)
    BY <1>6, <2>2
  <2>. QED
    BY <2>1, <2>2
<1>. HIDE DEF rule
<1>8. Concludes(rule, S)
  BY <1>1, <1>2, <1>3, <1>4, <1>7 DEF Concludes, Follows
<1>. QED
  BY <1>8 DEF rule

\* What one step of theirs concludes, written out.
CoreStep(f, id, S) ==
  \/ /\ f = Fact("active", <<id>>)
     /\ Fact("continuation", <<id>>) \in S /\ Fact("continuation_status", <<id, "active">>) \in S
  \/ /\ f = Fact("needs_review", <<id>>)
     /\ Fact("active", <<id>>) \in S /\ Fact("risk_level", <<id, "high">>) \in S
  \/ f = Fact("risk_marker", <<id, "review">>) /\ Fact("needs_review", <<id>>) \in S
  \/ f = Fact("living_past", <<id>>) /\ Fact("active", <<id>>) \in S
  \/ /\ f = Fact("commitment", <<id>>)
     /\ Fact("active", <<id>>) \in S /\ Fact("continuation_type", <<id, "obligation">>) \in S
  \/ /\ f = Fact("forming_future", <<id>>)
     /\ Fact("active", <<id>>) \in S /\ Fact("continuation_type", <<id, "opportunity">>) \in S
  \/ /\ f = Fact("timing_attention", <<id>>)
     /\ Fact("active", <<id>>) \in S /\ Fact("time_horizon", <<id, "near">>) \in S
  \/ /\ f = Fact("path_choice", <<id, "review_now">>)
     /\ Fact("needs_review", <<id>>) \in S /\ Fact("timing_attention", <<id>>) \in S

\* A core rule with one atom in its body.
LEMMA OneAtomRule ==
    ASSUME NEW S, NEW head, CoreAtom(head), NEW x, CoreAtom(x)
    PROVE  /\ Concludes(Rule(head, <<x>>), S)
           /\ \A f : Follows(f, Rule(head, <<x>>), S)
                     <=> \E id : Ground(x, With(id)) \in S /\ f = Ground(head, With(id))
<1>1. <<x>> \in Seq(Atoms) /\ ToSet(<<x>>) = {x}
  BY CoreAtoms DEF ToSet
<1> DEFINE body == <<x>>
<1>. HIDE DEF body
<1>2. body \in Seq(Atoms) /\ ToSet(body) # {} /\ \A y \in ToSet(body) : CoreAtom(y)
  BY <1>1 DEF body
<1>3. Concludes(Rule(head, body), S)
  BY <1>2, CoreRuleFollows
<1>4. Rule(head, body).head = head /\ Rule(head, body).body = body
  BY DEF Rule
<1>5. \A id : (\A y \in ToSet(body) : Ground(y, With(id)) \in S) <=> Ground(x, With(id)) \in S
  BY <1>1 DEF body
<1>6. \A f : Follows(f, Rule(head, body), S)
             <=> \E id : Ground(x, With(id)) \in S /\ f = Ground(head, With(id))
  BY <1>3, <1>4, <1>5 DEF Concludes
<1>. QED
  BY <1>3, <1>6 DEF body

\* A core rule with two atoms in its body.
LEMMA TwoAtomRule ==
    ASSUME NEW S, NEW head, CoreAtom(head), NEW x, CoreAtom(x), NEW z, CoreAtom(z)
    PROVE  /\ Concludes(Rule(head, <<x, z>>), S)
           /\ \A f : Follows(f, Rule(head, <<x, z>>), S)
                     <=> \E id : /\ Ground(x, With(id)) \in S /\ Ground(z, With(id)) \in S
                                 /\ f = Ground(head, With(id))
<1>1. <<x, z>> \in Seq(Atoms) /\ ToSet(<<x, z>>) = {x, z}
  BY CoreAtoms DEF ToSet
<1> DEFINE body == <<x, z>>
<1>. HIDE DEF body
<1>2. body \in Seq(Atoms) /\ ToSet(body) # {} /\ \A y \in ToSet(body) : CoreAtom(y)
  BY <1>1 DEF body
<1>3. Concludes(Rule(head, body), S)
  BY <1>2, CoreRuleFollows
<1>4. Rule(head, body).head = head /\ Rule(head, body).body = body
  BY DEF Rule
<1>5. \A id : (\A y \in ToSet(body) : Ground(y, With(id)) \in S)
              <=> Ground(x, With(id)) \in S /\ Ground(z, With(id)) \in S
  BY <1>1 DEF body
<1>6. \A f : Follows(f, Rule(head, body), S)
             <=> \E id : /\ Ground(x, With(id)) \in S /\ Ground(z, With(id)) \in S
                         /\ f = Ground(head, With(id))
  BY <1>3, <1>4, <1>5 DEF Concludes
<1>. QED
  BY <1>3, <1>6 DEF body

\* The core rules are rules, and conclude in one step what is written out above.
LEMMA CoreConcludes ==
    /\ CoreRules \in SUBSET RuleSet /\ IsFiniteSet(CoreRules)
    /\ \A S : \A f : f \in ConsequencesOf(CoreRules, S) <=> \E id : CoreStep(f, id, S)
<1> DEFINE r1 == Rule(Of("active"), <<Of("continuation"), IsAt("continuation_status", "active")>>)
           r2 == Rule(Of("needs_review"), <<Of("active"), IsAt("risk_level", "high")>>)
           r3 == Rule(IsAt("risk_marker", "review"), <<Of("needs_review")>>)
           r4 == Rule(Of("living_past"), <<Of("active")>>)
           r5 == Rule(Of("commitment"), <<Of("active"), IsAt("continuation_type", "obligation")>>)
           r6 == Rule(Of("forming_future"), <<Of("active"), IsAt("continuation_type", "opportunity")>>)
           r7 == Rule(Of("timing_attention"), <<Of("active"), IsAt("time_horizon", "near")>>)
           r8 == Rule(IsAt("path_choice", "review_now"), <<Of("needs_review"), Of("timing_attention")>>)
<1>1. CoreRules = {r1, r2, r3, r4, r5, r6, r7, r8}
  BY DEF CoreRules, Of, IsAt
<1>2. /\ CoreAtom(Of("active")) /\ CoreAtom(Of("continuation"))
      /\ CoreAtom(IsAt("continuation_status", "active")) /\ CoreAtom(Of("needs_review"))
      /\ CoreAtom(IsAt("risk_level", "high")) /\ CoreAtom(IsAt("risk_marker", "review"))
      /\ CoreAtom(Of("living_past")) /\ CoreAtom(Of("commitment"))
      /\ CoreAtom(IsAt("continuation_type", "obligation")) /\ CoreAtom(Of("forming_future"))
      /\ CoreAtom(IsAt("continuation_type", "opportunity")) /\ CoreAtom(Of("timing_attention"))
      /\ CoreAtom(IsAt("time_horizon", "near")) /\ CoreAtom(IsAt("path_choice", "review_now"))
  <2>1. \A p \in Strings : CoreAtom(Of(p)) /\ \A v \in Strings : CoreAtom(IsAt(p, v))
    BY DEF CoreAtom
  <2>2. "active" \in Strings
    BY CoreWords
  <2>. QED
    BY <2>1, <2>2, CoreWords
<1>3. \A p, v, id : /\ Ground(Of(p), With(id)) = Fact(p, <<id>>)
                    /\ Ground(IsAt(p, v), With(id)) = Fact(p, <<id, v>>)
  BY CoreGrounds DEF With
<1> DEFINE T(S) == \A r \in CoreRules : Concludes(r, S)
<1>4. ASSUME NEW S PROVE T(S)
  <2>1. Concludes(r1, S) /\ Concludes(r2, S) /\ Concludes(r3, S) /\ Concludes(r4, S)
    BY <1>2, OneAtomRule, TwoAtomRule
  <2>2. Concludes(r5, S) /\ Concludes(r6, S) /\ Concludes(r7, S) /\ Concludes(r8, S)
    BY <1>2, TwoAtomRule
  <2>. HIDE DEF r1, r2, r3, r4, r5, r6, r7, r8
  <2>. QED
    BY <1>1, <2>1, <2>2
<1>5. CoreRules \in SUBSET RuleSet
  <2>1. T({})
    BY <1>4
  <2>. QED
    BY <2>1 DEF Concludes
<1>6. IsFiniteSet(CoreRules)
  <2>. HIDE DEF r1, r2, r3, r4, r5, r6, r7, r8
  <2>1. IsFiniteSet({} \cup {r1} \cup {r2} \cup {r3} \cup {r4} \cup {r5} \cup {r6} \cup {r7} \cup {r8})
    BY FS_EmptySet, FS_AddElement
  <2>2. CoreRules = {} \cup {r1} \cup {r2} \cup {r3} \cup {r4} \cup {r5} \cup {r6} \cup {r7} \cup {r8}
    BY <1>1
  <2>. QED
    BY <2>1, <2>2
<1>7. ASSUME NEW S, NEW f
      PROVE  f \in ConsequencesOf(CoreRules, S) <=> \E id : CoreStep(f, id, S)
  <2>1. f \in ConsequencesOf(CoreRules, S) <=> \E r \in CoreRules : Follows(f, r, S)
    <3>1. \A r \in CoreRules : VarsOf(r.head) \subseteq BodyVars(r)
      BY <1>4 DEF Concludes
    <3>. QED
      BY <3>1 DEF ConsequencesOf, Follows
  <2>2. Follows(f, r1, S) <=> \E id : /\ Fact("continuation", <<id>>) \in S
                                      /\ Fact("continuation_status", <<id, "active">>) \in S
                                      /\ f = Fact("active", <<id>>)
    <3>1. Follows(f, r1, S)
            <=> \E id : /\ Ground(Of("continuation"), With(id)) \in S
                        /\ Ground(IsAt("continuation_status", "active"), With(id)) \in S
                        /\ f = Ground(Of("active"), With(id))
      BY <1>2, TwoAtomRule
    <3>. HIDE DEF r1
    <3>. QED
      BY <1>3, <3>1
  <2>3. Follows(f, r2, S) <=> \E id : /\ Fact("active", <<id>>) \in S
                                      /\ Fact("risk_level", <<id, "high">>) \in S
                                      /\ f = Fact("needs_review", <<id>>)
    <3>1. Follows(f, r2, S)
            <=> \E id : /\ Ground(Of("active"), With(id)) \in S
                        /\ Ground(IsAt("risk_level", "high"), With(id)) \in S
                        /\ f = Ground(Of("needs_review"), With(id))
      BY <1>2, TwoAtomRule
    <3>. HIDE DEF r2
    <3>. QED
      BY <1>3, <3>1
  <2>4. Follows(f, r3, S) <=> \E id : /\ Fact("needs_review", <<id>>) \in S
                                      /\ f = Fact("risk_marker", <<id, "review">>)
    <3>1. Follows(f, r3, S)
            <=> \E id : /\ Ground(Of("needs_review"), With(id)) \in S
                        /\ f = Ground(IsAt("risk_marker", "review"), With(id))
      BY <1>2, OneAtomRule
    <3>. HIDE DEF r3
    <3>. QED
      BY <1>3, <3>1
  <2>5. Follows(f, r4, S) <=> \E id : /\ Fact("active", <<id>>) \in S
                                      /\ f = Fact("living_past", <<id>>)
    <3>1. Follows(f, r4, S)
            <=> \E id : /\ Ground(Of("active"), With(id)) \in S
                        /\ f = Ground(Of("living_past"), With(id))
      BY <1>2, OneAtomRule
    <3>. HIDE DEF r4
    <3>. QED
      BY <1>3, <3>1
  <2>6. Follows(f, r5, S) <=> \E id : /\ Fact("active", <<id>>) \in S
                                      /\ Fact("continuation_type", <<id, "obligation">>) \in S
                                      /\ f = Fact("commitment", <<id>>)
    <3>1. Follows(f, r5, S)
            <=> \E id : /\ Ground(Of("active"), With(id)) \in S
                        /\ Ground(IsAt("continuation_type", "obligation"), With(id)) \in S
                        /\ f = Ground(Of("commitment"), With(id))
      BY <1>2, TwoAtomRule
    <3>. HIDE DEF r5
    <3>. QED
      BY <1>3, <3>1
  <2>7. Follows(f, r6, S) <=> \E id : /\ Fact("active", <<id>>) \in S
                                      /\ Fact("continuation_type", <<id, "opportunity">>) \in S
                                      /\ f = Fact("forming_future", <<id>>)
    <3>1. Follows(f, r6, S)
            <=> \E id : /\ Ground(Of("active"), With(id)) \in S
                        /\ Ground(IsAt("continuation_type", "opportunity"), With(id)) \in S
                        /\ f = Ground(Of("forming_future"), With(id))
      BY <1>2, TwoAtomRule
    <3>. HIDE DEF r6
    <3>. QED
      BY <1>3, <3>1
  <2>8. Follows(f, r7, S) <=> \E id : /\ Fact("active", <<id>>) \in S
                                      /\ Fact("time_horizon", <<id, "near">>) \in S
                                      /\ f = Fact("timing_attention", <<id>>)
    <3>1. Follows(f, r7, S)
            <=> \E id : /\ Ground(Of("active"), With(id)) \in S
                        /\ Ground(IsAt("time_horizon", "near"), With(id)) \in S
                        /\ f = Ground(Of("timing_attention"), With(id))
      BY <1>2, TwoAtomRule
    <3>. HIDE DEF r7
    <3>. QED
      BY <1>3, <3>1
  <2>9. Follows(f, r8, S) <=> \E id : /\ Fact("needs_review", <<id>>) \in S
                                      /\ Fact("timing_attention", <<id>>) \in S
                                      /\ f = Fact("path_choice", <<id, "review_now">>)
    <3>1. Follows(f, r8, S)
            <=> \E id : /\ Ground(Of("needs_review"), With(id)) \in S
                        /\ Ground(Of("timing_attention"), With(id)) \in S
                        /\ f = Ground(IsAt("path_choice", "review_now"), With(id))
      BY <1>2, TwoAtomRule
    <3>. HIDE DEF r8
    <3>. QED
      BY <1>3, <3>1
  <2>. HIDE DEF r1, r2, r3, r4, r5, r6, r7, r8
  <2>10. f \in ConsequencesOf(CoreRules, S)
           <=> \/ Follows(f, r1, S) \/ Follows(f, r2, S) \/ Follows(f, r3, S) \/ Follows(f, r4, S)
               \/ Follows(f, r5, S) \/ Follows(f, r6, S) \/ Follows(f, r7, S) \/ Follows(f, r8, S)
    BY <1>1, <2>1
  <2>. QED
    BY <2>2, <2>3, <2>4, <2>5, <2>6, <2>7, <2>8, <2>9, <2>10, Zenon DEF CoreStep
<1>. QED
  BY <1>5, <1>6, <1>7

-----------------------------------------------------------------------------
\* The lens.

Living == {id \in Ids : ~ IsClosed(continuations[id].status)}
Active(id) == continuations[id].status = "active"
Risky(id) == continuations[id].risk
Near(id) == horizonNear \/ continuations[id].near

\* It asserts the living continuations' facts, all of them before it evaluates.
LensInv ==
  /\ EngineInv /\ rules = CoreRules
  /\ continuations \in [Ids -> Continuation] /\ horizonNear \in BOOLEAN
  /\ left \subseteq Living
  /\ \A f : f \in asserted <=> \E id \in Living \ left : f \in FactsOf(id)
  /\ settled \/ pc = "evaluating" => left = {}

\* What it asserts are facts, finitely many.
LEMMA FactsOfAreFacts ==
    ASSUME NEW id \in Ids, continuations \in [Ids -> Continuation]
    PROVE  FactsOf(id) \in SUBSET FactSet /\ IsFiniteSet(FactsOf(id))
<1> DEFINE c == continuations[id]
           f1 == Fact("continuation", <<id>>)
           f2 == Fact("continuation_status", <<id, c.status>>)
           f3 == Fact("continuation_type", <<id, c.type>>)
           f4 == Fact("risk_level", <<id, "high">>)
           f5 == Fact("time_horizon", <<id, "near">>)
<1>1. id \in Strings /\ c.status \in Strings /\ c.type \in Strings
  BY CoreWords, LensAssumption DEF Continuation
<1>2. /\ \A p \in Strings, x \in Strings : Fact(p, <<x>>) \in FactSet
      /\ \A p \in Strings, x \in Strings, y \in Strings : Fact(p, <<x, y>>) \in FactSet
  BY DEF Fact, FactSet
<1>3. f1 \in FactSet /\ f2 \in FactSet /\ f3 \in FactSet /\ f4 \in FactSet /\ f5 \in FactSet
  <2>. HIDE DEF c
  <2>. QED
    BY <1>1, <1>2, CoreWords
<1>4. FactsOf(id) = {f1, f2, f3} \cup {f \in {f4} : c.risk}
                      \cup {f \in {f5} : horizonNear \/ c.near}
  BY DEF FactsOf
<1>. HIDE DEF f1, f2, f3, f4, f5, c
<1>5. FactsOf(id) \subseteq {f1, f2, f3, f4, f5}
  BY <1>4
<1>6. IsFiniteSet({f1, f2, f3, f4, f5})
  <2>1. IsFiniteSet({} \cup {f1} \cup {f2} \cup {f3} \cup {f4} \cup {f5})
    BY FS_EmptySet, FS_AddElement
  <2>2. {f1, f2, f3, f4, f5} = {} \cup {f1} \cup {f2} \cup {f3} \cup {f4} \cup {f5}
    OBVIOUS
  <2>. QED
    BY <2>1, <2>2
<1>. QED
  BY <1>3, <1>4, <1>5, <1>6, FS_Subset

\* The lens asserts the living continuations' facts and evaluates then, with the core
\* rules; its engine is always as the invariant says.
THEOREM LensEngineHolds == LensSpec => []LensInv
<1>1. LensInit => LensInv
  <2>. SUFFICES ASSUME LensInit PROVE LensInv
    OBVIOUS
  <2>1. EngineInit(CoreRules) /\ CoreRules \in SUBSET RuleSet /\ IsFiniteSet(CoreRules)
    BY CoreConcludes DEF LensInit
  <2>2. EngineInv /\ rules = CoreRules /\ asserted = {} /\ pc = "idle" /\ settled = FALSE
    <3>1. EngineInv
      BY <2>1, Starts
    <3>. QED
      BY <2>1, <3>1 DEF EngineInit
  <2>3. left = Living /\ continuations \in [Ids -> Continuation] /\ horizonNear \in BOOLEAN
    BY DEF LensInit, Living
  <2>4. \A f : f \in asserted <=> \E id \in Living \ left : f \in FactsOf(id)
    BY <2>2, <2>3
  <2>. QED
    BY <2>2, <2>3, <2>4 DEF LensInv
<1>2. LensInv /\ [LensNext]_lensVars => LensInv'
  <2>. SUFFICES ASSUME LensInv, [LensNext]_lensVars PROVE LensInv'
    OBVIOUS
  <2>0. /\ EngineInv /\ rules = CoreRules
        /\ continuations \in [Ids -> Continuation] /\ horizonNear \in BOOLEAN
        /\ left \subseteq Living
        /\ \A f : f \in asserted <=> \E id \in Living \ left : f \in FactsOf(id)
        /\ settled \/ pc = "evaluating" => left = {}
    BY DEF LensInv
  <2>1. ASSUME NEW id \in Ids, AssertContinuation(id) PROVE LensInv'
    <3>1. /\ id \in left /\ AssertFacts(FactsOf(id)) /\ left' = left \ {id}
          /\ continuations' = continuations /\ horizonNear' = horizonNear
      BY <2>1 DEF AssertContinuation
    <3>2. /\ asserted' = asserted \cup FactsOf(id) /\ rules' = rules /\ pc' = pc
          /\ settled' => settled
      BY <3>1 DEF AssertFacts
    <3>3. EngineInv'
      BY <2>0, <3>1, FactsOfAreFacts, Asserts
    <3>4. Living' = Living /\ \A x : FactsOf(x)' = FactsOf(x)
      BY <3>1 DEF Living, FactsOf
    <3>5. Living \ left' = (Living \ left) \cup {id}
      BY <2>0, <3>1
    <3>6. \A f : f \in asserted' <=> \E x \in Living \ left' : f \in FactsOf(x)
      BY <2>0, <3>2, <3>5
    <3>7. \A f : f \in asserted' <=> \E x \in Living' \ left' : f \in FactsOf(x)'
      BY <3>4, <3>6
    <3>. QED
      BY <2>0, <3>1, <3>2, <3>3, <3>4, <3>7 DEF LensInv
  <2>2. ASSUME EvaluateOnce PROVE LensInv'
    <3>1. /\ left = {} /\ Evaluate
          /\ left' = left /\ continuations' = continuations /\ horizonNear' = horizonNear
      BY <2>2 DEF EvaluateOnce
    <3>2. asserted' = asserted /\ rules' = rules
      BY <3>1 DEF Evaluate
    <3>3. EngineInv'
      BY <2>0, <3>1, Evaluates
    <3>4. Living' = Living /\ \A x : FactsOf(x)' = FactsOf(x)
      BY <3>1 DEF Living, FactsOf
    <3>5. \A f : f \in asserted' <=> \E x \in Living' \ left' : f \in FactsOf(x)'
      BY <2>0, <3>1, <3>2, <3>4
    <3>. QED
      BY <2>0, <3>1, <3>2, <3>3, <3>4, <3>5 DEF LensInv
  <2>3. ASSUME EvaluateRound PROVE LensInv'
    <3>1. Round /\ left' = left /\ continuations' = continuations /\ horizonNear' = horizonNear
      BY <2>3 DEF EvaluateRound
    <3>2. asserted' = asserted /\ rules' = rules /\ EngineInv'
      BY <2>0, <3>1, RoundAdds
    <3>3. pc = "evaluating"
      BY <3>1 DEF Round, Turn
    <3>4. Living' = Living /\ \A x : FactsOf(x)' = FactsOf(x)
      BY <3>1 DEF Living, FactsOf
    <3>5. \A f : f \in asserted' <=> \E x \in Living' \ left' : f \in FactsOf(x)'
      BY <2>0, <3>1, <3>2, <3>4
    <3>. QED
      BY <2>0, <3>1, <3>2, <3>3, <3>4, <3>5 DEF LensInv
  <2>4. ASSUME UNCHANGED lensVars PROVE LensInv'
    <3>1. Living' = Living /\ \A x : FactsOf(x)' = FactsOf(x)
      BY <2>4 DEF Living, FactsOf, lensVars
    <3>2. \A f : f \in asserted' <=> \E x \in Living' \ left' : f \in FactsOf(x)'
      BY <2>0, <2>4, <3>1 DEF lensVars
    <3>3. EngineInv'
      BY <2>0, <2>4 DEF lensVars, EngineInv, Sound
    <3>. QED
      BY <2>0, <2>4, <3>1, <3>2, <3>3 DEF LensInv, lensVars
  <2>. QED
    BY <2>1, <2>2, <2>3, <2>4 DEF LensNext
<1>. QED
  BY <1>1, <1>2, PTL DEF LensSpec

\* The rules' predicates, which continuations they hold for, and with which arguments.
Derived == {"active", "needs_review", "risk_marker", "living_past",
            "commitment", "forming_future", "timing_attention", "path_choice"}
Holds(p, id) ==
  /\ id \in Living /\ Active(id)
  /\ p \in {"needs_review", "risk_marker", "path_choice"} => Risky(id)
  /\ p \in {"timing_attention", "path_choice"} => Near(id)
  /\ p = "commitment" => continuations[id].type = "obligation"
  /\ p = "forming_future" => continuations[id].type = "opportunity"
ArgsOf(p, id) == IF p = "risk_marker" THEN <<id, "review">>
                 ELSE IF p = "path_choice" THEN <<id, "review_now">> ELSE <<id>>

\* The facts that may be there: what was asserted, and what holds.
Allowed(f) ==
  /\ f.predicate \in Derived =>
       \E id \in Ids : Holds(f.predicate, id) /\ f.args = ArgsOf(f.predicate, id)
  /\ f.predicate = "continuation_status" =>
       \E id \in Living : f.args = <<id, continuations[id].status>>
  /\ f.predicate = "continuation_type" =>
       \E id \in Living : f.args = <<id, continuations[id].type>>
  /\ f.predicate = "risk_level" => \E id \in Living : Risky(id) /\ f.args = <<id, "high">>
  /\ f.predicate = "time_horizon" => \E id \in Living : Near(id) /\ f.args = <<id, "near">>

\* Facts of different continuations have different arguments.
LEMMA Args ==
    /\ \A x, y : <<x>> = <<y>> => x = y
    /\ \A x, y, v, w : <<x, v>> = <<y, w>> => x = y /\ v = w
    /\ \A p, x, y : ArgsOf(p, x) = ArgsOf(p, y) => x = y
    /\ \A p, a : Fact(p, a).predicate = p /\ Fact(p, a).args = a
<1>1. \A x, y : <<x>> = <<y>> => x = y
  OBVIOUS
<1>2. \A x, y, v, w : <<x, v>> = <<y, w>> => x = y /\ v = w
  OBVIOUS
<1>3. \A p, a : Fact(p, a).predicate = p /\ Fact(p, a).args = a
  BY DEF Fact
<1>4. ASSUME NEW p, NEW x, NEW y, ArgsOf(p, x) = ArgsOf(p, y) PROVE x = y
  BY <1>1, <1>2, <1>4, Zenon DEF ArgsOf
<1>. QED
  BY <1>1, <1>2, <1>3, <1>4

\* What was asserted is allowed.
LEMMA AssertedAllowed ==
    ASSUME LensInv, NEW f \in asserted
    PROVE  Allowed(f)
<1>1. PICK id \in Living : f \in FactsOf(id)
  BY DEF LensInv
<1>2. \/ f = Fact("continuation", <<id>>)
      \/ f = Fact("continuation_status", <<id, continuations[id].status>>)
      \/ f = Fact("continuation_type", <<id, continuations[id].type>>)
      \/ f = Fact("risk_level", <<id, "high">>) /\ Risky(id)
      \/ f = Fact("time_horizon", <<id, "near">>) /\ Near(id)
  BY <1>1 DEF FactsOf, Risky, Near
<1>3. CASE f = Fact("continuation", <<id>>)
  BY <1>3, Args DEF Allowed, Derived
<1>4. CASE f = Fact("continuation_status", <<id, continuations[id].status>>)
  BY <1>4, Args DEF Allowed, Derived
<1>5. CASE f = Fact("continuation_type", <<id, continuations[id].type>>)
  BY <1>5, Args DEF Allowed, Derived
<1>6. CASE f = Fact("risk_level", <<id, "high">>) /\ Risky(id)
  BY <1>6, Args DEF Allowed, Derived
<1>7. CASE f = Fact("time_horizon", <<id, "near">>) /\ Near(id)
  BY <1>7, Args DEF Allowed, Derived
<1>. QED
  BY <1>2, <1>3, <1>4, <1>5, <1>6, <1>7

\* A step of the rules from allowed facts leads to allowed facts only.
LEMMA StepsAllowed ==
    ASSUME LensInv, NEW S, \A g \in S : Allowed(g), NEW f, NEW id, CoreStep(f, id, S)
    PROVE  Allowed(f)
<1>1. ASSUME NEW p \in Derived, Fact(p, ArgsOf(p, id)) \in S PROVE id \in Ids /\ Holds(p, id)
  <2> DEFINE g == Fact(p, ArgsOf(p, id))
  <2>1. Allowed(g) /\ g.predicate = p /\ g.args = ArgsOf(p, id)
    BY <1>1, Args
  <2>. HIDE DEF g
  <2>2. PICK x \in Ids : Holds(p, x) /\ ArgsOf(p, id) = ArgsOf(p, x)
    BY <2>1 DEF Allowed
  <2>. QED
    BY <2>2, Args
<1>2. ASSUME NEW p \in Derived, Holds(p, id), f = Fact(p, ArgsOf(p, id)) PROVE Allowed(f)
  <2>1. f.predicate = p /\ f.args = ArgsOf(p, id)
    BY <1>2, Args
  <2>2. id \in Ids
    BY <1>2 DEF Holds, Living
  <2>3. p \notin {"continuation_status", "continuation_type", "risk_level", "time_horizon"}
    BY DEF Derived
  <2>. QED
    BY <1>2, <2>1, <2>2, <2>3 DEF Allowed
<1>3. /\ ArgsOf("active", id) = <<id>> /\ ArgsOf("needs_review", id) = <<id>>
      /\ ArgsOf("living_past", id) = <<id>> /\ ArgsOf("commitment", id) = <<id>>
      /\ ArgsOf("forming_future", id) = <<id>> /\ ArgsOf("timing_attention", id) = <<id>>
      /\ ArgsOf("risk_marker", id) = <<id, "review">>
      /\ ArgsOf("path_choice", id) = <<id, "review_now">>
  BY DEF ArgsOf
<1>4. /\ "active" \in Derived /\ "needs_review" \in Derived /\ "risk_marker" \in Derived
      /\ "living_past" \in Derived /\ "commitment" \in Derived /\ "forming_future" \in Derived
      /\ "timing_attention" \in Derived /\ "path_choice" \in Derived
  BY DEF Derived
<1>5. Fact("active", <<id>>) \in S => Holds("active", id)
  BY <1>1, <1>3, <1>4
<1>6. Fact("needs_review", <<id>>) \in S => Holds("needs_review", id)
  BY <1>1, <1>3, <1>4
<1>7. Fact("timing_attention", <<id>>) \in S => Holds("timing_attention", id)
  BY <1>1, <1>3, <1>4
<1>8. ASSUME NEW v, Fact("continuation_status", <<id, v>>) \in S
      PROVE  id \in Living /\ continuations[id].status = v
  <2> DEFINE g == Fact("continuation_status", <<id, v>>)
  <2>1. Allowed(g) /\ g.predicate = "continuation_status" /\ g.args = <<id, v>>
    BY <1>8, Args
  <2>. HIDE DEF g
  <2>2. PICK x \in Living : <<id, v>> = <<x, continuations[x].status>>
    BY <2>1 DEF Allowed
  <2>. QED
    BY <2>2, Args
<1>9. ASSUME NEW v, Fact("continuation_type", <<id, v>>) \in S
      PROVE  continuations[id].type = v
  <2> DEFINE g == Fact("continuation_type", <<id, v>>)
  <2>1. Allowed(g) /\ g.predicate = "continuation_type" /\ g.args = <<id, v>>
    BY <1>9, Args
  <2>. HIDE DEF g
  <2>2. PICK x \in Living : <<id, v>> = <<x, continuations[x].type>>
    BY <2>1 DEF Allowed
  <2>. QED
    BY <2>2, Args
<1>10. Fact("risk_level", <<id, "high">>) \in S => Risky(id)
  <2>. SUFFICES ASSUME Fact("risk_level", <<id, "high">>) \in S PROVE Risky(id)
    OBVIOUS
  <2> DEFINE g == Fact("risk_level", <<id, "high">>)
  <2>1. Allowed(g) /\ g.predicate = "risk_level" /\ g.args = <<id, "high">>
    BY Args
  <2>. HIDE DEF g
  <2>2. PICK x \in Living : Risky(x) /\ <<id, "high">> = <<x, "high">>
    BY <2>1 DEF Allowed
  <2>. QED
    BY <2>2, Args
<1>11. Fact("time_horizon", <<id, "near">>) \in S => Near(id)
  <2>. SUFFICES ASSUME Fact("time_horizon", <<id, "near">>) \in S PROVE Near(id)
    OBVIOUS
  <2> DEFINE g == Fact("time_horizon", <<id, "near">>)
  <2>1. Allowed(g) /\ g.predicate = "time_horizon" /\ g.args = <<id, "near">>
    BY Args
  <2>. HIDE DEF g
  <2>2. PICK x \in Living : Near(x) /\ <<id, "near">> = <<x, "near">>
    BY <2>1 DEF Allowed
  <2>. QED
    BY <2>2, Args
<1>12. CASE /\ f = Fact("active", <<id>>)
            /\ Fact("continuation", <<id>>) \in S /\ Fact("continuation_status", <<id, "active">>) \in S
  <2>1. Holds("active", id)
    BY <1>8, <1>12 DEF Holds, Active
  <2>. QED
    BY <1>2, <1>3, <1>4, <1>12, <2>1
<1>13. CASE /\ f = Fact("needs_review", <<id>>)
            /\ Fact("active", <<id>>) \in S /\ Fact("risk_level", <<id, "high">>) \in S
  <2>1. Holds("needs_review", id)
    BY <1>5, <1>10, <1>13 DEF Holds
  <2>. QED
    BY <1>2, <1>3, <1>4, <1>13, <2>1
<1>14. CASE f = Fact("risk_marker", <<id, "review">>) /\ Fact("needs_review", <<id>>) \in S
  <2>1. Holds("risk_marker", id)
    BY <1>6, <1>14 DEF Holds
  <2>. QED
    BY <1>2, <1>3, <1>4, <1>14, <2>1
<1>15. CASE f = Fact("living_past", <<id>>) /\ Fact("active", <<id>>) \in S
  <2>1. Holds("living_past", id)
    BY <1>5, <1>15 DEF Holds
  <2>. QED
    BY <1>2, <1>3, <1>4, <1>15, <2>1
<1>16. CASE /\ f = Fact("commitment", <<id>>)
            /\ Fact("active", <<id>>) \in S /\ Fact("continuation_type", <<id, "obligation">>) \in S
  <2>1. Holds("commitment", id)
    BY <1>5, <1>9, <1>16 DEF Holds
  <2>. QED
    BY <1>2, <1>3, <1>4, <1>16, <2>1
<1>17. CASE /\ f = Fact("forming_future", <<id>>)
            /\ Fact("active", <<id>>) \in S /\ Fact("continuation_type", <<id, "opportunity">>) \in S
  <2>1. Holds("forming_future", id)
    BY <1>5, <1>9, <1>17 DEF Holds
  <2>. QED
    BY <1>2, <1>3, <1>4, <1>17, <2>1
<1>18. CASE /\ f = Fact("timing_attention", <<id>>)
            /\ Fact("active", <<id>>) \in S /\ Fact("time_horizon", <<id, "near">>) \in S
  <2>1. Holds("timing_attention", id)
    BY <1>5, <1>11, <1>18 DEF Holds
  <2>. QED
    BY <1>2, <1>3, <1>4, <1>18, <2>1
<1>19. CASE /\ f = Fact("path_choice", <<id, "review_now">>)
            /\ Fact("needs_review", <<id>>) \in S /\ Fact("timing_attention", <<id>>) \in S
  <2>1. Holds("path_choice", id)
    BY <1>6, <1>7, <1>19 DEF Holds
  <2>. QED
    BY <1>2, <1>3, <1>4, <1>19, <2>1
<1>. QED
  BY <1>12, <1>13, <1>14, <1>15, <1>16, <1>17, <1>18, <1>19 DEF CoreStep

\* Once evaluate has returned, the rules' facts are those that hold.
LEMMA RuleFactsHold ==
    ASSUME LensInv, settled, NEW p \in Derived, NEW id \in Ids
    PROVE  Fact(p, ArgsOf(p, id)) \in facts <=> Holds(p, id)
<1>0. /\ EngineInv /\ rules = CoreRules /\ left = {}
      /\ asserted \subseteq facts /\ \A f : f \in asserted <=> \E x \in Living : f \in FactsOf(x)
      /\ continuations \in [Ids -> Continuation]
  <2>1. EngineInv /\ rules = CoreRules /\ left = {} /\ continuations \in [Ids -> Continuation]
        /\ \A f : f \in asserted <=> \E x \in Living \ left : f \in FactsOf(x)
    BY DEF LensInv
  <2>2. Living \ left = Living
    BY <2>1
  <2>. QED
    BY <2>1, <2>2 DEF EngineInv
<1>1. \A f : (\E x : CoreStep(f, x, facts)) => f \in facts
  <2>1. ConsequencesOf(CoreRules, facts) \subseteq facts
    BY <1>0 DEF EngineInv
  <2>. QED
    BY <2>1, CoreConcludes
<1>2. ASSUME Holds(p, id) PROVE Fact(p, ArgsOf(p, id)) \in facts
  <2>1. id \in Living /\ FactsOf(id) \subseteq facts
    BY <1>0, <1>2 DEF Holds
  <2>2. /\ Fact("continuation", <<id>>) \in facts
        /\ Fact("continuation_status", <<id, continuations[id].status>>) \in facts
        /\ Fact("continuation_type", <<id, continuations[id].type>>) \in facts
        /\ Risky(id) => Fact("risk_level", <<id, "high">>) \in facts
        /\ Near(id) => Fact("time_horizon", <<id, "near">>) \in facts
    BY <2>1 DEF FactsOf, Risky, Near
  <2>3. Fact("active", <<id>>) \in facts
    BY <1>1, <1>2, <2>2 DEF CoreStep, Holds, Active
  <2>4. Risky(id) => Fact("needs_review", <<id>>) \in facts
    BY <1>1, <2>2, <2>3 DEF CoreStep
  <2>5. Near(id) => Fact("timing_attention", <<id>>) \in facts
    BY <1>1, <2>2, <2>3 DEF CoreStep
  <2>6. Risky(id) => Fact("risk_marker", <<id, "review">>) \in facts
    BY <1>1, <2>4 DEF CoreStep
  <2>7. Fact("living_past", <<id>>) \in facts
    BY <1>1, <2>3 DEF CoreStep
  <2>8. p = "commitment" => Fact("commitment", <<id>>) \in facts
    BY <1>1, <1>2, <2>2, <2>3 DEF CoreStep, Holds
  <2>9. p = "forming_future" => Fact("forming_future", <<id>>) \in facts
    BY <1>1, <1>2, <2>2, <2>3 DEF CoreStep, Holds
  <2>10. Risky(id) /\ Near(id) => Fact("path_choice", <<id, "review_now">>) \in facts
    BY <1>1, <2>4, <2>5 DEF CoreStep
  <2>. QED
    BY <1>2, <2>3, <2>4, <2>5, <2>6, <2>7, <2>8, <2>9, <2>10 DEF Holds, Derived, ArgsOf
<1>3. ASSUME Fact(p, ArgsOf(p, id)) \in facts PROVE Holds(p, id)
  <2> DEFINE M == {f \in FactSet : Allowed(f)}
             g == Fact(p, ArgsOf(p, id))
  <2>1. asserted \subseteq M
    BY <1>0, AssertedAllowed DEF EngineInv
  <2>2. ConsequencesOf(rules, M) \subseteq M
    <3>1. ConsequencesOf(rules, M) \subseteq FactSet
      BY <1>0, FactsFollow DEF EngineInv
    <3>2. ASSUME NEW f \in ConsequencesOf(rules, M) PROVE Allowed(f)
      <4>1. PICK x : CoreStep(f, x, M)
        BY <1>0, CoreConcludes
      <4>2. \A h \in M : Allowed(h)
        OBVIOUS
      <4>. HIDE DEF M
      <4>. QED
        BY <4>1, <4>2, StepsAllowed
    <3>. QED
      BY <3>1, <3>2
  <2>3. facts \subseteq M
    <3>1. Sound /\ M \in SUBSET FactSet
      BY <1>0 DEF EngineInv
    <3>. HIDE DEF M
    <3>. QED
      BY <2>1, <2>2, <3>1 DEF Sound
  <2>4. Allowed(g) /\ g.predicate = p /\ g.args = ArgsOf(p, id)
    BY <1>3, <2>3, Args
  <2>. HIDE DEF g
  <2>5. PICK x \in Ids : Holds(p, x) /\ ArgsOf(p, id) = ArgsOf(p, x)
    BY <2>4 DEF Allowed
  <2>. QED
    BY <2>5, Args
<1>. QED
  BY <1>2, <1>3

\* The lens's facts are those of each continuation itself.
LEMMA RuleFactsFollow ==
    ASSUME LensInv, settled, NEW id \in DOMAIN continuations
    PROVE  LET c == continuations[id]
               active == c.status = "active"
           IN /\ {p \in Lens!RulePredicates : PressureFact(p, id) \in facts}
                   = Lens!PressureFacts(c, [horizon |-> IF horizonNear THEN "near" ELSE "none"])
              /\ Fact("active", <<id>>) \in facts <=> active
              /\ Fact("living_past", <<id>>) \in facts <=> active
              /\ Fact("commitment", <<id>>) \in facts <=> active /\ c.type = "obligation"
              /\ Fact("forming_future", <<id>>) \in facts <=> active /\ c.type = "opportunity"
<1> DEFINE c == continuations[id]
           request == [horizon |-> IF horizonNear THEN "near" ELSE "none"]
           active == c.status = "active"
<1>1. id \in Ids /\ continuations \in [Ids -> Continuation] /\ horizonNear \in BOOLEAN
  BY DEF LensInv
<1>2. \A p \in Derived : Fact(p, ArgsOf(p, id)) \in facts <=> Holds(p, id)
  BY <1>1, RuleFactsHold
<1>3. active => id \in Living
  BY <1>1 DEF Living, IsClosed
<1>4. /\ Holds("active", id) <=> active
      /\ Holds("living_past", id) <=> active
      /\ Holds("commitment", id) <=> active /\ c.type = "obligation"
      /\ Holds("forming_future", id) <=> active /\ c.type = "opportunity"
      /\ Holds("needs_review", id) <=> active /\ c.risk
      /\ Holds("risk_marker", id) <=> active /\ c.risk
      /\ Holds("timing_attention", id) <=> active /\ (horizonNear \/ c.near)
      /\ Holds("path_choice", id) <=> active /\ c.risk /\ (horizonNear \/ c.near)
  BY <1>3 DEF Holds, Active, Risky, Near
<1>5. \A p \in Lens!RulePredicates :
        PressureFact(p, id) = Fact(p, ArgsOf(p, id)) /\ p \in Derived
  BY DEF Lens!RulePredicates, PressureFact, ArgsOf, Derived
<1>6. (request.horizon = "near") <=> horizonNear
  OBVIOUS
<1>7. {p \in Lens!RulePredicates : PressureFact(p, id) \in facts} = Lens!PressureFacts(c, request)
  <2>1. \A p \in Lens!RulePredicates : PressureFact(p, id) \in facts <=> Holds(p, id)
    BY <1>2, <1>5
  <2>2. {p \in Lens!RulePredicates : PressureFact(p, id) \in facts}
          = {p \in Lens!RulePredicates : Holds(p, id)}
    BY <2>1
  <2>3. {p \in Lens!RulePredicates : Holds(p, id)} = Lens!PressureFacts(c, request)
    <3>. HIDE DEF c, request
    <3>. QED
      BY <1>4, <1>6 DEF Lens!RulePredicates, Lens!PressureFacts, c
  <2>. QED
    BY <2>2, <2>3
<1>8. /\ Fact("active", <<id>>) \in facts <=> active
      /\ Fact("living_past", <<id>>) \in facts <=> active
      /\ Fact("commitment", <<id>>) \in facts <=> active /\ c.type = "obligation"
      /\ Fact("forming_future", <<id>>) \in facts <=> active /\ c.type = "opportunity"
  BY <1>2, <1>4 DEF Derived, ArgsOf
<1>. QED
  BY <1>7, <1>8

\* The facts the lens takes from the engine speak of each continuation by itself alone,
\* as LensEngine computes them without the engine.
THEOREM FactsFollowInput == LensSpec => []RuleFactsFollowInput
<1>1. LensInv => RuleFactsFollowInput
  BY RuleFactsFollow DEF RuleFactsFollowInput
<1>. QED
  BY <1>1, LensEngineHolds, PTL

\* The lens's engine too has the least model, and counts what it adds.
THEOREM LensEngineIsExact == LensSpec => [](LeastModel /\ CountsWhatItAdds)
<1>1. LensInv => LeastModel /\ CountsWhatItAdds
  BY LeastModelFollows DEF LensInv, EngineInv, CountsWhatItAdds
<1>. QED
  BY <1>1, LensEngineHolds, PTL
=============================================================================
