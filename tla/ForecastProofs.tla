--------------------------- MODULE ForecastProofs ---------------------------
(***************************************************************************)
(* Theorems about forecasts, for any requests, actions, commitments and    *)
(* numbers of workers: commitments only restrain, whatever the numbers of  *)
(* the actions; constraints are current; provenance is stored rows.        *)
(***************************************************************************)
EXTENDS Forecast, TLAPS

LEMMA ClampBounds == \A v \in Int : Clamp01(v) \in 0 .. Unit
BY UnitAssumption DEF Clamp01

\* The numbers the verdicts compare are whole, and consequences not negative.
LEMMA ScoreTerms ==
    ASSUME NEW a \in CandidateAction
    PROVE  /\ CommitmentConsequence(a) \in 0 .. Unit
           /\ 100 * (Benefit(a) - Cost(a)) \in Int
           /\ AskScore(a) \in Int
<1> DEFINE fields == {a.progress, a.closure, a.option, a.risk, a.irreversibility, a.confusion,
                      a.friction, a.debt, a.uncertainty, a.externality}
<1>1. fields \subseteq Int
  BY DEF CandidateAction
<1>2. \A v \in fields : Clamp01(v) \in 0 .. Unit
  BY <1>1, ClampBounds
<1> USE UnitAssumption
<1>3. CommitmentConsequence(a) \in 0 .. Unit
  BY <1>2 DEF CommitmentConsequence, Larger
<1>4. Benefit(a) \in Int /\ Cost(a) \in Int
  BY <1>2 DEF Benefit, Cost
<1>5. AskScore(a) \in Int
  BY <1>2 DEF AskScore
<1>. QED
  BY <1>3, <1>4, <1>5

LEMMA PenaltyNotNegative ==
    ASSUME NEW a \in CandidateAction, NEW matching
    PROVE  /\ CommitmentPenalty(a, matching) \in Nat
           /\ CommitmentPenalty(a, {}) = 0
<1>1. CommitmentConsequence(a) \in Nat
  BY ScoreTerms, UnitAssumption
<1>2. CommitmentWeight(matching) \in {55, 25, 0} /\ CommitmentWeight({}) = 0
  BY DEF CommitmentWeight
<1>. QED
  BY <1>1, <1>2 DEF CommitmentPenalty

LEMMA RelationPenaltyWhole ==
    ASSUME NEW a, NEW relations PROVE RelationPenalty(a, relations) \in Int
BY UnitAssumption DEF RelationPenalty

\* Verdicts without commitments and with them.
LEMMA VerdictRestrained ==
    ASSUME NEW a \in CandidateAction, NEW relations, NEW commitments
    PROVE  LET without == Verdict(a, relations, {})
               with    == Verdict(a, relations, commitments)
           IN /\ without.score \in Int /\ with.score \in Int
              /\ with.score <= without.score
              /\ without.confirm => with.confirm
              /\ without.ask => with.ask
              /\ (\A c \in commitments : c.on # a.continuation) => with = without
<1> DEFINE matching == ActiveCommitments(a, commitments)
           none     == ActiveCommitments(a, {})
<1>1. none = {}
  BY DEF ActiveCommitments
<1>2. /\ Score(a, relations, {}) \in Int
      /\ Score(a, relations, matching) \in Int
      /\ Score(a, relations, matching) <= Score(a, relations, {})
  <2>1. /\ CommitmentPenalty(a, matching) \in Nat /\ CommitmentPenalty(a, {}) = 0
        /\ RelationPenalty(a, relations) \in Int
        /\ 100 * (Benefit(a) - Cost(a)) \in Int
    BY PenaltyNotNegative, RelationPenaltyWhole, ScoreTerms
  <2>. HIDE DEF matching
  <2>. QED
    BY <2>1 DEF Score
<1>3. RequiresConfirmation(a, {}) => RequiresConfirmation(a, matching)
  BY DEF RequiresConfirmation, CommitmentConfirms
<1>4. AskBeforeAct(a, relations, {}) => AskBeforeAct(a, relations, matching)
  <2>1. AskScore(a) \in Int
    BY ScoreTerms
  <2>. HIDE DEF matching
  <2>. QED
    BY <1>2, <1>3, <2>1 DEF AskBeforeAct
<1>5. (\A c \in commitments : c.on # a.continuation) => matching = none
  BY DEF ActiveCommitments
<1>. QED
  BY <1>1, <1>2, <1>3, <1>4, <1>5 DEF Verdict

(***************************************************************************)
(* For all actions, relations and commitments, whatever their numbers:     *)
(* commitments raise no score, drop no confirmation, and leave the actions *)
(* they are not on judged as before and ahead of those they were ahead of. *)
(***************************************************************************)
THEOREM RankingRestrained ==
    ASSUME NEW actions \in Seq(CandidateAction), NEW relations, NEW commitments
    PROVE  OnlyRestrains(actions, relations, commitments)
<1> DEFINE without   == Verdicts(actions, relations, {})
           with      == Verdicts(actions, relations, commitments)
           Untied(i) == \A c \in commitments : c.on # actions[i].continuation
<1>1. DOMAIN actions \subseteq Int /\ \A i \in DOMAIN actions : actions[i] \in CandidateAction
  OBVIOUS
<1>2. ASSUME NEW i \in DOMAIN actions
      PROVE  /\ without[i].score \in Int /\ with[i].score \in Int
             /\ with[i].score <= without[i].score
             /\ without[i].confirm => with[i].confirm
             /\ without[i].ask => with[i].ask
             /\ Untied(i) => with[i] = without[i]
  <2>1. /\ without[i] = Verdict(actions[i], relations, {})
        /\ with[i] = Verdict(actions[i], relations, commitments)
    BY DEF Verdicts
  <2>. HIDE DEF with, without
  <2>. QED
    BY <1>1, <2>1, VerdictRestrained
<1>. HIDE DEF with, without
<1>3. ASSUME NEW i \in DOMAIN actions, Untied(i), NEW j \in DOMAIN actions,
             RankedBefore(without, i, j)
      PROVE  RankedBefore(with, i, j)
  <2>1. with[i].score = without[i].score /\ with[j].score <= without[j].score
    BY <1>2, <1>3
  <2>. QED
    BY <1>2, <1>3, <2>1 DEF RankedBefore
<1>. QED
  BY <1>2, <1>3 DEF OnlyRestrains, with, without
-----------------------------------------------------------------------------
LEMMA TypeInit == ForecastInit => ForecastTypeOK
<1> SUFFICES ASSUME ForecastInit PROVE ForecastTypeOK
  OBVIOUS
<1>1. fc \in [Request -> Handler]
  <2>1. 0 \in 0 .. MaxSignals
    BY ForecastAssumption
  <2>. QED
    BY <2>1 DEF ForecastInit, Handler, Stage
<1>. QED
  BY <1>1 DEF ForecastInit, ForecastTypeOK

LEMMA DoneShape ==
    ASSUME ForecastTypeOK, NEW r \in Request, NEW pc \in Stage
    PROVE  /\ Done(r, pc) \in Handler /\ Done(r, pc).pc = pc
           /\ Done(r, pc).constraints = {} /\ Done(r, pc).ever = {}
           /\ Done(r, pc).always = {} /\ Done(r, pc).stored = fc[r].stored
           /\ Done(r, pc).provenance = fc[r].provenance
           /\ Done(r, pc).warnings = fc[r].warnings
<1>1. fc[r] \in Handler
  BY DEF ForecastTypeOK
<1>. QED
  BY <1>1 DEF Done, Handler

\* Both ways out of the read.
LEMMA ReadEnds ==
    ASSUME ForecastTypeOK, NEW r \in Request, Refuse(r) \/ AskModel(r)
    PROVE  \E pc \in {"refused", "asked", "answered"} :
              fc' = [fc EXCEPT ![r] = Done(r, pc)] /\ fc'[r] = Done(r, pc)
<1>1. DOMAIN fc = Request
  BY DEF ForecastTypeOK
<1>2. CASE Refuse(r)
  BY <1>1, <1>2 DEF Refuse
<1>3. CASE AskModel(r)
  BY <1>1, <1>3 DEF AskModel
<1>. QED
  BY <1>2, <1>3

LEMMA NamedContinuations == \A r \in Request : Named(r) \subseteq Continuation
<1> SUFFICES ASSUME NEW r \in Request PROVE Named(r) \subseteq Continuation
  OBVIOUS
<1>1. \A i \in DOMAIN Actions[r] : Actions[r][i] \in CandidateAction
  BY ForecastAssumption
<1>. QED
  BY <1>1 DEF Named, CandidateAction

\* A write moves statuses and standings, and what the readers are to see.
LEMMA WriteType ==
    ASSUME ForecastTypeOK, Write
    PROVE  /\ status' \in [Commitment -> {"none", "active", "released"}]
           /\ standing' \in [Continuation -> Standing]
           /\ fc' \in [Request -> Handler]
<1> USE DEF ForecastTypeOK
<1>1. /\ status' \in [Commitment -> {"none", "active", "released"}]
      /\ standing' \in [Continuation -> Standing]
  <2>1. CASE Commit
    BY <2>1 DEF Commit, InState
  <2>2. CASE Assimilate
    BY <2>2 DEF Assimilate
  <2>. QED
    BY <2>1, <2>2 DEF Write
<1>2. ASSUME NEW r \in Request
      PROVE  [fc[r] EXCEPT !.ever = @ \cup (InForce' \cap Concerns(r)),
                           !.always = @ \cap InForce'] \in Handler
  <2>1. fc[r] \in Handler /\ Concerns(r) \subseteq Commitment
    BY DEF Concerns
  <2>. QED
    BY <2>1 DEF Handler
<1>3. fc' \in [Request -> Handler]
  BY <1>2 DEF Write
<1>. QED
  BY <1>1, <1>3

LEMMA TypeStep == ForecastTypeOK /\ [ForecastNext]_forecastVars => ForecastTypeOK'
<1> SUFFICES ASSUME ForecastTypeOK, [ForecastNext]_forecastVars PROVE ForecastTypeOK'
  OBVIOUS
<1> USE DEF ForecastTypeOK
<1>a. /\ "started" \in Stage /\ "reading" \in Stage /\ "scored" \in Stage /\ "asked" \in Stage /\ "advised" \in Stage
      /\ "persisting" \in Stage /\ "answered" \in Stage /\ "refused" \in Stage
      /\ "aborted" \in Stage
  BY DEF Stage
<1>b. "not persisted" \in Warning /\ "model failed" \in Warning
  BY DEF Warning
<1>1. ASSUME NEW o \in Other, ServeOther(o) PROVE ForecastTypeOK'
  <2>1. CASE Write
    BY <1>1, <2>1, WriteType DEF ServeOther
  <2>2. CASE UNCHANGED <<status, standing, fc>>
    BY <1>1, <2>2 DEF ServeOther
  <2>. QED
    BY <1>1, <2>1, <2>2 DEF ServeOther
<1>15. ASSUME NEW x \in Elsewhere, ServeElsewhere(x) PROVE ForecastTypeOK'
  BY <1>15, WriteType DEF ServeElsewhere
<1>2. ASSUME NEW r \in Request, Start(r) PROVE ForecastTypeOK'
  <2> DEFINE h == [fc[r] EXCEPT !.pc = "started", !.ever = InForce \cap Concerns(r),
                                !.always = InForce \cap Concerns(r)]
  <2>1. fc' \in [Request -> Handler]
    <3>1. h \in Handler
      BY <1>a DEF InForce, InState, Handler
    <3>2. fc' = [fc EXCEPT ![r] = h]
      BY <1>2 DEF Start
    <3>. HIDE DEF h
    <3>. QED
      BY <3>1, <3>2
  <2>. QED
    BY <1>2, <2>1 DEF Start, store
<1>16. ASSUME NEW r \in Request, BeginRead(r) PROVE ForecastTypeOK'
  <2>1. Named(r) \subseteq Continuation
    BY NamedContinuations
  <2>2. fc' \in [Request -> Handler]
    <3>1. CASE Named(r) = {}
      <4> DEFINE h == [fc[r] EXCEPT !.pc = "scored"]
      <4>1. h \in Handler /\ fc' = [fc EXCEPT ![r] = h]
        BY <1>a, <1>16, <3>1 DEF BeginRead, Handler
      <4>. HIDE DEF h
      <4>. QED
        BY <4>1
    <3>2. CASE Named(r) # {}
      <4> DEFINE h == [fc[r] EXCEPT !.pc = "reading", !.left = Named(r)]
      <4>1. h \in Handler
        BY <1>a, <2>1 DEF Handler
      <4>2. fc' = [fc EXCEPT ![r] = h]
        BY <1>16, <3>2 DEF BeginRead
      <4>. HIDE DEF h
      <4>. QED
        BY <4>1, <4>2
    <3>. QED
      BY <3>1, <3>2
  <2>. QED
    BY <1>16, <2>2 DEF BeginRead, store
<1>3. ASSUME NEW r \in Request, ReadConstraints(r) PROVE ForecastTypeOK'
  <2>1. PICK k \in fc[r].left :
           fc' = [fc EXCEPT ![r].pc = IF fc[r].left = {k} THEN "scored" ELSE "reading",
                            ![r].left = @ \ {k},
                            ![r].constraints = @ \cup {c \in InForce : On[c] = k}]
    BY <1>3 DEF ReadConstraints, ReadNext
  <2>2. fc' \in [Request -> Handler]
    <3> DEFINE h == [fc[r] EXCEPT !.pc = IF fc[r].left = {k} THEN "scored" ELSE "reading",
                                  !.left = @ \ {k},
                                  !.constraints = @ \cup {c \in InForce : On[c] = k}]
    <3>1. h \in Handler
      BY <1>a DEF InForce, InState, Handler
    <3>2. fc' = [fc EXCEPT ![r] = h]
      BY <2>1
    <3>. HIDE DEF h
    <3>. QED
      BY <3>1, <3>2
  <2>. QED
    BY <1>3, <2>2 DEF ReadConstraints, ReadNext, store
<1>4. ASSUME NEW r \in Request, Refuse(r) PROVE ForecastTypeOK'
  <2>1. fc' \in [Request -> Handler]
    <3>1. PICK pc \in Stage : fc' = [fc EXCEPT ![r] = Done(r, pc)]
      BY <1>4, ReadEnds DEF Stage
    <3>. QED
      BY <1>a, <3>1, DoneShape
  <2>. QED
    BY <1>4, <2>1 DEF Refuse, store
<1>5. ASSUME NEW r \in Request, AskModel(r) PROVE ForecastTypeOK'
  <2>1. fc' \in [Request -> Handler]
    <3>1. PICK pc \in Stage : fc' = [fc EXCEPT ![r] = Done(r, pc)]
      BY <1>5, ReadEnds DEF Stage
    <3>. QED
      BY <1>a, <3>1, DoneShape
  <2>. QED
    BY <1>5, <2>1 DEF AskModel, store
<1>6. ASSUME NEW r \in Request, ModelStep(r) PROVE ForecastTypeOK'
  <2>1. fc' \in [Request -> Handler]
    <3>1. CASE ModelAnswers(r)
      <4>1. PICK n \in 0 .. MaxSignals :
               fc' = [fc EXCEPT ![r].pc = IF n = 0 THEN "answered" ELSE "advised",
                                ![r].advice = n]
        BY <3>1 DEF ModelAnswers
      <4> DEFINE h == [fc[r] EXCEPT !.pc = IF n = 0 THEN "answered" ELSE "advised",
                                    !.advice = n]
      <4>2. h \in Handler
        BY <1>a, <1>b DEF Handler
      <4>3. fc' = [fc EXCEPT ![r] = h]
        BY <4>1
      <4>. HIDE DEF h
      <4>. QED
        BY <4>2, <4>3
    <3>2. CASE ModelFails(r)
      <4> DEFINE h == [fc[r] EXCEPT !.pc = "answered", !.warnings = {"model failed"}]
      <4>1. h \in Handler
        BY <1>a, <1>b DEF Handler
      <4>2. fc' = [fc EXCEPT ![r] = h]
        BY <3>2 DEF ModelFails
      <4>. HIDE DEF h
      <4>. QED
        BY <4>1, <4>2
    <3>. QED
      BY <1>6, <3>1, <3>2 DEF ModelStep
  <2>. QED
    BY <1>6, <2>1 DEF ModelStep, ModelAnswers, ModelFails, store
<1>7. ASSUME NEW r \in Request, Unpersisted(r) PROVE fc' \in [Request -> Handler]
  <2> DEFINE h == [fc[r] EXCEPT !.pc = "answered", !.warnings = @ \cup {"not persisted"}]
  <2>1. h \in Handler
    BY <1>a, <1>b DEF Handler
  <2>2. fc' = [fc EXCEPT ![r] = h]
    BY <1>7 DEF Unpersisted
  <2>. HIDE DEF h
  <2>. QED
    BY <2>1, <2>2
<1>8. ASSUME NEW r \in Request, BeginPersist(r) PROVE ForecastTypeOK'
  <2>1. CASE poisoned
    BY <1>7, <1>8, <2>1 DEF BeginPersist, store
  <2>2. CASE ~ poisoned
    <3>1. fc' \in [Request -> Handler]
      BY <1>8, <2>2, <1>a DEF BeginPersist, Handler
    <3>. QED
      BY <1>8, <2>2, <3>1 DEF BeginPersist, store
  <2>. QED
    BY <2>1, <2>2
<1>9. ASSUME NEW r \in Request, fc[r].stored < fc[r].advice
      PROVE  fc[r].stored + 1 \in 1 .. MaxSignals /\ fc[r].stored + 1 \in 0 .. MaxSignals
  <2>1. fc[r].stored \in 0 .. MaxSignals /\ fc[r].advice \in 0 .. MaxSignals
    BY DEF Handler
  <2>. QED
    BY <1>9, <2>1, ForecastAssumption
<1>10. ASSUME NEW r \in Request, InsertSignal(r) PROVE ForecastTypeOK'
  <2>1. fc[r].stored + 1 \in 1 .. MaxSignals /\ fc[r].stored + 1 \in 0 .. MaxSignals
    BY <1>9, <1>10 DEF InsertSignal
  <2>2. signals' \subseteq Request \X (1 .. MaxSignals)
    BY <1>10, <2>1 DEF InsertSignal
  <2>3. fc' \in [Request -> Handler]
    BY <1>10, <2>1 DEF InsertSignal, Handler
  <2>. QED
    BY <1>10, <2>2, <2>3 DEF InsertSignal
<1>11. ASSUME NEW r \in Request, InsertFails(r) PROVE ForecastTypeOK'
  <2>1. fc' \in [Request -> Handler]
    BY <1>7, <1>11 DEF InsertFails
  <2>. QED
    BY <1>11, <2>1 DEF InsertFails, store
<1>12. ASSUME NEW r \in Request, InsertPanics(r) PROVE ForecastTypeOK'
  <2>1. fc[r].stored + 1 \in 1 .. MaxSignals
    BY <1>9, <1>12 DEF InsertPanics
  <2>2. signals' \subseteq Request \X (1 .. MaxSignals)
    BY <1>12, <2>1 DEF InsertPanics
  <2>3. fc' \in [Request -> Handler]
    BY <1>12, <1>a DEF InsertPanics, Handler
  <2>. QED
    BY <1>12, <2>2, <2>3 DEF InsertPanics
<1>13. ASSUME NEW r \in Request, Persisted(r) PROVE ForecastTypeOK'
  <2>1. fc[r].advice \in 0 .. MaxSignals
    BY DEF Handler
  <2>2. 1 .. fc[r].advice \in SUBSET (1 .. MaxSignals)
    BY <2>1, ForecastAssumption
  <2>3. fc' \in [Request -> Handler]
    <3> DEFINE h == [fc[r] EXCEPT !.pc = "answered", !.provenance = 1 .. fc[r].advice]
    <3>1. h \in Handler
      BY <1>a, <2>2 DEF Handler
    <3>2. fc' = [fc EXCEPT ![r] = h]
      BY <1>13 DEF Persisted
    <3>. HIDE DEF h
    <3>. QED
      BY <3>1, <3>2
  <2>. QED
    BY <1>13, <2>3 DEF Persisted, store
<1>14. CASE UNCHANGED forecastVars
  BY <1>14 DEF forecastVars
<1>. QED
  BY <1>1, <1>15, <1>16, <1>2, <1>3, <1>4, <1>5, <1>6, <1>8, <1>10, <1>11, <1>12, <1>13, <1>14
  DEF ForecastNext, HandlerStep

\* Every variable of a running instance has its type.
THEOREM ForecastTypeCorrect == ForecastSpec => []ForecastTypeOK
BY TypeInit, TypeStep, PTL DEF ForecastSpec
-----------------------------------------------------------------------------
\* Signals are stored in order, and named only when all are.
Recorded(r) ==
    /\ fc[r].pc # "answered" => fc[r].provenance = {}
    /\ fc[r].pc # "answered" => "not persisted" \notin fc[r].warnings
    /\ \A k \in 1 .. fc[r].stored : <<r, k>> \in signals
    /\ \A k \in fc[r].provenance : <<r, k>> \in signals
    /\ fc[r].provenance \in {{}, 1 .. fc[r].advice}
    /\ "not persisted" \in fc[r].warnings => fc[r].provenance = {}

\* A step of one request touches no other, and deletes no signal.
LEMMA OthersUntouched ==
    ASSUME NEW r \in Request, NEW q \in Request, HandlerStep(r) \/ Start(r) \/ ModelStep(r),
           ForecastTypeOK
    PROVE  (q # r => fc'[q] = fc[q]) /\ signals \subseteq signals'
<1>a. DOMAIN fc = Request
  BY DEF ForecastTypeOK
<1>1. CASE Start(r)
  BY <1>a, <1>1 DEF Start, store
<1>6. CASE BeginRead(r)
  BY <1>a, <1>6 DEF BeginRead, store
<1>7. CASE ReadConstraints(r)
  BY <1>a, <1>7 DEF ReadConstraints, ReadNext, store
<1>2. CASE Refuse(r) \/ AskModel(r)
  BY <1>a, <1>2 DEF Refuse, AskModel, store
<1>3. CASE ModelStep(r)
  BY <1>a, <1>3 DEF ModelStep, ModelAnswers, ModelFails, store
<1>4. CASE BeginPersist(r) \/ InsertFails(r)
  BY <1>a, <1>4 DEF BeginPersist, InsertFails, Unpersisted, store
<1>5. CASE InsertSignal(r) \/ InsertPanics(r) \/ Persisted(r)
  BY <1>a, <1>5 DEF InsertSignal, InsertPanics, Persisted, store
<1>. QED
  BY <1>1, <1>2, <1>3, <1>4, <1>5, <1>6, <1>7 DEF HandlerStep

\* A write touches what the readers are to see, and nothing else of a handler.
LEMMA WriteSpares ==
    ASSUME ForecastTypeOK, Write, NEW q \in Request
    PROVE  /\ fc'[q].pc = fc[q].pc /\ fc'[q].left = fc[q].left
           /\ fc'[q].constraints = fc[q].constraints /\ fc'[q].advice = fc[q].advice
           /\ fc'[q].stored = fc[q].stored /\ fc'[q].provenance = fc[q].provenance
           /\ fc'[q].warnings = fc[q].warnings
<1>1. fc[q] \in Handler
  BY DEF ForecastTypeOK
<1> DEFINE h == [fc[q] EXCEPT !.ever = @ \cup (InForce' \cap Concerns(q)),
                              !.always = @ \cap InForce']
<1>2. fc'[q] = IF fc[q].pc \in Unread THEN h ELSE fc[q]
  BY DEF Write
<1>3. /\ h.pc = fc[q].pc /\ h.left = fc[q].left /\ h.constraints = fc[q].constraints
      /\ h.advice = fc[q].advice /\ h.stored = fc[q].stored
      /\ h.provenance = fc[q].provenance /\ h.warnings = fc[q].warnings
  BY <1>1 DEF Handler
<1>. HIDE DEF h
<1>. QED
  BY <1>2, <1>3

\* What the others do to the handlers: they write, or nothing.
LEMMA OthersWrite ==
    ASSUME NEW o, ServeOther(o) \/ ServeElsewhere(o)
    PROVE  /\ Write \/ UNCHANGED <<status, standing, fc>>
           /\ UNCHANGED <<client, signals, lock>>
BY DEF ServeOther, ServeElsewhere

\* A query reads one continuation's rows.
LEMMA ReadShape ==
    ASSUME ForecastTypeOK, NEW r \in Request, ReadConstraints(r)
    PROVE  \E k \in fc[r].left :
              /\ fc'[r].pc = IF fc[r].left = {k} THEN "scored" ELSE "reading"
              /\ fc'[r].left = fc[r].left \ {k}
              /\ fc'[r].constraints = fc[r].constraints \cup {c \in InForce : On[c] = k}
              /\ lock' = IF fc[r].left = {k} THEN Free ELSE r
              /\ fc'[r].ever = fc[r].ever /\ fc'[r].always = fc[r].always
              /\ fc'[r].stored = fc[r].stored /\ fc'[r].provenance = fc[r].provenance
              /\ fc'[r].warnings = fc[r].warnings
<1>1. PICK k \in fc[r].left :
         /\ fc' = [fc EXCEPT ![r].pc = IF fc[r].left = {k} THEN "scored" ELSE "reading",
                             ![r].left = @ \ {k},
                             ![r].constraints = @ \cup {c \in InForce : On[c] = k}]
         /\ lock' = IF fc[r].left = {k} THEN Free ELSE r
  BY DEF ReadConstraints, ReadNext
<1> DEFINE h == [fc[r] EXCEPT !.pc = IF fc[r].left = {k} THEN "scored" ELSE "reading",
                              !.left = @ \ {k},
                              !.constraints = @ \cup {c \in InForce : On[c] = k}]
<1>2. fc'[r] = h
  BY <1>1 DEF ForecastTypeOK
<1>3. /\ h.pc = IF fc[r].left = {k} THEN "scored" ELSE "reading"
      /\ h.left = fc[r].left \ {k}
      /\ h.constraints = fc[r].constraints \cup {c \in InForce : On[c] = k}
      /\ h.ever = fc[r].ever /\ h.always = fc[r].always /\ h.stored = fc[r].stored
      /\ h.provenance = fc[r].provenance /\ h.warnings = fc[r].warnings
  BY DEF ForecastTypeOK, Handler
<1>. HIDE DEF h
<1>. QED
  BY <1>1, <1>2, <1>3

\* A step of one request leaves what the others recorded.
LEMMA OthersRecorded ==
    ASSUME NEW q \in Request, Recorded(q), fc'[q] = fc[q], signals \subseteq signals'
    PROVE  Recorded(q)'
BY DEF Recorded

LEMMA WritesRecorded ==
    ASSUME ForecastTypeOK, NEW q \in Request, Recorded(q), Write, UNCHANGED signals
    PROVE  Recorded(q)'
BY WriteSpares DEF Recorded

\* What a step that stores nothing keeps.
LEMMA StillRecorded ==
    ASSUME NEW r \in Request, Recorded(r), signals \subseteq signals', fc[r].pc # "answered",
           fc'[r].provenance = fc[r].provenance, fc'[r].stored = fc[r].stored,
           fc'[r].pc # "answered" => fc'[r].warnings = fc[r].warnings
    PROVE  Recorded(r)'
BY DEF Recorded

LEMMA RecordedStep ==
    ASSUME ForecastTypeOK, \A r \in Request : Recorded(r), [ForecastNext]_forecastVars
    PROVE  \A r \in Request : Recorded(r)'
<1>a. fc \in [Request -> Handler]
  BY DEF ForecastTypeOK
<1>b. \A r \in Request : fc[r] \in Handler
  BY <1>a
<1>1. ASSUME NEW o, ServeOther(o) \/ ServeElsewhere(o) PROVE \A r \in Request : Recorded(r)'
  BY <1>1, OthersWrite, OthersRecorded, WritesRecorded
<1>2. ASSUME NEW r \in Request, Start(r) PROVE Recorded(r)'
  <2>1. /\ fc[r].pc = "new" /\ fc'[r].pc = "started" /\ signals' = signals
        /\ fc'[r].provenance = fc[r].provenance /\ fc'[r].stored = fc[r].stored
        /\ fc'[r].warnings = fc[r].warnings
    BY <1>a, <1>b, <1>2 DEF Start, Handler, store
  <2>. QED
    BY <2>1, StillRecorded
<1>14. ASSUME NEW r \in Request, BeginRead(r) PROVE Recorded(r)'
  <2>1. /\ fc[r].pc = "started" /\ fc'[r].pc \in {"scored", "reading"} /\ signals' = signals
        /\ fc'[r].provenance = fc[r].provenance /\ fc'[r].stored = fc[r].stored
        /\ fc'[r].warnings = fc[r].warnings
    BY <1>a, <1>b, <1>14 DEF BeginRead, Handler, store
  <2>. QED
    BY <2>1, StillRecorded
<1>3. ASSUME NEW r \in Request, ReadConstraints(r) PROVE Recorded(r)'
  <2>1. /\ fc[r].pc = "reading" /\ fc'[r].pc \in {"scored", "reading"} /\ signals' = signals
        /\ fc'[r].provenance = fc[r].provenance /\ fc'[r].stored = fc[r].stored
        /\ fc'[r].warnings = fc[r].warnings
    BY <1>a, <1>b, <1>3, ReadShape DEF ReadConstraints, store
  <2>. QED
    BY <2>1, StillRecorded
<1>4. ASSUME NEW r \in Request, Refuse(r) PROVE Recorded(r)'
  <2>1. /\ fc[r].pc # "answered" /\ fc'[r].pc = "refused" /\ signals' = signals
        /\ fc'[r].provenance = fc[r].provenance /\ fc'[r].stored = fc[r].stored
        /\ fc'[r].warnings = fc[r].warnings
    <3>1. fc'[r] = Done(r, "refused")
      BY <1>a, <1>4 DEF Refuse
    <3>2. fc[r].pc # "answered" /\ signals' = signals
      BY <1>4 DEF Refuse, store
    <3>. QED
      BY <3>1, <3>2, DoneShape DEF Stage
  <2>. QED
    BY <2>1, StillRecorded
<1>5. ASSUME NEW r \in Request, AskModel(r) PROVE Recorded(r)'
  <2>1. /\ fc[r].pc = "scored" /\ fc'[r].pc \in {"asked", "answered"} /\ signals' = signals
        /\ fc'[r].provenance = fc[r].provenance /\ fc'[r].stored = fc[r].stored
        /\ fc'[r].warnings = fc[r].warnings
    <3>1. PICK pc \in {"asked", "answered"} : fc'[r] = Done(r, pc)
      BY <1>a, <1>5 DEF AskModel
    <3>2. fc[r].pc = "scored" /\ signals' = signals
      BY <1>5 DEF AskModel, store
    <3>. QED
      BY <3>1, <3>2, DoneShape DEF Stage
  <2>. QED
    BY <2>1, StillRecorded
<1>6. ASSUME NEW r \in Request, ModelAnswers(r) PROVE Recorded(r)'
  <2>1. PICK n \in 0 .. MaxSignals :
           fc' = [fc EXCEPT ![r].pc = IF n = 0 THEN "answered" ELSE "advised",
                            ![r].advice = n]
    BY <1>6 DEF ModelAnswers
  <2> DEFINE h == [fc[r] EXCEPT !.pc = IF n = 0 THEN "answered" ELSE "advised",
                                !.advice = n]
  <2>2. fc'[r] = h
    BY <1>a, <2>1
  <2>3. /\ h.provenance = fc[r].provenance /\ h.stored = fc[r].stored
        /\ h.warnings = fc[r].warnings
    BY <1>b DEF Handler
  <2>4. fc[r].pc = "asked" /\ signals' = signals
    BY <1>6 DEF ModelAnswers, store
  <2>5. "not persisted" \notin fc[r].warnings
    BY <2>4 DEF Recorded
  <2>. HIDE DEF h
  <2>. QED
    BY <2>2, <2>3, <2>4, <2>5, StillRecorded
<1>15. ASSUME NEW r \in Request, ModelFails(r) PROVE Recorded(r)'
  <2>1. /\ fc[r].pc = "asked" /\ fc'[r].pc = "answered" /\ signals' = signals
        /\ fc'[r].provenance = fc[r].provenance /\ fc'[r].stored = fc[r].stored
    BY <1>a, <1>b, <1>15 DEF ModelFails, Handler, store
  <2>. QED
    BY <2>1, StillRecorded
<1>7. ASSUME NEW r \in Request, BeginPersist(r) PROVE Recorded(r)'
  <2>1. /\ fc[r].pc = "advised" /\ signals' = signals
        /\ fc'[r].provenance = fc[r].provenance /\ fc'[r].stored = fc[r].stored
    BY <1>a, <1>b, <1>7 DEF BeginPersist, Unpersisted, Handler, store
  <2>2. fc'[r].pc = "answered" \/ fc'[r].warnings = fc[r].warnings
    BY <1>a, <1>b, <1>7 DEF BeginPersist, Unpersisted, Handler
  <2>3. "not persisted" \notin fc[r].warnings
    BY <2>1 DEF Recorded
  <2>. QED
    BY <2>1, <2>2, <2>3, StillRecorded
<1>8. ASSUME NEW r \in Request, InsertSignal(r) PROVE Recorded(r)'
  <2>1. /\ fc[r].pc = "persisting" /\ fc'[r].pc = "persisting"
        /\ fc'[r].stored = fc[r].stored + 1 /\ fc'[r].provenance = fc[r].provenance
        /\ fc'[r].advice = fc[r].advice /\ fc'[r].warnings = fc[r].warnings
    BY <1>a, <1>b, <1>8 DEF InsertSignal, Handler
  <2>2. signals' = signals \cup {<<r, fc[r].stored + 1>>} /\ fc[r].stored \in Nat
    BY <1>b, <1>8, ForecastAssumption DEF InsertSignal, Handler
  <2>3. fc'[r].provenance = {} /\ "not persisted" \notin fc'[r].warnings
    BY <2>1 DEF Recorded
  <2>4. \A k \in 1 .. fc'[r].stored : k \in 1 .. fc[r].stored \/ k = fc[r].stored + 1
    BY <2>1, <2>2
  <2>5. \A k \in 1 .. fc'[r].stored : <<r, k>> \in signals'
    BY <2>2, <2>4 DEF Recorded
  <2>. QED
    BY <2>1, <2>3, <2>5 DEF Recorded
<1>9. ASSUME NEW r \in Request, InsertFails(r) PROVE Recorded(r)'
  <2>1. /\ fc[r].pc = "persisting" /\ fc'[r].pc = "answered" /\ signals' = signals
        /\ fc'[r].provenance = fc[r].provenance /\ fc'[r].stored = fc[r].stored
    BY <1>a, <1>b, <1>9 DEF InsertFails, Unpersisted, Handler, store
  <2>. QED
    BY <2>1, StillRecorded
<1>10. ASSUME NEW r \in Request, InsertPanics(r) PROVE Recorded(r)'
  <2>1. /\ fc[r].pc = "persisting" /\ fc'[r].pc = "aborted" /\ signals \subseteq signals'
        /\ fc'[r].provenance = fc[r].provenance /\ fc'[r].stored = fc[r].stored
        /\ fc'[r].warnings = fc[r].warnings
    BY <1>a, <1>b, <1>10 DEF InsertPanics, Handler
  <2>. QED
    BY <2>1, StillRecorded
<1>11. ASSUME NEW r \in Request, Persisted(r) PROVE Recorded(r)'
  <2>1. /\ fc'[r].pc = "answered" /\ fc'[r].provenance = 1 .. fc[r].advice
        /\ fc'[r].stored = fc[r].stored /\ fc'[r].advice = fc[r].advice
        /\ fc'[r].warnings = fc[r].warnings
    BY <1>a, <1>b, <1>11 DEF Persisted, Handler
  <2>2. fc[r].pc = "persisting" /\ fc[r].stored = fc[r].advice /\ signals' = signals
    BY <1>11 DEF Persisted, store
  <2>. QED
    BY <2>1, <2>2 DEF Recorded
<1>12. ASSUME NEW r \in Request, HandlerStep(r) \/ Start(r) \/ ModelStep(r), NEW q \in Request
       PROVE  Recorded(q)'
  <2>1. q # r => fc'[q] = fc[q] /\ signals \subseteq signals'
    BY <1>12, OthersUntouched
  <2>2. Recorded(r)'
    BY <1>2, <1>3, <1>4, <1>5, <1>6, <1>7, <1>8, <1>9, <1>10, <1>11, <1>12, <1>14, <1>15
    DEF HandlerStep, ModelStep
  <2>. QED
    BY <2>1, <2>2, OthersRecorded
<1>13. CASE UNCHANGED forecastVars
  BY <1>13, OthersRecorded DEF forecastVars
<1>. QED
  BY <1>1, <1>12, <1>13 DEF ForecastNext

(***************************************************************************)
(* Whatever fails or panics, an answer names all of its signals or none,   *)
(* and only rows that are stored.                                          *)
(***************************************************************************)
THEOREM ProvenanceStored == ForecastSpec => []ProvenanceIsStored
<1>1. ForecastInit => \A r \in Request : Recorded(r)
  <2> SUFFICES ASSUME ForecastInit, NEW r \in Request PROVE Recorded(r)
    OBVIOUS
  <2>1. fc[r].stored = 0 /\ fc[r].provenance = {} /\ fc[r].pc = "new" /\ fc[r].warnings = {}
    BY DEF ForecastInit
  <2>. QED
    BY <2>1 DEF Recorded
<1>2. ForecastTypeOK /\ (\A r \in Request : Recorded(r)) /\ [ForecastNext]_forecastVars
        => (\A r \in Request : Recorded(r))'
  BY RecordedStep
<1>3. (\A r \in Request : Recorded(r)) => ProvenanceIsStored
  BY DEF Recorded, ProvenanceIsStored
<1>. QED
  BY <1>1, <1>2, <1>3, ForecastTypeCorrect, PTL DEF ForecastSpec
-----------------------------------------------------------------------------
\* What has been read was in force at some moment since the start; what was
\* in force all the while has been read, or is still to be.
Current(r) ==
    /\ fc[r].always \subseteq Concerns(r)
    /\ fc[r].constraints \subseteq fc[r].ever
    /\ fc[r].pc \in {"new", "started"} => fc[r].constraints = {}
    /\ fc[r].pc \in Unread => /\ fc[r].always \subseteq InForce
                             /\ InForce \cap Concerns(r) \subseteq fc[r].ever
    /\ fc[r].pc = "reading" => /\ fc[r].left \subseteq Named(r)
                               /\ \A c \in fc[r].always : On[c] \in fc[r].left
                                                          \/ c \in fc[r].constraints
    /\ fc[r].pc = "scored" => fc[r].always \subseteq fc[r].constraints

LEMMA WritesCurrent ==
    ASSUME ForecastTypeOK, NEW r \in Request, Current(r), Write
    PROVE  Current(r)'
<1>1. /\ fc'[r].pc = fc[r].pc /\ fc'[r].left = fc[r].left
      /\ fc'[r].constraints = fc[r].constraints
  BY WriteSpares
<1>2. fc[r] \in Handler /\ DOMAIN fc = Request
  BY DEF ForecastTypeOK
<1>3. CASE fc[r].pc \in Unread
  <2> DEFINE h == [fc[r] EXCEPT !.ever = @ \cup (InForce' \cap Concerns(r)),
                                !.always = @ \cap InForce']
  <2>1. fc'[r] = h
    BY <1>3 DEF Write
  <2>2. /\ h.ever = fc[r].ever \cup (InForce' \cap Concerns(r))
        /\ h.always = fc[r].always \cap InForce'
    BY <1>2 DEF Handler
  <2>. HIDE DEF h
  <2>3. /\ fc'[r].ever = fc[r].ever \cup (InForce' \cap Concerns(r))
        /\ fc'[r].always = fc[r].always \cap InForce'
    BY <2>1, <2>2
  <2>4. fc[r].pc # "scored"
    BY <1>3 DEF Unread
  <2>. QED
    BY <1>1, <1>3, <2>3, <2>4 DEF Current
<1>4. CASE fc[r].pc \notin Unread
  <2>1. fc'[r] = fc[r]
    BY <1>4 DEF Write
  <2>. QED
    BY <1>4, <2>1 DEF Current, Unread
<1>. QED
  BY <1>3, <1>4

\* The steps behind the read leave it as it is, or drop it.
LEMMA ReadingKept ==
    ASSUME ForecastTypeOK, NEW r \in Request,
           \/ Refuse(r) \/ AskModel(r) \/ ModelStep(r) \/ BeginPersist(r)
           \/ InsertSignal(r) \/ InsertFails(r) \/ InsertPanics(r) \/ Persisted(r)
    PROVE  /\ UNCHANGED <<status, standing>>
           /\ fc'[r].pc \notin {"new", "scored"} \cup Unread
           /\ \/ /\ fc'[r].constraints = fc[r].constraints
                 /\ fc'[r].ever = fc[r].ever /\ fc'[r].always = fc[r].always
              \/ fc'[r].constraints = {} /\ fc'[r].ever = {} /\ fc'[r].always = {}
<1>a. fc \in [Request -> Handler] /\ fc[r] \in Handler
  BY DEF ForecastTypeOK
<1> USE DEF Unread, store
<1>1. CASE Refuse(r) \/ AskModel(r)
  <2>1. PICK pc \in {"refused", "asked", "answered"} : fc'[r] = Done(r, pc)
    BY <1>1, ReadEnds
  <2>2. pc \in Stage /\ UNCHANGED <<status, standing>>
    BY <1>1 DEF Stage, Refuse, AskModel
  <2>. QED
    BY <2>1, <2>2, DoneShape
<1>3. CASE ModelAnswers(r)
  <2>1. PICK n \in 0 .. MaxSignals :
           fc' = [fc EXCEPT ![r].pc = IF n = 0 THEN "answered" ELSE "advised",
                            ![r].advice = n]
    BY <1>3 DEF ModelAnswers
  <2> DEFINE h == [fc[r] EXCEPT !.pc = IF n = 0 THEN "answered" ELSE "advised",
                                !.advice = n]
  <2>2. fc'[r] = h
    BY <1>a, <2>1
  <2>3. /\ h.pc \in {"answered", "advised"} /\ h.constraints = fc[r].constraints
        /\ h.ever = fc[r].ever /\ h.always = fc[r].always
    BY <1>a DEF Handler
  <2>. HIDE DEF h
  <2>. QED
    BY <1>3, <2>2, <2>3 DEF ModelAnswers
<1>4. CASE ModelFails(r)
  BY <1>a, <1>4 DEF ModelFails, Handler
<1>5. CASE BeginPersist(r)
  <2>1. CASE poisoned
    <3>1. Unpersisted(r) /\ UNCHANGED <<status, standing>> /\ fc[r].pc = "advised"
      BY <1>5, <2>1 DEF BeginPersist
    <3>. QED
      BY <1>a, <3>1 DEF Unpersisted, Handler
  <2>2. CASE ~ poisoned
    BY <1>a, <1>5, <2>2 DEF BeginPersist, Handler
  <2>. QED
    BY <2>1, <2>2
<1>6. CASE InsertSignal(r)
  BY <1>a, <1>6 DEF InsertSignal, Handler
<1>7. CASE InsertFails(r)
  BY <1>a, <1>7 DEF InsertFails, Unpersisted, Handler
<1>8. CASE InsertPanics(r)
  BY <1>a, <1>8 DEF InsertPanics, Handler
<1>9. CASE Persisted(r)
  BY <1>a, <1>9 DEF Persisted, Handler
<1>. QED
  BY <1>1, <1>3, <1>4, <1>5, <1>6, <1>7, <1>8, <1>9 DEF ModelStep

LEMMA CurrentStep ==
    ASSUME ForecastTypeOK, \A r \in Request : Current(r), [ForecastNext]_forecastVars
    PROVE  \A r \in Request : Current(r)'
<1>a. fc \in [Request -> Handler] /\ \A r \in Request : fc[r] \in Handler
  BY DEF ForecastTypeOK
<1>2. ASSUME NEW q \in Request, UNCHANGED <<status, standing>>, fc'[q] = fc[q]
      PROVE  Current(q)'
  BY <1>2 DEF Current, InForce, InState
<1>1. ASSUME NEW o, ServeOther(o) \/ ServeElsewhere(o), NEW r \in Request PROVE Current(r)'
  BY <1>1, <1>2, OthersWrite, WritesCurrent
<1>b. UNCHANGED <<status, standing>> => InForce' = InForce
  BY DEF InForce, InState
<1>3. ASSUME NEW r \in Request, Start(r) PROVE Current(r)'
  <2> DEFINE h == [fc[r] EXCEPT !.pc = "started", !.ever = InForce \cap Concerns(r),
                                !.always = InForce \cap Concerns(r)]
  <2>1. fc'[r] = h
    BY <1>a, <1>3 DEF Start
  <2>2. /\ h.pc = "started" /\ h.constraints = fc[r].constraints
        /\ h.ever = InForce \cap Concerns(r) /\ h.always = InForce \cap Concerns(r)
    BY <1>a DEF Handler
  <2>3. fc[r].constraints = {} /\ InForce' = InForce
    BY <1>b, <1>3 DEF Start, Current, store
  <2>. HIDE DEF h
  <2>. QED
    BY <2>1, <2>2, <2>3 DEF Current, Unread
<1>8. ASSUME NEW r \in Request, BeginRead(r) PROVE Current(r)'
  <2>1. InForce' = InForce /\ fc[r].pc = "started"
    BY <1>b, <1>8 DEF BeginRead, store
  <2>2. CASE Named(r) = {}
    <3>1. fc'[r] = [fc[r] EXCEPT !.pc = "scored"]
      BY <1>a, <1>8, <2>2 DEF BeginRead
    <3>2. /\ fc'[r].pc = "scored" /\ fc'[r].constraints = fc[r].constraints
          /\ fc'[r].ever = fc[r].ever /\ fc'[r].always = fc[r].always
      BY <1>a, <3>1 DEF Handler
    <3>3. fc[r].always = {}
      BY <2>2 DEF Current, Concerns
    <3>. QED
      BY <2>1, <3>2, <3>3 DEF Current, Unread
  <2>3. CASE Named(r) # {}
    <3>1. fc'[r] = [fc[r] EXCEPT !.pc = "reading", !.left = Named(r)]
      BY <1>a, <1>8, <2>3 DEF BeginRead
    <3>2. /\ fc'[r].pc = "reading" /\ fc'[r].constraints = fc[r].constraints
          /\ fc'[r].left = Named(r)
          /\ fc'[r].ever = fc[r].ever /\ fc'[r].always = fc[r].always
      BY <1>a, <3>1 DEF Handler
    <3>3. \A c \in fc[r].always : On[c] \in Named(r)
      BY DEF Current, Concerns
    <3>. QED
      BY <2>1, <3>2, <3>3 DEF Current, Unread
  <2>. QED
    BY <2>2, <2>3
<1>4. ASSUME NEW r \in Request, ReadConstraints(r) PROVE Current(r)'
  <2>1. InForce' = InForce /\ fc[r].pc = "reading"
    BY <1>b, <1>4 DEF ReadConstraints, store
  <2>2. PICK k \in fc[r].left :
           /\ fc'[r].pc = IF fc[r].left = {k} THEN "scored" ELSE "reading"
           /\ fc'[r].left = fc[r].left \ {k}
           /\ fc'[r].constraints = fc[r].constraints \cup {c \in InForce : On[c] = k}
           /\ fc'[r].ever = fc[r].ever /\ fc'[r].always = fc[r].always
    BY <1>4, ReadShape
  <2>3. {c \in InForce : On[c] = k} \subseteq InForce \cap Concerns(r)
    BY <2>1 DEF Current, Concerns, InForce, InState
  <2>4. fc'[r].constraints \subseteq fc'[r].ever
    BY <2>1, <2>2, <2>3 DEF Current, Unread
  <2>5. \A c \in fc'[r].always : On[c] \in fc'[r].left \/ c \in fc'[r].constraints
    BY <2>1, <2>2 DEF Current, Unread
  <2>. QED
    BY <2>1, <2>2, <2>4, <2>5 DEF Current, Unread
<1>5. ASSUME NEW r \in Request,
             \/ Refuse(r) \/ AskModel(r) \/ ModelStep(r) \/ BeginPersist(r)
             \/ InsertSignal(r) \/ InsertFails(r) \/ InsertPanics(r) \/ Persisted(r)
      PROVE  Current(r)'
  <2>1. /\ fc'[r].pc \notin {"new", "scored"} \cup Unread
        /\ \/ /\ fc'[r].constraints = fc[r].constraints
              /\ fc'[r].ever = fc[r].ever /\ fc'[r].always = fc[r].always
           \/ fc'[r].constraints = {} /\ fc'[r].ever = {} /\ fc'[r].always = {}
    BY <1>5, ReadingKept
  <2>. QED
    BY <2>1 DEF Current, Unread
<1>6. ASSUME NEW r \in Request, HandlerStep(r) \/ Start(r) \/ ModelStep(r), NEW q \in Request
      PROVE  Current(q)'
  <2>1. UNCHANGED <<status, standing>>
    BY <1>6, ReadingKept DEF Start, BeginRead, ReadConstraints, HandlerStep, store
  <2>2. CASE q = r
    BY <1>3, <1>4, <1>5, <1>6, <1>8, <2>2 DEF HandlerStep
  <2>3. CASE q # r
    BY <1>2, <1>6, <2>1, <2>3, OthersUntouched
  <2>. QED
    BY <2>2, <2>3
<1>7. CASE UNCHANGED forecastVars
  BY <1>2, <1>7 DEF forecastVars
<1>. QED
  BY <1>1, <1>6, <1>7 DEF ForecastNext

LEMMA AlwaysCurrent == ForecastSpec => [](\A r \in Request : Current(r))
<1>1. ForecastInit => \A r \in Request : Current(r)
  BY DEF ForecastInit, Current, Unread
<1>2. ForecastTypeOK /\ (\A r \in Request : Current(r)) /\ [ForecastNext]_forecastVars
        => (\A r \in Request : Current(r))'
  BY CurrentStep
<1>. QED
  BY <1>1, <1>2, ForecastTypeCorrect, PTL DEF ForecastSpec

(***************************************************************************)
(* Whatever this and other daemons commit, defer, revive and release while *)
(* it reads, a forecast uses no commitment that was never in force between *)
(* its start and the end of its read, and misses none that always was.     *)
(***************************************************************************)
THEOREM ConstraintsAreCurrent == ForecastSpec => []ConstraintsCurrent
<1>1. (\A r \in Request : Current(r)) => ConstraintsCurrent
  BY DEF Current, ConstraintsCurrent
<1>. QED
  BY <1>1, AlwaysCurrent, PTL

-----------------------------------------------------------------------------
\* The handler that reads or stores holds the mutex, and has not found it
\* poisoned.
Inside   == {"reading", "persisting"}
Holds(r) == fc[r].pc \in Inside => lock = r /\ ~ poisoned

LEMMA HoldsStep ==
    ASSUME ForecastTypeOK, \A r \in Request : Holds(r), [ForecastNext]_forecastVars
    PROVE  \A r \in Request : Holds(r)'
<1>a. fc \in [Request -> Handler] /\ \A r \in Request : fc[r] \in Handler
  BY DEF ForecastTypeOK
<1>b. \A r, q \in Request : fc[r].pc \in Inside /\ fc[q].pc \in Inside => q = r
  BY DEF Holds
<1>c. \A r \in Request : Free # r
  BY ForecastAssumption
<1>0. ASSUME NEW q \in Request, Write \/ UNCHANGED fc PROVE fc'[q].pc = fc[q].pc
  BY <1>0, WriteSpares
<1>1. ASSUME NEW o \in Other, ServeOther(o), NEW q \in Request PROVE Holds(q)'
  <2>1. fc'[q].pc = fc[q].pc /\ lock = Free
    BY <1>0, <1>1 DEF ServeOther
  <2>. QED
    BY <1>c, <2>1 DEF Holds
<1>9. ASSUME NEW x \in Elsewhere, ServeElsewhere(x), NEW q \in Request PROVE Holds(q)'
  <2>1. fc'[q].pc = fc[q].pc /\ UNCHANGED <<lock, poisoned>>
    BY <1>0, <1>9 DEF ServeElsewhere
  <2>. QED
    BY <2>1 DEF Holds
<1>2. ASSUME NEW r \in Request, Start(r) \/ AskModel(r)
      PROVE  fc'[r].pc \notin Inside /\ UNCHANGED <<lock, poisoned>>
  <2>1. CASE Start(r)
    BY <1>a, <2>1 DEF Start, Handler, Inside
  <2>2. CASE AskModel(r)
    <3>1. PICK pc \in {"asked", "answered"} : fc'[r] = Done(r, pc)
      BY <1>a, <2>2 DEF AskModel
    <3>2. fc'[r].pc = pc
      BY <1>0, <3>1, DoneShape DEF Stage
    <3>. QED
      BY <2>2, <3>1, <3>2 DEF AskModel, Inside
  <2>. QED
    BY <1>2, <2>1, <2>2
<1>3. ASSUME NEW r \in Request, ModelStep(r)
      PROVE  fc'[r].pc \notin Inside /\ UNCHANGED <<lock, poisoned>>
  <2>1. CASE ModelAnswers(r)
    <3>1. PICK n \in 0 .. MaxSignals :
             fc' = [fc EXCEPT ![r].pc = IF n = 0 THEN "answered" ELSE "advised",
                              ![r].advice = n]
      BY <2>1 DEF ModelAnswers
    <3> DEFINE h == [fc[r] EXCEPT !.pc = IF n = 0 THEN "answered" ELSE "advised",
                                  !.advice = n]
    <3>2. fc'[r] = h
      BY <1>a, <3>1
    <3>3. h.pc \notin Inside
      BY <1>a DEF Handler, Inside
    <3>. HIDE DEF h
    <3>. QED
      BY <2>1, <3>2, <3>3 DEF ModelAnswers
  <2>2. CASE ModelFails(r)
    BY <1>a, <2>2 DEF ModelFails, Handler, Inside
  <2>. QED
    BY <1>3, <2>1, <2>2 DEF ModelStep
<1>4. ASSUME NEW r \in Request, BeginPersist(r) PROVE Holds(r)' /\ lock = Free
  <2>1. CASE poisoned
    BY <1>a, <1>4, <2>1 DEF BeginPersist, Unpersisted, Holds, Handler, Inside
  <2>2. CASE ~ poisoned
    BY <1>a, <1>4, <2>2 DEF BeginPersist, Holds, Handler
  <2>. QED
    BY <1>4, <2>1, <2>2 DEF BeginPersist
<1>10. ASSUME NEW r \in Request, BeginRead(r)
       PROVE  Holds(r)' /\ (lock = Free \/ UNCHANGED <<lock, poisoned>>)
  <2>1. CASE Named(r) = {}
    BY <1>a, <1>10, <2>1 DEF BeginRead, Holds, Handler, Inside
  <2>2. CASE Named(r) # {}
    BY <1>a, <1>10, <2>2 DEF BeginRead, Holds, Handler
  <2>. QED
    BY <1>10, <2>1, <2>2
<1>11. ASSUME NEW r \in Request, ReadConstraints(r) PROVE Holds(r)' /\ fc[r].pc \in Inside
  <2>1. PICK k \in fc[r].left :
           /\ fc'[r].pc = IF fc[r].left = {k} THEN "scored" ELSE "reading"
           /\ lock' = IF fc[r].left = {k} THEN Free ELSE r
    BY <1>11, ReadShape
  <2>2. fc[r].pc = "reading" /\ UNCHANGED poisoned
    BY <1>11 DEF ReadConstraints
  <2>. QED
    BY <2>1, <2>2 DEF Holds, Inside
<1>12. ASSUME NEW r \in Request, Refuse(r)
       PROVE  Holds(r)' /\ (fc[r].pc \in Inside \/ lock = Free)
  <2>1. fc'[r] = Done(r, "refused")
    BY <1>a, <1>12 DEF Refuse
  <2>2. fc'[r].pc = "refused"
    BY <1>0, <2>1, DoneShape DEF Stage
  <2>. QED
    BY <1>12, <2>2 DEF Refuse, Holds, Inside
<1>5. ASSUME NEW r \in Request, InsertSignal(r) PROVE Holds(r)' /\ fc[r].pc \in Inside
  BY <1>a, <1>5 DEF InsertSignal, Holds, Handler, Inside
<1>6. ASSUME NEW r \in Request, InsertFails(r) \/ InsertPanics(r) \/ Persisted(r)
      PROVE  Holds(r)' /\ fc[r].pc \in Inside
  BY <1>a, <1>6 DEF InsertFails, InsertPanics, Persisted, Unpersisted, Holds, Handler, Inside
<1>7. ASSUME NEW r \in Request, HandlerStep(r) \/ Start(r) \/ ModelStep(r), NEW q \in Request
      PROVE  Holds(q)'
  <2>1. CASE q = r
    BY <1>2, <1>3, <1>4, <1>5, <1>6, <1>7, <1>10, <1>11, <1>12, <2>1 DEF HandlerStep, Holds
  <2>2. CASE q # r
    <3>1. fc'[q] = fc[q]
      BY <1>7, <2>2, OthersUntouched
    <3>2. CASE fc[q].pc \notin Inside
      BY <3>1, <3>2 DEF Holds
    <3>3. CASE fc[q].pc \in Inside
      <4>1. fc[r].pc \notin Inside /\ lock = q /\ ~ poisoned
        BY <1>b, <2>2, <3>3 DEF Holds
      <4>2. UNCHANGED <<lock, poisoned>>
        BY <1>c, <1>2, <1>3, <1>4, <1>5, <1>6, <1>7, <1>10, <1>11, <1>12, <4>1 DEF HandlerStep
      <4>. QED
        BY <3>1, <4>1, <4>2 DEF Holds
    <3>. QED
      BY <3>2, <3>3
  <2>. QED
    BY <2>1, <2>2
<1>8. CASE UNCHANGED forecastVars
  BY <1>8 DEF forecastVars, Holds
<1>. QED
  BY <1>1, <1>7, <1>8, <1>9 DEF ForecastNext

\* Only who has found the mutex sound writes a table, but for other daemons.
OthersMoved == \E x \in Elsewhere : x \in served' \ served /\ UNCHANGED signals

LEMMA WritersUnpoisoned ==
    ASSUME ForecastTypeOK, \A r \in Request : Holds(r), [ForecastNext]_forecastVars
    PROVE  poisoned => UNCHANGED store \/ OthersMoved
<1> USE DEF store
<1>1. ASSUME NEW o \in Other, ServeOther(o), poisoned PROVE UNCHANGED store
  BY <1>1 DEF ServeOther
<1>6. ASSUME NEW x \in Elsewhere, ServeElsewhere(x) PROVE OthersMoved
  BY <1>6 DEF ServeElsewhere, OthersMoved
<1>2. ASSUME NEW r \in Request,
             Start(r) \/ BeginRead(r) \/ ReadConstraints(r) \/ Refuse(r) \/ AskModel(r)
      PROVE  UNCHANGED store
  BY <1>2 DEF Start, BeginRead, ReadConstraints, Refuse, AskModel
<1>3. ASSUME NEW r \in Request, ModelStep(r) \/ BeginPersist(r) \/ InsertFails(r) \/ Persisted(r)
      PROVE  UNCHANGED store
  BY <1>3 DEF ModelStep, ModelAnswers, ModelFails, BeginPersist, InsertFails, Persisted
<1>4. ASSUME NEW r \in Request, InsertSignal(r) \/ InsertPanics(r) PROVE ~ poisoned
  BY <1>4 DEF InsertSignal, InsertPanics, Holds, Inside
<1>5. CASE UNCHANGED forecastVars
  BY <1>5 DEF forecastVars
<1>. QED
  BY <1>1, <1>2, <1>3, <1>4, <1>5, <1>6 DEF ForecastNext, HandlerStep

(***************************************************************************)
(* After a panic under the mutex no handler writes a table again, the one  *)
(* that was waiting for the mutex included: who writes holds it, and found *)
(* it sound when it took it.                                               *)
(***************************************************************************)
THEOREM PoisonedUntouched == ForecastSpec => PoisonedStoreUntouched
<1>1. ForecastInit => \A r \in Request : Holds(r)
  BY DEF ForecastInit, Holds, Inside
<1>2. ForecastTypeOK /\ (\A r \in Request : Holds(r)) /\ [ForecastNext]_forecastVars
        => (\A r \in Request : Holds(r))'
  BY HoldsStep
<1>3. ForecastTypeOK /\ (\A r \in Request : Holds(r)) /\ [ForecastNext]_forecastVars
        => [poisoned => \/ UNCHANGED store
                        \/ \E x \in Elsewhere : x \in served' \ served /\ UNCHANGED signals
           ]_forecastVars
  BY WritersUnpoisoned DEF OthersMoved
<1>. QED
  BY <1>1, <1>2, <1>3, ForecastTypeCorrect, PTL DEF ForecastSpec, PoisonedStoreUntouched
-----------------------------------------------------------------------------
\* A preflight at one half and a forecast ask the same of the risk product.
LEMMA PreflightConfirms ==
    ASSUME NEW a \in CandidateAction, NEW matching, Preflight(a, 50)
    PROVE  RequiresConfirmation(a, matching)
<1> DEFINE p    == RiskProduct(a)
           cube == Unit * Unit * Unit
<1>1. p \in Int
  <2>1. /\ Clamp01(a.uncertainty) \in Int /\ Clamp01(a.irreversibility) \in Int
        /\ Clamp01(a.externality) \in Int
    BY ClampBounds DEF CandidateAction
  <2>2. \A x, y, z \in Int : x * y * z \in Int
    OBVIOUS
  <2>. QED
    BY <2>1, <2>2 DEF RiskProduct
<1>2. cube \in Int /\ 50 * Unit * Unit * Unit = 50 * cube
  BY UnitAssumption
<1>3. 100 * p > 50 * cube
  BY <1>2 DEF Preflight
<1>4. 2 * p > cube
  <2>. HIDE DEF p, cube
  <2>. QED
    BY <1>1, <1>2, <1>3
<1>. QED
  BY <1>4 DEF RequiresConfirmation

(***************************************************************************)
(* Commitments only restrain a forecast, for any numbers in its actions:   *)
(* what a preflight would have confirmed is confirmed, and so is every     *)
(* consequential action against a pledge that cannot be revoked and was in *)
(* force all the while.                                                    *)
(***************************************************************************)
THEOREM CommitmentsRestrain == ForecastSpec => []CommitmentsOnlyRestrain
<1>1. ASSUME \A r \in Request : Current(r) PROVE CommitmentsOnlyRestrain
  <2> SUFFICES ASSUME NEW r \in Request, fc[r].pc = "scored"
               PROVE  /\ OnlyRestrains(Actions[r], Relations[r], Rows(fc[r].constraints))
                      /\ \A i \in DOMAIN Actions[r] :
                            \/ Preflight(Actions[r][i], 50)
                            \/ \E c \in fc[r].always \ Revocable :
                                  /\ On[c] = Actions[r][i].continuation
                                  /\ 2 * CommitmentConsequence(Actions[r][i]) >= Unit
                            => Verdict(Actions[r][i], Relations[r],
                                       Rows(fc[r].constraints)).confirm
    BY DEF CommitmentsOnlyRestrain
  <2>1. Actions[r] \in Seq(CandidateAction)
    BY ForecastAssumption
  <2>2. OnlyRestrains(Actions[r], Relations[r], Rows(fc[r].constraints))
    BY <2>1, RankingRestrained
  <2>3. ASSUME NEW i \in DOMAIN Actions[r], Preflight(Actions[r][i], 50)
        PROVE  Verdict(Actions[r][i], Relations[r], Rows(fc[r].constraints)).confirm
    <3>1. Actions[r][i] \in CandidateAction
      BY <2>1
    <3>. QED
      BY <2>3, <3>1, PreflightConfirms DEF Verdict
  <2>4. ASSUME NEW i \in DOMAIN Actions[r],
               NEW c \in fc[r].always \ Revocable,
               On[c] = Actions[r][i].continuation,
               2 * CommitmentConsequence(Actions[r][i]) >= Unit
        PROVE  Verdict(Actions[r][i], Relations[r], Rows(fc[r].constraints)).confirm
    <3> DEFINE row == [on |-> On[c], revocable |-> c \in Revocable, active |-> TRUE]
               matching == ActiveCommitments(Actions[r][i], Rows(fc[r].constraints))
    <3>1. c \in fc[r].constraints
      BY <1>1, <2>4 DEF Current
    <3>2. row \in Rows(fc[r].constraints)
      BY <3>1 DEF Rows
    <3>3. row.active /\ row.on = Actions[r][i].continuation /\ ~ row.revocable
      BY <2>4
    <3>4. row \in matching
      BY <3>2, <3>3 DEF ActiveCommitments
    <3>5. RequiresConfirmation(Actions[r][i], matching)
      BY <2>4, <3>3, <3>4 DEF RequiresConfirmation, CommitmentConfirms
    <3>. QED
      BY <3>5 DEF Verdict
  <2>. QED
    BY <2>2, <2>3, <2>4
<1>. QED
  BY <1>1, AlwaysCurrent, PTL
=============================================================================
