------------------------------ MODULE Forecast ------------------------------
(***************************************************************************)
(* POST /v1/forecast on one daemon.  The handler reads the commitments on  *)
(* the continuations its actions name, scores, asks the advisory model     *)
(* (with no lock, but without leaving its worker thread either) and stores *)
(* the model's signals one INSERT at a time, while other handlers, and     *)
(* other daemons on the same files, make commitments and move              *)
(* continuations.                                                          *)
(***************************************************************************)
EXTENDS ForecastScorer, FiniteSets

CONSTANTS Request,     \* forecast requests
          Other,       \* requests to other handlers
          Elsewhere,   \* writes of other daemons on the same files
          Actions,     \* Actions[r]: r's candidate actions
          Relations,   \* Relations[r]: the relations r states
          Commitment,
          On,          \* On[c]: the continuation of commitment c
          Revocable,   \* the revocable commitments
          Workers,     \* worker threads of the runtime
          MaxSignals,  \* signals of one model answer
          Free

ASSUME ForecastAssumption ==
    /\ Actions \in [Request -> Seq(CandidateAction)]
    /\ Relations \in [Request -> SUBSET RelationEdge]
    /\ Other \cap Elsewhere = {}
    /\ On \in [Commitment -> Continuation]
    /\ Revocable \subseteq Commitment
    /\ Workers \in Nat \ {0}
    /\ MaxSignals \in Nat
    /\ Free \notin Request

VARIABLES client,    \* a forecast client is configured
          status,    \* status[c] of each commitment
          standing,  \* standing[k] of each continuation
          signals,   \* advisory_forecast_signals: the k-th signal of request r
          lock,      \* the request that holds the store mutex across steps
          poisoned,  \* a handler panicked under the mutex
          fc,        \* fc[r]: the handler of r
          served     \* the other requests and writes that are done

store == <<status, standing, signals>>
forecastVars == <<client, status, standing, signals, lock, poisoned, fc, served>>

\* The continuations r's actions name, and the commitments on them.
Named(r)    == {Actions[r][i].continuation : i \in DOMAIN Actions[r]} \ {NoContinuation}
Concerns(r) == {c \in Commitment : On[c] \in Named(r)}

InState(s) == {c \in Commitment : status[c] = s}

\* What binds: an active commitment whose continuation is active too.
InForce == {c \in InState("active") : standing[On[c]] = "active"}

\* The rows of commitments that were read as active.
Rows(cs) == {[on |-> On[c], revocable |-> c \in Revocable, active |-> TRUE] : c \in cs}

Stage   == {"new", "started", "reading", "scored", "asked", "advised", "persisting",
            "answered", "refused", "aborted"}
\* That a result is degraded changes the answer's wording only.
Warning == {"not persisted", "model failed"}

\* idle: deferred or stabilized; finished: closed or retired.
Standing == {"active", "idle", "finished"}

\* left: continuations to read; stored: INSERTs done.  Of the commitments r
\* concerns (history): in force at some moment between its start and the end
\* of its read, and at every moment.
Handler == [pc : Stage, left : SUBSET Continuation, constraints : SUBSET Commitment,
            advice : 0 .. MaxSignals, stored : 0 .. MaxSignals,
            provenance : SUBSET (1 .. MaxSignals), warnings : SUBSET Warning,
            ever : SUBSET Commitment, always : SUBSET Commitment]

ForecastTypeOK == /\ client \in BOOLEAN
                  /\ status \in [Commitment -> {"none", "active", "released"}]
                  /\ standing \in [Continuation -> Standing]
                  /\ signals \subseteq Request \X (1 .. MaxSignals)
                  /\ lock \in Request \cup {Free}
                  /\ poisoned \in BOOLEAN
                  /\ fc \in [Request -> Handler]
                  /\ served \subseteq Other \cup Elsewhere

\* A store as it was left; a commitment released earlier never binds again,
\* and is left out.
ForecastInit ==
    /\ client \in BOOLEAN
    /\ status \in [Commitment -> {"none", "active"}]
    /\ standing \in [Continuation -> Standing]
    /\ signals = {}
    /\ lock = Free
    /\ poisoned = FALSE
    /\ fc = [r \in Request |->
               [pc |-> "new", left |-> {}, constraints |-> {}, advice |-> 0, stored |-> 0,
                provenance |-> {}, warnings |-> {}, ever |-> {}, always |-> {}]]
    /\ served = {}
-----------------------------------------------------------------------------
Ended   == {"answered", "refused", "aborted"}
Running == {r \in Request : fc[r].pc \notin Ended \cup {"new"}}

\* No handler awaits: each keeps its worker from its first step to its last.
WorkerFree == Cardinality(Running) < Workers

\* create_commitment, on a continuation that may have moved on by then.
Commit ==
    /\ \E c \in InState("none") : status' = [status EXCEPT ![c] = "active"]
    /\ UNCHANGED standing

\* assimilate_delta: continuations are moved, out of force and back; one that
\* is closed or retired releases the commitments on it.
Assimilate ==
    \E named \in SUBSET Continuation : \E to \in [named -> Standing] :
       /\ standing' = [k \in Continuation |-> IF k \in named THEN to[k] ELSE standing[k]]
       /\ status' = [c \in Commitment |->
                       IF c \in InState("active") /\ On[c] \in named /\ to[On[c]] = "finished"
                       THEN "released" ELSE status[c]]

Unread == {"started", "reading"}

\* The forecasts that are still to read, or reading, under a write.
Write ==
    /\ Commit \/ Assimilate
    /\ fc' = [r \in Request |->
                IF fc[r].pc \in Unread
                THEN [fc[r] EXCEPT !.ever = @ \cup (InForce' \cap Concerns(r)),
                                   !.always = @ \cap InForce']
                ELSE fc[r]]

\* Any other handler that writes: a critical section that writes, is refused
\* or fails, or panics.
ServeOther(o) ==
    /\ o \notin served
    /\ WorkerFree
    /\ lock = Free
    /\ served' = served \cup {o}
    /\ \/ ~ poisoned /\ Write /\ UNCHANGED poisoned
       \/ ~ poisoned /\ poisoned' = TRUE /\ UNCHANGED <<status, standing, fc>>
       \/ UNCHANGED <<status, standing, fc, poisoned>>
    /\ UNCHANGED <<client, signals, lock>>

\* Another daemon's mutex is another one.
ServeElsewhere(x) ==
    /\ x \notin served
    /\ Write
    /\ served' = served \cup {x}
    /\ UNCHANGED <<client, signals, lock, poisoned>>

Start(r) ==
    /\ fc[r].pc = "new"
    /\ WorkerFree
    /\ fc' = [fc EXCEPT ![r].pc = "started",
                        ![r].ever = InForce \cap Concerns(r),
                        ![r].always = InForce \cap Concerns(r)]
    /\ UNCHANGED <<client, store, lock, poisoned, served>>

\* A request that names no continuation does not lock.
BeginRead(r) ==
    /\ fc[r].pc = "started"
    /\ IF Named(r) = {}
       THEN fc' = [fc EXCEPT ![r].pc = "scored"] /\ UNCHANGED lock
       ELSE /\ lock = Free /\ ~ poisoned
            /\ fc' = [fc EXCEPT ![r].pc = "reading", ![r].left = Named(r)]
            /\ lock' = r
    /\ UNCHANGED <<client, store, poisoned, served>>

\* One continuation's commitments are read; behind the last one the mutex is
\* freed, and the actions are scored.
ReadNext(r, rows) ==
    \E k \in fc[r].left :
       LET last == fc[r].left = {k}
       IN /\ fc' = [fc EXCEPT ![r].pc = IF last THEN "scored" ELSE "reading",
                              ![r].left = @ \ {k},
                              ![r].constraints = @ \cup {c \in rows : On[c] = k}]
          /\ lock' = IF last THEN Free ELSE r

\* Variant: the query does not ask for the continuation's status.
ReadUnjoined(r) ==
    /\ fc[r].pc = "reading"
    /\ ReadNext(r, InState("active"))
    /\ UNCHANGED <<client, store, poisoned, served>>

\* active_commitments_for_continuations: a query for each, and other daemons'
\* writes between two of them.
ReadConstraints(r) ==
    /\ fc[r].pc = "reading"
    /\ ReadNext(r, InForce)
    /\ UNCHANGED <<client, store, poisoned, served>>

\* What a ranking is made from is not used behind it.
Done(r, pc) == [fc[r] EXCEPT !.pc = pc, !.left = {}, !.constraints = {},
                             !.ever = {}, !.always = {}]

\* The mutex is poisoned, or a query fails: 500, before any scoring.
Refuse(r) ==
    /\ \/ fc[r].pc = "started" /\ Named(r) # {} /\ lock = Free /\ poisoned
       \/ fc[r].pc = "reading"
    /\ fc' = [fc EXCEPT ![r] = Done(r, "refused")]
    /\ lock' = Free
    /\ UNCHANGED <<client, store, poisoned, served>>

\* The ranking is made, and forecast_with_status called, if there is a client.
AskModel(r) ==
    /\ fc[r].pc = "scored"
    /\ fc' = [fc EXCEPT ![r] = Done(r, IF client THEN "asked" ELSE "answered")]
    /\ UNCHANGED <<client, store, lock, poisoned, served>>

ModelAnswers(r) ==
    /\ fc[r].pc = "asked"
    /\ \E n \in 0 .. MaxSignals :
          fc' = [fc EXCEPT ![r].pc = IF n = 0 THEN "answered" ELSE "advised",
                           ![r].advice = n]
    /\ UNCHANGED <<client, store, lock, poisoned, served>>

ModelFails(r) ==
    /\ fc[r].pc = "asked"
    /\ fc' = [fc EXCEPT ![r].pc = "answered", ![r].warnings = {"model failed"}]
    /\ UNCHANGED <<client, store, lock, poisoned, served>>

Unpersisted(r) == fc' = [fc EXCEPT ![r].pc = "answered",
                                   ![r].warnings = @ \cup {"not persisted"}]

\* Variant: a poisoned mutex is entered (PoisonError::into_inner).
EnterPersist(r) ==
    /\ fc[r].pc = "advised"
    /\ lock = Free
    /\ lock' = r
    /\ fc' = [fc EXCEPT ![r].pc = "persisting"]
    /\ UNCHANGED <<client, store, poisoned, served>>

\* The mutex is taken for the whole loop, or found poisoned.
BeginPersist(r) ==
    /\ fc[r].pc = "advised"
    /\ lock = Free
    /\ IF poisoned
       THEN Unpersisted(r) /\ UNCHANGED lock
       ELSE fc' = [fc EXCEPT ![r].pc = "persisting"] /\ lock' = r
    /\ UNCHANGED <<client, store, poisoned, served>>

\* One INSERT, committed by itself, and the vector index told.
InsertSignal(r) ==
    /\ fc[r].pc = "persisting" /\ fc[r].stored < fc[r].advice
    /\ signals' = signals \cup {<<r, fc[r].stored + 1>>}
    /\ fc' = [fc EXCEPT ![r].stored = @ + 1]
    /\ UNCHANGED <<client, status, standing, lock, poisoned, served>>

\* Variant: a signal that cannot be stored is passed over.
InsertPassesOver(r) ==
    /\ fc[r].pc = "persisting" /\ fc[r].stored < fc[r].advice
    /\ fc' = [fc EXCEPT ![r].stored = @ + 1]
    /\ UNCHANGED <<client, store, lock, poisoned, served>>

\* Variant: the guard outlives the error.
InsertFailsHolding(r) ==
    /\ fc[r].pc = "persisting" /\ fc[r].stored < fc[r].advice
    /\ Unpersisted(r)
    /\ UNCHANGED <<client, store, lock, poisoned, served>>

\* An INSERT fails: the loop ends, the rows before it stay.
InsertFails(r) ==
    /\ fc[r].pc = "persisting" /\ fc[r].stored < fc[r].advice
    /\ Unpersisted(r)
    /\ lock' = Free
    /\ UNCHANGED <<client, store, poisoned, served>>

\* The vector index panics behind an INSERT: the connection is closed
\* without an answer, and the mutex stays poisoned.
InsertPanics(r) ==
    /\ fc[r].pc = "persisting" /\ fc[r].stored < fc[r].advice
    /\ signals' = signals \cup {<<r, fc[r].stored + 1>>}
    /\ fc' = [fc EXCEPT ![r].pc = "aborted"]
    /\ lock' = Free
    /\ poisoned' = TRUE
    /\ UNCHANGED <<client, status, standing, served>>

Persisted(r) ==
    /\ fc[r].pc = "persisting" /\ fc[r].stored = fc[r].advice
    /\ fc' = [fc EXCEPT ![r].pc = "answered",
                        ![r].provenance = 1 .. fc[r].advice]
    /\ lock' = Free
    /\ UNCHANGED <<client, store, poisoned, served>>

HandlerStep(r) == \/ BeginRead(r) \/ ReadConstraints(r) \/ Refuse(r) \/ AskModel(r)
                  \/ BeginPersist(r) \/ InsertSignal(r) \/ InsertFails(r)
                  \/ InsertPanics(r) \/ Persisted(r)

ModelStep(r) == ModelAnswers(r) \/ ModelFails(r)

ForecastNext == \/ \E r \in Request : Start(r) \/ HandlerStep(r) \/ ModelStep(r)
                \/ \E o \in Other : ServeOther(o)
                \/ \E x \in Elsewhere : ServeElsewhere(x)

ForecastSpec == ForecastInit /\ [][ForecastNext]_forecastVars

\* The runtime runs what it can; every request's turn comes.
FairRuntime == /\ \A r \in Request : /\ WF_forecastVars(Start(r))
                                     /\ WF_forecastVars(HandlerStep(r))
               /\ \A o \in Other : WF_forecastVars(ServeOther(o))

\* A model call ends: the static client returns, a sidecar answers or exits.
FairModel == \A r \in Request : WF_forecastVars(ModelStep(r))

FairSpec == ForecastSpec /\ FairRuntime /\ FairModel
-----------------------------------------------------------------------------
(***************************************************************************)
(* docs/api.md: provenance names stored signal rows, and stays empty if    *)
(* persistence fails.  Provenance is all of an answer's signals or none,   *)
(* each of them in the table.                                              *)
(***************************************************************************)
ProvenanceIsStored ==
    \A r \in Request :
        /\ \A k \in fc[r].provenance : <<r, k>> \in signals
        /\ fc[r].provenance \in {{}, 1 .. fc[r].advice}
        /\ "not persisted" \in fc[r].warnings => fc[r].provenance = {}

(***************************************************************************)
(* docs/api.md: a forecast reads the active commitments whose continuation *)
(* is active too.  Whatever this and other daemons write while it reads,   *)
(* one query for each continuation, it uses no commitment that was at no   *)
(* moment in force between its start and the end of its read, and misses   *)
(* none that was in force all the while.                                   *)
(***************************************************************************)
ConstraintsCurrent ==
    \A r \in Request :
        /\ fc[r].constraints \subseteq fc[r].ever
        /\ fc[r].pc = "scored" => fc[r].always \subseteq fc[r].constraints

(***************************************************************************)
(* Commitments only restrain.  When a forecast is scored, against the      *)
(* ranking without them, no action scores higher or loses its              *)
(* confirmation, one with no commitment on its continuation is judged as   *)
(* before and keeps its place before any other.                            *)
(* What a preflight would have confirmed a forecast confirms, and so it    *)
(* does every consequential action against a pledge that is not revocable  *)
(* and was in force from when the request came until its read was over.    *)
(***************************************************************************)
CommitmentsOnlyRestrain ==
    \A r \in {q \in Request : fc[q].pc = "scored"} :
        LET pledged == Rows(fc[r].constraints)
            a(i)    == Actions[r][i]
        IN /\ OnlyRestrains(Actions[r], Relations[r], pledged)
           /\ \A i \in DOMAIN Actions[r] :
                 \/ Preflight(a(i), 50)
                 \/ \E c \in fc[r].always \ Revocable :
                       On[c] = a(i).continuation /\ 2 * CommitmentConsequence(a(i)) >= Unit
                 => Verdict(a(i), Relations[r], pledged).confirm

(***************************************************************************)
(* After a panic under the mutex no handler touches the store again, the   *)
(* ones that were waiting for it included: what changes, other daemons     *)
(* write.                                                                  *)
(***************************************************************************)
PoisonedStoreUntouched ==
    [][poisoned => \/ UNCHANGED store
                   \/ \E x \in Elsewhere : x \in served' \ served /\ UNCHANGED signals]_forecastVars

(***************************************************************************)
(* If every model call ends, every request to the daemon does, whatever    *)
(* fails, panics or waits for the mutex.                                   *)
(***************************************************************************)
RequestsEnd == /\ \A r \in Request : <> (fc[r].pc \in Ended)
               /\ \A o \in Other : <> (o \in served)

(***************************************************************************)
(* forecast_handler warns "forecast advisory signals were not persisted".  *)
(* So no signal of that request is stored.                                 *)
(***************************************************************************)
NotPersistedMeansNone ==
    \A r \in Request : "not persisted" \in fc[r].warnings =>
        \A k \in 1 .. MaxSignals : <<r, k>> \notin signals
=============================================================================
