----------------------------- MODULE KernelApi -----------------------------
(***************************************************************************)
(* The writing handlers of tfk-api over the tables of TemporalStore:       *)
(* POST /v1/continuations, /v1/commit and /v1/assimilate, run by one or    *)
(* more daemons that share a data directory.  A daemon has one connection  *)
(* to the database behind a Mutex<Store> and serves its requests on        *)
(* several threads.  SQLite knows connections, not requests: a statement   *)
(* becomes part of the transaction its connection has open, whoever opened *)
(* it, and only the mutex keeps a request out of another's transaction.  A *)
(* critical section that is one INSERT is one action; assimilate takes the *)
(* mutex, runs its transaction statement by statement and releases it.     *)
(* The commit handler locks the store twice: once to create an obligation, *)
(* and once more, after other handlers may have run, to create the         *)
(* commitment linked to it.                                                *)
(***************************************************************************)
EXTENDS TemporalStore

CONSTANTS Request,    \* requests in flight at once; a slot is used again
          Home,       \* the daemon that serves each request
          Panics      \* the vector index behaves ({FALSE}) or may panic (BOOLEAN)

ASSUME HomeAssumption == /\ Home \in [Request -> Conn]
                         /\ Panics \subseteq BOOLEAN

VARIABLES pc,         \* where the handler of a request is
          holder,     \* who has the guard of a daemon's mutex: nobody or one
          obligation, \* the continuation the commit handler created: a set of
                      \* one element between its two critical sections
          origin,     \* history: the handler that created a continuation
          poisoned    \* a handler panicked while it held the daemon's mutex

apiVars    == <<pc, holder, obligation, origin, poisoned>>
kernelVars == <<storeVars, apiVars>>

ApiTypeOK == /\ pc \in [Request -> {"idle", "linking", "holding", "assimilating"}]
             /\ holder \in [Conn -> SUBSET Request]
             /\ obligation \in [Request -> SUBSET ContId]
             /\ origin \in [ContId -> {"none", "create", "commit"}]
             /\ poisoned \in [Conn -> BOOLEAN]
             /\ \A r \in Request : pc[r] = "linking" <=> obligation[r] # {}

ApiInit == /\ pc = [r \in Request |-> "idle"]
           /\ holder = [d \in Conn |-> {}]
           /\ obligation = [r \in Request |-> {}]
           /\ origin = [k \in ContId |-> "none"]
           /\ poisoned = [d \in Conn |-> FALSE]

KernelInit == StoreInit /\ ApiInit
-----------------------------------------------------------------------------
(***************************************************************************)
(* The mutex of daemon d can be taken: nobody has it, and it is not        *)
(* poisoned (then the handler answers 500, which changes nothing for a     *)
(* request that has done nothing yet).                                     *)
(***************************************************************************)
CanLock(d) == holder[d] = {} /\ ~poisoned[d]

\* The one connection of daemon d has a transaction open.
InTx(d) == tx # NoTx /\ tx.by = d

\* An INSERT by daemon d: within the transaction its connection has open, to
\* be seen and kept only if that commits, and by itself if there is none.
InsertContinuation(d, k, s) ==
    IF InTx(d)
    THEN /\ tx.cont[k] = "none"
         /\ tx' = [tx EXCEPT !.cont[k] = s]
         /\ born' = [born EXCEPT ![k] = s]
         /\ UNCHANGED <<tables, madeAt>>
    ELSE CreateContinuation(k, s)

InsertCommitment(d, c, k, rev) ==
    IF InTx(d)
    THEN /\ tx.commit[c] = "none"
         /\ tx.cont[k] # "none"
         /\ tx' = [tx EXCEPT !.commit[c] = "active"]
         /\ commitCont' = [commitCont EXCEPT ![c] = {k}]
         /\ revocable' = [revocable EXCEPT ![c] = rev]
         /\ madeAt' = [madeAt EXCEPT ![c] = Len(temporalDeltas)]
         /\ UNCHANGED <<contStatus, commitStatus, temporalDeltas, born>>
    ELSE CreateCommitment(c, k, rev)

\* The vector index is called with the lock held, after the INSERT.  Its
\* errors are dropped; a panic in it poisons the mutex.
VectorUpsert(d, panics) == poisoned' = [poisoned EXCEPT ![d] = panics]

CreateContinuationHandler(r) ==
    /\ pc[r] = "idle"
    /\ CanLock(Home[r])
    /\ \E k \in ContId, s \in ContinuationStatus, panics \in Panics :
          /\ InsertContinuation(Home[r], k, s)
          /\ origin' = [origin EXCEPT ![k] = "create"]
          /\ VectorUpsert(Home[r], panics)
    /\ UNCHANGED <<pc, holder, obligation>>

\* commit_handler, first critical section: an active obligation.
CommitObligation(r) ==
    /\ pc[r] = "idle"
    /\ CanLock(Home[r])
    /\ \E k \in ContId, panics \in Panics :
          /\ InsertContinuation(Home[r], k, "active")
          /\ origin' = [origin EXCEPT ![k] = "commit"]
          /\ VectorUpsert(Home[r], panics)
          /\ pc' = [pc EXCEPT ![r] = IF panics THEN "idle" ELSE "linking"]
          /\ obligation' = [obligation EXCEPT ![r] = IF panics THEN {} ELSE {k}]
    /\ UNCHANGED holder

HandlerReturns(r) == /\ pc' = [pc EXCEPT ![r] = "idle"]
                     /\ obligation' = [obligation EXCEPT ![r] = {}]

\* Variant: the second section is retried after it succeeded.
CommitLinkAgain(r) ==
    /\ pc[r] = "linking"
    /\ CanLock(Home[r])
    /\ \E c \in CommitId, k \in obligation[r], rev \in BOOLEAN :
          InsertCommitment(Home[r], c, k, rev)
    /\ UNCHANGED apiVars

\* commit_handler, second critical section: the commitment.
CommitLink(r) ==
    /\ pc[r] = "linking"
    /\ CanLock(Home[r])
    /\ \E c \in CommitId, k \in obligation[r], rev \in BOOLEAN :
          InsertCommitment(Home[r], c, k, rev)
    /\ HandlerReturns(r)
    /\ UNCHANGED <<holder, origin, poisoned>>

\* The mutex is poisoned or the INSERT fails: 500, and the obligation stays.
CommitLinkFails(r) ==
    /\ pc[r] = "linking"
    /\ holder[Home[r]] = {}
    /\ HandlerReturns(r)
    /\ UNCHANGED <<storeVars, holder, origin, poisoned>>

AssimilateLock(r) ==
    /\ pc[r] = "idle"
    /\ CanLock(Home[r])
    /\ pc' = [pc EXCEPT ![r] = "holding"]
    /\ holder' = [holder EXCEPT ![Home[r]] = {r}]
    /\ UNCHANGED <<storeVars, obligation, origin, poisoned>>

\* Variant: the guard is dropped once the transaction is begun.
AssimilateBeginUnlocked(r) ==
    /\ pc[r] = "holding"
    /\ \E changes \in Inputs : BeginDelta(Home[r], changes)
    /\ pc' = [pc EXCEPT ![r] = "assimilating"]
    /\ holder' = [holder EXCEPT ![Home[r]] = {}]
    /\ UNCHANGED <<obligation, origin, poisoned>>

AssimilateBegin(r) ==
    /\ pc[r] = "holding"
    /\ \E changes \in Inputs : BeginDelta(Home[r], changes)
    /\ pc' = [pc EXCEPT ![r] = "assimilating"]
    /\ UNCHANGED <<holder, obligation, origin, poisoned>>

AssimilateReturns(r) == /\ HandlerReturns(r)
                        /\ holder' = [holder EXCEPT ![Home[r]] = {}]

\* No transaction is begun: duplicate targets, or another daemon keeps the
\* write lock longer than busy_timeout.
AssimilateRefused(r) ==
    /\ pc[r] = "holding"
    /\ AssimilateReturns(r)
    /\ UNCHANGED <<storeVars, origin, poisoned>>

AssimilateStep(r) ==
    /\ pc[r] = "assimilating"
    /\ TxStep
    /\ IF tx' = NoTx THEN AssimilateReturns(r) ELSE UNCHANGED <<pc, holder, obligation>>
    /\ UNCHANGED <<origin, poisoned>>

(***************************************************************************)
(* The process of daemon d dies and is started again: its requests are     *)
(* lost, SQLite rolls its open transaction back, its mutex is new.         *)
(***************************************************************************)
Crash(d) ==
    /\ \E r \in Request : Home[r] = d /\ pc[r] # "idle"
    /\ IF InTx(d) THEN RollbackDelta ELSE UNCHANGED storeVars
    /\ pc' = [r \in Request |-> IF Home[r] = d THEN "idle" ELSE pc[r]]
    /\ holder' = [holder EXCEPT ![d] = {}]
    /\ obligation' = [r \in Request |-> IF Home[r] = d THEN {} ELSE obligation[r]]
    /\ poisoned' = [poisoned EXCEPT ![d] = FALSE]
    /\ UNCHANGED origin

\* The same with no request in flight: only the poisoned mutex is forgotten.
Restart(d) ==
    /\ \A r \in Request : Home[r] = d => pc[r] = "idle"
    /\ poisoned[d]
    /\ poisoned' = [poisoned EXCEPT ![d] = FALSE]
    /\ UNCHANGED <<storeVars, pc, holder, obligation, origin>>

HandlerStep(r) == \/ CreateContinuationHandler(r)
                  \/ CommitObligation(r)
                  \/ CommitLink(r)
                  \/ CommitLinkFails(r)
                  \/ AssimilateLock(r)
                  \/ AssimilateBegin(r)
                  \/ AssimilateRefused(r)
                  \/ AssimilateStep(r)

KernelNext == \/ \E r \in Request : HandlerStep(r)
              \/ \E d \in Conn : Crash(d) \/ Restart(d)

KernelSpec == KernelInit /\ [][KernelNext]_kernelVars
-----------------------------------------------------------------------------
(***************************************************************************)
(* A row whose INSERT succeeded for its handler, so that the handler went  *)
(* on and answers 200, is in the tables for every daemon and stays there:  *)
(* it is in nobody else's transaction, so no rejected delta, no rollback   *)
(* and no crash within one takes it away, and no transaction publishes     *)
(* tables it read before the row was made.                                 *)
(***************************************************************************)
InsertedIsKept ==
    /\ \A k \in ContId : origin[k] # "none" => contStatus[k] # "none"
    /\ \A c \in CommitId : commitCont[c] # {} => commitStatus[c] # "none"

(***************************************************************************)
(* A commitment hangs on an obligation its own commit request created: no  *)
(* obligation carries two, whatever requests, crashes and retries          *)
(* interleave between the two critical sections of commit_handler.         *)
(***************************************************************************)
OneCommitmentPerObligation ==
    \A c, e \in CommitId : \A k \in commitCont[c] :
        /\ origin[k] = "commit"
        /\ k \in commitCont[e] => c = e

(***************************************************************************)
(* docs/api.md says of POST /v1/commit that it returns the obligation "and *)
(* also persists a linked structured commitment row".  So an obligation of *)
(* commit_handler has its commitment once the request is over.             *)
(***************************************************************************)
ObligationHasCommitment ==
    \A k \in ContId :
        /\ origin[k] = "commit"
        /\ \A r \in Request : k \notin obligation[r]
        => \E c \in CommitId : k \in commitCont[c]
=============================================================================
