--------------------------- MODULE TemporalStore ---------------------------
(***************************************************************************)
(* The continuation, commitment and delta tables of tfk-store and the      *)
(* operations that write them.  create_continuation and create_commitment  *)
(* are one INSERT each, which SQLite makes atomic.  assimilate_delta is a  *)
(* transaction of many statements: its steps are actions here, and between *)
(* them the reader still sees the tables as they were.  A connection that  *)
(* has executed the transaction's first INSERT holds SQLite's only write   *)
(* lock, so a write of any other connection waits (or fails, which changes *)
(* nothing) until the transaction is committed or rolled back.             *)
(***************************************************************************)
EXTENDS Naturals, Sequences

CONSTANTS ContId,     \* continuation ids
          CommitId,   \* commitment ids
          Conn,       \* connections to the database: one for each running daemon
          Inputs,     \* the change lists a caller may ask to assimilate
          MaxDeltas,  \* bound: rows temporal_deltas may hold
          NoTx        \* no transaction is open

ContinuationStatus == {"active", "stabilized", "deferred", "closed", "retired"}

ContinuationDelta == {"create", "activate", "advance", "stabilize", "defer",
                      "renegotiate", "repair", "verify", "close", "retire", "split"}

Change == [cont : ContId, delta : ContinuationDelta]

VARIABLES
    contStatus,     \* continuations.status, "none" for an id that has no row
    commitStatus,   \* commitments.status, "none" for an id that has no row
    commitCont,     \* commitments.continuation_id, a set: empty for no row
    revocable,      \* commitments.revocable
    temporalDeltas, \* temporal_deltas: the change lists, in the order they committed
    tx,             \* the open write transaction, with its private table contents
    born,           \* history: the status a continuation was inserted with
    madeAt          \* history: how many deltas preceded a commitment's INSERT

tables    == <<contStatus, commitStatus, commitCont, revocable, temporalDeltas>>
history   == <<born, madeAt>>
storeVars == <<tables, tx, history>>

Tx == [by : Conn, changes : Seq(Change), next : Nat,
       cont   : [ContId -> ContinuationStatus \cup {"none"}],
       commit : [CommitId -> {"none", "active", "closed", "retired"}]]

ASSUME StoreAssumption == /\ Inputs \subseteq Seq(Change)
                          /\ MaxDeltas \in Nat
                          /\ NoTx \notin Tx

TypeOK == /\ contStatus \in [ContId -> ContinuationStatus \cup {"none"}]
          /\ commitStatus \in [CommitId -> {"none", "active", "closed", "retired"}]
          /\ commitCont \in [CommitId -> SUBSET ContId]
          /\ revocable \in [CommitId -> BOOLEAN]
          /\ temporalDeltas \in Seq(Seq(Change))
          /\ tx \in Tx \cup {NoTx}
          /\ born \in [ContId -> ContinuationStatus \cup {"none"}]
          /\ madeAt \in [CommitId -> Nat]

StoreInit == /\ contStatus = [k \in ContId |-> "none"]
             /\ commitStatus = [c \in CommitId |-> "none"]
             /\ commitCont = [c \in CommitId |-> {}]
             /\ revocable = [c \in CommitId |-> TRUE]
             /\ temporalDeltas = <<>>
             /\ tx = NoTx
             /\ born = [k \in ContId |-> "none"]
             /\ madeAt = [c \in CommitId |-> 0]
-----------------------------------------------------------------------------
(***************************************************************************)
(* The status a delta gives its continuation.  Create and Split are        *)
(* recorded and change no status.                                          *)
(***************************************************************************)
StatusForDelta(d) ==
    CASE d \in {"activate", "advance", "repair", "verify", "renegotiate"} -> "active"
      [] d = "stabilize" -> "stabilized"
      [] d = "defer"     -> "deferred"
      [] d = "close"     -> "closed"
      [] d = "retire"    -> "retired"
      [] OTHER           -> "unchanged"

\* Variant: the loop treats a change without a status like any other.
EveryChangeSetsStatus(ch) == TRUE

SetsStatus(ch) == StatusForDelta(ch.delta) # "unchanged"

\* Variant: only a repeated change counts as a duplicate target.
NoRepeatedChange(changes) ==
    \A i, j \in DOMAIN changes : i # j => changes[i] # changes[j]

\* reject_duplicate_status_delta_targets lets the list through.
NoDuplicateStatusTargets(changes) ==
    \A i, j \in DOMAIN changes :
        (i # j /\ SetsStatus(changes[i]) /\ SetsStatus(changes[j]))
            => changes[i].cont # changes[j].cont

\* Variant: the query tests the flag the wrong way round.
RevocableRejected(k, commit) ==
    \E c \in CommitId : /\ k \in commitCont[c]
                        /\ commit[c] = "active"
                        /\ revocable[c]

\* reject_retire_with_nonrevocable_active_commitment answers an error: the
\* query runs inside the transaction, so it reads the statuses in commit.
RetireRejected(k, commit) ==
    \E c \in CommitId : /\ k \in commitCont[c]
                        /\ commit[c] = "active"
                        /\ ~revocable[c]

\* Variants: the UPDATE forgets AND status = 'active'; Retire is forgotten.
AfterLifecycleOfAll(ch, commit) ==
    [c \in CommitId |->
        IF ch.delta \in {"close", "retire"} /\ ch.cont \in commitCont[c]
        THEN StatusForDelta(ch.delta)
        ELSE commit[c]]

AfterLifecycleOfClose(ch, commit) ==
    [c \in CommitId |->
        IF ch.delta = "close" /\ ch.cont \in commitCont[c] /\ commit[c] = "active"
        THEN "closed"
        ELSE commit[c]]

\* apply_commitment_lifecycle_delta: the commitment statuses once ch is
\* applied.  Only Close and Retire touch the continuation's commitments, and
\* only those still active.
AfterLifecycle(ch, commit) ==
    [c \in CommitId |->
        IF /\ ch.delta \in {"close", "retire"}
           /\ ch.cont \in commitCont[c]
           /\ commit[c] = "active"
        THEN StatusForDelta(ch.delta)
        ELSE commit[c]]
-----------------------------------------------------------------------------
\* A fresh id (a v4 UUID) with any status the caller asks for.
CreateContinuation(k, s) ==
    /\ tx = NoTx
    /\ contStatus[k] = "none"
    /\ contStatus' = [contStatus EXCEPT ![k] = s]
    /\ born' = [born EXCEPT ![k] = s]
    /\ UNCHANGED <<commitStatus, commitCont, revocable, temporalDeltas, tx, madeAt>>

\* The foreign key wants the continuation to exist; its status is not read.
CreateCommitment(c, k, rev) ==
    /\ tx = NoTx
    /\ commitStatus[c] = "none"
    /\ contStatus[k] # "none"
    /\ commitStatus' = [commitStatus EXCEPT ![c] = "active"]
    /\ commitCont' = [commitCont EXCEPT ![c] = {k}]
    /\ revocable' = [revocable EXCEPT ![c] = rev]
    /\ madeAt' = [madeAt EXCEPT ![c] = Len(temporalDeltas)]
    /\ UNCHANGED <<contStatus, temporalDeltas, tx, born>>

(***************************************************************************)
(* assimilate_delta.  A list with duplicate targets is refused before the  *)
(* transaction.  Position 0 stands for the pre-check of all Retire changes *)
(* that follows the INSERT of the delta row; position i > 0 for the i-th   *)
(* turn of the loop.                                                       *)
(***************************************************************************)
BeginDelta(conn, changes) ==
    /\ tx = NoTx
    /\ Len(temporalDeltas) < MaxDeltas
    /\ NoDuplicateStatusTargets(changes)
    /\ tx' = [by |-> conn, changes |-> changes, next |-> 0,
              cont |-> contStatus, commit |-> commitStatus]
    /\ UNCHANGED <<tables, history>>

PreCheckRetires ==
    /\ tx # NoTx
    /\ tx.next = 0
    /\ \A i \in DOMAIN tx.changes :
           tx.changes[i].delta = "retire" => ~RetireRejected(tx.changes[i].cont, tx.commit)
    /\ tx' = [tx EXCEPT !.next = 1]
    /\ UNCHANGED <<tables, history>>

SkipChange ==
    /\ tx # NoTx
    /\ tx.next \in DOMAIN tx.changes
    /\ ~SetsStatus(tx.changes[tx.next])
    /\ tx' = [tx EXCEPT !.next = @ + 1]
    /\ UNCHANGED <<tables, history>>

\* UPDATE continuations must hit exactly one row; then the commitments follow.
ApplyChange ==
    /\ tx # NoTx
    /\ tx.next \in DOMAIN tx.changes
    /\ LET ch == tx.changes[tx.next] IN
       /\ SetsStatus(ch)
       /\ tx.cont[ch.cont] # "none"
       /\ ch.delta = "retire" => ~RetireRejected(ch.cont, tx.commit)
       /\ tx' = [tx EXCEPT !.next   = @ + 1,
                           !.cont   = [@ EXCEPT ![ch.cont] = StatusForDelta(ch.delta)],
                           !.commit = AfterLifecycle(ch, @)]
    /\ UNCHANGED <<tables, history>>

CommitDelta ==
    /\ tx # NoTx
    /\ tx.next = Len(tx.changes) + 1
    /\ contStatus' = tx.cont
    /\ commitStatus' = tx.commit
    /\ temporalDeltas' = Append(temporalDeltas, tx.changes)
    /\ tx' = NoTx
    /\ UNCHANGED <<commitCont, revocable, history>>

\* Variant: the error of the pre-check leaves the transaction open.
RollbackFromLoop ==
    /\ tx # NoTx
    /\ tx.next > 0
    /\ tx' = NoTx
    /\ UNCHANGED <<tables, history>>

\* The transaction is dropped: a change was rejected, SQLite failed, or the
\* process died.
RollbackDelta ==
    /\ tx # NoTx
    /\ tx' = NoTx
    /\ UNCHANGED <<tables, history>>

TxStep == PreCheckRetires \/ SkipChange \/ ApplyChange \/ CommitDelta \/ RollbackDelta

StoreNext ==
    \/ \E k \in ContId, s \in ContinuationStatus : CreateContinuation(k, s)
    \/ \E c \in CommitId, k \in ContId, rev \in BOOLEAN : CreateCommitment(c, k, rev)
    \/ \E conn \in Conn, changes \in Inputs : BeginDelta(conn, changes)
    \/ TxStep

StoreSpec == StoreInit /\ [][StoreNext]_storeVars
-----------------------------------------------------------------------------
\* list_active_commitments: both the commitment and its continuation are active.
ActiveCommitments ==
    {c \in CommitId : /\ commitStatus[c] = "active"
                      /\ \E k \in commitCont[c] : contStatus[k] = "active"}

(***************************************************************************)
(* Fairness: the thread that opened a transaction holds the mutex of its   *)
(* daemon and waits for nobody, so it goes on to commit or roll back.      *)
(***************************************************************************)
StoreFairSpec == StoreSpec /\ WF_storeVars(TxStep)
-----------------------------------------------------------------------------
\* What a row of temporal_deltas says it did to continuation k.
SetsTo(changes, k, s) ==
    \E i \in DOMAIN changes : /\ changes[i].cont = k
                              /\ StatusForDelta(changes[i].delta) = s
Sets(changes, k)     == \E s \in ContinuationStatus : SetsTo(changes, k, s)
Finishes(changes, k) == \E s \in {"closed", "retired"} : SetsTo(changes, k, s)

(***************************************************************************)
(* A commitment made non-revocable is never taken back: whatever deltas    *)
(* run, it is active or closed (assimilate_delta, the two Retire checks).  *)
(***************************************************************************)
NonRevocableKept ==
    \A c \in CommitId : ~revocable[c] => commitStatus[c] # "retired"

(***************************************************************************)
(* A continuation that becomes closed or retired takes its commitments     *)
(* with it: the step that makes it visible leaves none of them active      *)
(* (apply_commitment_lifecycle_delta in the same transaction).             *)
(***************************************************************************)
FinishSettlesCommitments ==
    [][\A k \in ContId :
          /\ contStatus[k] # contStatus'[k]
          /\ contStatus[k] # "none"
          /\ contStatus'[k] \in {"closed", "retired"}
          => \A c \in CommitId : k \in commitCont'[c] => commitStatus'[c] # "active"
      ]_storeVars

(***************************************************************************)
(* The delta log accounts for every status: a continuation has the status  *)
(* the last recorded delta about it gave, or the one it was created with.  *)
(* So no delta is half applied, lost, or applied without being recorded    *)
(* (the transaction of assimilate_delta and its rollback).                 *)
(***************************************************************************)
DeltasExplainContinuations ==
    \A k \in ContId : contStatus[k] # "none" =>
        \/ /\ contStatus[k] = born[k]
           /\ \A i \in DOMAIN temporalDeltas : ~Sets(temporalDeltas[i], k)
        \/ \E i \in DOMAIN temporalDeltas :
              /\ SetsTo(temporalDeltas[i], k, contStatus[k])
              /\ \A s \in ContinuationStatus \ {contStatus[k]} : ~SetsTo(temporalDeltas[i], k, s)
              /\ \A j \in DOMAIN temporalDeltas : j > i => ~Sets(temporalDeltas[j], k)

(***************************************************************************)
(* The log accounts for every commitment too: it is active exactly while   *)
(* no delta recorded since it was made finished its continuation, and it   *)
(* was settled the way the first such delta says.  Later deltas, a second  *)
(* Close or a reactivation, leave it alone.                                *)
(***************************************************************************)
Since(c) == {i \in DOMAIN temporalDeltas : i > madeAt[c]}

FinishedSince(c, i) == \E k \in commitCont[c] : Finishes(temporalDeltas[i], k)

DeltasExplainCommitments ==
    \A c \in CommitId :
        /\ commitStatus[c] = "active" => \A i \in Since(c) : ~FinishedSince(c, i)
        /\ commitStatus[c] \in {"closed", "retired"} =>
              \E i \in Since(c) :
                 /\ \E k \in commitCont[c] : SetsTo(temporalDeltas[i], k, commitStatus[c])
                 /\ \A j \in Since(c) : j < i => ~FinishedSince(c, j)

(***************************************************************************)
(* A transaction never stays open: every rejection and every error on the  *)
(* way out of assimilate_delta ends it, so the write lock is given back.   *)
(***************************************************************************)
TxEnds == (tx # NoTx) ~> (tx = NoTx)

(***************************************************************************)
(* The tables implement the promise ledger: every step of the store is a   *)
(* step of CommitmentLedger or changes no commitment.                      *)
(***************************************************************************)
Ledger == INSTANCE CommitmentLedger WITH
              Promise <- CommitId,
              promise <- commitStatus,
              binding <- [c \in CommitId |-> ~revocable[c]]

LedgerSpec == Ledger!LedgerSpec
=============================================================================
