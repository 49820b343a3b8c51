-------------------------- MODULE KernelApiProofs --------------------------
(***************************************************************************)
(* Theorems about TemporalStore and about KernelApi, which works on the    *)
(* store's tables, for any number of continuations, commitments,           *)
(* connections, requests and daemons, any set of change lists and any      *)
(* bound.  The store's tables alone are not inductive: a transaction       *)
(* carries a private copy that CommitDelta makes public, so TxInv says     *)
(* what that copy may differ in.  What the store guarantees carries over   *)
(* to the handlers because the mutex keeps each of their statements out of *)
(* the transactions of other requests (MutexInv, KernelImplementsStore);   *)
(* what they add rests on KernelInv.                                       *)
(***************************************************************************)
EXTENDS KernelApi, TLAPS

-----------------------------------------------------------------------------
(* The store.                                                              *)

\* The transaction may only have settled commitments that were active, may
\* have retired only revocable ones, and has settled all the commitments of
\* every continuation it finished.
TxInv ==
    tx # NoTx =>
        /\ \A c \in CommitId :
              \/ tx.commit[c] = commitStatus[c]
              \/ /\ commitStatus[c] = "active"
                 /\ \/ tx.commit[c] = "closed"
                    \/ tx.commit[c] = "retired" /\ revocable[c]
        /\ \A k \in ContId, c \in CommitId :
              (/\ tx.cont[k] # contStatus[k]
               /\ tx.cont[k] \in {"closed", "retired"}
               /\ k \in commitCont[c]) => tx.commit[c] # "active"

IInv == TypeOK /\ TxInv /\ NonRevocableKept
-----------------------------------------------------------------------------
\* StatusForDelta yields a status unless the change sets none, and a
\* commitment status for the two deltas that end a continuation.
LEMMA StatusForDeltaRange ==
    ASSUME NEW ch \in Change, SetsStatus(ch)
    PROVE  /\ StatusForDelta(ch.delta) \in ContinuationStatus
           /\ StatusForDelta(ch.delta) \in {"closed", "retired"}
                 <=> ch.delta \in {"close", "retire"}
           /\ ch.delta = "close" => StatusForDelta(ch.delta) = "closed"
           /\ ch.delta = "retire" => StatusForDelta(ch.delta) = "retired"
  BY DEF Change, SetsStatus, StatusForDelta, ContinuationStatus, ContinuationDelta

\* apply_commitment_lifecycle_delta touches only active commitments of the
\* continuation, and leaves none of them active when it ends.
LEMMA LifecycleEffect ==
    ASSUME TypeOK, NEW ch \in Change, SetsStatus(ch),
           NEW commit \in [CommitId -> {"none", "active", "closed", "retired"}]
    PROVE  /\ AfterLifecycle(ch, commit)
                 \in [CommitId -> {"none", "active", "closed", "retired"}]
           /\ \A c \in CommitId :
                 \/ AfterLifecycle(ch, commit)[c] = commit[c]
                 \/ /\ commit[c] = "active"
                    /\ ch.cont \in commitCont[c]
                    /\ \/ AfterLifecycle(ch, commit)[c] = "closed" /\ ch.delta = "close"
                       \/ AfterLifecycle(ch, commit)[c] = "retired" /\ ch.delta = "retire"
           /\ \A c \in CommitId :
                 (ch.delta \in {"close", "retire"} /\ ch.cont \in commitCont[c])
                    => AfterLifecycle(ch, commit)[c] # "active"
  BY StatusForDeltaRange DEF AfterLifecycle

LEMMA InitIInv == StoreInit => IInv
  BY DEF StoreInit, IInv, TypeOK, TxInv, NonRevocableKept

\* One turn of the loop that sets a status keeps the private copy typed and
\* explained.
LEMMA ApplyChangeIInv == IInv /\ ApplyChange => IInv'
<1> SUFFICES ASSUME IInv, ApplyChange PROVE IInv'
  OBVIOUS
<1> USE DEF IInv
<1> DEFINE ch == tx.changes[tx.next]
<1>1. /\ tx # NoTx /\ tx \in Tx
      /\ tx.next \in DOMAIN tx.changes
      /\ SetsStatus(ch)
      /\ ch.delta = "retire" => ~RetireRejected(ch.cont, tx.commit)
  BY DEF ApplyChange, TypeOK
<1>2. ch \in Change /\ tx.next \in Nat
  BY <1>1 DEF Tx
<1>3. /\ tx' = [tx EXCEPT !.next   = tx.next + 1,
                          !.cont   = [tx.cont EXCEPT ![ch.cont] = StatusForDelta(ch.delta)],
                          !.commit = AfterLifecycle(ch, tx.commit)]
      /\ UNCHANGED <<tables, history>>
  BY DEF ApplyChange
<1>4. tx.commit \in [CommitId -> {"none", "active", "closed", "retired"}]
  BY <1>1 DEF Tx
<1>5. ch.cont \in ContId
  BY <1>2 DEF Change
<1>6. /\ StatusForDelta(ch.delta) \in ContinuationStatus
      /\ StatusForDelta(ch.delta) \in {"closed", "retired"} <=> ch.delta \in {"close", "retire"}
  BY <1>1, <1>2, StatusForDeltaRange
<1> DEFINE after == AfterLifecycle(ch, tx.commit)
<1>7. /\ after \in [CommitId -> {"none", "active", "closed", "retired"}]
      /\ \A c \in CommitId :
            \/ after[c] = tx.commit[c]
            \/ /\ tx.commit[c] = "active"
               /\ ch.cont \in commitCont[c]
               /\ \/ after[c] = "closed" /\ ch.delta = "close"
                  \/ after[c] = "retired" /\ ch.delta = "retire"
      /\ \A c \in CommitId :
            (ch.delta \in {"close", "retire"} /\ ch.cont \in commitCont[c]) => after[c] # "active"
  BY <1>1, <1>2, <1>4, LifecycleEffect
<1> HIDE DEF ch, after
<1>8. tx' \in Tx
  <2>1. [tx.cont EXCEPT ![ch.cont] = StatusForDelta(ch.delta)]
            \in [ContId -> ContinuationStatus \cup {"none"}]
    BY <1>1, <1>6 DEF Tx
  <2>2. tx.next + 1 \in Nat
    BY <1>2
  <2>. QED
    BY <1>1, <1>3, <1>7, <2>1, <2>2 DEF Tx, after
<1>9. TypeOK'
  BY <1>3, <1>8 DEF TypeOK, tables, history
<1>10. tx'.commit = after /\ tx' # NoTx
  BY <1>1, <1>3, <1>8, StoreAssumption DEF Tx, after
<1>11. tx'.cont = [tx.cont EXCEPT ![ch.cont] = StatusForDelta(ch.delta)]
  BY <1>1, <1>3 DEF Tx
<1>12. \A c \in CommitId : ch.delta = "retire" /\ ch.cont \in commitCont[c] /\ tx.commit[c] = "active"
            => revocable[c]
  BY <1>1 DEF RetireRejected
<1>13. \A c \in CommitId :
          \/ after[c] = commitStatus[c]
          \/ /\ commitStatus[c] = "active"
             /\ \/ after[c] = "closed"
                \/ after[c] = "retired" /\ revocable[c]
  BY <1>1, <1>7, <1>12 DEF TxInv
<1>14. ASSUME NEW k \in ContId, NEW c \in CommitId,
              tx'.cont[k] # contStatus[k], tx'.cont[k] \in {"closed", "retired"},
              k \in commitCont[c]
       PROVE  after[c] # "active"
  <2>1. CASE k = ch.cont
    <3>1. tx'.cont[k] = StatusForDelta(ch.delta)
      BY <1>1, <1>5, <1>11, <2>1 DEF Tx
    <3>. QED
      BY <1>6, <1>7, <1>14, <2>1, <3>1
  <2>2. CASE k # ch.cont
    <3>1. tx'.cont[k] = tx.cont[k]
      BY <1>1, <1>11, <2>2 DEF Tx
    <3>2. tx.commit[c] # "active"
      BY <1>1, <1>14, <3>1 DEF TxInv
    <3>. QED
      BY <1>7, <3>2
  <2>. QED
    BY <2>1, <2>2
<1>15. TxInv'
  BY <1>3, <1>10, <1>13, <1>14 DEF TxInv, tables, history
<1>16. NonRevocableKept'
  BY <1>3 DEF NonRevocableKept, tables
<1>. QED
  BY <1>9, <1>15, <1>16

LEMMA StepIInv == IInv /\ [StoreNext]_storeVars => IInv'
<1> SUFFICES ASSUME IInv, [StoreNext]_storeVars PROVE IInv'
  OBVIOUS
<1> USE DEF IInv
<1>1. ASSUME NEW k \in ContId, NEW s \in ContinuationStatus, CreateContinuation(k, s)
      PROVE  IInv'
  BY <1>1 DEF CreateContinuation, TypeOK, TxInv, NonRevocableKept
<1>2. ASSUME NEW c \in CommitId, NEW k \in ContId, NEW rev \in BOOLEAN, CreateCommitment(c, k, rev)
      PROVE  IInv'
  <2>1. Len(temporalDeltas) \in Nat
    BY DEF TypeOK
  <2>2. TypeOK'
    BY <1>2, <2>1 DEF CreateCommitment, TypeOK
  <2>3. NonRevocableKept'
    BY <1>2 DEF CreateCommitment, TypeOK, NonRevocableKept
  <2>. QED
    BY <1>2, <2>2, <2>3 DEF CreateCommitment, TxInv
<1>3. ASSUME NEW conn \in Conn, NEW changes \in Inputs, BeginDelta(conn, changes)
      PROVE  IInv'
  <2>1. tx' \in Tx
    BY <1>3, StoreAssumption DEF BeginDelta, TypeOK, Tx
  <2>2. /\ tx'.commit = commitStatus
        /\ tx'.cont = contStatus
        /\ UNCHANGED <<tables, history>>
    BY <1>3 DEF BeginDelta
  <2>3. TypeOK'
    BY <2>1, <2>2 DEF TypeOK, tables, history
  <2>4. TxInv'
    BY <2>2 DEF TxInv, tables, history
  <2>. QED
    BY <2>2, <2>3, <2>4 DEF NonRevocableKept, tables
<1>4. CASE PreCheckRetires
  <2>1. tx \in Tx /\ tx' \in Tx /\ tx # NoTx
    BY <1>4 DEF PreCheckRetires, TypeOK, Tx
  <2>2. tx'.commit = tx.commit /\ tx'.cont = tx.cont /\ UNCHANGED <<tables, history>>
    BY <1>4, <2>1 DEF PreCheckRetires, Tx
  <2>. QED
    BY <2>1, <2>2 DEF TypeOK, TxInv, NonRevocableKept, tables, history
<1>5. CASE SkipChange
  <2> DEFINE n == tx.next + 1
  <2>0. tx \in Tx /\ tx # NoTx /\ tx' = [tx EXCEPT !.next = n]
    BY <1>5 DEF SkipChange, TypeOK
  <2>00. n \in Nat
    BY <2>0 DEF Tx
  <2> HIDE DEF n
  <2>1. tx \in Tx /\ tx' \in Tx /\ tx # NoTx
    BY <2>0, <2>00 DEF Tx
  <2>2. tx'.commit = tx.commit /\ tx'.cont = tx.cont /\ UNCHANGED <<tables, history>>
    BY <1>5, <2>0, <2>1 DEF SkipChange, Tx
  <2>. QED
    BY <2>1, <2>2 DEF TypeOK, TxInv, NonRevocableKept, tables, history
<1>6. CASE ApplyChange
  BY <1>6, ApplyChangeIInv
<1>7. CASE CommitDelta
  <2>1. tx \in Tx /\ tx # NoTx
    BY <1>7 DEF CommitDelta, TypeOK
  <2>2. TypeOK'
    BY <1>7, <2>1 DEF CommitDelta, TypeOK, Tx, history
  <2>3. NonRevocableKept'
    BY <1>7, <2>1 DEF CommitDelta, TxInv, NonRevocableKept
  <2>. QED
    BY <1>7, <2>2, <2>3 DEF CommitDelta, TxInv
<1>8. CASE RollbackDelta
  BY <1>8 DEF RollbackDelta, TypeOK, TxInv, NonRevocableKept, tables, history
<1>9. CASE UNCHANGED storeVars
  BY <1>9 DEF TypeOK, TxInv, NonRevocableKept, storeVars, tables, history
<1>. QED
  BY <1>1, <1>2, <1>3, <1>4, <1>5, <1>6, <1>7, <1>8, <1>9 DEF StoreNext, TxStep
-----------------------------------------------------------------------------
LEMMA Invariance == StoreSpec => []IInv
  BY InitIInv, StepIInv, PTL DEF StoreSpec

(***************************************************************************)
(* The tables and the transaction are always well typed.                   *)
(***************************************************************************)
THEOREM TypeCorrect == StoreSpec => []TypeOK
<1>1. IInv => TypeOK
  BY DEF IInv
<1>. QED
  BY <1>1, Invariance, PTL

(***************************************************************************)
(* No sequence of deltas ever retires a non-revocable commitment: the      *)
(* Retire checks of assimilate_delta suffice for every number of           *)
(* continuations, commitments and daemons.                                 *)
(***************************************************************************)
THEOREM NonRevocableIsKept == StoreSpec => []NonRevocableKept
<1>1. IInv => NonRevocableKept
  BY DEF IInv
<1>. QED
  BY <1>1, Invariance, PTL

(***************************************************************************)
(* A continuation that a delta closes or retires leaves no active          *)
(* commitment behind, in the very step that makes the delta visible.       *)
(***************************************************************************)
THEOREM FinishingSettles == StoreSpec => FinishSettlesCommitments
<1> DEFINE Settles ==
      \A k \in ContId :
          /\ contStatus[k] # contStatus'[k]
          /\ contStatus[k] # "none"
          /\ contStatus'[k] \in {"closed", "retired"}
          => \A c \in CommitId : k \in commitCont'[c] => commitStatus'[c] # "active"
<1>1. ASSUME IInv, [StoreNext]_storeVars PROVE [Settles]_storeVars
  <2>1. ASSUME NEW k \in ContId, NEW s \in ContinuationStatus, CreateContinuation(k, s)
        PROVE  Settles
    BY <1>1, <2>1 DEF CreateContinuation, IInv, TypeOK
  <2>2. ASSUME NEW c \in CommitId, NEW k \in ContId, NEW rev \in BOOLEAN,
               CreateCommitment(c, k, rev)
        PROVE  Settles
    BY <2>2 DEF CreateCommitment
  <2>3. ASSUME NEW conn \in Conn, NEW changes \in Inputs, BeginDelta(conn, changes)
        PROVE  Settles
    BY <2>3 DEF BeginDelta, tables
  <2>4. CASE PreCheckRetires \/ SkipChange \/ ApplyChange \/ RollbackDelta
    BY <2>4 DEF PreCheckRetires, SkipChange, ApplyChange, RollbackDelta, tables
  <2>5. CASE CommitDelta
    BY <1>1, <2>5 DEF CommitDelta, IInv, TxInv
  <2>6. CASE UNCHANGED storeVars
    BY <2>6
  <2> HIDE DEF Settles
  <2>. QED
    BY <1>1, <2>1, <2>2, <2>3, <2>4, <2>5, <2>6 DEF StoreNext, TxStep
<1>. QED
  BY <1>1, Invariance, PTL DEF StoreSpec, FinishSettlesCommitments

(***************************************************************************)
(* The store implements CommitmentLedger: promises are made once, settled  *)
(* at most once, by the steps that commit a delta, and a binding promise   *)
(* is never released.                                                      *)
(***************************************************************************)
THEOREM ImplementsLedger == StoreSpec => LedgerSpec
<1>1. StoreInit => Ledger!LedgerInit
  BY DEF StoreInit, Ledger!LedgerInit
<1>2. ASSUME IInv, [StoreNext]_storeVars
      PROVE  [Ledger!LedgerNext]_(Ledger!ledgerVars)
  <2> USE DEF IInv
  <2>1. ASSUME NEW k \in ContId, NEW s \in ContinuationStatus, CreateContinuation(k, s)
        PROVE  UNCHANGED Ledger!ledgerVars
    BY <2>1 DEF CreateContinuation, Ledger!ledgerVars
  <2>2. ASSUME NEW c \in CommitId, NEW k \in ContId, NEW rev \in BOOLEAN,
               CreateCommitment(c, k, rev)
        PROVE  Ledger!LedgerNext
    <3>1. Ledger!Make(c, ~rev)
      BY <1>2, <2>2 DEF CreateCommitment, Ledger!Make, TypeOK
    <3>. QED
      BY <3>1 DEF Ledger!LedgerNext
  <2>3. ASSUME NEW conn \in Conn, NEW changes \in Inputs, BeginDelta(conn, changes)
        PROVE  UNCHANGED Ledger!ledgerVars
    BY <2>3 DEF BeginDelta, tables, Ledger!ledgerVars
  <2>4. CASE PreCheckRetires \/ SkipChange \/ ApplyChange \/ RollbackDelta
    BY <2>4 DEF PreCheckRetires, SkipChange, ApplyChange, RollbackDelta, tables, Ledger!ledgerVars
  <2>5. CASE CommitDelta
    <3> DEFINE kept     == {c \in CommitId : commitStatus[c] = "active" /\ tx.commit[c] = "closed"}
               released == {c \in CommitId : commitStatus[c] = "active" /\ tx.commit[c] = "retired"}
    <3>1. commitStatus' = tx.commit /\ revocable' = revocable /\ tx \in Tx /\ tx # NoTx
      BY <1>2, <2>5 DEF CommitDelta, TypeOK
    <3>2. \A c \in released : revocable[c]
      BY <1>2, <3>1 DEF TxInv
    <3>3. commitStatus' = [c \in CommitId |-> CASE c \in kept     -> "closed"
                                                [] c \in released -> "retired"
                                                [] OTHER          -> commitStatus[c]]
      <4>1. \A c \in CommitId : tx.commit[c] = CASE c \in kept     -> "closed"
                                                 [] c \in released -> "retired"
                                                 [] OTHER          -> commitStatus[c]
        BY <1>2, <3>1 DEF TxInv
      <4>2. tx.commit = [c \in CommitId |-> tx.commit[c]]
        BY <3>1 DEF Tx
      <4>. QED
        BY <3>1, <4>1, <4>2
    <3>4. Ledger!Settle(kept, released)
      BY <3>1, <3>2, <3>3 DEF Ledger!Settle
    <3>5. kept \in SUBSET CommitId /\ released \in SUBSET CommitId
      OBVIOUS
    <3>. QED
      BY <3>4, <3>5 DEF Ledger!LedgerNext
  <2>6. CASE UNCHANGED storeVars
    BY <2>6 DEF storeVars, tables, history, Ledger!ledgerVars
  <2>. QED
    BY <1>2, <2>1, <2>2, <2>3, <2>4, <2>5, <2>6 DEF StoreNext, TxStep
<1>. QED
  BY <1>1, <1>2, Invariance, PTL DEF StoreSpec, LedgerSpec, Ledger!LedgerSpec
-----------------------------------------------------------------------------
(***************************************************************************)
(* What a transaction has done after next - 1 turns of its loop, and the   *)
(* facts about the log that a later delta must not disturb.                *)
(***************************************************************************)
Done(i) == i \in DOMAIN tx.changes /\ i < tx.next /\ SetsStatus(tx.changes[i])

TxFollowsChanges ==
    tx # NoTx =>
        /\ tx.next <= Len(tx.changes) + 1
        /\ NoDuplicateStatusTargets(tx.changes)
        /\ \A i \in Nat : Done(i) =>
              tx.cont[tx.changes[i].cont] = StatusForDelta(tx.changes[i].delta)
        /\ \A k \in ContId :
              (\A i \in Nat : Done(i) => tx.changes[i].cont # k) => tx.cont[k] = contStatus[k]
        /\ \A c \in CommitId, i \in Nat :
              (/\ Done(i)
               /\ tx.changes[i].delta \in {"close", "retire"}
               /\ tx.changes[i].cont \in commitCont[c]) => tx.commit[c] # "active"
        /\ \A c \in CommitId : tx.commit[c] # commitStatus[c] =>
              \E i \in Nat : /\ Done(i)
                             /\ tx.changes[i].cont \in commitCont[c]
                             /\ StatusForDelta(tx.changes[i].delta) = tx.commit[c]

LogBounds ==
    /\ \A c \in CommitId : madeAt[c] <= Len(temporalDeltas)
    /\ \A c \in CommitId : commitCont[c] # {} => commitStatus[c] # "none"
    /\ \A k \in ContId, i \in DOMAIN temporalDeltas :
          Sets(temporalDeltas[i], k) => contStatus[k] # "none"

LogInv == /\ IInv
          /\ TxFollowsChanges
          /\ LogBounds
          /\ DeltasExplainContinuations
          /\ DeltasExplainCommitments

LEMMA AppendFacts ==
    ASSUME NEW S, NEW s \in Seq(S), NEW e \in S
    PROVE  /\ Len(Append(s, e)) = Len(s) + 1
           /\ Len(s) \in Nat
           /\ DOMAIN s = 1 .. Len(s)
           /\ DOMAIN Append(s, e) = 1 .. (Len(s) + 1)
           /\ Append(s, e)[Len(s) + 1] = e
           /\ \A i \in DOMAIN s : Append(s, e)[i] = s[i]
  OBVIOUS

\* A delta that says which status it gives says so through a change that
\* sets one, and the two that finish a continuation are Close and Retire.
LEMMA SetsToFacts ==
    ASSUME NEW changes \in Seq(Change), NEW k, NEW s \in ContinuationStatus
    PROVE  /\ SetsTo(changes, k, s) <=>
                 \E i \in DOMAIN changes : /\ changes[i].cont = k
                                           /\ SetsStatus(changes[i])
                                           /\ StatusForDelta(changes[i].delta) = s
           /\ \A i \in DOMAIN changes :
                 StatusForDelta(changes[i].delta) \in {"closed", "retired"}
                    => changes[i].delta \in {"close", "retire"}
  BY DEF SetsTo, SetsStatus, StatusForDelta, ContinuationStatus, ContinuationDelta, Change

LEMMA InitLogInv == StoreInit => LogInv
<1> SUFFICES ASSUME StoreInit PROVE LogInv
  OBVIOUS
<1>1. IInv
  BY InitIInv
<1>2. DOMAIN temporalDeltas = {} /\ Len(temporalDeltas) = 0
  BY DEF StoreInit
<1>3. TxFollowsChanges /\ LogBounds
  BY <1>2 DEF StoreInit, TxFollowsChanges, LogBounds
<1>4. DeltasExplainContinuations /\ DeltasExplainCommitments
  BY DEF StoreInit, DeltasExplainContinuations, DeltasExplainCommitments
<1>. QED
  BY <1>1, <1>3, <1>4 DEF LogInv

\* Every step but the two INSERTs and the commit leaves the tables, hence
\* all the log says, alone.
LEMMA TablesKept ==
    ASSUME LogInv, UNCHANGED <<tables, history>>
    PROVE  LogBounds' /\ DeltasExplainContinuations' /\ DeltasExplainCommitments'
<1>1. LogBounds'
  BY DEF LogInv, LogBounds, tables, history
<1>2. DeltasExplainContinuations'
  BY DEF LogInv, DeltasExplainContinuations, tables, history
<1>3. DeltasExplainCommitments'
  BY DEF LogInv, DeltasExplainCommitments, Since, FinishedSince, tables, history
<1>. QED
  BY <1>1, <1>2, <1>3
LEMMA CreateContinuationLog ==
    ASSUME LogInv, NEW k \in ContId, NEW s \in ContinuationStatus, CreateContinuation(k, s)
    PROVE  TxFollowsChanges' /\ LogBounds' /\ DeltasExplainContinuations' /\ DeltasExplainCommitments'
<1> USE DEF LogInv
<1>1. TxFollowsChanges'
  BY DEF CreateContinuation, TxFollowsChanges
<1>2. /\ temporalDeltas' = temporalDeltas
      /\ contStatus' = [contStatus EXCEPT ![k] = s]
      /\ born' = [born EXCEPT ![k] = s]
      /\ UNCHANGED <<commitStatus, commitCont, madeAt>>
      /\ contStatus[k] = "none" /\ s # "none"
      /\ TypeOK
  BY DEF CreateContinuation, IInv, ContinuationStatus
<1>3. LogBounds'
  BY <1>2 DEF LogBounds, TypeOK
<1>4. \A i \in DOMAIN temporalDeltas : ~Sets(temporalDeltas[i], k)
  BY <1>2 DEF LogBounds
<1>5. DeltasExplainContinuations'
  BY <1>2, <1>4 DEF DeltasExplainContinuations, TypeOK
<1>6. DeltasExplainCommitments'
  BY <1>2 DEF DeltasExplainCommitments, Since, FinishedSince
<1>. QED
  BY <1>1, <1>3, <1>5, <1>6

LEMMA CreateCommitmentLog ==
    ASSUME LogInv, NEW c \in CommitId, NEW k \in ContId, NEW rev \in BOOLEAN,
           CreateCommitment(c, k, rev)
    PROVE  TxFollowsChanges' /\ LogBounds' /\ DeltasExplainContinuations' /\ DeltasExplainCommitments'
<1> USE DEF LogInv
<1>1. TxFollowsChanges'
  BY DEF CreateCommitment, TxFollowsChanges
<1>2. /\ temporalDeltas' = temporalDeltas
      /\ commitStatus' = [commitStatus EXCEPT ![c] = "active"]
      /\ commitCont' = [commitCont EXCEPT ![c] = {k}]
      /\ madeAt' = [madeAt EXCEPT ![c] = Len(temporalDeltas)]
      /\ UNCHANGED <<contStatus, born>>
      /\ TypeOK
  BY DEF CreateCommitment, IInv
<1>3. Len(temporalDeltas) \in Nat /\ DOMAIN temporalDeltas = 1 .. Len(temporalDeltas)
  BY <1>2 DEF TypeOK
<1>4. LogBounds'
  BY <1>2, <1>3 DEF LogBounds, TypeOK
<1>5. DeltasExplainContinuations'
  BY <1>2 DEF DeltasExplainContinuations
<1>6. Since(c)' = {}
  BY <1>2, <1>3 DEF Since, TypeOK
<1>7. ASSUME NEW e \in CommitId, e # c
      PROVE  /\ Since(e)' = Since(e)
             /\ \A i : FinishedSince(e, i)' <=> FinishedSince(e, i)
             /\ commitStatus'[e] = commitStatus[e] /\ commitCont'[e] = commitCont[e]
  BY <1>2, <1>7 DEF Since, FinishedSince, TypeOK
<1>8. DeltasExplainCommitments'
  <2>1. commitStatus'[c] = "active"
    BY <1>2 DEF TypeOK
  <2>. QED
    BY <1>2, <1>6, <1>7, <2>1 DEF DeltasExplainCommitments
<1>. QED
  BY <1>1, <1>4, <1>5, <1>8

LEMMA BeginDeltaLog ==
    ASSUME LogInv, NEW conn \in Conn, NEW changes \in Inputs, BeginDelta(conn, changes)
    PROVE  TxFollowsChanges'
<1>1. /\ tx'.next = 0 /\ tx'.changes = changes
      /\ tx'.cont = contStatus /\ tx'.commit = commitStatus
      /\ NoDuplicateStatusTargets(changes)
      /\ UNCHANGED <<contStatus, commitStatus, commitCont>>
  BY DEF BeginDelta, tables
<1>2. changes \in Seq(Change)
  BY StoreAssumption
<1>3. \A i \in Nat : ~Done(i)'
  BY <1>1, <1>2 DEF Done
<1>4. 0 <= Len(changes) + 1
  BY <1>2
<1>. QED
  BY <1>1, <1>3, <1>4 DEF TxFollowsChanges

LEMMA PreCheckLog ==
    ASSUME LogInv, PreCheckRetires
    PROVE  TxFollowsChanges'
<1>1. /\ tx \in Tx /\ tx # NoTx /\ tx.next = 0
      /\ tx' = [tx EXCEPT !.next = 1]
      /\ UNCHANGED <<tables, history>>
  BY DEF PreCheckRetires, LogInv, IInv, TypeOK
<1>2. tx'.next = 1 /\ tx'.changes = tx.changes /\ tx'.cont = tx.cont /\ tx'.commit = tx.commit
  BY <1>1 DEF Tx
<1>3. tx.changes \in Seq(Change)
  BY <1>1 DEF Tx
<1>4. \A i \in Nat : ~Done(i) /\ ~Done(i)'
  BY <1>1, <1>2, <1>3 DEF Done
<1>5. tx'.next <= Len(tx'.changes) + 1
  BY <1>2, <1>3
<1>6. UNCHANGED <<contStatus, commitStatus, commitCont>>
  BY <1>1 DEF tables
<1>. QED
  BY <1>1, <1>2, <1>4, <1>5, <1>6 DEF TxFollowsChanges, LogInv

LEMMA SkipChangeLog ==
    ASSUME LogInv, SkipChange
    PROVE  TxFollowsChanges'
<1> DEFINE n == tx.next + 1
<1>1. /\ tx \in Tx /\ tx # NoTx
      /\ tx.next \in DOMAIN tx.changes /\ ~SetsStatus(tx.changes[tx.next])
      /\ tx' = [tx EXCEPT !.next = n]
      /\ UNCHANGED <<tables, history>>
  BY DEF SkipChange, LogInv, IInv, TypeOK
<1>2. tx'.next = n /\ tx'.changes = tx.changes /\ tx'.cont = tx.cont /\ tx'.commit = tx.commit
  BY <1>1 DEF Tx
<1>3. tx.changes \in Seq(Change) /\ tx.next \in Nat
  BY <1>1 DEF Tx
<1>4. \A i \in Nat : Done(i)' <=> Done(i)
  BY <1>1, <1>2, <1>3 DEF Done
<1>5. tx'.next <= Len(tx'.changes) + 1
  BY <1>1, <1>2, <1>3
<1>6. UNCHANGED <<contStatus, commitStatus, commitCont>>
  BY <1>1 DEF tables
<1>. QED
  BY <1>1, <1>2, <1>4, <1>5, <1>6 DEF TxFollowsChanges, LogInv
LEMMA ApplyChangeLog ==
    ASSUME LogInv, ApplyChange
    PROVE  TxFollowsChanges'
<1> DEFINE m  == tx.next
           ch == tx.changes[m]
           n  == m + 1
<1>1. /\ tx \in Tx /\ tx # NoTx
      /\ m \in DOMAIN tx.changes /\ SetsStatus(ch)
      /\ tx' = [tx EXCEPT !.next = n,
                          !.cont = [tx.cont EXCEPT ![ch.cont] = StatusForDelta(ch.delta)],
                          !.commit = AfterLifecycle(ch, tx.commit)]
      /\ UNCHANGED <<tables, history>>
      /\ TypeOK
  BY DEF ApplyChange, LogInv, IInv, TypeOK
<1>2. /\ tx.changes \in Seq(Change) /\ m \in Nat /\ ch \in Change
      /\ tx.cont \in [ContId -> ContinuationStatus \cup {"none"}]
      /\ tx.commit \in [CommitId -> {"none", "active", "closed", "retired"}]
  BY <1>1 DEF Tx
<1>3. /\ tx'.next = n /\ tx'.changes = tx.changes
      /\ tx'.cont = [tx.cont EXCEPT ![ch.cont] = StatusForDelta(ch.delta)]
      /\ tx'.commit = AfterLifecycle(ch, tx.commit)
  BY <1>1 DEF Tx
<1>4. ch.cont \in ContId
  BY <1>2 DEF Change
<1>5. UNCHANGED <<contStatus, commitStatus, commitCont>>
  BY <1>1 DEF tables
<1>6. /\ ch.delta = "close" => StatusForDelta(ch.delta) = "closed"
      /\ ch.delta = "retire" => StatusForDelta(ch.delta) = "retired"
  BY <1>1, <1>2, StatusForDeltaRange
<1> DEFINE after == AfterLifecycle(ch, tx.commit)
<1>7. /\ \A c \in CommitId :
            \/ after[c] = tx.commit[c]
            \/ /\ tx.commit[c] = "active"
               /\ ch.cont \in commitCont[c]
               /\ after[c] # "active"
               /\ after[c] = StatusForDelta(ch.delta)
      /\ \A c \in CommitId :
            (ch.delta \in {"close", "retire"} /\ ch.cont \in commitCont[c]) => after[c] # "active"
  BY <1>1, <1>2, <1>6, LifecycleEffect
<1>8. \A i \in Nat : Done(i)' <=> Done(i) \/ i = m
  BY <1>1, <1>2, <1>3 DEF Done
<1> HIDE DEF ch, n, after
<1>9. \A i \in Nat : Done(i) => i # m /\ tx.changes[i].cont # ch.cont
  BY <1>1, <1>2 DEF Done, LogInv, TxFollowsChanges, NoDuplicateStatusTargets, ch
<1>10. tx'.next <= Len(tx'.changes) + 1 /\ NoDuplicateStatusTargets(tx'.changes)
  BY <1>1, <1>2, <1>3 DEF n, LogInv, TxFollowsChanges
<1>11. ASSUME NEW i \in Nat, Done(i)'
       PROVE  tx'.cont[tx.changes[i].cont] = StatusForDelta(tx.changes[i].delta)
  <2>1. CASE i = m
    BY <1>2, <1>3, <1>4, <2>1 DEF ch
  <2>2. CASE Done(i)
    <3>1. tx.cont[tx.changes[i].cont] = StatusForDelta(tx.changes[i].delta)
      BY <1>1, <2>2 DEF LogInv, TxFollowsChanges
    <3>2. tx.changes[i] \in Change
      BY <1>2, <2>2 DEF Done
    <3>3. tx.changes[i].cont \in ContId
      BY <3>2 DEF Change
    <3>. QED
      BY <1>2, <1>3, <1>9, <2>2, <3>1, <3>3
  <2>. QED
    BY <1>8, <1>11, <2>1, <2>2
<1>12. ASSUME NEW k \in ContId, \A i \in Nat : Done(i)' => tx.changes[i].cont # k
       PROVE  tx'.cont[k] = contStatus[k]
  <2>1. k # ch.cont
    BY <1>2, <1>8, <1>12 DEF ch
  <2>2. tx'.cont[k] = tx.cont[k]
    BY <1>2, <1>3, <2>1
  <2>. QED
    BY <1>1, <1>8, <1>12, <2>2 DEF LogInv, TxFollowsChanges
<1>13. ASSUME NEW c \in CommitId, NEW i \in Nat, Done(i)',
              tx.changes[i].delta \in {"close", "retire"},
              tx.changes[i].cont \in commitCont[c]
       PROVE  after[c] # "active"
  <2>1. CASE i = m
    BY <1>7, <1>13, <2>1 DEF ch
  <2>2. CASE Done(i)
    <3>1. tx.commit[c] # "active"
      BY <1>1, <1>13, <2>2 DEF LogInv, TxFollowsChanges
    <3>. QED
      BY <1>7, <3>1
  <2>. QED
    BY <1>8, <1>13, <2>1, <2>2
<1>14. ASSUME NEW c \in CommitId, after[c] # commitStatus[c]
       PROVE  \E i \in Nat : /\ Done(i)'
                             /\ tx.changes[i].cont \in commitCont[c]
                             /\ StatusForDelta(tx.changes[i].delta) = after[c]
  <2>1. CASE after[c] = tx.commit[c]
    <3>1. PICK i \in Nat : /\ Done(i)
                           /\ tx.changes[i].cont \in commitCont[c]
                           /\ StatusForDelta(tx.changes[i].delta) = tx.commit[c]
      BY <1>1, <1>14, <2>1 DEF LogInv, TxFollowsChanges
    <3>. QED
      BY <1>8, <2>1, <3>1
  <2>2. CASE after[c] # tx.commit[c]
    <3>1. PICK p \in Nat : p = m
      BY <1>2
    <3>2. Done(p)' /\ tx.changes[p].cont \in commitCont[c]
      BY <1>7, <1>8, <2>2, <3>1 DEF ch
    <3>3. StatusForDelta(tx.changes[p].delta) = after[c]
      BY <1>7, <2>2, <3>1 DEF ch
    <3>. QED
      BY <3>2, <3>3
  <2>. QED
    BY <2>1, <2>2
<1>15. tx'.commit = after
  BY <1>3 DEF after
<1>. QED
  BY <1>3, <1>5, <1>10, <1>11, <1>12, <1>13, <1>14, <1>15 DEF TxFollowsChanges

LEMMA CommitDeltaLog ==
    ASSUME LogInv, CommitDelta
    PROVE  TxFollowsChanges' /\ LogBounds' /\ DeltasExplainContinuations' /\ DeltasExplainCommitments'
<1> DEFINE changes == tx.changes
<1>0. PICK last \in Nat : last = Len(temporalDeltas) + 1
  BY DEF LogInv, IInv, TypeOK
<1>1. /\ tx \in Tx /\ tx # NoTx /\ TypeOK
      /\ tx.next = Len(changes) + 1
      /\ contStatus' = tx.cont /\ commitStatus' = tx.commit
      /\ temporalDeltas' = Append(temporalDeltas, changes)
      /\ tx' = NoTx
      /\ commitCont' = commitCont /\ madeAt' = madeAt /\ born' = born
  BY DEF CommitDelta, LogInv, IInv, TypeOK, history
<1>2. /\ changes \in Seq(Change)
      /\ tx.cont \in [ContId -> ContinuationStatus \cup {"none"}]
      /\ tx.commit \in [CommitId -> {"none", "active", "closed", "retired"}]
  BY <1>1 DEF Tx
<1>3. /\ Len(temporalDeltas') = last
      /\ Len(temporalDeltas) \in Nat
      /\ DOMAIN temporalDeltas = 1 .. Len(temporalDeltas)
      /\ DOMAIN temporalDeltas' = 1 .. last
      /\ temporalDeltas'[last] = changes
      /\ \A i \in DOMAIN temporalDeltas : temporalDeltas'[i] = temporalDeltas[i]
  BY <1>0, <1>1, <1>2, AppendFacts DEF TypeOK
\* The loop is over, so every change that sets a status has been applied.
<1>4. \A i : i \in Nat /\ Done(i) <=> i \in DOMAIN changes /\ SetsStatus(changes[i])
  BY <1>1, <1>2 DEF Done
<1>5. /\ \A i \in DOMAIN changes : SetsStatus(changes[i]) =>
            tx.cont[changes[i].cont] = StatusForDelta(changes[i].delta)
      /\ \A k \in ContId :
            (\A i \in DOMAIN changes : SetsStatus(changes[i]) => changes[i].cont # k)
                => tx.cont[k] = contStatus[k]
      /\ \A c \in CommitId, i \in DOMAIN changes :
            (/\ SetsStatus(changes[i])
             /\ changes[i].delta \in {"close", "retire"}
             /\ changes[i].cont \in commitCont[c]) => tx.commit[c] # "active"
      /\ \A c \in CommitId : tx.commit[c] # commitStatus[c] =>
            \E i \in DOMAIN changes : /\ SetsStatus(changes[i])
                                      /\ changes[i].cont \in commitCont[c]
                                      /\ StatusForDelta(changes[i].delta) = tx.commit[c]
  BY <1>1, <1>4 DEF LogInv, TxFollowsChanges
<1> HIDE DEF changes
<1>6. \A k \in ContId, s \in ContinuationStatus : SetsTo(changes, k, s) =>
          tx.cont[k] = s
  BY <1>2, <1>5, SetsToFacts
<1>7. \A k \in ContId : (~Sets(changes, k)) => tx.cont[k] = contStatus[k]
  <2>1. \A i \in DOMAIN changes : SetsStatus(changes[i]) =>
            StatusForDelta(changes[i].delta) \in ContinuationStatus
    BY <1>2, StatusForDeltaRange
  <2>. QED
    BY <1>2, <1>5, <2>1 DEF Sets, SetsTo
<1>8. \A k \in ContId : Sets(changes, k) => tx.cont[k] # "none"
  BY <1>6 DEF Sets, ContinuationStatus
<1>9. TxFollowsChanges'
  BY <1>1 DEF TxFollowsChanges
<1>10. \A c \in CommitId : tx.commit[c] = "none" => commitStatus[c] = "none"
  BY <1>1 DEF LogInv, IInv, TxInv
<1>11. LogBounds'
  <2>1. \A c \in CommitId : madeAt'[c] <= Len(temporalDeltas')
    BY <1>0, <1>1, <1>3 DEF LogInv, LogBounds, TypeOK
  <2>2. \A c \in CommitId : commitCont'[c] # {} => commitStatus'[c] # "none"
    BY <1>1, <1>10 DEF LogInv, LogBounds
  <2>3. ASSUME NEW k \in ContId, NEW i \in DOMAIN temporalDeltas', Sets(temporalDeltas'[i], k)
        PROVE  contStatus'[k] # "none"
    <3>1. CASE i \in DOMAIN temporalDeltas
      <4>1. contStatus[k] # "none"
        BY <1>3, <2>3, <3>1 DEF LogInv, LogBounds
      <4>. QED
        BY <1>1, <1>7, <1>8, <4>1
    <3>2. CASE i = last
      BY <1>1, <1>3, <1>8, <2>3, <3>2
    <3>. QED
      BY <1>0, <1>3, <3>1, <3>2
  <2>. QED
    BY <2>1, <2>2, <2>3 DEF LogBounds
<1>12. ASSUME NEW k \in ContId, contStatus'[k] # "none"
       PROVE  \/ /\ contStatus'[k] = born'[k]
                 /\ \A i \in DOMAIN temporalDeltas' : ~Sets(temporalDeltas'[i], k)
              \/ \E i \in DOMAIN temporalDeltas' :
                    /\ SetsTo(temporalDeltas'[i], k, contStatus'[k])
                    /\ \A s \in ContinuationStatus \ {contStatus'[k]} :
                          ~SetsTo(temporalDeltas'[i], k, s)
                    /\ \A j \in DOMAIN temporalDeltas' : j > i => ~Sets(temporalDeltas'[j], k)
  <2>1. CASE Sets(changes, k)
    <3>1. SetsTo(changes, k, tx.cont[k])
      BY <1>6, <2>1 DEF Sets
    <3>2. \A s \in ContinuationStatus \ {tx.cont[k]} : ~SetsTo(changes, k, s)
      BY <1>6
    <3>3. last \in DOMAIN temporalDeltas' /\ \A j \in DOMAIN temporalDeltas' : ~(j > last)
      BY <1>0, <1>3
    <3>. QED
      BY <1>1, <1>3, <3>1, <3>2, <3>3
  <2>2. CASE ~Sets(changes, k)
    <3>1. contStatus'[k] = contStatus[k]
      BY <1>1, <1>7, <2>2
    <3>2. \A i \in DOMAIN temporalDeltas' : i \in DOMAIN temporalDeltas \/ i = last
      BY <1>0, <1>3
    <3>3. DOMAIN temporalDeltas \subseteq DOMAIN temporalDeltas'
      BY <1>0, <1>3
    <3>4. \/ /\ contStatus[k] = born[k]
             /\ \A i \in DOMAIN temporalDeltas : ~Sets(temporalDeltas[i], k)
          \/ \E i \in DOMAIN temporalDeltas :
                /\ SetsTo(temporalDeltas[i], k, contStatus[k])
                /\ \A s \in ContinuationStatus \ {contStatus[k]} : ~SetsTo(temporalDeltas[i], k, s)
                /\ \A j \in DOMAIN temporalDeltas : j > i => ~Sets(temporalDeltas[j], k)
      BY <1>12, <3>1 DEF LogInv, DeltasExplainContinuations
    <3>. QED
      BY <1>1, <1>3, <2>2, <3>1, <3>2, <3>3, <3>4
  <2>. QED
    BY <2>1, <2>2
<1>13. DeltasExplainContinuations'
  BY <1>12 DEF DeltasExplainContinuations
<1>14. DeltasExplainCommitments'
  <2>1. \A c \in CommitId : /\ Since(c)' = Since(c) \cup {last}
                            /\ last \notin Since(c)
                            /\ \A i \in Since(c) : i \in DOMAIN temporalDeltas /\ i < last
    <3>1. \A c \in CommitId : madeAt[c] \in Nat /\ madeAt[c] <= Len(temporalDeltas)
      BY <1>1 DEF LogInv, LogBounds, TypeOK
    <3>. QED
      BY <1>0, <1>1, <1>3, <3>1 DEF Since
  <2>2. \A c \in CommitId : /\ \A i \in Since(c) : FinishedSince(c, i)' <=> FinishedSince(c, i)
                            /\ FinishedSince(c, last)' <=>
                                  \E k \in commitCont[c] : Finishes(changes, k)
    BY <1>1, <1>3, <2>1 DEF FinishedSince
  <2>3. ASSUME NEW c \in CommitId, commitStatus'[c] = "active"
        PROVE  \A i \in Since(c)' : ~FinishedSince(c, i)'
    <3>1. commitStatus[c] = "active"
      BY <1>1, <2>3 DEF LogInv, IInv, TxInv
    <3>2. ~\E k \in commitCont[c] : Finishes(changes, k)
      BY <1>1, <1>2, <1>5, <2>3, SetsToFacts DEF Finishes, ContinuationStatus
    <3>. QED
      BY <2>1, <2>2, <3>1, <3>2 DEF LogInv, DeltasExplainCommitments
  <2>4. ASSUME NEW c \in CommitId, commitStatus'[c] \in {"closed", "retired"}
        PROVE  \E i \in Since(c)' :
                  /\ \E k \in commitCont'[c] : SetsTo(temporalDeltas'[i], k, commitStatus'[c])
                  /\ \A j \in Since(c)' : j < i => ~FinishedSince(c, j)'
    <3>1. CASE tx.commit[c] = commitStatus[c]
      <4>1. PICK i \in Since(c) :
               /\ \E k \in commitCont[c] : SetsTo(temporalDeltas[i], k, commitStatus[c])
               /\ \A j \in Since(c) : j < i => ~FinishedSince(c, j)
        BY <1>1, <2>4, <3>1 DEF LogInv, DeltasExplainCommitments
      <4>2. \A j \in Since(c)' : j < i => j \in Since(c)
        BY <1>0, <1>3, <2>1
      <4>. QED
        BY <1>1, <1>3, <2>1, <2>2, <3>1, <4>1, <4>2
    <3>2. CASE tx.commit[c] # commitStatus[c]
      <4>1. commitStatus[c] = "active"
        BY <1>1, <3>2 DEF LogInv, IInv, TxInv
      <4>2. \A j \in Since(c) : ~FinishedSince(c, j)
        BY <4>1 DEF LogInv, DeltasExplainCommitments
      <4>3. \E k \in commitCont[c] : SetsTo(changes, k, tx.commit[c])
        BY <1>5, <3>2 DEF SetsTo
      <4>4. last \in Since(c)' /\ \A j \in Since(c)' : j < last => j \in Since(c)
        BY <1>0, <1>3, <2>1
      <4>. QED
        BY <1>1, <1>3, <2>2, <4>2, <4>3, <4>4
    <3>. QED
      BY <3>1, <3>2
  <2>. QED
    BY <2>3, <2>4 DEF DeltasExplainCommitments
<1>. QED
  BY <1>9, <1>11, <1>13, <1>14
LEMMA StepLogInv == LogInv /\ [StoreNext]_storeVars => LogInv'
<1> SUFFICES ASSUME LogInv, [StoreNext]_storeVars PROVE LogInv'
  OBVIOUS
<1>1. IInv'
  BY StepIInv DEF LogInv
<1>2. ASSUME NEW k \in ContId, NEW s \in ContinuationStatus, CreateContinuation(k, s)
      PROVE  LogInv'
  BY <1>1, <1>2, CreateContinuationLog DEF LogInv
<1>3. ASSUME NEW c \in CommitId, NEW k \in ContId, NEW rev \in BOOLEAN, CreateCommitment(c, k, rev)
      PROVE  LogInv'
  BY <1>1, <1>3, CreateCommitmentLog DEF LogInv
<1>4. ASSUME NEW conn \in Conn, NEW changes \in Inputs, BeginDelta(conn, changes)
      PROVE  LogInv'
  BY <1>1, <1>4, BeginDeltaLog, TablesKept DEF LogInv, BeginDelta
<1>5. CASE PreCheckRetires
  BY <1>1, <1>5, PreCheckLog, TablesKept DEF LogInv, PreCheckRetires
<1>6. CASE SkipChange
  BY <1>1, <1>6, SkipChangeLog, TablesKept DEF LogInv, SkipChange
<1>7. CASE ApplyChange
  BY <1>1, <1>7, ApplyChangeLog, TablesKept DEF LogInv, ApplyChange
<1>8. CASE CommitDelta
  BY <1>1, <1>8, CommitDeltaLog DEF LogInv
<1>9. CASE RollbackDelta
  <2>1. TxFollowsChanges'
    BY <1>9 DEF RollbackDelta, TxFollowsChanges
  <2>. QED
    BY <1>1, <1>9, <2>1, TablesKept DEF LogInv, RollbackDelta
<1>10. CASE UNCHANGED storeVars
  <2>1. TxFollowsChanges'
    BY <1>10 DEF LogInv, TxFollowsChanges, Done, storeVars, tables
  <2>. QED
    BY <1>1, <1>10, <2>1, TablesKept DEF LogInv, storeVars
<1>. QED
  BY <1>2, <1>3, <1>4, <1>5, <1>6, <1>7, <1>8, <1>9, <1>10 DEF StoreNext, TxStep

LEMMA LogInvariance == StoreSpec => []LogInv
  BY InitLogInv, StepLogInv, PTL DEF StoreSpec

(***************************************************************************)
(* The rows of temporal_deltas account for the status of every             *)
(* continuation: assimilate_delta applies a delta whole or not at all.     *)
(***************************************************************************)
THEOREM ContinuationsExplained == StoreSpec => []DeltasExplainContinuations
<1>1. LogInv => DeltasExplainContinuations
  BY DEF LogInv
<1>. QED
  BY <1>1, LogInvariance, PTL

(***************************************************************************)
(* They account for the status of every commitment: the first Close or     *)
(* Retire of its continuation recorded after it was made, and no other     *)
(* delta, settles it.                                                      *)
(***************************************************************************)
THEOREM CommitmentsExplained == StoreSpec => []DeltasExplainCommitments
<1>1. LogInv => DeltasExplainCommitments
  BY DEF LogInv
<1>. QED
  BY <1>1, LogInvariance, PTL

-----------------------------------------------------------------------------
(* The handlers.                                                           *)

\* A request that assimilates has the guard of its daemon's mutex, and an open
\* transaction is its own.
MutexInv ==
    /\ \A r \in Request : pc[r] \in {"holding", "assimilating"} => holder[Home[r]] = {r}
    /\ \A r \in Request : pc[r] = "assimilating" => InTx(Home[r])
    /\ tx # NoTx => \E r \in Request : pc[r] = "assimilating" /\ Home[r] = tx.by

\* The continuation a request holds between its two critical sections is an
\* existing obligation without a commitment that no other request holds.
ObligationsHeld ==
    \A r \in Request : \A k \in obligation[r] :
        /\ origin[k] = "commit"
        /\ contStatus[k] # "none"
        /\ \A c \in CommitId : k \notin commitCont[c]
        /\ \A q \in Request : k \in obligation[q] => q = r

CommitmentsLinked ==
    \A c \in CommitId : \A k \in commitCont[c] : contStatus[k] # "none"

KernelInv == /\ LogInv
             /\ ApiTypeOK
             /\ MutexInv
             /\ InsertedIsKept
             /\ ObligationsHeld
             /\ CommitmentsLinked
             /\ OneCommitmentPerObligation
-----------------------------------------------------------------------------
\* Who can take the mutex is in no transaction, nor is anyone else of the
\* daemon: its INSERT is one of the store's own.
LEMMA InsertsAlone ==
    ASSUME MutexInv, ApiTypeOK, NEW r \in Request, CanLock(Home[r])
    PROVE  /\ ~InTx(Home[r])
           /\ \A k \in ContId, s \in ContinuationStatus :
                 InsertContinuation(Home[r], k, s) <=> CreateContinuation(k, s)
           /\ \A c \in CommitId, k \in ContId, rev \in BOOLEAN :
                 InsertCommitment(Home[r], c, k, rev) <=> CreateCommitment(c, k, rev)
<1>1. ~InTx(Home[r])
  BY DEF MutexInv, CanLock, InTx
<1>. QED
  BY <1>1 DEF InsertContinuation, InsertCommitment

LEMMA CreateHandlerCreates ==
    ASSUME MutexInv, ApiTypeOK, NEW r \in Request, CreateContinuationHandler(r)
    PROVE  /\ UNCHANGED <<pc, holder, obligation>>
           /\ \E k \in ContId, s \in ContinuationStatus :
                 CreateContinuation(k, s) /\ origin' = [origin EXCEPT ![k] = "create"]
  BY InsertsAlone DEF CreateContinuationHandler

LEMMA CommitObligationCreates ==
    ASSUME MutexInv, ApiTypeOK, NEW r \in Request, CommitObligation(r)
    PROVE  /\ UNCHANGED holder
           /\ \E k \in ContId :
                 /\ CreateContinuation(k, "active")
                 /\ origin' = [origin EXCEPT ![k] = "commit"]
                 /\ \/ /\ pc' = [pc EXCEPT ![r] = "idle"]
                       /\ obligation' = [obligation EXCEPT ![r] = {}]
                    \/ /\ pc' = [pc EXCEPT ![r] = "linking"]
                       /\ obligation' = [obligation EXCEPT ![r] = {k}]
<1>1. "active" \in ContinuationStatus
  BY DEF ContinuationStatus
<1>. QED
  BY <1>1, InsertsAlone DEF CommitObligation

LEMMA CommitLinkCreates ==
    ASSUME MutexInv, ApiTypeOK, NEW r \in Request, CommitLink(r)
    PROVE  \E c \in CommitId, k \in obligation[r], rev \in BOOLEAN :
              k \in ContId /\ CreateCommitment(c, k, rev)
<1>1. obligation[r] \subseteq ContId
  BY DEF ApiTypeOK
<1>. QED
  BY <1>1, InsertsAlone DEF CommitLink

LEMMA KernelStepIsStoreStep ==
    ASSUME ApiTypeOK, MutexInv, [KernelNext]_kernelVars
    PROVE  [StoreNext]_storeVars
<1>1. ASSUME NEW r \in Request, CreateContinuationHandler(r) PROVE StoreNext
  BY <1>1, CreateHandlerCreates DEF StoreNext
<1>2. ASSUME NEW r \in Request, CommitObligation(r) PROVE StoreNext
  BY <1>2, CommitObligationCreates DEF StoreNext, ContinuationStatus
<1>3. ASSUME NEW r \in Request, CommitLink(r) PROVE StoreNext
  BY <1>3, CommitLinkCreates DEF StoreNext
<1>4. ASSUME NEW r \in Request,
             CommitLinkFails(r) \/ AssimilateLock(r) \/ AssimilateRefused(r)
      PROVE  UNCHANGED storeVars
  BY <1>4 DEF CommitLinkFails, AssimilateLock, AssimilateRefused
<1>5. ASSUME NEW r \in Request, AssimilateBegin(r) PROVE StoreNext
  BY <1>5, HomeAssumption DEF AssimilateBegin, StoreNext
<1>6. ASSUME NEW r \in Request, AssimilateStep(r) PROVE StoreNext
  BY <1>6 DEF AssimilateStep, StoreNext
<1>7. ASSUME NEW d \in Conn, Crash(d) PROVE [StoreNext]_storeVars
  BY <1>7 DEF Crash, StoreNext, TxStep
<1>8. ASSUME NEW d \in Conn, Restart(d) PROVE UNCHANGED storeVars
  BY <1>8 DEF Restart
<1>9. CASE UNCHANGED kernelVars
  BY <1>9 DEF kernelVars
<1>. QED
  BY <1>1, <1>2, <1>3, <1>4, <1>5, <1>6, <1>7, <1>8, <1>9 DEF KernelNext, HandlerStep

\* A transaction never makes a row disappear.
LEMMA RowsKept ==
    ASSUME LogInv, tx # NoTx
    PROVE  \A k \in ContId : contStatus[k] # "none" => tx.cont[k] # "none"
<1>1. tx \in Tx
  BY DEF LogInv, IInv, TypeOK
<1>2. \A i \in Nat : Done(i) => StatusForDelta(tx.changes[i].delta) \in ContinuationStatus
  BY <1>1, StatusForDeltaRange DEF Done, Tx
<1>. QED
  BY <1>2 DEF LogInv, TxFollowsChanges, ContinuationStatus

\* No step of the kernel makes a continuation row disappear.
LEMMA TableSteps ==
    ASSUME KernelInv, [KernelNext]_kernelVars
    PROVE  \A k \in ContId : contStatus[k] # "none" => contStatus'[k] # "none"
<1>1. [StoreNext]_storeVars
  BY KernelStepIsStoreStep DEF KernelInv
<1>2. TypeOK
  BY DEF KernelInv, LogInv, IInv
<1>3. ASSUME NEW k \in ContId, NEW s \in ContinuationStatus, CreateContinuation(k, s)
      PROVE  \A j \in ContId : contStatus[j] # "none" => contStatus'[j] # "none"
  BY <1>2, <1>3 DEF CreateContinuation, TypeOK, ContinuationStatus
<1>4. CASE CommitDelta
  BY <1>4, RowsKept DEF CommitDelta, KernelInv
<1>5. CASE UNCHANGED contStatus
  BY <1>5
<1>6. ASSUME NEW c \in CommitId, NEW k \in ContId, NEW rev \in BOOLEAN, CreateCommitment(c, k, rev)
      PROVE  UNCHANGED contStatus
  BY <1>6 DEF CreateCommitment
<1>7. ASSUME NEW conn \in Conn, NEW changes \in Inputs, BeginDelta(conn, changes)
      PROVE  UNCHANGED contStatus
  BY <1>7 DEF BeginDelta, tables
<1>8. CASE PreCheckRetires \/ SkipChange \/ ApplyChange \/ RollbackDelta
  BY <1>5, <1>8 DEF PreCheckRetires, SkipChange, ApplyChange, RollbackDelta, tables
<1>9. CASE UNCHANGED storeVars
  BY <1>5, <1>9 DEF storeVars, tables
<1>. QED
  BY <1>1, <1>3, <1>4, <1>5, <1>6, <1>7, <1>8, <1>9 DEF StoreNext, TxStep

LEMMA InitKernelInv == KernelInit => KernelInv
<1> SUFFICES ASSUME KernelInit PROVE KernelInv
  OBVIOUS
<1>1. LogInv
  BY InitLogInv DEF KernelInit
<1>2. ApiTypeOK
  BY DEF KernelInit, ApiInit, ApiTypeOK
<1>3. MutexInv /\ InsertedIsKept /\ ObligationsHeld /\ CommitmentsLinked
      /\ OneCommitmentPerObligation
  BY DEF KernelInit, ApiInit, StoreInit, MutexInv, InsertedIsKept, InTx, ObligationsHeld, CommitmentsLinked,
         OneCommitmentPerObligation
<1>. QED
  BY <1>1, <1>2, <1>3 DEF KernelInv

LEMMA StepApiTypeOK == ApiTypeOK /\ [KernelNext]_kernelVars => ApiTypeOK'
<1> SUFFICES ASSUME ApiTypeOK, [KernelNext]_kernelVars PROVE ApiTypeOK'
  OBVIOUS
<1> USE HomeAssumption DEF ApiTypeOK
<1>1. ASSUME NEW r \in Request, CreateContinuationHandler(r) PROVE ApiTypeOK'
  BY <1>1 DEF CreateContinuationHandler, VectorUpsert
<1>2. ASSUME NEW r \in Request, CommitObligation(r) PROVE ApiTypeOK'
  BY <1>2 DEF CommitObligation, VectorUpsert
<1>3. ASSUME NEW r \in Request, CommitLink(r) PROVE ApiTypeOK'
  BY <1>3 DEF CommitLink, HandlerReturns
<1>4. ASSUME NEW r \in Request, CommitLinkFails(r) PROVE ApiTypeOK'
  BY <1>4 DEF CommitLinkFails, HandlerReturns
<1>5. ASSUME NEW r \in Request, AssimilateLock(r) PROVE ApiTypeOK'
  BY <1>5 DEF AssimilateLock
<1>6. ASSUME NEW r \in Request, AssimilateBegin(r) PROVE ApiTypeOK'
  BY <1>6 DEF AssimilateBegin
<1>7. ASSUME NEW r \in Request, AssimilateReturns(r), UNCHANGED <<origin, poisoned>>
      PROVE  ApiTypeOK'
  BY <1>7 DEF AssimilateReturns, HandlerReturns
<1>8. ASSUME NEW r \in Request, AssimilateRefused(r) PROVE ApiTypeOK'
  BY <1>7, <1>8 DEF AssimilateRefused
<1>9. ASSUME NEW r \in Request, AssimilateStep(r) PROVE ApiTypeOK'
  BY <1>7, <1>9 DEF AssimilateStep
<1>10. ASSUME NEW d \in Conn, Crash(d) PROVE ApiTypeOK'
  BY <1>10 DEF Crash
<1>11. ASSUME NEW d \in Conn, Restart(d) PROVE ApiTypeOK'
  BY <1>11 DEF Restart
<1>12. CASE UNCHANGED kernelVars
  BY <1>12 DEF kernelVars, apiVars
<1>. QED
  BY <1>1, <1>2, <1>3, <1>4, <1>5, <1>6, <1>8, <1>9, <1>10, <1>11, <1>12
     DEF KernelNext, HandlerStep

\* Whoever takes the mutex finds nobody in it, and its transaction ends before
\* the guard is dropped.
LEMMA StepMutexInv == KernelInv /\ [KernelNext]_kernelVars => MutexInv'
<1> SUFFICES ASSUME KernelInv, [KernelNext]_kernelVars PROVE MutexInv'
  OBVIOUS
<1>0. MutexInv /\ ApiTypeOK /\ TypeOK
  BY DEF KernelInv, LogInv, IInv
<1>1. ASSUME NEW r \in Request, CreateContinuationHandler(r) PROVE MutexInv'
  <2>1. UNCHANGED <<pc, holder, tx>>
    BY <1>0, <1>1, CreateHandlerCreates DEF CreateContinuation
  <2>. QED
    BY <1>0, <2>1 DEF MutexInv, InTx
<1>2. ASSUME NEW r \in Request, CommitObligation(r) PROVE MutexInv'
  <2>1. /\ UNCHANGED <<holder, tx>>
        /\ pc[r] = "idle"
        /\ pc' \in {[pc EXCEPT ![r] = "idle"], [pc EXCEPT ![r] = "linking"]}
    BY <1>0, <1>2, CommitObligationCreates DEF CreateContinuation, CommitObligation
  <2>. QED
    BY <1>0, <2>1 DEF MutexInv, InTx, ApiTypeOK
<1>3. ASSUME NEW r \in Request, CommitLink(r) PROVE MutexInv'
  <2>1. /\ UNCHANGED <<holder, tx>>
        /\ pc[r] = "linking"
        /\ pc' = [pc EXCEPT ![r] = "idle"]
    BY <1>0, <1>3, CommitLinkCreates DEF CreateCommitment, CommitLink, HandlerReturns
  <2>. QED
    BY <1>0, <2>1 DEF MutexInv, InTx, ApiTypeOK
<1>4. ASSUME NEW r \in Request, CommitLinkFails(r) PROVE MutexInv'
  BY <1>0, <1>4 DEF CommitLinkFails, HandlerReturns, storeVars, MutexInv, InTx, ApiTypeOK
<1>5. ASSUME NEW r \in Request, AssimilateLock(r) PROVE MutexInv'
  BY <1>0, <1>5, HomeAssumption
     DEF AssimilateLock, CanLock, storeVars, MutexInv, InTx, ApiTypeOK
<1>6. ASSUME NEW r \in Request, AssimilateBegin(r) PROVE MutexInv'
  <2>1. PICK changes \in Inputs : BeginDelta(Home[r], changes)
    BY <1>6 DEF AssimilateBegin
  <2>2. tx = NoTx /\ tx'.by = Home[r]
    BY <2>1 DEF BeginDelta
  <2>3. tx' # NoTx
    <3>1. tx' \in Tx
      BY <1>0, <2>1, HomeAssumption, StoreAssumption DEF BeginDelta, TypeOK, Tx
    <3>. QED
      BY <3>1, StoreAssumption
  <2>4. /\ pc[r] = "holding" /\ pc' = [pc EXCEPT ![r] = "assimilating"]
        /\ UNCHANGED holder
    BY <1>6 DEF AssimilateBegin
  <2>5. \A q \in Request : pc[q] # "assimilating"
    BY <1>0, <2>2 DEF MutexInv, InTx
  <2>. QED
    BY <1>0, <2>2, <2>3, <2>4, <2>5 DEF MutexInv, InTx, ApiTypeOK
<1>7. ASSUME NEW r \in Request, AssimilateRefused(r) PROVE MutexInv'
  <2>1. /\ UNCHANGED tx
        /\ pc[r] = "holding" /\ pc' = [pc EXCEPT ![r] = "idle"]
        /\ holder' = [holder EXCEPT ![Home[r]] = {}]
    BY <1>7 DEF AssimilateRefused, AssimilateReturns, HandlerReturns, storeVars
  <2>2. \A q \in Request \ {r} : pc[q] \in {"holding", "assimilating"} => Home[q] # Home[r]
    BY <1>0, <2>1 DEF MutexInv
  <2>. QED
    BY <1>0, <2>1, <2>2, HomeAssumption DEF MutexInv, InTx, ApiTypeOK
<1>8. ASSUME NEW r \in Request, AssimilateStep(r) PROVE MutexInv'
  <2>1. pc[r] = "assimilating" /\ tx # NoTx /\ tx \in Tx /\ tx.by = Home[r]
    BY <1>0, <1>8 DEF AssimilateStep, TxStep, PreCheckRetires, SkipChange, ApplyChange,
       CommitDelta, RollbackDelta, TypeOK, MutexInv, InTx
  <2>2. \A q \in Request \ {r} : /\ pc[q] # "assimilating"
                                 /\ pc[q] = "holding" => Home[q] # Home[r]
    BY <1>0, <2>1 DEF MutexInv, InTx
  <2>3. CASE tx' = NoTx
    <3>1. /\ pc' = [pc EXCEPT ![r] = "idle"]
          /\ holder' = [holder EXCEPT ![Home[r]] = {}]
      BY <1>8, <2>3 DEF AssimilateStep, AssimilateReturns, HandlerReturns
    <3>2. \A q \in Request : pc'[q] # "assimilating"
      <4>1. /\ pc'[r] = "idle"
            /\ \A q \in Request \ {r} : pc'[q] = pc[q]
        BY <1>0, <3>1 DEF ApiTypeOK
      <4>2. \A q \in Request \ {r} : pc[q] # "assimilating"
        BY <2>2
      <4>. QED
        BY <4>1, <4>2
    <3>3. ASSUME NEW q \in Request, pc'[q] = "holding" PROVE holder'[Home[q]] = {q}
      <4>1. q # r /\ pc[q] = "holding"
        BY <1>0, <3>1, <3>3 DEF ApiTypeOK
      <4>2. Home[q] # Home[r] /\ holder[Home[q]] = {q}
        BY <1>0, <2>2, <4>1 DEF MutexInv
      <4>. QED
        BY <1>0, <3>1, <4>2, HomeAssumption DEF ApiTypeOK
    <3>. QED
      BY <2>3, <3>2, <3>3 DEF MutexInv
  <2>4. CASE tx' # NoTx
    <3>1. tx'.by = tx.by
      <4>1. PreCheckRetires \/ SkipChange \/ ApplyChange
        BY <1>8, <2>4 DEF AssimilateStep, TxStep, CommitDelta, RollbackDelta
      <4>. QED
        BY <2>1, <4>1 DEF PreCheckRetires, SkipChange, ApplyChange, Tx
    <3>2. UNCHANGED <<pc, holder>>
      BY <1>8, <2>4 DEF AssimilateStep
    <3>. QED
      BY <1>0, <2>1, <2>4, <3>1, <3>2 DEF MutexInv, InTx
  <2>. QED
    BY <2>3, <2>4
<1>9. ASSUME NEW d \in Conn, Crash(d) PROVE MutexInv'
  <2>1. /\ \A r \in Request : pc'[r] = IF Home[r] = d THEN "idle" ELSE pc[r]
        /\ \A e \in Conn : e # d => holder'[e] = holder[e]
    BY <1>0, <1>9 DEF Crash, ApiTypeOK
  <2>2. CASE InTx(d)
    BY <1>0, <1>9, <2>1, <2>2, HomeAssumption DEF Crash, RollbackDelta, MutexInv, InTx
  <2>3. CASE ~InTx(d)
    <3>1. UNCHANGED tx
      BY <1>9, <2>3 DEF Crash, storeVars
    <3>. QED
      BY <1>0, <2>1, <2>3, <3>1, HomeAssumption DEF MutexInv, InTx
  <2>. QED
    BY <2>2, <2>3
<1>10. ASSUME NEW d \in Conn, Restart(d) PROVE MutexInv'
  BY <1>0, <1>10 DEF Restart, MutexInv, InTx, storeVars
<1>11. CASE UNCHANGED kernelVars
  BY <1>0, <1>11 DEF MutexInv, InTx, kernelVars, storeVars, apiVars
<1>. QED
  BY <1>1, <1>2, <1>3, <1>4, <1>5, <1>6, <1>7, <1>8, <1>9, <1>10, <1>11
     DEF KernelNext, HandlerStep

\* Only the handlers that insert a row change origin.
LEMMA StepInsertedIsKept == KernelInv /\ [KernelNext]_kernelVars => InsertedIsKept'
<1> SUFFICES ASSUME KernelInv, [KernelNext]_kernelVars PROVE InsertedIsKept'
  OBVIOUS
<1>0. /\ MutexInv /\ ApiTypeOK /\ TypeOK /\ InsertedIsKept
      /\ \A k \in ContId : contStatus[k] # "none" => contStatus'[k] # "none"
  BY TableSteps DEF KernelInv, LogInv, IInv
<1>1. \A c \in CommitId : commitCont'[c] # {} => commitStatus'[c] # "none"
  <2>1. LogInv'
    BY <1>0, KernelStepIsStoreStep, StepLogInv DEF KernelInv
  <2>. QED
    BY <2>1 DEF LogInv, LogBounds
<1>2. ASSUME NEW k \in ContId, NEW s \in ContinuationStatus, NEW o \in {"create", "commit"},
             CreateContinuation(k, s), origin' = [origin EXCEPT ![k] = o]
      PROVE  InsertedIsKept'
  <2>1. contStatus'[k] # "none"
    BY <1>0, <1>2 DEF CreateContinuation, TypeOK, ContinuationStatus
  <2>. QED
    BY <1>0, <1>1, <1>2, <2>1 DEF InsertedIsKept, ApiTypeOK
<1>3. CASE UNCHANGED origin
  BY <1>0, <1>1, <1>3 DEF InsertedIsKept
<1>4. ASSUME NEW r \in Request, CreateContinuationHandler(r) PROVE InsertedIsKept'
  BY <1>0, <1>2, <1>4, CreateHandlerCreates
<1>5. ASSUME NEW r \in Request, CommitObligation(r) PROVE InsertedIsKept'
  <2>1. "active" \in ContinuationStatus
    BY DEF ContinuationStatus
  <2>. QED
    BY <1>0, <1>2, <1>5, <2>1, CommitObligationCreates
<1>6. ASSUME NEW r \in Request,
             \/ CommitLink(r) \/ CommitLinkFails(r) \/ AssimilateLock(r) \/ AssimilateBegin(r)
             \/ AssimilateRefused(r) \/ AssimilateStep(r)
      PROVE  UNCHANGED origin
  BY <1>6 DEF CommitLink, CommitLinkFails, AssimilateLock, AssimilateBegin, AssimilateRefused,
     AssimilateStep
<1>7. ASSUME NEW d \in Conn, Crash(d) \/ Restart(d) PROVE UNCHANGED origin
  BY <1>7 DEF Crash, Restart
<1>8. CASE UNCHANGED kernelVars
  BY <1>3, <1>8 DEF kernelVars, apiVars
<1>. QED
  BY <1>3, <1>4, <1>5, <1>6, <1>7, <1>8 DEF KernelNext, HandlerStep

\* The three facts about obligations and their commitments are kept together.
Linking == ObligationsHeld /\ CommitmentsLinked /\ OneCommitmentPerObligation

\* A new row: its id is in no obligation and no commitment.
LEMMA NewContinuation ==
    ASSUME KernelInv, NEW k \in ContId, NEW s \in ContinuationStatus, CreateContinuation(k, s),
           NEW o \in {"create", "commit"}, origin' = [origin EXCEPT ![k] = o]
    PROVE  /\ UNCHANGED commitCont
           /\ \A j \in ContId : contStatus[j] # "none" =>
                 j # k /\ contStatus'[j] # "none" /\ origin'[j] = origin[j]
           /\ contStatus'[k] # "none" /\ origin'[k] = o
           /\ \A c \in CommitId : k \notin commitCont[c]
           /\ \A r \in Request : k \notin obligation[r]
  BY DEF KernelInv, LogInv, IInv, TypeOK, ApiTypeOK, CreateContinuation, ContinuationStatus,
         ObligationsHeld, CommitmentsLinked

LEMMA StepLinking == KernelInv /\ [KernelNext]_kernelVars => Linking'
<1> SUFFICES ASSUME KernelInv, [KernelNext]_kernelVars PROVE Linking'
  OBVIOUS
<1>0. /\ ObligationsHeld /\ CommitmentsLinked /\ OneCommitmentPerObligation
      /\ ApiTypeOK /\ TypeOK /\ Linking /\ MutexInv
      /\ \A k \in ContId : contStatus[k] # "none" => contStatus'[k] # "none"
  BY TableSteps DEF KernelInv, LogInv, IInv, Linking
<1> USE DEF Linking, ObligationsHeld, CommitmentsLinked, OneCommitmentPerObligation
<1>1. ASSUME NEW r \in Request, CreateContinuationHandler(r) PROVE Linking'
  <2>1. PICK k \in ContId, s \in ContinuationStatus :
           CreateContinuation(k, s) /\ origin' = [origin EXCEPT ![k] = "create"]
    BY <1>0, <1>1, CreateHandlerCreates
  <2>2. UNCHANGED obligation
    BY <1>1 DEF CreateContinuationHandler
  <2>3. /\ UNCHANGED commitCont
        /\ \A j \in ContId : contStatus[j] # "none" =>
              contStatus'[j] # "none" /\ origin'[j] = origin[j]
    BY <2>1, NewContinuation
  <2>4. /\ \A q \in Request : obligation[q] \subseteq ContId
        /\ \A c \in CommitId : commitCont[c] \subseteq ContId
    BY <1>0 DEF TypeOK, ApiTypeOK
  <2>. QED
    BY <1>0, <2>2, <2>3, <2>4
<1>2. ASSUME NEW r \in Request, CommitObligation(r) PROVE Linking'
  <2>1. PICK k \in ContId : /\ CreateContinuation(k, "active")
                            /\ origin' = [origin EXCEPT ![k] = "commit"]
                            /\ \/ obligation' = [obligation EXCEPT ![r] = {}]
                               \/ obligation' = [obligation EXCEPT ![r] = {k}]
    BY <1>0, <1>2, CommitObligationCreates
  <2>2. "active" \in ContinuationStatus
    BY DEF ContinuationStatus
  <2>3. /\ UNCHANGED commitCont
        /\ \A j \in ContId : contStatus[j] # "none" =>
              contStatus'[j] # "none" /\ origin'[j] = origin[j]
        /\ contStatus'[k] # "none" /\ origin'[k] = "commit"
        /\ \A c \in CommitId : k \notin commitCont[c]
        /\ \A q \in Request : k \notin obligation[q]
    BY <2>1, <2>2, NewContinuation
  <2>4. /\ \A q \in Request : obligation[q] \subseteq ContId
        /\ \A c \in CommitId : commitCont[c] \subseteq ContId
    BY <1>0 DEF TypeOK, ApiTypeOK
  <2>5. /\ \A q \in Request \ {r} : obligation'[q] = obligation[q]
        /\ obligation'[r] \subseteq {k}
    BY <1>0, <2>1 DEF ApiTypeOK
  <2>6. CommitmentsLinked' /\ OneCommitmentPerObligation'
    BY <1>0, <2>3, <2>4
  <2>7. ObligationsHeld'
    BY <1>0, <2>3, <2>4, <2>5
  <2>. QED
    BY <2>6, <2>7
<1>3. ASSUME NEW r \in Request, CommitLink(r) PROVE Linking'
  <2>1. PICK c \in CommitId, k \in obligation[r], rev \in BOOLEAN : CreateCommitment(c, k, rev)
    BY <1>0, <1>3, CommitLinkCreates
  <2>2. commitCont' = [commitCont EXCEPT ![c] = {k}] /\ UNCHANGED contStatus
    BY <2>1 DEF CreateCommitment
  <2>3. obligation' = [obligation EXCEPT ![r] = {}] /\ UNCHANGED origin
    BY <1>3 DEF CommitLink, HandlerReturns
  <2>. QED
    BY <1>0, <2>1, <2>2, <2>3 DEF TypeOK, ApiTypeOK
<1>4. ASSUME UNCHANGED <<commitCont, origin>>,
             \A r \in Request : obligation'[r] \subseteq obligation[r]
      PROVE  Linking'
  BY <1>0, <1>4 DEF TypeOK, ApiTypeOK
<1>5. ASSUME NEW r \in Request,
             CommitLinkFails(r) \/ AssimilateLock(r) \/ AssimilateRefused(r)
      PROVE  Linking'
  <2>1. /\ UNCHANGED <<commitCont, origin>>
        /\ \/ UNCHANGED obligation
           \/ obligation' = [obligation EXCEPT ![r] = {}]
    BY <1>5 DEF CommitLinkFails, AssimilateLock, AssimilateRefused, AssimilateReturns,
       HandlerReturns, storeVars, tables
  <2>. QED
    BY <1>0, <1>4, <2>1 DEF ApiTypeOK
<1>6. ASSUME NEW r \in Request, AssimilateBegin(r) PROVE Linking'
  BY <1>4, <1>6 DEF AssimilateBegin, BeginDelta, tables
<1>7. ASSUME NEW r \in Request, AssimilateStep(r) PROVE Linking'
  <2>1. UNCHANGED <<commitCont, origin>>
    BY <1>7 DEF AssimilateStep, TxStep, PreCheckRetires, SkipChange, ApplyChange, CommitDelta,
       RollbackDelta, tables
  <2>2. \A q \in Request : obligation'[q] \subseteq obligation[q]
    BY <1>0, <1>7 DEF AssimilateStep, AssimilateReturns, HandlerReturns, ApiTypeOK
  <2>. QED
    BY <1>4, <2>1, <2>2
<1>8. ASSUME NEW d \in Conn, Crash(d) PROVE Linking'
  <2>1. UNCHANGED <<commitCont, origin>>
    BY <1>8 DEF Crash, RollbackDelta, storeVars, tables
  <2>2. \A q \in Request : obligation'[q] \subseteq obligation[q]
    BY <1>8 DEF Crash
  <2>. QED
    BY <1>4, <2>1, <2>2
<1>9. ASSUME NEW d \in Conn, Restart(d) PROVE Linking'
  BY <1>4, <1>9 DEF Restart, storeVars, tables
<1>10. CASE UNCHANGED kernelVars
  BY <1>4, <1>10 DEF kernelVars, storeVars, tables, apiVars
<1>. QED
  BY <1>1, <1>2, <1>3, <1>5, <1>6, <1>7, <1>8, <1>9, <1>10 DEF KernelNext, HandlerStep

LEMMA KernelInvariance == KernelSpec => []KernelInv
<1>1. KernelInv /\ [KernelNext]_kernelVars => KernelInv'
  <2> SUFFICES ASSUME KernelInv, [KernelNext]_kernelVars PROVE KernelInv'
    OBVIOUS
  <2>1. LogInv'
    BY KernelStepIsStoreStep, StepLogInv DEF KernelInv
  <2>2. ApiTypeOK'
    BY StepApiTypeOK DEF KernelInv
  <2>. QED
    BY <2>1, <2>2, StepMutexInv, StepInsertedIsKept, StepLinking DEF KernelInv, Linking
<1>. QED
  BY <1>1, InitKernelInv, PTL DEF KernelSpec

(***************************************************************************)
(* The handlers are one way to drive the store: what is proved of every    *)
(* caller of TemporalStore holds of the kernel.                            *)
(***************************************************************************)
THEOREM KernelImplementsStore == KernelSpec => StoreSpec
<1>1. KernelInv /\ [KernelNext]_kernelVars => [StoreNext]_storeVars
  BY KernelStepIsStoreStep DEF KernelInv
<1>2. KernelInit => StoreInit
  BY DEF KernelInit
<1>. QED
  BY <1>1, <1>2, KernelInvariance, PTL DEF KernelSpec, StoreSpec

(***************************************************************************)
(* Across any number of daemons, requests, crashes and restarts: the       *)
(* commitments of the kernel follow the ledger.                            *)
(***************************************************************************)
THEOREM KernelImplementsLedger == KernelSpec => LedgerSpec
  BY KernelImplementsStore, ImplementsLedger, PTL

(***************************************************************************)
(* What a handler has inserted is in the tables for everyone, and no delta *)
(* of another request, rolled back, crashed or committed, takes it away.   *)
(***************************************************************************)
THEOREM KernelKeepsInserts == KernelSpec => []InsertedIsKept
<1>1. KernelInv => InsertedIsKept
  BY DEF KernelInv
<1>. QED
  BY <1>1, KernelInvariance, PTL

(***************************************************************************)
(* No obligation ever carries two commitments.                             *)
(***************************************************************************)
THEOREM KernelLinksOnce == KernelSpec => []OneCommitmentPerObligation
<1>1. KernelInv => OneCommitmentPerObligation
  BY DEF KernelInv
<1>. QED
  BY <1>1, KernelInvariance, PTL

(***************************************************************************)
(* Racing handlers included, the log accounts for every commitment.        *)
(***************************************************************************)
THEOREM KernelCommitmentsExplained == KernelSpec => []DeltasExplainCommitments
  BY KernelImplementsStore, CommitmentsExplained, PTL
=============================================================================
