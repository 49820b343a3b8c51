-------------------------- MODULE CommitmentLedger --------------------------
(***************************************************************************)
(* What the kernel promises about a commitment, with no continuation,      *)
(* table, transaction or request in sight.  A promise is made once.  It    *)
(* stays active until it is settled, closed (kept) or retired (released),  *)
(* and a settled promise never changes again.  A binding promise, one the  *)
(* speaker declared non-revocable, can be closed but never retired.        *)
(* TemporalStore implements this specification.                            *)
(***************************************************************************)
EXTENDS Naturals

CONSTANT Promise          \* every promise anyone may ever make

VARIABLES promise,        \* promise[p]: "none" before it is made, then its state
          binding         \* binding[p]: p was declared non-revocable

ledgerVars == <<promise, binding>>

LedgerState == {"none", "active", "closed", "retired"}

LedgerTypeOK == /\ promise \in [Promise -> LedgerState]
                /\ binding \in [Promise -> BOOLEAN]

LedgerInit == /\ promise = [p \in Promise |-> "none"]
              /\ binding = [p \in Promise |-> FALSE]

\* A speaker makes promise p and says whether it may be taken back.
Make(p, b) == /\ promise[p] = "none"
              /\ promise' = [promise EXCEPT ![p] = "active"]
              /\ binding' = [binding EXCEPT ![p] = b]

\* One change of direction settles a set of promises at once: those of
\* kept are closed and those of released are retired.
Settle(kept, released) ==
    /\ kept \cap released = {}
    /\ \A p \in kept \cup released : promise[p] = "active"
    /\ \A p \in released : ~binding[p]
    /\ promise' = [p \in Promise |-> CASE p \in kept     -> "closed"
                                       [] p \in released -> "retired"
                                       [] OTHER          -> promise[p]]
    /\ UNCHANGED binding

LedgerNext == \/ \E p \in Promise, b \in BOOLEAN : Make(p, b)
              \/ \E kept, released \in SUBSET Promise : Settle(kept, released)

LedgerSpec == LedgerInit /\ [][LedgerNext]_ledgerVars
=============================================================================
