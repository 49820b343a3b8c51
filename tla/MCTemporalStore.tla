-------------------------- MODULE MCTemporalStore --------------------------
(***************************************************************************)
(* A small instance of TemporalStore: two continuations, two commitments,  *)
(* one connection and the change lists below.                              *)
(***************************************************************************)
EXTENDS TemporalStore

CONSTANTS k1, k2

Ch(k, d) == [cont |-> k, delta |-> d]

\* One list for each way through assimilate_delta: a change that sets no
\* status before one that does, a batch over both continuations in either
\* order, a reactivation, and a list refused for its duplicate target.
MCInputs == { <<Ch(k1, "close")>>,
              <<Ch(k1, "retire")>>,
              <<Ch(k1, "activate")>>,
              <<Ch(k1, "split"), Ch(k2, "defer")>>,
              <<Ch(k2, "close"), Ch(k1, "retire")>>,
              <<Ch(k1, "close"), Ch(k2, "retire")>>,
              <<Ch(k1, "close"), Ch(k1, "retire")>> }
=============================================================================
