---------------------------- MODULE MCKernelApi ----------------------------
(***************************************************************************)
(* Two daemons share the store: d1 serves two requests at a time, d2 one.  *)
(***************************************************************************)
EXTENDS KernelApi, TLC

CONSTANTS k1, k2, r1, r2, r3, d1, d2

Ch(k, d) == [cont |-> k, delta |-> d]

MCInputs == { <<Ch(k1, "close")>>,
              <<Ch(k1, "retire"), Ch(k2, "activate")>> }

MCHome == r1 :> d1 @@ r2 :> d1 @@ r3 :> d2
=============================================================================
