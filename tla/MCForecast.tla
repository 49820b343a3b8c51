----------------------------- MODULE MCForecast -----------------------------
(***************************************************************************)
(* A forecast of three actions: one that ties with the third but for the   *)
(* pledge on its continuation, whose consequence is exactly one half; one  *)
(* blocked, with a revocable commitment and a risk product above one half; *)
(* one on no continuation.  And a forecast that names no continuation.     *)
(***************************************************************************)
EXTENDS Forecast, TLC

CONSTANTS f1, f2, c1, c2, k1, k2

Pledged == [continuation |-> k1, progress |-> 90, closure |-> 60, option |-> 30,
            risk |-> 20, irreversibility |-> 50, confusion |-> 10, friction |-> 10,
            debt |-> 0, uncertainty |-> 60, externality |-> 150]

Blocked == [continuation |-> k2, progress |-> 100, closure |-> 100, option |-> 90,
            risk |-> 60, irreversibility |-> 90, confusion |-> -10, friction |-> 0,
            debt |-> 30, uncertainty |-> 80, externality |-> 80]

Unbound == [continuation |-> NoContinuation, progress |-> 50, closure |-> 50, option |-> 50,
            risk |-> 10, irreversibility |-> 20, confusion |-> 10, friction |-> 10,
            debt |-> 10, uncertainty |-> 30, externality |-> 40]

MCActions   == f1 :> <<Pledged, Blocked, Unbound>> @@ f2 :> <<Unbound>>
MCRelations == f1 :> {[from |-> k1, to |-> k2, kind |-> "blocks"]} @@ f2 :> {}
MCOn        == c1 :> k1 @@ c2 :> k2
=============================================================================
