--------------------------- MODULE MCStdioSidecar ---------------------------
(***************************************************************************)
(* A request of three units on pipes of two.  The sidecars: the bundled    *)
(* one; one that logs first; one that fills stderr first (or after enough  *)
(* input); ones that read nothing, little, or close their input; ones that *)
(* print nothing or exit with an error.                                    *)
(***************************************************************************)
EXTENDS StdioSidecar, TLC

MCProgram ==
    {<<"read", "read", "read", "out", "out", "out", "eof", "exit 0">>,
     <<"err", "read", "out", "eof", "err", "exit 0">>,
     <<"err", "err", "err", "eof", "out", "exit 0">>,
     <<"out", "out", "out", "eof", "exit 0">>,
     <<"read", "err", "err", "err", "out", "out", "out", "exit 0">>,
     <<"out", "exit 0">>,
     <<"read", "close", "out", "out", "out", "exit 0">>,
     <<"close", "err", "exit 1">>,
     <<"eof", "exit 0">>,
     <<"read", "read", "out", "err", "exit 1">>}
=============================================================================
