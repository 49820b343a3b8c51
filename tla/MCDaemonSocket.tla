--------------------------- MODULE MCDaemonSocket ---------------------------
(* Daemons of one user that start together, and a call of each client,     *)
(* that of tfk-mcp with a request that overruns the socket's buffer.       *)
EXTENDS UdsHttpClient

=============================================================================
