---------------------------- MODULE UdsHttpClient ----------------------------
(***************************************************************************)
(* Calls of tfk and tfk-mcp to a daemon over its socket: one connection,   *)
(* one HTTP request and one response each, while daemons start and end.    *)
(* Both crates have the client code, line for line but for the status.     *)
(*                                                                         *)
(* A response is HeaderLen bytes of header and BodyLen of body, its        *)
(* Content-Length; it is sent and received in pieces of any size.  The     *)
(* rest of a socket's behaviour is that of Unix stream sockets: what is    *)
(* buffered is read before the end of the stream.                          *)
(***************************************************************************)
EXTENDS DaemonSocket, Naturals

CONSTANTS Calls, HeaderLen, BodyLen

ASSUME LengthAssumption == HeaderLen \in Nat \ {0} /\ BodyLen \in Nat

VARIABLES call,   \* call[c]: the client's side
          serve   \* serve[c]: the daemon's side of the connection

clientVars == <<path, dir, pc, overlapped, denied, call, serve>>

Total == HeaderLen + BodyLen

\* How far the request went.
Stage   == {"new", "connected", "written"}
Outcome == {"none", "invalid", "unreachable", "broken", "late", "short", "status",
            "text", "data"}
NoDaemon == "none"

Program == {"tfk", "tfk-mcp"}

\* long: the request overruns the socket's buffer; own: it was the handler of
\* the command's operation that ran; closed: the connection's task has ended.
ClientTypeOK ==
    /\ call \in [Calls -> [program : Program, long : BOOLEAN, at : Stage,
                           to : Daemons \cup {NoDaemon}, received : 0 .. Total, outcome : Outcome]]
    /\ serve \in [Calls -> [at : {"pending", "accepted", "ran"}, own : BOOLEAN,
                            ok : BOOLEAN, json : BOOLEAN, sent : 0 .. Total,
                            closed : BOOLEAN]]

ClientInit ==
    /\ Init
    /\ \E program \in [Calls -> Program], long \in [Calls -> BOOLEAN] :
          call = [c \in Calls |-> [program |-> program[c], long |-> long[c], at |-> "new",
                                   to |-> NoDaemon, received |-> 0, outcome |-> "none"]]
    /\ serve = [c \in Calls |-> [at |-> "pending", own |-> FALSE, ok |-> FALSE,
                                 json |-> FALSE, sent |-> 0, closed |-> FALSE]]
-----------------------------------------------------------------------------
(* The commands of either program, which it checks before it connects, and *)
(* the routes of the daemon's API.                                         *)

Get(name, resource)  == [name |-> name, method |-> "GET", path |-> resource]
Post(name, resource) == [name |-> name, method |-> "POST", path |-> resource]

CliCommands ==
    {Post("observe", "observe"), Get("search raw events", "raw-events"),
     Get("get raw event", "raw-events/:id"), Post("lens", "lens"),
     Post("preflight", "preflight"), Post("create continuation", "continuations"),
     Get("list continuations", "continuations"),
     Get("get continuation", "continuations/:id"),
     Post("create relation", "continuation-relations"),
     Get("list relations", "continuation-relations"),
     Get("list commitments", "commitments"), Post("commit", "commit"),
     Post("forecast", "forecast"), Get("list signals", "advisory-forecast-signals"),
     Get("get signal", "advisory-forecast-signals/:id"),
     Get("list deltas", "temporal-deltas"), Get("get delta", "temporal-deltas/:id"),
     Post("assimilate", "assimilate")}

McpCommands == {Get("health", "healthz")} \cup CliCommands

\* Ids must be safe in a path, and the files of forecast and assimilate valid.
CliChecks == {"get raw event", "get continuation", "get signal", "get delta",
              "forecast", "assimilate"}

\* Every body must fit its type, and a lens query not be blank.
McpChecks == CliChecks \cup {"observe", "lens", "commit", "create continuation",
                             "create relation"}

\* Each route with its handler, named for the operation it is.
Routes ==
    {<<"GET", "healthz", "health">>, <<"POST", "observe", "observe">>,
     <<"GET", "raw-events", "search raw events">>,
     <<"GET", "raw-events/:id", "get raw event">>,
     <<"POST", "continuations", "create continuation">>,
     <<"GET", "continuations", "list continuations">>,
     <<"GET", "continuations/:id", "get continuation">>,
     <<"POST", "continuation-relations", "create relation">>,
     <<"GET", "continuation-relations", "list relations">>,
     <<"POST", "preflight", "preflight">>, <<"POST", "lens", "lens">>,
     <<"POST", "forecast", "forecast">>,
     <<"GET", "advisory-forecast-signals", "list signals">>,
     <<"GET", "advisory-forecast-signals/:id", "get signal">>,
     <<"POST", "commit", "commit">>, <<"GET", "commitments", "list commitments">>,
     <<"POST", "assimilate", "assimilate">>, <<"GET", "temporal-deltas", "list deltas">>,
     <<"GET", "temporal-deltas/:id", "get delta">>}

IsTfk(c) == call[c].program = "tfk"

CommandsOf(c) == IF IsTfk(c) THEN CliCommands ELSE McpCommands
ChecksOf(c)   == IF IsTfk(c) THEN CliChecks ELSE McpChecks

IsRouted(cmd, handler) == <<cmd.method, cmd.path, handler>> \in Routes
-----------------------------------------------------------------------------
(* The daemon's side.                                                      *)

\* A daemon listens from bind on.
Lives(d) == d \in Daemons /\ pc[d] \in {"restrictSocket", "serving"}

\* A connection ends with the daemon's process, or by itself.
Open(c) == Lives(call[c].to) /\ ~ serve[c].closed

Serve(c, s) == serve' = [serve EXCEPT ![c] = s] /\ UNCHANGED <<vars, call>>

\* Connections wait in the listener's backlog for the accept loop.
Accept(c) ==
    /\ call[c].at # "new" /\ call[c].to \in Daemons /\ pc[call[c].to] = "serving"
    /\ serve[c].at = "pending"
    /\ Serve(c, [serve[c] EXCEPT !.at = "accepted"])

\* The router's handler runs, or refuses the request (any error of the API is
\* JSON, those of the extractors are text).  It may be long in coming, and it
\* runs or not when the client has given up.
Handle(c) ==
    /\ serve[c].at = "accepted" /\ call[c].at = "written" /\ Open(c)
    /\ \E cmd \in CommandsOf(c) :
          \/ \E handler \in {r[3] : r \in Routes}, ok \in BOOLEAN :
                /\ IsRouted(cmd, handler)
                /\ Serve(c, [serve[c] EXCEPT !.at = "ran", !.own = handler = cmd.name,
                                             !.ok = ok, !.json = TRUE])
          \/ Serve(c, [serve[c] EXCEPT !.at = "ran"])

\* The limit of axum's extractors: 413, as text, to a request that is not read
\* to its end.
RefuseLong(c) ==
    /\ serve[c].at = "accepted" /\ call[c].at = "connected" /\ call[c].long /\ Open(c)
    /\ Serve(c, [serve[c] EXCEPT !.at = "ran"])

\* The connection's task ends before its work is done: a handler panics and
\* unwinds it, hyper meets an error, or leaves the rest of a request unread.
CloseConnection(c) ==
    /\ serve[c].at # "pending" /\ Open(c) /\ call[c].outcome = "none"
    /\ Serve(c, [serve[c] EXCEPT !.closed = TRUE])

Send(c) ==
    /\ serve[c].at = "ran" /\ Open(c) /\ call[c].outcome = "none"
    /\ \E n \in serve[c].sent + 1 .. Total : Serve(c, [serve[c] EXCEPT !.sent = n])
-----------------------------------------------------------------------------
(* The client's side.                                                      *)

Step(c, s) == call' = [call EXCEPT ![c] = s] /\ UNCHANGED <<vars, serve>>
End(c, outcome) == Step(c, [call[c] EXCEPT !.outcome = outcome])

IsIdle(c) == call[c].at = "new" /\ call[c].outcome = "none"

\* A command that is refused before it is sent.
Refuse(c) ==
    /\ IsIdle(c)
    /\ \E cmd \in CommandsOf(c) : cmd.name \in ChecksOf(c)
    /\ End(c, "invalid")

Connect(c) ==
    /\ IsIdle(c)
    /\ IF Lives(path)
       THEN Step(c, [call[c] EXCEPT !.at = "connected", !.to = path])
       ELSE End(c, "unreachable")

\* write_all, which no time limits: a long request waits until it is read.
Write(c) ==
    /\ call[c].at = "connected" /\ call[c].outcome = "none"
    /\ IF Open(c)
       THEN /\ call[c].long => serve[c].at # "pending"
            /\ Step(c, [call[c] EXCEPT !.at = "written"])
       ELSE End(c, "broken")

Waits(c) == call[c].at = "written" /\ call[c].outcome = "none"

\* Variant: the body is taken as long as it came.
ExtractAny(c, n) ==
    IF n < HeaderLen THEN "short"
    ELSE IF IsTfk(c) /\ ~ serve[c].ok THEN "status"
    ELSE IF serve[c].json THEN "data" ELSE "text"

\* extract_http_response_body of the first n bytes: the status is asked before
\* the length, and only by tfk; tfk-mcp parses the body instead.
Extract(c, n) ==
    IF n < HeaderLen THEN "short"
    ELSE IF IsTfk(c) /\ ~ serve[c].ok THEN "status"
    ELSE IF n < Total THEN "short"
    ELSE IF serve[c].json THEN "data" ELSE "text"

\* Variant: expected_response_len leaves out the blank line.
ReadShort(c) ==
    /\ Waits(c) /\ call[c].received < serve[c].sent
    /\ \E n \in call[c].received + 1 .. serve[c].sent :
          Step(c, [call[c] EXCEPT !.received = n,
                     !.outcome = IF n + 1 >= Total THEN Extract(c, n) ELSE "none"])

\* The loop ends when Content-Length bytes have come after the header.
Read(c) ==
    /\ Waits(c) /\ call[c].received < serve[c].sent
    /\ \E n \in call[c].received + 1 .. serve[c].sent :
          Step(c, [call[c] EXCEPT !.received = n,
                     !.outcome = IF n >= Total THEN Extract(c, n) ELSE "none"])

\* The daemon's side is gone: the end of the stream, or a reset.
ReadEnd(c) ==
    /\ Waits(c) /\ call[c].received = serve[c].sent /\ ~ Open(c)
    /\ \/ End(c, Extract(c, call[c].received))
       \/ End(c, "broken")

\* Variant: only the first read is under the limit.
TimeOutFirst(c) ==
    /\ Waits(c) /\ call[c].received = serve[c].sent /\ Open(c)
    /\ call[c].received = 0
    /\ End(c, "late")

\* Ten seconds without a byte.
TimeOut(c) ==
    /\ Waits(c) /\ call[c].received = serve[c].sent /\ Open(c)
    /\ End(c, "late")

ClientStep(c) == Write(c) \/ Read(c) \/ ReadEnd(c) \/ TimeOut(c)

ClientNext == \/ Next /\ UNCHANGED <<call, serve>>
              \/ \E c \in Calls : \/ Refuse(c) \/ Connect(c) \/ ClientStep(c)
                                  \/ Accept(c) \/ Handle(c) \/ Send(c)
                                  \/ RefuseLong(c) \/ CloseConnection(c)

\* Fair to the client, whose steps are the kernel's and a clock's; not to the
\* daemon, whose workers a model call may hold for ever.
ClientSpec == /\ ClientInit /\ [][ClientNext]_clientVars
              /\ \A d \in Daemons : WF_clientVars(StartStep(d) /\ UNCHANGED <<call, serve>>)
              /\ \A c \in Calls : WF_clientVars(ClientStep(c))

\* What tfk-mcp answers its own client.
McpAnswer(outcome) ==
    CASE outcome = "data" -> [ok |-> TRUE, degraded |-> FALSE]
      [] outcome \in {"text", "invalid"} -> [ok |-> FALSE, degraded |-> FALSE]
      [] OTHER -> [ok |-> FALSE, degraded |-> TRUE]
-----------------------------------------------------------------------------
(***************************************************************************)
(* Whatever is killed at whatever byte, tfk prints and tfk-mcp forwards    *)
(* only a whole response; tfk one of success, and JSON one of the handler  *)
(* of its command.  tfk-mcp says the daemon is degraded exactly when it    *)
(* sent a command and has no whole response.                               *)
(***************************************************************************)
AnswersAreWhole ==
    \A c \in Calls :
        /\ call[c].outcome \in {"data", "text"} =>
              /\ call[c].received = Total /\ serve[c].at = "ran"
              /\ IsTfk(c) => serve[c].ok
              /\ serve[c].json => serve[c].own
        /\ ~ IsTfk(c) /\ call[c].outcome \notin {"none", "invalid"} =>
              (McpAnswer(call[c].outcome).degraded <=> call[c].received < Total)

(***************************************************************************)
(* A call that reached a daemon fails only because that daemon, or the     *)
(* task of this connection, ended before the whole response was sent, or   *)
(* because it said no (to tfk), or let ten seconds pass with bytes of its  *)
(* response unsent: not for the pieces the response came in, and not       *)
(* because another daemon took the socket path in the meantime.            *)
(***************************************************************************)
FailsForTheDaemon ==
    \A c \in Calls :
        /\ call[c].outcome = "short"  => ~ Open(c) /\ serve[c].sent < Total
        /\ call[c].outcome = "broken" => ~ Open(c)
        /\ call[c].outcome = "status" => serve[c].at = "ran" /\ ~ serve[c].ok
        /\ call[c].outcome = "late" => serve[c].sent < Total

(***************************************************************************)
(* A call ends though its daemon hangs, but for one that still writes a    *)
(* request longer than the socket's buffer to a connection that is open.   *)
(***************************************************************************)
CallsEnd ==
    \A c \in Calls :
        (call[c].at # "new" /\ (call[c].long => call[c].at = "written" \/ ~ Open(c)))
            ~> call[c].outcome # "none"
=============================================================================
