------------------------- MODULE DaemonSocketProofs -------------------------
(***************************************************************************)
(* Theorems about daemons on one socket path and the calls of their        *)
(* clients, for any number of either, either umask and any length of a     *)
(* response: daemons starting together leave one that serves, one starting *)
(* alone fails only with cause, and a call reports only a whole response   *)
(* of its own command's handler and fails only for what its daemon, or the *)
(* task of its connection, did.                                            *)
(***************************************************************************)
EXTENDS UdsHttpClient, TLAPS

\* The start that will find the way to the path free, or frees it.
Early == {"inspectDir", "createDir", "restrictDir", "inspectSocket"}
Undisturbed == /\ \A d \in Daemons : pc[d] # "stopped"
               /\ denied = {} /\ path # "file" /\ dir \notin {"unsafe", "bare"}

\* What an unsafe directory, a file and a stale socket at the path rule out:
\* they are there from the beginning or not at all.
OriginInv ==
  /\ dir = "unsafe" => \A d \in Daemons : pc[d] \notin {"createDir", "restrictDir"}
  /\ path = "file" => \A d \in Daemons :
                        pc[d] \notin {"remove", "bind", "restrictSocket", "serving"}
  /\ path = "stale" => \A d \in Daemons :
                         pc[d] \notin {"bind", "restrictSocket", "serving"}

\* While none is killed or denied a call: a directory not restricted yet has a start that will
\* restrict it; a path that leads nowhere has a start that will bind it; and a
\* socket has its daemon.
ProgressInv ==
  Undisturbed =>
    /\ dir = "open" => \E d \in Daemons : pc[d] = "restrictDir"
    /\ path = "none" /\ (\E d \in Daemons : pc[d] # "off")
         => \E d \in Daemons : pc[d] \in Early \cup {"bind"}
    /\ path = "stale" /\ (\E d \in Daemons : pc[d] # "off")
         => \E d \in Daemons : pc[d] \in Early \cup {"remove"}
    /\ path \in Daemons => pc[path] \in {"restrictSocket", "serving"}

\* A start that no other disturbed finds what its last look saw.
CauseInv ==
  \A d \in Daemons \ overlapped :
    /\ Starting(d) => \A e \in Daemons \ {d} : ~Starting(e)
    /\ pc[d] = "remove" => path # "none"
    /\ pc[d] = "bind" => path = "none"
    /\ pc[d] = "restrictSocket" => path # "none"
    /\ pc[d] = "failed" =>
         \/ d \in denied \/ path = "file" \/ dir = "bare"
         \/ /\ dir = "unsafe" \/ (dir = "open" /\ GroupWritable)
            /\ \A e \in Daemons : pc[e] \notin {"createDir", "restrictDir"}

Inv == TypeOK /\ OriginInv /\ ProgressInv

-----------------------------------------------------------------------------
LEMMA TypeStep == ASSUME TypeOK, [Next]_vars PROVE TypeOK'
<1>1. CASE UNCHANGED vars
  BY <1>1 DEF TypeOK, vars
<1>2. ASSUME NEW d \in Daemons, Start(d) \/ StartStep(d) \/ CallFails(d) \/ AcceptFails(d) \/ Killed(d)
      PROVE  TypeOK'
  BY <1>2 DEF TypeOK, Paths, Dirs, Steps, Goto, Start, StartStep, CallFails, AcceptFails, Killed,
     InspectDir, CreateDir, RestrictDir, InspectSocket, RemoveSocket, BindSocket,
     RestrictSocket, Starting
<1> QED BY <1>1, <1>2 DEF Next

\* No step makes a directory unsafe, or puts a file or a stale socket at the
\* path, and a start that met one has not come past it.
LEMMA OriginStep == ASSUME TypeOK, OriginInv, [Next]_vars PROVE OriginInv'
<1>1. CASE UNCHANGED vars
  BY <1>1 DEF OriginInv, vars
<1>2. ASSUME NEW d \in Daemons, Start(d) \/ StartStep(d) \/ CallFails(d) \/ AcceptFails(d) \/ Killed(d)
      PROVE  OriginInv'
  BY <1>2, NamesApart
     DEF TypeOK, OriginInv, Goto, Start, StartStep, CallFails, AcceptFails, Killed,
     InspectDir, CreateDir, RestrictDir, InspectSocket, RemoveSocket, BindSocket,
     RestrictSocket
<1> QED BY <1>1, <1>2 DEF Next

LEMMA ProgressStep ==
  ASSUME TypeOK, OriginInv, ProgressInv, [Next]_vars PROVE ProgressInv'
<1> SUFFICES ASSUME Undisturbed', ~UNCHANGED vars
             PROVE  ProgressInv'
  BY DEF ProgressInv, Undisturbed, vars
<1> PICK d \in Daemons : Start(d) \/ StartStep(d) \/ CallFails(d) \/ AcceptFails(d) \/ Killed(d)
  BY DEF Next
<1> USE NamesApart DEF Goto, TypeOK
<1>1. CASE Start(d)
  BY <1>1 DEF Start, ProgressInv, Undisturbed, Early
<1>2. CASE InspectDir(d)
  BY <1>2 DEF InspectDir, ProgressInv, Undisturbed, Early
<1>3. CASE CreateDir(d)
  BY <1>3 DEF CreateDir, ProgressInv, Undisturbed, Early
<1>4. CASE RestrictDir(d)
  BY <1>4 DEF RestrictDir, ProgressInv, Undisturbed, Early, OriginInv
<1>5. CASE InspectSocket(d)
  BY <1>5 DEF InspectSocket, ProgressInv, Undisturbed, Early
<1>6. CASE RemoveSocket(d)
  BY <1>6 DEF RemoveSocket, ProgressInv, Undisturbed, Early, OriginInv
<1>7. CASE BindSocket(d)
  BY <1>7 DEF BindSocket, ProgressInv, Undisturbed, Early, Paths
<1>8. CASE RestrictSocket(d)
  BY <1>8 DEF RestrictSocket, ProgressInv, Undisturbed, Early
<1>9. CASE AcceptFails(d) \/ Killed(d)
  BY <1>9 DEF AcceptFails, Killed, Undisturbed
<1>10. CASE CallFails(d)
  BY <1>10 DEF CallFails, Undisturbed
<1> QED BY <1>1, <1>2, <1>3, <1>4, <1>5, <1>6, <1>7, <1>8, <1>9, <1>10 DEF StartStep

LEMMA CauseStep == ASSUME TypeOK, OriginInv, CauseInv, [Next]_vars PROVE CauseInv'
<1>1. CASE UNCHANGED vars
  BY <1>1 DEF CauseInv, Starting, vars
<1>2. ASSUME NEW e \in Daemons, Start(e) \/ StartStep(e) \/ CallFails(e) \/ AcceptFails(e) \/ Killed(e)
      PROVE  CauseInv'
  <2> SUFFICES ASSUME NEW d \in Daemons, d \notin overlapped'
               PROVE  /\ Starting(d)' => \A o \in Daemons \ {d} : ~Starting(o)'
                      /\ pc'[d] = "remove" => path' # "none"
                      /\ pc'[d] = "bind" => path' = "none"
                      /\ pc'[d] = "restrictSocket" => path' # "none"
                      /\ pc'[d] = "failed" =>
                           \/ d \in denied' \/ path' = "file" \/ dir' = "bare"
                           \/ /\ dir' = "unsafe" \/ (dir' = "open" /\ GroupWritable)
                              /\ \A o \in Daemons : pc'[o] \notin {"createDir", "restrictDir"}
    BY DEF CauseInv
  <2> USE NamesApart DEF Goto, TypeOK, Starting, Steps
  <2>1. d \notin overlapped
    BY <1>2 DEF Start, StartStep, CallFails, AcceptFails, Killed, InspectDir, CreateDir, RestrictDir,
       InspectSocket, RemoveSocket, BindSocket, RestrictSocket
  <2>2. CASE Start(e)
    BY <2>1, <2>2 DEF Start, CauseInv
  <2>3. CASE InspectDir(e)
    BY <2>1, <2>3 DEF InspectDir, CauseInv
  <2>4. CASE CreateDir(e) \/ RestrictDir(e)
    BY <2>1, <2>4 DEF CreateDir, RestrictDir, CauseInv
  <2>5. CASE InspectSocket(e)
    BY <2>1, <2>5 DEF InspectSocket, CauseInv
  <2>6. CASE RemoveSocket(e)
    BY <2>1, <2>6 DEF RemoveSocket, CauseInv, OriginInv
  <2>7. CASE BindSocket(e)
    BY <2>1, <2>7 DEF BindSocket, CauseInv
  <2>8. CASE RestrictSocket(e) \/ AcceptFails(e) \/ Killed(e)
    BY <2>1, <2>8 DEF RestrictSocket, AcceptFails, Killed, CauseInv
  <2>9. CASE CallFails(e)
    BY <2>1, <2>9 DEF CallFails, CauseInv
  <2>. QED
    BY <1>2, <2>2, <2>3, <2>4, <2>5, <2>6, <2>7, <2>8, <2>9 DEF StartStep
<1> QED BY <1>1, <1>2 DEF Next

\* Every variable of a running instance has its type.
THEOREM TypeCorrect == Spec => []TypeOK
<1>1. Init => TypeOK
  BY DEF Init, TypeOK, Paths, Dirs, Steps
<1> QED BY <1>1, TypeStep, PTL DEF Spec

\* A daemon that starts while no other does, and is denied no call, fails only
\* for a file at the path, no directory in it, or a directory that is unsafe or
\* half made, whatever others left or do later.
THEOREM FailuresHaveCause == Spec => []FailsOnlyWithCause
<1>1. Init => OriginInv /\ CauseInv
  BY NamesApart DEF Init, OriginInv, CauseInv, Starting, Steps
<1>2. TypeOK /\ OriginInv /\ CauseInv /\ [Next]_vars => (OriginInv /\ CauseInv)'
  BY OriginStep, CauseStep
<1>3. CauseInv => FailsOnlyWithCause
  BY DEF CauseInv, FailsOnlyWithCause
<1> QED BY <1>1, <1>2, <1>3, TypeCorrect, PTL DEF Spec

\* Daemons that start together, however many and in whatever order their system
\* calls fall, leave the path leading to one that serves.
THEOREM StartsLeaveAServer == Spec => []SomeoneServes
<1>1. Init => Inv
  BY NamesApart
     DEF Init, Inv, TypeOK, OriginInv, ProgressInv, Undisturbed, Paths, Dirs, Steps, Early
<1>2. Inv /\ [Next]_vars => Inv'
  BY TypeStep, OriginStep, ProgressStep DEF Inv
<1>3. Inv => SomeoneServes
  BY DEF Inv, SomeoneServes, TypeOK, OriginInv, ProgressInv, Undisturbed, Paths, Early
<1> QED BY <1>1, <1>2, <1>3, PTL DEF Spec
-----------------------------------------------------------------------------
\* A route leads each command of either program to the handler named for it.
LEMMA OwnHandler ==
    ASSUME NEW c \in Calls, NEW cmd \in CommandsOf(c), NEW handler, IsRouted(cmd, handler)
    PROVE  handler = cmd.name
<1>1. \A name, resource :
         /\ Get(name, resource).name = name
         /\ IsRouted(Get(name, resource), handler) => <<"GET", resource, handler>> \in Routes
  BY DEF Get, IsRouted
<1>2. \A name, resource :
         /\ Post(name, resource).name = name
         /\ IsRouted(Post(name, resource), handler) => <<"POST", resource, handler>> \in Routes
  BY DEF Post, IsRouted
<1>3. /\ <<"GET", "healthz", handler>> \in Routes => handler = "health"
      /\ <<"GET", "raw-events", handler>> \in Routes => handler = "search raw events"
      /\ <<"GET", "raw-events/:id", handler>> \in Routes => handler = "get raw event"
      /\ <<"GET", "continuations", handler>> \in Routes => handler = "list continuations"
      /\ <<"GET", "continuations/:id", handler>> \in Routes => handler = "get continuation"
      /\ <<"GET", "continuation-relations", handler>> \in Routes => handler = "list relations"
      /\ <<"GET", "commitments", handler>> \in Routes => handler = "list commitments"
      /\ <<"GET", "advisory-forecast-signals", handler>> \in Routes => handler = "list signals"
      /\ <<"GET", "advisory-forecast-signals/:id", handler>> \in Routes => handler = "get signal"
      /\ <<"GET", "temporal-deltas", handler>> \in Routes => handler = "list deltas"
      /\ <<"GET", "temporal-deltas/:id", handler>> \in Routes => handler = "get delta"
  BY DEF Routes
<1>4. /\ <<"POST", "observe", handler>> \in Routes => handler = "observe"
      /\ <<"POST", "continuations", handler>> \in Routes => handler = "create continuation"
      /\ <<"POST", "continuation-relations", handler>> \in Routes => handler = "create relation"
      /\ <<"POST", "preflight", handler>> \in Routes => handler = "preflight"
      /\ <<"POST", "lens", handler>> \in Routes => handler = "lens"
      /\ <<"POST", "forecast", handler>> \in Routes => handler = "forecast"
      /\ <<"POST", "commit", handler>> \in Routes => handler = "commit"
      /\ <<"POST", "assimilate", handler>> \in Routes => handler = "assimilate"
  BY DEF Routes
<1>5. cmd = Get("health", "healthz") \/ cmd \in CliCommands
  BY DEF CommandsOf, McpCommands
<1>6. CASE cmd = Get("health", "healthz")
  BY <1>1, <1>3, <1>6
<1>7. CASE cmd \in CliCommands
  <2>1. CASE cmd \in {Post("observe", "observe"), Post("lens", "lens"),
                      Post("preflight", "preflight"), Post("commit", "commit"),
                      Post("create continuation", "continuations"),
                      Post("create relation", "continuation-relations"),
                      Post("forecast", "forecast"), Post("assimilate", "assimilate")}
    BY <1>2, <1>4, <2>1
  <2>. QED
    BY <1>1, <1>3, <1>7, <2>1 DEF CliCommands
<1>. QED
  BY <1>5, <1>6, <1>7
-----------------------------------------------------------------------------
\* A step of a call is a stuttering step of the daemons' starts.
LEMMA SocketStep == ASSUME [ClientNext]_clientVars PROVE [Next]_vars
BY DEF ClientNext, clientVars, vars, Refuse, Connect, ClientStep, Write, Read, ReadEnd,
       TimeOut, Accept, Handle, RefuseLong, CloseConnection, Send, Serve, Step, End

(***************************************************************************)
(* Calls leave the daemons' starts as they are: beside any clients, they   *)
(* behave as DaemonSocket describes them.                                  *)
(***************************************************************************)
THEOREM CallsLeaveStarts == ClientSpec => Init /\ [][Next]_vars
<1>1. ClientInit => Init
  BY DEF ClientInit
<1>. QED
  BY <1>1, SocketStep, PTL DEF ClientSpec

CallRecord == [program : Program, long : BOOLEAN, at : Stage, to : Daemons \cup {NoDaemon},
               received : 0 .. Total, outcome : Outcome]
ServeRecord == [at : {"pending", "accepted", "ran"}, own : BOOLEAN, ok : BOOLEAN,
                json : BOOLEAN, sent : 0 .. Total, closed : BOOLEAN]

LEMMA TotalNatural == Total \in Nat \ {0} /\ HeaderLen \in Nat \ {0} /\ HeaderLen <= Total
BY LengthAssumption DEF Total

\* A call in progress is to a daemon that has listened.
Bound == {"restrictSocket", "serving", "failed", "stopped"}

\* The state of one connection, both ends.
Connected(c) ==
    /\ call[c].at = "new" => call[c].received = 0
    /\ call[c].to \in Daemons => pc[call[c].to] \in Bound
    /\ call[c].at # "new" => call[c].to \in Daemons
    /\ call[c].received <= serve[c].sent
    /\ serve[c].sent > 0 => serve[c].at = "ran"
    /\ serve[c].json => serve[c].own
    /\ call[c].outcome = "none" => call[c].received < Total

\* What an outcome says of both ends.
Explained(c) ==
    LET got == call[c].received
    IN /\ call[c].outcome \in {"data", "text"} =>
             got = Total /\ (IsTfk(c) => serve[c].ok)
       /\ call[c].outcome = "status" => IsTfk(c) /\ got > 0 /\ ~ serve[c].ok
       /\ call[c].outcome \in {"short", "broken"} => got < Total /\ ~ Open(c)
       /\ call[c].outcome = "short" => serve[c].sent < Total
       /\ call[c].outcome = "late" => got = serve[c].sent /\ got < Total
       /\ call[c].outcome = "unreachable" => got < Total

ClientInv == /\ TypeOK /\ ClientTypeOK
             /\ \A c \in Calls : Connected(c) /\ Explained(c)

LEMMA ClientTypes == ClientTypeOK <=> /\ call \in [Calls -> CallRecord]
                                      /\ serve \in [Calls -> ServeRecord]
BY DEF ClientTypeOK, CallRecord, ServeRecord

\* A daemon that has listened and does not any more never will again.
LEMMA DeadStays ==
    ASSUME TypeOK, [Next]_vars, NEW d \in Daemons, pc[d] \in Bound
    PROVE  pc'[d] \in Bound /\ (~ Lives(d) => ~ Lives(d)')
<1>1. CASE UNCHANGED vars
  BY <1>1 DEF vars, Lives
<1>2. ASSUME NEW e \in Daemons, Start(e) \/ StartStep(e) \/ CallFails(e) \/ AcceptFails(e) \/ Killed(e)
      PROVE  pc'[d] \in Bound /\ (~ Lives(d) => ~ Lives(d)')
  BY <1>2 DEF TypeOK, Bound, Lives, Goto, Start, StartStep, CallFails, AcceptFails, Killed, InspectDir,
     CreateDir, RestrictDir, InspectSocket, RemoveSocket, BindSocket, RestrictSocket, Starting,
     Steps
<1>. QED
  BY <1>1, <1>2 DEF Next

LEMMA DaemonsKeepInv ==
    ASSUME ClientInv, [Next]_vars, UNCHANGED <<call, serve>>
    PROVE  ClientInv'
<1>1. TypeOK' /\ ClientTypeOK'
  BY TypeStep DEF ClientInv, ClientTypeOK
<1>2. ASSUME NEW c \in Calls PROVE Connected(c)' /\ Explained(c)'
  <2>1. Connected(c) /\ Explained(c) /\ TypeOK
    BY DEF ClientInv
  <2>2. call[c].to \in Daemons =>
           /\ pc'[call[c].to] \in Bound
           /\ ~ Lives(call[c].to) => ~ Lives(call[c].to)'
    BY <2>1, DeadStays DEF Connected
  <2>7. call[c].to \notin Daemons => ~ Lives(call[c].to)'
    BY DEF Lives
  <2>3. ~ Open(c) => ~ Open(c)'
    BY <2>2, <2>7 DEF Open, Lives
  <2>4. (IsTfk(c) <=> IsTfk(c)') /\ Total' = Total
    BY DEF IsTfk, Total
  <2>5. Connected(c)'
    BY <2>1, <2>2, <2>4 DEF Connected
  <2>6. Explained(c)'
    BY <2>1, <2>2, <2>3, <2>4 DEF Explained
  <2>. QED
    BY <2>5, <2>6
<1>. QED
  BY <1>1, <1>2 DEF ClientInv

\* A step of one call leaves the other calls as they were.
LEMMA OneCall ==
    ASSUME ClientInv, NEW c \in Calls, UNCHANGED vars, ClientTypeOK',
           \A d \in Calls \ {c} : call'[d] = call[d] /\ serve'[d] = serve[d],
           Connected(c)', Explained(c)'
    PROVE  ClientInv'
<1>1. TypeOK'
  BY DEF ClientInv, TypeOK, vars
<1>2. ASSUME NEW d \in Calls \ {c} PROVE Connected(d)' /\ Explained(d)'
  BY <1>2 DEF ClientInv, Connected, Explained, IsTfk, Open, Lives, Total, vars
<1>. QED
  BY <1>1, <1>2 DEF ClientInv

LEMMA CallStep ==
    ASSUME ClientInv, NEW c \in Calls, NEW s \in CallRecord, Step(c, s)
    PROVE  /\ UNCHANGED vars /\ ClientTypeOK' /\ call'[c] = s /\ serve'[c] = serve[c]
           /\ \A d \in Calls \ {c} : call'[d] = call[d] /\ serve'[d] = serve[d]
<1>1. call \in [Calls -> CallRecord] /\ serve \in [Calls -> ServeRecord]
  BY ClientTypes DEF ClientInv
<1>2. call' = [call EXCEPT ![c] = s] /\ UNCHANGED <<vars, serve>>
  BY DEF Step
<1>3. call' \in [Calls -> CallRecord] /\ serve' \in [Calls -> ServeRecord]
  BY <1>1, <1>2
<1>4. ClientTypeOK'
  BY <1>3, ClientTypes DEF ClientTypeOK, CallRecord, ServeRecord
<1>. QED
  BY <1>1, <1>2, <1>4

LEMMA ServeStep ==
    ASSUME ClientInv, NEW c \in Calls, NEW s \in ServeRecord, Serve(c, s)
    PROVE  /\ UNCHANGED vars /\ ClientTypeOK' /\ serve'[c] = s /\ call'[c] = call[c]
           /\ \A d \in Calls \ {c} : call'[d] = call[d] /\ serve'[d] = serve[d]
<1>1. call \in [Calls -> CallRecord] /\ serve \in [Calls -> ServeRecord]
  BY ClientTypes DEF ClientInv
<1>2. serve' = [serve EXCEPT ![c] = s] /\ UNCHANGED <<vars, call>>
  BY DEF Serve
<1>3. call' \in [Calls -> CallRecord] /\ serve' \in [Calls -> ServeRecord]
  BY <1>1, <1>2
<1>4. ClientTypeOK'
  BY <1>3, ClientTypes DEF ClientTypeOK, CallRecord, ServeRecord
<1>. QED
  BY <1>1, <1>2, <1>4

\* An end that is explained ends the call.
LEMMA Ends ==
    ASSUME ClientInv, NEW c \in Calls, NEW outcome \in Outcome \ {"none"}, End(c, outcome),
           LET got == call[c].received
           IN /\ outcome \in {"data", "text"} => got = Total /\ (IsTfk(c) => serve[c].ok)
              /\ outcome = "status" => IsTfk(c) /\ got > 0 /\ ~ serve[c].ok
              /\ outcome \in {"short", "broken"} => got < Total /\ ~ Open(c)
              /\ outcome = "short" => serve[c].sent < Total
              /\ outcome = "late" => got = serve[c].sent /\ got < Total
              /\ outcome = "unreachable" => got < Total
    PROVE  ClientInv'
<1> DEFINE s == [call[c] EXCEPT !.outcome = outcome]
<1>1. call[c] \in CallRecord
  BY ClientTypes DEF ClientInv
<1>2. /\ s \in CallRecord /\ s.outcome = outcome /\ s.received = call[c].received
      /\ s.program = call[c].program /\ s.at = call[c].at /\ s.to = call[c].to
  BY <1>1 DEF CallRecord
<1>3. Step(c, s)
  BY DEF End
<1> HIDE DEF s
<1>4. /\ UNCHANGED vars /\ ClientTypeOK' /\ call'[c] = s /\ serve'[c] = serve[c]
      /\ \A d \in Calls \ {c} : call'[d] = call[d] /\ serve'[d] = serve[d]
  BY <1>2, <1>3, CallStep
<1>5. Total' = Total /\ (IsTfk(c)' <=> IsTfk(c)) /\ (Open(c)' <=> Open(c))
  BY <1>2, <1>4 DEF Total, IsTfk, Open, Lives, vars
<1>6. Connected(c)'
  BY <1>2, <1>4, <1>5 DEF ClientInv, Connected, vars
<1>7. Explained(c)'
  BY <1>2, <1>4, <1>5 DEF Explained
<1>. QED
  BY <1>4, <1>6, <1>7, OneCall

LEMMA ConnectKeepsInv == ASSUME ClientInv, NEW c \in Calls, Connect(c) PROVE ClientInv'
<1>1. /\ call[c] \in CallRecord /\ Connected(c) /\ Explained(c)
      /\ call[c].at = "new" /\ call[c].outcome = "none"
  BY ClientTypes DEF ClientInv, Connect, IsIdle
<1>2. CASE Lives(path)
  <2> DEFINE s == [call[c] EXCEPT !.at = "connected", !.to = path]
  <2>1. /\ s \in CallRecord /\ s.outcome = "none" /\ s.received = call[c].received
        /\ s.program = call[c].program /\ s.at = "connected" /\ s.to = path
    BY <1>1, <1>2 DEF CallRecord, Lives, Stage
  <2>2. Step(c, s)
    BY <1>2 DEF Connect
  <2> HIDE DEF s
  <2>3. /\ UNCHANGED vars /\ ClientTypeOK' /\ call'[c] = s /\ serve'[c] = serve[c]
        /\ \A d \in Calls \ {c} : call'[d] = call[d] /\ serve'[d] = serve[d]
    BY <2>1, <2>2, CallStep
  <2>4. path \in Daemons /\ pc[path] \in Bound
    BY <1>2 DEF Lives, Bound
  <2>5. Connected(c)'
    BY <1>1, <2>1, <2>3, <2>4 DEF Connected, Total, vars
  <2>6. Explained(c)'
    BY <1>1, <2>1, <2>3 DEF Explained
  <2>. QED
    BY <2>3, <2>5, <2>6, OneCall
<1>3. CASE ~ Lives(path)
  <2>1. End(c, "unreachable") /\ call[c].received < Total
    BY <1>1, <1>3 DEF Connect, Connected
  <2>. QED
    BY <2>1, Ends DEF Outcome
<1>. QED
  BY <1>2, <1>3

LEMMA WriteKeepsInv == ASSUME ClientInv, NEW c \in Calls, Write(c) PROVE ClientInv'
<1>1. /\ call[c] \in CallRecord /\ Connected(c) /\ Explained(c)
      /\ call[c].at = "connected" /\ call[c].outcome = "none"
  BY ClientTypes DEF ClientInv, Write
<1>2. CASE Open(c)
  <2> DEFINE s == [call[c] EXCEPT !.at = "written"]
  <2>1. /\ s \in CallRecord /\ s.outcome = "none" /\ s.received = call[c].received
        /\ s.program = call[c].program /\ s.at = "written" /\ s.to = call[c].to
    BY <1>1 DEF CallRecord, Stage
  <2>2. Step(c, s)
    BY <1>2 DEF Write
  <2> HIDE DEF s
  <2>3. /\ UNCHANGED vars /\ ClientTypeOK' /\ call'[c] = s /\ serve'[c] = serve[c]
        /\ \A d \in Calls \ {c} : call'[d] = call[d] /\ serve'[d] = serve[d]
    BY <2>1, <2>2, CallStep
  <2>4. Connected(c)'
    BY <1>1, <2>1, <2>3 DEF Connected, Total, vars
  <2>5. Explained(c)'
    BY <1>1, <2>1, <2>3 DEF Explained
  <2>. QED
    BY <2>3, <2>4, <2>5, OneCall
<1>3. CASE ~ Open(c)
  <2>1. End(c, "broken") /\ call[c].received < Total
    BY <1>1, <1>3 DEF Write, Connected
  <2>. QED
    BY <1>3, <2>1, Ends DEF Outcome
<1>. QED
  BY <1>2, <1>3

\* What a response that is cut at n bytes is taken for.
LEMMA ExtractSays ==
    ASSUME ClientInv, NEW c \in Calls, NEW n \in 0 .. Total
    PROVE  /\ Extract(c, n) \in {"short", "status", "data", "text"}
           /\ Extract(c, n) = "short" => n < Total
           /\ Extract(c, n) = "status" => n > 0 /\ IsTfk(c) /\ ~ serve[c].ok
           /\ Extract(c, n) \in {"data", "text"} => n = Total /\ (IsTfk(c) => serve[c].ok)
BY TotalNatural DEF Extract

LEMMA ReadKeepsInv == ASSUME ClientInv, NEW c \in Calls, Read(c) PROVE ClientInv'
<1>1. /\ call[c] \in CallRecord /\ serve[c] \in ServeRecord /\ Connected(c) /\ Explained(c)
      /\ call[c].at = "written" /\ call[c].outcome = "none"
  BY ClientTypes DEF ClientInv, Read, Waits
<1>2. PICK n \in call[c].received + 1 .. serve[c].sent :
         Step(c, [call[c] EXCEPT !.received = n,
                    !.outcome = IF n >= Total THEN Extract(c, n) ELSE "none"])
  BY DEF Read
<1> DEFINE outcome == IF n >= Total THEN Extract(c, n) ELSE "none"
           s == [call[c] EXCEPT !.received = n, !.outcome = outcome]
<1>3. n \in 0 .. Total /\ n <= serve[c].sent
  BY <1>1, <1>2, TotalNatural DEF CallRecord, ServeRecord
<1>4. /\ n < Total => outcome = "none"
      /\ n = Total => outcome \in {"status", "data", "text"}
      /\ outcome = "status" => n > 0 /\ IsTfk(c) /\ ~ serve[c].ok
      /\ outcome \in {"data", "text"} => n = Total /\ (IsTfk(c) => serve[c].ok)
      /\ n < Total \/ n = Total
  BY <1>3, ExtractSays, TotalNatural
<1> HIDE DEF outcome
<1>5. /\ s \in CallRecord /\ s.outcome = outcome /\ s.received = n
      /\ s.program = call[c].program /\ s.at = "written" /\ s.to = call[c].to
  BY <1>1, <1>3, <1>4 DEF CallRecord, Outcome
<1>6. Step(c, s)
  BY <1>2 DEF outcome
<1> HIDE DEF s
<1>7. /\ UNCHANGED vars /\ ClientTypeOK' /\ call'[c] = s /\ serve'[c] = serve[c]
      /\ \A d \in Calls \ {c} : call'[d] = call[d] /\ serve'[d] = serve[d]
  BY <1>5, <1>6, CallStep
<1>8. Connected(c)'
  BY <1>1, <1>3, <1>4, <1>5, <1>7 DEF Connected, Total, vars
<1>9. Explained(c)'
  <2>1. (IsTfk(c)' <=> IsTfk(c)) /\ Total' = Total
    BY <1>5, <1>7 DEF IsTfk, Total
  <2>2. outcome \in {"none", "status", "data", "text"}
    BY <1>4
  <2>. QED
    BY <1>4, <1>5, <1>7, <2>1, <2>2 DEF Explained
<1>. QED
  BY <1>7, <1>8, <1>9, OneCall

LEMMA ReadEndKeepsInv == ASSUME ClientInv, NEW c \in Calls, ReadEnd(c) PROVE ClientInv'
<1>1. /\ call[c] \in CallRecord /\ Connected(c) /\ call[c].outcome = "none"
      /\ ~ Open(c) /\ call[c].received = serve[c].sent
  BY ClientTypes DEF ClientInv, ReadEnd, Waits
<1>2. call[c].received \in 0 .. Total /\ call[c].received < Total
  BY <1>1 DEF CallRecord, Connected
<1>3. CASE End(c, "broken")
  BY <1>1, <1>2, <1>3, Ends DEF Outcome
<1>4. CASE End(c, Extract(c, call[c].received))
  <2> DEFINE outcome == Extract(c, call[c].received)
  <2>1. /\ outcome \in {"short", "status"}
        /\ outcome = "status" => call[c].received > 0 /\ IsTfk(c) /\ ~ serve[c].ok
    BY <1>2, ExtractSays, TotalNatural
  <2>2. End(c, outcome)
    BY <1>4
  <2> HIDE DEF outcome
  <2>. QED
    BY <1>1, <1>2, <2>1, <2>2, Ends DEF Outcome
<1>. QED
  BY <1>3, <1>4 DEF ReadEnd

LEMMA TimeOutKeepsInv == ASSUME ClientInv, NEW c \in Calls, TimeOut(c) PROVE ClientInv'
<1>1. /\ Connected(c) /\ call[c].outcome = "none" /\ End(c, "late")
      /\ call[c].received = serve[c].sent
  BY DEF ClientInv, TimeOut, Waits
<1>. QED
  BY <1>1, Ends DEF Connected, Outcome
-----------------------------------------------------------------------------
\* A step of the daemon's side of a connection whose answer is not sent yet.
LEMMA ServesUnsent ==
    ASSUME ClientInv, NEW c \in Calls, NEW s \in ServeRecord, Serve(c, s),
           serve[c].at # "ran", s.sent = serve[c].sent, s.json => s.own,
           s.closed = serve[c].closed
    PROVE  ClientInv'
<1>1. /\ call[c] \in CallRecord /\ serve[c] \in ServeRecord /\ Connected(c) /\ Explained(c)
  BY ClientTypes DEF ClientInv
<1>2. serve[c].sent = 0 /\ call[c].received = 0
  BY <1>1, TotalNatural DEF CallRecord, ServeRecord, Connected
<1>3. /\ UNCHANGED vars /\ ClientTypeOK' /\ serve'[c] = s /\ call'[c] = call[c]
      /\ \A d \in Calls \ {c} : call'[d] = call[d] /\ serve'[d] = serve[d]
  BY ServeStep
<1>4. (IsTfk(c)' <=> IsTfk(c)) /\ Total' = Total
  BY <1>3 DEF IsTfk, Total
<1>5. Connected(c)'
  BY <1>1, <1>2, <1>3, <1>4 DEF Connected, vars
<1>6. call[c].outcome \notin {"data", "text", "status"}
  BY <1>1, <1>2, TotalNatural DEF Explained
<1>7. Explained(c)'
  BY <1>1, <1>2, <1>3, <1>4, <1>6 DEF Explained, Open, Lives, vars
<1>. QED
  BY <1>3, <1>5, <1>7, OneCall

LEMMA AcceptKeepsInv == ASSUME ClientInv, NEW c \in Calls, Accept(c) PROVE ClientInv'
<1> DEFINE s == [serve[c] EXCEPT !.at = "accepted"]
<1>1. serve[c] \in ServeRecord /\ Connected(c)
  BY ClientTypes DEF ClientInv
<1>2. /\ s \in ServeRecord /\ s.sent = serve[c].sent /\ s.closed = serve[c].closed
      /\ s.json = serve[c].json /\ s.own = serve[c].own
  BY <1>1 DEF ServeRecord
<1>3. Serve(c, s) /\ serve[c].at # "ran"
  BY DEF Accept
<1> HIDE DEF s
<1>. QED
  BY <1>1, <1>2, <1>3, ServesUnsent DEF Connected

LEMMA HandleKeepsInv == ASSUME ClientInv, NEW c \in Calls, Handle(c) PROVE ClientInv'
<1>1. serve[c] \in ServeRecord /\ Connected(c) /\ serve[c].at # "ran"
  BY ClientTypes DEF ClientInv, Handle
<1>2. PICK cmd \in CommandsOf(c) :
         \/ \E handler \in {r[3] : r \in Routes}, ok \in BOOLEAN :
               /\ IsRouted(cmd, handler)
               /\ Serve(c, [serve[c] EXCEPT !.at = "ran", !.own = handler = cmd.name,
                                            !.ok = ok, !.json = TRUE])
         \/ Serve(c, [serve[c] EXCEPT !.at = "ran"])
  BY DEF Handle
<1>3. ASSUME NEW handler, NEW ok \in BOOLEAN, IsRouted(cmd, handler),
             Serve(c, [serve[c] EXCEPT !.at = "ran", !.own = handler = cmd.name,
                                       !.ok = ok, !.json = TRUE])
      PROVE  ClientInv'
  <2> DEFINE s == [serve[c] EXCEPT !.at = "ran", !.own = TRUE, !.ok = ok, !.json = TRUE]
  <2>1. (handler = cmd.name) = TRUE
    BY <1>3, OwnHandler
  <2>2. Serve(c, s)
    BY <1>3, <2>1
  <2>3. /\ s \in ServeRecord /\ s.sent = serve[c].sent /\ s.own = TRUE
        /\ s.closed = serve[c].closed
    BY <1>1 DEF ServeRecord
  <2> HIDE DEF s
  <2>. QED
    BY <1>1, <2>2, <2>3, ServesUnsent
<1>4. CASE Serve(c, [serve[c] EXCEPT !.at = "ran"])
  <2> DEFINE s == [serve[c] EXCEPT !.at = "ran"]
  <2>1. /\ s \in ServeRecord /\ s.sent = serve[c].sent /\ s.closed = serve[c].closed
        /\ s.json = serve[c].json /\ s.own = serve[c].own
    BY <1>1 DEF ServeRecord
  <2>2. Serve(c, s)
    BY <1>4
  <2> HIDE DEF s
  <2>. QED
    BY <1>1, <2>1, <2>2, ServesUnsent DEF Connected
<1>. QED
  BY <1>2, <1>3, <1>4

LEMMA RefuseLongKeepsInv == ASSUME ClientInv, NEW c \in Calls, RefuseLong(c) PROVE ClientInv'
<1> DEFINE s == [serve[c] EXCEPT !.at = "ran"]
<1>1. serve[c] \in ServeRecord /\ Connected(c)
  BY ClientTypes DEF ClientInv
<1>2. /\ s \in ServeRecord /\ s.sent = serve[c].sent /\ s.closed = serve[c].closed
      /\ s.json = serve[c].json /\ s.own = serve[c].own
  BY <1>1 DEF ServeRecord
<1>3. Serve(c, s) /\ serve[c].at # "ran"
  BY DEF RefuseLong
<1> HIDE DEF s
<1>. QED
  BY <1>1, <1>2, <1>3, ServesUnsent DEF Connected

\* An answer whose connection closes stays as far as it was sent.
LEMMA CloseKeepsInv == ASSUME ClientInv, NEW c \in Calls, CloseConnection(c) PROVE ClientInv'
<1> DEFINE s == [serve[c] EXCEPT !.closed = TRUE]
<1>1. serve[c] \in ServeRecord /\ Connected(c) /\ Explained(c) /\ call[c].outcome = "none"
  BY ClientTypes DEF ClientInv, CloseConnection
<1>2. /\ s \in ServeRecord /\ s.sent = serve[c].sent /\ s.at = serve[c].at
      /\ s.json = serve[c].json /\ s.own = serve[c].own
  BY <1>1 DEF ServeRecord
<1>3. Serve(c, s)
  BY DEF CloseConnection
<1> HIDE DEF s
<1>4. /\ UNCHANGED vars /\ ClientTypeOK' /\ serve'[c] = s /\ call'[c] = call[c]
      /\ \A d \in Calls \ {c} : call'[d] = call[d] /\ serve'[d] = serve[d]
  BY <1>2, <1>3, ServeStep
<1>5. Connected(c)'
  BY <1>1, <1>2, <1>4 DEF Connected, Total, vars
<1>6. Explained(c)'
  BY <1>1, <1>4 DEF Explained
<1>. QED
  BY <1>4, <1>5, <1>6, OneCall

LEMMA SendKeepsInv == ASSUME ClientInv, NEW c \in Calls, Send(c) PROVE ClientInv'
<1>1. /\ call[c] \in CallRecord /\ serve[c] \in ServeRecord /\ Connected(c) /\ Explained(c)
      /\ serve[c].at = "ran" /\ call[c].outcome = "none"
  BY ClientTypes DEF ClientInv, Send
<1>2. PICK n \in serve[c].sent + 1 .. Total : Serve(c, [serve[c] EXCEPT !.sent = n])
  BY DEF Send
<1> DEFINE s == [serve[c] EXCEPT !.sent = n]
<1>3. n \in 0 .. Total /\ call[c].received <= n
  BY <1>1, <1>2, TotalNatural DEF CallRecord, ServeRecord, Connected
<1>4. /\ s \in ServeRecord /\ s.sent = n /\ s.at = "ran"
      /\ s.json = serve[c].json /\ s.own = serve[c].own
  BY <1>1, <1>3 DEF ServeRecord
<1>5. Serve(c, s)
  BY <1>2
<1> HIDE DEF s
<1>6. /\ UNCHANGED vars /\ ClientTypeOK' /\ serve'[c] = s /\ call'[c] = call[c]
      /\ \A d \in Calls \ {c} : call'[d] = call[d] /\ serve'[d] = serve[d]
  BY <1>4, <1>5, ServeStep
<1>7. Connected(c)'
  BY <1>1, <1>3, <1>4, <1>6 DEF Connected, Total, vars
<1>8. Explained(c)'
  BY <1>1, <1>6 DEF Explained
<1>. QED
  BY <1>6, <1>7, <1>8, OneCall

LEMMA ClientInvHolds == ClientSpec => []ClientInv
<1>1. ClientInit => ClientInv
  <2> SUFFICES ASSUME ClientInit PROVE ClientInv
    OBVIOUS
  <2>1. TypeOK
    BY DEF ClientInit, Init, TypeOK, Paths, Dirs, Steps
  <2>2. PICK program \in [Calls -> Program], long \in [Calls -> BOOLEAN] :
           call = [c \in Calls |-> [program |-> program[c], long |-> long[c], at |-> "new",
                                    to |-> NoDaemon, received |-> 0, outcome |-> "none"]]
    BY DEF ClientInit
  <2>3. serve = [c \in Calls |-> [at |-> "pending", own |-> FALSE, ok |-> FALSE,
                                  json |-> FALSE, sent |-> 0, closed |-> FALSE]]
    BY DEF ClientInit
  <2>4. call \in [Calls -> CallRecord] /\ serve \in [Calls -> ServeRecord]
    BY <2>2, <2>3, TotalNatural DEF CallRecord, ServeRecord, Stage, Outcome
  <2>5. "none" \notin Daemons
    BY NamesApart
  <2>6. ASSUME NEW c \in Calls PROVE Connected(c) /\ Explained(c)
    BY <2>2, <2>3, <2>5, TotalNatural DEF Connected, Explained, NoDaemon
  <2>. QED
    BY <2>1, <2>4, <2>6, ClientTypes DEF ClientInv
<1>2. ClientInv /\ [ClientNext]_clientVars => ClientInv'
  <2> SUFFICES ASSUME ClientInv, [ClientNext]_clientVars PROVE ClientInv'
    OBVIOUS
  <2>1. CASE [Next]_vars /\ UNCHANGED <<call, serve>>
    BY <2>1, DaemonsKeepInv
  <2>2. ASSUME NEW c \in Calls, Refuse(c) PROVE ClientInv'
    <3>1. End(c, "invalid")
      BY <2>2 DEF Refuse
    <3>. QED
      BY <3>1, Ends DEF Outcome
  <2>3. ASSUME NEW c \in Calls, ClientStep(c) PROVE ClientInv'
    BY <2>3, WriteKeepsInv, ReadKeepsInv, ReadEndKeepsInv, TimeOutKeepsInv DEF ClientStep
  <2>. QED
    BY <2>1, <2>2, <2>3, ConnectKeepsInv, AcceptKeepsInv, HandleKeepsInv, SendKeepsInv,
       RefuseLongKeepsInv, CloseKeepsInv
    DEF ClientNext, clientVars, vars
<1>. QED
  BY <1>1, <1>2, PTL DEF ClientSpec

\* Every variable of a running instance has its type.
THEOREM ClientTypeCorrect == ClientSpec => []ClientTypeOK
<1>1. ClientInv => ClientTypeOK
  BY DEF ClientInv
<1>. QED
  BY <1>1, ClientInvHolds, PTL

(***************************************************************************)
(* Whatever daemons and however long the response: what a call reports is  *)
(* a whole response, and of its own command's handler.                     *)
(***************************************************************************)
THEOREM CallsReportWhole == ClientSpec => []AnswersAreWhole
<1>1. ClientInv => AnswersAreWhole
  <2> SUFFICES ASSUME ClientInv, NEW c \in Calls
               PROVE  /\ call[c].outcome \in {"data", "text"} =>
                           /\ call[c].received = Total /\ serve[c].at = "ran"
                           /\ IsTfk(c) => serve[c].ok
                           /\ serve[c].json => serve[c].own
                      /\ ~ IsTfk(c) /\ call[c].outcome \notin {"none", "invalid"} =>
                           (McpAnswer(call[c].outcome).degraded <=> call[c].received < Total)
    BY DEF AnswersAreWhole
  <2>1. /\ call[c] \in CallRecord /\ serve[c] \in ServeRecord /\ Connected(c) /\ Explained(c)
    BY ClientTypes DEF ClientInv
  <2>2. call[c].outcome \in {"data", "text"} =>
           /\ call[c].received = Total /\ serve[c].at = "ran"
           /\ IsTfk(c) => serve[c].ok
           /\ serve[c].json => serve[c].own
    BY <2>1, TotalNatural DEF Connected, Explained, CallRecord, ServeRecord
  <2>3. ASSUME ~ IsTfk(c), call[c].outcome \notin {"none", "invalid"}
        PROVE  McpAnswer(call[c].outcome).degraded <=> call[c].received < Total
    <3>1. CASE call[c].outcome \in {"data", "text"}
      <4>1. McpAnswer(call[c].outcome).degraded = FALSE
        BY <3>1 DEF McpAnswer
      <4>. QED
        BY <2>2, <3>1, <4>1, TotalNatural
    <3>2. CASE call[c].outcome \notin {"data", "text"}
      <4>1. call[c].outcome \in {"short", "broken", "late", "unreachable"}
        BY <2>1, <2>3, <3>2 DEF CallRecord, Outcome, Explained
      <4>2. McpAnswer(call[c].outcome).degraded = TRUE
        BY <4>1 DEF McpAnswer
      <4>. QED
        BY <2>1, <4>1, <4>2 DEF Explained
    <3>. QED
      BY <3>1, <3>2
  <2>. QED
    BY <2>2, <2>3
<1>. QED
  BY <1>1, ClientInvHolds, PTL

(***************************************************************************)
(* A call that reached a daemon fails only for what that daemon, or the    *)
(* task of its connection, did.                                            *)
(***************************************************************************)
THEOREM CallsFailWithCause == ClientSpec => []FailsForTheDaemon
<1>1. ClientInv => FailsForTheDaemon
  <2> SUFFICES ASSUME ClientInv, NEW c \in Calls
               PROVE  /\ call[c].outcome = "short"  => ~ Open(c) /\ serve[c].sent < Total
                      /\ call[c].outcome = "broken" => ~ Open(c)
                      /\ call[c].outcome = "status" => serve[c].at = "ran" /\ ~ serve[c].ok
                      /\ call[c].outcome = "late" => serve[c].sent < Total
    BY DEF FailsForTheDaemon
  <2>1. /\ call[c] \in CallRecord /\ serve[c] \in ServeRecord /\ Connected(c) /\ Explained(c)
    BY ClientTypes DEF ClientInv
  <2>. QED
    BY <2>1, TotalNatural DEF Connected, Explained, CallRecord, ServeRecord
<1>. QED
  BY <1>1, ClientInvHolds, PTL
==============================================================================
