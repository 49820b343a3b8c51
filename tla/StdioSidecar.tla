---------------------------- MODULE StdioSidecar ----------------------------
(***************************************************************************)
(* One call of StdioForecastClient: spawn the sidecar, write it the whole  *)
(* request, close its stdin, and only then collect its output, to the end  *)
(* of both streams, and its exit status.  The sidecar is a program of the  *)
(* user's choice, behind three pipes of bounded capacity.                  *)
(***************************************************************************)
EXTENDS Naturals, Sequences, FiniteSets

CONSTANTS Program,    \* sidecars, as the sequences of their operations
          RequestLen, \* of the request line, in the unit of the pipes
          Cap         \* capacity of a pipe

\* "read" takes one unit of stdin or its end, "eof" reads up to the end,
\* "close" closes stdin, and "out" and "err" print one unit each.
Op == {"read", "eof", "close", "out", "err", "exit 0", "exit 1"}

ASSUME SidecarAssumption ==
    /\ RequestLen \in Nat \ {0}
    /\ Cap \in Nat \ {0}
    /\ \A p \in Program : /\ p \in Seq(Op) /\ p # <<>>
                          /\ p[Len(p)] \in {"exit 0", "exit 1"}

VARIABLES program,
          at,        \* operations the sidecar has done
          exit,      \* "running", its exit status, or "killed"
          reaped,    \* the client has waited for it
          stdin, stdout, stderr,     \* units in the pipes
          readable,  \* the sidecar's end of stdin is open
          open,      \* the client's end of stdin is open
          sent,      \* units the client has written
          got,       \* units of stdout the client has collected
          pc, result

pipes       == <<stdin, stdout, stderr, readable, open>>
sidecarVars == <<program, at, exit, reaped, pipes, sent, got, pc, result>>

SidecarTypeOK ==
    /\ program \in Program
    /\ at \in 0 .. Len(program)
    /\ exit \in {"running", "exit 0", "exit 1", "killed"}
    /\ reaped \in BOOLEAN /\ readable \in BOOLEAN /\ open \in BOOLEAN
    /\ {stdin, stdout, stderr} \subseteq 0 .. Cap
    /\ sent \in 0 .. RequestLen
    /\ got \in Nat
    /\ pc \in {"spawn", "write", "collect", "returned"}
    /\ result \in {"none", "signals", "failed"}

SidecarInit ==
    /\ program \in Program
    /\ at = 0 /\ exit = "running" /\ reaped = FALSE
    /\ stdin = 0 /\ stdout = 0 /\ stderr = 0
    /\ readable = TRUE /\ open = TRUE
    /\ sent = 0 /\ got = 0
    /\ pc = "spawn" /\ result = "none"

Running == pc # "spawn" /\ exit = "running"
-----------------------------------------------------------------------------
\* The client.

Return(r) == pc' = "returned" /\ result' = r

\* Spawning may fail, and then there is no process.
Spawn == /\ pc = "spawn"
         /\ \/ pc' = "write" /\ UNCHANGED <<exit, reaped, result>>
            \/ Return("failed") /\ exit' = "killed" /\ reaped' = TRUE
         /\ UNCHANGED <<program, at, pipes, sent, got>>

\* write_all: a unit fits, or the thread blocks.
WriteUnit == /\ pc = "write" /\ sent < RequestLen
             /\ readable /\ stdin < Cap
             /\ stdin' = stdin + 1
             /\ sent' = sent + 1
             /\ UNCHANGED <<program, at, exit, reaped, stdout, stderr, readable, open, got, pc, result>>

\* Variant: the error returns at once.
WriteFailsAtOnce == /\ pc = "write" /\ sent < RequestLen
                    /\ ~ readable
                    /\ Return("failed")
                    /\ UNCHANGED <<program, at, pipes, sent, got, exit, reaped>>

\* The sidecar's end is closed: kill it, wait for it, give up.
WriteFails == /\ pc = "write" /\ sent < RequestLen
              /\ ~ readable
              /\ exit' = IF exit = "running" THEN "killed" ELSE exit
              /\ reaped' = TRUE
              /\ Return("failed")
              /\ UNCHANGED <<program, at, pipes, sent, got>>

\* Variant: stdin lives as long as the child.
KeepStdin == /\ pc = "write" /\ sent = RequestLen
             /\ pc' = "collect"
             /\ UNCHANGED <<program, at, exit, reaped, pipes, sent, got, result>>

\* All is written and stdin dropped.
CloseStdin == /\ pc = "write" /\ sent = RequestLen
              /\ open' = FALSE
              /\ pc' = "collect"
              /\ UNCHANGED <<program, at, exit, reaped, stdin, stdout, stderr, readable, sent, got, result>>

\* wait_with_output takes from whichever stream has something.
Collect == /\ pc = "collect"
           /\ \/ stdout > 0 /\ stdout' = stdout - 1 /\ got' = got + 1 /\ UNCHANGED stderr
              \/ stderr > 0 /\ stderr' = stderr - 1 /\ UNCHANGED <<stdout, got>>
           /\ UNCHANGED <<program, at, exit, reaped, stdin, readable, open, sent, pc, result>>

\* Variant: the exit is awaited, not the ends of the streams.
FinishOnExit == /\ pc = "collect" /\ exit # "running"
                /\ reaped' = TRUE
                /\ Return(IF exit = "exit 0" /\ got > 0 THEN "signals" ELSE "failed")
                /\ UNCHANGED <<program, at, exit, pipes, sent, got>>

\* Both streams ended and the status is there.  Output of a successful exit
\* is a response or fails to parse as one.
Finish == /\ pc = "collect" /\ exit # "running"
          /\ stdout = 0 /\ stderr = 0
          /\ reaped' = TRUE
          /\ \/ exit = "exit 0" /\ got > 0 /\ Return("signals")
             \/ Return("failed")
          /\ UNCHANGED <<program, at, exit, pipes, sent, got>>

ClientStep == Spawn \/ WriteUnit \/ WriteFails \/ CloseStdin \/ Collect \/ Finish
-----------------------------------------------------------------------------
\* The sidecar.

Does(ops) == /\ Running
             /\ at < Len(program) /\ program[at + 1] \in ops
             /\ at' = at + 1

\* Reading up to the end takes what there is, and waits for more.
ReadOn == /\ Running /\ at < Len(program) /\ program[at + 1] = "eof"
          /\ readable /\ stdin > 0
          /\ stdin' = stdin - 1
          /\ UNCHANGED <<at, exit, stdout, stderr, readable>>

ReadEnd == /\ Does({"read", "eof"})
           /\ ~ readable \/ (stdin = 0 /\ ~ open)
           /\ UNCHANGED <<exit, stdin, stdout, stderr, readable>>

ReadOne == /\ Does({"read"}) /\ readable /\ stdin > 0
           /\ stdin' = stdin - 1
           /\ UNCHANGED <<exit, stdout, stderr, readable>>

CloseInput == /\ Does({"close"})
              /\ readable' = FALSE
              /\ stdin' = 0
              /\ UNCHANGED <<exit, stdout, stderr>>

PrintOut == /\ Does({"out"}) /\ stdout < Cap
            /\ stdout' = stdout + 1
            /\ UNCHANGED <<exit, stdin, stderr, readable>>

PrintErr == /\ Does({"err"}) /\ stderr < Cap
            /\ stderr' = stderr + 1
            /\ UNCHANGED <<exit, stdin, stdout, readable>>

\* The kernel closes the sidecar's ends; what is in stdout and stderr stays.
Exit == /\ Does({"exit 0", "exit 1"})
        /\ exit' = program[at + 1]
        /\ readable' = FALSE
        /\ stdin' = 0
        /\ UNCHANGED <<stdout, stderr>>

ProgramStep == /\ \/ ReadOn \/ ReadEnd \/ ReadOne \/ CloseInput
                  \/ PrintOut \/ PrintErr \/ Exit
               /\ UNCHANGED <<program, open, reaped, sent, got, pc, result>>

SidecarNext == ClientStep \/ ProgramStep

SidecarSpec == SidecarInit /\ [][SidecarNext]_sidecarVars

\* The client's thread runs while it is not blocked, and so does the sidecar.
FairSidecar == SidecarSpec /\ WF_sidecarVars(ClientStep) /\ WF_sidecarVars(ProgramStep)
-----------------------------------------------------------------------------
Count(ops, k) == Cardinality({i \in 1 .. k : program[i] \in ops})

\* An output pipe fills up while the request does not fit behind what was read.
FillsPipe == \E k \in 1 .. Len(program), stream \in {"out", "err"} :
                /\ Count({stream}, k) > Cap
                /\ Count({"close", "eof"}, k) = 0
                /\ Count({"read"}, k) + Cap < RequestLen

(***************************************************************************)
(* The call returns, also without a timeout, if the sidecar exits once its *)
(* input ends and its output is taken: except from a sidecar that fills a  *)
(* pipe before it has read enough (the client writes before it collects).  *)
(***************************************************************************)
CallReturns == FillsPipe \/ <> (pc = "returned")

(***************************************************************************)
(* When the call has returned the sidecar is dead and waited for: failed   *)
(* calls of a long-lived daemon leave no processes behind.                 *)
(***************************************************************************)
NoSidecarLeft == pc = "returned" => exit # "running" /\ reaped

(***************************************************************************)
(* Signals are parsed from everything a sidecar that exited with success   *)
(* printed, even if it exited long before its output was collected.        *)
(***************************************************************************)
SignalsFromWholeOutput ==
    result = "signals" => /\ exit = "exit 0"
                          /\ got = Count({"out"}, at)
                          /\ sent = RequestLen
=============================================================================
