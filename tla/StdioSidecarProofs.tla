------------------------- MODULE StdioSidecarProofs -------------------------
(***************************************************************************)
(* Theorems about a call of a sidecar, for any sidecar programs, requests  *)
(* and pipes: no process is left when it has returned, and signals come    *)
(* from all that the sidecar printed.                                      *)
(***************************************************************************)
EXTENDS StdioSidecar, FiniteSetTheorems, TLAPS

LEMMA ProgramsAreSequences ==
    ASSUME NEW p \in Program
    PROVE  Len(p) \in Nat /\ \A i \in 1 .. Len(p) : p[i] \in Op
<1>1. p \in Seq(Op)
  BY SidecarAssumption
<1>. QED
  BY <1>1

\* The two halves of the types: what is counted, and the rest.
Counted == /\ at \in 0 .. Len(program)
           /\ stdin \in 0 .. Cap /\ stdout \in 0 .. Cap /\ stderr \in 0 .. Cap
           /\ sent \in 0 .. RequestLen
           /\ got \in Nat

Named == /\ program \in Program
         /\ exit \in {"running", "exit 0", "exit 1", "killed"}
         /\ reaped \in BOOLEAN /\ readable \in BOOLEAN /\ open \in BOOLEAN
         /\ pc \in {"spawn", "write", "collect", "returned"}
         /\ result \in {"none", "signals", "failed"}

LEMMA Types == SidecarTypeOK <=> Counted /\ Named
BY DEF SidecarTypeOK, Counted, Named

\* Each unit that goes into a pipe, or out of it, fits.
LEMMA CountedStep == ASSUME Counted, Named, [SidecarNext]_sidecarVars PROVE Counted'
<1>1. Cap \in Nat \ {0} /\ RequestLen \in Nat \ {0} /\ Len(program) \in Nat
  BY SidecarAssumption, ProgramsAreSequences DEF Named
<1>2. ASSUME UNCHANGED <<program, at, stdin, stdout, stderr, sent, got>> PROVE Counted'
  BY <1>2 DEF Counted
<1>3. CASE Spawn \/ WriteFails \/ CloseStdin \/ Finish \/ UNCHANGED sidecarVars
  BY <1>2, <1>3 DEF Spawn, WriteFails, CloseStdin, Finish, sidecarVars, pipes
<1>4. CASE WriteUnit
  <2>1. /\ stdin < Cap /\ stdin' = stdin + 1 /\ sent < RequestLen /\ sent' = sent + 1
        /\ UNCHANGED <<program, at, stdout, stderr, got>>
    BY <1>4 DEF WriteUnit
  <2>. QED
    BY <1>1, <2>1 DEF Counted
<1>5. CASE Collect
  <2>1. /\ \/ stdout > 0 /\ stdout' = stdout - 1 /\ got' = got + 1 /\ UNCHANGED stderr
           \/ stderr > 0 /\ stderr' = stderr - 1 /\ UNCHANGED <<stdout, got>>
        /\ UNCHANGED <<program, at, stdin, sent>>
    BY <1>5 DEF Collect
  <2>. QED
    BY <1>1, <2>1 DEF Counted
<1>6. CASE ProgramStep
  <2>1. UNCHANGED <<program, sent, got>>
    BY <1>6 DEF ProgramStep
  <2>2. at' = at \/ (at < Len(program) /\ at' = at + 1)
    BY <1>6 DEF ProgramStep, ReadOn, ReadEnd, ReadOne, CloseInput, PrintOut, PrintErr, Exit, Does
  <2>3. stdin' = stdin \/ stdin' = 0 \/ (stdin > 0 /\ stdin' = stdin - 1)
    BY <1>6 DEF ProgramStep, ReadOn, ReadEnd, ReadOne, CloseInput, PrintOut, PrintErr, Exit
  <2>4. stdout' = stdout \/ (stdout < Cap /\ stdout' = stdout + 1)
    BY <1>6 DEF ProgramStep, ReadOn, ReadEnd, ReadOne, CloseInput, PrintOut, PrintErr, Exit
  <2>5. stderr' = stderr \/ (stderr < Cap /\ stderr' = stderr + 1)
    BY <1>6 DEF ProgramStep, ReadOn, ReadEnd, ReadOne, CloseInput, PrintOut, PrintErr, Exit
  <2>. QED
    BY <1>1, <2>1, <2>2, <2>3, <2>4, <2>5 DEF Counted
<1>. QED
  BY <1>3, <1>4, <1>5, <1>6 DEF SidecarNext, ClientStep

LEMMA NamedStep == ASSUME Named, [SidecarNext]_sidecarVars PROVE Named'
<1>1. CASE ClientStep
  BY <1>1 DEF Named, ClientStep, Spawn, WriteUnit, WriteFails, CloseStdin, Collect, Finish,
              Return, pipes
<1>2. CASE ProgramStep
  <2>1. UNCHANGED <<program, open, reaped, pc, result>>
    BY <1>2 DEF ProgramStep
  <2>2. readable' \in BOOLEAN /\ exit' \in {"running", "exit 0", "exit 1", "killed"}
    BY <1>2 DEF Named, ProgramStep, ReadOn, ReadEnd, ReadOne, CloseInput, PrintOut, PrintErr,
                Exit, Does
  <2>. QED
    BY <2>1, <2>2 DEF Named
<1>3. CASE UNCHANGED sidecarVars
  BY <1>3 DEF sidecarVars, pipes, Named
<1>. QED
  BY <1>1, <1>2, <1>3 DEF SidecarNext

LEMMA TypeStep == SidecarTypeOK /\ [SidecarNext]_sidecarVars => SidecarTypeOK'
BY Types, CountedStep, NamedStep DEF SidecarTypeOK, Counted, Named

\* Every variable of a running instance has its type.
THEOREM SidecarTypeCorrect == SidecarSpec => []SidecarTypeOK
<1>1. SidecarInit => SidecarTypeOK
  <2> SUFFICES ASSUME SidecarInit PROVE Counted /\ Named
    BY Types
  <2>1. Cap \in Nat /\ RequestLen \in Nat /\ Len(program) \in Nat
    BY SidecarAssumption, ProgramsAreSequences DEF SidecarInit
  <2>2. Counted
    BY <2>1 DEF SidecarInit, Counted
  <2>3. Named
    BY DEF SidecarInit, Named
  <2>. QED
    BY <2>2, <2>3
<1>. QED
  BY <1>1, TypeStep, PTL DEF SidecarSpec
-----------------------------------------------------------------------------
(***************************************************************************)
(* Whatever the sidecar does and wherever the call fails, it returns with  *)
(* the process dead and waited for.                                        *)
(***************************************************************************)
THEOREM CallsLeaveNoSidecar == SidecarSpec => []NoSidecarLeft
<1>1. SidecarInit => NoSidecarLeft
  BY DEF SidecarInit, NoSidecarLeft
<1>2. NoSidecarLeft /\ [SidecarNext]_sidecarVars => NoSidecarLeft'
  <2> SUFFICES ASSUME NoSidecarLeft, [SidecarNext]_sidecarVars PROVE NoSidecarLeft'
    OBVIOUS
  <2> USE DEF NoSidecarLeft
  <2>1. CASE Spawn \/ WriteFails \/ Finish
    BY <2>1 DEF Spawn, WriteFails, Finish, Return
  <2>2. CASE WriteUnit \/ CloseStdin \/ Collect
    BY <2>2 DEF WriteUnit, CloseStdin, Collect
  <2>3. CASE ProgramStep
    <3>1. UNCHANGED <<pc, reaped>> /\ exit = "running"
      BY <2>3 DEF ProgramStep, ReadOn, ReadEnd, ReadOne, CloseInput, PrintOut, PrintErr, Exit,
                  Does, Running
    <3>. QED
      BY <3>1
  <2>4. CASE UNCHANGED sidecarVars
    BY <2>4 DEF sidecarVars
  <2>. QED
    BY <2>1, <2>2, <2>3, <2>4 DEF SidecarNext, ClientStep
<1>. QED
  BY <1>1, <1>2, PTL DEF SidecarSpec
-----------------------------------------------------------------------------
\* One more operation counts for one if it is among those counted.
LEMMA CountStep ==
    ASSUME NEW ops, NEW k \in Nat
    PROVE  /\ Count(ops, k) \in Nat
           /\ program[k + 1] \in ops => Count(ops, k + 1) = Count(ops, k) + 1
           /\ program[k + 1] \notin ops => Count(ops, k + 1) = Count(ops, k)
<1> DEFINE S(n) == {i \in 1 .. n : program[i] \in ops}
<1>1. IsFiniteSet(S(k)) /\ Cardinality(S(k)) \in Nat
  <2>1. IsFiniteSet(1 .. k)
    BY FS_Interval
  <2>. QED
    BY <2>1, FS_Subset, FS_CardinalityType
<1>2. k + 1 \notin S(k)
  OBVIOUS
<1>3. program[k + 1] \in ops => S(k + 1) = S(k) \cup {k + 1}
  OBVIOUS
<1>4. program[k + 1] \notin ops => S(k + 1) = S(k)
  OBVIOUS
<1>5. Count(ops, k) = Cardinality(S(k)) /\ Count(ops, k + 1) = Cardinality(S(k + 1))
  BY DEF Count
<1> HIDE DEF S
<1>6. Cardinality(S(k) \cup {k + 1}) = Cardinality(S(k)) + 1
  BY <1>1, <1>2, FS_AddElement
<1>. QED
  BY <1>1, <1>3, <1>4, <1>5, <1>6

\* What was printed is in the pipe or collected.
Conserved ==
    /\ got + stdout = Count({"out"}, at)
    /\ pc = "collect" => sent = RequestLen
    /\ result = "signals" => /\ pc = "returned" /\ exit = "exit 0"
                             /\ stdout = 0 /\ sent = RequestLen

LEMMA ConservedStep ==
    SidecarTypeOK /\ Conserved /\ [SidecarNext]_sidecarVars => Conserved'
<1> SUFFICES ASSUME SidecarTypeOK, Conserved, [SidecarNext]_sidecarVars PROVE Conserved'
  OBVIOUS
<1>1. at \in Nat /\ got \in Nat /\ stdout \in Nat
  <2>1. Counted /\ Len(program) \in Nat /\ Cap \in Nat
    BY Types, ProgramsAreSequences, SidecarAssumption DEF Named
  <2>. QED
    BY <2>1 DEF Counted
\* A client's step prints nothing.
<1>2. ASSUME UNCHANGED <<program, at>>, got' + stdout' = got + stdout
      PROVE  got' + stdout' = Count({"out"}, at)'
  BY <1>2 DEF Conserved, Count
<1>3. CASE Spawn \/ WriteFails
  <2>1. UNCHANGED <<program, at, stdout, got>> /\ pc' # "collect"
    BY <1>3 DEF Spawn, WriteFails, Return, pipes
  <2>2. result' # "signals"
    BY <1>3 DEF Spawn, WriteFails, Return, Conserved
  <2>. QED
    BY <1>2, <2>1, <2>2 DEF Conserved
<1>4. CASE WriteUnit \/ CloseStdin
  <2>1. UNCHANGED <<program, at, stdout, got, result>> /\ pc = "write"
    BY <1>4 DEF WriteUnit, CloseStdin
  <2>2. pc' = "collect" => sent' = RequestLen
    BY <1>4 DEF WriteUnit, CloseStdin
  <2>3. result # "signals"
    BY <2>1 DEF Conserved
  <2>. QED
    BY <1>2, <2>1, <2>2, <2>3 DEF Conserved
<1>5. CASE Collect
  <2>1. UNCHANGED <<program, at, sent, pc, result>> /\ pc = "collect"
    BY <1>5 DEF Collect
  <2>2. got' + stdout' = got + stdout
    BY <1>1, <1>5 DEF Collect
  <2>. QED
    BY <1>2, <2>1, <2>2 DEF Conserved
<1>6. CASE Finish
  <2>1. UNCHANGED <<program, at, stdout, got, sent, exit>> /\ pc = "collect" /\ stdout = 0
    BY <1>6 DEF Finish, pipes
  <2>2. pc' = "returned" /\ (result' = "signals" => exit = "exit 0")
    BY <1>6 DEF Finish, Return
  <2>. QED
    BY <1>2, <2>1, <2>2 DEF Conserved
<1>7. CASE ProgramStep
  <2>1. UNCHANGED <<program, sent, got, pc, result>> /\ exit = "running"
    BY <1>7 DEF ProgramStep, ReadOn, ReadEnd, ReadOne, CloseInput, PrintOut, PrintErr, Exit,
                Does, Running
  <2>2. result # "signals"
    BY <2>1 DEF Conserved
  <2>3. CASE PrintOut
    <3>1. program[at + 1] \in {"out"} /\ at' = at + 1 /\ stdout' = stdout + 1
      BY <2>3 DEF PrintOut, Does
    <3>2. Count({"out"}, at + 1) = Count({"out"}, at) + 1 /\ Count({"out"}, at) \in Nat
      BY <1>1, <3>1, CountStep
    <3>3. Count({"out"}, at)' = Count({"out"}, at + 1)
      BY <2>1, <3>1 DEF Count
    <3>4. got' + stdout' = Count({"out"}, at)'
      BY <1>1, <2>1, <3>1, <3>2, <3>3 DEF Conserved
    <3>. QED
      BY <2>1, <2>2, <3>4 DEF Conserved
  <2>4. CASE ReadOn
    BY <1>2, <2>1, <2>2, <2>4 DEF ReadOn, Conserved
  <2>5. CASE ReadEnd \/ ReadOne \/ CloseInput \/ PrintErr \/ Exit
    <3>1. program[at + 1] \notin {"out"} /\ at' = at + 1 /\ stdout' = stdout
      BY <2>5 DEF ReadEnd, ReadOne, CloseInput, PrintErr, Exit, Does
    <3>2. Count({"out"}, at + 1) = Count({"out"}, at)
      BY <1>1, <3>1, CountStep
    <3>3. Count({"out"}, at)' = Count({"out"}, at + 1)
      BY <2>1, <3>1 DEF Count
    <3>4. got' + stdout' = Count({"out"}, at)'
      BY <2>1, <3>1, <3>2, <3>3 DEF Conserved
    <3>. QED
      BY <2>1, <2>2, <3>4 DEF Conserved
  <2>. QED
    BY <1>7, <2>3, <2>4, <2>5 DEF ProgramStep
<1>8. CASE UNCHANGED sidecarVars
  BY <1>8 DEF sidecarVars, pipes, Conserved, Count
<1>. QED
  BY <1>3, <1>4, <1>5, <1>6, <1>7, <1>8 DEF SidecarNext, ClientStep

(***************************************************************************)
(* Signals are parsed from everything a sidecar that exited with success   *)
(* printed, whatever the capacity of the pipes.                            *)
(***************************************************************************)
THEOREM SignalsAreWhole == SidecarSpec => []SignalsFromWholeOutput
<1>1. SidecarInit => Conserved
  <2> SUFFICES ASSUME SidecarInit PROVE Conserved
    OBVIOUS
  <2>1. Count({"out"}, 0) = 0
    <3>1. {i \in 1 .. 0 : program[i] \in {"out"}} = {}
      OBVIOUS
    <3>. QED
      BY <3>1, FS_EmptySet DEF Count
  <2>. QED
    BY <2>1 DEF SidecarInit, Conserved
<1>2. SidecarTypeOK /\ Conserved => SignalsFromWholeOutput
  <2> SUFFICES ASSUME SidecarTypeOK, Conserved PROVE SignalsFromWholeOutput
    OBVIOUS
  <2> SUFFICES ASSUME result = "signals"
               PROVE  /\ exit = "exit 0" /\ got = Count({"out"}, at) /\ sent = RequestLen
    BY DEF SignalsFromWholeOutput
  <2>1. got \in Nat
    BY DEF SidecarTypeOK
  <2>2. stdout = 0 /\ exit = "exit 0" /\ sent = RequestLen /\ got + stdout = Count({"out"}, at)
    BY DEF Conserved
  <2>3. got + 0 = got
    BY <2>1
  <2>. QED
    BY <2>2, <2>3
<1>. QED
  BY <1>1, <1>2, ConservedStep, SidecarTypeCorrect, PTL DEF SidecarSpec
=============================================================================
