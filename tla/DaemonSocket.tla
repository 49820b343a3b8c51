---------------------------- MODULE DaemonSocket ----------------------------
(***************************************************************************)
(* How daemons of one user come by the socket path: serve_uds of           *)
(* tfk-daemon up to its accept loop, one system call a step.  A socket at  *)
(* the path is named after the daemon that bound it.  A daemon is one      *)
(* process: it starts once, and never again after it ended.                *)
(***************************************************************************)
EXTENDS FiniteSets

CONSTANTS Daemons,
          GroupWritable   \* the umask leaves new directories group writable

\* No daemon is called like another thing that may be at the path.
ASSUME NamesApart == Daemons \cap {"none", "stale", "file"} = {}

VARIABLES path,       \* what is at the socket path
          dir,        \* the directory that holds it
          pc,         \* how far each daemon is
          overlapped, \* history: the daemons that started beside a starting one
          denied      \* history: the daemons to which the system denied a call

vars == <<path, dir, pc, overlapped, denied>>

\* "stale": the socket of a daemon that ended before; "file": anything that is
\* no socket.  "open": made by create_dir_all and not restricted yet; "unsafe":
\* writable by others, or no directory; "bare": the empty parent of a path that
\* is a file name only.
Paths == {"none", "stale", "file"} \cup Daemons
Dirs == {"absent", "open", "private", "unsafe", "bare"}

Steps == {"inspectDir", "createDir", "restrictDir", "inspectSocket", "remove",
          "bind", "restrictSocket"}
Starting(d) == pc[d] \in Steps

Init ==
  /\ path \in {"none", "stale", "file"}
  /\ dir \in Dirs \ {"open"}
  /\ dir = "absent" => path = "none"
  /\ pc = [d \in Daemons |-> "off"]
  /\ overlapped = {}
  /\ denied = {}

Start(d) ==
  LET others == {e \in Daemons : Starting(e)}
  IN /\ pc[d] = "off"
     /\ pc' = [pc EXCEPT ![d] = "inspectDir"]
     /\ overlapped' = overlapped \cup others \cup {e \in {d} : others # {}}
     /\ UNCHANGED <<path, dir, denied>>

Goto(d, step) == pc' = [pc EXCEPT ![d] = step]

\* ensure_private_dir: metadata; a directory that is there is taken or refused
\* for its mode, and never changed.  The empty path is not found.
InspectDir(d) ==
  LET refused == dir = "unsafe" \/ (dir = "open" /\ GroupWritable)
  IN /\ pc[d] = "inspectDir"
     /\ Goto(d, IF dir \in {"absent", "bare"} THEN "createDir"
                ELSE IF refused THEN "failed" ELSE "inspectSocket")
     /\ UNCHANGED <<path, dir, overlapped, denied>>

\* create_dir_all succeeds also if the directory is there by now, and for the
\* empty path, which it takes for made.
CreateDir(d) ==
  /\ pc[d] = "createDir"
  /\ dir' = IF dir = "absent" THEN "open" ELSE dir
  /\ Goto(d, "restrictDir")
  /\ UNCHANGED <<path, overlapped, denied>>

\* set_permissions, which does not find the empty path.
RestrictDir(d) ==
  /\ pc[d] = "restrictDir"
  /\ dir' = IF dir = "bare" THEN dir ELSE "private"
  /\ Goto(d, IF dir = "bare" THEN "failed" ELSE "inspectSocket")
  /\ UNCHANGED <<path, overlapped, denied>>

\* Variants: a socket is left to bind, which refuses it; and one start waits for
\* another to come past it.
InspectFileOnly(d) ==
  /\ pc[d] = "inspectSocket"
  /\ Goto(d, IF path = "file" THEN "failed" ELSE "bind")
  /\ UNCHANGED <<path, dir, overlapped, denied>>
InspectWhenAlone(d) ==
  /\ pc[d] = "inspectSocket"
  /\ \A e \in Daemons \ {d} : ~Starting(e)
  /\ Goto(d, IF path = "none" THEN "bind"
             ELSE IF path = "file" THEN "failed" ELSE "remove")
  /\ UNCHANGED <<path, dir, overlapped, denied>>

\* remove_stale_socket_if_present: symlink_metadata and the file's type.
InspectSocket(d) ==
  /\ pc[d] = "inspectSocket"
  /\ Goto(d, IF path = "none" THEN "bind"
             ELSE IF path = "file" THEN "failed" ELSE "remove")
  /\ UNCHANGED <<path, dir, overlapped, denied>>

\* remove_file, of what is at the path now; an error if that is nothing.
RemoveSocket(d) ==
  /\ pc[d] = "remove"
  /\ path' = "none"
  /\ Goto(d, IF path = "none" THEN "failed" ELSE "bind")
  /\ UNCHANGED <<dir, overlapped, denied>>

\* Variant: a start that fails here removes the socket it could not bind.
BindOrCleanUp(d) ==
  /\ pc[d] = "bind"
  /\ path' = IF path = "none" THEN d ELSE "none"
  /\ Goto(d, IF path = "none" THEN "restrictSocket" ELSE "failed")
  /\ UNCHANGED <<dir, overlapped, denied>>

\* UnixListener::bind fails on a path that is taken.
BindSocket(d) ==
  /\ pc[d] = "bind"
  /\ path' = IF path = "none" THEN d ELSE path
  /\ Goto(d, IF path = "none" THEN "restrictSocket" ELSE "failed")
  /\ UNCHANGED <<dir, overlapped, denied>>

\* restrict_socket_permissions changes the mode of what is at the path now, and
\* fails if that is nothing.
RestrictSocket(d) ==
  /\ pc[d] = "restrictSocket"
  /\ Goto(d, IF path = "none" THEN "failed" ELSE "serving")
  /\ UNCHANGED <<path, dir, overlapped, denied>>

\* Each of these calls may also be denied by the system, for reasons of its own:
\* no permission, a path too long, no memory.  What was done before stays.
CallFails(d) ==
  /\ Starting(d)
  /\ Goto(d, "failed")
  /\ denied' = denied \cup {d}
  /\ UNCHANGED <<path, dir, overlapped>>

\* An error of accept leaves serve_uds, and so ends the process; a listener
\* that is dropped leaves its socket at the path.
AcceptFails(d) ==
  /\ pc[d] = "serving"
  /\ Goto(d, "stopped")
  /\ UNCHANGED <<path, dir, overlapped, denied>>

\* A crash, or a signal: the daemon handles none.
Killed(d) ==
  /\ Starting(d) \/ pc[d] = "serving"
  /\ Goto(d, "stopped")
  /\ UNCHANGED <<path, dir, overlapped, denied>>

StartStep(d) ==
  \/ InspectDir(d) \/ CreateDir(d) \/ RestrictDir(d)
  \/ InspectSocket(d) \/ RemoveSocket(d) \/ BindSocket(d) \/ RestrictSocket(d)

Next == \E d \in Daemons :
          Start(d) \/ StartStep(d) \/ CallFails(d) \/ AcceptFails(d) \/ Killed(d)

\* Each step is a system call that returns.
Spec == Init /\ [][Next]_vars /\ \A d \in Daemons : WF_vars(StartStep(d))

TypeOK ==
  /\ path \in Paths /\ dir \in Dirs
  /\ pc \in [Daemons -> Steps \cup {"off", "serving", "failed", "stopped"}]
  /\ overlapped \subseteq Daemons /\ denied \subseteq Daemons

-----------------------------------------------------------------------------
\* A daemon that starts while no other is starting, and is denied no call,
\* serves, whatever sockets killed daemons and failed starts left at the path:
\* it fails only for a file that is no socket, a directory that is not safe, one
\* an earlier start made and never restricted, under a umask that lets the group
\* write it, or a path without a directory (every start on it fails).
FailsOnlyWithCause ==
  \A d \in Daemons :
    pc[d] = "failed" => \/ d \in overlapped \cup denied
                        \/ path = "file" \/ dir \in {"unsafe", "bare"}
                        \/ dir = "open" /\ GroupWritable

\* Daemons that start together do not all fail, each for what another does:
\* when all are done, none has ended and none was denied a call, the path leads
\* to one that serves.
SomeoneServes ==
  (/\ \A d \in Daemons : pc[d] \in {"off", "serving", "failed"}
   /\ \E d \in Daemons : pc[d] # "off"
   /\ denied = {}
   /\ path # "file" /\ dir \notin {"unsafe", "bare"})
  => path \in Daemons /\ pc[path] = "serving"

\* A start ends: it serves or fails.
StartEnds == \A d \in Daemons : Starting(d) ~> ~Starting(d)
=============================================================================
