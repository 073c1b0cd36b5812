---------------------------- MODULE MountRegistry ----------------------------
(***************************************************************************)
(* The life of mount processes on one mountpoint: the registry of mounts   *)
(* that all rvfs processes share (internal/ipc/mountreg.go), the socket    *)
(* each mount listens on (internal/ipc/server.go), start-up and shutdown   *)
(* of the mount process (internal/cli/mount.go) and the commands that look *)
(* a mount up, wait for its uploads and unmount it (internal/cli/umount.go)*)
(* The registry row and the socket file are found by mountpoint, so every  *)
(* process that mounts here uses the same ones.                            *)
(*                                                                         *)
(* A process starts once and may crash at any step. Admits names races and *)
(* failures that nothing in the code rules out and that break the          *)
(* properties below:                                                       *)
(*   "overlap"  a Lookup that finds nothing while another process is past  *)
(*              its own Lookup and not registered yet                      *)
(*   "quick"    a Lookup that finds nothing while the predecessor, already *)
(*              deregistered, has yet to remove the socket file            *)
(*   "purge"    a Register between another process's read of a stale row   *)
(*              and its removal                                            *)
(*   "bare"     a mount that goes on although it could not listen or       *)
(*              register                                                   *)
(***************************************************************************)
EXTENDS Integers, Sequences

CONSTANTS
    Procs,        \* mount processes
    Commands,     \* terminals that run umount and status commands
    Admits        \* circumstances let in

ASSUME RegistryAssumption == Admits \subseteq {"overlap", "quick", "purge", "bare"}

ASSUME NoneAssumption == "none" \notin Procs

VARIABLES
    pc,           \* where each mount process is
    row,          \* the row of the mountpoint: the pid in it, or None
    sock,         \* the process whose socket is at the socket path, or None
    mounted,      \* the kernel's mounts on the mountpoint, the visible one last
    deferred,     \* the processes with a deferred Deregister and Close
    parent,       \* what the command that launched each process has been told
    pending,      \* is there a pending operation in the metadata database
    cmd           \* the umount and status commands

vars == <<pc, row, sock, mounted, deferred, parent, pending, cmd>>

None == "none"
Rest == [pc |-> "rest", entry |-> None, saw |-> FALSE, aborted |-> FALSE]

Starting  == {"look", "purge", "mount", "listen", "register", "ready"}
Stopping  == {"stop", "deregister", "close", "closing"}
Alive(p)  == pc[p] \in Starting \cup Stopping \cup {"run"}
Listens(p) == pc[p] \in {"register", "ready", "run", "stop", "deregister", "close"}
Top       == mounted[Len(mounted)]

TypeOK ==
    /\ pc \in [Procs -> {"new", "ask", "askpurge", "run", "gone", "dead"} \cup Starting \cup Stopping]
    /\ row \in Procs \cup {None} /\ sock \in Procs \cup {None}
    /\ mounted \in Seq(Procs)
    /\ deferred \subseteq Procs
    /\ parent \in [Procs -> {"none", "waits", "ready", "failed"}]
    /\ pending \in BOOLEAN
    /\ cmd \in [Commands -> [pc : {"rest", "look", "purge", "dial", "status", "unmount"},
                             entry : Procs \cup {None}, saw : BOOLEAN, aborted : BOOLEAN]]

Init ==
    /\ pc = [p \in Procs |-> "new"]
    /\ row = None /\ sock = None /\ mounted = <<>>
    /\ deferred = {}
    /\ parent = [p \in Procs |-> "none"]
    /\ pending = FALSE
    /\ cmd = [c \in Commands |-> Rest]

Goto(p, l) == pc' = [pc EXCEPT ![p] = l]

-----------------------------------------------------------------------------
(* Start-up.                                                               *)

\* rvfs mount: the launching command is about to look the mountpoint up.
Launch(p) ==
    /\ pc[p] = "new"
    /\ Goto(p, "ask")
    /\ UNCHANGED <<row, sock, mounted, deferred, parent, pending, cmd>>

\* Its Lookup refuses a mountpoint in use, notes a stale row, or lets the
\* daemon start; its own failure leaves no process behind.
Ask(p) ==
    /\ pc[p] = "ask"
    /\ \/ row = None /\ Goto(p, "look") /\ parent' = [parent EXCEPT ![p] = "waits"]
       \/ row # None /\ ~Alive(row) /\ Goto(p, "askpurge") /\ UNCHANGED parent
       \/ row # None /\ Alive(row) /\ Goto(p, "gone") /\ parent' = [parent EXCEPT ![p] = "failed"]
    /\ UNCHANGED <<row, sock, mounted, deferred, pending, cmd>>

\* The stale row is removed by mountpoint, whatever it says by now.
AskPurge(p) ==
    /\ pc[p] = "askpurge"
    /\ row' = None
    /\ Goto(p, "look")
    /\ parent' = [parent EXCEPT ![p] = "waits"]
    /\ UNCHANGED <<sock, mounted, deferred, pending, cmd>>

\* No other process is between its Lookup and its Register, and none between
\* its Deregister and the removal of the socket file.
Clear(p) ==
    \A q \in Procs \ {p} :
        /\ "overlap" \in Admits \/ pc[q] \notin {"purge", "mount", "listen", "register"}
        /\ "quick" \in Admits \/ pc[q] \notin {"close", "closing"}

\* A start-up that fails reports FATAL, and the process exits.
GiveUp(p) ==
    /\ Goto(p, "gone")
    /\ parent' = [parent EXCEPT ![p] = "failed"]

\* Mutant: Deregister is deferred before the Lookup, so a refusal runs it.
LookDeregisters(p) ==
    /\ pc[p] = "look"
    /\ \/ row = None /\ Clear(p) /\ Goto(p, "mount") /\ UNCHANGED <<row, parent>>
       \/ row # None /\ ~Alive(row) /\ Clear(p) /\ Goto(p, "purge") /\ UNCHANGED <<row, parent>>
       \/ row # None /\ Alive(row) /\ GiveUp(p) /\ row' = None
    /\ UNCHANGED <<sock, mounted, deferred, pending, cmd>>

\* Mutant: a row is taken for stale whoever owns it.
LookBlind(p) ==
    /\ pc[p] = "look"
    /\ \/ row = None /\ Clear(p) /\ Goto(p, "mount") /\ UNCHANGED parent
       \/ row # None /\ Clear(p) /\ Goto(p, "purge") /\ UNCHANGED parent
    /\ UNCHANGED <<row, sock, mounted, deferred, pending, cmd>>

\* The daemon's own Lookup in mountRemote.
Look(p) ==
    /\ pc[p] = "look"
    /\ \/ row = None /\ Clear(p) /\ Goto(p, "mount") /\ UNCHANGED parent
       \/ row # None /\ ~Alive(row) /\ Clear(p) /\ Goto(p, "purge") /\ UNCHANGED parent
       \/ row # None /\ Alive(row) /\ GiveUp(p)
    /\ UNCHANGED <<row, sock, mounted, deferred, pending, cmd>>

Purge(p) ==
    /\ pc[p] = "purge"
    /\ row' = None
    /\ Goto(p, "mount")
    /\ UNCHANGED <<sock, mounted, deferred, parent, pending, cmd>>

\* Configuration, adapter, probe and fuse.Mount, which a mount left behind by
\* a crash makes fail.
FuseMount(p) ==
    /\ pc[p] = "mount"
    /\ mounted # <<>> => pc[Top] # "dead"
    /\ mounted' = Append(mounted, p)
    /\ Goto(p, "listen")
    /\ UNCHANGED <<row, sock, deferred, parent, pending, cmd>>

FuseMountFails(p) ==
    /\ pc[p] = "mount"
    /\ GiveUp(p)
    /\ UNCHANGED <<row, sock, mounted, deferred, pending, cmd>>

\* What happens to the start-up when one step fails: a warning, and it goes on.
Fails == IF "bare" \in Admits THEN BOOLEAN ELSE {FALSE}

\* Server.Listen replaces the socket file.
Listen(p) ==
    /\ pc[p] = "listen"
    /\ \E failed \in Fails :
        /\ sock' = IF failed THEN sock ELSE p
        /\ Goto(p, IF failed THEN "ready" ELSE "register")
    /\ UNCHANGED <<row, mounted, deferred, parent, pending, cmd>>

\* MountRegistry.Register; with it the deferred Deregister.
Register(p) ==
    /\ pc[p] = "register"
    /\ "purge" \in Admits \/ /\ \A q \in Procs : pc[q] # "askpurge"
                             /\ \A c \in Commands : cmd[c].pc # "purge"
    /\ \E failed \in Fails :
        /\ row' = IF failed THEN row ELSE p
        /\ deferred' = IF failed THEN deferred ELSE deferred \cup {p}
    /\ Goto(p, "ready")
    /\ UNCHANGED <<sock, mounted, parent, pending, cmd>>

\* The evictor is started, a first mount has pulled, READY goes to the parent.
Ready(p) ==
    /\ pc[p] = "ready"
    /\ parent' = [parent EXCEPT ![p] = "ready"]
    /\ Goto(p, "run")
    /\ UNCHANGED <<row, sock, mounted, deferred, pending, cmd>>

-----------------------------------------------------------------------------
(* Running and shutdown.                                                   *)

\* The user changes a file on the visible mount.
Write ==
    /\ mounted # <<>> /\ pc[Top] = "run" /\ ~pending
    /\ pending' = TRUE
    /\ UNCHANGED <<pc, row, sock, mounted, deferred, parent, cmd>>

\* An engine completes the pending operation.
Upload(p) ==
    /\ pc[p] = "run" /\ pending
    /\ pending' = FALSE
    /\ UNCHANGED <<pc, row, sock, mounted, deferred, parent, cmd>>

Mounted(p) == \E i \in 1..Len(mounted) : mounted[i] = p

\* The mount is gone: server.Wait returns.
WaitReturns(p) ==
    /\ pc[p] = "run" /\ ~Mounted(p)
    /\ Goto(p, "stop")
    /\ UNCHANGED <<row, sock, mounted, deferred, parent, pending, cmd>>

\* Engine.Stop and CacheLayer.Close return; the deferred calls follow.
StopEngine(p) ==
    /\ pc[p] = "stop"
    /\ Goto(p, IF p \in deferred THEN "deregister" ELSE "close")
    /\ UNCHANGED <<row, sock, mounted, deferred, parent, pending, cmd>>

Deregister(p) ==
    /\ pc[p] = "deregister"
    /\ row' = None
    /\ Goto(p, "close")
    /\ UNCHANGED <<sock, mounted, deferred, parent, pending, cmd>>

\* Server.Close closes the listener, which unlinks the socket path.
CloseListener(p) ==
    /\ pc[p] = "close"
    /\ sock' = None
    /\ Goto(p, "closing")
    /\ UNCHANGED <<row, mounted, deferred, parent, pending, cmd>>

Connected(p) == \E c \in Commands : cmd[c].pc = "status" /\ cmd[c].entry = p

\* It waits for its handlers, whose clients hang up, and removes the socket
\* path once more. The process exits.
CloseReturns(p) ==
    /\ pc[p] = "closing" /\ ~Connected(p)
    /\ sock' = None
    /\ Goto(p, "gone")
    /\ UNCHANGED <<row, mounted, deferred, parent, pending, cmd>>

\* Mutant: the parent keeps its copy of the pipe's writing end open.
CrashUntold(p) ==
    /\ Alive(p)
    /\ Goto(p, "dead")
    /\ UNCHANGED <<row, sock, mounted, deferred, parent, pending, cmd>>

\* The process is killed. Its row, its socket file and its kernel mount stay;
\* a parent that still waits reads the end of the pipe.
Crash(p) ==
    /\ Alive(p)
    /\ Goto(p, "dead")
    /\ parent' = [parent EXCEPT ![p] = IF @ = "waits" THEN "failed" ELSE @]
    /\ UNCHANGED <<row, sock, mounted, deferred, pending, cmd>>

\* The user removes a mount that a crash left behind.
CleanUp ==
    /\ mounted # <<>> /\ pc[Top] = "dead"
    /\ mounted' = SubSeq(mounted, 1, Len(mounted) - 1)
    /\ UNCHANGED <<pc, row, sock, deferred, parent, pending, cmd>>

-----------------------------------------------------------------------------
(* Commands.                                                               *)

Set(c, k) == cmd' = [cmd EXCEPT ![c] = k]

\* rvfs umount checks that the path is a mountpoint that answers.
Umount(c) ==
    /\ cmd[c].pc = "rest"
    /\ mounted # <<>> /\ pc[Top] # "dead"
    /\ Set(c, [Rest EXCEPT !.pc = "look"])
    /\ UNCHANGED <<pc, row, sock, mounted, deferred, parent, pending>>

\* Its Lookup. Without a row the command ends with an error.
CmdLook(c) ==
    /\ cmd[c].pc = "look"
    /\ Set(c, IF row = None THEN Rest
              ELSE IF Alive(row) THEN [cmd[c] EXCEPT !.pc = "dial", !.entry = row]
              ELSE [cmd[c] EXCEPT !.pc = "purge"])
    /\ UNCHANGED <<pc, row, sock, mounted, deferred, parent, pending>>

\* rvfs status lists the registry and purges a stale row as Lookup does.
List(c) ==
    /\ cmd[c].pc = "rest"
    /\ row # None /\ ~Alive(row)
    /\ Set(c, [Rest EXCEPT !.pc = "purge"])
    /\ UNCHANGED <<pc, row, sock, mounted, deferred, parent, pending>>

CmdPurge(c) ==
    /\ cmd[c].pc = "purge"
    /\ row' = None
    /\ Set(c, Rest)
    /\ UNCHANGED <<pc, sock, mounted, deferred, parent, pending>>

\* drainPending connects to the socket; if nobody answers it does not wait.
Dial(c) ==
    /\ cmd[c].pc = "dial"
    /\ Set(c, IF sock # None /\ Listens(sock)
              THEN [cmd[c] EXCEPT !.pc = "status", !.entry = sock]
              ELSE [cmd[c] EXCEPT !.pc = "unmount"])
    /\ UNCHANGED <<pc, row, sock, mounted, deferred, parent, pending>>

\* Mutant: one Status request, whatever it answers.
StatusOnce(c) ==
    /\ cmd[c].pc = "status"
    /\ Set(c, [cmd[c] EXCEPT !.pc = "unmount", !.saw = ~pending])
    /\ UNCHANGED <<pc, row, sock, mounted, deferred, parent, pending>>

\* A Status request finds the queue empty, or fails because the process is
\* gone; a process that has closed its database counts zero. Otherwise the
\* command asks again a second later.
Status(c) ==
    /\ cmd[c].pc = "status"
    /\ \/ ~pending \/ ~Alive(cmd[c].entry)
       \/ pc[cmd[c].entry] \in {"deregister", "close", "closing"}
    /\ Set(c, [cmd[c] EXCEPT !.pc = "unmount", !.saw = Alive(cmd[c].entry)])
    /\ UNCHANGED <<pc, row, sock, mounted, deferred, parent, pending>>

\* Ctrl-C ends the wait.
Abort(c) ==
    /\ cmd[c].pc = "status"
    /\ Set(c, [cmd[c] EXCEPT !.pc = "unmount", !.aborted = TRUE])
    /\ UNCHANGED <<pc, row, sock, mounted, deferred, parent, pending>>

\* fusermount -u takes the visible mount away, or fails, as on a busy mount.
Fusermount(c) ==
    /\ cmd[c].pc = "unmount"
    /\ \/ mounted # <<>> /\ mounted' = SubSeq(mounted, 1, Len(mounted) - 1)
       \/ UNCHANGED mounted
    /\ Set(c, Rest)
    /\ UNCHANGED <<pc, row, sock, deferred, parent, pending>>

-----------------------------------------------------------------------------
Process(p) == \/ Ask(p) \/ AskPurge(p) \/ Look(p) \/ Purge(p) \/ FuseMount(p)
              \/ FuseMountFails(p) \/ Listen(p) \/ Register(p) \/ Ready(p)
Shutdown(p) == WaitReturns(p) \/ StopEngine(p) \/ Deregister(p) \/ CloseListener(p)
               \/ CloseReturns(p)
Command(c) == CmdLook(c) \/ CmdPurge(c) \/ Dial(c) \/ Status(c) \/ Abort(c) \/ Fusermount(c)

Next == \/ \E p \in Procs : Process(p) \/ Shutdown(p) \/ Launch(p) \/ Upload(p) \/ Crash(p)
        \/ \E c \in Commands : Command(c) \/ Umount(c) \/ List(c)
        \/ Write \/ CleanUp

\* Processes and commands run; a user who waits for a drain either sees its
\* end or gives up. Nothing forces a mount, a write, a crash or a command.
Fairness ==
    /\ \A p \in Procs : WF_vars(Process(p)) /\ WF_vars(Shutdown(p))
    /\ \A c \in Commands : WF_vars(Command(c))

Spec == Init /\ [][Next]_vars /\ Fairness

-----------------------------------------------------------------------------
(* Correctness.                                                            *)

\* At most one living process serves the mountpoint (mount.go: the two checks
\* for a duplicate).
OneMount == \A p, q \in Procs : Alive(p) /\ Alive(q) /\ Mounted(p) /\ Mounted(q) => p = q

\* A mount that runs is found: its row and its socket are its own, whatever
\* other processes that start, fail, crash, stop or purge do to the row and
\* the path they share (mountreg.go: Lookup, Deregister; server.go: Close).
\* Then umount can ask it for its pending operations.
RunningIsFound == \A p \in Procs : pc[p] = "run" => row = p /\ sock = p

\* umount unmounts a running mount only after it has seen its queue empty, or
\* after Ctrl-C (umount.go: drainPending).
WaitedForUploads ==
    \A c \in Commands :
        cmd[c].pc = "unmount" /\ ~cmd[c].aborted /\ pc[cmd[c].entry] = "run" => cmd[c].saw

\* Whatever was launched ends up running or is gone, a process whose mount is
\* gone exits, and the parent is told; a stale row of a crashed process stands
\* in nobody's way.
LaunchSettles ==
    \A p \in Procs :
        /\ (pc[p] = "ask") ~> (pc[p] \in {"run", "gone", "dead"} /\ parent[p] \in {"ready", "failed"})
        /\ (pc[p] = "stop") ~> (pc[p] = "dead" \/ (pc[p] = "gone" /\ row # p))
=============================================================================
