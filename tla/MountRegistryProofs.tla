------------------------ MODULE MountRegistryProofs -------------------------
(***************************************************************************)
(* The safety invariants of MountRegistry, for every set of processes and  *)
(* commands. Each theorem names the circumstances it excludes; the others  *)
(* may happen.                                                             *)
(***************************************************************************)
EXTENDS MountRegistry, SequenceTheorems, TLAPS

USE NoneAssumption

\* The program counters of a process that owns the registry row.
Owning == {"ready", "run", "stop", "deregister"}

\* Those of a process from its Lookup to its Deregister.
Busy == {"purge", "mount", "listen", "register"} \cup Owning

-----------------------------------------------------------------------------
(* Types.                                                                  *)

\* Taking the last mount away leaves processes only.
LEMMA ButLast ==
    ASSUME mounted \in Seq(Procs), mounted # <<>>
    PROVE  /\ SubSeq(mounted, 1, Len(mounted) - 1) \in Seq(Procs)
           /\ Len(SubSeq(mounted, 1, Len(mounted) - 1)) = Len(mounted) - 1
           /\ \A i \in 1..Len(mounted) - 1 : SubSeq(mounted, 1, Len(mounted) - 1)[i] = mounted[i]
<1> DEFINE n == Len(mounted) - 1
<1>1. 1 \in Int /\ n \in Int /\ n >= 0 /\ \A i \in 1..n : mounted[i] \in Procs
  OBVIOUS
<1> HIDE DEF n
<1>2. /\ SubSeq(mounted, 1, n) \in Seq(Procs)
      /\ Len(SubSeq(mounted, 1, n)) = IF 1 <= n THEN n - 1 + 1 ELSE 0
      /\ \A i \in 1..n - 1 + 1 : SubSeq(mounted, 1, n)[i] = mounted[1 + i - 1]
  BY <1>1, SubSeqProperties, SMT
<1>3. /\ SubSeq(mounted, 1, n) \in Seq(Procs)
      /\ Len(SubSeq(mounted, 1, n)) = n
      /\ \A i \in 1..n : SubSeq(mounted, 1, n)[i] = mounted[i]
  BY <1>1, <1>2
<1> QED
  BY <1>3 DEF n

\* What a command's step makes of it; the other commands stay as they are.
LEMMA SetCommand ==
    ASSUME TypeOK, NEW c \in Commands, NEW k, Set(c, k)
    PROVE  \A d \in Commands : cmd'[d] = IF d = c THEN k ELSE cmd[d]
  BY DEF Set, TypeOK

\* Only a Lookup or a listing that meets a stale row leads to a purge.
LEMMA PurgeEntered ==
    ASSUME TypeOK, NEW c \in Commands, Command(c) \/ Umount(c) \/ List(c)
    PROVE  \/ \A d \in Commands : cmd'[d].pc = "purge" => cmd[d].pc = "purge"
           \/ UNCHANGED row /\ row \in Procs /\ ~Alive(row)
<1>1. CASE CmdLook(c)
  <2>1. CASE row = None
    BY <1>1, <2>1, SetCommand DEF CmdLook, Rest
  <2>2. CASE row # None /\ Alive(row)
    <3>1. Set(c, [cmd[c] EXCEPT !.pc = "dial", !.entry = row])
      BY <1>1, <2>2 DEF CmdLook
    <3>2. [cmd[c] EXCEPT !.pc = "dial", !.entry = row].pc = "dial"
      BY DEF TypeOK
    <3> QED
      BY <3>1, <3>2, SetCommand
  <2>3. CASE row # None /\ ~Alive(row)
    BY <1>1, <2>3 DEF CmdLook, TypeOK
  <2> QED
    BY <2>1, <2>2, <2>3
<1>2. CASE CmdPurge(c) \/ Fusermount(c)
  BY <1>2, SetCommand DEF CmdPurge, Fusermount, Rest
<1>3. CASE Dial(c)
  <2> DEFINE k == IF sock # None /\ Listens(sock) THEN [cmd[c] EXCEPT !.pc = "status", !.entry = sock]
                  ELSE [cmd[c] EXCEPT !.pc = "unmount"]
  <2>1. Set(c, k)
    BY <1>3 DEF Dial
  <2>2. k.pc # "purge"
    BY DEF TypeOK
  <2> HIDE DEF k
  <2> QED
    BY <2>1, <2>2, SetCommand
<1>4. CASE Status(c)
  <2> DEFINE k == [cmd[c] EXCEPT !.pc = "unmount", !.saw = Alive(cmd[c].entry)]
  <2>1. Set(c, k)
    BY <1>4 DEF Status
  <2>2. k.pc # "purge"
    BY DEF TypeOK
  <2> HIDE DEF k
  <2> QED
    BY <2>1, <2>2, SetCommand
<1>5. CASE Abort(c)
  <2> DEFINE k == [cmd[c] EXCEPT !.pc = "unmount", !.aborted = TRUE]
  <2>1. Set(c, k)
    BY <1>5 DEF Abort
  <2>2. k.pc # "purge"
    BY DEF TypeOK
  <2> HIDE DEF k
  <2> QED
    BY <2>1, <2>2, SetCommand
<1>6. CASE Umount(c)
  BY <1>6, SetCommand DEF Umount, Rest
<1>7. CASE List(c)
  BY <1>7 DEF List, TypeOK
<1> QED
  BY <1>1, <1>2, <1>3, <1>4, <1>5, <1>6, <1>7 DEF Command

\* Every step keeps the types.
LEMMA TypeStep ==
    ASSUME TypeOK, [Next]_vars
    PROVE  TypeOK'
<1>1. ASSUME NEW p \in Procs, Process(p) PROVE TypeOK'
  <2>1. row' \in Procs \cup {None} /\ sock' \in Procs \cup {None} /\ deferred' \subseteq Procs
    BY <1>1 DEF Process, Ask, AskPurge, Look, Purge, FuseMount, FuseMountFails, Listen, Register,
        Ready, TypeOK, None
  <2>2. mounted' \in Seq(Procs)
    BY <1>1 DEF Process, Ask, AskPurge, Look, Purge, FuseMount, FuseMountFails, Listen, Register,
        Ready, TypeOK
  <2>3. pc' \in [Procs -> {"new", "ask", "askpurge", "run", "gone", "dead"} \cup Starting \cup Stopping]
    BY <1>1 DEF Process, Ask, AskPurge, Look, Purge, FuseMount, FuseMountFails, Listen, Register,
        Ready, GiveUp, Goto, TypeOK, Starting, Stopping
  <2>4. parent' \in [Procs -> {"none", "waits", "ready", "failed"}]
    BY <1>1 DEF Process, Ask, AskPurge, Look, Purge, FuseMount, FuseMountFails, Listen, Register,
        Ready, GiveUp, TypeOK
  <2>5. UNCHANGED <<pending, cmd>>
    BY <1>1 DEF Process, Ask, AskPurge, Look, Purge, FuseMount, FuseMountFails, Listen, Register,
        Ready
  <2> QED
    BY <2>1, <2>2, <2>3, <2>4, <2>5 DEF TypeOK
<1>2. ASSUME NEW p \in Procs, Shutdown(p) PROVE TypeOK'
  BY <1>2 DEF Shutdown, WaitReturns, StopEngine, Deregister, CloseListener, CloseReturns, Goto,
      TypeOK, Starting, Stopping
<1>3. ASSUME NEW p \in Procs, Launch(p) \/ Upload(p) \/ Crash(p) PROVE TypeOK'
  BY <1>3 DEF Launch, Upload, Crash, Goto, TypeOK, Starting, Stopping
<1>4. ASSUME NEW c \in Commands, Command(c) \/ Umount(c) \/ List(c) PROVE TypeOK'
  <2> DEFINE Cmd == [pc : {"rest", "look", "purge", "dial", "status", "unmount"},
                     entry : Procs \cup {None}, saw : BOOLEAN, aborted : BOOLEAN]
  <2>1. mounted' \in Seq(Procs)
    BY <1>4, ButLast DEF Command, CmdLook, CmdPurge, Dial, Status, Abort, Fusermount, Umount,
        List, TypeOK
  <2>2. row' \in Procs \cup {None} /\ UNCHANGED <<pc, sock, deferred, parent, pending>>
    BY <1>4 DEF Command, CmdLook, CmdPurge, Dial, Status, Abort, Fusermount, Umount, List, TypeOK
  <2>3. Rest \in Cmd /\ cmd[c] \in Cmd
    BY DEF Rest, None, TypeOK
  <2>4. ASSUME NEW k \in Cmd, Set(c, k) PROVE cmd' \in [Commands -> Cmd]
    BY <2>4 DEF Set, TypeOK
  <2>5. cmd' \in [Commands -> Cmd]
    <3>1. CASE CmdLook(c)
      BY <3>1, <2>3, <2>4 DEF CmdLook, TypeOK
    <3>2. CASE CmdPurge(c) \/ Fusermount(c)
      BY <3>2, <2>3, <2>4 DEF CmdPurge, Fusermount
    <3>3. CASE Dial(c)
      BY <3>3, <2>3, <2>4 DEF Dial, TypeOK
    <3>4. CASE Status(c)
      <4>1. Alive(cmd[c].entry) \in BOOLEAN
        BY DEF Alive
      <4> QED
        BY <3>4, <4>1, <2>3, <2>4 DEF Status
    <3>5. CASE Abort(c)
      BY <3>5, <2>3, <2>4 DEF Abort
    <3>6. CASE Umount(c) \/ List(c)
      BY <3>6, <2>3, <2>4 DEF Umount, List
    <3> QED
      BY <1>4, <3>1, <3>2, <3>3, <3>4, <3>5, <3>6 DEF Command
  <2> QED
    BY <2>1, <2>2, <2>5 DEF TypeOK
<1>5. ASSUME Write \/ CleanUp PROVE TypeOK'
  BY <1>5, ButLast DEF Write, CleanUp, TypeOK
<1>6. ASSUME UNCHANGED vars PROVE TypeOK'
  BY <1>6 DEF vars, TypeOK
<1> QED
  BY <1>1, <1>2, <1>3, <1>4, <1>5, <1>6 DEF Next

\* Every variable keeps its type; a process that answers a command exists.
THEOREM RegistryTyped == Spec => []TypeOK
<1>1. Init => TypeOK
  <2> SUFFICES ASSUME Init PROVE TypeOK
    OBVIOUS
  <2>1. Rest \in [pc : {"rest", "look", "purge", "dial", "status", "unmount"},
                  entry : Procs \cup {None}, saw : BOOLEAN, aborted : BOOLEAN]
    BY DEF Rest
  <2>2. pending \in BOOLEAN
    BY DEF Init
  <2>3. mounted \in Seq(Procs)
    BY DEF Init
  <2> QED
    BY <2>1, <2>2, <2>3 DEF Init, TypeOK
<1> QED
  BY <1>1, TypeStep, PTL DEF Spec

-----------------------------------------------------------------------------
(* One mount. At most one process is between its Lookup and its Deregister,*)
(* because from Register on it owns the row, so that another Lookup refuses*)
(* or waits; and only such a process has a mount.                          *)

\* A process that owns the row is the one in it.
RowOwned == \A p \in Procs : pc[p] \in Owning => row = p /\ p \in deferred

\* At most one process is busy.
OneBusy == \A p, q \in Procs : pc[p] \in Busy /\ pc[q] \in Busy => p = q

\* While a stale row is being purged no process owns it.
PurgeIsStale ==
    (\E p \in Procs : pc[p] = "askpurge") \/ (\E c \in Commands : cmd[c].pc = "purge")
        => \A q \in Procs : pc[q] \notin Owning

\* Only these have a mount.
MountedIsServing == \A p \in Procs : Mounted(p) => pc[p] \in {"listen", "register", "ready", "run", "dead"}

\* The inductive invariant for one mount at a time.
MountInv == TypeOK /\ RowOwned /\ OneBusy /\ PurgeIsStale /\ MountedIsServing

\* The parts about the row survive every step.
LEMMA RowStep ==
    ASSUME {"overlap", "purge", "bare"} \cap Admits = {},
           TypeOK, RowOwned, OneBusy, PurgeIsStale, [Next]_vars
    PROVE  RowOwned' /\ OneBusy' /\ PurgeIsStale'
<1> USE DEF TypeOK, RowOwned, OneBusy, PurgeIsStale, Owning, Busy, Goto
<1>1. ASSUME NEW p \in Procs, Ask(p) PROVE RowOwned' /\ OneBusy' /\ PurgeIsStale'
  BY <1>1 DEF Ask, Alive, Starting, Stopping, None
<1>2. ASSUME NEW p \in Procs, AskPurge(p) PROVE RowOwned' /\ OneBusy' /\ PurgeIsStale'
  BY <1>2 DEF AskPurge
<1>3. ASSUME NEW p \in Procs, Look(p) PROVE RowOwned' /\ OneBusy' /\ PurgeIsStale'
  BY <1>3 DEF Look, Clear, GiveUp, Alive, Starting, Stopping, None
<1>4. ASSUME NEW p \in Procs, Purge(p) PROVE RowOwned' /\ OneBusy' /\ PurgeIsStale'
  BY <1>4 DEF Purge
<1>5. ASSUME NEW p \in Procs, FuseMount(p) \/ FuseMountFails(p)
      PROVE RowOwned' /\ OneBusy' /\ PurgeIsStale'
  BY <1>5 DEF FuseMount, FuseMountFails, GiveUp
<1>6. ASSUME NEW p \in Procs, Listen(p) PROVE RowOwned' /\ OneBusy' /\ PurgeIsStale'
  BY <1>6 DEF Listen, Fails
<1>7. ASSUME NEW p \in Procs, Register(p) PROVE RowOwned' /\ OneBusy' /\ PurgeIsStale'
  BY <1>7 DEF Register, Fails
<1>8. ASSUME NEW p \in Procs, Ready(p) PROVE RowOwned' /\ OneBusy' /\ PurgeIsStale'
  BY <1>8 DEF Ready
<1>9. ASSUME NEW p \in Procs, Shutdown(p) PROVE RowOwned' /\ OneBusy' /\ PurgeIsStale'
  BY <1>9 DEF Shutdown, WaitReturns, StopEngine, Deregister, CloseListener, CloseReturns
<1>10. ASSUME NEW p \in Procs, Launch(p) \/ Upload(p) \/ Crash(p)
       PROVE RowOwned' /\ OneBusy' /\ PurgeIsStale'
  BY <1>10 DEF Launch, Upload, Crash
<1>11. ASSUME NEW c \in Commands, Command(c) \/ Umount(c) \/ List(c)
       PROVE RowOwned' /\ OneBusy' /\ PurgeIsStale'
  <2>1. UNCHANGED <<pc, deferred>> /\ (UNCHANGED row \/ (row' = None /\ cmd[c].pc = "purge"))
    BY <1>11 DEF Command, CmdLook, CmdPurge, Dial, Status, Abort, Fusermount, Umount, List
  <2>2. \/ \A d \in Commands : cmd'[d].pc = "purge" => cmd[d].pc = "purge"
        \/ \A q \in Procs : pc[q] \notin Owning
    BY <1>11, PurgeEntered DEF Alive, Starting, Stopping
  <2> QED
    BY <2>1, <2>2
<1>12. ASSUME Write \/ CleanUp PROVE RowOwned' /\ OneBusy' /\ PurgeIsStale'
  BY <1>12 DEF Write, CleanUp
<1>13. ASSUME UNCHANGED vars PROVE RowOwned' /\ OneBusy' /\ PurgeIsStale'
  BY <1>13 DEF vars
<1> QED
  BY <1>1, <1>2, <1>3, <1>4, <1>5, <1>6, <1>7, <1>8, <1>9, <1>10, <1>11, <1>12, <1>13
  DEF Next, Process

\* Mounts are made by a process that has one from then on, and a process that
\* stops has none left.
LEMMA MountedStep ==
    ASSUME TypeOK, MountedIsServing, [Next]_vars
    PROVE  MountedIsServing'
<1> USE DEF TypeOK, MountedIsServing
<1>1. ASSUME NEW p \in Procs, FuseMount(p) PROVE MountedIsServing'
  <2>1. \A q \in Procs : Mounted(q)' => Mounted(q) \/ q = p
    BY <1>1, AppendProperties DEF FuseMount, Mounted
  <2> QED
    BY <1>1, <2>1 DEF FuseMount, Goto
<1>2. ASSUME CleanUp \/ \E c \in Commands : Fusermount(c) PROVE MountedIsServing'
  <2>1. \A q \in Procs : Mounted(q)' => Mounted(q)
    BY <1>2, ButLast DEF CleanUp, Fusermount, Mounted
  <2>2. UNCHANGED pc
    BY <1>2 DEF CleanUp, Fusermount
  <2> QED
    BY <2>1, <2>2
<1>3. ASSUME UNCHANGED mounted,
             \A p \in Procs : pc'[p] = pc[p] \/ pc'[p] = "dead" \/ ~Mounted(p)
                              \/ pc'[p] \in {"listen", "register", "ready", "run"}
      PROVE  MountedIsServing'
  BY <1>3 DEF Mounted
<1>4. ASSUME NEW p \in Procs, Process(p), ~FuseMount(p) PROVE MountedIsServing'
  BY <1>3, <1>4 DEF Process, Ask, AskPurge, Look, Purge, FuseMountFails, Listen, Register, Ready,
      GiveUp, Goto
<1>5. ASSUME NEW p \in Procs, Shutdown(p) PROVE MountedIsServing'
  BY <1>3, <1>5 DEF Shutdown, WaitReturns, StopEngine, Deregister, CloseListener, CloseReturns,
      Goto
<1>6. ASSUME NEW p \in Procs, Launch(p) \/ Upload(p) \/ Crash(p) PROVE MountedIsServing'
  BY <1>3, <1>6 DEF Launch, Upload, Crash, Goto
<1>7. ASSUME NEW c \in Commands, Command(c) \/ Umount(c) \/ List(c), ~Fusermount(c)
      PROVE  MountedIsServing'
  BY <1>3, <1>7 DEF Command, CmdLook, CmdPurge, Dial, Status, Abort, Umount, List
<1>8. ASSUME Write \/ UNCHANGED vars PROVE MountedIsServing'
  BY <1>3, <1>8 DEF Write, vars
<1> QED
  BY <1>1, <1>2, <1>4, <1>5, <1>6, <1>7, <1>8 DEF Next

\* It holds at all times unless one of three races is let happen.
LEMMA MountInvariant ==
    ASSUME {"overlap", "purge", "bare"} \cap Admits = {}
    PROVE  Spec => []MountInv
<1>1. Init => RowOwned /\ OneBusy /\ PurgeIsStale /\ MountedIsServing
  BY DEF Init, RowOwned, OneBusy, PurgeIsStale, MountedIsServing, Mounted, Owning, Busy, Rest
<1>2. MountInv /\ [Next]_vars => MountInv'
  BY TypeStep, RowStep, MountedStep DEF MountInv
<1> QED
  BY <1>1, <1>2, RegistryTyped, PTL DEF Spec, MountInv

\* At most one living process serves the mountpoint, however many start,
\* crash, stop and purge, unless one looks the mountpoint up while another has
\* done so and not yet registered, a purge removes a row registered since, or
\* a mount goes on without a row. That the socket may be removed late does no
\* harm to this property.
THEOREM AtMostOneMount ==
    ASSUME {"overlap", "purge", "bare"} \cap Admits = {}
    PROVE  Spec => []OneMount
<1>1. MountInv => OneMount
  BY DEF MountInv, OneMount, MountedIsServing, OneBusy, Busy, Owning, Alive, Starting, Stopping
<1> QED
  BY <1>1, MountInvariant, PTL

-----------------------------------------------------------------------------
(* A running mount is found, and umount waits for it. A process that closes*)
(* its server counts as present too, since it still removes the socket.    *)

\* The program counters of a process that may still touch the socket.
Present == Busy \cup {"close", "closing"}

\* The socket at the path belongs to the process that listens.
SockOwned ==
    \A p \in Procs : pc[p] \in {"register", "close"} \cup Owning => sock = p

\* There is one such process at a time.
OnePresent == \A p, q \in Procs : pc[p] \in Present /\ pc[q] \in Present => p = q

\* A row names a process that owns it or that died with it.
RowMeansOwner == row # None => pc[row] \in Owning \cup {"dead"}

\* The program counters of a process that has registered, and that it keeps to.
Past == Owning \cup {"close", "closing", "gone", "dead"}

\* The process that a command found had registered.
DialledRegistered ==
    \A c \in Commands : cmd[c].pc = "dial" => cmd[c].entry \in Procs /\ pc[cmd[c].entry] \in Past

\* The process that answers a command has listened.
AskedIsProcess ==
    \A c \in Commands :
        /\ cmd[c].pc \in {"status", "unmount"} => cmd[c].entry \in Procs
        /\ cmd[c].pc = "status" => pc[cmd[c].entry] \in Past \cup {"register"}

\* A command that did not see the queue empty was left without an answer by a
\* process that can never run again.
UnseenIsOver ==
    \A c \in Commands : cmd[c].pc = "unmount" /\ ~cmd[c].aborted /\ ~cmd[c].saw =>
        pc[cmd[c].entry] \in {"closing", "gone", "dead"}

\* The inductive invariant for the commands.
CmdInv == DialledRegistered /\ AskedIsProcess /\ UnseenIsOver
FoundInv == MountInv /\ SockOwned /\ OnePresent /\ RowMeansOwner /\ CmdInv

\* The parts about socket and row survive every step.
LEMMA SockStep ==
    ASSUME Admits = {}, MountInv, SockOwned, OnePresent, RowMeansOwner, [Next]_vars
    PROVE  SockOwned' /\ OnePresent' /\ RowMeansOwner'
<1> USE DEF MountInv, TypeOK, RowOwned, OnePresent, SockOwned, RowMeansOwner, Owning, Busy,
            Present, Goto, None
<1>1. ASSUME NEW p \in Procs, Ask(p) \/ AskPurge(p)
      PROVE  SockOwned' /\ OnePresent' /\ RowMeansOwner'
  BY <1>1 DEF Ask, AskPurge
<1>2. ASSUME NEW p \in Procs, Look(p) PROVE SockOwned' /\ OnePresent' /\ RowMeansOwner'
  BY <1>2 DEF Look, Clear, GiveUp, Alive, Starting, Stopping
<1>3. ASSUME NEW p \in Procs, Purge(p) \/ FuseMount(p) \/ FuseMountFails(p)
      PROVE  SockOwned' /\ OnePresent' /\ RowMeansOwner'
  BY <1>3 DEF Purge, FuseMount, FuseMountFails, GiveUp
<1>4. ASSUME NEW p \in Procs, Listen(p) \/ Register(p) \/ Ready(p)
      PROVE  SockOwned' /\ OnePresent' /\ RowMeansOwner'
  <2>1. CASE Listen(p)
    BY <2>1 DEF Listen, Fails
  <2>2. CASE Register(p)
    BY <2>2 DEF Register, Fails
  <2>3. CASE Ready(p)
    BY <2>3 DEF Ready
  <2> QED
    BY <1>4, <2>1, <2>2, <2>3
<1>5. ASSUME NEW p \in Procs, Shutdown(p) PROVE SockOwned' /\ OnePresent' /\ RowMeansOwner'
  BY <1>5 DEF Shutdown, WaitReturns, StopEngine, Deregister, CloseListener, CloseReturns
<1>6. ASSUME NEW p \in Procs, Launch(p) \/ Upload(p) \/ Crash(p)
      PROVE  SockOwned' /\ OnePresent' /\ RowMeansOwner'
  BY <1>6 DEF Launch, Upload, Crash
<1>7. ASSUME NEW c \in Commands, Command(c) \/ Umount(c) \/ List(c)
      PROVE  SockOwned' /\ OnePresent' /\ RowMeansOwner'
  <2>1. UNCHANGED <<pc, sock>> /\ (UNCHANGED row \/ row' = None)
    BY <1>7 DEF Command, CmdLook, CmdPurge, Dial, Status, Abort, Fusermount, Umount, List
  <2> QED
    BY <2>1
<1>8. ASSUME Write \/ CleanUp \/ UNCHANGED vars
      PROVE  SockOwned' /\ OnePresent' /\ RowMeansOwner'
  BY <1>8 DEF Write, CleanUp, vars
<1> QED
  BY <1>1, <1>2, <1>3, <1>4, <1>5, <1>6, <1>7, <1>8 DEF Next, Process

\* A process that is past its Register moves on towards its end only.
LEMMA PastRegister ==
    ASSUME TypeOK, [Next]_vars, NEW p \in Procs
    PROVE  /\ pc[p] \in Past => pc'[p] \in Past
           /\ pc[p] = "register" => pc'[p] \in Past \cup {"register"}
           /\ pc[p] \in {"closing", "gone", "dead"} => pc'[p] \in {"closing", "gone", "dead"}
<1> USE DEF TypeOK, Owning, Past, Goto
<1>1. ASSUME NEW q \in Procs, Process(q)
      PROVE  \/ pc'[p] = pc[p]
             \/ pc[p] = "register" /\ pc'[p] = "ready"
             \/ pc[p] = "ready" /\ pc'[p] = "run"
             \/ pc[p] \notin Past \cup {"register"}
  BY <1>1 DEF Process, Ask, AskPurge, Look, Purge, FuseMount, FuseMountFails, Listen, Register,
      Ready, GiveUp
<1>3. ASSUME NEW q \in Procs, Shutdown(q)
      PROVE  \/ pc'[p] = pc[p]
             \/ pc[p] \in Owning /\ pc'[p] \in Owning \cup {"close"}
             \/ pc[p] \in {"close", "closing"} /\ pc'[p] \in {"closing", "gone"}
  BY <1>3 DEF Shutdown, WaitReturns, StopEngine, Deregister, CloseListener, CloseReturns
<1>4. ASSUME NEW q \in Procs, Launch(q) \/ Upload(q) \/ Crash(q)
      PROVE  pc'[p] = pc[p] \/ pc'[p] = "dead" \/ pc[p] = "new"
  BY <1>4 DEF Launch, Upload, Crash
<1>5. ASSUME \/ \E c \in Commands : Command(c) \/ Umount(c) \/ List(c)
             \/ Write \/ CleanUp \/ UNCHANGED vars
      PROVE  pc' = pc
  BY <1>5 DEF Command, CmdLook, CmdPurge, Dial, Status, Abort, Fusermount, Umount, List, Write,
      CleanUp, vars
<1> QED
  BY <1>1, <1>3, <1>4, <1>5 DEF Next

\* What commands know survives every step of theirs.
LEMMA CommandKnows ==
    ASSUME MountInv, SockOwned, RowMeansOwner, CmdInv, NEW c \in Commands,
           Command(c) \/ Umount(c) \/ List(c)
    PROVE  CmdInv'
<1> USE DEF MountInv, CmdInv, DialledRegistered, AskedIsProcess, UnseenIsOver
<1>1. UNCHANGED pc
  BY DEF Command, CmdLook, CmdPurge, Dial, Status, Abort, Fusermount, Umount, List
<1>2. ASSUME NEW k, Set(c, k),
             /\ k.pc = "dial" => k.entry \in Procs /\ pc[k.entry] \in Past
             /\ k.pc \in {"status", "unmount"} => k.entry \in Procs
             /\ k.pc = "status" => pc[k.entry] \in Past \cup {"register"}
             /\ k.pc = "unmount" /\ ~k.aborted /\ ~k.saw => pc[k.entry] \in {"closing", "gone", "dead"}
      PROVE  CmdInv'
  BY <1>1, <1>2, SetCommand
<1>3. CASE CmdLook(c)
  <2>1. CASE row # None /\ Alive(row)
    <3> DEFINE k == [cmd[c] EXCEPT !.pc = "dial", !.entry = row]
    <3>1. Set(c, k) /\ row \in Procs
      BY <1>3, <2>1 DEF CmdLook, TypeOK
    <3>2. k.pc = "dial" /\ k.entry = row
      BY DEF TypeOK
    <3> HIDE DEF k
    <3> QED
      BY <3>1, <3>2, <2>1, <1>2 DEF RowMeansOwner, Past
  <2>2. CASE row = None
    BY <1>2, <1>3, <2>2 DEF CmdLook, Rest
  <2>3. CASE row # None /\ ~Alive(row)
    <3> DEFINE k == [cmd[c] EXCEPT !.pc = "purge"]
    <3>1. Set(c, k)
      BY <1>3, <2>3 DEF CmdLook
    <3>2. k.pc = "purge"
      BY DEF TypeOK
    <3> HIDE DEF k
    <3> QED
      BY <3>1, <3>2, <1>2
  <2> QED
    BY <2>1, <2>2, <2>3
<1>4. CASE CmdPurge(c) \/ Fusermount(c)
  BY <1>2, <1>4 DEF CmdPurge, Fusermount, Rest
<1>5. CASE Umount(c)
  BY <1>2, <1>5 DEF Umount, Rest
<1>6. CASE List(c)
  BY <1>2, <1>6 DEF List, Rest
<1>7. CASE Dial(c)
  <2>1. CASE sock # None /\ Listens(sock)
    <3> DEFINE k == [cmd[c] EXCEPT !.pc = "status", !.entry = sock]
    <3>1. Set(c, k) /\ sock \in Procs
      BY <1>7, <2>1 DEF Dial, TypeOK
    <3>2. k.pc = "status" /\ k.entry = sock
      BY DEF TypeOK
    <3>3. pc[sock] \in Past \cup {"register"}
      BY <2>1 DEF Listens, Past, Owning
    <3> HIDE DEF k
    <3> QED
      BY <3>1, <3>2, <3>3, <1>2
  <2>2. CASE ~(sock # None /\ Listens(sock))
    <3> DEFINE k == [cmd[c] EXCEPT !.pc = "unmount"]
    <3>1. Set(c, k) /\ cmd[c].pc = "dial"
      BY <1>7, <2>2 DEF Dial
    <3>2. k.pc = "unmount" /\ k.entry = cmd[c].entry
      BY DEF TypeOK
    <3>3. cmd[c].entry \in Procs /\ pc[cmd[c].entry] \in {"closing", "gone", "dead"}
      BY <3>1, <2>2 DEF SockOwned, Owning, Past, Listens, TypeOK, None
    <3> HIDE DEF k
    <3> QED
      BY <3>1, <3>2, <3>3, <1>2
  <2> QED
    BY <2>1, <2>2
<1>8. CASE Status(c)
  <2> DEFINE k == [cmd[c] EXCEPT !.pc = "unmount", !.saw = Alive(cmd[c].entry)]
  <2>1. Set(c, k) /\ cmd[c].entry \in Procs
    BY <1>8 DEF Status
  <2>2. k.pc = "unmount" /\ k.entry = cmd[c].entry /\ k.saw = Alive(cmd[c].entry)
    BY DEF TypeOK
  <2>3. pc[cmd[c].entry] \in {"closing", "gone", "dead"} \/ Alive(cmd[c].entry)
    BY <1>8, <2>1 DEF Status, Alive, Past, Owning, Starting, Stopping
  <2> HIDE DEF k
  <2> QED
    BY <2>1, <2>2, <2>3, <1>2
<1>9. CASE Abort(c)
  <2> DEFINE k == [cmd[c] EXCEPT !.pc = "unmount", !.aborted = TRUE]
  <2>1. Set(c, k) /\ cmd[c].entry \in Procs
    BY <1>9 DEF Abort
  <2>2. k.pc = "unmount" /\ k.entry = cmd[c].entry /\ k.aborted
    BY DEF TypeOK
  <2> HIDE DEF k
  <2> QED
    BY <2>1, <2>2, <1>2
<1> QED
  BY <1>3, <1>4, <1>5, <1>6, <1>7, <1>8, <1>9 DEF Command

\* Every invariant of this module survives every step.
LEMMA FoundStep ==
    ASSUME Admits = {}, FoundInv, [Next]_vars
    PROVE  FoundInv'
<1> USE DEF FoundInv
<1>1. MountInv'
  BY TypeStep, RowStep, MountedStep DEF MountInv
<1>2. SockOwned' /\ OnePresent' /\ RowMeansOwner'
  BY SockStep
<1>3. CASE \E c \in Commands : Command(c) \/ Umount(c) \/ List(c)
  BY <1>1, <1>2, <1>3, CommandKnows
<1>4. ASSUME UNCHANGED cmd PROVE CmdInv'
  BY <1>4, PastRegister DEF CmdInv, DialledRegistered, AskedIsProcess, UnseenIsOver, MountInv
<1>5. CASE ~ \E c \in Commands : Command(c) \/ Umount(c) \/ List(c)
  <2>1. UNCHANGED cmd
    BY <1>5 DEF Next, vars, Process, Ask, AskPurge, Look, Purge, FuseMount, FuseMountFails, Listen,
        Register, Ready, Shutdown, WaitReturns, StopEngine, Deregister, CloseListener, CloseReturns,
        Launch, Upload, Crash, Write, CleanUp
  <2> QED
    BY <1>1, <1>2, <1>4, <2>1
<1> QED
  BY <1>3, <1>5

\* It holds at all times unless a race is let happen.
LEMMA FoundInvariant ==
    ASSUME Admits = {}
    PROVE  Spec => []FoundInv
<1>1. Init => SockOwned /\ OnePresent /\ RowMeansOwner /\ CmdInv
  BY DEF Init, SockOwned, OnePresent, RowMeansOwner, CmdInv, DialledRegistered, AskedIsProcess,
      UnseenIsOver, Present, Owning, Busy, Rest
<1>2. FoundInv /\ [Next]_vars => FoundInv'
  BY FoundStep
<1>3. Init /\ MountInv => FoundInv
  BY <1>1 DEF FoundInv
<1>4. Spec => []MountInv
  <2>1. {"overlap", "purge", "bare"} \cap Admits = {}
    OBVIOUS
  <2> QED
    BY <2>1, MountInvariant
<1> QED
  BY <1>2, <1>3, <1>4, PTL DEF Spec

\* A running mount has the registry row and the socket of its mountpoint,
\* whatever the other processes do to the row and the path they share.
THEOREM RunningMountFound ==
    ASSUME Admits = {}
    PROVE  Spec => []RunningIsFound
<1>1. FoundInv => RunningIsFound
  BY DEF FoundInv, MountInv, RowOwned, SockOwned, RunningIsFound, Owning
<1> QED
  BY <1>1, FoundInvariant, PTL

\* umount takes a running mount away only after it has seen its queue empty,
\* or after Ctrl-C.
THEOREM UmountWaits ==
    ASSUME Admits = {}
    PROVE  Spec => []WaitedForUploads
<1>1. FoundInv => WaitedForUploads
  BY DEF FoundInv, CmdInv, UnseenIsOver, WaitedForUploads
<1> QED
  BY <1>1, FoundInvariant, PTL

=============================================================================
