----------------------------- MODULE PinsProofs -----------------------------
(***************************************************************************)
(* Pinned and clean files keep their cache file, nothing is sent to the    *)
(* prefetch channel once it is closed, and what shows as queued is on its  *)
(* way: for every set of files and terminals, every capacity of the queue  *)
(* and every number of commands.                                           *)
(***************************************************************************)
EXTENDS Pins, FiniteSetTheorems, WellFoundedInduction, TLAPS

-----------------------------------------------------------------------------
(* Induction, in the form of a set of numbers that holds 0 and is closed   *)
(* under successor, and loops, which are recursive functions.              *)

\* Induction up to n: a set with 0 and with the successor of each of its
\* members below n has every number up to n.
LEMMA Induction ==
    ASSUME NEW n \in Nat, NEW S, 0 \in S,
           \A m \in 0..n : m \in S /\ m < n => m + 1 \in S
    PROVE  0..n \subseteq S
<1> DEFINE Bad == {m \in 0..n : m \notin S}
<1> SUFFICES ASSUME Bad # {} PROVE FALSE
  OBVIOUS
<1>1. Bad \in SUBSET Nat
  OBVIOUS
<1>2. PICK x \in Bad : ~ \E y \in Bad : <<y, x>> \in OpToRel(<, Nat)
  BY <1>1, WFMin, NatLessThanWellFounded
<1>3. x \in 0..n /\ x \notin S /\ x # 0
  OBVIOUS
<1>4. x - 1 \in 0..n /\ x - 1 < n /\ x - 1 \notin S
  BY <1>3
<1>5. x - 1 \in Bad /\ <<x - 1, x>> \in OpToRel(<, Nat)
  BY <1>3, <1>4 DEF OpToRel
<1> QED
  BY <1>2, <1>5

\* f holds the values of a loop of n iterations: it begins with init, and
\* iteration m takes a value a of A to step[m][a].
IsLoop(f, n, A, init, step) ==
    /\ f \in [0..n -> A] /\ f[0] = init
    /\ \A m \in 1..n : f[m] = step[m][f[m - 1]]

\* Every loop has its values.
LEMMA LoopExists ==
    ASSUME NEW n \in Nat, NEW A, NEW init \in A, NEW step \in [1..n -> [A -> A]]
    PROVE  \E f : IsLoop(f, n, A, init, step)
<1> DEFINE Loop(m, f) == f[0] = init /\ \A k \in 1..m : f[k] = step[k][f[k - 1]]
           S == {m \in 0..n : \E f \in [0..m -> A] : Loop(m, f)}
<1>1. 0 \in S
  <2>1. [k \in 0..0 |-> init] \in [0..0 -> A] /\ Loop(0, [k \in 0..0 |-> init])
    OBVIOUS
  <2>2. \E f \in [0..0 -> A] : Loop(0, f)
    BY <2>1
  <2>3. 0 \in 0..n
    OBVIOUS
  <2> HIDE DEF Loop
  <2> QED
    BY <2>2, <2>3
<1>2. ASSUME NEW m \in 0..n, m \in S, m < n
      PROVE  m + 1 \in S
  <2>1. PICK f \in [0..m -> A] : Loop(m, f)
    BY <1>2
  <2> DEFINE g == [k \in 0..m + 1 |-> IF k <= m THEN f[k] ELSE step[m + 1][f[m]]]
  <2>2. m + 1 \in 1..n /\ m \in 0..m /\ f[m] \in A
    BY <1>2
  <2>3. step[m + 1][f[m]] \in A
    BY <2>2
  <2>4. g \in [0..m + 1 -> A]
    BY <2>3
  <2>5. g[0] = init
    BY <2>1, <2>2
  <2>6. ASSUME NEW k \in 1..m + 1
        PROVE  g[k] = step[k][g[k - 1]]
    <3>1. CASE k <= m
      <4>1. k \in 1..m /\ k - 1 \in 0..m /\ k \in 0..m + 1 /\ k - 1 \in 0..m + 1
        BY <3>1, <2>2
      <4>2. g[k] = f[k] /\ g[k - 1] = f[k - 1]
        BY <4>1, <3>1
      <4> QED
        BY <2>1, <4>1, <4>2
    <3>2. CASE k = m + 1
      <4>1. g[m + 1] = step[m + 1][f[m]] /\ g[m] = f[m]
        BY <2>2
      <4> QED
        BY <3>2, <4>1
    <3> QED
      BY <3>1, <3>2
  <2>7. Loop(m + 1, g)
    BY <2>5, <2>6
  <2> HIDE DEF g
  <2> QED
    BY <2>2, <2>4, <2>7
<1>3. n \in S
  <2> HIDE DEF S
  <2>1. \A m \in 0..n : m \in S /\ m < n => m + 1 \in S
    BY <1>2
  <2>2. 0..n \subseteq S
    BY <1>1, <2>1, Induction
  <2> QED
    BY <2>2
<1> QED
  BY <1>3 DEF IsLoop

-----------------------------------------------------------------------------
(* The invariants.                                                         *)

USE PinsAssumption

\* What a row, a download, the worker, a command and a pass may hold.
Rows      == [state : {"evicted", "downloading", "clean"}, ranges : {"none", "part", "full"}]
Downloads == [on : BOOLEAN, linked : BOOLEAN, prefetch : BOOLEAN]
Works     == [pc : {"recv", "check", "start", "range", "wait", "done"}, f : Files \cup {"none"}]
Commands  == [op : {"none", "pin", "unpin"},
              pc : {"idle", "dial", "next", "send", "cancel", "view", "remove", "mark"},
              dir : BOOLEAN, todo : SUBSET Files, f : Files \cup {"none"}]
Passes    == [by : {"none", "lru", "clean"}, pc : {"idle", "next", "mark"}, todo : SUBSET Files,
              f : Files \cup {"none"}, pins : BOOLEAN]

\* The variables that the invariants speak of have their types.
Typed ==
    /\ pinned \subseteq Files
    /\ row \in [Files -> Rows]
    /\ file \in [Files -> {"none", "part", "whole"}]
    /\ dl \in [Files -> Downloads]
    /\ prefetchQ \in Seq(Files)
    /\ worker \in Works
    /\ cmd \in [Terminals -> Commands]
    /\ pass \in Passes
    /\ mount \in {"run", "closed", "closing", "stopping", "exit"}

\* An eviction pass has the file before it or in hand.
InPass(f) == f \in pass.todo \cup {pass.f}

\* What a command holds at each of its steps; an eviction that has removed its
\* file is never cut off from the database.
Shape(c) ==
    /\ c.pc = "idle" => c.op = "none"
    /\ c.pc \in {"idle", "dial", "next"} <=> c.f = "none"
    /\ c.pc \in {"view", "remove", "mark"} => c.op = "unpin"
    /\ c.pc = "send" => c.op = "pin"
    /\ c.pc = "mark" => mount = "run"

\* All commands are like that.
CmdShape == \A t \in Terminals : Shape(cmd[t])

\* A pass has a file in hand between its removal and its mark only.
PassShape ==
    /\ pass.pc = "mark" <=> pass.f # "none"
    /\ pass.f \notin pass.todo
    /\ pass.by = "none" => pass.pc = "idle"
    /\ pass.by = "lru" => mount = "run"

\* No unpin is under way for a file that is pinned.
PinnedKept == \A f \in Files, t \in Terminals : f \in pinned => ~Evicts(t, f)

\* A pin fetches a file that is pinned, and so does the worker when it starts.
FetchedPinned == \A f \in Files, t \in Terminals : Fetches(t, f) => f \in pinned
WorkerPinned == worker.pc = "start" => worker.f \in pinned

\* A file that is wanted, or being downloaded, is not about to be evicted, and
\* a download writes to the file that the cache shows.
WantedKept == \A f \in Files : Wanted(f) => ~InPass(f)
DlKept == \A f \in Files : dl[f].on => dl[f].linked /\ ~InPass(f)
                                       /\ \A t \in Terminals : cmd[t].op = "unpin" => cmd[t].f # f

\* A pass that spares pinned files has none before it.
PassSpares == pass.pins \/ pinned \cap (pass.todo \cup {pass.f}) = {}

\* Somebody has removed the file and is about to mark its row.
MarkDue(f) == \/ pass.pc = "mark" /\ pass.f = f
              \/ \E t \in Terminals : cmd[t].pc = "mark" /\ cmd[t].f = f

\* A row that says the file is complete is backed by the cache file, but for
\* the moment between its removal and its mark.
Covered == \A f \in Files :
    /\ row[f].state = "clean" => row[f].ranges = "full"
    /\ row[f].ranges = "full" => file[f] = "whole" \/ MarkDue(f)

\* The inductive invariant.
PinsInv == /\ Typed /\ CmdShape /\ PassShape /\ PinnedKept /\ FetchedPinned /\ WorkerPinned
           /\ WantedKept /\ DlKept /\ PassSpares /\ Covered

\* The races that the proofs leave out; a reader that leaves late is no danger.
Calm == {"midpass", "repin", "busy", "late", "cut"} \cap Admits = {}

-----------------------------------------------------------------------------
(* What the model's operators do to the cache, whoever uses them.          *)

\* No cache file is lost and no row claims another cover than before.
Steady ==
    \A g \in Files :
        /\ file[g] = "whole" => file'[g] = "whole"
        /\ row'[g].ranges = "full" <=> row[g].ranges = "full"
        /\ row'[g].state = "clean" => row[g].state = "clean"

\* A command record put in the place of another one.
LEMMA SetTyped ==
    ASSUME Typed, NEW t \in Terminals, NEW c \in Commands, Set(t, c)
    PROVE  /\ cmd' \in [Terminals -> Commands]
           /\ \A u \in Terminals : cmd'[u] = IF u = t THEN c ELSE cmd[u]
BY DEF Typed, Set

\* Starting a download creates its file or goes on with the one that is there.
LEMMA StartedSteady ==
    ASSUME Typed, NEW f \in Files, NEW p \in BOOLEAN, Started(f, p)
    PROVE  /\ row' \in [Files -> Rows] /\ file' \in [Files -> {"none", "part", "whole"}]
           /\ dl' \in [Files -> Downloads] /\ dl'[f].linked
           /\ \A g \in Files \ {f} : dl'[g] = dl[g]
           /\ Steady
<1>1. file' \in [Files -> {"none", "part", "whole"}] /\ \A g \in Files : file[g] = "whole" => file'[g] = "whole"
  BY DEF Typed, Started
<1>2. dl' \in [Files -> Downloads] /\ dl'[f].linked /\ \A g \in Files \ {f} : dl'[g] = dl[g]
  BY DEF Typed, Started, Downloads
<1>3. /\ row' \in [Files -> Rows]
      /\ \A g \in Files : /\ row'[g].ranges = row[g].ranges
                          /\ row'[g].state = "clean" => row[g].state = "clean"
  <2>1. CASE DbOpen
    BY <2>1 DEF Typed, Started, Rows
  <2>2. CASE ~DbOpen
    BY <2>2 DEF Typed, Started
  <2> QED
    BY <2>1, <2>2
<1> QED
  BY <1>1, <1>2, <1>3 DEF Steady

\* Prefetch joins the download of the file or starts one.
LEMMA PrefetchSteady ==
    ASSUME Typed, NEW f \in Files, dl[f].on => dl[f].linked, Prefetch(f)
    PROVE  /\ row' \in [Files -> Rows] /\ file' \in [Files -> {"none", "part", "whole"}]
           /\ dl' \in [Files -> Downloads] /\ dl'[f].linked
           /\ \A g \in Files \ {f} : dl'[g] = dl[g]
           /\ Steady
<1>1. CASE dl[f].on /\ Join(f) /\ UNCHANGED <<row, file>>
  BY <1>1 DEF Typed, Join, Steady, Downloads
<1>2. CASE ~dl[f].on /\ Started(f, TRUE)
  BY <1>2, StartedSteady
<1> QED
  BY <1>1, <1>2 DEF Prefetch

\* Cancel ends the download of the file, and of no other; ranges that do not
\* cover the file still do not.
LEMMA CancelledSteady ==
    ASSUME Typed, NEW f \in Files, Cancelled(f)
    PROVE  /\ row' \in [Files -> Rows] /\ file' = file
           /\ dl' \in [Files -> Downloads] /\ ~dl'[f].on
           /\ \A g \in Files \ {f} : dl'[g] = dl[g]
           /\ worker' \in {worker, NoWork}
           /\ Steady
<1>1. dl' \in [Files -> Downloads] /\ ~dl'[f].on /\ \A g \in Files \ {f} : dl'[g] = dl[g]
  BY DEF Typed, Cancelled, Over, NoDl, Downloads
<1>2. /\ row' \in [Files -> Rows]
      /\ \A g \in Files : /\ row'[g].ranges = "full" <=> row[g].ranges = "full"
                          /\ row'[g].state = "clean" => row[g].state = "clean"
  <2>1. CASE dl[f].on /\ DbOpen
    BY <2>1 DEF Typed, Cancelled, Rows
  <2>2. CASE ~(dl[f].on /\ DbOpen)
    BY <2>2 DEF Typed, Cancelled
  <2> QED
    BY <2>1, <2>2
<1> QED
  BY <1>1, <1>2 DEF Cancelled, Over, Steady

\* Removing a cache file leaves its download without a name.
LEMMA RemovedShape ==
    ASSUME Typed, NEW f \in Files, Removed(f)
    PROVE  /\ file' \in [Files -> {"none", "part", "whole"}] /\ dl' \in [Files -> Downloads]
           /\ dl'[f].on = dl[f].on
           /\ \A g \in Files \ {f} : file'[g] = file[g] /\ dl'[g] = dl[g]
<1>1. /\ file' \in [Files -> {"none", "part", "whole"}]
      /\ \A g \in Files \ {f} : file'[g] = file[g]
  BY DEF Typed, Removed
<1>2. dl' \in [Files -> Downloads] /\ dl'[f].on = dl[f].on
  <2> DEFINE d == [dl[f] EXCEPT !.linked = FALSE]
  <2>1. dl[f] \in Downloads /\ dl \in [Files -> Downloads]
    BY DEF Typed
  <2>2. d \in Downloads /\ d.on = dl[f].on
    BY <2>1 DEF Downloads
  <2>3. dl' = [dl EXCEPT ![f] = d]
    BY <2>1 DEF Removed
  <2> HIDE DEF d
  <2> QED
    BY <2>1, <2>2, <2>3
<1>3. \A g \in Files \ {f} : dl'[g] = dl[g]
  BY DEF Typed, Removed
<1> QED
  BY <1>1, <1>2, <1>3

\* MarkEvicted leaves the row without ranges.
LEMMA MarkShape ==
    ASSUME Typed, NEW f \in Files, MarkEvicted(f)
    PROVE  /\ row' \in [Files -> Rows] /\ row'[f] = [state |-> "evicted", ranges |-> "none"]
           /\ \A g \in Files \ {f} : row'[g] = row[g]
BY DEF Typed, MarkEvicted, Rows

\* A step that loses no file keeps the cover of the rows, if no mark is
\* dropped that is still due.
LEMMA CoverKept ==
    ASSUME Covered, Steady, \A g \in Files : MarkDue(g) => MarkDue(g)'
    PROVE  Covered'
BY DEF Covered, Steady, MarkDue

\* A command that begins.
LEMMA BegunTyped ==
    ASSUME NEW o \in {"pin", "unpin"}, NEW fs \in SUBSET Files
    PROVE  /\ Begun(o, fs) \in Commands
           /\ Begun(o, fs).op = o /\ Begun(o, fs).pc = "dial"
           /\ Begun(o, fs).todo = fs /\ Begun(o, fs).f = "none"
<1>1. (fs = Files) \in BOOLEAN
  OBVIOUS
<1> DEFINE b == fs = Files
<1>2. b \in BOOLEAN
  BY <1>1
<1>3. Begun(o, fs) = [op |-> o, pc |-> "dial", dir |-> b, todo |-> fs, f |-> "none"]
  BY DEF Begun
<1> HIDE DEF b
<1> QED
  BY <1>2, <1>3 DEF Commands

-----------------------------------------------------------------------------
(* pin and unpin.                                                          *)

\* A pin takes only files that no pass and no unpin has before it.
LEMMA PinStep ==
    ASSUME PinsInv, Calm, NEW t \in Terminals, Pin(t)
    PROVE  PinsInv'
<1> USE DEF PinsInv
<1>1. PICK fs \in SUBSET Files :
        /\ fs \cap (pass.todo \cup {pass.f}) = {}
        /\ \A u \in Terminals, f \in fs : ~Evicts(u, f)
        /\ pinned' = pinned \cup fs
        /\ Set(t, Begun("pin", fs))
  BY DEF Pin, Calm
<1>2. PICK c \in Commands : /\ Set(t, c)
                           /\ c.op = "pin" /\ c.pc = "dial" /\ c.todo = fs /\ c.f = "none"
  BY <1>1, BegunTyped
<1>3. /\ cmd' \in [Terminals -> Commands]
      /\ \A u \in Terminals : cmd'[u] = IF u = t THEN c ELSE cmd[u]
  BY <1>2, SetTyped
<1>4. Typed'
  BY <1>1, <1>3 DEF Typed, Pin, queueVars, cacheVars
<1>5. CmdShape' /\ PassShape'
  BY <1>2, <1>3 DEF CmdShape, Shape, PassShape, Pin
<1>6. PinnedKept' /\ FetchedPinned' /\ WorkerPinned'
  BY <1>1, <1>2, <1>3 DEF PinnedKept, FetchedPinned, WorkerPinned, Evicts, Fetches, Pin, queueVars
<1>7. WantedKept'
  BY <1>1, <1>2, <1>3 DEF WantedKept, Wanted, Fetches, InPass, Pin, queueVars
<1>8. DlKept' /\ PassSpares'
  BY <1>1, <1>2, <1>3 DEF DlKept, PassSpares, InPass, Pin, cacheVars
<1>9. Covered'
  BY <1>2, <1>3 DEF Covered, MarkDue, CmdShape, Shape, Pin, cacheVars
<1> QED
  BY <1>4, <1>5, <1>6, <1>7, <1>8, <1>9

\* An unpin takes files that no pin has before it and the worker is not
\* about to start.
LEMMA UnpinStep ==
    ASSUME PinsInv, Calm, NEW t \in Terminals, Unpin(t)
    PROVE  PinsInv'
<1> USE DEF PinsInv
<1>1. PICK fs \in SUBSET Files :
        /\ ~(worker.pc = "start" /\ worker.f \in fs)
        /\ \A u \in Terminals, f \in fs : ~Fetches(u, f)
        /\ pinned' = pinned \ fs
        /\ Set(t, Begun("unpin", fs))
  BY DEF Unpin, Calm
<1>2. PICK c \in Commands : /\ Set(t, c)
                           /\ c.op = "unpin" /\ c.pc = "dial" /\ c.todo = fs /\ c.f = "none"
  BY <1>1, BegunTyped
<1>3. /\ cmd' \in [Terminals -> Commands]
      /\ \A u \in Terminals : cmd'[u] = IF u = t THEN c ELSE cmd[u]
  BY <1>2, SetTyped
<1>4. Typed'
  BY <1>1, <1>3 DEF Typed, Unpin, queueVars, cacheVars
<1>5. CmdShape' /\ PassShape'
  BY <1>2, <1>3 DEF CmdShape, Shape, PassShape, Unpin
<1>6. PinnedKept' /\ FetchedPinned' /\ WorkerPinned'
  BY <1>1, <1>2, <1>3 DEF PinnedKept, FetchedPinned, WorkerPinned, Evicts, Fetches, Unpin, queueVars
<1>7. WantedKept'
  BY <1>1, <1>2, <1>3 DEF WantedKept, Wanted, Fetches, InPass, Unpin, queueVars
<1>8. DlKept' /\ PassSpares'
  BY <1>1, <1>2, <1>3 DEF DlKept, PassSpares, InPass, Unpin, cacheVars
<1>9. Covered'
  BY <1>2, <1>3 DEF Covered, MarkDue, CmdShape, Shape, Unpin, cacheVars
<1> QED
  BY <1>4, <1>5, <1>6, <1>7, <1>8, <1>9

\* A command goes on from k to c, with fewer files before it, or ends.
Follows(c, k) ==
    /\ c \in Commands /\ Shape(c)
    /\ c.op = k.op \/ c.op = "none"
    /\ c.todo \subseteq k.todo /\ c.f \in k.todo \cup {k.f, "none"}

\* What a step of a command that is under way keeps, whatever else it does.
LEMMA CommandMoves ==
    ASSUME PinsInv, NEW t \in Terminals, NEW c, Follows(c, cmd[t]), Set(t, c),
           UNCHANGED <<pinned, pass, mount>>
    PROVE  /\ cmd' \in [Terminals -> Commands]
           /\ \A u \in Terminals : cmd'[u] = IF u = t THEN c ELSE cmd[u]
           /\ \A u \in Terminals, g \in Files : Fetches(u, g)' => Fetches(u, g)
           /\ CmdShape' /\ PassShape' /\ PinnedKept' /\ FetchedPinned' /\ PassSpares'
<1> USE DEF PinsInv
<1>1. /\ cmd' \in [Terminals -> Commands]
      /\ \A u \in Terminals : cmd'[u] = IF u = t THEN c ELSE cmd[u]
  BY SetTyped DEF Follows
<1>2. CmdShape' /\ PassShape' /\ PassSpares'
  BY <1>1 DEF CmdShape, Shape, PassShape, PassSpares, Follows
<1>3. \A u \in Terminals, g \in Files : Fetches(u, g)' => Fetches(u, g)
  BY <1>1 DEF Fetches, Follows
<1>4. PinnedKept' /\ FetchedPinned'
  BY <1>1 DEF PinnedKept, FetchedPinned, Evicts, Fetches, Follows
<1> QED
  BY <1>1, <1>2, <1>3, <1>4

\* A step of a command that leaves the cache, the worker and the channel alone,
\* and has no eviction to begin or to finish.
LEMMA CommandOnly ==
    ASSUME PinsInv, NEW t \in Terminals, NEW c, Follows(c, cmd[t]), Set(t, c),
           cmd[t].pc # "mark", cmd[t].op = "unpin" => c.f \in {cmd[t].f, "none"},
           UNCHANGED <<pinned, row, file, dl, prefetchQ, worker, pass, mount>>
    PROVE  PinsInv'
<1> USE DEF PinsInv
<1>1. /\ cmd' \in [Terminals -> Commands]
      /\ \A u \in Terminals : cmd'[u] = IF u = t THEN c ELSE cmd[u]
      /\ \A u \in Terminals, g \in Files : Fetches(u, g)' => Fetches(u, g)
      /\ CmdShape' /\ PassShape' /\ PinnedKept' /\ FetchedPinned' /\ PassSpares'
  BY CommandMoves
<1>2. Typed' /\ WorkerPinned'
  BY <1>1 DEF Typed, WorkerPinned
<1>3. WantedKept'
  BY <1>1 DEF WantedKept, Wanted, InPass
<1>4. DlKept'
  BY <1>1 DEF DlKept, InPass, Follows
<1>5. Covered'
  BY <1>1 DEF Covered, MarkDue
<1> QED
  BY <1>1, <1>2, <1>3, <1>4, <1>5

\* A command reaches the mount, or ends;
LEMMA DialStep ==
    ASSUME PinsInv, NEW t \in Terminals, Dial(t)
    PROVE  PinsInv'
<1> DEFINE c == IF mount \in {"run", "closed"} THEN [cmd[t] EXCEPT !.pc = "next"] ELSE NoCmd
<1>1. Follows(c, cmd[t]) /\ c.f \in {cmd[t].f, "none"}
  <2>1. cmd[t] \in Commands /\ Shape(cmd[t]) /\ cmd[t].pc = "dial"
    BY DEF PinsInv, Typed, CmdShape, Dial
  <2>2. CASE mount \in {"run", "closed"}
    BY <2>1, <2>2 DEF Shape, Follows, Commands
  <2>3. CASE mount \notin {"run", "closed"}
    BY <2>1, <2>3 DEF Shape, Follows, Commands, NoCmd
  <2> QED
    BY <2>2, <2>3
<1> QED
  BY <1>1, CommandOnly DEF Dial, queueVars, cacheVars

\* it ends as well when the mount hangs up.
LEMMA HangUpStep ==
    ASSUME PinsInv, NEW t \in Terminals, HangUp(t)
    PROVE  PinsInv'
<1>1. Follows(NoCmd, cmd[t]) /\ NoCmd.f = "none"
  BY DEF PinsInv, Typed, Follows, Shape, Commands, NoCmd
<1> QED
  BY <1>1, CommandOnly DEF HangUp, queueVars, cacheVars

\* A whole directory is handed to the mount at once.
LEMMA PrefetchSequentialStep ==
    ASSUME PinsInv, NEW t \in Terminals, PrefetchSequential(t)
    PROVE  PinsInv'
<1>1. PICK f \in cmd[t].todo : Ask(t, f, "send") \/ Set(t, [cmd[t] EXCEPT !.todo = @ \ {f}])
  BY DEF PrefetchSequential
<1>2. cmd[t] \in Commands /\ cmd[t].op = "pin" /\ cmd[t].pc = "next" /\ cmd[t].f = "none" /\ f \in Files
  BY DEF PinsInv, Typed, Commands, CmdShape, Shape, PrefetchSequential
<1>3. /\ Follows([cmd[t] EXCEPT !.pc = "send", !.f = f, !.todo = @ \ {f}], cmd[t])
      /\ Follows([cmd[t] EXCEPT !.todo = @ \ {f}], cmd[t])
  BY <1>2 DEF Follows, Shape, Commands
<1> QED
  BY <1>1, <1>2, <1>3, CommandOnly DEF PrefetchSequential, Ask, cacheVars

\* Unpin takes the file out of the queue.
LEMMA RemovePrefetchPathStep ==
    ASSUME PinsInv, NEW t \in Terminals, RemovePrefetchPath(t)
    PROVE  PinsInv'
<1>1. /\ Follows([cmd[t] EXCEPT !.pc = "remove"], cmd[t])
      /\ [cmd[t] EXCEPT !.pc = "remove"].f = cmd[t].f
  BY DEF PinsInv, Typed, CmdShape, Shape, Follows, Commands, RemovePrefetchPath
<1> QED
  BY <1>1, CommandOnly DEF RemovePrefetchPath, cacheVars

\* The request moves from the command to the channel.
LEMMA SendStep ==
    ASSUME PinsInv, NEW t \in Terminals, Send(t)
    PROVE  PinsInv'
<1> USE DEF PinsInv
<1> DEFINE c == [cmd[t] EXCEPT !.pc = "next", !.f = "none"]
<1>1. cmd[t].op = "pin" /\ cmd[t].pc = "send" /\ cmd[t].f \in Files
  BY DEF Send, Typed, CmdShape, Shape, Commands
<1>2. Follows(c, cmd[t]) /\ c.f = "none"
  BY <1>1 DEF Follows, Typed, Commands, Shape
<1> HIDE DEF c
<1>3. /\ cmd' \in [Terminals -> Commands]
      /\ \A u \in Terminals : cmd'[u] = IF u = t THEN c ELSE cmd[u]
      /\ \A u \in Terminals, g \in Files : Fetches(u, g)' => Fetches(u, g)
      /\ CmdShape' /\ PassShape' /\ PinnedKept' /\ FetchedPinned' /\ PassSpares'
  BY <1>2, CommandMoves DEF Send, Answer, c
<1>4. prefetchQ' \in Seq(Files) /\ \A i \in DOMAIN prefetchQ' : prefetchQ'[i] = cmd[t].f \/ (i \in DOMAIN prefetchQ /\ prefetchQ'[i] = prefetchQ[i])
  BY <1>1 DEF Send, Typed
<1>5. Typed' /\ WorkerPinned'
  BY <1>3, <1>4 DEF Typed, WorkerPinned, Send, cacheVars
<1>6. WantedKept'
  BY <1>1, <1>3, <1>4 DEF WantedKept, Wanted, InPass, Fetches, Send
<1>7. DlKept'
  BY <1>1, <1>2, <1>3 DEF DlKept, InPass, Send, cacheVars
<1>8. Covered'
  BY <1>1, <1>3 DEF Covered, MarkDue, Send, cacheVars
<1> QED
  BY <1>3, <1>5, <1>6, <1>7, <1>8

\* The request of a single file begins a download that no eviction has
\* before it, since the file is pinned.
LEMMA PrefetchNowStep ==
    ASSUME PinsInv, NEW t \in Terminals, PrefetchNow(t)
    PROVE  PinsInv'
<1> USE DEF PinsInv
<1>1. PICK f \in cmd[t].todo :
        /\ IF DbOpen THEN Prefetch(f) /\ gaveUp' = gaveUp \ {f}
                     ELSE UNCHANGED cacheVars /\ gaveUp' = gaveUp \cup ({f} \cap pinned)
        /\ Set(t, [cmd[t] EXCEPT !.todo = @ \ {f}])
  BY DEF PrefetchNow
<1> DEFINE c == [cmd[t] EXCEPT !.todo = @ \ {f}]
<1>2. cmd[t].op = "pin" /\ cmd[t].pc = "next" /\ f \in Files /\ Fetches(t, f)
  BY DEF PrefetchNow, Typed, Commands, Fetches
<1>3. Follows(c, cmd[t]) /\ c.f = cmd[t].f
  BY <1>2 DEF Follows, Typed, Commands, CmdShape, Shape
<1> HIDE DEF c
<1>4. CASE ~DbOpen
  BY <1>1, <1>2, <1>3, <1>4, CommandOnly DEF PrefetchNow, queueVars, cacheVars, c
<1>5. CASE DbOpen
  <2>1. /\ cmd' \in [Terminals -> Commands]
        /\ \A u \in Terminals : cmd'[u] = IF u = t THEN c ELSE cmd[u]
        /\ \A u \in Terminals, g \in Files : Fetches(u, g)' => Fetches(u, g)
        /\ CmdShape' /\ PassShape' /\ PinnedKept' /\ FetchedPinned' /\ PassSpares'
    BY <1>1, <1>3, CommandMoves DEF PrefetchNow, c
  <2>2. ~InPass(f) /\ \A u \in Terminals : ~Evicts(u, f)
    BY <1>2 DEF WantedKept, Wanted, PinnedKept, FetchedPinned
  <2>3. /\ row' \in [Files -> Rows] /\ file' \in [Files -> {"none", "part", "whole"}]
        /\ dl' \in [Files -> Downloads] /\ dl'[f].linked
        /\ \A g \in Files \ {f} : dl'[g] = dl[g]
        /\ Steady
    BY <1>1, <1>2, <1>5, PrefetchSteady DEF DlKept
  <2>4. Typed' /\ WorkerPinned'
    BY <2>1, <2>3 DEF Typed, WorkerPinned, PrefetchNow, queueVars
  <2>5. WantedKept'
    BY <2>1 DEF WantedKept, Wanted, InPass, PrefetchNow, queueVars
  <2>6. DlKept'
    BY <1>2, <1>3, <2>1, <2>2, <2>3 DEF DlKept, InPass, Evicts, Follows, PrefetchNow
  <2>7. Covered'
    BY <1>2, <2>1, <2>3, CoverKept DEF MarkDue, PrefetchNow
  <2> QED
    BY <2>1, <2>4, <2>5, <2>6, <2>7
<1> QED
  BY <1>4, <1>5

\* The download of the file to be evicted is over before its file goes.
LEMMA EvictStep ==
    ASSUME PinsInv, NEW t \in Terminals, Evict(t)
    PROVE  PinsInv'
<1> USE DEF PinsInv
<1>1. PICK f \in cmd[t].todo : Ask(t, f, "view") /\ Cancelled(f)
  BY DEF Evict
<1> DEFINE c == [cmd[t] EXCEPT !.pc = "view", !.f = f, !.todo = @ \ {f}]
<1>2. cmd[t].op = "unpin" /\ cmd[t].pc = "next" /\ f \in Files
  BY DEF Evict, Typed, Commands
<1>3. Follows(c, cmd[t]) /\ c.f = f
  <2>1. cmd[t] \in Commands
    BY DEF Typed
  <2>2. c \in Commands /\ c.f = f /\ c.pc = "view" /\ c.op = "unpin" /\ c.todo \subseteq cmd[t].todo
    BY <1>2, <2>1 DEF Commands
  <2> HIDE DEF c
  <2> QED
    BY <1>2, <2>2 DEF Follows, Shape
<1> HIDE DEF c
<1>4. /\ cmd' \in [Terminals -> Commands]
      /\ \A u \in Terminals : cmd'[u] = IF u = t THEN c ELSE cmd[u]
      /\ \A u \in Terminals, g \in Files : Fetches(u, g)' => Fetches(u, g)
      /\ CmdShape' /\ PassShape' /\ PinnedKept' /\ FetchedPinned' /\ PassSpares'
  BY <1>1, <1>3, CommandMoves DEF Evict, Ask, c
<1>5. /\ row' \in [Files -> Rows] /\ file' = file
      /\ dl' \in [Files -> Downloads] /\ ~dl'[f].on
      /\ \A g \in Files \ {f} : dl'[g] = dl[g]
      /\ worker' \in {worker, NoWork}
      /\ Steady
  BY <1>1, <1>2, CancelledSteady
<1>6. Typed' /\ WorkerPinned'
  BY <1>4, <1>5 DEF Typed, WorkerPinned, Works, NoWork, Evict
<1>7. WantedKept'
  BY <1>4, <1>5 DEF WantedKept, Wanted, InPass, NoWork, Evict
<1>8. DlKept'
  BY <1>3, <1>4, <1>5 DEF DlKept, InPass, Evict
<1>9. Covered'
  BY <1>2, <1>4, <1>5, CoverKept DEF MarkDue, Evict
<1> QED
  BY <1>4, <1>6, <1>7, <1>8, <1>9

\* The file that an unpin removes has no download, and its mark is due.
LEMMA EvictPathStep ==
    ASSUME PinsInv, NEW t \in Terminals, EvictPath(t)
    PROVE  PinsInv'
<1> USE DEF PinsInv
<1>1. cmd[t].op = "unpin" /\ cmd[t].pc = "remove" /\ cmd[t].f \in Files
  BY DEF EvictPath, Typed, CmdShape, Shape, Commands
<1>2. CASE ~DbOpen
  <2> DEFINE c == [cmd[t] EXCEPT !.pc = "next", !.f = "none"]
  <2>1. Follows(c, cmd[t]) /\ c.f = "none"
    BY <1>1 DEF Follows, Typed, Commands, Shape
  <2> QED
    BY <1>1, <1>2, <2>1, CommandOnly DEF EvictPath, Answer, queueVars
<1>3. CASE DbOpen
  <2> DEFINE f == cmd[t].f
             c == [cmd[t] EXCEPT !.pc = "mark"]
  <2>1. Follows(c, cmd[t]) /\ c.f = f /\ c.pc = "mark"
    BY <1>1, <1>3 DEF Follows, Typed, Commands, Shape, DbOpen
  <2> HIDE DEF c
  <2>2. /\ cmd' \in [Terminals -> Commands]
        /\ \A u \in Terminals : cmd'[u] = IF u = t THEN c ELSE cmd[u]
        /\ \A u \in Terminals, g \in Files : Fetches(u, g)' => Fetches(u, g)
        /\ CmdShape' /\ PassShape' /\ PinnedKept' /\ FetchedPinned' /\ PassSpares'
    BY <1>3, <2>1, CommandMoves DEF EvictPath, c
  <2>3. /\ file' \in [Files -> {"none", "part", "whole"}] /\ dl' \in [Files -> Downloads]
        /\ dl'[f].on = dl[f].on
        /\ \A g \in Files \ {f} : file'[g] = file[g] /\ dl'[g] = dl[g]
    BY <1>1, <1>3, RemovedShape DEF EvictPath
  <2>4. Typed' /\ WorkerPinned'
    BY <2>2, <2>3 DEF Typed, WorkerPinned, EvictPath, queueVars
  <2>5. WantedKept'
    BY <2>2 DEF WantedKept, Wanted, InPass, EvictPath, queueVars
  <2>6. DlKept'
    BY <1>1, <2>1, <2>2, <2>3 DEF DlKept, InPass, EvictPath
  <2>7. Covered'
    BY <1>1, <2>1, <2>2, <2>3 DEF Covered, MarkDue, EvictPath
  <2> QED
    BY <2>2, <2>4, <2>5, <2>6, <2>7
<1> QED
  BY <1>2, <1>3

\* The row of the file that is gone is reset: the database is open still.
LEMMA EvictMarkStep ==
    ASSUME PinsInv, NEW t \in Terminals, EvictMark(t)
    PROVE  PinsInv'
<1> USE DEF PinsInv
<1>1. /\ cmd[t] \in Commands /\ cmd[t].op = "unpin" /\ cmd[t].pc = "mark" /\ cmd[t].f \in Files
      /\ mount = "run"
  BY DEF EvictMark, Typed, CmdShape, Shape, Commands
<1> DEFINE f == cmd[t].f
           c == [cmd[t] EXCEPT !.pc = "next", !.f = "none"]
<1>2. Follows(c, cmd[t]) /\ c.f = "none"
  BY <1>1 DEF Follows, Commands, Shape
<1> HIDE DEF c
<1>3. /\ cmd' \in [Terminals -> Commands]
      /\ \A u \in Terminals : cmd'[u] = IF u = t THEN c ELSE cmd[u]
      /\ \A u \in Terminals, g \in Files : Fetches(u, g)' => Fetches(u, g)
      /\ CmdShape' /\ PassShape' /\ PinnedKept' /\ FetchedPinned' /\ PassSpares'
  BY <1>2, CommandMoves DEF EvictMark, Answer, c
<1>4. /\ row' \in [Files -> Rows] /\ row'[f] = [state |-> "evicted", ranges |-> "none"]
      /\ \A g \in Files \ {f} : row'[g] = row[g]
  BY <1>1, MarkShape DEF EvictMark, DbOpen
<1>5. Typed' /\ WorkerPinned'
  BY <1>3, <1>4 DEF Typed, WorkerPinned, EvictMark, queueVars
<1>6. WantedKept'
  BY <1>3 DEF WantedKept, Wanted, InPass, EvictMark, queueVars
<1>7. DlKept'
  BY <1>1, <1>2, <1>3 DEF DlKept, InPass, EvictMark
<1>8. Covered'
  BY <1>1, <1>2, <1>3, <1>4 DEF Covered, MarkDue, EvictMark
<1> QED
  BY <1>3, <1>5, <1>6, <1>7, <1>8

-----------------------------------------------------------------------------
(* Downloads and readers.                                                  *)

\* A step of a download or a reader that begins no download leaves the
\* worker where it is or sends it back to the channel.
LEMMA DownloadMoves ==
    ASSUME PinsInv, UNCHANGED <<pinned, prefetchQ, cmd, pass, mount>>,
           worker' \in {worker, NoWork}
    PROVE  /\ CmdShape' /\ PassShape' /\ PinnedKept' /\ FetchedPinned' /\ PassSpares'
           /\ WorkerPinned' /\ WantedKept'
           /\ worker' \in Works
<1> USE DEF PinsInv
<1>1. CmdShape' /\ PassShape' /\ PassSpares'
  BY DEF CmdShape, Shape, PassShape, PassSpares
<1>2. PinnedKept' /\ FetchedPinned'
  BY DEF PinnedKept, FetchedPinned, Evicts, Fetches
<1>3. WorkerPinned' /\ worker' \in Works
  BY DEF WorkerPinned, NoWork, Typed, Works
<1>4. WantedKept'
  BY DEF WantedKept, Wanted, InPass, Fetches, NoWork
<1> QED
  BY <1>1, <1>2, <1>3, <1>4

\* Only a download that has its file at the path finishes.
LEMMA FinishStep ==
    ASSUME PinsInv, NEW f \in Files, Finish(f)
    PROVE  PinsInv'
<1> USE DEF PinsInv
<1>1. dl[f].on /\ dl[f].linked /\ ~MarkDue(f)
  BY DEF Finish, DlKept, InPass, MarkDue, CmdShape, Shape, Typed, Passes
<1>2. /\ CmdShape' /\ PassShape' /\ PinnedKept' /\ FetchedPinned' /\ PassSpares'
      /\ WorkerPinned' /\ WantedKept'
      /\ worker' \in Works
  BY DownloadMoves DEF Finish, Over
<1>3. dl' \in [Files -> Downloads] /\ ~dl'[f].on /\ \A g \in Files \ {f} : dl'[g] = dl[g]
  BY DEF Finish, Over, NoDl, Typed, Downloads
<1>4. /\ file' \in [Files -> {"none", "part", "whole"}] /\ file'[f] = "whole"
      /\ \A g \in Files \ {f} : file'[g] = file[g]
  BY <1>1 DEF Finish, Typed, Covered
<1>5. /\ row' \in [Files -> Rows]
      /\ row'[f] \in {row[f], [state |-> "clean", ranges |-> "full"]}
      /\ \A g \in Files \ {f} : row'[g] = row[g]
  BY DEF Finish, Typed, Rows
<1>6. Typed'
  BY <1>2, <1>3, <1>4, <1>5 DEF Typed, Finish
<1>7. DlKept'
  BY <1>3 DEF DlKept, InPass, Finish
<1>8. Covered'
  BY <1>4, <1>5 DEF Covered, MarkDue, Finish
<1> QED
  BY <1>2, <1>6, <1>7, <1>8

\* A cancelled download, whoever cancels it.
LEMMA CancelStep ==
    ASSUME PinsInv, NEW f \in Files, Cancelled(f),
           UNCHANGED <<pinned, prefetchQ, cmd, pass, mount>>
    PROVE  PinsInv'
<1> USE DEF PinsInv
<1>1. /\ row' \in [Files -> Rows] /\ file' = file
      /\ dl' \in [Files -> Downloads] /\ ~dl'[f].on
      /\ \A g \in Files \ {f} : dl'[g] = dl[g]
      /\ worker' \in {worker, NoWork}
      /\ Steady
  BY CancelledSteady
<1>2. /\ CmdShape' /\ PassShape' /\ PinnedKept' /\ FetchedPinned' /\ PassSpares'
      /\ WorkerPinned' /\ WantedKept'
      /\ worker' \in Works
  BY <1>1, DownloadMoves
<1>3. Typed'
  BY <1>1, <1>2 DEF Typed
<1>4. DlKept'
  BY <1>1 DEF DlKept, InPass
<1>5. Covered'
  BY <1>1, CoverKept DEF MarkDue
<1> QED
  BY <1>2, <1>3, <1>4, <1>5

\* A read begins no download of a file that is being evicted.
LEMMA ReadStartsStep ==
    ASSUME PinsInv, Calm, NEW f \in Files, ReadStarts(f)
    PROVE  PinsInv'
<1> USE DEF PinsInv
<1>1. ~InEviction(f)
  BY DEF ReadStarts, Calm
<1>2. /\ CmdShape' /\ PassShape' /\ PinnedKept' /\ FetchedPinned' /\ PassSpares'
      /\ WorkerPinned' /\ WantedKept'
      /\ worker' \in Works
  BY DownloadMoves DEF ReadStarts, queueVars
<1>3. /\ row' \in [Files -> Rows] /\ file' \in [Files -> {"none", "part", "whole"}]
      /\ dl' \in [Files -> Downloads] /\ dl'[f].linked
      /\ \A g \in Files \ {f} : dl'[g] = dl[g]
      /\ Steady
  <2>1. CASE dl[f].on
    BY <2>1 DEF ReadStarts, Typed, DlKept, Steady
  <2>2. CASE ~dl[f].on
    BY <2>2, StartedSteady DEF ReadStarts
  <2> QED
    BY <2>1, <2>2
<1>4. Typed'
  BY <1>2, <1>3 DEF Typed, ReadStarts, queueVars
<1>5. DlKept'
  BY <1>1, <1>3 DEF DlKept, InPass, InEviction, Evicts, ReadStarts
<1>6. Covered'
  BY <1>3, CoverKept DEF MarkDue, ReadStarts
<1> QED
  BY <1>2, <1>4, <1>5, <1>6

-----------------------------------------------------------------------------
(* The prefetch worker.                                                    *)

\* A step of the worker that leaves the cache alone, for the file it had or
\* the one at the head of the channel.
LEMMA WorkerMoves ==
    ASSUME PinsInv, worker' \in Works, worker'.pc = "start" => worker'.f \in pinned,
           worker'.f = "none" \/ (worker'.f \in Files /\ Wanted(worker'.f)),
           prefetchQ' \in Seq(Files),
           \A i \in DOMAIN prefetchQ' : \E j \in DOMAIN prefetchQ : prefetchQ'[i] = prefetchQ[j],
           UNCHANGED <<pinned, row, file, dl, cmd, pass, mount>>
    PROVE  PinsInv'
<1> USE DEF PinsInv
<1>1. Typed' /\ WorkerPinned'
  BY DEF Typed, WorkerPinned
<1>2. CmdShape' /\ PassShape' /\ PassSpares'
  BY DEF CmdShape, Shape, PassShape, PassSpares
<1>3. PinnedKept' /\ FetchedPinned'
  BY DEF PinnedKept, FetchedPinned, Evicts, Fetches
<1>4. WantedKept'
  BY DEF WantedKept, Wanted, InPass, Fetches
<1>5. DlKept' /\ Covered'
  BY DEF DlKept, Covered, MarkDue, InPass
<1> QED
  BY <1>1, <1>2, <1>3, <1>4, <1>5

\* The worker takes the next file.
LEMMA RecvStep ==
    ASSUME PinsInv, Recv
    PROVE  PinsInv'
<1> USE DEF PinsInv
<1>1. prefetchQ \in Seq(Files) /\ prefetchQ # <<>> /\ prefetchQ' = Tail(prefetchQ)
  BY DEF Recv, Typed
<1>2. /\ prefetchQ' \in Seq(Files) /\ 1 \in DOMAIN prefetchQ /\ prefetchQ[1] \in Files
      /\ \A i \in DOMAIN prefetchQ' : \E j \in DOMAIN prefetchQ : prefetchQ'[i] = prefetchQ[j]
  BY <1>1
<1>3. worker' = [pc |-> "check", f |-> prefetchQ[1]]
  BY <1>1 DEF Recv
<1>4. Wanted(prefetchQ[1])
  BY <1>2 DEF Wanted
<1> QED
  BY <1>2, <1>3, <1>4, WorkerMoves DEF Recv, Works, cacheVars

\* The other steps of the worker that leave the cache alone.
LEMMA WorkerStep ==
    ASSUME PinsInv, Check \/ WaitForRange \/ WorkerDone
    PROVE  PinsInv'
<1> USE DEF PinsInv
<1>1. /\ worker' \in Works /\ (worker'.pc = "start" => worker'.f \in pinned)
      /\ worker'.f \in {worker.f, "none"} /\ worker.f \in Files \cup {"none"}
  BY DEF Check, WaitForRange, WorkerDone, NoWork, Typed, Works
<1>2. worker'.f = "none" \/ (worker'.f \in Files /\ Wanted(worker'.f))
  BY <1>1 DEF Wanted
<1> QED
  BY <1>1, <1>2, WorkerMoves DEF Check, WaitForRange, WorkerDone, cacheVars, Typed

\* The worker starts a pinned file: no eviction has it before it.
LEMMA StartStep ==
    ASSUME PinsInv, Start
    PROVE  PinsInv'
<1> USE DEF PinsInv
<1> DEFINE f == worker.f
<1>1. f \in Files /\ f \in pinned
  BY DEF Start, Typed, WorkerPinned
<1>2. ~InPass(f) /\ \A u \in Terminals : ~Evicts(u, f)
  BY <1>1 DEF WantedKept, Wanted, PinnedKept
<1>3. /\ row' \in [Files -> Rows] /\ file' \in [Files -> {"none", "part", "whole"}]
      /\ dl' \in [Files -> Downloads] /\ dl'[f].linked
      /\ \A g \in Files \ {f} : dl'[g] = dl[g]
      /\ Steady
  BY <1>1, PrefetchSteady DEF Start, DlKept
<1>4. worker' \in Works /\ worker'.f = f /\ worker'.pc = "range"
  BY DEF Start, Typed, Works
<1> HIDE DEF f
<1>5. Typed' /\ WorkerPinned'
  BY <1>3, <1>4 DEF Typed, WorkerPinned, Start
<1>6. CmdShape' /\ PassShape' /\ PassSpares'
  BY DEF CmdShape, Shape, PassShape, PassSpares, Start
<1>7. PinnedKept' /\ FetchedPinned'
  BY DEF PinnedKept, FetchedPinned, Evicts, Fetches, Start
<1>8. WantedKept'
  BY <1>4 DEF WantedKept, Wanted, InPass, Fetches, Start, f
<1>9. DlKept'
  BY <1>2, <1>3 DEF DlKept, InPass, Evicts, Start
<1>10. Covered'
  BY <1>3, CoverKept DEF MarkDue, Start
<1> QED
  BY <1>5, <1>6, <1>7, <1>8, <1>9, <1>10

-----------------------------------------------------------------------------
(* The evictor and cache clean.                                            *)

\* What a step of a pass keeps when the pass has no more before it than it had.
LEMMA PassMoves ==
    ASSUME PinsInv, UNCHANGED <<pinned, prefetchQ, worker, cmd, mount>>,
           \A f \in Files : InPass(f)' => InPass(f),
           pass' \in Passes, pass'.pins = pass.pins \/ ~(\E f \in Files : InPass(f)')
    PROVE  /\ CmdShape' /\ PinnedKept' /\ FetchedPinned' /\ PassSpares'
           /\ WorkerPinned' /\ WantedKept'
<1> USE DEF PinsInv
<1>1. CmdShape' /\ WorkerPinned'
  BY DEF CmdShape, Shape, WorkerPinned
<1>2. PinnedKept' /\ FetchedPinned'
  BY DEF PinnedKept, FetchedPinned, Evicts, Fetches
<1>3. WantedKept'
  BY DEF WantedKept, Wanted, Fetches
<1>4. PassSpares'
  BY DEF PassSpares, InPass, Typed
<1> QED
  BY <1>1, <1>2, <1>3, <1>4

\* A pass lists no file that is wanted or being downloaded, and no pinned one
\* unless told so.
LEMMA PassBeginStep ==
    ASSUME PinsInv, Calm, PassBegin
    PROVE  PinsInv'
<1> USE DEF PinsInv
<1>1. PICK by \in {"clean", "lru"}, pins \in BOOLEAN :
        /\ by = "lru" => mount = "run"
        /\ pass' = [by |-> by, pc |-> "next", f |-> "none", pins |-> pins,
                    todo |-> {f \in Evictable(pins) : "busy" \in Admits \/ ~(dl[f].on \/ Wanted(f))}]
  BY DEF PassBegin
<1> DEFINE todo == {f \in Evictable(pins) : "busy" \in Admits \/ ~(dl[f].on \/ Wanted(f))}
<1>2. /\ todo \in SUBSET Files
      /\ \A f \in todo : ~dl[f].on /\ ~Wanted(f) /\ (f \in pinned => pins)
  BY DEF Evictable, Calm
<1> HIDE DEF todo
<1>3. /\ pass' \in Passes /\ pass'.todo = todo /\ pass'.f = "none" /\ pass'.pc = "next"
      /\ pass'.by \in {"clean", "lru"} /\ (pass'.by = "lru" => mount = "run") /\ pass'.pins = pins
  BY <1>1, <1>2 DEF Passes, todo
<1>4. Typed' /\ PassShape'
  BY <1>2, <1>3 DEF Typed, PassShape, PassBegin, queueVars, cacheVars
<1>5. CmdShape' /\ WorkerPinned'
  BY DEF CmdShape, Shape, WorkerPinned, PassBegin, queueVars
<1>6. PinnedKept' /\ FetchedPinned'
  BY DEF PinnedKept, FetchedPinned, Evicts, Fetches, PassBegin
<1>7. WantedKept'
  <2>1. \A f \in Files : Wanted(f)' => Wanted(f)
    BY DEF Wanted, Fetches, PassBegin, queueVars
  <2> QED
    BY <1>2, <1>3, <2>1 DEF WantedKept, InPass
<1>8. DlKept' /\ PassSpares'
  BY <1>2, <1>3 DEF DlKept, InPass, PassSpares, Typed, PassBegin, cacheVars
<1>9. Covered'
  BY <1>3 DEF Covered, MarkDue, PassShape, PassBegin, cacheVars
<1> QED
  BY <1>4, <1>5, <1>6, <1>7, <1>8, <1>9

\* A pass removes a cache file that nobody wants.
LEMMA PassRemoveStep ==
    ASSUME PinsInv, PassRemove
    PROVE  PinsInv'
<1> USE DEF PinsInv
<1>1. PICK f \in pass.todo : /\ Removed(f)
                            /\ pass' = [pass EXCEPT !.pc = "mark", !.f = f, !.todo = @ \ {f}]
  BY DEF PassRemove
<1>2. f \in Files
  BY DEF Typed, Passes
<1>3. /\ pass' \in Passes /\ pass'.pc = "mark" /\ pass'.f = f /\ pass'.todo = pass.todo \ {f}
      /\ pass'.by = pass.by /\ pass'.pins = pass.pins
  BY <1>1, <1>2 DEF Typed, Passes
<1>4. /\ file' \in [Files -> {"none", "part", "whole"}] /\ dl' \in [Files -> Downloads]
      /\ dl'[f].on = dl[f].on
      /\ \A g \in Files \ {f} : file'[g] = file[g] /\ dl'[g] = dl[g]
  BY <1>1, <1>2, RemovedShape
<1>5. /\ CmdShape' /\ PinnedKept' /\ FetchedPinned' /\ PassSpares'
      /\ WorkerPinned' /\ WantedKept'
  <2>1. \A g \in Files : InPass(g)' => InPass(g)
    BY <1>3 DEF InPass
  <2> QED
    BY <1>3, <2>1, PassMoves DEF PassRemove, queueVars
<1>6. Typed' /\ PassShape'
  BY <1>2, <1>3, <1>4 DEF Typed, PassShape, PassRemove, queueVars
<1>7. DlKept'
  BY <1>2, <1>3, <1>4 DEF DlKept, InPass, PassRemove
<1>8. Covered'
  BY <1>3, <1>4 DEF Covered, MarkDue, PassRemove
<1> QED
  BY <1>5, <1>6, <1>7, <1>8

\* The row of the file that is gone is reset: an eviction of the mount is
\* never cut off from the database.
LEMMA PassMarkStep ==
    ASSUME PinsInv, PassMark
    PROVE  PinsInv'
<1> USE DEF PinsInv
<1> DEFINE f == pass.f
<1>1. f \in Files /\ (pass.by = "clean" \/ DbOpen)
  BY DEF PassMark, Typed, Passes, PassShape, DbOpen
<1>2. /\ row' \in [Files -> Rows] /\ row'[f] = [state |-> "evicted", ranges |-> "none"]
      /\ \A g \in Files \ {f} : row'[g] = row[g]
  BY <1>1, MarkShape DEF PassMark
<1>3. /\ pass' \in Passes /\ pass'.pc = "next" /\ pass'.f = "none" /\ pass'.todo = pass.todo
      /\ pass'.by = pass.by /\ pass'.pins = pass.pins
  BY DEF PassMark, Typed, Passes
<1>4. /\ CmdShape' /\ PinnedKept' /\ FetchedPinned' /\ PassSpares'
      /\ WorkerPinned' /\ WantedKept'
  <2>1. \A g \in Files : InPass(g)' => InPass(g)
    BY <1>3 DEF InPass
  <2> QED
    BY <1>3, <2>1, PassMoves DEF PassMark, queueVars
<1>5. Typed' /\ PassShape'
  BY <1>2, <1>3 DEF Typed, Passes, PassShape, PassMark, queueVars
<1>6. DlKept'
  BY <1>3 DEF DlKept, InPass, PassMark
<1>7. Covered'
  BY <1>2, <1>3 DEF Covered, MarkDue, PassMark
<1> QED
  BY <1>4, <1>5, <1>6, <1>7

\* A pass ends with nothing in hand.
LEMMA PassEndStep ==
    ASSUME PinsInv, PassEnd
    PROVE  PinsInv'
<1> USE DEF PinsInv
<1>1. /\ pass' \in Passes /\ pass'.pc = "idle" /\ pass'.f = "none" /\ pass'.todo = {}
      /\ pass'.by = "none"
  BY DEF PassEnd, NoPass, Passes
<1>2. /\ CmdShape' /\ PinnedKept' /\ FetchedPinned' /\ PassSpares'
      /\ WorkerPinned' /\ WantedKept'
  <2>1. \A g \in Files : ~InPass(g)'
    BY <1>1 DEF InPass
  <2> QED
    BY <1>1, <2>1, PassMoves DEF PassEnd, queueVars
<1>3. Typed' /\ PassShape'
  BY <1>1 DEF Typed, PassShape, PassEnd, queueVars, cacheVars
<1>4. DlKept'
  BY <1>1 DEF DlKept, InPass, PassEnd, cacheVars
<1>5. Covered'
  BY <1>1 DEF Covered, MarkDue, PassEnd, cacheVars
<1> QED
  BY <1>2, <1>3, <1>4, <1>5

-----------------------------------------------------------------------------
(* Shutdown.                                                               *)

\* The mount goes on to its next stage; it leaves the database open as long
\* as an eviction of its own is under way.
LEMMA MountStep ==
    ASSUME PinsInv, Calm, Unmount \/ CloseServer \/ StopPrefetchWorker \/ Remount
    PROVE  PinsInv'
<1> USE DEF PinsInv
<1>1. UNCHANGED <<pinned, row, file, dl, prefetchQ, worker, cmd, pass>>
  BY DEF Unmount, CloseServer, StopPrefetchWorker, Remount, queueVars, cacheVars
<1>2. /\ mount' \in {"run", "closed", "closing", "stopping"}
      /\ mount = "run" => pass.by # "lru" /\ \A t \in Terminals : cmd[t].pc # "mark"
  BY DEF Unmount, CloseServer, StopPrefetchWorker, Remount, Quiet, Calm
<1>3. Typed' /\ CmdShape' /\ PassShape'
  BY <1>1, <1>2 DEF Typed, CmdShape, Shape, PassShape
<1>4. PinnedKept' /\ FetchedPinned' /\ WorkerPinned' /\ PassSpares'
  BY <1>1 DEF PinnedKept, FetchedPinned, WorkerPinned, PassSpares, Evicts, Fetches
<1>5. WantedKept'
  BY <1>1 DEF WantedKept, Wanted, InPass, Fetches
<1>6. DlKept' /\ Covered'
  BY <1>1 DEF DlKept, Covered, MarkDue, InPass
<1> QED
  BY <1>3, <1>4, <1>5, <1>6

\* The process ends; no eviction of it is under way.
LEMMA EndsStep ==
    ASSUME PinsInv, Calm, Exit \/ Crash
    PROVE  PinsInv'
<1> USE DEF PinsInv
<1>1. pass.by # "lru" /\ \A t \in Terminals : cmd[t].pc # "mark"
  BY DEF Exit, Crash, Quiet, Calm, CmdShape, Shape, PassShape
<1>2. /\ UNCHANGED <<pinned, row, file, pass>> /\ mount' = "exit"
      /\ prefetchQ' = <<>> /\ worker' = NoWork
      /\ dl' = [f \in Files |-> NoDl]
      /\ cmd' = [t \in Terminals |-> IF Connected(t) THEN NoCmd ELSE cmd[t]]
  BY <1>1 DEF Exit, Crash, Ends
<1>3. /\ cmd' \in [Terminals -> Commands]
      /\ \A t \in Terminals : cmd'[t] \in {cmd[t], NoCmd}
  BY <1>2 DEF Typed, NoCmd, Commands
<1>4. Typed'
  BY <1>2, <1>3 DEF Typed, NoDl, NoWork, Downloads, Works
<1>5. CmdShape' /\ PassShape'
  BY <1>1, <1>2, <1>3 DEF CmdShape, Shape, PassShape, NoCmd
<1>6. PinnedKept' /\ FetchedPinned' /\ WorkerPinned' /\ PassSpares'
  BY <1>2, <1>3 DEF PinnedKept, FetchedPinned, WorkerPinned, PassSpares, Evicts, Fetches, NoCmd, NoWork
<1>7. WantedKept'
  BY <1>2, <1>3 DEF WantedKept, Wanted, InPass, Fetches, NoCmd, NoWork
<1>8. DlKept'
  BY <1>2 DEF DlKept, NoDl
<1>9. Covered'
  BY <1>1, <1>2 DEF Covered, MarkDue
<1> QED
  BY <1>4, <1>5, <1>6, <1>7, <1>8, <1>9

-----------------------------------------------------------------------------
(* The theorems.                                                           *)

\* The first state has no cache files.
LEMMA PinsStart ==
    ASSUME Init
    PROVE  PinsInv
<1>1. Typed
  BY DEF Init, Typed, NoDl, NoWork, NoCmd, NoPass, Rows, Downloads, Works, Commands, Passes
<1>2. CmdShape /\ PassShape /\ PinnedKept /\ FetchedPinned /\ WorkerPinned /\ PassSpares
  BY DEF Init, CmdShape, Shape, PassShape, PinnedKept, FetchedPinned, WorkerPinned, PassSpares,
         Evicts, Fetches, NoCmd, NoPass, NoWork
<1>3. WantedKept /\ DlKept /\ Covered
  BY DEF Init, WantedKept, InPass, NoPass, DlKept, NoDl, Covered
<1> QED
  BY <1>1, <1>2, <1>3 DEF PinsInv

\* Every step keeps the invariant when the races are left out.
LEMMA PinsStep ==
    ASSUME PinsInv, Calm, [Next]_vars
    PROVE  PinsInv'
<1>1. ASSUME NEW t \in Terminals, Pin(t) \/ Unpin(t) \/ Command(t)
      PROVE  PinsInv'
  BY <1>1, PinStep, UnpinStep, DialStep, HangUpStep, PrefetchSequentialStep, SendStep, PrefetchNowStep,
     EvictStep, RemovePrefetchPathStep, EvictPathStep, EvictMarkStep DEF Command
<1>2. ASSUME NEW f \in Files, Fail(f) \/ ReleaseCancels(f)
      PROVE  PinsInv'
  BY <1>2, CancelStep DEF Fail, ReleaseCancels
<1>3. ASSUME UNCHANGED <<pinned, row, file, dl, prefetchQ, worker, cmd, pass, mount>>
      PROVE  PinsInv'
  <2>1. Typed' /\ CmdShape' /\ PassShape' /\ WorkerPinned' /\ PassSpares'
    BY <1>3 DEF PinsInv, Typed, CmdShape, Shape, PassShape, WorkerPinned, PassSpares
  <2>2. PinnedKept' /\ FetchedPinned' /\ WantedKept' /\ DlKept' /\ Covered'
    BY <1>3 DEF PinsInv, PinnedKept, FetchedPinned, Evicts, Fetches, WantedKept, Wanted, InPass,
                DlKept, Covered, MarkDue
  <2> QED
    BY <2>1, <2>2 DEF PinsInv
<1>4. ASSUME NEW f \in Files, Release(f)
      PROVE  PinsInv'
  BY <1>3, <1>4 DEF Release, queueVars
<1>5. ASSUME PassGoesOn \/ Worker \/ Shutdown
      PROVE  PinsInv'
  BY <1>5, PassRemoveStep, PassMarkStep, PassEndStep, RecvStep, WorkerStep, StartStep, MountStep, EndsStep
     DEF PassGoesOn, Worker, Shutdown
<1>6. CASE UNCHANGED vars
  BY <1>3, <1>6 DEF vars, queueVars, cacheVars
<1> QED
  BY <1>1, <1>2, <1>4, <1>5, <1>6, FinishStep, ReadStartsStep, PassBeginStep, MountStep, EndsStep DEF Next

\* The invariant, for later use under the temporal operator.
LEMMA PinsInvariant ==
    ASSUME Calm
    PROVE  Spec => []PinsInv
<1>1. Init => PinsInv
  BY PinsStart
<1>2. PinsInv /\ [Next]_vars => PinsInv'
  BY PinsStep
<1> QED
  BY <1>1, <1>2, PTL DEF Spec

\* A clean row has its cache file, in every interleaving of pins, unpins,
\* reads, downloads, eviction passes, cache clean, crashes and remounts that
\* stays clear of the five races.
THEOREM CleanFileIsThere ==
    ASSUME Calm
    PROVE  Spec => []CleanIsThere
<1>1. PinsInv => CleanIsThere
  BY DEF PinsInv, Covered, MarkDue, CleanIsThere
<1> QED
  BY <1>1, PinsInvariant, PTL

\* No step takes the cached copy of a pinned file, unless cache clean was told
\* to take pinned files.
THEOREM PinnedCopyStays ==
    ASSUME Calm
    PROVE  Spec => PinnedStays
<1>1. ASSUME PinsInv, [Next]_vars, NEW f \in pinned, file[f] = "whole"
      PROVE  file'[f] = "whole" \/ pass.pins
  <2> USE DEF PinsInv
  <2>1. f \in Files /\ Typed /\ \A t \in Terminals : ~Evicts(t, f)
    BY <1>1 DEF Typed, PinnedKept
  <2>2. Steady => file'[f] = "whole"
    BY <1>1, <2>1 DEF Steady
  <2>3. ASSUME NEW g \in Files, \/ \E p \in BOOLEAN : Started(g, p)
                               \/ Prefetch(g) \/ Cancelled(g)
        PROVE  file'[f] = "whole"
    <3>1. dl[g].on => dl[g].linked
      BY <1>1 DEF DlKept
    <3> QED
      BY <2>1, <2>2, <2>3, <3>1, StartedSteady, PrefetchSteady, CancelledSteady
  <2>4. ASSUME NEW t \in Terminals, Command(t)
        PROVE  file'[f] = "whole"
    <3>1. ASSUME NEW g, g \in cmd[t].todo \cup {cmd[t].f}, g # "none"
          PROVE  g \in Files
      BY <1>1, <3>1 DEF Typed, Commands
    <3>2. CASE PrefetchNow(t)
      <4>1. PICK g \in cmd[t].todo : IF DbOpen THEN Prefetch(g) ELSE UNCHANGED file
        BY <3>2 DEF PrefetchNow, cacheVars
      <4>2. g \in Files
        BY <1>1 DEF Typed, Commands
      <4> QED
        BY <1>1, <2>3, <4>1, <4>2
    <3>3. CASE Evict(t)
      BY <1>1, <3>3 DEF Evict, Cancelled
    <3>4. CASE EvictPath(t)
      <4>1. cmd[t].op = "unpin" /\ cmd[t].f \in Files /\ cmd[t].f # f
        BY <1>1, <2>1, <3>4 DEF EvictPath, Typed, Commands, CmdShape, Shape, Evicts
      <4> QED
        BY <1>1, <2>1, <3>4, <4>1, RemovedShape DEF EvictPath
    <3> QED
      BY <1>1, <2>4, <3>2, <3>3, <3>4 DEF Command, Dial, HangUp, PrefetchSequential, Send,
         RemovePrefetchPath, EvictMark, cacheVars
  <2>5. ASSUME NEW g \in Files, Finish(g) \/ Fail(g) \/ ReadStarts(g) \/ Release(g) \/ ReleaseCancels(g)
        PROVE  file'[f] = "whole"
    <3>1. CASE Finish(g)
      BY <1>1, <2>1, <3>1 DEF Finish, Typed
    <3>2. CASE ReadStarts(g)
      BY <1>1, <2>3, <3>2 DEF ReadStarts
    <3> QED
      BY <1>1, <2>5, <3>1, <3>2 DEF Fail, Cancelled, Release, ReleaseCancels
  <2>6. CASE PassRemove
    <3>1. PICK g \in pass.todo : Removed(g)
      BY <2>6 DEF PassRemove
    <3>2. g \in Files /\ (g # f \/ pass.pins)
      BY <1>1 DEF Typed, Passes, PassSpares
    <3> QED
      BY <1>1, <2>1, <3>1, <3>2, RemovedShape
  <2>7. CASE Start
    <3>1. worker.f \in Files
      BY <1>1, <2>7 DEF Start, WorkerPinned, Typed
    <3> QED
      BY <2>3, <2>7, <3>1 DEF Start
  <2>8. ASSUME \/ \E t \in Terminals : Pin(t) \/ Unpin(t)
               \/ PassBegin \/ PassMark \/ PassEnd \/ Recv \/ Check \/ WaitForRange \/ WorkerDone
               \/ CloseServer \/ StopPrefetchWorker \/ Exit \/ Unmount \/ Crash \/ Remount
               \/ UNCHANGED vars
        PROVE  file' = file
    BY <2>8 DEF Pin, Unpin, PassBegin, PassMark, PassEnd, Recv, Check, WaitForRange, WorkerDone,
       CloseServer, StopPrefetchWorker, Exit, Unmount, Crash, Remount, Ends, vars, cacheVars
  <2> QED
    BY <1>1, <2>4, <2>5, <2>6, <2>7, <2>8 DEF Next, PassGoesOn, Worker, Shutdown
<1>2. PinsInv /\ [Next]_vars =>
        [\A f \in pinned : file[f] = "whole" /\ f \in pinned' =>
            file'[f] = "whole" \/ pass.pins]_vars
  BY <1>1
<1>3. Spec => []PinsInv
  BY PinsInvariant
<1> QED
  BY <1>2, <1>3, PTL DEF Spec, PinnedStays

-----------------------------------------------------------------------------
(* Shutdown closes the channel after the last sender.                      *)

\* Once the handlers of all connections have ended, no command is connected
\* until the next mount.
SendersGone ==
    /\ cmd \in [Terminals -> Commands]
    /\ mount \in {"stopping", "exit"} => \A t \in Terminals : ~Connected(t)

\* A command is connected only by Dial, which needs a listener.
LEMMA CommandConnects ==
    ASSUME SendersGone, NEW t \in Terminals, Pin(t) \/ Unpin(t) \/ Command(t)
    PROVE  /\ mount' = mount
           /\ \E c \in Commands :
                /\ cmd' = [cmd EXCEPT ![t] = c]
                /\ c.pc \in {"idle", "dial"} \/ Connected(t) \/ mount \in {"run", "closed"}
<1>1. cmd[t] \in Commands
  BY DEF SendersGone
<1>2. ASSUME NEW fs \in SUBSET Files, Set(t, Begun("pin", fs)) \/ Set(t, Begun("unpin", fs))
      PROVE  \E c \in Commands : cmd' = [cmd EXCEPT ![t] = c] /\ c.pc \in {"idle", "dial"}
  BY <1>2, BegunTyped DEF Set
<1>3. CASE Pin(t) \/ Unpin(t)
  <2>1. /\ mount' = mount
        /\ \E fs \in SUBSET Files : Set(t, Begun("pin", fs)) \/ Set(t, Begun("unpin", fs))
    BY <1>3 DEF Pin, Unpin
  <2> QED
    BY <1>2, <2>1
<1>4. CASE Dial(t)
  <2> DEFINE c == IF mount \in {"run", "closed"} THEN [cmd[t] EXCEPT !.pc = "next"] ELSE NoCmd
  <2>1. c \in Commands /\ (c.pc = "idle" \/ mount \in {"run", "closed"})
    BY <1>1 DEF NoCmd, Commands
  <2> QED
    BY <1>4, <2>1 DEF Dial, Set
<1>5. CASE HangUp(t)
  <2>1. NoCmd \in Commands /\ NoCmd.pc = "idle"
    BY DEF NoCmd, Commands
  <2> QED
    BY <1>5, <2>1 DEF HangUp, Set
<1>6. ASSUME NEW f \in cmd[t].todo, NEW pc \in {"send", "view"},
             \/ Ask(t, f, pc) \/ Set(t, [cmd[t] EXCEPT !.todo = @ \ {f}])
      PROVE  \E c \in Commands : cmd' = [cmd EXCEPT ![t] = c]
  BY <1>1, <1>6 DEF Ask, Set, Commands
<1>7. CASE PrefetchSequential(t) \/ PrefetchNow(t) \/ Evict(t)
  <2>1. Connected(t) /\ mount' = mount
    BY <1>7 DEF PrefetchSequential, PrefetchNow, Evict, Connected
  <2>2. \E f \in cmd[t].todo, pc \in {"send", "view"} :
            Ask(t, f, pc) \/ Set(t, [cmd[t] EXCEPT !.todo = @ \ {f}])
    BY <1>7 DEF PrefetchSequential, PrefetchNow, Evict
  <2> QED
    BY <1>6, <2>1, <2>2
<1>8. CASE Send(t) \/ EvictMark(t)
  BY <1>1, <1>8 DEF Send, EvictMark, Answer, Set, Connected, Commands
<1>9. CASE RemovePrefetchPath(t)
  BY <1>1, <1>9 DEF RemovePrefetchPath, Set, Connected, Commands
<1>10. CASE EvictPath(t)
  BY <1>1, <1>10 DEF EvictPath, Answer, Set, Connected, Commands
<1> QED
  BY <1>3, <1>4, <1>5, <1>7, <1>8, <1>9, <1>10 DEF Command

\* Nobody sends to the prefetch channel once it is closed: Server.Close has
\* waited for every handler before, in whatever state commands, worker and
\* queue were. None of the races matters here.
THEOREM ChannelClosedLast == Spec => []NoSendOnClosed
<1>1. Init => SendersGone
  BY DEF Init, SendersGone, NoCmd, Commands
<1>2. ASSUME SendersGone, [Next]_vars
      PROVE  SendersGone'
  <2>1. ASSUME NEW t \in Terminals, Pin(t) \/ Unpin(t) \/ Command(t)
        PROVE  SendersGone'
    <3>1. mount' = mount
      BY <1>2, <2>1, CommandConnects
    <3>2. PICK c \in Commands :
            /\ cmd' = [cmd EXCEPT ![t] = c]
            /\ c.pc \in {"idle", "dial"} \/ Connected(t) \/ mount \in {"run", "closed"}
      BY <1>2, <2>1, CommandConnects
    <3>3. /\ cmd' \in [Terminals -> Commands]
          /\ \A u \in Terminals : cmd'[u] = IF u = t THEN c ELSE cmd[u]
      BY <1>2, <3>2 DEF SendersGone
    <3> QED
      BY <1>2, <3>1, <3>2, <3>3 DEF SendersGone, Connected
  <2>2. CASE Exit \/ Crash
    <3>1. cmd' = [t \in Terminals |-> IF Connected(t) THEN NoCmd ELSE cmd[t]]
      BY <2>2 DEF Exit, Crash, Ends
    <3> QED
      BY <1>2, <3>1 DEF SendersGone, Connected, NoCmd, Commands
  <2>3. CASE StopPrefetchWorker
    BY <1>2, <2>3 DEF SendersGone, StopPrefetchWorker, Connected
  <2>4. ASSUME cmd' = cmd, mount' = mount \/ mount' \in {"run", "closed", "closing"}
        PROVE  SendersGone'
    BY <1>2, <2>4 DEF SendersGone, Connected
  <2>5. ASSUME NEW f \in Files, Finish(f) \/ Fail(f) \/ ReadStarts(f) \/ Release(f) \/ ReleaseCancels(f)
        PROVE  SendersGone'
    BY <2>4, <2>5 DEF Finish, Fail, ReadStarts, Release, ReleaseCancels
  <2>6. CASE PassBegin \/ PassGoesOn \/ Worker \/ UNCHANGED vars
    BY <2>4, <2>6 DEF PassBegin, PassGoesOn, PassRemove, PassMark, PassEnd, Worker, Recv, Check, Start,
       WaitForRange, WorkerDone, vars
  <2>7. CASE CloseServer \/ Unmount \/ Remount
    BY <2>4, <2>7 DEF CloseServer, Unmount, Remount
  <2> QED
    BY <1>2, <2>1, <2>2, <2>3, <2>5, <2>6, <2>7 DEF Next, Shutdown
<1>3. SendersGone => NoSendOnClosed
  BY DEF SendersGone, NoSendOnClosed, Connected
<1> QED
  BY <1>1, <1>2, <1>3, PTL DEF Spec

-----------------------------------------------------------------------------
(* How often a file occurs in a queue.                                     *)

\* Where f occurs in the list s.
Places(s, f) == {i \in DOMAIN s : s[i] = f}

\* An occurrence is counted.
LEMMA CountType ==
    ASSUME NEW A, NEW s \in Seq(A), NEW f
    PROVE  IsFiniteSet(Places(s, f)) /\ Count(s, f) = Cardinality(Places(s, f)) /\ Count(s, f) \in Nat
<1>1. DOMAIN s = 1..Len(s) /\ Len(s) \in Nat
  OBVIOUS
<1>2. IsFiniteSet(1..Len(s))
  BY <1>1, FS_Interval
<1>3. Places(s, f) \in SUBSET (1..Len(s))
  BY <1>1 DEF Places
<1>4. IsFiniteSet(Places(s, f))
  BY <1>2, <1>3, FS_Subset
<1> QED
  BY <1>4, FS_CardinalityType DEF Count, Places

\* One occurrence more, or the count it was.
LEMMA CountAppend ==
    ASSUME NEW A, NEW s \in Seq(A), NEW g \in A, NEW f
    PROVE  Count(Append(s, g), f) = Count(s, f) + (IF g = f THEN 1 ELSE 0)
<1> DEFINE r == Append(s, g)
           n == Len(s) + 1
<1>1. /\ r \in Seq(A) /\ Len(s) \in Nat /\ DOMAIN r = 1..n /\ DOMAIN s = 1..Len(s)
      /\ r[n] = g /\ \A i \in 1..Len(s) : r[i] = s[i]
  OBVIOUS
<1> HIDE DEF r
<1>2. n \notin Places(s, f)
  BY <1>1 DEF Places
<1>3. Places(r, f) = IF g = f THEN Places(s, f) \cup {n} ELSE Places(s, f)
  BY <1>1 DEF Places
<1>4. /\ IsFiniteSet(Places(s, f)) /\ Count(s, f) = Cardinality(Places(s, f)) /\ Count(s, f) \in Nat
      /\ Count(r, f) = Cardinality(Places(r, f))
  BY <1>1, CountType
<1>5. Cardinality(Places(s, f) \cup {n}) = Cardinality(Places(s, f)) + 1
  <2> HIDE DEF n
  <2> QED
    BY <1>2, <1>4, FS_AddElement
<1> QED
  BY <1>3, <1>4, <1>5 DEF r

\* A list without its element i has one occurrence of that element less.
LEMMA CountDrop ==
    ASSUME NEW A, NEW s \in Seq(A), NEW i \in 1..Len(s), NEW r \in Seq(A),
           Len(r) = Len(s) - 1,
           \A j \in 1..Len(r) : r[j] = IF j < i THEN s[j] ELSE s[j + 1],
           NEW f
    PROVE  Count(s, f) = Count(r, f) + (IF s[i] = f THEN 1 ELSE 0)
<1>1. /\ DOMAIN s = 1..Len(s) /\ DOMAIN r = 1..Len(r) /\ Len(s) \in Nat /\ Len(r) \in Nat
      /\ i \in Int
  OBVIOUS
<1> DEFINE up == [j \in Places(r, f) |-> IF j < i THEN j ELSE j + 1]
           T  == Places(s, f) \ {i}
<1>2. up \in Bijection(Places(r, f), T)
  <2>1. ASSUME NEW j \in Places(r, f)
        PROVE  up[j] \in T
    <3>1. j \in 1..Len(r) /\ r[j] = f
      BY <1>1 DEF Places
    <3>2. CASE j < i
      BY <1>1, <3>1, <3>2 DEF Places
    <3>3. CASE ~(j < i)
      BY <1>1, <3>1, <3>3 DEF Places
    <3> QED
      BY <3>2, <3>3
  <2>2. ASSUME NEW j \in Places(r, f), NEW k \in Places(r, f), up[j] = up[k]
        PROVE  j = k
    <3>1. j \in Int /\ k \in Int
      BY <1>1 DEF Places
    <3> QED
      BY <1>1, <2>2, <3>1
  <2>3. ASSUME NEW k \in T
        PROVE  \E j \in Places(r, f) : up[j] = k
    <3>1. k \in 1..Len(s) /\ s[k] = f /\ k # i
      BY <1>1 DEF Places
    <3>2. CASE k < i
      <4>1. k \in 1..Len(r) /\ r[k] = s[k]
        BY <1>1, <3>1, <3>2
      <4>2. k \in Places(r, f)
        BY <1>1, <3>1, <4>1 DEF Places
      <4> QED
        BY <3>2, <4>2
    <3>3. CASE k > i
      <4>1. k - 1 \in 1..Len(r) /\ ~(k - 1 < i) /\ (k - 1) + 1 = k
        BY <1>1, <3>1, <3>3
      <4>2. r[k - 1] = s[k]
        BY <4>1
      <4>3. k - 1 \in Places(r, f)
        BY <1>1, <3>1, <4>1, <4>2 DEF Places
      <4> QED
        BY <4>1, <4>3
    <3> QED
      BY <1>1, <3>1, <3>2, <3>3
  <2>4. up \in [Places(r, f) -> T]
    BY <2>1
  <2> HIDE DEF up, T
  <2> QED
    BY <2>2, <2>3, <2>4 DEF Bijection, Injection, Surjection, IsInjective
<1>3. /\ IsFiniteSet(Places(s, f)) /\ Count(s, f) = Cardinality(Places(s, f)) /\ Count(s, f) \in Nat
      /\ IsFiniteSet(Places(r, f)) /\ Count(r, f) = Cardinality(Places(r, f)) /\ Count(r, f) \in Nat
  BY CountType
<1>4. Cardinality(T) = Cardinality(Places(r, f))
  <2> HIDE DEF up, T
  <2> QED
    BY <1>2, <1>3, FS_Bijection DEF ExistsBijection
<1>5. i \in Places(s, f) <=> s[i] = f
  BY <1>1 DEF Places
<1>6. Cardinality(T) = IF i \in Places(s, f) THEN Cardinality(Places(s, f)) - 1 ELSE Cardinality(Places(s, f))
  BY <1>3, FS_RemoveElement
<1> HIDE DEF T
<1> QED
  BY <1>3, <1>4, <1>5, <1>6

\* The worker takes one occurrence of its request out of the view, if there is
\* one.
LEMMA DequeueCounts ==
    ASSUME NEW view \in Seq(Files), NEW f \in Files
    PROVE  /\ Dequeue(view, f) \in Seq(Files)
           /\ \A g : Count(Dequeue(view, f), g) <= Count(view, g)
           /\ Count(view, f) > 0 => Count(Dequeue(view, f), f) < Count(view, f)
<1> DEFINE I == {i \in 1..Len(view) : view[i] = f}
<1>1. CASE I = {}
  <2>1. Dequeue(view, f) = view
    BY <1>1 DEF Dequeue, RemoveFirst
  <2>2. Places(view, f) = {}
    BY <1>1 DEF Places
  <2>3. Count(view, f) = 0 /\ \A g : Count(view, g) \in Nat
    BY <2>2, CountType, FS_EmptySet
  <2> QED
    BY <2>1, <2>3
<1>2. CASE I # {}
  <2> DEFINE i == Min(I)
             r == RemoveAt(view, i)
  <2>1. Dequeue(view, f) = r
    BY <1>2 DEF Dequeue, RemoveFirst, SelectInSeq
  <2>2. i \in I
    <3>1. I \in SUBSET Nat
      OBVIOUS
    <3>2. PICK x \in I : ~ \E y \in I : <<y, x>> \in OpToRel(<, Nat)
      BY <1>2, <3>1, WFMin, NatLessThanWellFounded
    <3>3. \A y \in I : x <= y
      BY <3>1, <3>2 DEF OpToRel
    <3> QED
      BY <3>3 DEF Min
  <2>3. i \in 1..Len(view) /\ view[i] = f
    BY <2>2
  <2> HIDE DEF i
  <2>4. /\ r \in Seq(Files) /\ Len(r) = Len(view) - 1
        /\ \A j \in 1..Len(r) : r[j] = IF j < i THEN view[j] ELSE view[j + 1]
    <3> DEFINE a == SubSeq(view, 1, i - 1)
               b == SubSeq(view, i + 1, Len(view))
    <3>1. i \in Int /\ 1 <= i /\ i <= Len(view) /\ Len(view) \in Nat
      BY <2>3
    <3>2. a \in Seq(Files) /\ Len(a) = i - 1 /\ \A j \in 1..i - 1 : a[j] = view[j]
      BY <3>1
    <3>3. /\ b \in Seq(Files) /\ Len(b) = Len(view) - i
          /\ \A j \in 1..Len(view) - i : b[j] = view[i + j]
      BY <3>1
    <3>4. r = a \o b
      BY DEF RemoveAt
    <3> HIDE DEF a, b, r
    <3>5. r \in Seq(Files) /\ Len(r) = Len(view) - 1
      <4>1. a \in Seq(Files) /\ b \in Seq(Files)
        BY <3>2, <3>3
      <4>2. r \in Seq(Files) /\ Len(r) = Len(a) + Len(b)
        BY <3>4, <4>1
      <4>3. Len(a) = i - 1 /\ Len(b) = Len(view) - i
        BY <3>2, <3>3
      <4> QED
        BY <3>1, <4>2, <4>3
    <3>6. ASSUME NEW j \in 1..Len(r)
          PROVE  r[j] = IF j < i THEN view[j] ELSE view[j + 1]
      <4>1. CASE j < i
        <5>1. j \in 1..Len(a) /\ j \in 1..i - 1
          BY <3>1, <3>2, <4>1
        <5>2. r[j] = a[j]
          BY <3>2, <3>3, <3>4, <5>1
        <5> QED
          BY <3>2, <4>1, <5>1, <5>2
      <4>2. CASE j >= i
        <5>1. /\ j - (i - 1) \in 1..Len(view) - i /\ i + (j - (i - 1)) = j + 1
              /\ j > Len(a) /\ j <= Len(a) + Len(b)
          BY <3>1, <3>2, <3>3, <3>5, <4>2
        <5>2. r[j] = b[j - (i - 1)]
          BY <3>1, <3>2, <3>3, <3>4, <5>1
        <5>3. b[j - (i - 1)] = view[i + (j - (i - 1))]
          BY <3>3, <5>1
        <5> QED
          BY <3>1, <4>2, <5>1, <5>2, <5>3
      <4> QED
        BY <3>1, <4>1, <4>2
    <3> QED
      BY <3>5, <3>6
  <2> HIDE DEF r
  <2>5. \A g : Count(view, g) = Count(r, g) + (IF view[i] = g THEN 1 ELSE 0)
    BY <2>3, <2>4, CountDrop
  <2>6. \A g : Count(r, g) \in Nat
    BY <2>4, CountType
  <2> QED
    BY <2>1, <2>3, <2>4, <2>5, <2>6
<1> QED
  BY <1>1, <1>2

\* Unpin takes every occurrence of its file out of the view, and nothing else
\* comes in.
LEMMA WithoutCounts ==
    ASSUME NEW view \in Seq(Files), NEW f
    PROVE  /\ Without(view, f) \in Seq(Files)
           /\ Count(Without(view, f), f) = 0
           /\ \A g : Count(Without(view, f), g) <= Count(view, g)
<1> DEFINE N    == Len(view)
           A    == Seq(Files)
           Step(k, n) == IF view[n] = f THEN k ELSE Append(k, view[n])
           step == [n \in 1..N |-> [k \in A |-> Step(k, n)]]
           Body(h) == [n \in 0..N |-> IF n = 0 THEN <<>>
                                      ELSE IF view[n] = f THEN h[n - 1] ELSE Append(h[n - 1], view[n])]
<1>1. N \in Nat /\ <<>> \in A /\ \A n \in 1..N : view[n] \in Files
  OBVIOUS
<1>2. \A n \in 1..N, k \in A : Step(k, n) \in A
  BY <1>1
<1>3. step \in [1..N -> [A -> A]]
  BY <1>2
<1>4. PICK h : IsLoop(h, N, A, <<>>, step)
  <2> HIDE DEF N, A, step
  <2> QED
    BY <1>1, <1>3, LoopExists
<1>5. h = Body(h)
  <2>1. ASSUME NEW n \in 0..N
        PROVE  h[n] = IF n = 0 THEN <<>>
                      ELSE IF view[n] = f THEN h[n - 1] ELSE Append(h[n - 1], view[n])
    <3>1. CASE n = 0
      BY <1>4, <3>1 DEF IsLoop
    <3>2. CASE n # 0
      <4>1. n \in 1..N /\ n - 1 \in 0..N
        BY <1>1, <3>2
      <4>2. h[n] = step[n][h[n - 1]] /\ h[n - 1] \in A
        BY <1>4, <4>1 DEF IsLoop
      <4>3. step[n][h[n - 1]] = Step(h[n - 1], n)
        BY <4>1, <4>2
      <4> QED
        BY <3>2, <4>2, <4>3
    <3> QED
      BY <3>1, <3>2
  <2> QED
    BY <1>4, <2>1 DEF IsLoop
<1> DEFINE kept == CHOOSE k : k = Body(k)
<1>6. kept = Body(kept)
  BY <1>5
<1>7. Without(view, f) = kept[N]
  BY DEF Without
<1> HIDE DEF kept
<1>8. kept[0] = <<>>
  BY <1>1, <1>6
<1>9. ASSUME NEW n \in 1..N
      PROVE  kept[n] = IF view[n] = f THEN kept[n - 1] ELSE Append(kept[n - 1], view[n])
  <2>1. n \in 0..N /\ n # 0
    BY <1>1
  <2> QED
    BY <1>6, <2>1
<1> DEFINE Fine(n) == /\ kept[n] \in A /\ Count(kept[n], f) = 0
                      /\ \A g : Count(kept[n], g) <= Count(SubSeq(view, 1, n), g)
           S == {n \in 0..N : Fine(n)}
<1>10. 0 \in S
  <2>1. SubSeq(view, 1, 0) = <<>>
    OBVIOUS
  <2>2. \A g : Count(<<>>, g) = 0
    <3>1. \A g : Places(<<>>, g) = {}
      BY DEF Places
    <3>2. <<>> \in Seq(Files)
      OBVIOUS
    <3> QED
      BY <3>1, <3>2, CountType, FS_EmptySet
  <2>3. Fine(0)
    <3>1. kept[0] \in A /\ Count(kept[0], f) = 0
      BY <1>1, <1>8, <2>2
    <3>2. ASSUME NEW g
          PROVE  Count(kept[0], g) <= Count(SubSeq(view, 1, 0), g)
      <4>1. Count(kept[0], g) = 0 /\ Count(SubSeq(view, 1, 0), g) = 0
        BY <1>8, <2>1, <2>2
      <4> QED
        BY <4>1
    <3> HIDE DEF A, kept, N
    <3> QED
      BY <3>1, <3>2
  <2> HIDE DEF Fine, N
  <2> QED
    BY <1>1, <2>3
<1>11. ASSUME NEW n \in 0..N, n \in S, n < N
       PROVE  n + 1 \in S
  <2> DEFINE p == SubSeq(view, 1, n)
             q == SubSeq(view, 1, n + 1)
             v == view[n + 1]
  <2>1. n + 1 \in 1..N /\ n + 1 \in 0..N /\ (n + 1) - 1 = n /\ v \in Files
    BY <1>1, <1>11
  <2>2. p \in Seq(Files) /\ q = Append(p, v)
    BY <1>1, <1>11, <2>1
  <2>3. Fine(n) /\ kept[n] \in Seq(Files)
    BY <1>11
  <2>4. kept[n + 1] = IF v = f THEN kept[n] ELSE Append(kept[n], v)
    BY <1>9, <2>1
  <2> HIDE DEF p, q, v
  <2>5. \A g : /\ Count(q, g) = Count(p, g) + (IF v = g THEN 1 ELSE 0)
               /\ Count(Append(kept[n], v), g) = Count(kept[n], g) + (IF v = g THEN 1 ELSE 0)
    BY <2>1, <2>2, <2>3, CountAppend
  <2>6. \A g : Count(p, g) \in Nat /\ Count(kept[n], g) \in Nat
    BY <2>2, <2>3, CountType
  <2>7. \A g : Count(kept[n], g) <= Count(p, g) /\ Count(kept[n], f) = 0
    BY <2>3 DEF p
  <2>8. Fine(n + 1)
    <3>1. kept[n + 1] \in A
      BY <2>1, <2>3, <2>4
    <3>2. Count(kept[n + 1], f) = 0
      BY <2>4, <2>5, <2>7
    <3>3. ASSUME NEW g
          PROVE  Count(kept[n + 1], g) <= Count(q, g)
      BY <2>4, <2>5, <2>6, <2>7
    <3> QED
      BY <3>1, <3>2, <3>3 DEF q
  <2> QED
    BY <2>1, <2>8
<1>12. Fine(N)
  <2> HIDE DEF S, N
  <2>1. \A n \in 0..N : n \in S /\ n < N => n + 1 \in S
    BY <1>11
  <2>2. 0..N \subseteq S
    BY <1>1, <1>10, <2>1, Induction
  <2>3. N \in S
    BY <1>1, <2>2
  <2> QED
    BY <2>3 DEF S
<1>13. SubSeq(view, 1, N) = view
  OBVIOUS
<1> QED
  BY <1>7, <1>12, <1>13

-----------------------------------------------------------------------------
(* What rvfs downloads shows as queued is on its way to the worker.         *)

\* The commands that have shown f in the view and have yet to send it.
Sending(f) == {t \in Terminals : cmd[t].pc = "send" /\ cmd[t].f = f}

\* The inductive invariant: no request shows more often than it waits, in the
\* channel or before it.
ViewInv ==
    /\ cmd \in [Terminals -> Commands]
    /\ prefetchQ \in Seq(Files) /\ prefetchView \in Seq(Files)
    /\ \A t \in Terminals : cmd[t].pc = "send" => cmd[t].f \in Files
    /\ \A f \in Files :
         /\ IsFiniteSet(Sending(f))
         /\ Count(prefetchView, f) <= Count(prefetchQ, f) + Cardinality(Sending(f))

\* The numbers the invariant speaks of are natural numbers.
LEMMA ViewNumbers ==
    ASSUME ViewInv, NEW f \in Files
    PROVE  /\ Count(prefetchView, f) \in Nat /\ Count(prefetchQ, f) \in Nat
           /\ Cardinality(Sending(f)) \in Nat /\ IsFiniteSet(Sending(f))
           /\ Count(prefetchView, f) <= Count(prefetchQ, f) + Cardinality(Sending(f))
<1>1. prefetchQ \in Seq(Files) /\ prefetchView \in Seq(Files) /\ IsFiniteSet(Sending(f))
  BY DEF ViewInv
<1> QED
  BY <1>1, CountType, FS_CardinalityType DEF ViewInv

\* A step that leaves channel, view and senders alone keeps it.
LEMMA ViewKept ==
    ASSUME ViewInv, UNCHANGED <<prefetchQ, prefetchView>>, cmd' \in [Terminals -> Commands],
           \A t \in Terminals : IF cmd[t].pc = "send" THEN cmd'[t] = cmd[t] ELSE cmd'[t].pc # "send"
    PROVE  ViewInv'
<1>1. \A f : Sending(f)' = Sending(f)
  BY DEF Sending
<1> QED
  BY <1>1 DEF ViewInv, Count

\* Most steps of a command are like that.
LEMMA CommandAside ==
    ASSUME ViewInv, NEW t \in Terminals,
           \/ Pin(t) \/ Unpin(t) \/ Dial(t) \/ HangUp(t) \/ PrefetchNow(t) \/ Evict(t)
           \/ EvictPath(t) \/ EvictMark(t)
           \/ PrefetchSequential(t) /\ ~DbOpen
    PROVE  ViewInv'
<1>1. cmd[t] \in Commands /\ cmd \in [Terminals -> Commands]
  BY DEF ViewInv
<1>2. ASSUME NEW c \in Commands, c.pc # "send", Set(t, c), cmd[t].pc # "send",
             UNCHANGED <<prefetchQ, prefetchView>>
      PROVE  ViewInv'
  <2>1. /\ cmd' \in [Terminals -> Commands]
        /\ \A u \in Terminals : cmd'[u] = IF u = t THEN c ELSE cmd[u]
    BY <1>1, <1>2 DEF Set
  <2> QED
    BY <1>2, <2>1, ViewKept
<1>3. CASE Pin(t) \/ Unpin(t)
  <2>1. /\ UNCHANGED queueVars /\ cmd[t].pc = "idle"
        /\ \E fs \in SUBSET Files : Set(t, Begun("pin", fs)) \/ Set(t, Begun("unpin", fs))
    BY <1>3 DEF Pin, Unpin
  <2>2. \A fs \in SUBSET Files : /\ Begun("pin", fs) \in Commands /\ Begun("unpin", fs) \in Commands
                                 /\ Begun("pin", fs).pc = "dial" /\ Begun("unpin", fs).pc = "dial"
    BY DEF Begun, Commands
  <2> QED
    BY <1>2, <2>1, <2>2 DEF queueVars
<1>4. NoCmd \in Commands /\ NoCmd.pc = "idle"
  BY DEF NoCmd, Commands
<1>5. CASE Dial(t) \/ HangUp(t)
  <2>1. [cmd[t] EXCEPT !.pc = "next"] \in Commands /\ [cmd[t] EXCEPT !.pc = "next"].pc = "next"
    BY <1>1 DEF Commands
  <2>2. /\ UNCHANGED queueVars /\ cmd[t].pc \in {"dial", "next"}
        /\ Set(t, [cmd[t] EXCEPT !.pc = "next"]) \/ Set(t, NoCmd)
    BY <1>5 DEF Dial, HangUp
  <2> QED
    BY <1>2, <1>4, <2>1, <2>2 DEF queueVars
<1>6. ASSUME NEW f \in cmd[t].todo, cmd[t].pc = "next", UNCHANGED <<prefetchQ, prefetchView>>,
             Set(t, [cmd[t] EXCEPT !.todo = @ \ {f}]) \/ Ask(t, f, "view")
      PROVE  ViewInv'
  <2>1. /\ [cmd[t] EXCEPT !.todo = @ \ {f}] \in Commands
        /\ [cmd[t] EXCEPT !.todo = @ \ {f}].pc = "next"
    BY <1>1, <1>6 DEF Commands
  <2>2. /\ [cmd[t] EXCEPT !.pc = "view", !.f = f, !.todo = @ \ {f}] \in Commands
        /\ [cmd[t] EXCEPT !.pc = "view", !.f = f, !.todo = @ \ {f}].pc = "view"
    BY <1>1, <1>6 DEF Commands
  <2> QED
    BY <1>2, <1>6, <2>1, <2>2 DEF Ask
<1>7. CASE PrefetchNow(t) \/ Evict(t) \/ (PrefetchSequential(t) /\ ~DbOpen)
  <2>1. cmd[t].pc = "next" /\ UNCHANGED <<prefetchQ, prefetchView>>
    BY <1>7 DEF PrefetchNow, Evict, PrefetchSequential, queueVars
  <2>2. \E f \in cmd[t].todo : Set(t, [cmd[t] EXCEPT !.todo = @ \ {f}]) \/ Ask(t, f, "view")
    BY <1>7 DEF PrefetchNow, Evict, PrefetchSequential
  <2> QED
    BY <1>6, <2>1, <2>2
<1>8. CASE EvictPath(t) \/ EvictMark(t)
  <2>1. /\ [cmd[t] EXCEPT !.pc = "mark"] \in Commands /\ [cmd[t] EXCEPT !.pc = "mark"].pc = "mark"
        /\ [cmd[t] EXCEPT !.pc = "next", !.f = "none"] \in Commands
        /\ [cmd[t] EXCEPT !.pc = "next", !.f = "none"].pc = "next"
    BY <1>1 DEF Commands
  <2>2. /\ cmd[t].pc # "send" /\ UNCHANGED <<prefetchQ, prefetchView>>
        /\ \/ Set(t, [cmd[t] EXCEPT !.pc = "mark"])
           \/ Set(t, [cmd[t] EXCEPT !.pc = "next", !.f = "none"])
    BY <1>8 DEF EvictPath, EvictMark, Answer, queueVars
  <2> QED
    BY <1>2, <2>1, <2>2
<1> QED
  BY <1>3, <1>5, <1>7, <1>8

\* A request that shows is about to be sent.
LEMMA ShowStep ==
    ASSUME ViewInv, NEW t \in Terminals, PrefetchSequential(t), DbOpen
    PROVE  ViewInv'
<1>1. PICK f \in cmd[t].todo : prefetchView' = Append(prefetchView, f) /\ Ask(t, f, "send")
  BY DEF PrefetchSequential
<1>2. cmd[t].pc = "next" /\ prefetchQ' = prefetchQ
  BY DEF PrefetchSequential
<1>3. cmd[t] \in Commands /\ cmd \in [Terminals -> Commands] /\ f \in Files
  BY <1>1 DEF ViewInv, Commands
<1> DEFINE c == [cmd[t] EXCEPT !.pc = "send", !.f = f, !.todo = @ \ {f}]
<1>4. c \in Commands /\ c.pc = "send" /\ c.f = f /\ cmd' = [cmd EXCEPT ![t] = c]
  BY <1>1, <1>3 DEF Commands, Ask, Set
<1> HIDE DEF c
<1>5. /\ cmd' \in [Terminals -> Commands]
      /\ \A u \in Terminals : cmd'[u] = IF u = t THEN c ELSE cmd[u]
  BY <1>3, <1>4
<1>6. /\ Sending(f)' = Sending(f) \cup {t} /\ t \notin Sending(f)
      /\ \A g \in Files \ {f} : Sending(g)' = Sending(g)
  BY <1>2, <1>4, <1>5 DEF Sending
<1>7. prefetchView \in Seq(Files) /\ prefetchView' \in Seq(Files)
  BY <1>1, <1>3 DEF ViewInv
<1>8. ASSUME NEW g \in Files
      PROVE  /\ IsFiniteSet(Sending(g)')
             /\ Count(prefetchView', g) <= Count(prefetchQ, g) + Cardinality(Sending(g)')
  <2>1. /\ Count(prefetchView, g) \in Nat /\ Count(prefetchQ, g) \in Nat
        /\ Cardinality(Sending(g)) \in Nat /\ IsFiniteSet(Sending(g))
        /\ Count(prefetchView, g) <= Count(prefetchQ, g) + Cardinality(Sending(g))
    BY ViewNumbers
  <2>2. Count(prefetchView', g) = Count(prefetchView, g) + (IF f = g THEN 1 ELSE 0)
    BY <1>1, <1>3, <1>7, CountAppend
  <2>3. IsFiniteSet(Sending(g)') /\ Cardinality(Sending(g)') = Cardinality(Sending(g)) + (IF f = g THEN 1 ELSE 0)
    BY <1>6, <2>1, FS_AddElement
  <2> QED
    BY <2>1, <2>2, <2>3
<1>9. \A u \in Terminals : cmd'[u].pc = "send" => cmd'[u].f \in Files
  BY <1>3, <1>4, <1>5 DEF ViewInv
<1>10. prefetchQ' \in Seq(Files)
  BY <1>2 DEF ViewInv
<1> QED
  BY <1>2, <1>5, <1>7, <1>8, <1>9, <1>10 DEF ViewInv, Count

\* A request that is sent is in the channel.
LEMMA SentStep ==
    ASSUME ViewInv, NEW t \in Terminals, Send(t)
    PROVE  ViewInv'
<1>0. PICK f \in Files : f = cmd[t].f
  BY DEF Send, ViewInv
<1> DEFINE c == [cmd[t] EXCEPT !.pc = "next", !.f = "none"]
<1>1. /\ cmd[t].pc = "send" /\ f = cmd[t].f /\ prefetchView' = prefetchView
      /\ prefetchQ' = Append(prefetchQ, f) /\ cmd' = [cmd EXCEPT ![t] = c]
  BY <1>0 DEF Send, ViewInv, Answer, Set
<1>2. cmd[t] \in Commands /\ cmd \in [Terminals -> Commands]
  BY DEF ViewInv
<1>3. c \in Commands /\ c.pc = "next"
  BY <1>2 DEF Commands
<1> HIDE DEF c
<1>4. /\ cmd' \in [Terminals -> Commands]
      /\ \A u \in Terminals : cmd'[u] = IF u = t THEN c ELSE cmd[u]
  BY <1>1, <1>2, <1>3
<1>5. /\ Sending(f)' = Sending(f) \ {t} /\ t \in Sending(f)
      /\ \A g \in Files \ {f} : Sending(g)' = Sending(g)
  BY <1>1, <1>3, <1>4 DEF Sending
<1>6. prefetchQ \in Seq(Files) /\ prefetchQ' \in Seq(Files) /\ prefetchView \in Seq(Files)
  BY <1>1 DEF ViewInv
<1>7. ASSUME NEW g \in Files
      PROVE  /\ IsFiniteSet(Sending(g)')
             /\ Count(prefetchView, g) <= Count(prefetchQ', g) + Cardinality(Sending(g)')
  <2>1. /\ Count(prefetchView, g) \in Nat /\ Count(prefetchQ, g) \in Nat
        /\ Cardinality(Sending(g)) \in Nat /\ IsFiniteSet(Sending(g))
        /\ Count(prefetchView, g) <= Count(prefetchQ, g) + Cardinality(Sending(g))
    BY ViewNumbers
  <2>2. Count(prefetchQ', g) = Count(prefetchQ, g) + (IF f = g THEN 1 ELSE 0)
    BY <1>1, <1>6, CountAppend
  <2>3. IsFiniteSet(Sending(g)') /\ Cardinality(Sending(g)') = Cardinality(Sending(g)) - (IF f = g THEN 1 ELSE 0)
    BY <1>5, <2>1, FS_RemoveElement
  <2> QED
    BY <2>1, <2>2, <2>3
<1>8. \A u \in Terminals : cmd'[u].pc = "send" => cmd'[u].f \in Files
  BY <1>3, <1>4 DEF ViewInv
<1> QED
  BY <1>1, <1>4, <1>6, <1>7, <1>8 DEF ViewInv, Count

\* A request that is taken back no longer shows.
LEMMA TakenBackStep ==
    ASSUME ViewInv, NEW t \in Terminals, RemovePrefetchPath(t)
    PROVE  ViewInv'
<1>1. /\ cmd[t].pc = "view" /\ prefetchQ' = prefetchQ
      /\ prefetchView' = Without(prefetchView, cmd[t].f)
      /\ Set(t, [cmd[t] EXCEPT !.pc = "remove"])
  BY DEF RemovePrefetchPath
<1>2. /\ cmd[t] \in Commands /\ cmd \in [Terminals -> Commands]
      /\ prefetchView \in Seq(Files) /\ prefetchQ \in Seq(Files)
  BY DEF ViewInv
<1>3. /\ cmd' \in [Terminals -> Commands]
      /\ \A u \in Terminals : u # t => cmd'[u] = cmd[u]
      /\ cmd'[t].pc = "remove"
  BY <1>1, <1>2 DEF Set, Commands
<1>4. \A g : Sending(g)' = Sending(g)
  BY <1>1, <1>3 DEF Sending
<1>5. prefetchView' \in Seq(Files) /\ \A g : Count(prefetchView', g) <= Count(prefetchView, g)
  BY <1>1, <1>2, WithoutCounts
<1>6. ASSUME NEW g \in Files
      PROVE  Count(prefetchView', g) <= Count(prefetchQ, g) + Cardinality(Sending(g))
  <2>1. Count(prefetchView', g) \in Nat
    BY <1>5, CountType
  <2> QED
    BY <1>5, <2>1, ViewNumbers
<1>7. \A u \in Terminals : cmd'[u].pc = "send" => cmd'[u].f \in Files
  BY <1>3 DEF ViewInv
<1> QED
  BY <1>1, <1>2, <1>3, <1>4, <1>5, <1>6, <1>7 DEF ViewInv, Count

\* A request that is received leaves channel and view.
LEMMA ReceivedStep ==
    ASSUME ViewInv, Recv
    PROVE  ViewInv'
<1> DEFINE f == Head(prefetchQ)
<1>1. /\ prefetchQ # <<>> /\ prefetchQ' = Tail(prefetchQ) /\ cmd' = cmd
      /\ prefetchView' = Dequeue(prefetchView, f)
  BY DEF Recv
<1>2. prefetchView \in Seq(Files) /\ prefetchQ \in Seq(Files)
  BY DEF ViewInv
<1>3. /\ f \in Files /\ f = prefetchQ[1] /\ 1 \in 1..Len(prefetchQ) /\ prefetchQ' \in Seq(Files)
      /\ Len(prefetchQ') = Len(prefetchQ) - 1
      /\ \A j \in 1..Len(prefetchQ') : prefetchQ'[j] = IF j < 1 THEN prefetchQ[j] ELSE prefetchQ[j + 1]
  BY <1>1, <1>2
<1> HIDE DEF f
<1>4. \A g : Count(prefetchQ, g) = Count(prefetchQ', g) + (IF f = g THEN 1 ELSE 0)
  BY <1>2, <1>3, CountDrop
<1>5. /\ prefetchView' \in Seq(Files)
      /\ \A g : Count(prefetchView', g) <= Count(prefetchView, g)
      /\ Count(prefetchView, f) > 0 => Count(prefetchView', f) < Count(prefetchView, f)
  BY <1>1, <1>2, <1>3, DequeueCounts
<1>6. \A g : Sending(g)' = Sending(g)
  BY <1>1 DEF Sending
<1>7. ASSUME NEW g \in Files
      PROVE  Count(prefetchView', g) <= Count(prefetchQ', g) + Cardinality(Sending(g))
  <2>1. /\ Count(prefetchView, g) \in Nat /\ Count(prefetchQ, g) \in Nat
        /\ Cardinality(Sending(g)) \in Nat
        /\ Count(prefetchView, g) <= Count(prefetchQ, g) + Cardinality(Sending(g))
    BY ViewNumbers
  <2>2. Count(prefetchView', g) \in Nat /\ Count(prefetchQ', g) \in Nat
    BY <1>3, <1>5, CountType
  <2>3. CASE g = f
    BY <1>4, <1>5, <2>1, <2>2, <2>3
  <2>4. CASE g # f
    BY <1>4, <1>5, <2>1, <2>2, <2>4
  <2> QED
    BY <2>3, <2>4
<1> QED
  BY <1>1, <1>3, <1>5, <1>6, <1>7 DEF ViewInv, Count

\* With the process everything is gone.
LEMMA ViewGone ==
    ASSUME ViewInv, Ends
    PROVE  ViewInv'
<1>1. /\ prefetchQ' = <<>> /\ prefetchView' = <<>>
      /\ cmd' = [t \in Terminals |-> IF Connected(t) THEN NoCmd ELSE cmd[t]]
  BY DEF Ends
<1>2. cmd' \in [Terminals -> Commands] /\ \A t \in Terminals : cmd'[t].pc # "send"
  BY <1>1 DEF ViewInv, Connected, NoCmd, Commands
<1>3. \A f : Sending(f)' = {}
  BY <1>2 DEF Sending
<1>4. <<>> \in Seq(Files)
  OBVIOUS
<1>5. \A f : Count(<<>>, f) \in Nat
  BY <1>4, CountType
<1>6. \A f : IsFiniteSet(Sending(f)') /\ Cardinality(Sending(f)') = 0
  BY <1>3, FS_EmptySet
<1>7. \A f : Count(<<>>, f) <= Count(<<>>, f) + 0
  BY <1>5
<1> QED
  BY <1>1, <1>2, <1>4, <1>6, <1>7 DEF ViewInv, Count

\* What rvfs downloads shows as queued is still on its way to the worker,
\* whoever pins, unpins, sends or receives at the same time and however often a
\* file is queued (mount.go: prefetchView). None of the races matters here.
THEOREM QueueShowsQueued == Spec => []ShownIsQueued
<1>1. Init => ViewInv
  <2> SUFFICES ASSUME Init PROVE ViewInv
    OBVIOUS
  <2>1. prefetchQ = <<>> /\ prefetchView = <<>> /\ cmd = [t \in Terminals |-> NoCmd]
    BY DEF Init
  <2>2. cmd \in [Terminals -> Commands] /\ \A t \in Terminals : cmd[t].pc # "send"
    BY <2>1 DEF NoCmd, Commands
  <2>3. \A f : IsFiniteSet(Sending(f)) /\ Cardinality(Sending(f)) = 0
    <3>1. \A f : Sending(f) = {}
      BY <2>2 DEF Sending
    <3> QED
      BY <3>1, FS_EmptySet
  <2>4. <<>> \in Seq(Files) /\ \A f : Count(<<>>, f) <= Count(<<>>, f) + 0
    <3>1. <<>> \in Seq(Files)
      OBVIOUS
    <3>2. \A f : Count(<<>>, f) \in Nat
      BY <3>1, CountType
    <3> QED
      BY <3>1, <3>2
  <2> QED
    BY <2>1, <2>2, <2>3, <2>4 DEF ViewInv
<1>2. ASSUME ViewInv, [Next]_vars
      PROVE  ViewInv'
  <2>1. ASSUME NEW t \in Terminals, Pin(t) \/ Unpin(t) \/ Command(t)
        PROVE  ViewInv'
    BY <1>2, <2>1, CommandAside, ShowStep, SentStep, TakenBackStep DEF Command
  <2>2. CASE Exit \/ Crash
    BY <1>2, <2>2, ViewGone DEF Exit, Crash
  <2>3. ASSUME UNCHANGED <<cmd, prefetchQ, prefetchView>>
        PROVE  ViewInv'
    BY <1>2, <2>3 DEF ViewInv, Sending, Count
  <2>4. ASSUME NEW f \in Files, Finish(f) \/ Fail(f) \/ ReadStarts(f) \/ Release(f) \/ ReleaseCancels(f)
        PROVE  ViewInv'
    BY <2>3, <2>4 DEF Finish, Fail, ReadStarts, Release, ReleaseCancels, queueVars
  <2>5. CASE PassBegin \/ PassGoesOn \/ Check \/ Start \/ WaitForRange \/ WorkerDone \/ UNCHANGED vars
    BY <2>3, <2>5 DEF PassBegin, PassGoesOn, PassRemove, PassMark, PassEnd, Check, Start,
       WaitForRange, WorkerDone, vars, queueVars
  <2>6. CASE CloseServer \/ StopPrefetchWorker \/ Unmount \/ Remount
    BY <2>3, <2>6 DEF CloseServer, StopPrefetchWorker, Unmount, Remount, queueVars
  <2>7. CASE Recv
    BY <1>2, <2>7, ReceivedStep
  <2> QED
    BY <1>2, <2>1, <2>2, <2>4, <2>5, <2>6, <2>7 DEF Next, Worker, Shutdown
<1>3. ViewInv => ShownIsQueued
  BY DEF ViewInv, ShownIsQueued, Sending
<1> QED
  BY <1>1, <1>2, <1>3, PTL DEF Spec
=============================================================================
