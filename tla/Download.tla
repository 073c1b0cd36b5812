------------------------------ MODULE Download ------------------------------
(***************************************************************************)
(* The download manager (internal/download/manager.go) for one path: its   *)
(* Download objects and their goroutines, the FUSE handles that read       *)
(* through them (internal/fuse/node.go: downloadFileHandle), prefetches,   *)
(* the offline cancellation, the two ways to evict the file, and a crash   *)
(* of the mount process. The database row and the cache file survive a     *)
(* crash; everything else is lost.                                         *)
(*                                                                         *)
(* A file is the chunks 0..N-1, and a RangeSet is the set of chunks it     *)
(* covers (module RangeSet justifies that). Steps are separated wherever   *)
(* the code gives up a lock or calls the database, the file system or the  *)
(* remote. A condition variable is modelled by the condition its waiter    *)
(* tests: every step of the code that can make it true broadcasts.         *)
(***************************************************************************)
EXTENDS Integers, FiniteSets

CONSTANTS
    N,             \* chunks of the file
    Window,        \* goroutineWindow, in chunks
    ReadAhead,     \* ManagerOptions.ReadAhead, in chunks; 0 is unlimited
    IdleTimeout,   \* is ManagerOptions.IdleTimeout positive
    SupportsRange, \* adapter.SupportsRange
    Readers,       \* FUSE handles
    Prefetchers,   \* callers of Manager.Prefetch
    Evictions,     \* subset of {"command", "lru"}: who removes cache files
    AtomicOpen,    \* may nothing happen between OpenOrCreate's stat and create
    MayCancel,     \* may the monitor report OFFLINE
    MayCrash,      \* may the process crash
    MayCheckpoint, \* do downloads last long enough for periodic checkpoints
    MaxGen,        \* bound: Download objects alive at a time
    MaxGo,         \* bound: goroutines of a Download alive at a time
    MaxIno         \* bound: inodes in use at a time

ASSUME SizeAssumption ==
    /\ N \in Nat \ {0} /\ Window \in Nat \ {0} /\ ReadAhead \in Nat
    /\ MaxGen \in Nat \ {0} /\ MaxGo \in Nat \ {0} /\ MaxIno \in Nat \ {0}

ASSUME FlagAssumption ==
    /\ {IdleTimeout, SupportsRange, AtomicOpen, MayCancel, MayCrash,
        MayCheckpoint} \subseteq BOOLEAN
    /\ Evictions \subseteq {"command", "lru"}
    /\ Readers \cap Prefetchers = {}

Chunks  == 0 .. N - 1
Gens    == 1 .. MaxGen
Slots   == 1 .. MaxGo
Inodes  == 1 .. MaxIno
Callers == Readers \cup Prefetchers
None    == 0

VARIABLES
    row,     \* the file's database row: state and cached_ranges
    ino,     \* inode of the cache file, None when there is none
    data,    \* the chunks written to each inode; the rest of it is a hole
    active,  \* Manager.downloads[path], a generation or None
    dl,      \* the Download objects
    ranges,  \* Download.rangeSet
    go,      \* Download.goroutines
    rd,      \* the callers of Start, WaitForRange and ReleaseReader
    fg,      \* another path is in Manager.foregroundPaths
    ev       \* the eviction in progress

vars == <<row, ino, data, active, dl, ranges, go, rd, fg, ev>>

NoGo    == [pc |-> "off", pos |-> 0, seq |-> FALSE, stop |-> FALSE]
NoDl    == [used |-> FALSE, ino |-> None, err |-> FALSE, done |-> FALSE, closed |-> FALSE,
            open |-> 0, prefetch |-> FALSE, last |-> 0,
            ckpt |-> {}, pend |-> {}, cancel |-> "none", snap |-> {}, end |-> "none"]
NoRd    == [pc |-> "idle", g |-> None, own |-> FALSE, ino |-> None, ranges |-> {}, at |-> 0]
NoEvict == [pc |-> "idle", g |-> None]

TypeOK ==
    /\ row \in [state : {"evicted", "downloading", "clean"}, ranges : SUBSET Chunks]
    /\ ino \in Inodes \cup {None}
    /\ data \in [Inodes -> SUBSET Chunks]
    /\ active \in Gens \cup {None}
    /\ dl \in [Gens -> [used : BOOLEAN, ino : Inodes \cup {None}, err : BOOLEAN,
                        done : BOOLEAN, closed : BOOLEAN, open : Nat,
                        prefetch : BOOLEAN, last : 0..N,
                        ckpt : SUBSET Chunks, pend : SUBSET Chunks,
                        cancel : {"none", "put"}, snap : SUBSET Chunks,
                        end : {"none", "finish", "delete", "late", "put"}]]
    /\ ranges \in [Gens -> SUBSET Chunks]
    /\ go \in [Gens -> [Slots -> [pc : {"off", "top", "got", "wrote", "yield", "throttle"},
                                  pos : 0..N, seq : BOOLEAN, stop : BOOLEAN]]]
    /\ rd \in [Callers -> [pc : {"idle", "stat", "create", "load", "register", "setstate",
                                 "spawn", "open", "ready", "wait", "serve", "release"},
                           g : Gens \cup {None}, own : BOOLEAN,
                           ino : Inodes \cup {None}, ranges : SUBSET Chunks, at : Chunks]]
    /\ fg \in BOOLEAN
    /\ ev \in [pc : {"idle", "wait", "remove", "mark"}, g : Gens \cup {None}]

\* A file known from a pull and not yet downloaded.
Init ==
    /\ row = [state |-> "evicted", ranges |-> {}]
    /\ ino = None
    /\ data = [i \in Inodes |-> {}]
    /\ active = None
    /\ dl = [g \in Gens |-> NoDl]
    /\ ranges = [g \in Gens |-> {}]
    /\ go = [g \in Gens |-> [i \in Slots |-> NoGo]]
    /\ rd = [c \in Callers |-> NoRd]
    /\ fg = FALSE
    /\ ev = NoEvict

-----------------------------------------------------------------------------
(* Helpers.                                                                *)

Alive(g) == {i \in Slots : go[g][i].pc # "off"}
IsComplete(g) == ranges[g] = Chunks
Lowest(S) == CHOOSE x \in S : \A y \in S : x <= y
Highest(a, b) == IF a > b THEN a ELSE b

\* hasGoroutineNear.
HasGoroutineNear(g, at) ==
    \E i \in Alive(g) : LET pos == go[g][i].pos
                        IN  at - pos < Window /\ pos - at < Window

\* The goroutines of g after spawnGoroutine(at, seq) and the cancellation of
\* the goroutines in stop.
Spawned(g, at, seq, stop) ==
    LET free == Lowest(Slots \ Alive(g))
    IN  [i \in Slots |->
            IF i = free THEN [pc |-> "top", pos |-> at, seq |-> seq, stop |-> FALSE]
            ELSE IF i \in stop THEN [go[g][i] EXCEPT !.stop = TRUE]
            ELSE go[g][i]]

Stopped(g, stop) == [i \in Slots |-> IF i \in stop THEN [go[g][i] EXCEPT !.stop = TRUE]
                                     ELSE go[g][i]]

HasSlot(g) == Alive(g) # Slots

\* cancelFarBehind.
FarBehind(g, at) == {i \in Alive(g) : ~go[g][i].seq /\ at - go[g][i].pos > Window}

\* Manager.Cancel and the critical section of Download.cancel for the
\* generation g: the registered download is forgotten, its goroutines are
\* told to stop, waiters get an error, and the ranges to persist are copied.
CancelDl(g) ==
    /\ active' = None
    /\ dl' = [dl EXCEPT ![g].err = TRUE, ![g].cancel = "put", ![g].snap = ranges[g]]
    /\ go' = [go EXCEPT ![g] = Stopped(g, Alive(g))]

-----------------------------------------------------------------------------
(* Manager.Start, one step per lock, file system or database access. A     *)
(* reader comes from the first Read of a handle that was opened while the  *)
(* row was evicted or downloading; a prefetcher from the IPC server.       *)

Goto(c, pc) == rd' = [rd EXCEPT ![c].pc = pc]

\* The first look at Manager.downloads.
StartLookup(c) ==
    /\ rd[c].pc = "idle"
    /\ c \in Readers => row.state \in {"evicted", "downloading"}
    /\ \/ /\ active # None /\ c \in Readers
          /\ dl' = [dl EXCEPT ![active].open = @ + 1]
          /\ rd' = [rd EXCEPT ![c].pc = "open", ![c].g = active, ![c].own = FALSE]
       \/ /\ active # None /\ c \in Prefetchers
          /\ dl' = [dl EXCEPT ![active].prefetch = TRUE]
          /\ UNCHANGED rd
       \/ active = None /\ Goto(c, "stat") /\ UNCHANGED dl
    /\ UNCHANGED <<row, ino, data, active, ranges, go, fg, ev>>

\* The inode a new file gets: one that nobody refers to.
FreeInodes == Inodes \ ({ino} \cup {dl[g].ino : g \in Gens} \cup {rd[c].ino : c \in Callers})

CreateFile(c) ==
    LET new == IF ino # None THEN ino ELSE Lowest(FreeInodes)
    IN  /\ ino # None \/ FreeInodes # {}
        /\ ino' = new
        /\ data' = [data EXCEPT ![new] = {}]
        /\ rd' = [rd EXCEPT ![c].pc = "load", ![c].ino = new]

\* Mutant of StartStat: the cache file is truncated whether it exists or not.
StartStatTruncate(c) ==
    /\ rd[c].pc = "stat"
    /\ CreateFile(c)
    /\ UNCHANGED <<row, active, dl, ranges, go, fg, ev>>

\* OpenOrCreate: a cache file of the right size is reused ...
StartStat(c) ==
    /\ rd[c].pc = "stat"
    /\ \/ ino # None /\ rd' = [rd EXCEPT ![c].pc = "load", ![c].ino = ino]
          /\ UNCHANGED <<ino, data>>
       \/ ino = None /\ ~AtomicOpen /\ Goto(c, "create") /\ UNCHANGED <<ino, data>>
       \/ ino = None /\ AtomicOpen /\ CreateFile(c)
    /\ UNCHANGED <<row, active, dl, ranges, go, fg, ev>>

\* ... otherwise it is created, or truncated if it exists by now.
StartCreate(c) ==
    /\ rd[c].pc = "create"
    /\ CreateFile(c)
    /\ UNCHANGED <<row, active, dl, ranges, go, fg, ev>>

\* The persisted ranges are read for the resume.
StartLoad(c) ==
    /\ rd[c].pc = "load"
    /\ rd' = [rd EXCEPT ![c].pc = "register", ![c].ranges = row.ranges]
    /\ UNCHANGED <<row, ino, data, active, dl, ranges, go, fg, ev>>

\* The second look at Manager.downloads, and the registration.
StartRegister(c) ==
    /\ rd[c].pc = "register"
    /\ \/ /\ active # None
          /\ dl' = [dl EXCEPT ![active].open = @ + 1]
          /\ rd' = [rd EXCEPT ![c] = [NoRd EXCEPT !.pc = "open", !.g = active]]
          /\ UNCHANGED <<active, ranges>>
       \/ /\ active = None
          /\ \E g \in Gens : ~dl[g].used
          /\ LET g == Lowest({h \in Gens : ~dl[h].used})
             IN  /\ active' = g
                 /\ dl' = [dl EXCEPT ![g] = [NoDl EXCEPT !.used = TRUE, !.ino = rd[c].ino,
                                                        !.open = 1]]
                 /\ ranges' = [ranges EXCEPT ![g] = rd[c].ranges]
                 /\ rd' = [rd EXCEPT ![c] = [NoRd EXCEPT !.pc = "setstate", !.g = g,
                                                        !.own = TRUE]]
    /\ UNCHANGED <<row, ino, data, go, fg, ev>>

StartSetState(c) ==
    /\ rd[c].pc = "setstate"
    /\ row' = [row EXCEPT !.state = "downloading"]
    /\ Goto(c, "spawn")
    /\ UNCHANGED <<ino, data, active, dl, ranges, go, fg, ev>>

\* The sequential goroutine starts at the first gap; a complete file only
\* has to be finished.
StartSpawn(c) ==
    LET g == rd[c].g
    IN  /\ rd[c].pc = "spawn"
        /\ Goto(c, "open")
        /\ \/ /\ ~IsComplete(g) /\ HasSlot(g)
              /\ go' = [go EXCEPT ![g] = Spawned(g, Lowest(Chunks \ ranges[g]), TRUE, {})]
              /\ UNCHANGED dl
           \/ /\ IsComplete(g)
              /\ dl' = [dl EXCEPT ![g].done = TRUE, ![g].end = "finish"]
              /\ UNCHANGED go
        /\ UNCHANGED <<row, ino, data, active, ranges, fg, ev>>

\* The cache file is opened for reading. A missing file fails the call; only
\* a caller that joined an existing download gives its reference back.
StartOpen(c) ==
    /\ rd[c].pc = "open"
    /\ \/ /\ ino # None
          /\ rd' = [rd EXCEPT ![c].pc = "ready", ![c].ino = ino]
          /\ UNCHANGED dl
       \/ /\ ino = None
          /\ rd' = [rd EXCEPT ![c] = NoRd]
          /\ dl' = IF rd[c].own THEN dl ELSE [dl EXCEPT ![rd[c].g].open = @ - 1]
    /\ UNCHANGED <<row, ino, data, active, ranges, go, fg, ev>>

-----------------------------------------------------------------------------
(* Reading: Download.waitForRange, the read itself, Hint.                  *)

\* waitForRange up to its wait loop, for a read of the chunk at.
ReadBegin(c, at) ==
    LET g    == rd[c].g
        seek == Alive(g) # {} /\ ~HasGoroutineNear(g, at)
        lone == dl[g].open = 1
        redirect == IF seek /\ lone THEN Alive(g) ELSE {}
    IN  /\ rd[c].pc = "ready" /\ c \in Readers
        /\ dl' = [dl EXCEPT ![g].last = Highest(@, at + 1)]
        /\ \/ /\ at \in ranges[g] \/ (~dl[g].err /\ dl[g].done)
              /\ rd' = [rd EXCEPT ![c].pc = "serve", ![c].at = at]
              /\ UNCHANGED go
           \/ /\ at \notin ranges[g] /\ dl[g].err
              /\ UNCHANGED <<rd, go>>
           \/ /\ at \notin ranges[g] /\ ~dl[g].err /\ ~dl[g].done
              /\ rd' = [rd EXCEPT ![c].pc = "wait", ![c].at = at]
              /\ IF Alive(g) = {} \/ seek
                 THEN HasSlot(g) /\ go' = [go EXCEPT ![g] =
                        Spawned(g, at, Alive(g) = {} \/ lone, redirect \cup FarBehind(g, at))]
                 ELSE go' = [go EXCEPT ![g] = Stopped(g, FarBehind(g, at))]
        /\ UNCHANGED <<row, ino, data, active, ranges, fg, ev>>

\* Mutant of ReadWake: an error ends the wait like the arrival of the range.
ReadWakeNoError(c) ==
    LET g == rd[c].g
    IN  /\ rd[c].pc = "wait"
        /\ rd[c].at \in ranges[g] \/ dl[g].err \/ dl[g].done
        /\ Goto(c, "serve")
        /\ UNCHANGED <<row, ino, data, active, dl, ranges, go, fg, ev>>

\* The wait loop ends, with an error as soon as the download has one.
ReadWake(c) ==
    LET g == rd[c].g
    IN  /\ rd[c].pc = "wait"
        /\ rd[c].at \in ranges[g] \/ dl[g].err \/ dl[g].done
        /\ IF dl[g].err THEN rd' = [rd EXCEPT ![c].pc = "ready", ![c].at = 0]
           ELSE Goto(c, "serve")
        /\ UNCHANGED <<row, ino, data, active, dl, ranges, go, fg, ev>>

\* Mutant of ReadRespawn: the wait loop relies on the goroutines it found.
ReadRespawnNever(c) == FALSE /\ UNCHANGED vars

\* The wait loop restarts a download whose goroutines are all gone.
ReadRespawn(c) ==
    LET g == rd[c].g
    IN  /\ rd[c].pc = "wait"
        /\ rd[c].at \notin ranges[g] /\ ~dl[g].err /\ ~dl[g].done
        /\ Alive(g) = {}
        /\ go' = [go EXCEPT ![g] = Spawned(g, rd[c].at, TRUE, {})]
        /\ UNCHANGED <<row, ino, data, active, dl, ranges, rd, fg, ev>>

\* ReadAt on the handle's file, then Hint for the following chunk on the
\* download that is registered by now.
ReadServe(c) ==
    /\ rd[c].pc = "serve"
    /\ rd' = [rd EXCEPT ![c].pc = "ready", ![c].at = 0]
    /\ LET next == rd[c].at + 1
       IN  IF /\ active # None /\ ~dl[active].done /\ ~dl[active].err
              /\ next \notin ranges[active] /\ ~HasGoroutineNear(active, next)
           THEN HasSlot(active)
                /\ go' = [go EXCEPT ![active] = Spawned(active, next, FALSE, {})]
           ELSE UNCHANGED go
    /\ UNCHANGED <<row, ino, data, active, dl, ranges, fg, ev>>

\* Release closes the handle and ReleaseReader gives the reference back. A
\* prefetcher marks the download first.
Release(c) ==
    LET g == rd[c].g
    IN  /\ rd[c].pc = "ready"
        /\ dl' = [dl EXCEPT ![g].open = @ - 1,
                            ![g].prefetch = @ \/ c \in Prefetchers]
        /\ rd' = [rd EXCEPT ![c] = IF dl[g].open > 1 \/ ReadAhead = 0 THEN NoRd
                                   ELSE [NoRd EXCEPT !.pc = "release", !.g = g]]
        /\ UNCHANGED <<row, ino, data, active, ranges, go, fg, ev>>

\* The last reader cancels the download of its path.
ReleaseCancel(c) ==
    /\ rd[c].pc = "release"
    /\ rd' = [rd EXCEPT ![c] = NoRd]
    /\ IF ~dl[rd[c].g].done /\ ~dl[rd[c].g].prefetch /\ active # None
       THEN CancelDl(active)
       ELSE UNCHANGED <<active, dl, go>>
    /\ UNCHANGED <<row, ino, data, ranges, fg, ev>>

-----------------------------------------------------------------------------
(* A download goroutine: downloadLoop.                                     *)

\* The deferred exit of the goroutine i of g: the last one out finishes a
\* complete download, or disposes of a failed one. failed is the error the
\* goroutine leaves behind.
Exit(g, i, failed) ==
    LET lastOut == Alive(g) = {i}
        error   == dl[g].err \/ failed
        end     == IF dl[g].done \/ ~lastOut THEN dl[g].end
                   ELSE IF IsComplete(g) THEN "finish"
                   ELSE IF error THEN "late" ELSE dl[g].end
    IN  /\ go' = [go EXCEPT ![g][i] = NoGo]
        /\ dl' = [dl EXCEPT ![g].err = error, ![g].end = end,
                            ![g].done = @ \/ end # dl[g].end]

GoStep(g, i, pc) == go' = [go EXCEPT ![g][i].pc = pc]

\* The top of the loop: leave when cancelled, at the end of the file, or when
\* the remote fails; otherwise a chunk arrives.
GoTop(g, i) ==
    /\ go[g][i].pc = "top"
    /\ \/ (go[g][i].stop \/ go[g][i].pos = N) /\ Exit(g, i, FALSE)
       \/ ~go[g][i].stop /\ go[g][i].pos < N /\ Exit(g, i, TRUE)
       \/ ~go[g][i].stop /\ go[g][i].pos < N /\ GoStep(g, i, "got") /\ UNCHANGED dl
    /\ UNCHANGED <<row, ino, data, active, ranges, rd, fg, ev>>

\* WriteAt, which fails once the cache file is closed.
GoWrite(g, i) ==
    /\ go[g][i].pc = "got"
    /\ \/ /\ ~dl[g].closed
          /\ data' = [data EXCEPT ![dl[g].ino] = @ \cup {go[g][i].pos}]
          /\ GoStep(g, i, "wrote")
          /\ UNCHANGED dl
       \/ dl[g].closed /\ Exit(g, i, TRUE) /\ UNCHANGED data
    /\ UNCHANGED <<row, ino, active, ranges, rd, fg, ev>>

\* The critical section after a write: rangeSet.Add, and now and then a
\* checkpoint of the ranges (persistRangesLocked keeps only the latest one
\* that waits). A secondary goroutine leaves when the next chunk is there.
GoAdd(g, i) ==
    LET pos  == go[g][i].pos
        have == ranges[g] \cup {pos}
        next == IF ~go[g][i].seq THEN "top" ELSE "yield"
    IN  /\ go[g][i].pc = "wrote"
        /\ ranges' = [ranges EXCEPT ![g] = have]
        /\ \/ UNCHANGED dl
           \/ /\ MayCheckpoint
              /\ dl' = IF dl[g].ckpt = {} THEN [dl EXCEPT ![g].ckpt = have]
                       ELSE [dl EXCEPT ![g].pend = have]
        /\ go' = [go EXCEPT ![g][i] =
                     [go[g][i] EXCEPT !.pos = pos + 1, !.pc = next,
                                      !.stop = @ \/ (~go[g][i].seq /\ pos + 1 \in have)]]
        /\ UNCHANGED <<row, ino, data, active, rd, fg, ev>>

\* The sequential goroutine of a prefetch yields while another file is read
\* in the foreground, and leaves if the path is no longer registered.
GoYield(g, i) ==
    LET yields   == dl[g].prefetch /\ fg
                    /\ ~ \E c \in Readers : rd[c].pc \in {"ready", "wait", "serve"}
        throttle == IF ReadAhead > 0 THEN "throttle" ELSE "top"
    IN  /\ go[g][i].pc = "yield"
        /\ \/ ~yields /\ GoStep(g, i, throttle) /\ UNCHANGED dl
           \/ yields /\ active = None /\ Exit(g, i, FALSE)
        /\ UNCHANGED <<row, ino, data, active, ranges, rd, fg, ev>>

\* The read-ahead throttle of the sequential goroutine.
GoThrottle(g, i) ==
    LET ahead == ~dl[g].prefetch /\ go[g][i].pos > dl[g].last + ReadAhead
        over  == dl[g].done \/ dl[g].err
    IN  /\ go[g][i].pc = "throttle"
        /\ \/ ~ahead /\ ~over /\ GoStep(g, i, "top") /\ UNCHANGED dl
           \/ over /\ Exit(g, i, FALSE)
           \/ ahead /\ ~over /\ IdleTimeout /\ Exit(g, i, FALSE)
        /\ UNCHANGED <<row, ino, data, active, ranges, rd, fg, ev>>

-----------------------------------------------------------------------------
(* The background work of a Download.                                      *)

\* flushCheckpoints: CheckpointRanges touches the row only while it says
\* downloading, whichever Download made it say so.
Flush(g) ==
    /\ dl[g].ckpt # {}
    /\ row' = IF row.state = "downloading" THEN [row EXCEPT !.ranges = dl[g].ckpt] ELSE row
    /\ dl' = [dl EXCEPT ![g].ckpt = dl[g].pend, ![g].pend = {}]
    /\ UNCHANGED <<ino, data, active, ranges, go, rd, fg, ev>>

\* The end of Download.cancel: the row becomes evicted and keeps the copied
\* ranges; the cache file is closed.
CancelPut(g) ==
    /\ dl[g].cancel = "put"
    /\ row' = [state |-> "evicted", ranges |-> dl[g].snap]
    /\ dl' = [dl EXCEPT ![g].cancel = "none", ![g].snap = {}, ![g].closed = TRUE]
    /\ UNCHANGED <<ino, data, active, ranges, go, rd, fg, ev>>

\* finish: the row becomes clean, then the path is forgotten.
FinishPut(g) ==
    /\ dl[g].end = "finish"
    /\ row' = [state |-> "clean", ranges |-> ranges[g]]
    /\ dl' = [dl EXCEPT ![g].end = "delete", ![g].closed = TRUE]
    /\ UNCHANGED <<ino, data, active, ranges, go, rd, fg, ev>>

\* Mutant of FinishDelete: a finished download stays registered.
FinishKeep(g) ==
    /\ dl[g].end = "delete"
    /\ dl' = [dl EXCEPT ![g].end = "none"]
    /\ UNCHANGED <<row, ino, data, active, ranges, go, rd, fg, ev>>

FinishDelete(g) ==
    /\ dl[g].end = "delete"
    /\ active' = None
    /\ dl' = [dl EXCEPT ![g].end = "none"]
    /\ UNCHANGED <<row, ino, data, ranges, go, rd, fg, ev>>

\* The disposal of a failed download, started by its last goroutine: the path
\* is forgotten, whoever is registered by now, and cancel runs (again).
LateDelete(g) ==
    /\ dl[g].end = "late"
    /\ active' = None
    /\ dl' = [dl EXCEPT ![g].end = "put"]
    /\ UNCHANGED <<row, ino, data, ranges, go, rd, fg, ev>>

LatePut(g) ==
    /\ dl[g].end = "put"
    /\ row' = [state |-> "evicted", ranges |-> ranges[g]]
    /\ dl' = [dl EXCEPT ![g].end = "none", ![g].closed = TRUE]
    /\ UNCHANGED <<ino, data, active, ranges, go, rd, fg, ev>>

\* A Download that nothing refers to is garbage; closing its descriptor frees
\* the inode of a removed file.
Collect(g) ==
    /\ dl[g].used /\ active # g /\ Alive(g) = {}
    /\ dl[g].ckpt = {} /\ dl[g].cancel = "none" /\ dl[g].end = "none"
    /\ \A c \in Callers : rd[c].g # g
    /\ ev.g # g
    /\ dl' = [dl EXCEPT ![g] = NoDl]
    /\ ranges' = [ranges EXCEPT ![g] = {}]
    /\ data' = [i \in Inodes |-> IF i = dl[g].ino /\ i # ino THEN {} ELSE data[i]]
    /\ UNCHANGED <<row, ino, active, go, rd, fg, ev>>

-----------------------------------------------------------------------------
(* The rest of the mount.                                                  *)

\* watchOffline -> cancelAll -> Cancel.
OfflineCancel ==
    /\ MayCancel /\ active # None
    /\ CancelDl(active)
    /\ UNCHANGED <<row, ino, data, ranges, rd, fg, ev>>

\* Another file gains its first or loses its last foreground reader.
Foreground ==
    /\ Prefetchers # {}
    /\ fg' = ~fg
    /\ UNCHANGED <<row, ino, data, active, dl, ranges, go, rd, ev>>

\* HandleEvict (the unpin command) cancels the download first ...
EvictCommand ==
    /\ "command" \in Evictions /\ ev.pc = "idle"
    /\ IF active # None
       THEN CancelDl(active) /\ ev' = [pc |-> "wait", g |-> active]
       ELSE ev' = [ev EXCEPT !.pc = "remove"] /\ UNCHANGED <<active, dl, go>>
    /\ UNCHANGED <<row, ino, data, ranges, rd, fg>>

\* ... and waits for Download.cancel to return.
EvictCancelled ==
    /\ ev.pc = "wait" /\ dl[ev.g].cancel = "none"
    /\ ev' = [pc |-> "remove", g |-> None]
    /\ UNCHANGED <<row, ino, data, active, dl, ranges, go, rd, fg>>

\* The evictor takes any row with cached bytes: ListEvictable.
EvictLRU ==
    /\ "lru" \in Evictions /\ ev.pc = "idle"
    /\ row.ranges # {} \/ row.state \in {"downloading", "clean"}
    /\ ev' = [ev EXCEPT !.pc = "remove"]
    /\ UNCHANGED <<row, ino, data, active, dl, ranges, go, rd, fg>>

\* evictEntry: os.Remove, then MarkEvicted.
EvictRemove ==
    /\ ev.pc = "remove"
    /\ ino' = None
    /\ ev' = [ev EXCEPT !.pc = "mark"]
    /\ UNCHANGED <<row, data, active, dl, ranges, go, rd, fg>>

EvictMark ==
    /\ ev.pc = "mark"
    /\ row' = [state |-> "evicted", ranges |-> {}]
    /\ ev' = NoEvict
    /\ UNCHANGED <<ino, data, active, dl, ranges, go, rd, fg>>

\* The process dies and is started again; recoverDownloads resets a row left
\* downloading unless the adapter can resume it.
Crash ==
    /\ MayCrash
    /\ row' = IF row.state = "downloading" /\ ~SupportsRange
              THEN [state |-> "evicted", ranges |-> {}] ELSE row
    /\ active' = None
    /\ dl' = [g \in Gens |-> NoDl]
    /\ ranges' = [g \in Gens |-> {}]
    /\ go' = [g \in Gens |-> [i \in Slots |-> NoGo]]
    /\ rd' = [c \in Callers |-> NoRd]
    /\ fg' = FALSE
    /\ ev' = NoEvict
    /\ UNCHANGED <<ino, data>>

-----------------------------------------------------------------------------
Starting(c) == \/ StartStat(c) \/ StartCreate(c) \/ StartLoad(c) \/ StartRegister(c)
               \/ StartSetState(c) \/ StartSpawn(c) \/ StartOpen(c)
Waiting(c) == ReadWake(c) \/ ReadRespawn(c) \/ ReadServe(c) \/ ReleaseCancel(c)
Caller(c) == \/ StartLookup(c) \/ Starting(c) \/ Waiting(c) \/ Release(c)
             \/ \E at \in Chunks : ReadBegin(c, at)
Goroutine(g, i) == \/ GoTop(g, i) \/ GoWrite(g, i) \/ GoAdd(g, i)
                   \/ GoYield(g, i) \/ GoThrottle(g, i)
Background(g) == \/ Flush(g) \/ CancelPut(g) \/ FinishPut(g) \/ FinishDelete(g)
                 \/ LateDelete(g) \/ LatePut(g)
Eviction == EvictCancelled \/ EvictRemove \/ EvictMark
Environment == OfflineCancel \/ Foreground \/ EvictCommand \/ EvictLRU \/ Crash

Next == \/ \E c \in Callers : Caller(c)
        \/ \E g \in Gens, i \in Slots : Goroutine(g, i)
        \/ \E g \in Gens : Background(g) \/ Collect(g)
        \/ Eviction
        \/ Environment

\* Goroutines and callers that can run do run, and the remote answers or
\* fails. Nobody has to read, release, prefetch, evict or crash.
Fairness ==
    /\ \A c \in Callers : WF_vars(Starting(c)) /\ WF_vars(Waiting(c))
    /\ \A g \in Gens, i \in Slots : WF_vars(Goroutine(g, i))
    /\ \A g \in Gens : WF_vars(Background(g)) /\ WF_vars(Collect(g))
    /\ WF_vars(Eviction)

Spec == Init /\ [][Next]_vars /\ Fairness

-----------------------------------------------------------------------------
(* Safety.                                                                 *)

\* All bytes a range set or the persisted ranges claim are on disk, in the
\* file they claim them for: what a resume after a cancellation, a checkpoint
\* or a crash skips, and what a read is let through to, has been written
\* (manager.go: downloadLoop, cancel, finish, flushCheckpoints, Start).
RangesOnDisk ==
    /\ \A g \in Gens : dl[g].used => ranges[g] \subseteq data[dl[g].ino]
    /\ row.ranges # {} => ino # None /\ row.ranges \subseteq data[ino]

\* A row marked clean has a complete cache file: later opens read it without
\* any check (node.go: Open), whichever of several Downloads and their late
\* writes to the row came last.
CleanIsComplete == row.state = "clean" => ino # None /\ data[ino] = Chunks

\* No byte is served from a gap: when a read goes to the file, the handle's
\* own file holds the chunk (node.go: Read; manager.go: waitForRange).
ServedFromDisk == \A c \in Readers : rd[c].pc = "serve" => rd[c].at \in data[rd[c].ino]

-----------------------------------------------------------------------------
(* Liveness.                                                               *)

\* A blocked read is eventually let through or failed, also when goroutines
\* are redirected, throttled, timed out, cancelled or die (manager.go:
\* waitForRange, hasGoroutineNear).
ReadReturns == \A c \in Readers : rd[c].pc = "wait" ~> rd[c].pc # "wait"

\* A failed or finished download is forgotten: Manager.downloads does not
\* keep a Download that is done, so the next open starts a fresh one.
DoneIsForgotten == \A g \in Gens : (active = g /\ dl[g].done) ~> active # g
=============================================================================
