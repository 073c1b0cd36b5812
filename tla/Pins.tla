-------------------------------- MODULE Pins --------------------------------
(***************************************************************************)
(* Pinned files: the commands pin and unpin (internal/cli/pin.go), the     *)
(* requests they send to the mount (internal/ipc/server.go), the queue and *)
(* worker that fetch a pinned directory file by file                       *)
(* (internal/cli/mount.go), the evictor (internal/cache/eviction.go), the  *)
(* command cache clean (internal/cli/cache.go), and the shutdown of the    *)
(* mount while all of them are busy.                                       *)
(*                                                                         *)
(* A download is seen from outside: it runs, ends, or is cancelled (module *)
(* Download looks inside). The files are synced ones under one directory;  *)
(* files with local edits are the matter of module FileSync.               *)
(*                                                                         *)
(* Admits names races that nothing in the code rules out and that break    *)
(* the properties below:                                                   *)
(*   "midpass"  a pin of a file that an eviction pass has already listed   *)
(*   "repin"    a pin and an unpin of one file, at once, by two terminals  *)
(*   "busy"     a pass takes a file that is being downloaded or that       *)
(*              soon will be; a read begins while its file is evicted      *)
(*   "late"     an unpin between the worker's look at the row and Prefetch *)
(*   "leave"    the last reader cancels the path's download when a         *)
(*              prefetch has just joined or started it                     *)
(*   "cut"      the mount ends in the middle of an eviction                *)
(***************************************************************************)
EXTENDS Integers, Sequences, SequencesExt, FiniteSets

CONSTANTS
    Files,        \* the files of the pinned directory
    Terminals,    \* terminals that run pin and unpin
    Reads,        \* the files that programs read through the mount
    Capacity,     \* capacity of the prefetch queue (1024 in the code)
    Most,         \* bounds: commands, reads and passes; failed downloads and remounts
    Admits        \* circumstances let in

ASSUME PinsAssumption ==
    /\ Capacity \in Nat \ {0} /\ Reads \subseteq Files
    /\ Most \in [{"user", "trouble"} -> Nat]
    /\ Admits \subseteq {"midpass", "repin", "busy", "late", "leave", "cut"}
    /\ "none" \notin Files        \* it stands for no file

VARIABLES
    pinned,       \* the rows with pinned = 1
    row,          \* state and cached_ranges of each row
    file,         \* the cache file of each path: missing, partly or fully written
    dl,           \* the manager's download of each path
    reader,       \* a FUSE handle that reads the file through the manager
    prefetchQ,    \* the channel
    prefetchView, \* the copy of its contents that rvfs downloads shows
    worker,       \* the prefetch worker
    gaveUp,       \* the pinned files whose last request ended with an error
    cmd,          \* pin and unpin commands with their connection's handler
    pass,         \* a pass of the evictor or of the command cache clean
    mount,        \* the mount process
    spent         \* how much of the bounds is used up

queueVars == <<prefetchQ, prefetchView, worker>>
cacheVars == <<row, file, dl, reader>>
vars == <<pinned, cacheVars, queueVars, gaveUp, cmd, pass, mount, spent>>

NoDl   == [on |-> FALSE, linked |-> FALSE, prefetch |-> FALSE]
NoWork == [pc |-> "recv", f |-> "none"]
NoCmd  == [op |-> "none", pc |-> "idle", dir |-> FALSE, todo |-> {}, f |-> "none"]
NoPass == [by |-> "none", pc |-> "idle", todo |-> {}, f |-> "none", pins |-> FALSE]

TypeOK ==
    /\ pinned \subseteq Files
    /\ row \in [Files -> [state : {"evicted", "downloading", "clean"}, ranges : {"none", "part", "full"}]]
    /\ file \in [Files -> {"none", "part", "whole"}]
    /\ dl \in [Files -> [on : BOOLEAN, linked : BOOLEAN, prefetch : BOOLEAN]]
    /\ reader \in [Files -> {"none", "open", "leaving"}]
    /\ prefetchQ \in Seq(Files) /\ Len(prefetchQ) <= Capacity
    /\ prefetchView \in Seq(Files)
    /\ worker \in [pc : {"recv", "check", "start", "range", "wait", "done"}, f : Files \cup {"none"}]
    /\ gaveUp \subseteq Files
    /\ cmd \in [Terminals -> [op : {"none", "pin", "unpin"},
                              pc : {"idle", "dial", "next", "send", "cancel", "view", "remove", "mark"},
                              dir : BOOLEAN, todo : SUBSET Files, f : Files \cup {"none"}]]
    /\ pass \in [by : {"none", "lru", "clean"}, pc : {"idle", "next", "mark"}, todo : SUBSET Files,
                f : Files \cup {"none"}, pins : BOOLEAN]
    /\ mount \in {"run", "closed", "closing", "stopping", "exit"}
    /\ \A b \in DOMAIN Most : spent[b] \in 0..Most[b]

Init ==
    /\ pinned = {}
    /\ row = [f \in Files |-> [state |-> "evicted", ranges |-> "none"]]
    /\ file = [f \in Files |-> "none"]
    /\ dl = [f \in Files |-> NoDl] /\ reader = [f \in Files |-> "none"]
    /\ prefetchQ = <<>> /\ prefetchView = <<>> /\ worker = NoWork
    /\ gaveUp = {}
    /\ cmd = [t \in Terminals |-> NoCmd]
    /\ pass = NoPass
    /\ mount = "run"
    /\ spent = [b \in DOMAIN Most |-> 0]

\* The bound b allows one more.
Spend(b) == spent[b] < Most[b] /\ spent' = [spent EXCEPT ![b] = @ + 1]

DbOpen    == mount = "run"
Connected(t) == cmd[t].pc \in {"next", "send", "cancel", "view", "remove", "mark"}
\* A command under way has f before it or in hand: it will evict it, or request it.
Evicts(t, f)  == cmd[t].op = "unpin" /\ f \in cmd[t].todo \cup {cmd[t].f}
Fetches(t, f) == cmd[t].op = "pin" /\ f \in cmd[t].todo \cup {cmd[t].f}
\* A prefetch of f is on its way.
Wanted(f) == \/ worker.f = f \/ \E i \in DOMAIN prefetchQ : prefetchQ[i] = f
             \/ \E t \in Terminals : Fetches(t, f)
\* f is between the start of its eviction and the end of it.
InEviction(f) == \/ f \in pass.todo \cup {pass.f}
                 \/ \E t \in Terminals : Evicts(t, f)

-----------------------------------------------------------------------------
(* Downloads and readers.                                                  *)

\* Manager.Start: the cache file is opened or created, the row is marked.
\* Ranges that cover the file make the download complete at once.
Started(f, prefetch) ==
    /\ dl' = [dl EXCEPT ![f] = [on |-> TRUE, linked |-> TRUE, prefetch |-> prefetch]]
    /\ file' = [file EXCEPT ![f] = IF @ = "none" THEN "part" ELSE @]
    /\ row' = IF DbOpen THEN [row EXCEPT ![f].state = "downloading"] ELSE row

\* Prefetch joins a download that is under way and keeps it alive.
Join(f) == dl' = [dl EXCEPT ![f].prefetch = TRUE]

\* Manager.Prefetch.
Prefetch(f) ==
    /\ \/ dl[f].on /\ Join(f) /\ UNCHANGED <<row, file>>
       \/ ~dl[f].on /\ Started(f, TRUE)
    /\ UNCHANGED reader

\* The download of f is over; whoever waits for a range of it is woken.
Over(f) ==
    /\ dl' = [dl EXCEPT ![f] = NoDl]
    /\ worker' = IF worker.pc = "wait" /\ worker.f = f THEN NoWork ELSE worker

\* finish: what the ranges did not cover has been written to the download's
\* own file, which is the one at the path unless it was removed meanwhile.
Finish(f) ==
    /\ dl[f].on
    /\ file' = [file EXCEPT ![f] = IF dl[f].linked /\ row[f].ranges # "full" THEN "whole" ELSE @]
    /\ row' = IF DbOpen THEN [row EXCEPT ![f] = [state |-> "clean", ranges |-> "full"]] ELSE row
    /\ Over(f)
    /\ UNCHANGED <<pinned, reader, prefetchQ, prefetchView, gaveUp, cmd, pass, mount, spent>>

\* Manager.Cancel: the partial ranges are kept for a resume.
Cancelled(f) ==
    /\ Over(f)
    /\ row' = IF dl[f].on /\ DbOpen
              THEN [row EXCEPT ![f] = [state  |-> "evicted",
                                       ranges |-> IF @.ranges = "full" THEN "full" ELSE "part"]]
              ELSE row
    /\ UNCHANGED file

\* The remote fails for good or the monitor goes OFFLINE.
Fail(f) ==
    /\ dl[f].on
    /\ Cancelled(f)
    /\ gaveUp' = gaveUp \cup ({f} \cap pinned)
    /\ Spend("trouble")
    /\ UNCHANGED <<pinned, reader, prefetchQ, prefetchView, cmd, pass, mount>>

\* The first read of an evicted file starts its download.
ReadStarts(f) ==
    /\ "busy" \in Admits \/ ~InEviction(f)
    /\ f \in Reads /\ mount = "run" /\ reader[f] = "none" /\ row[f].state # "clean"
    /\ reader' = [reader EXCEPT ![f] = "open"]
    /\ IF dl[f].on THEN UNCHANGED <<row, file, dl>> ELSE Started(f, FALSE)
    /\ Spend("user")
    /\ UNCHANGED <<pinned, queueVars, gaveUp, cmd, pass, mount>>

\* ReleaseReader of the last reader looks whether a prefetch needs the download,
Release(f) ==
    /\ reader[f] = "open" /\ ("leave" \in Admits \/ ~Wanted(f))
    /\ reader' = [reader EXCEPT ![f] = IF dl[f].on /\ ~dl[f].prefetch THEN "leaving" ELSE "none"]
    /\ UNCHANGED <<pinned, row, file, dl, queueVars, gaveUp, cmd, pass, mount, spent>>

\* and cancels it otherwise.
ReleaseCancels(f) ==
    /\ reader[f] = "leaving"
    /\ reader' = [reader EXCEPT ![f] = "none"]
    /\ Cancelled(f)
    /\ UNCHANGED <<pinned, prefetchQ, prefetchView, gaveUp, cmd, pass, mount, spent>>

-----------------------------------------------------------------------------
(* pin and unpin.                                                          *)

Set(t, c) == cmd' = [cmd EXCEPT ![t] = c]

\* The command op for the files fs, which it has written to the database.
Begun(op, fs) == [op |-> op, pc |-> "dial", dir |-> (fs = Files), todo |-> fs, f |-> "none"]

\* SetPinnedMany pins the directory with its files, or one file alone.
Pin(t) ==
    /\ cmd[t].pc = "idle"
    /\ \E fs \in {Files} \cup {{f} : f \in Files} :
        /\ "midpass" \in Admits \/ fs \cap (pass.todo \cup {pass.f}) = {}
        /\ "leave" \in Admits \/ \A f \in fs : reader[f] # "leaving"
        /\ "repin" \in Admits \/ \A u \in Terminals, f \in fs : ~Evicts(u, f)
        /\ pinned' = pinned \cup fs
        /\ Set(t, Begun("pin", fs))
    /\ Spend("user")
    /\ UNCHANGED <<cacheVars, queueVars, gaveUp, pass, mount>>

Unpin(t) ==
    /\ cmd[t].pc = "idle"
    /\ \E fs \in {Files} \cup {{f} : f \in Files} :
        /\ "late" \in Admits \/ ~(worker.pc = "start" /\ worker.f \in fs)
        /\ "repin" \in Admits \/ \A u \in Terminals, f \in fs : ~Fetches(u, f)
        /\ pinned' = pinned \ fs /\ gaveUp' = gaveUp \ fs
        /\ Set(t, Begun("unpin", fs))
    /\ Spend("user")
    /\ UNCHANGED <<cacheVars, queueVars, pass, mount>>

\* Without a mount that listens only the rows are changed.
Dial(t) ==
    /\ cmd[t].pc = "dial"
    /\ Set(t, IF mount \in {"run", "closed"} THEN [cmd[t] EXCEPT !.pc = "next"] ELSE NoCmd)
    /\ UNCHANGED <<pinned, cacheVars, queueVars, gaveUp, pass, mount, spent>>

\* One request per file, each after the answer to the one before.
Ask(t, f, pc) == Set(t, [cmd[t] EXCEPT !.pc = pc, !.f = f, !.todo = @ \ {f}])
Answer(t) == Set(t, [cmd[t] EXCEPT !.pc = "next", !.f = "none"])

HangUp(t) ==
    /\ cmd[t].pc = "next" /\ cmd[t].todo = {}
    /\ Set(t, NoCmd)
    /\ UNCHANGED <<pinned, cacheVars, queueVars, gaveUp, pass, mount, spent>>

\* HandlePrefetch of a directory's file: the request shows in the view, then
\* it is sent. A lookup in a closed database fails.
PrefetchSequential(t) ==
    /\ cmd[t].op = "pin" /\ cmd[t].pc = "next" /\ cmd[t].dir
    /\ \E f \in cmd[t].todo :
        IF DbOpen THEN /\ prefetchView' = Append(prefetchView, f)
                       /\ gaveUp' = gaveUp \ {f}
                       /\ Ask(t, f, "send")
                  ELSE /\ gaveUp' = gaveUp \cup ({f} \cap pinned)
                       /\ Set(t, [cmd[t] EXCEPT !.todo = @ \ {f}])
                       /\ UNCHANGED prefetchView
    /\ UNCHANGED <<pinned, cacheVars, prefetchQ, worker, pass, mount, spent>>

\* The send waits while the channel is full.
Send(t) ==
    /\ cmd[t].pc = "send" /\ Len(prefetchQ) < Capacity
    /\ prefetchQ' = Append(prefetchQ, cmd[t].f)
    /\ Answer(t)
    /\ UNCHANGED <<pinned, cacheVars, prefetchView, worker, gaveUp, pass, mount, spent>>

\* HandlePrefetch of a single file starts the download itself.
PrefetchNow(t) ==
    /\ cmd[t].op = "pin" /\ cmd[t].pc = "next" /\ ~cmd[t].dir
    /\ \E f \in cmd[t].todo :
        /\ IF DbOpen THEN Prefetch(f) /\ gaveUp' = gaveUp \ {f}
                     ELSE UNCHANGED cacheVars /\ gaveUp' = gaveUp \cup ({f} \cap pinned)
        /\ Set(t, [cmd[t] EXCEPT !.todo = @ \ {f}])
    /\ UNCHANGED <<pinned, queueVars, pass, mount, spent>>

\* HandleEvict: Cancel,
Evict(t) ==
    /\ cmd[t].op = "unpin" /\ cmd[t].pc = "next"
    /\ \E f \in cmd[t].todo : Ask(t, f, "view") /\ Cancelled(f)
    /\ UNCHANGED <<pinned, reader, prefetchQ, prefetchView, gaveUp, pass, mount, spent>>

\* The loop of removePrefetchPath: what it has kept after n requests.
Without(view, f) ==
    LET kept[n \in 0..Len(view)] ==
            IF n = 0 THEN <<>>
            ELSE IF view[n] = f THEN kept[n - 1] ELSE Append(kept[n - 1], view[n])
    IN  kept[Len(view)]

\* removePrefetchPath, which leaves the channel alone,
RemovePrefetchPath(t) ==
    /\ cmd[t].pc = "view"
    /\ prefetchView' = Without(prefetchView, cmd[t].f)
    /\ Set(t, [cmd[t] EXCEPT !.pc = "remove"])
    /\ UNCHANGED <<pinned, cacheVars, prefetchQ, worker, gaveUp, pass, mount, spent>>

\* Removing a cache file leaves a download that writes to it without a name.
Removed(f) ==
    /\ file' = [file EXCEPT ![f] = "none"]
    /\ dl' = [dl EXCEPT ![f].linked = FALSE]

\* EvictPath: the lookup in a closed database fails; otherwise the file goes,
EvictPath(t) ==
    /\ cmd[t].pc = "remove"
    /\ IF DbOpen THEN Removed(cmd[t].f) /\ Set(t, [cmd[t] EXCEPT !.pc = "mark"])
                 ELSE UNCHANGED <<file, dl>> /\ Answer(t)
    /\ UNCHANGED <<pinned, row, reader, queueVars, gaveUp, pass, mount, spent>>

\* Mutant: only the state is reset.
MarkEvictedState(f) == row' = [row EXCEPT ![f].state = "evicted"]

\* then MarkEvicted resets the row and the ranges.
MarkEvicted(f) == row' = [row EXCEPT ![f] = [state |-> "evicted", ranges |-> "none"]]

EvictMark(t) ==
    /\ cmd[t].pc = "mark"
    /\ IF DbOpen THEN MarkEvicted(cmd[t].f) ELSE UNCHANGED row
    /\ Answer(t)
    /\ UNCHANGED <<pinned, file, dl, reader, queueVars, gaveUp, pass, mount, spent>>

-----------------------------------------------------------------------------
(* The prefetch worker.                                                    *)

\* Mutant: the request leaves the view only when its download starts.
DequeueNothing(view, f) == view

\* dequeuePrefetch removes the first equal request.
Dequeue(view, f) == RemoveFirst(view, f)

\* The worker takes a request from the channel and from the view.
Recv ==
    /\ worker.pc = "recv" /\ prefetchQ # <<>>
    /\ prefetchQ' = Tail(prefetchQ)
    /\ prefetchView' = Dequeue(prefetchView, Head(prefetchQ))
    /\ worker' = [pc |-> "check", f |-> Head(prefetchQ)]
    /\ UNCHANGED <<pinned, cacheVars, gaveUp, cmd, pass, mount, spent>>

\* Mutant: the worker returns when it cannot look the file up.
CheckReturns ==
    /\ worker.pc = "check"
    /\ worker' = IF ~DbOpen THEN [worker EXCEPT !.pc = "done"]
                 ELSE IF worker.f \in pinned THEN [worker EXCEPT !.pc = "start"] ELSE NoWork
    /\ UNCHANGED <<pinned, cacheVars, prefetchQ, prefetchView, gaveUp, cmd, pass, mount, spent>>

\* A request whose file is no longer pinned, or cannot be looked up, is dropped.
Check ==
    /\ worker.pc = "check"
    /\ worker' = IF DbOpen /\ worker.f \in pinned THEN [worker EXCEPT !.pc = "start"] ELSE NoWork
    /\ UNCHANGED <<pinned, cacheVars, prefetchQ, prefetchView, gaveUp, cmd, pass, mount, spent>>

\* Mutant: the worker forgets the request when the file is being read already.
StartIdle ==
    /\ worker.pc = "start"
    /\ IF dl[worker.f].on THEN UNCHANGED cacheVars /\ worker' = NoWork
                          ELSE Prefetch(worker.f) /\ worker' = [worker EXCEPT !.pc = "range"]
    /\ UNCHANGED <<pinned, prefetchQ, prefetchView, gaveUp, cmd, pass, mount, spent>>

Start ==
    /\ worker.pc = "start"
    /\ Prefetch(worker.f)
    /\ worker' = [worker EXCEPT !.pc = "range"]
    /\ UNCHANGED <<pinned, prefetchQ, prefetchView, gaveUp, cmd, pass, mount, spent>>

\* WaitForRange of the whole file looks the path up again: the download it finds
\* may be another one by now, and finding none counts as finished.
WaitForRange ==
    /\ worker.pc = "range"
    /\ worker' = IF dl[worker.f].on THEN [worker EXCEPT !.pc = "wait"] ELSE NoWork
    /\ UNCHANGED <<pinned, cacheVars, prefetchQ, prefetchView, gaveUp, cmd, pass, mount, spent>>

\* The closed channel is empty: the worker returns.
WorkerDone ==
    /\ worker.pc = "recv" /\ prefetchQ = <<>> /\ mount = "stopping"
    /\ worker' = [worker EXCEPT !.pc = "done"]
    /\ UNCHANGED <<pinned, cacheVars, prefetchQ, prefetchView, gaveUp, cmd, pass, mount, spent>>

-----------------------------------------------------------------------------
(* The evictor and cache clean.                                            *)

\* Mutant: the query lost its condition on pinned.
EvictableAll(withPinned) ==
    {f \in Files : row[f].ranges # "none" \/ row[f].state \in {"downloading", "clean"}}

\* ListEvictable and ListCleanupCandidates.
Evictable(withPinned) ==
    {f \in Files : /\ row[f].ranges # "none" \/ row[f].state \in {"downloading", "clean"}
                   /\ withPinned \/ f \notin pinned}

\* A pass lists its candidates once. cache clean runs in a process of its own
\* and takes pinned files too when told so.
PassBegin ==
    /\ pass.pc = "idle"
    /\ \E by \in {"clean"} \cup (IF mount = "run" THEN {"lru"} ELSE {}), pins \in BOOLEAN :
        LET todo == {f \in Evictable(pins) : "busy" \in Admits \/ ~(dl[f].on \/ Wanted(f))}
        IN  /\ todo # {} /\ (pins => by = "clean")
            /\ pass' = [by |-> by, pc |-> "next", todo |-> todo, f |-> "none", pins |-> pins]
    /\ Spend("user")
    /\ UNCHANGED <<pinned, cacheVars, queueVars, gaveUp, cmd, mount>>

\* evictEntry removes the file of the next entry,
PassRemove ==
    /\ pass.pc = "next"
    /\ \E f \in pass.todo :
        /\ Removed(f)
        /\ pass' = [pass EXCEPT !.pc = "mark", !.f = f, !.todo = @ \ {f}]
    /\ UNCHANGED <<pinned, row, reader, queueVars, gaveUp, cmd, mount, spent>>

\* and marks its row, which fails in a mount that has closed its database.
PassMark ==
    /\ pass.pc = "mark"
    /\ IF pass.by = "clean" \/ DbOpen THEN MarkEvicted(pass.f) ELSE UNCHANGED row
    /\ pass' = [pass EXCEPT !.pc = "next", !.f = "none"]
    /\ UNCHANGED <<pinned, file, dl, reader, queueVars, gaveUp, cmd, mount, spent>>

\* The pass ends: by age all of its list is gone, by size and by free space
\* enough of it.
PassEnd ==
    /\ pass.pc = "next" /\ (pass.by = "clean" => pass.todo = {})
    /\ pass' = NoPass
    /\ UNCHANGED <<pinned, cacheVars, queueVars, gaveUp, cmd, mount, spent>>

-----------------------------------------------------------------------------
(* Shutdown.                                                               *)

\* No eviction by this process is under way.
Quiet == "cut" \in Admits \/ (pass.by # "lru" /\ \A t \in Terminals : cmd[t].pc # "mark")

\* The mount is gone: Engine.Stop and CacheLayer.Close, which closes the database.
Unmount ==
    /\ mount = "run" /\ Quiet
    /\ mount' = "closed"
    /\ UNCHANGED <<pinned, cacheVars, queueVars, gaveUp, cmd, pass, spent>>

\* The deferred calls: Server.Close closes the listener and waits for the
\* handlers of all connections.
CloseServer ==
    /\ mount = "closed"
    /\ mount' = "closing"
    /\ UNCHANGED <<pinned, cacheVars, queueVars, gaveUp, cmd, pass, spent>>

\* Mutant: the worker is stopped before the handlers have ended.
StopWorkerFirst ==
    /\ mount = "closing"
    /\ mount' = "stopping"
    /\ UNCHANGED <<pinned, cacheVars, queueVars, gaveUp, cmd, pass, spent>>

\* stopPrefetchWorker closes the channel,
StopPrefetchWorker ==
    /\ mount = "closing" /\ \A t \in Terminals : ~Connected(t)
    /\ mount' = "stopping"
    /\ UNCHANGED <<pinned, cacheVars, queueVars, gaveUp, cmd, pass, spent>>

\* Everything in memory is gone with the process; connections are broken.
Ends ==
    /\ mount' = "exit"
    /\ dl' = [f \in Files |-> NoDl] /\ reader' = [f \in Files |-> "none"]
    /\ prefetchQ' = <<>> /\ prefetchView' = <<>> /\ worker' = NoWork
    /\ gaveUp' = {}
    /\ cmd' = [t \in Terminals |-> IF Connected(t) THEN NoCmd ELSE cmd[t]]
    /\ pass' = IF pass.by = "lru" THEN NoPass ELSE pass
    /\ UNCHANGED <<pinned, row, file, spent>>

\* and waits for the worker to return.
Exit ==
    /\ mount = "stopping" /\ worker.pc = "done"
    /\ Ends

Crash ==
    /\ mount # "exit" /\ Quiet
    /\ Ends

\* Rows left in state downloading are resumed by a later read or prefetch.
Remount ==
    /\ mount = "exit"
    /\ mount' = "run"
    /\ Spend("trouble")
    /\ UNCHANGED <<pinned, cacheVars, queueVars, gaveUp, cmd, pass>>

-----------------------------------------------------------------------------
Command(t) == \/ Dial(t) \/ HangUp(t) \/ PrefetchSequential(t) \/ Send(t) \/ PrefetchNow(t)
              \/ Evict(t) \/ RemovePrefetchPath(t) \/ EvictPath(t) \/ EvictMark(t)
Worker == Recv \/ Check \/ Start \/ WaitForRange \/ WorkerDone
PassGoesOn == PassRemove \/ PassMark \/ PassEnd
Shutdown == CloseServer \/ StopPrefetchWorker \/ Exit

Next == \/ \E t \in Terminals : Pin(t) \/ Unpin(t) \/ Command(t)
        \/ \E f \in Files : Finish(f) \/ Fail(f) \/ ReadStarts(f) \/ Release(f) \/ ReleaseCancels(f)
        \/ PassBegin \/ PassGoesOn \/ Worker \/ Shutdown \/ Unmount \/ Crash \/ Remount

\* Goroutines and commands run on; a download that nobody cancels ends; readers
\* that have begun to leave do. Nothing forces a read, a pin, a pass or an unmount.
Fairness ==
    /\ \A t \in Terminals : WF_vars(Command(t))
    /\ \A f \in Files : WF_vars(Finish(f)) /\ WF_vars(ReleaseCancels(f))
    /\ WF_vars(PassGoesOn) /\ WF_vars(Worker) /\ WF_vars(Shutdown)

Spec == Init /\ [][Next]_vars /\ Fairness

-----------------------------------------------------------------------------
(* Correctness.                                                            *)

\* Whatever is evicted, by a pass, by cache clean or by an unpin of other
\* files, the cached copy of a pinned file stays, unless cache clean was told
\* to take pinned files (pin.go: "never evicted from the cache").
PinnedStays ==
    [][\A f \in pinned : file[f] = "whole" /\ f \in pinned' =>
            file'[f] = "whole" \/ pass.pins]_vars

\* A clean row has its cache file: a FUSE open takes it from there without
\* looking further (node.go: Open; eviction.go; manager.go: finish).
CleanIsThere ==
    \A f \in Files :
        row[f].state = "clean" =>
            \/ file[f] = "whole"
            \/ pass.pc = "mark" /\ pass.f = f
            \/ \E t \in Terminals : cmd[t].pc = "mark" /\ cmd[t].f = f

Count(s, f) == Cardinality({i \in DOMAIN s : s[i] = f})

\* What rvfs downloads shows as queued is still on its way to the worker
\* (mount.go: prefetchView is kept apart from the channel).
ShownIsQueued ==
    \A f \in Files :
        Count(prefetchView, f) <= Count(prefetchQ, f)
                                  + Cardinality({t \in Terminals : cmd[t].pc = "send" /\ cmd[t].f = f})

\* Nobody sends to the prefetch channel once it is closed, which would panic
\* (mount.go: the order of the deferred calls).
NoSendOnClosed == mount = "stopping" => \A t \in Terminals : cmd[t].pc # "send"

\* A pinned file that was requested is fetched, unless it is unpinned, the
\* request fails, or the mount ends (mount.go: HandlePrefetch, the worker).
Requested(f) == \/ \E i \in DOMAIN prefetchQ : prefetchQ[i] = f
                \/ worker.f = f
                \/ dl[f].prefetch
PinnedIsFetched ==
    \A f \in Files :
        (mount = "run" /\ Requested(f) /\ f \in pinned)
            ~> (file[f] = "whole" \/ f \notin pinned \/ f \in gaveUp \/ mount # "run")

\* Unmounting ends although requests wait for room in the queue and the worker
\* waits for a download (mount.go: the deferred calls; server.go: Close).
ShutdownEnds == (mount = "closed") ~> (mount = "exit")
=============================================================================
