------------------------------ MODULE FileSync ------------------------------
(***************************************************************************)
(* The write-back cache: the FUSE operations on regular files              *)
(* (internal/cache/cache.go, internal/fuse/node.go), the sync engine that  *)
(* uploads, replays deletions and pulls (internal/sync/engine.go), the     *)
(* conflict resolver (internal/sync/conflict.go), `rvfs resolve`           *)
(* (internal/cli/conflicts.go), the evictor (internal/cache/eviction.go)   *)
(* and a crash of the mount. The database, the cache files and the remote  *)
(* survive a crash.                                                        *)
(*                                                                         *)
(* The content of a file is a version number. A step is one database       *)
(* statement, one file system call or one call of the remote adapter, with *)
(* the local computation around it. Timestamps are whole seconds.          *)
(***************************************************************************)
EXTENDS Integers, FiniteSets

CONSTANTS
    Paths,      \* regular files in the root directory
    Strategies, \* the conflict strategies a mount may be configured with
    Workers,    \* subset of {"loop", "drain", "sync"}: who runs engine passes
    UserOps,    \* the file operations and commands in use
    PeerOps,    \* subset of {"edit", "delete"}: what other clients do
    Admits,     \* the delicate circumstances that may arise, see below
    OpLimit,    \* pending operations fetched at a time
    MaxTime,    \* bound: seconds
    MaxVer,     \* bound: versions
    MaxFaults,  \* bound: failed remote calls
    MaxCrashes  \* bound: crashes

\* What Admits may hold. Each is something the program lets happen; a run says
\* which of them it lets happen.
Circumstances ==
    {"overlap",    \* file operations and passes run at the same time
     "recreate",   \* a path is written again while its deletion is pending
     "resume",     \* a download starts from ranges that are already recorded
     "dirtyevict", \* the evictor selects a file that is not synced
     "torn",       \* the crash comes in the middle of a file operation
     "tie",        \* another client writes twice in a second
     "outdated"}   \* a conflict is resolved that an upload settled before

ASSUME SetAssumption ==
    /\ Strategies \subseteq {"both", "local-wins", "remote-wins", "manual"}
    /\ Workers \subseteq {"loop", "drain", "sync"}
    /\ UserOps \subseteq {"create", "write", "chmod", "unlink", "resolve",
                          "download", "evict"}
    /\ PeerOps \subseteq {"edit", "delete"}
    /\ Admits \subseteq Circumstances

ASSUME BoundAssumption ==
    /\ {OpLimit, MaxTime, MaxVer, MaxFaults, MaxCrashes} \subseteq Nat
    /\ MaxTime > 0 /\ MaxVer > 0

ASSUME PathAssumption == -1 \notin Paths     \* None stands for no path

Times    == 0 .. MaxTime
None     == -1                    \* no file
Hole     == 0                     \* a file of zeros, or an empty one
Versions == 1 .. MaxVer
Content  == {None, Hole} \cup Versions

VARIABLES
    strategy, \* the conflict strategy of the mount
    files,    \* the files table
    disk,     \* the cache files
    side,     \* the ".conflict.<time>" files of each path, and their rows
    conf,     \* the conflicts table: remote mtime of the conflict, 0 if none
    ops,      \* pending_ops: the deletions (a queued put is not looked at)
    remote,   \* the remote's files; a deleted one keeps its mtime
    w,        \* the engine's workers
    user,     \* the file operation in progress
    ev,       \* the evictor
    now,      \* the clock, in seconds
    next,     \* versions handed out
    faults,   \* failed remote calls so far
    crashes,  \* crashes so far
    last      \* history: the last version of a path that the user saved

vars == <<strategy, files, disk, side, conf, ops, remote, w, user, ev, now, next,
          faults, crashes, last>>

NoRow  == [state |-> "none", rm |-> 0, lm |-> 0, ranges |-> FALSE]
NoFile == [ver |-> None, mtime |-> 0]
NoList == [p \in Paths |-> NoFile]
Idle   == [pc |-> "idle", todo |-> {}, ents |-> [p \in Paths |-> NoRow], list |-> NoList,
           q |-> {}, p |-> None, e |-> NoRow, st |-> 0, fd |-> None, cut |-> FALSE,
           back |-> "idle"]
NoUser == [pc |-> "idle", p |-> None, row |-> NoRow, ver |-> None]
NoEv   == [pc |-> "idle", p |-> None]

States == {"none", "clean", "dirty", "syncing", "conflict", "evicted"}
Rows   == [state : States, rm : Times, lm : Times, ranges : BOOLEAN]

TypeOK ==
    /\ strategy \in Strategies
    /\ files \in [Paths -> Rows]
    /\ disk \in [Paths -> Content]
    /\ side \in [Paths -> SUBSET Content]
    /\ conf \in [Paths -> Times]
    /\ ops \in SUBSET ((1..MaxVer) \X Paths)
    /\ remote \in [Paths -> [ver : Content, mtime : Times]]
    /\ \A x \in Workers :
          /\ w[x].pc \in {"idle", "upload", "mark", "open", "put", "saved", "failed",
                          "ops", "complete", "list", "pull", "insert", "evict", "remove",
                          "resolve", "fetch", "settle", "gone", "unlink"}
          /\ w[x].e \in Rows
          /\ w[x].p \in Paths \cup {None}
    /\ user.pc \in {"idle", "commit", "unlink", "keepfetch", "keepput"}
    /\ ev.pc \in {"idle", "remove", "mark"}
    /\ now \in Times /\ next \in 0..MaxVer
    /\ faults \in 0..MaxFaults /\ crashes \in 0..MaxCrashes
    /\ last \in [Paths -> Content]

\* A file that another client put on the remote, and nothing here yet.
Init ==
    /\ strategy \in Strategies
    /\ files = [p \in Paths |-> NoRow]
    /\ disk = [p \in Paths |-> None]
    /\ side = [p \in Paths |-> {}]
    /\ conf = [p \in Paths |-> 0]
    /\ ops = {}
    /\ remote \in [Paths -> {NoFile, [ver |-> 1, mtime |-> 1]}]
    /\ w = [x \in Workers |-> Idle]
    /\ user = NoUser
    /\ ev = NoEv
    /\ now = 1
    /\ next = 1
    /\ faults = 0
    /\ crashes = 0
    /\ last = [p \in Paths |-> None]

-----------------------------------------------------------------------------
(* Who may start something.                                                *)

Resting(X) == \A x \in X : w[x].pc = "idle"
UserMayStart   == user.pc = "idle" /\ ("overlap" \in Admits \/ (Resting(Workers) /\ ev.pc = "idle"))
WorkerMayStart == "overlap" \in Admits \/ (user.pc = "idle" /\ Resting(Workers))
EvictMayStart  == "overlap" \in Admits \/ user.pc = "idle"

Present(p) == remote[p].ver # None
DeletePending(p) == \E o \in ops : o[2] = p
Writable(p) == "recreate" \in Admits \/ ~DeletePending(p)
Fail == faults < MaxFaults /\ faults' = faults + 1
Lowest(S) == CHOOSE x \in S : \A y \in S : x[1] <= y[1]

-----------------------------------------------------------------------------
(* File operations. Each changes the cache file first and commits the row   *)
(* and the pending operation in one transaction afterwards.                *)

Saved(p, row, ver) == user' = [pc |-> "commit", p |-> p, row |-> row, ver |-> ver]

\* Create: a new file and what is written to it.
UserCreate(p) ==
    /\ "create" \in UserOps /\ UserMayStart /\ Writable(p)
    /\ files[p].state = "none" /\ next < MaxVer
    /\ next' = next + 1
    /\ disk' = [disk EXCEPT ![p] = next + 1]
    /\ last' = [last EXCEPT ![p] = None]
    /\ Saved(p, [NoRow EXCEPT !.state = "dirty", !.lm = now], next + 1)
    /\ UNCHANGED <<strategy, files, side, conf, ops, remote, w, ev, now, faults, crashes>>

\* Write and Truncate on an open file: the row is read after the write.
UserWrite(p) ==
    /\ "write" \in UserOps /\ UserMayStart /\ Writable(p)
    /\ files[p].state \notin {"none", "evicted"} /\ disk[p] # None /\ next < MaxVer
    /\ next' = next + 1
    /\ disk' = [disk EXCEPT ![p] = next + 1]
    /\ last' = [last EXCEPT ![p] = None]
    /\ Saved(p, [files[p] EXCEPT !.state = "dirty", !.lm = now], next + 1)
    /\ UNCHANGED <<strategy, files, side, conf, ops, remote, w, ev, now, faults, crashes>>

\* Chmod reads the row and writes it back with the new mode.
UserChmod(p) ==
    /\ "chmod" \in UserOps /\ UserMayStart
    /\ files[p].state # "none" /\ disk[p] # None
    /\ Saved(p, files[p], None)
    /\ UNCHANGED <<strategy, files, disk, side, conf, ops, remote, w, ev, now, next,
                   faults, crashes, last>>

UserCommit ==
    /\ user.pc = "commit"
    /\ files' = [files EXCEPT ![user.p] = user.row]
    /\ last' = IF user.ver = None THEN last ELSE [last EXCEPT ![user.p] = user.ver]
    /\ user' = NoUser
    /\ UNCHANGED <<strategy, disk, side, conf, ops, remote, w, ev, now, next, faults, crashes>>

\* Unlink aborts a running upload of the path and removes the cache file ...
UserUnlink(p) ==
    /\ "unlink" \in UserOps /\ UserMayStart
    /\ files[p].state # "none" /\ next < MaxVer
    /\ w' = [x \in Workers |-> IF w[x].pc = "put" /\ w[x].p = p
                               THEN [w[x] EXCEPT !.cut = TRUE] ELSE w[x]]
    /\ disk' = [disk EXCEPT ![p] = None]
    /\ last' = [last EXCEPT ![p] = None]
    /\ next' = next + 1
    /\ user' = [pc |-> "unlink", p |-> p, row |-> NoRow, ver |-> next + 1]
    /\ UNCHANGED <<strategy, files, side, conf, ops, remote, ev, now, faults, crashes>>

\* ... then the row, and queues the deletion, numbered like a version.
UserUnlinkCommit ==
    /\ user.pc = "unlink"
    /\ files' = [files EXCEPT ![user.p] = NoRow]
    /\ ops' = ops \cup {<<user.ver, user.p>>}
    /\ user' = NoUser
    /\ UNCHANGED <<strategy, disk, side, conf, remote, w, ev, now, next, faults, crashes, last>>

\* A read of an evicted file, seen from here: the download of module Download
\* from its start to finish(). Recorded ranges are not downloaded again.
UserDownload(p) ==
    /\ "download" \in UserOps /\ UserMayStart
    /\ files[p].state = "evicted" /\ Present(p)
    /\ files[p].ranges => "resume" \in Admits
    /\ disk' = [disk EXCEPT ![p] = IF ~files[p].ranges THEN remote[p].ver
                                   ELSE IF @ = None THEN Hole ELSE @]
    /\ files' = [files EXCEPT ![p].state = "clean", ![p].ranges = TRUE]
    /\ UNCHANGED <<strategy, side, conf, ops, remote, w, user, ev, now, next, faults,
                   crashes, last>>

-----------------------------------------------------------------------------
(* rvfs resolve: applyResolution, for a recorded conflict.                 *)

\* The record outlives the conflict when the user writes the file again.
Resolvable(p) ==
    /\ conf[p] > 0 /\ files[p].state # "none"
    /\ files[p].state = "conflict" \/ "outdated" \in Admits

\* --keep local: SetState, which needs a row, and RemoveConflict.
KeepLocal(p) ==
    /\ "resolve" \in UserOps /\ UserMayStart
    /\ Resolvable(p)
    /\ files' = [files EXCEPT ![p].state = "dirty"]
    /\ conf' = [conf EXCEPT ![p] = 0]
    /\ UNCHANGED <<strategy, disk, side, ops, remote, w, user, ev, now, next, faults,
                   crashes, last>>

\* --keep remote: the cache file is truncated for the download.
KeepRemote(p) ==
    /\ "resolve" \in UserOps /\ UserMayStart
    /\ Resolvable(p)
    /\ disk' = [disk EXCEPT ![p] = Hole]
    /\ last' = [last EXCEPT ![p] = None]
    /\ user' = [pc |-> "keepfetch", p |-> p, row |-> files[p], ver |-> None]
    /\ UNCHANGED <<strategy, files, side, conf, ops, remote, w, ev, now, next, faults, crashes>>

KeepRemoteFetch ==
    LET p == user.p
    IN  /\ user.pc = "keepfetch"
        /\ \/ /\ Present(p)
              /\ disk' = [disk EXCEPT ![p] = remote[p].ver]
              /\ user' = [user EXCEPT !.pc = "keepput"]
              /\ UNCHANGED faults
           \/ /\ Fail \/ (~Present(p) /\ UNCHANGED faults)
              /\ disk' = [disk EXCEPT ![p] = None]
              /\ user' = NoUser
        /\ UNCHANGED <<strategy, files, side, conf, ops, remote, w, ev, now, next, crashes, last>>

KeepRemotePut ==
    LET p == user.p
    IN  /\ user.pc = "keepput"
        /\ files' = [files EXCEPT ![p] = [user.row EXCEPT !.state = "clean", !.rm = conf[p],
                                                          !.lm = conf[p]]]
        /\ conf' = [conf EXCEPT ![p] = 0]
        /\ user' = NoUser
        /\ UNCHANGED <<strategy, disk, side, ops, remote, w, ev, now, next, faults, crashes, last>>

\* --keep both: a missing sidecar is fetched, then the local file is queued.
KeepBoth(p) ==
    /\ "resolve" \in UserOps /\ UserMayStart
    /\ Resolvable(p)
    /\ side[p] # {} \/ Present(p)
    /\ side' = [side EXCEPT ![p] = IF @ = {} THEN {remote[p].ver} ELSE @]
    /\ files' = [files EXCEPT ![p].state = "dirty"]
    /\ conf' = [conf EXCEPT ![p] = 0]
    /\ UNCHANGED <<strategy, disk, ops, remote, w, user, ev, now, next, faults, crashes, last>>

-----------------------------------------------------------------------------
(* The evictor: ListEvictable, then for each entry os.Remove, MarkEvicted. *)

Evictable(p) == files[p].ranges \/ files[p].state = "clean"

EvictBegin(p) ==
    /\ "evict" \in UserOps /\ ev.pc = "idle" /\ EvictMayStart
    /\ Evictable(p)
    /\ files[p].state \in {"clean", "evicted"} \/ "dirtyevict" \in Admits
    /\ ev' = [pc |-> "remove", p |-> p]
    /\ UNCHANGED <<strategy, files, disk, side, conf, ops, remote, w, user, now, next,
                   faults, crashes, last>>

EvictRemove ==
    /\ ev.pc = "remove"
    /\ disk' = [disk EXCEPT ![ev.p] = None]
    /\ ev' = [ev EXCEPT !.pc = "mark"]
    /\ UNCHANGED <<strategy, files, side, conf, ops, remote, w, user, now, next, faults,
                   crashes, last>>

EvictMark ==
    /\ ev.pc = "mark"
    /\ files' = IF files[ev.p].state = "none" THEN files
                ELSE [files EXCEPT ![ev.p].state = "evicted", ![ev.p].ranges = FALSE]
    /\ ev' = NoEv
    /\ UNCHANGED <<strategy, disk, side, conf, ops, remote, w, user, now, next, faults,
                   crashes, last>>

-----------------------------------------------------------------------------
(* The sync engine. "loop" is a tick of loop(), "drain" what watchConn does *)
(* when the remote is back, "sync" the PullOnce of `rvfs sync`.             *)

Become(x, k) == w' = [w EXCEPT ![x] = k]
Go(x, pc) == Become(x, [w[x] EXCEPT !.pc = pc])

\* The worker is through with its current path.
Onward(x, pc) == Become(x, [w[x] EXCEPT !.pc = pc, !.p = None, !.e = NoRow, !.st = 0,
                                        !.fd = None, !.cut = FALSE, !.back = "idle"])

\* uploadDirty lists the dirty rows.
PassBegin(x) ==
    /\ w[x].pc = "idle" /\ WorkerMayStart
    /\ IF x = "sync" THEN Go(x, "list")
       ELSE LET dirty == {p \in Paths : files[p].state = "dirty"}
            IN  Become(x, [w[x] EXCEPT !.pc = "upload", !.todo = dirty,
                       !.ents = [p \in Paths |-> IF p \in dirty THEN files[p] ELSE NoRow]])
    /\ UNCHANGED <<strategy, files, disk, side, conf, ops, remote, user, ev, now, next,
                   faults, crashes, last>>

\* uploadFile: a file that was synced before is compared with the remote; a
\* failed Stat does not keep it from being uploaded.
UploadNext(x) ==
    \E p \in w[x].todo :
        LET e     == w[x].ents[p]
            newer == e.rm > 0 /\ Present(p) /\ remote[p].mtime > e.rm
            take(pc, st) == Become(x, [w[x] EXCEPT !.pc = pc, !.p = p, !.e = e, !.st = st,
                                           !.todo = w[x].todo \ {p}, !.ents[p] = NoRow,
                                           !.back = "upload"])
        IN  /\ w[x].pc = "upload"
            /\ \/ newer /\ take("resolve", remote[p].mtime) /\ UNCHANGED faults
               \/ newer /\ Fail /\ take("mark", 0)
               \/ ~newer /\ take("mark", 0) /\ UNCHANGED faults
            /\ UNCHANGED <<strategy, files, disk, side, conf, ops, remote, user, ev, now, next,
                           crashes, last>>

\* SetState(syncing), which fails if the row is gone.
UploadMark(x) ==
    LET p == w[x].p
    IN  /\ w[x].pc = "mark"
        /\ \/ files[p].state = "none" /\ Onward(x, "upload") /\ UNCHANGED files
           \/ /\ files[p].state # "none" /\ Go(x, "open")
              /\ files' = [files EXCEPT ![p].state = "syncing"]
        /\ UNCHANGED <<strategy, disk, side, conf, ops, remote, user, ev, now, next, faults,
                       crashes, last>>

UploadOpen(x) ==
    LET p == w[x].p
    IN  /\ w[x].pc = "open"
        /\ \/ /\ disk[p] = None /\ Onward(x, "upload")
              /\ files' = IF files[p].state = "none" THEN files
                          ELSE [files EXCEPT ![p].state = "dirty"]
           \/ /\ disk[p] # None /\ UNCHANGED files
              /\ Become(x, [w[x] EXCEPT !.pc = "put", !.fd = disk[p]])
        /\ UNCHANGED <<strategy, disk, side, conf, ops, remote, user, ev, now, next, faults,
                       crashes, last>>

\* Put uploads the bytes it finds in the open file and stamps them with the
\* entry's mtime. A failed or aborted Put may have reached the remote.
UploadPut(x) ==
    LET p    == w[x].p
        sent == {w[x].fd} \cup ({disk[p]} \ {None})
        store == \E v \in sent : remote' = [remote EXCEPT ![p] = [ver |-> v, mtime |-> w[x].e.lm]]
    IN  /\ w[x].pc = "put"
        /\ \/ store /\ Go(x, "saved") /\ UNCHANGED faults
           \/ /\ Fail \/ (w[x].cut /\ UNCHANGED faults)
              /\ store \/ UNCHANGED remote
              /\ Go(x, "failed")
        /\ UNCHANGED <<strategy, files, disk, side, conf, ops, user, ev, now, next, crashes, last>>

\* Mutant of UploadSaved: the sync point is the time the upload ended.
UploadSavedNow(x) ==
    /\ w[x].pc = "saved"
    /\ files' = [files EXCEPT ![w[x].p] = [w[x].e EXCEPT !.state = "clean", !.rm = now]]
    /\ Onward(x, "upload")
    /\ UNCHANGED <<strategy, disk, side, conf, ops, remote, user, ev, now, next, faults,
                   crashes, last>>

\* Success: the entry read when the pass began is written back as clean.
UploadSaved(x) ==
    LET e == w[x].e
    IN  /\ w[x].pc = "saved"
        /\ files' = [files EXCEPT ![w[x].p] = [e EXCEPT !.state = "clean", !.rm = e.lm]]
        /\ Onward(x, "upload")
        /\ UNCHANGED <<strategy, disk, side, conf, ops, remote, user, ev, now, next, faults,
                       crashes, last>>

\* Mutant of UploadFailed: the row is not set back to dirty.
UploadFailedStays(x) ==
    /\ w[x].pc = "failed"
    /\ Onward(x, "upload")
    /\ UNCHANGED <<strategy, files, disk, side, conf, ops, remote, user, ev, now, next,
                   faults, crashes, last>>

\* Failure: the entry read when the pass began is written back as dirty.
UploadFailed(x) ==
    /\ w[x].pc = "failed"
    /\ files' = [files EXCEPT ![w[x].p] = [w[x].e EXCEPT !.state = "dirty"]]
    /\ Onward(x, "upload")
    /\ UNCHANGED <<strategy, disk, side, conf, ops, remote, user, ev, now, next, faults,
                   crashes, last>>

\* processPendingOps fetches the oldest operations.
OpsList(x) ==
    /\ w[x].pc = "upload" /\ w[x].todo = {}
    /\ Become(x, [w[x] EXCEPT !.pc = "ops",
                     !.q = {o \in ops : Cardinality({b \in ops : b[1] < o[1]}) < OpLimit}])
    /\ UNCHANGED <<strategy, files, disk, side, conf, ops, remote, user, ev, now, next,
                   faults, crashes, last>>

\* Delete on the remote fails for a path it does not have.
OpsNext(x) ==
    LET o == Lowest(w[x].q)
        p == o[2]
    IN  /\ w[x].pc = "ops" /\ w[x].q # {}
        /\ \/ /\ Present(p) /\ remote' = [remote EXCEPT ![p].ver = None]
              /\ Go(x, "complete") /\ UNCHANGED faults
           \/ /\ Fail \/ (~Present(p) /\ UNCHANGED faults)
              /\ UNCHANGED remote \/ remote' = [remote EXCEPT ![p].ver = None]
              /\ Become(x, [w[x] EXCEPT !.q = @ \ {o}])
        /\ UNCHANGED <<strategy, files, disk, side, conf, ops, user, ev, now, next, crashes, last>>

OpsComplete(x) ==
    LET o == Lowest(w[x].q)
    IN  /\ w[x].pc = "complete"
        /\ ops' = ops \ {o}
        /\ Become(x, [w[x] EXCEPT !.pc = "ops", !.q = @ \ {o}])
        /\ UNCHANGED <<strategy, files, disk, side, conf, remote, user, ev, now, next, faults,
                       crashes, last>>

\* Only the loop goes on to pull.
OpsEnd(x) ==
    /\ w[x].pc = "ops" /\ w[x].q = {}
    /\ Go(x, IF x = "loop" THEN "list" ELSE "idle")
    /\ UNCHANGED <<strategy, files, disk, side, conf, ops, remote, user, ev, now, next,
                   faults, crashes, last>>

-----------------------------------------------------------------------------
(* pullDir.                                                                *)

PullList(x) ==
    /\ w[x].pc = "list"
    /\ \/ /\ UNCHANGED faults
          /\ Become(x, [w[x] EXCEPT !.pc = "pull", !.list = remote,
                                     !.todo = {p \in Paths : Present(p)}])
       \/ Fail /\ Go(x, "idle")
    /\ UNCHANGED <<strategy, files, disk, side, conf, ops, remote, user, ev, now, next,
                   crashes, last>>

\* Mutant of PullNext: a newer remote version replaces whatever is here.
PullNextForce(x) ==
    \E p \in w[x].todo :
        LET mtime == w[x].list[p].mtime
            pc == IF files[p].state = "none" THEN "insert"
                  ELSE IF mtime > files[p].rm THEN "evict" ELSE "pull"
        IN  /\ w[x].pc = "pull"
            /\ Become(x, [w[x] EXCEPT !.todo = w[x].todo \ {p}, !.pc = pc, !.p = p,
                        !.e = [files[p] EXCEPT !.rm = mtime], !.st = mtime, !.back = "pull"])
            /\ UNCHANGED <<strategy, files, disk, side, conf, ops, remote, user, ev, now, next,
                           faults, crashes, last>>

\* GetFile, and what to do about a listed file.
PullNext(x) ==
    \E p \in w[x].todo :
        LET mtime == w[x].list[p].mtime
            newer == mtime > files[p].rm
            pc == IF files[p].state = "none" THEN "insert"
                  ELSE IF newer /\ files[p].state \in {"clean", "evicted"} THEN "evict"
                  ELSE IF newer /\ files[p].state \in {"dirty", "syncing"} THEN "resolve"
                  ELSE "pull"
        IN  /\ w[x].pc = "pull"
            /\ IF pc = "pull" THEN Become(x, [w[x] EXCEPT !.todo = w[x].todo \ {p}])
               ELSE Become(x, [w[x] EXCEPT !.todo = w[x].todo \ {p}, !.pc = pc, !.p = p,
                        !.e = [files[p] EXCEPT !.rm = mtime], !.st = mtime, !.back = "pull"])
            /\ UNCHANGED <<strategy, files, disk, side, conf, ops, remote, user, ev, now, next,
                           faults, crashes, last>>

\* An unknown file enters the database without content.
PullInsert(x) ==
    /\ w[x].pc = "insert"
    /\ files' = [files EXCEPT ![w[x].p] = [state |-> "evicted", rm |-> w[x].st, lm |-> w[x].st,
                                           ranges |-> FALSE]]
    /\ Onward(x, "pull")
    /\ UNCHANGED <<strategy, disk, side, conf, ops, remote, user, ev, now, next, faults,
                   crashes, last>>

\* A synced file that changed on the remote is evicted, row first.
PullEvict(x) ==
    /\ w[x].pc = "evict"
    /\ files' = [files EXCEPT ![w[x].p] = [w[x].e EXCEPT !.state = "evicted"]]
    /\ Go(x, "remove")
    /\ UNCHANGED <<strategy, disk, side, conf, ops, remote, user, ev, now, next, faults,
                   crashes, last>>

PullRemove(x) ==
    /\ w[x].pc = "remove"
    /\ disk' = [disk EXCEPT ![w[x].p] = None]
    /\ Onward(x, "pull")
    /\ UNCHANGED <<strategy, files, side, conf, ops, remote, user, ev, now, next, faults,
                   crashes, last>>

\* ListDir, for the files that are no longer listed. A sidecar is a clean row
\* the remote does not know; nobody else touches it, so it goes at once.
PullLocal(x) ==
    /\ w[x].pc = "pull" /\ w[x].todo = {}
    /\ Become(x, [Idle EXCEPT !.pc = "gone",
                     !.todo = {p \in Paths : /\ w[x].list[p].ver = None
                                             /\ files[p].state \in {"clean", "evicted"}}])
    /\ side' = [p \in Paths |-> {}]
    /\ UNCHANGED <<strategy, files, disk, conf, ops, remote, user, ev, now, next, faults,
                   crashes, last>>

\* DeleteFile, then os.Remove.
PullGone(x) ==
    /\ w[x].pc = "gone"
    /\ \E p \in w[x].todo :
          /\ files' = [files EXCEPT ![p] = NoRow]
          /\ Become(x, [w[x] EXCEPT !.pc = "unlink", !.p = p, !.todo = @ \ {p}])
    /\ UNCHANGED <<strategy, disk, side, conf, ops, remote, user, ev, now, next, faults,
                   crashes, last>>

PullUnlink(x) ==
    /\ w[x].pc = "unlink"
    /\ disk' = [disk EXCEPT ![w[x].p] = None]
    /\ Onward(x, "gone")
    /\ UNCHANGED <<strategy, files, side, conf, ops, remote, user, ev, now, next, faults,
                   crashes, last>>

PullEnd(x) ==
    /\ w[x].pc = "gone" /\ w[x].todo = {}
    /\ Become(x, Idle)
    /\ UNCHANGED <<strategy, files, disk, side, conf, ops, remote, user, ev, now, next,
                   faults, crashes, last>>

-----------------------------------------------------------------------------
(* Resolver.Resolve for the worker's entry.                                *)

\* applyLocalWins: back to dirty, with the remote mtime the caller knows.
ResolveLocalWins(x) ==
    /\ w[x].pc = "resolve" /\ strategy = "local-wins"
    /\ files' = [files EXCEPT ![w[x].p] = [w[x].e EXCEPT !.state = "dirty"]]
    /\ Onward(x, w[x].back)
    /\ UNCHANGED <<strategy, disk, side, conf, ops, remote, user, ev, now, next, faults,
                   crashes, last>>

\* applyRemoteWins gives the local change up and truncates the cache file.
ResolveRemoteWins(x) ==
    /\ w[x].pc = "resolve" /\ strategy = "remote-wins"
    /\ disk' = [disk EXCEPT ![w[x].p] = Hole]
    /\ last' = [last EXCEPT ![w[x].p] = None]
    /\ Go(x, "fetch")
    /\ UNCHANGED <<strategy, files, side, conf, ops, remote, user, ev, now, next, faults, crashes>>

\* applyBoth and applyManual record the conflict.
ResolveConflict(x) ==
    /\ w[x].pc = "resolve" /\ strategy \in {"both", "manual"}
    /\ conf' = [conf EXCEPT ![w[x].p] = w[x].st]
    /\ Go(x, IF strategy = "both" THEN "fetch" ELSE "settle")
    /\ UNCHANGED <<strategy, files, disk, side, ops, remote, user, ev, now, next, faults,
                   crashes, last>>

\* Get: into the cache file for remote-wins, whose failure removes the file;
\* into the sidecar for both, whose failure is tolerated.
ResolveFetch(x) ==
    LET p   == w[x].p
        got == Present(p) /\ UNCHANGED faults
        failed == Fail \/ (~Present(p) /\ UNCHANGED faults)
    IN  /\ w[x].pc = "fetch"
        /\ \/ /\ strategy = "both" /\ UNCHANGED disk /\ Go(x, "settle")
              /\ \/ got /\ side' = [side EXCEPT ![p] = @ \cup {remote[p].ver}]
                 \/ failed /\ UNCHANGED side
           \/ /\ strategy = "remote-wins" /\ UNCHANGED side
              /\ \/ got /\ disk' = [disk EXCEPT ![p] = remote[p].ver] /\ Go(x, "settle")
                 \/ failed /\ disk' = [disk EXCEPT ![p] = None] /\ Onward(x, w[x].back)
        /\ UNCHANGED <<strategy, files, conf, ops, remote, user, ev, now, next, crashes, last>>

\* The row after the resolution.
ResolveSettle(x) ==
    LET st == w[x].st
    IN  /\ w[x].pc = "settle"
        /\ files' = [files EXCEPT ![w[x].p] =
              IF strategy = "remote-wins"
              THEN [w[x].e EXCEPT !.state = "clean", !.rm = st, !.lm = st]
              ELSE [w[x].e EXCEPT !.state = "conflict", !.rm = st]]
        /\ Onward(x, w[x].back)
        /\ UNCHANGED <<strategy, disk, side, conf, ops, remote, user, ev, now, next, faults,
                       crashes, last>>

-----------------------------------------------------------------------------
(* The rest of the world.                                                  *)

\* Another client writes a file. What it overwrites is its own affair.
PeerEdit(p) ==
    /\ "edit" \in PeerOps /\ next < MaxVer
    /\ now > remote[p].mtime \/ "tie" \in Admits
    /\ remote' = [remote EXCEPT ![p] = [ver |-> next + 1, mtime |-> now]]
    /\ next' = next + 1
    /\ last' = IF last[p] = remote[p].ver THEN [last EXCEPT ![p] = None] ELSE last
    /\ UNCHANGED <<strategy, files, disk, side, conf, ops, w, user, ev, now, faults, crashes>>

PeerDelete(p) ==
    /\ "delete" \in PeerOps /\ Present(p)
    /\ remote' = [remote EXCEPT ![p].ver = None]
    /\ last' = IF last[p] = remote[p].ver THEN [last EXCEPT ![p] = None] ELSE last
    /\ UNCHANGED <<strategy, files, disk, side, conf, ops, w, user, ev, now, next, faults,
                   crashes>>

Tick ==
    /\ now < MaxTime
    /\ now' = now + 1
    /\ UNCHANGED <<strategy, files, disk, side, conf, ops, remote, w, user, ev, next, faults,
                   crashes, last>>

\* The mount process dies and is started again.
Crash ==
    /\ crashes < MaxCrashes
    /\ "torn" \in Admits \/ (user.pc = "idle" /\ ev.pc = "idle")
    /\ crashes' = crashes + 1
    /\ w' = [x \in Workers |-> Idle]
    /\ user' = NoUser
    /\ ev' = NoEv
    /\ UNCHANGED <<strategy, files, disk, side, conf, ops, remote, now, next, faults, last>>

-----------------------------------------------------------------------------
UserStarts(p) == \/ UserCreate(p) \/ UserWrite(p) \/ UserChmod(p) \/ UserUnlink(p)
                 \/ UserDownload(p) \/ KeepLocal(p) \/ KeepRemote(p) \/ KeepBoth(p)
UserEnds == UserCommit \/ UserUnlinkCommit \/ KeepRemoteFetch \/ KeepRemotePut
EvictEnds == EvictRemove \/ EvictMark
Upload(x) == \/ UploadNext(x) \/ UploadMark(x) \/ UploadOpen(x) \/ UploadPut(x)
             \/ UploadSaved(x) \/ UploadFailed(x)
Ops(x) == OpsList(x) \/ OpsNext(x) \/ OpsComplete(x) \/ OpsEnd(x)
Pull(x) == \/ PullList(x) \/ PullNext(x) \/ PullInsert(x) \/ PullEvict(x) \/ PullRemove(x)
           \/ PullLocal(x) \/ PullGone(x) \/ PullUnlink(x) \/ PullEnd(x)
Resolve(x) == \/ ResolveLocalWins(x) \/ ResolveRemoteWins(x) \/ ResolveConflict(x)
              \/ ResolveFetch(x) \/ ResolveSettle(x)
Worker(x) == Upload(x) \/ Ops(x) \/ Pull(x) \/ Resolve(x)

Next == \/ \E p \in Paths : UserStarts(p) \/ EvictBegin(p) \/ PeerEdit(p) \/ PeerDelete(p)
        \/ UserEnds \/ EvictEnds
        \/ \E x \in Workers : PassBegin(x) \/ Worker(x)
        \/ Tick
        \/ Crash

\* Every operation and pass that began goes on, and the ticker starts passes,
\* also when file operations keep coming: the code does not wait for them.
Fairness ==
    /\ WF_vars(UserEnds) /\ WF_vars(EvictEnds)
    /\ \A x \in Workers : WF_vars(Worker(x)) /\ SF_vars(PassBegin(x))

Spec == Init /\ [][Next]_vars /\ Fairness

-----------------------------------------------------------------------------
(* Properties.                                                             *)

Unsynced(p) == files[p].state \in {"dirty", "syncing", "conflict"}

\* What the user saved last is not lost: it is in the cache under a row that
\* protects it from eviction, or it is on the remote. Other clients may
\* replace it there, and the user or the strategy remote-wins may give it up
\* (engine.go: uploadFile, pullDir; conflict.go; eviction.go).
LocalWorkKept ==
    \A p \in Paths : last[p] # None =>
        \/ remote[p].ver = last[p]
        \/ disk[p] = last[p] /\ Unsynced(p)

\* A clean row has a file, and if it is not what the remote has, the next
\* pull will see that by its mtime (engine.go: pullDir, uploadFile).
CleanMatchesRemote ==
    \A p \in Paths :
        files[p].state = "clean" /\ user.p # p /\ ~(ev.p = p /\ ev.pc = "mark")
        => /\ disk[p] # None
           /\ \/ disk[p] = remote[p].ver
              \/ ~Present(p)
              \/ remote[p].mtime > files[p].rm

\* A dirty file does not stay dirty or syncing: it gets uploaded, or it becomes
\* a conflict, or the strategy gives it up. Excepted are a crash, which may
\* leave it syncing, and a failed fetch of the remote version, which may leave
\* it without its cache file (engine.go: loop, uploadDirty, uploadFile).
DirtyIsSynced ==
    \A p \in Paths, n \in 0..MaxCrashes :
        files[p].state = "dirty" /\ disk[p] # None /\ crashes = n
        ~> files[p].state \notin {"dirty", "syncing"} \/ disk[p] = None \/ crashes > n
=============================================================================
