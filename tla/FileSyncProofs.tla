--------------------------- MODULE FileSyncProofs ---------------------------
(***************************************************************************)
(* What the user saved is not lost, and a clean row matches the remote or  *)
(* will be seen to differ from it: for every set of files, every set of    *)
(* engine workers and strategies, and all bounds, as long as none of the   *)
(* circumstances of Admits arises.                                         *)
(***************************************************************************)
EXTENDS FileSync, WellFoundedInduction, TLAPS

USE SetAssumption, BoundAssumption, PathAssumption

\* What a worker, a file operation and the evictor may hold.
Pcs == {"idle", "upload", "mark", "open", "put", "saved", "failed", "ops", "complete", "list",
        "pull", "insert", "evict", "remove", "resolve", "fetch", "settle", "gone", "unlink"}
Copies == [ver : Content, mtime : Times]
Passes == [pc : Pcs, todo : SUBSET Paths, ents : [Paths -> Rows], list : [Paths -> Copies],
           q : SUBSET (Versions \X Paths), p : Paths \cup {None}, e : Rows, st : Times,
           fd : Content, cut : BOOLEAN, back : {"idle", "upload", "pull"}]
Users  == [pc : {"idle", "commit", "unlink", "keepfetch", "keepput"}, p : Paths \cup {None},
           row : Rows, ver : Content]
Evs    == [pc : {"idle", "remove", "mark"}, p : Paths \cup {None}]

\* The variables that the invariants speak of have their types.
DataTyped ==
    /\ strategy \in Strategies
    /\ files \in [Paths -> Rows]
    /\ disk \in [Paths -> Content]
    /\ conf \in [Paths -> Times]
    /\ ops \in SUBSET (Versions \X Paths)
    /\ remote \in [Paths -> Copies]
    /\ now \in Times /\ next \in 0..MaxVer
    /\ last \in [Paths -> Content]

\* All but the sidecars and the counters of the bounds.
Typed == DataTyped /\ w \in [Workers -> Passes] /\ user \in Users /\ ev \in Evs

\* One worker at a time, and none beside a file operation; the evictor only
\* beside a worker.
Alone ==
    /\ \A x, y \in Workers : w[x].pc # "idle" /\ w[y].pc # "idle" => x = y
    /\ user.pc # "idle" => (\A x \in Workers : w[x].pc = "idle") /\ ev.pc = "idle"

\* The content v with the sync point m matches the remote's file, or a pull
\* will see by its mtime that it does not.
Match(v, m, p) ==
    /\ v # None /\ m <= remote[p].mtime
    /\ v = remote[p].ver \/ remote[p].ver = None \/ remote[p].mtime > m

\* What a file operation holds between its two steps.
UserFine ==
    /\ user.pc = "idle" <=> user.p = None
    /\ user.pc = "commit" =>
          IF user.ver = None THEN user.row = files[user.p]
          ELSE disk[user.p] = user.ver /\ user.row.state = "dirty" /\ ~DeletePending(user.p)
    /\ user.pc = "unlink" => user.ver \in Versions
    /\ user.pc \in {"unlink", "keepfetch", "keepput"} => last[user.p] = None
    /\ user.pc \in {"keepfetch", "keepput"} => files[user.p].state = "conflict"
    /\ user.pc = "keepput" => Match(disk[user.p], conf[user.p], user.p)

\* The part of the pass a worker is in; a resolution belongs to the part that
\* asked for it.
Resolves(k) == k.pc \in {"resolve", "fetch", "settle"}
Uploads(k) == \/ k.pc \in {"upload", "mark", "open", "put", "saved", "failed"}
              \/ Resolves(k) /\ k.back = "upload"
Pulls(k)   == \/ k.pc \in {"pull", "insert", "evict", "remove"}
              \/ Resolves(k) /\ k.back = "pull"

\* What a worker knows of the rows and files that are still before it.
TodoFine(k) ==
    /\ k.q \subseteq ops
    /\ k.pc \notin {"ops", "complete"} => k.q = {}
    /\ k.pc = "complete" => k.q # {}
    /\ Uploads(k) => \A f \in k.todo : f # k.p /\ files[f].state = "dirty"
    /\ Pulls(k) => \A f \in Paths : k.list[f].mtime <= remote[f].mtime
    /\ k.pc \in {"gone", "unlink"} => \A f \in k.todo : f # k.p /\ files[f].state \in {"clean", "evicted"}

\* Where it has a path in hand.
HandPcs == {"mark", "open", "put", "saved", "failed", "insert", "evict", "remove",
            "resolve", "fetch", "settle", "unlink"}

\* For a worker between two steps with a path, the row and the cache file are
\* what its last step left; what it read of the remote can only be outrun.
HandFine(k) ==
    LET p == k.p IN
    /\ k.pc \in HandPcs <=> p \in Paths
    /\ k.pc = "mark" => files[p].state = "dirty"
    /\ k.pc \in {"open", "put", "saved", "failed"} => files[p].state = "syncing"
    /\ k.pc = "put" => k.fd = disk[p] /\ disk[p] # None
    /\ k.pc = "saved" => /\ last[p] # None => remote[p].ver = last[p]
                         /\ Match(disk[p], k.e.lm, p)
    /\ Resolves(k) => /\ files[p].state \in {"dirty", "syncing"}
                      /\ k.st <= remote[p].mtime /\ k.back \in {"upload", "pull"}
    /\ k.pc \in {"fetch", "settle"} => IF strategy = "remote-wins" THEN last[p] = None
                                       ELSE conf[p] = k.st
    /\ k.pc = "settle" /\ strategy = "remote-wins" => Match(disk[p], k.st, p)
    /\ k.pc = "insert" => files[p].state = "none" /\ k.st <= remote[p].mtime
    /\ k.pc = "evict" => files[p].state \in {"clean", "evicted"} /\ k.e.rm <= remote[p].mtime
    /\ k.pc = "remove" => files[p].state = "evicted"
    /\ k.pc = "unlink" => files[p].state = "none"

\* Every worker knows what it needs to know.
WorkersFine == \A x \in Workers : TodoFine(w[x]) /\ HandFine(w[x])

\* A file operation is changing p.
Busy(p) == user.p = p /\ ~(user.pc = "commit" /\ user.ver = None)

\* What holds of a path at every step.
PathFine(p) ==
    /\ files[p].state \in {"clean", "evicted"} => files[p].rm <= remote[p].mtime
    /\ files[p].state = "conflict" => conf[p] <= remote[p].mtime
    /\ last[p] # None => IF Unsynced(p) THEN disk[p] = last[p] ELSE remote[p].ver = last[p]
    /\ files[p].state = "clean" /\ ~Busy(p) /\ ~(ev.p = p /\ ev.pc = "mark")
          => Match(disk[p], files[p].rm, p)
    /\ DeletePending(p) => last[p] = None
    /\ ev.p = p /\ ev.pc # "idle" => files[p].state \in {"none", "clean", "evicted"}

\* The inductive invariant.
SyncInv ==
    /\ Typed /\ Alone /\ UserFine /\ WorkersFine
    /\ ev.pc # "idle" => ev.p \in Paths
    /\ \A p \in Paths : PathFine(p)

-----------------------------------------------------------------------------
(* Types.                                                                  *)

\* The values that stand for nothing are told apart from the real ones.
LEMMA Constants ==
    /\ None \in Content /\ Hole \in Content /\ None \notin Paths /\ None # Hole
    /\ 0 \in Times /\ Times \subseteq Nat /\ Versions \subseteq Content /\ None \notin Versions
    /\ NoRow \in Rows /\ NoRow.state = "none"
BY DEF None, Hole, Content, Versions, Times, Rows, States, NoRow

\* A worker,
LEMMA IdleTyped ==
    Idle \in Passes /\ Idle.pc = "idle" /\ Idle.q = {} /\ Idle.p = None
<1>1. [p \in Paths |-> NoRow] \in [Paths -> Rows]
  BY Constants
<1>2. NoList \in [Paths -> Copies]
  BY Constants DEF NoList, NoFile, Copies
<1> QED
  BY <1>1, <1>2, Constants DEF Idle, Passes, Pcs

\* the user
LEMMA NoUserTyped ==
    NoUser \in Users /\ NoUser.pc = "idle" /\ NoUser.p = None
BY Constants DEF NoUser, Users

\* and the evictor at rest have their types.
LEMMA NoEvTyped ==
    NoEv \in Evs /\ NoEv.pc = "idle" /\ NoEv.p = None
BY Constants DEF NoEv, Evs

\* Every path but p is left alone by a step.
Elsewhere(p) ==
    \A g \in Paths \ {p} :
        /\ files'[g] = files[g] /\ disk'[g] = disk[g] /\ conf'[g] = conf[g]
        /\ remote'[g] = remote[g] /\ last'[g] = last[g]
        /\ DeletePending(g)' => DeletePending(g)

\* What holds of such a path still holds.
LEMMA ElsewhereFine ==
    ASSUME NEW p \in Paths, Elsewhere(p), ev' = ev, user'.p \in {p, None}, user.p \in {p, None},
           NEW g \in Paths \ {p}, PathFine(g)
    PROVE  PathFine(g)'
BY Constants DEF Elsewhere, PathFine, Unsynced, Busy, Match

\* A worker goes on with another program counter,
LEMMA GoMoves ==
    ASSUME Typed, NEW x \in Workers, NEW pc \in Pcs, Go(x, pc)
    PROVE  \E k \in Passes :
              /\ Become(x, k) /\ k.pc = pc /\ k.todo = w[x].todo /\ k.list = w[x].list /\ k.q = w[x].q
              /\ k.p = w[x].p /\ k.e = w[x].e /\ k.st = w[x].st /\ k.fd = w[x].fd /\ k.back = w[x].back
<1> DEFINE k == [w[x] EXCEPT !.pc = pc]
<1>1. /\ k \in Passes /\ k.pc = pc /\ k.todo = w[x].todo /\ k.list = w[x].list /\ k.q = w[x].q
      /\ k.p = w[x].p /\ k.e = w[x].e /\ k.st = w[x].st /\ k.fd = w[x].fd /\ k.back = w[x].back
  <2>1. w[x] \in Passes
    BY DEF Typed
  <2> QED
    BY <2>1 DEF Passes
<1> QED
  BY <1>1 DEF Go

\* or is through with its path.
LEMMA OnwardMoves ==
    ASSUME Typed, NEW x \in Workers, NEW pc \in Pcs, Onward(x, pc)
    PROVE  \E k \in Passes :
              /\ Become(x, k) /\ k.pc = pc /\ k.todo = w[x].todo /\ k.list = w[x].list /\ k.q = w[x].q
              /\ k.p = None
<1> DEFINE k == [w[x] EXCEPT !.pc = pc, !.p = None, !.e = NoRow, !.st = 0,
                             !.fd = None, !.cut = FALSE, !.back = "idle"]
<1>1. /\ k \in Passes /\ k.pc = pc /\ k.todo = w[x].todo /\ k.list = w[x].list /\ k.q = w[x].q
      /\ k.p = None
  <2>1. w[x] \in Passes
    BY DEF Typed
  <2> QED
    BY <2>1, Constants DEF Passes
<1> QED
  BY <1>1 DEF Onward

\* A worker that rests knows nothing.
LEMMA IdleFine ==
    ASSUME NEW k, k.pc = "idle", k.q = {}, k.p \notin Paths
    PROVE  TodoFine(k) /\ HandFine(k)
BY DEF TodoFine, HandFine, HandPcs, Uploads, Pulls, Resolves

\* The worker's turn: it is under way, or it may start.
Turn(x) == w[x].pc # "idle" \/ (Admits = {} /\ WorkerMayStart)

\* Beside a worker there is no file operation and no other worker.
LEMMA TurnFacts ==
    ASSUME SyncInv, NEW x \in Workers, Turn(x)
    PROVE  /\ user.pc = "idle" /\ user.p = None
           /\ \A y \in Workers \ {x} : w[y].pc = "idle" /\ w[y].q = {} /\ w[y].p \notin Paths
           /\ w[x] \in Passes /\ TodoFine(w[x]) /\ HandFine(w[x])
<1> USE DEF SyncInv
<1>1. user.pc = "idle" /\ \A y \in Workers \ {x} : w[y].pc = "idle"
  BY DEF Alone, WorkerMayStart, Resting, Turn
<1>2. user.p = None
  BY <1>1 DEF UserFine
<1>3. \A y \in Workers \ {x} : w[y].q = {} /\ w[y].p \notin Paths
  BY <1>1 DEF WorkersFine, TodoFine, HandFine, HandPcs
<1> QED
  BY <1>1, <1>2, <1>3 DEF WorkersFine, Typed

\* A step of a worker, from what it does to the data and to its own record.
LEMMA WorkerMoves ==
    ASSUME SyncInv, NEW x \in Workers, Turn(x), NEW k \in Passes, Become(x, k),
           user' = user, ev' = ev, DataTyped',
           TodoFine(k)', HandFine(k)', \A p \in Paths : PathFine(p)'
    PROVE  SyncInv'
<1> USE DEF SyncInv
<1>1. w' \in [Workers -> Passes] /\ \A y \in Workers : w'[y] = IF y = x THEN k ELSE w[y]
  BY DEF Become, Typed
<1>2. user.pc = "idle" /\ user.p = None /\ \A y \in Workers \ {x} : w[y].pc = "idle" /\ w[y].q = {} /\ w[y].p \notin Paths
  BY TurnFacts
<1>3. Alone'
  BY <1>1, <1>2 DEF Alone
<1>4. UserFine'
  BY <1>2 DEF UserFine
<1>5. WorkersFine'
  <2>1. ASSUME NEW y \in Workers \ {x} PROVE TodoFine(w[y])' /\ HandFine(w[y])'
    <3>1. w'[y].pc = "idle" /\ w'[y].q = {} /\ w'[y].p \notin Paths
      BY <1>1, <1>2
    <3> QED
      BY <3>1 DEF TodoFine, HandFine, HandPcs, Uploads, Pulls, Resolves
  <2>2. TodoFine(w[x])' /\ HandFine(w[x])'
    <3>1. w'[x] = k
      BY <1>1
    <3>2. TodoFine(w[x])'
      BY <3>1 DEF TodoFine, Uploads, Pulls, Resolves
    <3>3. HandFine(w[x])'
      BY <3>1 DEF HandFine, Resolves, Match
    <3> QED
      BY <3>2, <3>3
  <2> QED
    BY <2>1, <2>2 DEF WorkersFine
<1> QED
  BY <1>1, <1>3, <1>4, <1>5 DEF Typed

\* A step that leaves the data alone.
LEMMA WorkerLooks ==
    ASSUME SyncInv, NEW x \in Workers, Turn(x), NEW k \in Passes, Become(x, k),
           UNCHANGED <<strategy, files, disk, conf, ops, remote, user, ev, now, next, last>>,
           TodoFine(k), HandFine(k)
    PROVE  SyncInv'
<1> USE DEF SyncInv
<1>1. DataTyped'
  BY DEF Typed, DataTyped
<1>2. TodoFine(k)' /\ HandFine(k)'
  BY DEF TodoFine, HandFine, Uploads, Pulls, Resolves, Match
<1>3. \A p \in Paths : PathFine(p)'
  BY DEF PathFine, Unsynced, Busy, Match, DeletePending
<1> QED
  BY <1>1, <1>2, <1>3, WorkerMoves

\* A step that changes the data of one path.
LEMMA WorkerActs ==
    ASSUME SyncInv, NEW x \in Workers, Turn(x), NEW k \in Passes, Become(x, k),
           user' = user, ev' = ev, DataTyped',
           NEW p \in Paths, Elsewhere(p), TodoFine(k)', HandFine(k)', PathFine(p)'
    PROVE  SyncInv'
<1>1. user.p = None
  BY TurnFacts
<1>2. \A g \in Paths \ {p} : PathFine(g)'
  BY <1>1, ElsewhereFine DEF SyncInv
<1>3. \A g \in Paths : PathFine(g)'
  BY <1>2
<1> QED
  BY <1>3, WorkerMoves

\* What is still before the worker is not touched by what it does to the path
\* in hand.
LEMMA TodoKept ==
    ASSUME NEW x \in Workers, TodoFine(w[x]), w[x] \in Passes, NEW k \in Passes,
           NEW p \in Paths, w[x].p = p, Elsewhere(p), ops' = ops,
           k.todo = w[x].todo, k.list = w[x].list, k.q = w[x].q, k.p \in {p, None},
           w[x].pc \notin {"ops", "complete"}, k.pc \notin {"ops", "complete"},
           Uploads(k) => Uploads(w[x]),
           k.pc \in {"gone", "unlink"} => w[x].pc \in {"gone", "unlink"},
           Pulls(k) => Pulls(w[x]) /\ remote'[p].mtime = remote[p].mtime
    PROVE  TodoFine(k)'
<1> USE Constants
<1>1. k.q = {} /\ (k.q \subseteq ops)'
  BY DEF TodoFine
<1>2. ASSUME Uploads(k) PROVE \A f \in k.todo : f # k.p /\ files'[f].state = "dirty"
  BY <1>2 DEF TodoFine, Elsewhere, Passes
<1>3. ASSUME Pulls(k) PROVE \A f \in Paths : k.list[f].mtime <= remote'[f].mtime
  BY <1>3 DEF TodoFine, Elsewhere
<1>4. ASSUME k.pc \in {"gone", "unlink"}
      PROVE  \A f \in k.todo : f # k.p /\ files'[f].state \in {"clean", "evicted"}
  BY <1>4 DEF TodoFine, Elsewhere, Passes
<1> QED
  BY <1>1, <1>2, <1>3, <1>4 DEF TodoFine, Uploads, Pulls, Resolves

\* A worker that has a path in hand.
LEMMA InHand ==
    ASSUME SyncInv, NEW x \in Workers, w[x].pc \in HandPcs
    PROVE  /\ Turn(x) /\ w[x] \in Passes /\ TodoFine(w[x]) /\ HandFine(w[x])
           /\ \E p \in Paths : p = w[x].p /\ PathFine(p)
BY DEF SyncInv, Turn, Typed, WorkersFine, HandFine, HandPcs

-----------------------------------------------------------------------------
(* Uploads.                                                                *)

\* A pass begins with the rows that are dirty.
LEMMA PassBeginStep ==
    ASSUME SyncInv, Admits = {}, NEW x \in Workers, PassBegin(x)
    PROVE  SyncInv'
<1> USE DEF SyncInv
<1>1. /\ Turn(x) /\ w[x] \in Passes /\ w[x].pc = "idle" /\ w[x].q = {} /\ w[x].p \notin Paths
  BY DEF PassBegin, Turn, Typed, WorkersFine, TodoFine, HandFine, HandPcs
<1>2. CASE x = "sync"
  <2>1. PICK k \in Passes : Become(x, k) /\ k.pc = "list" /\ k.q = w[x].q /\ k.p = w[x].p
    <3>1. Typed /\ Go(x, "list") /\ "list" \in Pcs
      BY <1>2 DEF Pcs, PassBegin
    <3> QED
      BY <3>1, GoMoves
  <2>2. TodoFine(k) /\ HandFine(k)
    BY <1>1, <2>1 DEF TodoFine, HandFine, HandPcs, Uploads, Pulls, Resolves
  <2> QED
    BY <1>1, <2>1, <2>2, WorkerLooks DEF PassBegin
<1>3. CASE x # "sync"
  <2> DEFINE dirty == {p \in Paths : files[p].state = "dirty"}
             ents  == [p \in Paths |-> IF p \in dirty THEN files[p] ELSE NoRow]
             d == [w[x] EXCEPT !.pc = "upload", !.todo = dirty, !.ents = ents]
  <2>1. ents \in [Paths -> Rows] /\ dirty \in SUBSET Paths
    BY Constants DEF Typed, DataTyped
  <2>2. Become(x, d) /\ \A p \in dirty : p \in Paths /\ files[p].state = "dirty"
    BY <1>3 DEF PassBegin
  <2> HIDE DEF dirty, ents
  <2>3. d \in Passes /\ d.pc = "upload" /\ d.todo = dirty /\ d.q = {} /\ d.p \notin Paths
    BY <1>1, <2>1 DEF Passes, Pcs
  <2> HIDE DEF d
  <2>4. PICK k \in Passes : k = d
    BY <2>3
  <2>5. TodoFine(k) /\ HandFine(k)
    BY <2>2, <2>3, <2>4 DEF TodoFine, HandFine, HandPcs, Uploads, Pulls, Resolves
  <2> QED
    BY <1>1, <2>2, <2>4, <2>5, WorkerLooks DEF PassBegin
<1> QED
  BY <1>2, <1>3

\* A dirty row is compared with the remote and handed to the resolver, or it
\* goes on to be uploaded.
LEMMA UploadNextStep ==
    ASSUME SyncInv, NEW x \in Workers, UploadNext(x)
    PROVE  SyncInv'
<1> USE DEF SyncInv
<1>1. PICK p \in w[x].todo : \E pc \in {"resolve", "mark"}, st \in {remote[p].mtime, 0} :
            /\ w[x].pc = "upload"
            /\ pc = "resolve" => st = remote[p].mtime
            /\ Become(x, [w[x] EXCEPT !.pc = pc, !.p = p, !.e = w[x].ents[p], !.st = st,
                                      !.todo = w[x].todo \ {p}, !.ents[p] = NoRow, !.back = "upload"])
  BY DEF UploadNext
<1>2. PICK pc \in {"resolve", "mark"}, st \in {remote[p].mtime, 0} :
        /\ w[x].pc = "upload"
        /\ pc = "resolve" => st = remote[p].mtime
        /\ Become(x, [w[x] EXCEPT !.pc = pc, !.p = p, !.e = w[x].ents[p], !.st = st,
                                  !.todo = w[x].todo \ {p}, !.ents[p] = NoRow, !.back = "upload"])
  BY <1>1
<1>3. /\ Turn(x) /\ w[x] \in Passes /\ TodoFine(w[x]) /\ HandFine(w[x])
      /\ p \in Paths /\ files[p].state = "dirty"
  BY <1>2 DEF Turn, Typed, WorkersFine, TodoFine, Uploads, Passes
<1>4. w[x].ents[p] \in Rows /\ st \in Times /\ remote[p].mtime \in Nat
  BY <1>2, <1>3, Constants DEF Typed, DataTyped, Passes, Copies
<1> DEFINE d == [w[x] EXCEPT !.pc = pc, !.p = p, !.e = w[x].ents[p], !.st = st,
                             !.todo = w[x].todo \ {p}, !.ents[p] = NoRow, !.back = "upload"]
<1>5. /\ d \in Passes /\ d.pc = pc /\ d.todo = w[x].todo \ {p} /\ d.p = p /\ d.st = st
      /\ d.q = w[x].q /\ d.back = "upload"
  BY <1>3, <1>4, Constants DEF Passes, Pcs
<1>6. PICK k \in Passes : k = d
  BY <1>5
<1> HIDE DEF d
<1>7. TodoFine(k)
  BY <1>2, <1>3, <1>5, <1>6 DEF TodoFine, Uploads, Pulls, Resolves
<1>8. HandFine(k)
  BY <1>2, <1>3, <1>4, <1>5, <1>6 DEF HandFine, HandPcs, Resolves
<1> QED
  BY <1>2, <1>3, <1>6, <1>7, <1>8, WorkerLooks DEF UploadNext, d

\* SetState(syncing).
LEMMA UploadMarkStep ==
    ASSUME SyncInv, NEW x \in Workers, UploadMark(x)
    PROVE  SyncInv'
<1> USE DEF SyncInv
<1>1. Turn(x) /\ w[x] \in Passes /\ TodoFine(w[x]) /\ HandFine(w[x]) /\ w[x].pc = "mark"
  BY InHand DEF UploadMark, HandPcs
<1>2. PICK p \in Paths : p = w[x].p /\ PathFine(p)
  BY InHand DEF UploadMark, HandPcs
<1>3. files[p].state = "dirty"
  BY <1>1, <1>2 DEF HandFine
<1>4. PICK k \in Passes : /\ Become(x, k) /\ k.pc = "open" /\ k.p = p
                          /\ k.todo = w[x].todo /\ k.list = w[x].list /\ k.q = w[x].q
  <2>1. Typed /\ Go(x, "open") /\ "open" \in Pcs
    BY <1>2, <1>3 DEF Pcs, UploadMark
  <2> QED
    BY <1>2, <2>1, GoMoves
<1>5. /\ files' \in [Paths -> Rows] /\ files'[p].state = "syncing"
      /\ \A g \in Paths \ {p} : files'[g] = files[g]
  BY <1>2, <1>3 DEF UploadMark, Typed, DataTyped, Rows, States
<1>6. DataTyped' /\ Elsewhere(p)
  BY <1>5 DEF Typed, DataTyped, Elsewhere, UploadMark, DeletePending
<1>7. TodoFine(k)'
  BY <1>1, <1>2, <1>4, <1>6, TodoKept DEF UploadMark, Uploads, Pulls, Resolves
<1>8. HandFine(k)'
  BY <1>4, <1>5 DEF HandFine, HandPcs, Resolves
<1>9. PathFine(p)'
  BY <1>2, <1>3, <1>5 DEF PathFine, Unsynced, DeletePending, UploadMark
<1> QED
  BY <1>1, <1>4, <1>6, <1>7, <1>8, <1>9, WorkerActs DEF UploadMark

\* Without a cache file the row is set back; otherwise the file is opened.
LEMMA UploadOpenStep ==
    ASSUME SyncInv, NEW x \in Workers, UploadOpen(x)
    PROVE  SyncInv'
<1> USE DEF SyncInv
<1>1. Turn(x) /\ w[x] \in Passes /\ TodoFine(w[x]) /\ HandFine(w[x]) /\ w[x].pc = "open"
  BY InHand DEF UploadOpen, HandPcs
<1>2. PICK p \in Paths : p = w[x].p /\ PathFine(p)
  BY InHand DEF UploadOpen, HandPcs
<1>3. files[p].state = "syncing"
  BY <1>1, <1>2 DEF HandFine
<1>4. CASE disk[p] = None
  <2>1. PICK k \in Passes : /\ Become(x, k) /\ k.pc = "upload" /\ k.p = None
                            /\ k.todo = w[x].todo /\ k.list = w[x].list /\ k.q = w[x].q
    <3>1. Typed /\ Onward(x, "upload") /\ "upload" \in Pcs
      BY <1>2, <1>4 DEF Pcs, UploadOpen
    <3> QED
      BY <3>1, OnwardMoves
  <2>2. /\ files' \in [Paths -> Rows] /\ files'[p].state = "dirty"
        /\ \A g \in Paths \ {p} : files'[g] = files[g]
    BY <1>2, <1>3, <1>4 DEF UploadOpen, Typed, DataTyped, Rows, States
  <2>3. DataTyped' /\ Elsewhere(p)
    BY <2>2 DEF Typed, DataTyped, Elsewhere, UploadOpen, DeletePending
  <2>4. TodoFine(k)'
    BY <1>1, <1>2, <2>1, <2>3, TodoKept DEF UploadOpen, Uploads, Pulls, Resolves
  <2>5. HandFine(k)'
    BY <2>1, Constants DEF HandFine, HandPcs, Resolves
  <2>6. PathFine(p)'
    BY <1>2, <1>3, <2>2 DEF PathFine, Unsynced, DeletePending, UploadOpen
  <2> QED
    BY <1>1, <2>1, <2>3, <2>4, <2>5, <2>6, WorkerActs DEF UploadOpen
<1>5. CASE disk[p] # None
  <2> DEFINE d == [w[x] EXCEPT !.pc = "put", !.fd = disk[p]]
  <2>1. Become(x, d) /\ files' = files
    BY <1>2, <1>5 DEF UploadOpen
  <2>2. /\ d \in Passes /\ d.pc = "put" /\ d.fd = disk[p] /\ d.p = p
        /\ d.todo = w[x].todo /\ d.q = w[x].q
    <3>1. disk[p] \in Content
      BY DEF Typed, DataTyped
    <3> QED
      BY <1>1, <1>2, <3>1 DEF Passes, Pcs
  <2> HIDE DEF d
  <2>3. PICK k \in Passes : k = d
    BY <2>2
  <2>4. TodoFine(k) /\ HandFine(k)
    BY <1>1, <1>2, <1>3, <1>5, <2>2, <2>3 DEF TodoFine, HandFine, HandPcs, Uploads, Pulls, Resolves
  <2> QED
    BY <1>1, <2>1, <2>3, <2>4, WorkerLooks DEF UploadOpen
<1> QED
  BY <1>4, <1>5

\* Put sends what is in the cache file; whether or not its reply arrives, what
\* the user saved is on the remote or still here.
LEMMA UploadPutStep ==
    ASSUME SyncInv, NEW x \in Workers, UploadPut(x)
    PROVE  SyncInv'
<1> USE DEF SyncInv
<1>1. Turn(x) /\ w[x] \in Passes /\ TodoFine(w[x]) /\ HandFine(w[x]) /\ w[x].pc = "put"
  BY InHand DEF UploadPut, HandPcs
<1>2. PICK p \in Paths : p = w[x].p /\ PathFine(p)
  BY InHand DEF UploadPut, HandPcs
<1>3. files[p].state = "syncing" /\ w[x].fd = disk[p] /\ disk[p] # None /\ w[x].e.lm \in Times
  BY <1>1, <1>2 DEF HandFine, Passes, Rows
<1>4. PICK k \in Passes : /\ Become(x, k) /\ k.pc \in {"saved", "failed"} /\ k.p = p /\ k.e = w[x].e
                          /\ k.todo = w[x].todo /\ k.list = w[x].list /\ k.q = w[x].q
                          /\ \/ remote' = [remote EXCEPT ![p] = [ver |-> disk[p], mtime |-> w[x].e.lm]]
                             \/ k.pc = "failed" /\ remote' = remote
  <2>1. \/ Go(x, "saved") /\ remote' = [remote EXCEPT ![p] = [ver |-> disk[p], mtime |-> w[x].e.lm]]
        \/ Go(x, "failed") /\ \/ remote' = [remote EXCEPT ![p] = [ver |-> disk[p], mtime |-> w[x].e.lm]]
                              \/ remote' = remote
    BY <1>2, <1>3 DEF UploadPut
  <2> QED
    BY <1>2, <2>1, GoMoves DEF Pcs
<1>5. /\ remote' \in [Paths -> Copies] /\ \A g \in Paths \ {p} : remote'[g] = remote[g]
      /\ \/ remote'[p] = [ver |-> disk[p], mtime |-> w[x].e.lm]
         \/ k.pc = "failed" /\ remote'[p] = remote[p]
  BY <1>3, <1>4 DEF Typed, DataTyped, Copies
<1>6. DataTyped' /\ Elsewhere(p)
  BY <1>5 DEF Typed, DataTyped, Elsewhere, UploadPut, DeletePending
<1>7. TodoFine(k)'
  BY <1>1, <1>2, <1>4, <1>6, TodoKept DEF UploadPut, Uploads, Pulls, Resolves
<1>8. HandFine(k)'
  <2>1. k.pc = "saved" => /\ last[p] # None => remote'[p].ver = last[p]
                          /\ Match(disk[p], k.e.lm, p)'
    <3>1. w[x].e.lm \in Nat /\ disk' = disk /\ last' = last
      BY <1>3, Constants DEF UploadPut
    <3>2. k.pc = "saved" => remote'[p].ver = disk[p] /\ remote'[p].mtime = w[x].e.lm
      BY <1>5
    <3>3. last[p] # None => disk[p] = last[p]
      BY <1>2, <1>3 DEF PathFine, Unsynced
    <3>4. w[x].e.lm <= w[x].e.lm
      BY <3>1
    <3> QED
      BY <1>3, <1>4, <3>1, <3>2, <3>3, <3>4 DEF Match
  <2> QED
    BY <1>3, <1>4, <2>1 DEF HandFine, HandPcs, Resolves, UploadPut, Match
<1>9. PathFine(p)'
  BY <1>2, <1>3, <1>5 DEF PathFine, Unsynced, DeletePending, UploadPut
<1> QED
  BY <1>1, <1>4, <1>6, <1>7, <1>8, <1>9, WorkerActs DEF UploadPut

\* The uploaded file is clean: the remote has it, or something newer.
LEMMA UploadSavedStep ==
    ASSUME SyncInv, NEW x \in Workers, UploadSaved(x)
    PROVE  SyncInv'
<1> USE DEF SyncInv
<1>1. Turn(x) /\ w[x] \in Passes /\ TodoFine(w[x]) /\ HandFine(w[x]) /\ w[x].pc = "saved"
  BY InHand DEF UploadSaved, HandPcs
<1>2. PICK p \in Paths : p = w[x].p /\ PathFine(p)
  BY InHand DEF UploadSaved, HandPcs
<1>3. /\ files[p].state = "syncing" /\ w[x].e \in Rows
      /\ last[p] # None => remote[p].ver = last[p]
      /\ Match(disk[p], w[x].e.lm, p)
  BY <1>1, <1>2 DEF HandFine, Passes
<1>4. PICK k \in Passes : /\ Become(x, k) /\ k.pc = "upload" /\ k.p = None
                          /\ k.todo = w[x].todo /\ k.list = w[x].list /\ k.q = w[x].q
  <2>1. Typed /\ Onward(x, "upload") /\ "upload" \in Pcs
    BY DEF Pcs, UploadSaved
  <2> QED
    BY <2>1, OnwardMoves
<1>5. /\ files' \in [Paths -> Rows] /\ files'[p].state = "clean" /\ files'[p].rm = w[x].e.lm
      /\ \A g \in Paths \ {p} : files'[g] = files[g]
  BY <1>2, <1>3 DEF UploadSaved, Typed, DataTyped, Rows, States
<1>6. DataTyped' /\ Elsewhere(p)
  BY <1>5 DEF Typed, DataTyped, Elsewhere, UploadSaved, DeletePending
<1>7. TodoFine(k)'
  BY <1>1, <1>2, <1>4, <1>6, TodoKept DEF UploadSaved, Uploads, Pulls, Resolves
<1>8. HandFine(k)'
  BY <1>4, Constants DEF HandFine, HandPcs, Resolves
<1>9. PathFine(p)'
  BY <1>2, <1>3, <1>5 DEF PathFine, Unsynced, DeletePending, Match, UploadSaved
<1> QED
  BY <1>1, <1>4, <1>6, <1>7, <1>8, <1>9, WorkerActs DEF UploadSaved

\* The upload failed: the row is dirty again.
LEMMA UploadFailedStep ==
    ASSUME SyncInv, NEW x \in Workers, UploadFailed(x)
    PROVE  SyncInv'
<1> USE DEF SyncInv
<1>1. Turn(x) /\ w[x] \in Passes /\ TodoFine(w[x]) /\ HandFine(w[x]) /\ w[x].pc = "failed"
  BY InHand DEF UploadFailed, HandPcs
<1>2. PICK p \in Paths : p = w[x].p /\ PathFine(p)
  BY InHand DEF UploadFailed, HandPcs
<1>3. files[p].state = "syncing" /\ w[x].e \in Rows
  BY <1>1, <1>2 DEF HandFine, Passes
<1>4. PICK k \in Passes : /\ Become(x, k) /\ k.pc = "upload" /\ k.p = None
                          /\ k.todo = w[x].todo /\ k.list = w[x].list /\ k.q = w[x].q
  <2>1. Typed /\ Onward(x, "upload") /\ "upload" \in Pcs
    BY DEF Pcs, UploadFailed
  <2> QED
    BY <2>1, OnwardMoves
<1>5. /\ files' \in [Paths -> Rows] /\ files'[p].state = "dirty"
      /\ \A g \in Paths \ {p} : files'[g] = files[g]
  BY <1>2, <1>3 DEF UploadFailed, Typed, DataTyped, Rows, States
<1>6. DataTyped' /\ Elsewhere(p)
  BY <1>5 DEF Typed, DataTyped, Elsewhere, UploadFailed, DeletePending
<1>7. TodoFine(k)'
  BY <1>1, <1>2, <1>4, <1>6, TodoKept DEF UploadFailed, Uploads, Pulls, Resolves
<1>8. HandFine(k)'
  BY <1>4, Constants DEF HandFine, HandPcs, Resolves
<1>9. PathFine(p)'
  BY <1>2, <1>3, <1>5 DEF PathFine, Unsynced, DeletePending, UploadFailed
<1> QED
  BY <1>1, <1>4, <1>6, <1>7, <1>8, <1>9, WorkerActs DEF UploadFailed

-----------------------------------------------------------------------------
(* The pending deletions.                                                  *)

\* A set of numbers that is not empty has a least one,
LEMMA LeastIn ==
    ASSUME NEW N \in SUBSET Nat, N # {}
    PROVE  \E n \in N : \A m \in N : n <= m
<1>1. PICK n \in N : ~ \E m \in N : <<m, n>> \in OpToRel(<, Nat)
  BY WFMin, NatLessThanWellFounded
<1>2. \A m \in N : ~(m < n)
  BY <1>1 DEF OpToRel
<1> QED
  BY <1>2

\* and so pending operations have an oldest one.
LEMMA LowestIn ==
    ASSUME NEW S \in SUBSET (Versions \X Paths), S # {}
    PROVE  Lowest(S) \in S
<1> DEFINE N == {o[1] : o \in S}
<1>1. N \in SUBSET Nat /\ N # {}
  BY DEF Versions
<1>2. PICK n \in N : \A m \in N : n <= m
  <2> HIDE DEF N
  <2> QED
    BY <1>1, LeastIn
<1>3. \E o \in S : \A b \in S : o[1] <= b[1]
  BY <1>2
<1> QED
  BY <1>3 DEF Lowest

\* A worker that replays deletions.
LEMMA InOps ==
    ASSUME SyncInv, NEW x \in Workers, w[x].pc \in {"upload", "ops", "complete", "list", "pull", "gone"}
    PROVE  /\ Turn(x) /\ w[x] \in Passes /\ TodoFine(w[x]) /\ HandFine(w[x]) /\ w[x].p \notin Paths
BY DEF SyncInv, Turn, Typed, WorkersFine, HandFine, HandPcs

\* Some of the pending deletions are fetched.
LEMMA OpsListStep ==
    ASSUME SyncInv, NEW x \in Workers, OpsList(x)
    PROVE  SyncInv'
<1>1. /\ Turn(x) /\ w[x] \in Passes /\ w[x].p \notin Paths
  BY InOps DEF OpsList
<1> DEFINE q == {o \in ops : Cardinality({b \in ops : b[1] < o[1]}) < OpLimit}
           d == [w[x] EXCEPT !.pc = "ops", !.q = q]
<1>2. q \in SUBSET (Versions \X Paths) /\ q \subseteq ops
  BY DEF SyncInv, Typed, DataTyped
<1>3. Become(x, d)
  BY DEF OpsList
<1> HIDE DEF q
<1>4. d \in Passes /\ d.pc = "ops" /\ d.q = q /\ d.p \notin Paths
  BY <1>1, <1>2 DEF Passes, Pcs
<1> HIDE DEF d
<1>5. PICK k \in Passes : k = d
  BY <1>4
<1>6. TodoFine(k) /\ HandFine(k)
  BY <1>2, <1>4, <1>5 DEF TodoFine, HandFine, HandPcs, Uploads, Pulls, Resolves
<1> QED
  BY <1>1, <1>3, <1>5, <1>6, WorkerLooks DEF OpsList

\* A deletion takes from the remote nothing that the user has saved since.
LEMMA OpsNextStep ==
    ASSUME SyncInv, NEW x \in Workers, OpsNext(x)
    PROVE  SyncInv'
<1> USE DEF SyncInv
<1>1. /\ Turn(x) /\ w[x] \in Passes /\ w[x].p \notin Paths /\ w[x].q \subseteq ops
      /\ w[x].pc = "ops" /\ w[x].q # {}
  BY InOps DEF OpsNext, TodoFine
<1>2. PICK o \in w[x].q : o = Lowest(w[x].q)
  BY <1>1, LowestIn DEF Typed, DataTyped
<1>3. PICK p \in Paths : p = o[2] /\ PathFine(p) /\ last[p] = None
  BY <1>1, <1>2 DEF Typed, DataTyped, PathFine, DeletePending
<1>4. PICK k \in Passes : /\ Become(x, k) /\ k.p = w[x].p /\ k.q \subseteq w[x].q
                          /\ k.pc = "ops" \/ (k.pc = "complete" /\ k.q # {})
  <2>1. CASE Go(x, "complete")
    BY <1>1, <2>1, GoMoves DEF Pcs
  <2>2. CASE Become(x, [w[x] EXCEPT !.q = @ \ {o}])
    <3> DEFINE d == [w[x] EXCEPT !.q = @ \ {o}]
    <3>1. d \in Passes /\ d.pc = "ops" /\ d.p = w[x].p /\ d.q = w[x].q \ {o}
      BY <1>1 DEF Passes
    <3> QED
      BY <2>2, <3>1
  <2> QED
    BY <1>2, <2>1, <2>2 DEF OpsNext
<1>5. remote' = remote \/ remote' = [remote EXCEPT ![p].ver = None]
  BY <1>2, <1>3 DEF OpsNext
<1>6. /\ remote' \in [Paths -> Copies] /\ \A g \in Paths \ {p} : remote'[g] = remote[g]
      /\ remote'[p].mtime = remote[p].mtime /\ remote'[p].ver \in {remote[p].ver, None}
  BY <1>5, Constants DEF Typed, DataTyped, Copies
<1>7. DataTyped' /\ Elsewhere(p)
  BY <1>6 DEF Typed, DataTyped, Elsewhere, OpsNext, DeletePending
<1>8. TodoFine(k)' /\ HandFine(k)'
  BY <1>1, <1>4 DEF TodoFine, HandFine, HandPcs, Uploads, Pulls, Resolves, OpsNext
<1>9. PathFine(p)'
  <2>1. user' = user /\ ev' = ev /\ files' = files /\ disk' = disk /\ conf' = conf /\ last' = last
    BY DEF OpsNext
  <2> QED
    BY <1>3, <1>6, <2>1 DEF PathFine, Busy, Match
<1> QED
  BY <1>1, <1>4, <1>7, <1>8, <1>9, WorkerActs DEF OpsNext

\* A deletion that was carried out is no longer pending.
LEMMA OpsCompleteStep ==
    ASSUME SyncInv, NEW x \in Workers, OpsComplete(x)
    PROVE  SyncInv'
<1> USE DEF SyncInv
<1>1. /\ Turn(x) /\ w[x] \in Passes /\ w[x].p \notin Paths /\ w[x].q \subseteq ops
      /\ w[x].pc = "complete" /\ w[x].q # {}
  BY InOps DEF OpsComplete, TodoFine
<1>2. PICK o \in w[x].q : o = Lowest(w[x].q)
  BY <1>1, LowestIn DEF Typed, DataTyped
<1>3. PICK p \in Paths : p = o[2] /\ PathFine(p)
  BY <1>1, <1>2 DEF Typed, DataTyped
<1> DEFINE d == [w[x] EXCEPT !.pc = "ops", !.q = @ \ {o}]
<1>4. d \in Passes /\ d.pc = "ops" /\ d.p = w[x].p /\ d.q = w[x].q \ {o}
  BY <1>1 DEF Passes, Pcs
<1>5. Become(x, d) /\ ops' = ops \ {o}
  BY <1>2 DEF OpsComplete
<1> HIDE DEF d
<1>6. PICK k \in Passes : k = d
  BY <1>4
<1>7. DataTyped' /\ Elsewhere(p)
  BY <1>5 DEF Typed, DataTyped, Elsewhere, OpsComplete, DeletePending
<1>8. TodoFine(k)' /\ HandFine(k)'
  BY <1>1, <1>4, <1>5, <1>6 DEF TodoFine, HandFine, HandPcs, Uploads, Pulls, Resolves
<1>9. PathFine(p)'
  BY <1>3, <1>5 DEF PathFine, Unsynced, Busy, Match, DeletePending, OpsComplete
<1> QED
  BY <1>1, <1>5, <1>6, <1>7, <1>8, <1>9, WorkerActs DEF OpsComplete

\* The loop goes on to pull, the others are through.
LEMMA OpsEndStep ==
    ASSUME SyncInv, NEW x \in Workers, OpsEnd(x)
    PROVE  SyncInv'
<1>1. /\ Turn(x) /\ w[x] \in Passes /\ w[x].p \notin Paths /\ w[x].q = {}
  BY InOps DEF OpsEnd
<1>2. PICK k \in Passes : Become(x, k) /\ k.pc \in {"list", "idle"} /\ k.p = w[x].p /\ k.q = w[x].q
  BY GoMoves DEF OpsEnd, Pcs, SyncInv
<1>3. TodoFine(k) /\ HandFine(k)
  BY <1>1, <1>2 DEF TodoFine, HandFine, HandPcs, Uploads, Pulls, Resolves
<1> QED
  BY <1>1, <1>2, <1>3, WorkerLooks DEF OpsEnd

-----------------------------------------------------------------------------
(* Pulls.                                                                  *)

\* A listing of the remote: what it says can only be outrun by the remote.
LEMMA PullListStep ==
    ASSUME SyncInv, NEW x \in Workers, PullList(x)
    PROVE  SyncInv'
<1> USE DEF SyncInv
<1>1. Turn(x) /\ w[x] \in Passes /\ w[x].p \notin Paths /\ w[x].q = {}
  BY InOps DEF PullList, TodoFine
<1>2. CASE Go(x, "idle")
  <2>1. PICK k \in Passes : Become(x, k) /\ k.pc = "idle" /\ k.p = w[x].p /\ k.q = w[x].q
    <3>1. Typed /\ Go(x, "idle") /\ "idle" \in Pcs
      BY <1>2 DEF Pcs
    <3> QED
      BY <3>1, GoMoves
  <2>2. TodoFine(k) /\ HandFine(k)
    BY <1>1, <2>1, IdleFine
  <2> QED
    BY <1>1, <2>1, <2>2, WorkerLooks DEF PullList
<1>3. CASE ~Go(x, "idle")
  <2> DEFINE there == {p \in Paths : Present(p)}
             d == [w[x] EXCEPT !.pc = "pull", !.list = remote, !.todo = there]
  <2>1. there \in SUBSET Paths /\ remote \in [Paths -> Copies] /\ Become(x, d)
    BY <1>3 DEF PullList, Typed, DataTyped
  <2> HIDE DEF there
  <2>2. d \in Passes /\ d.pc = "pull" /\ d.list = remote /\ d.q = {} /\ d.p \notin Paths
    BY <1>1, <2>1 DEF Passes, Pcs
  <2> HIDE DEF d
  <2>3. PICK k \in Passes : k = d
    BY <2>2
  <2>4. \A f \in Paths : remote[f].mtime <= remote[f].mtime
    <3>1. \A f \in Paths : remote[f].mtime \in Nat
      BY <2>1, Constants DEF Copies
    <3> QED
      BY <3>1
  <2>5. TodoFine(k) /\ HandFine(k)
    BY <2>2, <2>3, <2>4 DEF TodoFine, HandFine, HandPcs, Uploads, Pulls, Resolves
  <2> QED
    BY <1>1, <2>1, <2>3, <2>5, WorkerLooks DEF PullList
<1> QED
  BY <1>2, <1>3

\* What to do about a listed file.
LEMMA PullNextStep ==
    ASSUME SyncInv, NEW x \in Workers, PullNext(x)
    PROVE  SyncInv'
<1> USE DEF SyncInv
<1>1. /\ Turn(x) /\ w[x] \in Passes /\ w[x].p \notin Paths /\ TodoFine(w[x])
      /\ w[x].pc = "pull" /\ w[x].q = {}
  BY InOps DEF PullNext, TodoFine
<1>2. \A f \in Paths : w[x].list[f].mtime <= remote[f].mtime
  BY <1>1 DEF TodoFine, Pulls
<1>3. CASE \E p \in w[x].todo : Become(x, [w[x] EXCEPT !.todo = w[x].todo \ {p}])
  <2>1. PICK p \in w[x].todo : Become(x, [w[x] EXCEPT !.todo = w[x].todo \ {p}])
    BY <1>3
  <2> DEFINE d == [w[x] EXCEPT !.todo = w[x].todo \ {p}]
  <2>2. d \in Passes /\ d.pc = "pull" /\ d.list = w[x].list /\ d.q = {} /\ d.p \notin Paths
    BY <1>1 DEF Passes, Pcs
  <2> HIDE DEF d
  <2>3. PICK k \in Passes : k = d
    BY <2>2
  <2>4. TodoFine(k) /\ HandFine(k)
    BY <1>2, <2>2, <2>3 DEF TodoFine, HandFine, HandPcs, Uploads, Pulls, Resolves
  <2> QED
    BY <1>1, <2>1, <2>3, <2>4, WorkerLooks DEF PullNext, d
<1>4. CASE \E p \in w[x].todo, pc \in {"insert", "evict", "resolve"} :
              /\ pc = "insert" => files[p].state = "none"
              /\ pc = "evict" => files[p].state \in {"clean", "evicted"}
              /\ pc = "resolve" => files[p].state \in {"dirty", "syncing"}
              /\ Become(x, [w[x] EXCEPT !.todo = w[x].todo \ {p}, !.pc = pc, !.p = p,
                    !.e = [files[p] EXCEPT !.rm = w[x].list[p].mtime], !.st = w[x].list[p].mtime,
                    !.back = "pull"])
  <2>1. PICK p \in w[x].todo, pc \in {"insert", "evict", "resolve"} :
              /\ pc = "insert" => files[p].state = "none"
              /\ pc = "evict" => files[p].state \in {"clean", "evicted"}
              /\ pc = "resolve" => files[p].state \in {"dirty", "syncing"}
              /\ Become(x, [w[x] EXCEPT !.todo = w[x].todo \ {p}, !.pc = pc, !.p = p,
                    !.e = [files[p] EXCEPT !.rm = w[x].list[p].mtime], !.st = w[x].list[p].mtime,
                    !.back = "pull"])
    BY <1>4
  <2>2. p \in Paths /\ files[p] \in Rows /\ w[x].list[p].mtime \in Times
    BY <1>1 DEF Passes, Copies, Typed, DataTyped
  <2>3. PICK st \in Times : st = w[x].list[p].mtime
    BY <2>2
  <2> DEFINE r == [files[p] EXCEPT !.rm = st]
  <2>4. r \in Rows /\ r.rm = st
    BY <2>2 DEF Rows
  <2> HIDE DEF r
  <2> DEFINE d == [w[x] EXCEPT !.todo = w[x].todo \ {p}, !.pc = pc, !.p = p, !.e = r, !.st = st,
                               !.back = "pull"]
  <2>5. /\ d \in Passes /\ d.pc = pc /\ d.list = w[x].list /\ d.q = {} /\ d.p = p /\ d.e.rm = st
        /\ d.st = st /\ d.back = "pull"
    BY <1>1, <2>2, <2>4 DEF Passes, Pcs
  <2>6. Become(x, d)
    BY <2>1, <2>3 DEF r
  <2> HIDE DEF d
  <2>7. PICK k \in Passes : k = d
    BY <2>5
  <2>8. TodoFine(k) /\ HandFine(k)
    BY <1>2, <2>1, <2>2, <2>3, <2>5, <2>7 DEF TodoFine, HandFine, HandPcs, Uploads, Pulls, Resolves
  <2> QED
    BY <1>1, <2>6, <2>7, <2>8, WorkerLooks DEF PullNext
<1> QED
  BY <1>3, <1>4 DEF PullNext

\* An unknown file enters as evicted.
LEMMA PullInsertStep ==
    ASSUME SyncInv, NEW x \in Workers, PullInsert(x)
    PROVE  SyncInv'
<1> USE DEF SyncInv
<1>1. Turn(x) /\ w[x] \in Passes /\ TodoFine(w[x]) /\ HandFine(w[x]) /\ w[x].pc = "insert"
  BY InHand DEF PullInsert, HandPcs
<1>2. PICK p \in Paths : p = w[x].p /\ PathFine(p)
  BY InHand DEF PullInsert, HandPcs
<1>3. files[p].state = "none" /\ w[x].st \in Times /\ w[x].st <= remote[p].mtime
  BY <1>1, <1>2 DEF HandFine, Passes, Resolves
<1>4. PICK k \in Passes : /\ Become(x, k) /\ k.pc = "pull" /\ k.p = None
                          /\ k.todo = w[x].todo /\ k.list = w[x].list /\ k.q = w[x].q
  <2>1. Typed /\ Onward(x, "pull") /\ "pull" \in Pcs
    BY DEF Pcs, PullInsert
  <2> QED
    BY <2>1, OnwardMoves
<1>5. /\ files' \in [Paths -> Rows] /\ files'[p].state = "evicted" /\ files'[p].rm = w[x].st
      /\ \A g \in Paths \ {p} : files'[g] = files[g]
  BY <1>2, <1>3, Constants DEF PullInsert, Typed, DataTyped, Rows, States
<1>6. DataTyped' /\ Elsewhere(p)
  BY <1>5 DEF Typed, DataTyped, Elsewhere, PullInsert, DeletePending
<1>7. TodoFine(k)'
  BY <1>1, <1>2, <1>3, <1>4, <1>6, TodoKept DEF PullInsert, Uploads, Pulls, Resolves
<1>8. HandFine(k)'
  BY <1>3, <1>4, <1>5, Constants DEF HandFine, HandPcs, Resolves, Match, PullInsert
<1>9. PathFine(p)'
  BY <1>2, <1>3, <1>5, Constants DEF PathFine, Unsynced, DeletePending, Busy, Match, PullInsert
<1> QED
  BY <1>1, <1>4, <1>6, <1>7, <1>8, <1>9, WorkerActs DEF PullInsert

\* A synced file that the remote has a newer version of is evicted, row first,
LEMMA PullEvictStep ==
    ASSUME SyncInv, NEW x \in Workers, PullEvict(x)
    PROVE  SyncInv'
<1> USE DEF SyncInv
<1>1. Turn(x) /\ w[x] \in Passes /\ TodoFine(w[x]) /\ HandFine(w[x]) /\ w[x].pc = "evict"
  BY InHand DEF PullEvict, HandPcs
<1>2. PICK p \in Paths : p = w[x].p /\ PathFine(p)
  BY InHand DEF PullEvict, HandPcs
<1>3. files[p].state \in {"clean", "evicted"} /\ w[x].e \in Rows /\ w[x].e.rm <= remote[p].mtime
  BY <1>1, <1>2 DEF HandFine, Passes, Resolves
<1>4. PICK k \in Passes : /\ Become(x, k) /\ k.pc = "remove" /\ k.p = p
                          /\ k.todo = w[x].todo /\ k.list = w[x].list /\ k.q = w[x].q
  <2>1. Typed /\ Go(x, "remove") /\ "remove" \in Pcs
    BY DEF Pcs, PullEvict
  <2> QED
    BY <1>2, <2>1, GoMoves
<1>5. /\ files' \in [Paths -> Rows] /\ files'[p].state = "evicted" /\ files'[p].rm = w[x].e.rm
      /\ \A g \in Paths \ {p} : files'[g] = files[g]
  BY <1>2, <1>3, Constants DEF PullEvict, Typed, DataTyped, Rows, States
<1>6. DataTyped' /\ Elsewhere(p)
  BY <1>5 DEF Typed, DataTyped, Elsewhere, PullEvict, DeletePending
<1>7. TodoFine(k)'
  BY <1>1, <1>2, <1>3, <1>4, <1>6, TodoKept DEF PullEvict, Uploads, Pulls, Resolves
<1>8. HandFine(k)'
  BY <1>3, <1>4, <1>5, Constants DEF HandFine, HandPcs, Resolves, Match, PullEvict
<1>9. PathFine(p)'
  BY <1>2, <1>3, <1>5, Constants DEF PathFine, Unsynced, DeletePending, Busy, Match, PullEvict
<1> QED
  BY <1>1, <1>4, <1>6, <1>7, <1>8, <1>9, WorkerActs DEF PullEvict

\* then its cache file.
LEMMA PullRemoveStep ==
    ASSUME SyncInv, NEW x \in Workers, PullRemove(x)
    PROVE  SyncInv'
<1> USE DEF SyncInv
<1>1. Turn(x) /\ w[x] \in Passes /\ TodoFine(w[x]) /\ HandFine(w[x]) /\ w[x].pc = "remove"
  BY InHand DEF PullRemove, HandPcs
<1>2. PICK p \in Paths : p = w[x].p /\ PathFine(p)
  BY InHand DEF PullRemove, HandPcs
<1>3. files[p].state = "evicted"
  BY <1>1, <1>2 DEF HandFine, Passes, Resolves
<1>4. PICK k \in Passes : /\ Become(x, k) /\ k.pc = "pull" /\ k.p = None
                          /\ k.todo = w[x].todo /\ k.list = w[x].list /\ k.q = w[x].q
  <2>1. Typed /\ Onward(x, "pull") /\ "pull" \in Pcs
    BY DEF PullRemove, Pcs
  <2> QED
    BY <2>1, OnwardMoves
<1>5. /\ disk' \in [Paths -> Content] /\ disk'[p] = None
      /\ \A g \in Paths \ {p} : disk'[g] = disk[g]
  BY <1>2, <1>3, Constants DEF PullRemove, Typed, DataTyped, Rows, States
<1>6. DataTyped' /\ Elsewhere(p)
  BY <1>5 DEF Typed, DataTyped, Elsewhere, PullRemove, DeletePending
<1>7. TodoFine(k)'
  BY <1>1, <1>2, <1>3, <1>4, <1>6, TodoKept DEF PullRemove, Uploads, Pulls, Resolves
<1>8. HandFine(k)'
  BY <1>3, <1>4, <1>5, Constants DEF HandFine, HandPcs, Resolves, Match, PullRemove
<1>9. PathFine(p)'
  BY <1>2, <1>3, <1>5, Constants DEF PathFine, Unsynced, DeletePending, Busy, Match, PullRemove
<1> QED
  BY <1>1, <1>4, <1>6, <1>7, <1>8, <1>9, WorkerActs DEF PullRemove

\* The synced files that were not listed are the ones to go.
LEMMA PullLocalStep ==
    ASSUME SyncInv, NEW x \in Workers, PullLocal(x)
    PROVE  SyncInv'
<1> USE DEF SyncInv
<1>1. Turn(x)
  BY InOps DEF PullLocal
<1> DEFINE gone == {p \in Paths : w[x].list[p].ver = None /\ files[p].state \in {"clean", "evicted"}}
           d == [Idle EXCEPT !.pc = "gone", !.todo = gone]
<1>2. gone \in SUBSET Paths /\ (\A f \in gone : f \in Paths /\ files[f].state \in {"clean", "evicted"})
  OBVIOUS
<1>3. Become(x, d)
  BY DEF PullLocal
<1> HIDE DEF gone
<1>4. d \in Passes /\ d.pc = "gone" /\ d.todo = gone /\ d.q = {} /\ d.p = None
  BY <1>2, IdleTyped DEF Passes, Pcs
<1> HIDE DEF d
<1>5. PICK k \in Passes : k = d
  BY <1>4
<1>6. TodoFine(k) /\ HandFine(k)
  BY <1>2, <1>4, <1>5, Constants DEF TodoFine, HandFine, HandPcs, Uploads, Pulls, Resolves
<1> QED
  BY <1>1, <1>3, <1>5, <1>6, WorkerLooks DEF PullLocal

\* DeleteFile for one of them,
LEMMA PullGoneStep ==
    ASSUME SyncInv, NEW x \in Workers, PullGone(x)
    PROVE  SyncInv'
<1> USE DEF SyncInv
<1>1. /\ Turn(x) /\ w[x] \in Passes /\ w[x].p \notin Paths /\ TodoFine(w[x])
      /\ w[x].pc = "gone" /\ w[x].q = {}
  BY InOps DEF PullGone, TodoFine
<1>2. PICK p \in w[x].todo : /\ files' = [files EXCEPT ![p] = NoRow]
                             /\ Become(x, [w[x] EXCEPT !.pc = "unlink", !.p = p, !.todo = @ \ {p}])
  BY DEF PullGone
<1>3. /\ p \in Paths /\ files[p].state \in {"clean", "evicted"} /\ PathFine(p)
      /\ \A f \in w[x].todo : f \in Paths /\ files[f].state \in {"clean", "evicted"}
  BY <1>1 DEF TodoFine, Passes
<1> DEFINE d == [w[x] EXCEPT !.pc = "unlink", !.p = p, !.todo = @ \ {p}]
<1>4. /\ d \in Passes /\ d.pc = "unlink" /\ d.q = {} /\ d.p = p /\ d.todo = w[x].todo \ {p}
  BY <1>1, <1>3 DEF Passes, Pcs
<1> HIDE DEF d
<1>5. PICK k \in Passes : k = d
  BY <1>4
<1>6. /\ files' \in [Paths -> Rows] /\ files'[p].state = "none"
      /\ \A g \in Paths \ {p} : files'[g] = files[g]
  BY <1>2, <1>3, Constants DEF Typed, DataTyped
<1>7. DataTyped' /\ Elsewhere(p)
  BY <1>6 DEF Typed, DataTyped, Elsewhere, PullGone, DeletePending
<1>8. TodoFine(k)' /\ HandFine(k)'
  BY <1>3, <1>4, <1>5, <1>6 DEF TodoFine, HandFine, HandPcs, Uploads, Pulls, Resolves
<1>9. PathFine(p)'
  BY <1>3, <1>6 DEF PathFine, Unsynced, DeletePending, PullGone
<1> QED
  BY <1>1, <1>2, <1>3, <1>5, <1>7, <1>8, <1>9, WorkerActs DEF PullGone, d

\* then os.Remove.
LEMMA PullUnlinkStep ==
    ASSUME SyncInv, NEW x \in Workers, PullUnlink(x)
    PROVE  SyncInv'
<1> USE DEF SyncInv
<1>1. Turn(x) /\ w[x] \in Passes /\ TodoFine(w[x]) /\ HandFine(w[x]) /\ w[x].pc = "unlink"
  BY InHand DEF PullUnlink, HandPcs
<1>2. PICK p \in Paths : p = w[x].p /\ PathFine(p)
  BY InHand DEF PullUnlink, HandPcs
<1>3. files[p].state = "none"
  BY <1>1, <1>2 DEF HandFine, Passes, Resolves
<1>4. PICK k \in Passes : /\ Become(x, k) /\ k.pc = "gone" /\ k.p = None
                          /\ k.todo = w[x].todo /\ k.list = w[x].list /\ k.q = w[x].q
  <2>1. Typed /\ Onward(x, "gone") /\ "gone" \in Pcs
    BY DEF Pcs, PullUnlink
  <2> QED
    BY <2>1, OnwardMoves
<1>5. /\ disk' \in [Paths -> Content] /\ disk'[p] = None
      /\ \A g \in Paths \ {p} : disk'[g] = disk[g]
  BY <1>2, <1>3, Constants DEF PullUnlink, Typed, DataTyped, Rows, States
<1>6. DataTyped' /\ Elsewhere(p)
  BY <1>5 DEF Typed, DataTyped, Elsewhere, PullUnlink, DeletePending
<1>7. TodoFine(k)'
  BY <1>1, <1>2, <1>3, <1>4, <1>6, TodoKept DEF PullUnlink, Uploads, Pulls, Resolves
<1>8. HandFine(k)'
  BY <1>3, <1>4, <1>5, Constants DEF HandFine, HandPcs, Resolves, Match, PullUnlink
<1>9. PathFine(p)'
  BY <1>2, <1>3, <1>5, Constants DEF PathFine, Unsynced, DeletePending, Busy, Match, PullUnlink
<1> QED
  BY <1>1, <1>4, <1>6, <1>7, <1>8, <1>9, WorkerActs DEF PullUnlink

\* The pull is over.
LEMMA PullEndStep ==
    ASSUME SyncInv, NEW x \in Workers, PullEnd(x)
    PROVE  SyncInv'
<1>1. Turn(x)
  BY InOps DEF PullEnd
<1>2. Idle \in Passes /\ TodoFine(Idle) /\ HandFine(Idle)
  BY IdleTyped, IdleFine, Constants
<1>3. PICK k \in Passes : k = Idle
  BY <1>2
<1> QED
  BY <1>1, <1>2, <1>3, WorkerLooks DEF PullEnd

-----------------------------------------------------------------------------
(* The resolver.                                                           *)

\* The local version wins: the row is dirty again.
LEMMA ResolveLocalWinsStep ==
    ASSUME SyncInv, NEW x \in Workers, ResolveLocalWins(x)
    PROVE  SyncInv'
<1> USE DEF SyncInv
<1>1. Turn(x) /\ w[x] \in Passes /\ TodoFine(w[x]) /\ HandFine(w[x]) /\ w[x].pc = "resolve"
  BY InHand DEF ResolveLocalWins, HandPcs
<1>2. PICK p \in Paths : p = w[x].p /\ PathFine(p)
  BY InHand DEF ResolveLocalWins, HandPcs
<1>3. /\ files[p].state \in {"dirty", "syncing"} /\ w[x].back \in {"upload", "pull"} /\ w[x].e \in Rows
      /\ w[x].st \in Times /\ w[x].st <= remote[p].mtime
  BY <1>1, <1>2 DEF HandFine, Passes, Resolves
<1>4. PICK k \in Passes : /\ Become(x, k) /\ k.pc = w[x].back /\ k.p = None
                          /\ k.todo = w[x].todo /\ k.list = w[x].list /\ k.q = w[x].q
  <2>1. Typed /\ Onward(x, w[x].back) /\ w[x].back \in Pcs
    BY <1>3 DEF Pcs, ResolveLocalWins
  <2> QED
    BY <2>1, OnwardMoves
<1>5. /\ files' \in [Paths -> Rows] /\ files'[p].state = "dirty"
      /\ \A g \in Paths \ {p} : files'[g] = files[g]
  BY <1>2, <1>3, Constants DEF ResolveLocalWins, Typed, DataTyped, Rows, States
<1>6. DataTyped' /\ Elsewhere(p)
  BY <1>5 DEF Typed, DataTyped, Elsewhere, ResolveLocalWins, DeletePending
<1>7. TodoFine(k)'
  BY <1>1, <1>2, <1>3, <1>4, <1>6, TodoKept DEF ResolveLocalWins, Uploads, Pulls, Resolves
<1>8. HandFine(k)'
  BY <1>3, <1>4, <1>5, Constants DEF HandFine, HandPcs, Resolves, Match, ResolveLocalWins
<1>9. PathFine(p)'
  BY <1>2, <1>3, <1>5, Constants DEF PathFine, Unsynced, DeletePending, Busy, Match, ResolveLocalWins
<1> QED
  BY <1>1, <1>4, <1>6, <1>7, <1>8, <1>9, WorkerActs DEF ResolveLocalWins

\* The remote version wins: the local change is given up.
LEMMA ResolveRemoteWinsStep ==
    ASSUME SyncInv, NEW x \in Workers, ResolveRemoteWins(x)
    PROVE  SyncInv'
<1> USE DEF SyncInv
<1>1. Turn(x) /\ w[x] \in Passes /\ TodoFine(w[x]) /\ HandFine(w[x]) /\ w[x].pc = "resolve"
  BY InHand DEF ResolveRemoteWins, HandPcs
<1>2. PICK p \in Paths : p = w[x].p /\ PathFine(p)
  BY InHand DEF ResolveRemoteWins, HandPcs
<1>3. /\ files[p].state \in {"dirty", "syncing"} /\ w[x].back \in {"upload", "pull"} /\ w[x].e \in Rows
      /\ w[x].st \in Times /\ w[x].st <= remote[p].mtime
  BY <1>1, <1>2 DEF HandFine, Passes, Resolves
<1>4. PICK k \in Passes : /\ Become(x, k) /\ k.pc = "fetch" /\ k.p = p /\ k.st = w[x].st /\ k.back = w[x].back
                          /\ k.todo = w[x].todo /\ k.list = w[x].list /\ k.q = w[x].q
  <2>1. Typed /\ Go(x, "fetch") /\ "fetch" \in Pcs
    BY DEF Pcs, ResolveRemoteWins
  <2>2. PICK k \in Passes :
          /\ Become(x, k) /\ k.pc = "fetch" /\ k.todo = w[x].todo /\ k.list = w[x].list /\ k.q = w[x].q
          /\ k.p = w[x].p /\ k.e = w[x].e /\ k.st = w[x].st /\ k.fd = w[x].fd /\ k.back = w[x].back
    BY <2>1, GoMoves
  <2> QED
    BY <1>2, <2>2
<1>5. /\ disk' \in [Paths -> Content] /\ disk'[p] = Hole
      /\ \A g \in Paths \ {p} : disk'[g] = disk[g]
      /\ last' \in [Paths -> Content] /\ last'[p] = None
      /\ \A g \in Paths \ {p} : last'[g] = last[g]
  BY <1>2, <1>3, Constants DEF ResolveRemoteWins, Typed, DataTyped, Rows, States
<1>6. DataTyped' /\ Elsewhere(p)
  BY <1>5 DEF Typed, DataTyped, Elsewhere, ResolveRemoteWins, DeletePending
<1>7. TodoFine(k)'
  BY <1>1, <1>2, <1>3, <1>4, <1>6, TodoKept DEF ResolveRemoteWins, Uploads, Pulls, Resolves
<1>8. HandFine(k)'
  BY <1>3, <1>4, <1>5, Constants DEF HandFine, HandPcs, Resolves, Match, ResolveRemoteWins
<1>9. PathFine(p)'
  BY <1>2, <1>3, <1>5, Constants DEF PathFine, Unsynced, DeletePending, Busy, Match, ResolveRemoteWins
<1> QED
  BY <1>1, <1>4, <1>6, <1>7, <1>8, <1>9, WorkerActs DEF ResolveRemoteWins

\* Both are kept, or the user decides: the conflict is recorded.
LEMMA ResolveConflictStep ==
    ASSUME SyncInv, NEW x \in Workers, ResolveConflict(x)
    PROVE  SyncInv'
<1> USE DEF SyncInv
<1>1. Turn(x) /\ w[x] \in Passes /\ TodoFine(w[x]) /\ HandFine(w[x]) /\ w[x].pc = "resolve"
  BY InHand DEF ResolveConflict, HandPcs
<1>2. PICK p \in Paths : p = w[x].p /\ PathFine(p)
  BY InHand DEF ResolveConflict, HandPcs
<1>3. /\ files[p].state \in {"dirty", "syncing"} /\ w[x].back \in {"upload", "pull"} /\ w[x].e \in Rows
      /\ w[x].st \in Times /\ w[x].st <= remote[p].mtime
  BY <1>1, <1>2 DEF HandFine, Passes, Resolves
<1>4. PICK k \in Passes : /\ Become(x, k) /\ k.pc \in {"fetch", "settle"} /\ k.p = p /\ k.st = w[x].st /\ k.back = w[x].back
                          /\ k.todo = w[x].todo /\ k.list = w[x].list /\ k.q = w[x].q
  <2>1. PICK pc \in {"fetch", "settle"} : Go(x, pc)
    BY DEF ResolveConflict
  <2>2. Typed /\ pc \in Pcs
    BY DEF Pcs
  <2> QED
    BY <1>2, <2>1, <2>2, GoMoves
<1>5. /\ conf' \in [Paths -> Times] /\ conf'[p] = w[x].st
      /\ \A g \in Paths \ {p} : conf'[g] = conf[g]
  BY <1>2, <1>3, Constants DEF ResolveConflict, Typed, DataTyped, Rows, States
<1>6. DataTyped' /\ Elsewhere(p)
  BY <1>5 DEF Typed, DataTyped, Elsewhere, ResolveConflict, DeletePending
<1>7. TodoFine(k)'
  BY <1>1, <1>2, <1>3, <1>4, <1>6, TodoKept DEF ResolveConflict, Uploads, Pulls, Resolves
<1>8. HandFine(k)'
  BY <1>3, <1>4, <1>5, Constants DEF HandFine, HandPcs, Resolves, Match, ResolveConflict
<1>9. PathFine(p)'
  BY <1>2, <1>3, <1>5, Constants DEF PathFine, Unsynced, DeletePending, Busy, Match, ResolveConflict
<1> QED
  BY <1>1, <1>4, <1>6, <1>7, <1>8, <1>9, WorkerActs DEF ResolveConflict

\* The remote version is fetched, into the sidecar or into the cache file.
LEMMA ResolveFetchStep ==
    ASSUME SyncInv, NEW x \in Workers, ResolveFetch(x)
    PROVE  SyncInv'
<1> USE DEF SyncInv
<1>1. Turn(x) /\ w[x] \in Passes /\ TodoFine(w[x]) /\ HandFine(w[x]) /\ w[x].pc = "fetch"
  BY InHand DEF ResolveFetch, HandPcs
<1>2. PICK p \in Paths : p = w[x].p /\ PathFine(p)
  BY InHand DEF ResolveFetch, HandPcs
<1>3. /\ files[p].state \in {"dirty", "syncing"} /\ w[x].back \in {"upload", "pull"} /\ w[x].e \in Rows
      /\ w[x].st \in Times /\ w[x].st <= remote[p].mtime
      /\ IF strategy = "remote-wins" THEN last[p] = None ELSE conf[p] = w[x].st
  BY <1>1, <1>2 DEF HandFine, Passes, Resolves
<1>4. /\ UNCHANGED <<strategy, files, conf, ops, remote, user, ev, now, next, last>>
      /\ \/ /\ Go(x, "settle")
            /\ IF strategy = "remote-wins"
               THEN Present(p) /\ disk' = [disk EXCEPT ![p] = remote[p].ver] ELSE disk' = disk
         \/ /\ strategy = "remote-wins" /\ Onward(x, w[x].back)
            /\ disk' = [disk EXCEPT ![p] = None]
  BY <1>2 DEF ResolveFetch
<1>5. CASE /\ Go(x, "settle")
           /\ IF strategy = "remote-wins"
              THEN Present(p) /\ disk' = [disk EXCEPT ![p] = remote[p].ver] ELSE disk' = disk
  <2>1. PICK k \in Passes : /\ Become(x, k) /\ k.pc = "settle" /\ k.p = p /\ k.st = w[x].st /\ k.back = w[x].back
                            /\ k.todo = w[x].todo /\ k.list = w[x].list /\ k.q = w[x].q
    <3>1. Typed /\ Go(x, "settle") /\ "settle" \in Pcs
      BY <1>5 DEF Pcs
    <3> QED
      BY <1>2, <3>1, GoMoves
  <2>2. /\ disk' \in [Paths -> Content] /\ \A g \in Paths \ {p} : disk'[g] = disk[g]
        /\ IF strategy = "remote-wins" THEN disk'[p] = remote[p].ver /\ remote[p].ver # None
           ELSE disk' = disk
    BY <1>4, <1>5, Constants DEF Typed, DataTyped, Copies, Present
  <2>4. DataTyped' /\ Elsewhere(p)
    BY <1>4, <2>2 DEF Typed, DataTyped, Elsewhere, DeletePending
  <2>5. TodoFine(k)'
    BY <1>1, <1>2, <1>3, <1>4, <2>1, <2>4, TodoKept DEF Uploads, Pulls, Resolves
  <2>6. HandFine(k)'
    BY <1>3, <1>4, <2>1, <2>2 DEF HandFine, HandPcs, Resolves, Match
  <2>7. PathFine(p)'
    BY <1>2, <1>3, <1>4, <2>2 DEF PathFine, Unsynced, DeletePending, Busy, Match
  <2> QED
    BY <1>1, <1>4, <2>1, <2>4, <2>5, <2>6, <2>7, WorkerActs
<1>6. CASE /\ strategy = "remote-wins" /\ Onward(x, w[x].back)
           /\ disk' = [disk EXCEPT ![p] = None]
  <2>1. PICK k \in Passes : /\ Become(x, k) /\ k.pc = w[x].back /\ k.p = None
                            /\ k.todo = w[x].todo /\ k.list = w[x].list /\ k.q = w[x].q
    <3>1. Typed /\ Onward(x, w[x].back) /\ w[x].back \in Pcs
      BY <1>3, <1>6 DEF Pcs
    <3> QED
      BY <3>1, OnwardMoves
  <2>2. /\ disk' \in [Paths -> Content] /\ \A g \in Paths \ {p} : disk'[g] = disk[g]
        /\ strategy = "remote-wins"
    BY <1>4, <1>6, Constants DEF Typed, DataTyped
  <2>3. DataTyped' /\ Elsewhere(p)
    BY <1>4, <2>2 DEF Typed, DataTyped, Elsewhere, DeletePending
  <2>4. TodoFine(k)'
    BY <1>1, <1>2, <1>3, <1>4, <2>1, <2>3, TodoKept DEF Uploads, Pulls, Resolves
  <2>5. HandFine(k)'
    BY <1>3, <2>1, Constants DEF HandFine, HandPcs, Resolves
  <2>6. PathFine(p)'
    BY <1>2, <1>3, <1>4, <2>2 DEF PathFine, Unsynced, DeletePending, Busy, Match
  <2> QED
    BY <1>1, <1>4, <2>1, <2>3, <2>4, <2>5, <2>6, WorkerActs
<1> QED
  BY <1>4, <1>5, <1>6

\* The row after the resolution.
LEMMA ResolveSettleStep ==
    ASSUME SyncInv, NEW x \in Workers, ResolveSettle(x)
    PROVE  SyncInv'
<1> USE DEF SyncInv
<1>1. Turn(x) /\ w[x] \in Passes /\ TodoFine(w[x]) /\ HandFine(w[x]) /\ w[x].pc = "settle"
  BY InHand DEF ResolveSettle, HandPcs
<1>2. PICK p \in Paths : p = w[x].p /\ PathFine(p)
  BY InHand DEF ResolveSettle, HandPcs
<1>3. /\ files[p].state \in {"dirty", "syncing"} /\ w[x].back \in {"upload", "pull"} /\ w[x].e \in Rows
      /\ w[x].st \in Times /\ w[x].st <= remote[p].mtime
      /\ IF strategy = "remote-wins" THEN last[p] = None ELSE conf[p] = w[x].st
      /\ strategy = "remote-wins" => Match(disk[p], w[x].st, p)
  BY <1>1, <1>2 DEF HandFine, Passes, Resolves
<1>4. PICK k \in Passes : /\ Become(x, k) /\ k.pc = w[x].back /\ k.p = None
                          /\ k.todo = w[x].todo /\ k.list = w[x].list /\ k.q = w[x].q
  <2>1. Typed /\ Onward(x, w[x].back) /\ w[x].back \in Pcs
    BY <1>3 DEF Pcs, ResolveSettle
  <2> QED
    BY <2>1, OnwardMoves
<1>5. /\ files' \in [Paths -> Rows] /\ \A g \in Paths \ {p} : files'[g] = files[g]
      /\ IF strategy = "remote-wins" THEN files'[p].state = "clean" /\ files'[p].rm = w[x].st
         ELSE files'[p].state = "conflict"
  <2>1. CASE strategy = "remote-wins"
    BY <1>2, <1>3, <2>1 DEF ResolveSettle, Typed, DataTyped, Rows, States
  <2>2. CASE strategy # "remote-wins"
    BY <1>2, <1>3, <2>2 DEF ResolveSettle, Typed, DataTyped, Rows, States
  <2> QED
    BY <2>1, <2>2
<1>6. DataTyped' /\ Elsewhere(p)
  BY <1>5 DEF Typed, DataTyped, Elsewhere, ResolveSettle, DeletePending
<1>7. TodoFine(k)'
  BY <1>1, <1>2, <1>3, <1>4, <1>6, TodoKept DEF ResolveSettle, Uploads, Pulls, Resolves
<1>8. HandFine(k)'
  BY <1>3, <1>4, Constants DEF HandFine, HandPcs, Resolves
<1>9. PathFine(p)'
  BY <1>2, <1>3, <1>5 DEF PathFine, Unsynced, DeletePending, Busy, Match, ResolveSettle
<1> QED
  BY <1>1, <1>4, <1>6, <1>7, <1>8, <1>9, WorkerActs DEF ResolveSettle

-----------------------------------------------------------------------------
(* File operations and rvfs resolve.                                       *)

\* A step of a file operation on p, from what it does to the data of p.
LEMMA UserMoves ==
    ASSUME SyncInv, \A x \in Workers : w[x].pc = "idle", ev.pc = "idle",
           NEW p \in Paths, user.p \in {p, None}, user' \in Users, user'.p \in {p, None},
           w' = w, ev' = ev, DataTyped', Elsewhere(p), UserFine', PathFine(p)'
    PROVE  SyncInv'
<1> USE DEF SyncInv
<1>1. \A g \in Paths \ {p} : PathFine(g)'
  BY ElsewhereFine
<1>2. \A g \in Paths : PathFine(g)'
  BY <1>1
<1>3. Typed' /\ Alone'
  BY DEF Typed, Alone
<1>4. \A x \in Workers : w[x].pc = "idle" /\ w[x].q = {} /\ w[x].p \notin Paths
  BY DEF WorkersFine, TodoFine, HandFine, HandPcs
<1>5. WorkersFine'
  BY <1>4 DEF WorkersFine, TodoFine, HandFine, HandPcs, Uploads, Pulls, Resolves
<1> QED
  BY <1>2, <1>3, <1>5

\* A file operation begins when nothing else is under way.
LEMMA UserBegins ==
    ASSUME SyncInv, Admits = {}, UserMayStart
    PROVE  /\ \A x \in Workers : w[x].pc = "idle"
           /\ ev.pc = "idle" /\ user.pc = "idle" /\ user.p = None
BY DEF SyncInv, UserMayStart, Resting, UserFine

\* A file operation under way is alone.
LEMMA UserGoesOn ==
    ASSUME SyncInv, user.pc # "idle"
    PROVE  /\ \A x \in Workers : w[x].pc = "idle"
           /\ ev.pc = "idle"
           /\ \E p \in Paths : p = user.p /\ PathFine(p)
           /\ user \in Users /\ UserFine
BY DEF SyncInv, Alone, UserFine, Typed, Users

\* Create writes the new file first, and commits the row
LEMMA UserCreateStep ==
    ASSUME SyncInv, Admits = {}, NEW p \in Paths, UserCreate(p)
    PROVE  SyncInv'
<1> USE DEF SyncInv
<1>1. /\ \A x \in Workers : w[x].pc = "idle"
      /\ ev.pc = "idle" /\ user.pc = "idle" /\ user.p = None
  BY UserBegins DEF UserCreate
<1>2. /\ next' \in 0..MaxVer /\ next + 1 \in Versions /\ next + 1 \in Content /\ next + 1 # None
  BY DEF UserCreate, Typed, DataTyped, Versions, Content, None
<1>3. /\ disk' \in [Paths -> Content] /\ disk'[p] = next + 1
      /\ last' \in [Paths -> Content] /\ last'[p] = None
      /\ \A g \in Paths \ {p} : disk'[g] = disk[g] /\ last'[g] = last[g]
  BY <1>2, Constants DEF UserCreate, Typed, DataTyped
<1>4. user' \in Users /\ user'.pc = "commit" /\ user'.p = p /\ user'.ver = next + 1 /\ user'.row.state = "dirty"
  BY <1>2, Constants DEF UserCreate, Saved, Users, Typed, DataTyped, Rows, States, NoRow
<1>5. DataTyped' /\ Elsewhere(p)
  BY <1>2, <1>3, <1>4 DEF Typed, DataTyped, Elsewhere, UserCreate, DeletePending
<1>6. UserFine'
  BY <1>1, <1>2, <1>3, <1>4, Constants DEF UserFine, Match, Writable, DeletePending, Resolvable, UserCreate
<1>7. PathFine(p)'
  BY <1>1, <1>2, <1>3, <1>4, Constants DEF PathFine, Unsynced, DeletePending, Busy, Match, Resolvable, UserCreate
<1> QED
  BY <1>1, <1>2, <1>3, <1>4, <1>5, <1>6, <1>7, UserMoves DEF UserCreate

\* Write does the same to a file that is there.
LEMMA UserWriteStep ==
    ASSUME SyncInv, Admits = {}, NEW p \in Paths, UserWrite(p)
    PROVE  SyncInv'
<1> USE DEF SyncInv
<1>1. /\ \A x \in Workers : w[x].pc = "idle"
      /\ ev.pc = "idle" /\ user.pc = "idle" /\ user.p = None
  BY UserBegins DEF UserWrite
<1>2. /\ next' \in 0..MaxVer /\ next + 1 \in Versions /\ next + 1 \in Content /\ next + 1 # None
  BY DEF UserWrite, Typed, DataTyped, Versions, Content, None
<1>3. /\ disk' \in [Paths -> Content] /\ disk'[p] = next + 1
      /\ last' \in [Paths -> Content] /\ last'[p] = None
      /\ \A g \in Paths \ {p} : disk'[g] = disk[g] /\ last'[g] = last[g]
  BY <1>2, Constants DEF UserWrite, Typed, DataTyped
<1>4. user' \in Users /\ user'.pc = "commit" /\ user'.p = p /\ user'.ver = next + 1 /\ user'.row.state = "dirty"
  BY <1>2, Constants DEF UserWrite, Saved, Users, Typed, DataTyped, Rows, States, NoRow
<1>5. DataTyped' /\ Elsewhere(p)
  BY <1>2, <1>3, <1>4 DEF Typed, DataTyped, Elsewhere, UserWrite, DeletePending
<1>6. UserFine'
  BY <1>1, <1>2, <1>3, <1>4, Constants DEF UserFine, Match, Writable, DeletePending, Resolvable, UserWrite
<1>7. PathFine(p)'
  BY <1>1, <1>2, <1>3, <1>4, Constants DEF PathFine, Unsynced, DeletePending, Busy, Match, Resolvable, UserWrite
<1> QED
  BY <1>1, <1>2, <1>3, <1>4, <1>5, <1>6, <1>7, UserMoves DEF UserWrite

\* Chmod will write the row back as it is.
LEMMA UserChmodStep ==
    ASSUME SyncInv, Admits = {}, NEW p \in Paths, UserChmod(p)
    PROVE  SyncInv'
<1> USE DEF SyncInv
<1>1. /\ \A x \in Workers : w[x].pc = "idle"
      /\ ev.pc = "idle" /\ user.pc = "idle" /\ user.p = None
  BY UserBegins DEF UserChmod
<1>2. user' \in Users /\ user'.pc = "commit" /\ user'.p = p /\ user'.ver = None /\ user'.row = files[p]
  BY Constants DEF UserChmod, Saved, Users, Typed, DataTyped
<1>3. DataTyped' /\ Elsewhere(p)
  BY <1>2 DEF Typed, DataTyped, Elsewhere, UserChmod, DeletePending
<1>4. UserFine'
  BY <1>1, <1>2, Constants DEF UserFine, Match, Writable, DeletePending, Resolvable, UserChmod
<1>5. PathFine(p)'
  BY <1>1, <1>2, Constants DEF PathFine, Unsynced, DeletePending, Busy, Match, Resolvable, UserChmod
<1> QED
  BY <1>1, <1>2, <1>3, <1>4, <1>5, UserMoves DEF UserChmod

\* Unlink removes the cache file first,
LEMMA UserUnlinkStep ==
    ASSUME SyncInv, Admits = {}, NEW p \in Paths, UserUnlink(p)
    PROVE  SyncInv'
<1> USE DEF SyncInv
<1>1. /\ \A x \in Workers : w[x].pc = "idle"
      /\ ev.pc = "idle" /\ user.pc = "idle" /\ user.p = None
  BY UserBegins DEF UserUnlink
<1>2. /\ next' \in 0..MaxVer /\ next + 1 \in Versions /\ next + 1 \in Content /\ next + 1 # None
  BY DEF UserUnlink, Typed, DataTyped, Versions, Content, None
<1>3. /\ disk' \in [Paths -> Content] /\ disk'[p] = None
      /\ last' \in [Paths -> Content] /\ last'[p] = None
      /\ \A g \in Paths \ {p} : disk'[g] = disk[g] /\ last'[g] = last[g]
  BY <1>2, Constants DEF UserUnlink, Typed, DataTyped
<1>4. user' \in Users /\ user'.pc = "unlink" /\ user'.p = p /\ user'.ver = next + 1
  BY <1>2, Constants DEF UserUnlink, Saved, Users, Typed, DataTyped, Rows, States, NoRow
<1>5. w' = w
  <2>1. w \in [Workers -> Passes]
    BY DEF Typed
  <2>2. w' = [x \in Workers |-> w[x]]
    BY <1>1 DEF UserUnlink
  <2> QED
    BY <2>1, <2>2
<1>6. DataTyped' /\ Elsewhere(p)
  BY <1>2, <1>3, <1>4, <1>5 DEF Typed, DataTyped, Elsewhere, UserUnlink, DeletePending
<1>7. UserFine'
  BY <1>1, <1>2, <1>3, <1>4, <1>5, Constants DEF UserFine, Match, Writable, DeletePending, Resolvable, UserUnlink
<1>8. PathFine(p)'
  BY <1>1, <1>2, <1>3, <1>4, <1>5, Constants DEF PathFine, Unsynced, DeletePending, Busy, Match, Resolvable, UserUnlink
<1> QED
  BY <1>1, <1>2, <1>3, <1>4, <1>5, <1>6, <1>7, <1>8, UserMoves DEF UserUnlink

\* A read of an evicted file fetches what the remote has.
LEMMA UserDownloadStep ==
    ASSUME SyncInv, Admits = {}, NEW p \in Paths, UserDownload(p)
    PROVE  SyncInv'
<1> USE DEF SyncInv
<1>1. /\ \A x \in Workers : w[x].pc = "idle"
      /\ ev.pc = "idle" /\ user.pc = "idle" /\ user.p = None
  BY UserBegins DEF UserDownload
<1>2. /\ files[p].state = "evicted" /\ files[p].ranges = FALSE /\ remote[p].ver # None
  BY DEF UserDownload, Present, Typed, DataTyped, Rows
<1>3. /\ disk' \in [Paths -> Content] /\ disk'[p] = remote[p].ver
      /\ \A g \in Paths \ {p} : disk'[g] = disk[g]
  BY <1>2 DEF UserDownload, Typed, DataTyped, Copies
<1>4. /\ files' \in [Paths -> Rows] /\ files'[p].state = "clean" /\ files'[p].rm = files[p].rm
      /\ \A g \in Paths \ {p} : files'[g] = files[g]
  BY DEF UserDownload, Typed, DataTyped, Rows, States
<1>5. DataTyped' /\ Elsewhere(p)
  BY <1>2, <1>3, <1>4 DEF Typed, DataTyped, Elsewhere, UserDownload, DeletePending
<1>6. UserFine'
  BY <1>1, <1>2, <1>3, <1>4, Constants DEF UserFine, Match, Writable, DeletePending, Resolvable, UserDownload
<1>7. PathFine(p)'
  BY <1>1, <1>2, <1>3, <1>4, Constants DEF PathFine, Unsynced, DeletePending, Busy, Match, Resolvable, UserDownload
<1> QED
  BY <1>1, <1>2, <1>3, <1>4, <1>5, <1>6, <1>7, UserMoves DEF Typed, UserDownload

\* --keep local: the row is dirty again.
LEMMA KeepLocalStep ==
    ASSUME SyncInv, Admits = {}, NEW p \in Paths, KeepLocal(p)
    PROVE  SyncInv'
<1> USE DEF SyncInv
<1>1. /\ \A x \in Workers : w[x].pc = "idle"
      /\ ev.pc = "idle" /\ user.pc = "idle" /\ user.p = None
  BY UserBegins DEF KeepLocal
<1>2. files[p].state = "conflict"
  BY DEF KeepLocal, Resolvable
<1>3. /\ files' \in [Paths -> Rows] /\ files'[p].state = "dirty"
      /\ \A g \in Paths \ {p} : files'[g] = files[g]
  BY DEF KeepLocal, Typed, DataTyped, Rows, States
<1>4. /\ conf' \in [Paths -> Times]
      /\ \A g \in Paths \ {p} : conf'[g] = conf[g]
  BY Constants DEF KeepLocal, Typed, DataTyped
<1>5. DataTyped' /\ Elsewhere(p)
  BY <1>2, <1>3, <1>4 DEF Typed, DataTyped, Elsewhere, KeepLocal, DeletePending
<1>6. UserFine'
  BY <1>1, <1>2, <1>3, <1>4, Constants DEF UserFine, Match, Writable, DeletePending, Resolvable, KeepLocal
<1>7. PathFine(p)'
  BY <1>1, <1>2, <1>3, <1>4, Constants DEF PathFine, Unsynced, DeletePending, Busy, Match, Resolvable, KeepLocal
<1> QED
  BY <1>1, <1>2, <1>3, <1>4, <1>5, <1>6, <1>7, UserMoves DEF Typed, KeepLocal

\* --keep both: the local file is queued like that too.
LEMMA KeepBothStep ==
    ASSUME SyncInv, Admits = {}, NEW p \in Paths, KeepBoth(p)
    PROVE  SyncInv'
<1> USE DEF SyncInv
<1>1. /\ \A x \in Workers : w[x].pc = "idle"
      /\ ev.pc = "idle" /\ user.pc = "idle" /\ user.p = None
  BY UserBegins DEF KeepBoth
<1>2. files[p].state = "conflict"
  BY DEF KeepBoth, Resolvable
<1>3. /\ files' \in [Paths -> Rows] /\ files'[p].state = "dirty"
      /\ \A g \in Paths \ {p} : files'[g] = files[g]
  BY DEF KeepBoth, Typed, DataTyped, Rows, States
<1>4. /\ conf' \in [Paths -> Times]
      /\ \A g \in Paths \ {p} : conf'[g] = conf[g]
  BY Constants DEF KeepBoth, Typed, DataTyped
<1>5. DataTyped' /\ Elsewhere(p)
  BY <1>2, <1>3, <1>4 DEF Typed, DataTyped, Elsewhere, KeepBoth, DeletePending
<1>6. UserFine'
  BY <1>1, <1>2, <1>3, <1>4, Constants DEF UserFine, Match, Writable, DeletePending, Resolvable, KeepBoth
<1>7. PathFine(p)'
  BY <1>1, <1>2, <1>3, <1>4, Constants DEF PathFine, Unsynced, DeletePending, Busy, Match, Resolvable, KeepBoth
<1> QED
  BY <1>1, <1>2, <1>3, <1>4, <1>5, <1>6, <1>7, UserMoves DEF Typed, KeepBoth

\* --keep remote: the local version is given up,
LEMMA KeepRemoteStep ==
    ASSUME SyncInv, Admits = {}, NEW p \in Paths, KeepRemote(p)
    PROVE  SyncInv'
<1> USE DEF SyncInv
<1>1. /\ \A x \in Workers : w[x].pc = "idle"
      /\ ev.pc = "idle" /\ user.pc = "idle" /\ user.p = None
  BY UserBegins DEF KeepRemote
<1>2. /\ disk' \in [Paths -> Content] /\ disk'[p] = Hole
      /\ last' \in [Paths -> Content] /\ last'[p] = None
      /\ \A g \in Paths \ {p} : disk'[g] = disk[g] /\ last'[g] = last[g]
  BY Constants DEF KeepRemote, Typed, DataTyped
<1>3. user' \in Users /\ user'.pc = "keepfetch" /\ user'.p = p
  BY Constants DEF KeepRemote, Users, Typed, DataTyped
<1>4. files[p].state = "conflict"
  BY DEF KeepRemote, Resolvable
<1>5. DataTyped' /\ Elsewhere(p)
  BY <1>2, <1>3, <1>4 DEF Typed, DataTyped, Elsewhere, KeepRemote, DeletePending
<1>6. UserFine'
  BY <1>1, <1>2, <1>3, <1>4, Constants DEF UserFine, Match, Writable, DeletePending, Resolvable, KeepRemote
<1>7. PathFine(p)'
  BY <1>1, <1>2, <1>3, <1>4, Constants DEF PathFine, Unsynced, DeletePending, Busy, Match, Resolvable, KeepRemote
<1> QED
  BY <1>1, <1>2, <1>3, <1>4, <1>5, <1>6, <1>7, UserMoves DEF KeepRemote

\* The row is committed: what was written is saved, under a dirty row.
LEMMA UserCommitStep ==
    ASSUME SyncInv, UserCommit
    PROVE  SyncInv'
<1> USE DEF SyncInv
<1>1. /\ \A x \in Workers : w[x].pc = "idle"
      /\ ev.pc = "idle" /\ user.pc = "commit" /\ user \in Users /\ UserFine
  BY UserGoesOn DEF UserCommit
<1>2. PICK p \in Paths : p = user.p /\ PathFine(p)
  BY UserGoesOn DEF UserCommit
<1>3. /\ user'.pc = "idle" /\ user'.p = None /\ user' \in Users
  BY NoUserTyped DEF UserCommit
<1>4. CASE user.ver = None
  <2>1. files' = files /\ last' = last
    BY <1>1, <1>2, <1>4 DEF UserCommit, UserFine, Typed, DataTyped
  <2>2. DataTyped' /\ Elsewhere(p)
    BY <2>1 DEF Typed, DataTyped, Elsewhere, UserCommit, DeletePending
  <2>3. UserFine'
    BY <1>3 DEF UserFine
  <2>4. PathFine(p)'
    BY <1>1, <1>2, <1>3, <1>4, <2>1, Constants DEF PathFine, Unsynced, DeletePending, Busy, Match, UserCommit
  <2> QED
    BY <1>1, <1>2, <1>3, <2>2, <2>3, <2>4, UserMoves DEF UserCommit
<1>5. CASE user.ver # None
  <2>1. disk[p] = user.ver /\ user.row.state = "dirty" /\ ~DeletePending(p) /\ user.row \in Rows /\ user.ver \in Content
    BY <1>1, <1>2, <1>5 DEF UserFine, Users
  <2>2. /\ files' \in [Paths -> Rows] /\ files'[p].state = "dirty"
        /\ last' \in [Paths -> Content] /\ last'[p] = user.ver
        /\ \A g \in Paths \ {p} : files'[g] = files[g] /\ last'[g] = last[g]
    BY <1>2, <1>5, <2>1 DEF UserCommit, Typed, DataTyped
  <2>3. DataTyped' /\ Elsewhere(p)
    BY <2>2 DEF Typed, DataTyped, Elsewhere, UserCommit, DeletePending
  <2>4. UserFine'
    BY <1>3 DEF UserFine
  <2>5. PathFine(p)'
    BY <1>1, <1>2, <1>3, <2>1, <2>2, Constants DEF PathFine, Unsynced, DeletePending, UserCommit
  <2> QED
    BY <1>1, <1>2, <1>3, <2>3, <2>4, <2>5, UserMoves DEF UserCommit
<1> QED
  BY <1>4, <1>5

\* then the row goes and the deletion is queued.
LEMMA UserUnlinkCommitStep ==
    ASSUME SyncInv, UserUnlinkCommit
    PROVE  SyncInv'
<1> USE DEF SyncInv
<1>1. /\ \A x \in Workers : w[x].pc = "idle"
      /\ ev.pc = "idle" /\ user.pc = "unlink" /\ user \in Users /\ UserFine
  BY UserGoesOn DEF UserUnlinkCommit
<1>2. PICK p \in Paths : p = user.p /\ PathFine(p)
  BY UserGoesOn DEF UserUnlinkCommit
<1>3. /\ user'.pc = "idle" /\ user'.p = None /\ user' \in Users
  BY NoUserTyped DEF UserUnlinkCommit
<1>4. last[p] = None /\ user.ver \in Versions
  BY <1>1, <1>2 DEF UserFine
<1>5. /\ files' \in [Paths -> Rows] /\ files'[p].state = "none"
      /\ \A g \in Paths \ {p} : files'[g] = files[g]
  BY <1>2, Constants DEF UserUnlinkCommit, Typed, DataTyped
<1>6. ops' \in SUBSET (Versions \X Paths) /\ \A g \in Paths \ {p} : DeletePending(g)' => DeletePending(g)
  BY <1>2, <1>4 DEF UserUnlinkCommit, Typed, DataTyped, DeletePending
<1>7. DataTyped' /\ Elsewhere(p)
  BY <1>5, <1>6 DEF Typed, DataTyped, Elsewhere, UserUnlinkCommit
<1>8. UserFine'
  BY <1>3 DEF UserFine
<1>9. PathFine(p)'
  BY <1>1, <1>4, <1>5, Constants DEF PathFine, Unsynced, UserUnlinkCommit
<1> QED
  BY <1>1, <1>2, <1>3, <1>7, <1>8, <1>9, UserMoves DEF UserUnlinkCommit

\* the remote version is fetched into the cache file,
LEMMA KeepRemoteFetchStep ==
    ASSUME SyncInv, KeepRemoteFetch
    PROVE  SyncInv'
<1> USE DEF SyncInv
<1>1. /\ \A x \in Workers : w[x].pc = "idle"
      /\ ev.pc = "idle" /\ user.pc = "keepfetch" /\ user \in Users /\ UserFine
  BY UserGoesOn DEF KeepRemoteFetch
<1>2. PICK p \in Paths : p = user.p /\ PathFine(p)
  BY UserGoesOn DEF KeepRemoteFetch
<1>3. last[p] = None /\ files[p].state = "conflict" /\ conf[p] <= remote[p].mtime
  BY <1>1, <1>2 DEF UserFine, PathFine
<1>4. CASE remote[p].ver # None /\ disk' = [disk EXCEPT ![p] = remote[p].ver] /\ user' = [user EXCEPT !.pc = "keepput"]
  <2>1. user'.pc = "keepput" /\ user'.p = p /\ user' \in Users
    BY <1>1, <1>2, <1>4 DEF Users
  <2>2. /\ disk' \in [Paths -> Content] /\ disk'[p] = remote[p].ver
        /\ \A g \in Paths \ {p} : disk'[g] = disk[g]
    BY <1>4 DEF Typed, DataTyped, Copies
  <2>3. DataTyped' /\ Elsewhere(p)
    BY <2>2 DEF Typed, DataTyped, Elsewhere, KeepRemoteFetch, DeletePending
  <2>4. UserFine'
    BY <1>3, <1>4, <2>1, <2>2, Constants DEF UserFine, Match, KeepRemoteFetch
  <2>5. PathFine(p)'
    BY <1>1, <1>2, <1>3, <2>1, <2>2, Constants DEF PathFine, Unsynced, DeletePending, KeepRemoteFetch
  <2> QED
    BY <1>1, <1>2, <2>1, <2>3, <2>4, <2>5, UserMoves DEF KeepRemoteFetch
<1>5. CASE disk' = [disk EXCEPT ![p] = None] /\ user' = NoUser
  <2>1. /\ user'.pc = "idle" /\ user'.p = None /\ user' \in Users
    BY <1>5, NoUserTyped
  <2>2. /\ disk' \in [Paths -> Content]
        /\ \A g \in Paths \ {p} : disk'[g] = disk[g]
    BY <1>5, Constants DEF Typed, DataTyped
  <2>3. DataTyped' /\ Elsewhere(p)
    BY <2>2 DEF Typed, DataTyped, Elsewhere, KeepRemoteFetch, DeletePending
  <2>4. UserFine'
    BY <2>1 DEF UserFine
  <2>5. PathFine(p)'
    BY <1>1, <1>2, <1>3, <2>1, <2>2, Constants DEF PathFine, Unsynced, DeletePending, KeepRemoteFetch
  <2> QED
    BY <1>1, <1>2, <2>1, <2>3, <2>4, <2>5, UserMoves DEF KeepRemoteFetch
<1> QED
  BY <1>2, <1>4, <1>5 DEF KeepRemoteFetch, Present

\* and the row is clean, synced at the mtime of the conflict.
LEMMA KeepRemotePutStep ==
    ASSUME SyncInv, KeepRemotePut
    PROVE  SyncInv'
<1> USE DEF SyncInv
<1>1. /\ \A x \in Workers : w[x].pc = "idle"
      /\ ev.pc = "idle" /\ user.pc = "keepput" /\ user \in Users /\ UserFine
  BY UserGoesOn DEF KeepRemotePut
<1>2. PICK p \in Paths : p = user.p /\ PathFine(p)
  BY UserGoesOn DEF KeepRemotePut
<1>3. last[p] = None /\ files[p].state = "conflict" /\ Match(disk[p], conf[p], p)
  BY <1>1, <1>2 DEF UserFine
<1>4. /\ user'.pc = "idle" /\ user'.p = None /\ user' \in Users
  BY NoUserTyped DEF KeepRemotePut
<1>5. /\ files' \in [Paths -> Rows] /\ files'[p].state = "clean" /\ files'[p].rm = conf[p]
      /\ \A g \in Paths \ {p} : files'[g] = files[g]
  <2>1. user.row \in Rows /\ conf[p] \in Times
    BY <1>1 DEF Users, Typed, DataTyped
  <2> QED
    BY <1>2, <2>1 DEF KeepRemotePut, Typed, DataTyped, Rows, States
<1>6. conf' \in [Paths -> Times] /\ \A g \in Paths \ {p} : conf'[g] = conf[g]
  BY <1>2, Constants DEF KeepRemotePut, Typed, DataTyped
<1>7. DataTyped' /\ Elsewhere(p)
  BY <1>5, <1>6 DEF Typed, DataTyped, Elsewhere, KeepRemotePut, DeletePending
<1>8. UserFine'
  BY <1>4 DEF UserFine
<1>9. PathFine(p)'
  BY <1>1, <1>2, <1>3, <1>4, <1>5, Constants DEF PathFine, Unsynced, DeletePending, Match, KeepRemotePut
<1> QED
  BY <1>1, <1>2, <1>4, <1>7, <1>8, <1>9, UserMoves DEF KeepRemotePut

-----------------------------------------------------------------------------
(* The evictor, beside a worker.                                           *)

\* A step of the evictor, from what it does to the data of p.
LEMMA EvictMoves ==
    ASSUME SyncInv, user.pc = "idle", NEW p \in Paths, ev.pc # "idle" => ev.p = p,
           ev' \in Evs, ev'.pc # "idle" => ev'.p = p,
           w' = w, user' = user, DataTyped', Elsewhere(p), WorkersFine', PathFine(p)'
    PROVE  SyncInv'
<1> USE DEF SyncInv
<1>1. user.p = None
  BY DEF UserFine
<1>2. \A g \in Paths \ {p} : PathFine(g)'
  BY <1>1, Constants DEF Elsewhere, PathFine, Unsynced, Busy, Match
<1>3. \A g \in Paths : PathFine(g)'
  BY <1>2
<1>4. Typed' /\ Alone' /\ UserFine'
  BY DEF Typed, Alone, UserFine
<1> QED
  BY <1>3, <1>4

\* Synced files are what it selects.
LEMMA EvictBeginStep ==
    ASSUME SyncInv, Admits = {}, NEW p \in Paths, EvictBegin(p)
    PROVE  SyncInv'
<1> USE DEF SyncInv
<1>1. user.pc = "idle" /\ ev.pc = "idle" /\ files[p].state \in {"clean", "evicted"}
  BY DEF EvictBegin, EvictMayStart
<1>2. ev' \in Evs /\ ev'.pc = "remove" /\ ev'.p = p
  BY DEF EvictBegin, Evs
<1>3. DataTyped' /\ Elsewhere(p)
  BY DEF Typed, DataTyped, Elsewhere, EvictBegin, DeletePending
<1>4. WorkersFine'
  BY DEF WorkersFine, TodoFine, HandFine, Uploads, Pulls, Resolves, Match, EvictBegin
<1>5. PathFine(p)'
  BY <1>1, <1>2 DEF PathFine, Unsynced, Busy, Match, DeletePending, EvictBegin
<1> QED
  BY <1>1, <1>2, <1>3, <1>4, <1>5, EvictMoves DEF EvictBegin

\* No worker uploads or resolves a file whose cache file goes,
LEMMA EvictRemoveStep ==
    ASSUME SyncInv, EvictRemove
    PROVE  SyncInv'
<1> USE DEF SyncInv
<1>1. PICK p \in Paths : p = ev.p /\ PathFine(p)
  BY DEF EvictRemove
<1>2. user.pc = "idle" /\ ev.pc = "remove" /\ files[p].state \in {"none", "clean", "evicted"}
  BY <1>1 DEF EvictRemove, Alone, PathFine
<1>3. ev' \in Evs /\ ev'.pc = "mark" /\ ev'.p = p
  BY <1>1 DEF EvictRemove, Evs, Typed
<1>4. /\ disk' \in [Paths -> Content] /\ \A g \in Paths \ {p} : disk'[g] = disk[g]
  BY <1>1, Constants DEF EvictRemove, Typed, DataTyped
<1>5. DataTyped' /\ Elsewhere(p)
  BY <1>4 DEF Typed, DataTyped, Elsewhere, EvictRemove, DeletePending
<1>6. WorkersFine'
  <2> SUFFICES ASSUME NEW x \in Workers PROVE TodoFine(w[x])' /\ HandFine(w[x])'
    BY DEF WorkersFine
  <2>1. TodoFine(w[x]) /\ HandFine(w[x])
    BY DEF WorkersFine
  <2>2. TodoFine(w[x])'
    BY <2>1 DEF TodoFine, Uploads, Pulls, Resolves, EvictRemove
  <2>3. w[x].p \in Paths => \/ disk'[w[x].p] = disk[w[x].p]
                            \/ files[w[x].p].state \in {"none", "clean", "evicted"}
    BY <1>2, <1>4
  <2>4. w[x].pc \in {"put", "saved", "settle"} => w[x].p \in Paths
    BY <2>1 DEF HandFine, HandPcs
  <2>5. w[x].pc \in {"put", "saved", "settle"} => files[w[x].p].state \in {"dirty", "syncing"}
    BY <2>1 DEF HandFine, Resolves
  <2>6. w[x].pc \in {"put", "saved", "settle"} => disk'[w[x].p] = disk[w[x].p]
    BY <2>3, <2>4, <2>5
  <2>7. HandFine(w[x])'
    BY <2>1, <2>6 DEF HandFine, Resolves, Match, EvictRemove
  <2> QED
    BY <2>2, <2>7
<1>7. PathFine(p)'
  BY <1>1, <1>2, <1>3 DEF PathFine, Unsynced, DeletePending, EvictRemove
<1> QED
  BY <1>1, <1>2, <1>3, <1>5, <1>6, <1>7, EvictMoves DEF EvictRemove

\* and the row that is then marked is still a synced one, or gone.
LEMMA EvictMarkStep ==
    ASSUME SyncInv, EvictMark
    PROVE  SyncInv'
<1> USE DEF SyncInv
<1>1. PICK p \in Paths : p = ev.p /\ PathFine(p)
  BY DEF EvictMark
<1>2. user.pc = "idle" /\ ev.pc = "mark" /\ files[p].state \in {"none", "clean", "evicted"}
  BY <1>1 DEF EvictMark, Alone, PathFine
<1>3. ev' \in Evs /\ ev'.pc = "idle"
  BY NoEvTyped DEF EvictMark
<1>4. /\ files' \in [Paths -> Rows] /\ \A g \in Paths \ {p} : files'[g] = files[g]
      /\ IF files[p].state = "none" THEN files'[p] = files[p]
         ELSE files'[p].state = "evicted" /\ files'[p].rm = files[p].rm
  <2>1. CASE files[p].state = "none"
    BY <1>1, <2>1 DEF EvictMark, Typed, DataTyped
  <2>2. CASE files[p].state # "none"
    BY <1>1, <2>2 DEF EvictMark, Typed, DataTyped, Rows, States
  <2> QED
    BY <2>1, <2>2
<1>5. DataTyped' /\ Elsewhere(p)
  BY <1>4 DEF Typed, DataTyped, Elsewhere, EvictMark, DeletePending
<1>6. WorkersFine'
  <2> SUFFICES ASSUME NEW x \in Workers PROVE TodoFine(w[x])' /\ HandFine(w[x])'
    BY DEF WorkersFine
  <2>1. TodoFine(w[x]) /\ HandFine(w[x]) /\ w[x] \in Passes
    BY DEF WorkersFine, Typed
  <2>2. \A f \in Paths : /\ files[f].state \in {"none", "dirty", "syncing", "evicted"}
                            => files'[f].state = files[f].state
                         /\ files[f].state \in {"clean", "evicted"}
                            => files'[f].state \in {"clean", "evicted"}
    BY <1>2, <1>4
  <2>3. TodoFine(w[x])'
    <3>1. w[x].todo \subseteq Paths
      BY <2>1 DEF Passes
    <3> QED
      BY <2>1, <2>2, <3>1 DEF TodoFine, Uploads, Pulls, Resolves, EvictMark
  <2>4. HandFine(w[x])'
    <3>1. w[x].pc \in HandPcs <=> w[x].p \in Paths
      BY <2>1 DEF HandFine
    <3>2. CASE w[x].p \in Paths
      BY <2>1, <2>2, <3>2 DEF HandFine, Resolves, Match, EvictMark
    <3>3. CASE w[x].p \notin Paths
      BY <3>1, <3>3 DEF HandFine, HandPcs, Resolves, EvictMark
    <3> QED
      BY <3>2, <3>3
  <2> QED
    BY <2>3, <2>4
<1>7. PathFine(p)'
  BY <1>1, <1>2, <1>3, <1>4 DEF PathFine, Unsynced, DeletePending, EvictMark
<1> QED
  BY <1>1, <1>2, <1>3, <1>5, <1>6, <1>7, EvictMoves DEF EvictMark

-----------------------------------------------------------------------------
(* The rest of the world.                                                  *)

\* What another client does to a remote file: it writes a newer version, or
\* deletes the file. Who had the old version has nothing to keep there.
Peer(p) ==
    /\ UNCHANGED <<strategy, files, disk, conf, ops, w, user, ev, now>>
    /\ remote' \in [Paths -> Copies] /\ last' \in [Paths -> Content] /\ next' \in 0..MaxVer
    /\ \A g \in Paths \ {p} : remote'[g] = remote[g] /\ last'[g] = last[g]
    /\ last'[p] \in {last[p], None} /\ (last'[p] # None => last[p] # remote[p].ver)
    /\ \/ remote'[p].mtime > remote[p].mtime
       \/ remote'[p].mtime = remote[p].mtime /\ remote'[p].ver = None

\* A version that matched is outrun, and the pull will see it.
LEMMA PeerMatch ==
    ASSUME Typed, NEW p \in Paths, Peer(p), NEW v, NEW m \in Times, NEW f \in Paths
    PROVE  /\ Match(v, m, f) => Match(v, m, f)'
           /\ m <= remote[f].mtime => m <= remote'[f].mtime
<1>1. m \in Nat /\ remote[f].mtime \in Nat /\ remote'[f].mtime \in Nat
  BY Constants DEF Typed, DataTyped, Peer, Copies
<1>2. remote'[f] = remote[f] \/ remote'[f].mtime > remote[f].mtime
      \/ (remote'[f].mtime = remote[f].mtime /\ remote'[f].ver = None)
  BY DEF Peer
<1> QED
  BY <1>1, <1>2 DEF Match

\* Nothing that the invariant says is disturbed by another client.
LEMMA PeerStep ==
    ASSUME SyncInv, NEW p \in Paths, Peer(p)
    PROVE  SyncInv'
<1> USE DEF SyncInv
<1>1. Typed' /\ Alone'
  BY DEF Peer, Typed, DataTyped, Alone
<1>2. \A f \in Paths : last'[f] \in {last[f], None} /\ (last'[f] # None => last[f] # remote[f].ver \/ remote'[f] = remote[f])
  BY DEF Peer
<1>3. UserFine'
  <2>1. user.pc # "idle" => user.p \in Paths
    BY DEF UserFine, Typed, Users
  <2>2. user.pc = "keepput" => Match(disk[user.p], conf[user.p], user.p)'
    <3> SUFFICES ASSUME user.pc = "keepput" PROVE Match(disk[user.p], conf[user.p], user.p)'
      OBVIOUS
    <3>1. user.p \in Paths /\ conf[user.p] \in Times /\ Match(disk[user.p], conf[user.p], user.p)
      BY <2>1 DEF UserFine, Typed, DataTyped
    <3>2. PICK f \in Paths : f = user.p
      BY <3>1
    <3>3. Match(disk[f], conf[f], f)'
      <4>1. PICK v, m : v = disk[f] /\ m = conf[f] /\ m \in Times /\ Match(v, m, f)
        BY <3>1, <3>2
      <4>2. Match(v, m, f)'
        BY <4>1, PeerMatch
      <4>3. disk'[f] = v /\ conf'[f] = m
        BY <4>1 DEF Peer
      <4> QED
        BY <4>2, <4>3, Zenon DEF Match
    <3>4. user'.p = f
      BY <3>2 DEF Peer
    <3> QED
      BY <3>3, <3>4, Zenon DEF Match
  <2> QED
    BY <1>2, <2>1, <2>2 DEF UserFine, Peer, DeletePending
<1>4. WorkersFine'
  <2> SUFFICES ASSUME NEW x \in Workers PROVE TodoFine(w[x])' /\ HandFine(w[x])'
    BY DEF WorkersFine
  <2>1. TodoFine(w[x]) /\ HandFine(w[x]) /\ w[x] \in Passes
    BY DEF WorkersFine, Typed
  <2>2. TodoFine(w[x])'
    <3>1. \A f \in Paths : w[x].list[f].mtime \in Times
      BY <2>1 DEF Passes, Copies
    <3>2. Pulls(w[x]) => \A f \in Paths : w[x].list[f].mtime <= remote'[f].mtime
      BY <2>1, <3>1, PeerMatch DEF TodoFine
    <3> QED
      BY <2>1, <3>2 DEF TodoFine, Uploads, Pulls, Resolves, Peer
  <2>3. HandFine(w[x])'
    <3>1. w[x].pc \in HandPcs <=> w[x].p \in Paths
      BY <2>1 DEF HandFine
    <3>2. CASE w[x].p \in Paths
      <4>1. PICK f \in Paths : f = w[x].p
        BY <3>2
      <4>2. w[x].st \in Times /\ w[x].e.lm \in Times /\ w[x].e.rm \in Times
        BY <2>1 DEF Passes, Rows
      <4>3. /\ Match(disk[f], w[x].e.lm, f) => Match(disk[f], w[x].e.lm, f)'
            /\ Match(disk[f], w[x].st, f) => Match(disk[f], w[x].st, f)'
            /\ w[x].st <= remote[f].mtime => w[x].st <= remote'[f].mtime
            /\ w[x].e.rm <= remote[f].mtime => w[x].e.rm <= remote'[f].mtime
        BY <4>2, PeerMatch DEF Peer, Match
      <4>4. w' = w /\ files' = files /\ disk' = disk /\ conf' = conf /\ strategy' = strategy
        BY DEF Peer
      <4> QED
        BY <1>2, <2>1, <3>1, <4>1, <4>3, <4>4 DEF HandFine, Resolves
    <3>3. CASE w[x].p \notin Paths
      BY <3>1, <3>3 DEF HandFine, HandPcs, Resolves, Peer
    <3> QED
      BY <3>2, <3>3
  <2> QED
    BY <2>2, <2>3
<1>5. ASSUME NEW f \in Paths PROVE PathFine(f)'
  <2>1. files[f].rm \in Times /\ conf[f] \in Times /\ PathFine(f)
    BY DEF Typed, DataTyped, Rows
  <2>2. /\ Match(disk[f], files[f].rm, f) => Match(disk[f], files[f].rm, f)'
        /\ files[f].rm <= remote[f].mtime => files[f].rm <= remote'[f].mtime
        /\ conf[f] <= remote[f].mtime => conf[f] <= remote'[f].mtime
    BY <2>1, PeerMatch DEF Peer, Match
  <2>3. files' = files /\ disk' = disk /\ conf' = conf /\ ev' = ev /\ user' = user /\ ops' = ops
    BY DEF Peer
  <2> QED
    BY <1>2, <2>1, <2>2, <2>3 DEF PathFine, Unsynced, DeletePending, Busy
<1> QED
  BY <1>1, <1>3, <1>4, <1>5 DEF Peer

\* Another client writes, at a later second than before,
LEMMA PeerEditStep ==
    ASSUME SyncInv, Admits = {}, NEW p \in Paths, PeerEdit(p)
    PROVE  SyncInv'
<1>1. /\ next' \in 0..MaxVer /\ next + 1 \in Content /\ now \in Times
  BY DEF PeerEdit, SyncInv, Typed, DataTyped, Versions, Content
<1>2. now > remote[p].mtime
  BY DEF PeerEdit
<1>3. /\ remote' \in [Paths -> Copies] /\ remote'[p].mtime > remote[p].mtime
      /\ \A g \in Paths \ {p} : remote'[g] = remote[g]
  BY <1>1, <1>2 DEF PeerEdit, SyncInv, Typed, DataTyped, Copies
<1>4. /\ last' \in [Paths -> Content] /\ \A g \in Paths \ {p} : last'[g] = last[g]
      /\ last'[p] \in {last[p], None} /\ (last'[p] # None => last[p] # remote[p].ver)
  BY Constants DEF PeerEdit, SyncInv, Typed, DataTyped
<1>5. Peer(p)
  BY <1>1, <1>3, <1>4 DEF Peer, PeerEdit
<1> QED
  BY <1>5, PeerStep

\* or deletes.
LEMMA PeerDeleteStep ==
    ASSUME SyncInv, NEW p \in Paths, PeerDelete(p)
    PROVE  SyncInv'
<1>1. /\ remote' \in [Paths -> Copies] /\ remote'[p].mtime = remote[p].mtime /\ remote'[p].ver = None
      /\ \A g \in Paths \ {p} : remote'[g] = remote[g]
  BY Constants DEF PeerDelete, SyncInv, Typed, DataTyped, Copies
<1>2. /\ last' \in [Paths -> Content] /\ \A g \in Paths \ {p} : last'[g] = last[g]
      /\ last'[p] \in {last[p], None} /\ (last'[p] # None => last[p] # remote[p].ver)
  BY Constants DEF PeerDelete, SyncInv, Typed, DataTyped
<1>3. Peer(p)
  BY <1>1, <1>2 DEF Peer, PeerDelete, SyncInv, Typed, DataTyped
<1> QED
  BY <1>3, PeerStep

\* A step that leaves everything but the clock alone, if that.
LEMMA StillStep ==
    ASSUME SyncInv, UNCHANGED <<strategy, files, disk, conf, ops, remote, w, user, ev, next, last>>,
           now' \in Times
    PROVE  SyncInv'
<1> USE DEF SyncInv
<1>1. Typed' /\ Alone'
  BY DEF Typed, DataTyped, Alone
<1>2. UserFine'
  BY DEF UserFine, Match, DeletePending
<1>3. WorkersFine'
  <2> SUFFICES ASSUME NEW x \in Workers PROVE TodoFine(w[x])' /\ HandFine(w[x])'
    BY DEF WorkersFine
  <2>1. TodoFine(w[x]) /\ HandFine(w[x])
    BY DEF WorkersFine
  <2>2. TodoFine(w[x])'
    BY <2>1 DEF TodoFine, Uploads, Pulls, Resolves
  <2>3. HandFine(w[x])'
    BY <2>1 DEF HandFine, Resolves, Match
  <2> QED
    BY <2>2, <2>3
<1>4. \A p \in Paths : PathFine(p)'
  BY DEF PathFine, Unsynced, DeletePending, Busy, Match
<1> QED
  BY <1>1, <1>2, <1>3, <1>4

\* The mount dies between two file operations; what a pass had under way is
\* left as it is.
LEMMA CrashStep ==
    ASSUME SyncInv, Admits = {}, Crash
    PROVE  SyncInv'
<1> USE DEF SyncInv
<1>1. user.pc = "idle" /\ ev.pc = "idle" /\ user.p = None
  BY DEF Crash, UserFine
<1>2. /\ user' \in Users /\ user'.pc = "idle" /\ user'.p = None
      /\ ev' \in Evs /\ ev'.pc = "idle" /\ ev'.p = None
  BY NoUserTyped, NoEvTyped DEF Crash
<1>3. w' \in [Workers -> Passes] /\ \A x \in Workers : w'[x].pc = "idle" /\ w'[x].q = {} /\ w'[x].p \notin Paths
  BY IdleTyped, Constants DEF Crash
<1>4. Typed' /\ Alone' /\ UserFine'
  BY <1>2, <1>3 DEF Crash, Typed, DataTyped, Alone, UserFine
<1>5. WorkersFine'
  BY <1>3 DEF WorkersFine, TodoFine, HandFine, HandPcs, Uploads, Pulls, Resolves
<1>6. \A p \in Paths : PathFine(p)'
  BY <1>1, <1>2, Constants DEF PathFine, Unsynced, DeletePending, Busy, Match, Crash
<1> QED
  BY <1>2, <1>4, <1>5, <1>6

-----------------------------------------------------------------------------
(* The theorems.                                                           *)

\* The first state: the remote's files, and nothing here.
LEMMA SyncStart ==
    Init => SyncInv
<1> SUFFICES ASSUME Init PROVE SyncInv
  OBVIOUS
<1>1. 1 \in Times /\ 1 \in 0..MaxVer /\ 1 \in Content
  BY DEF Times, Content, Versions
<1>2. files \in [Paths -> Rows] /\ \A p \in Paths : files[p].state = "none" /\ last[p] = None
  BY Constants DEF Init
<1>3. remote \in [Paths -> Copies]
  BY <1>1, Constants DEF Init, NoFile, Copies
<1>4. DataTyped
  BY <1>1, <1>2, <1>3, Constants DEF Init, DataTyped
<1>5. w \in [Workers -> Passes] /\ \A x \in Workers : w[x].pc = "idle" /\ w[x].q = {} /\ w[x].p \notin Paths
  BY IdleTyped, Constants DEF Init
<1>6. /\ user \in Users /\ user.pc = "idle" /\ user.p = None
      /\ ev \in Evs /\ ev.pc = "idle" /\ ev.p = None
  BY NoUserTyped, NoEvTyped DEF Init
<1>7. Typed /\ Alone /\ UserFine
  BY <1>4, <1>5, <1>6 DEF Typed, Alone, UserFine
<1>8. WorkersFine
  BY <1>5, IdleFine DEF WorkersFine
<1>9. \A p \in Paths : PathFine(p)
  BY <1>2, <1>6 DEF PathFine
<1> QED
  BY <1>6, <1>7, <1>8, <1>9 DEF SyncInv

\* Every step keeps the invariant when none of the circumstances arises.
LEMMA SyncStep ==
    ASSUME Admits = {}
    PROVE  SyncInv /\ [Next]_vars => SyncInv'
<1> SUFFICES ASSUME SyncInv, [Next]_vars PROVE SyncInv'
  OBVIOUS
<1>1. ASSUME NEW p \in Paths, UserStarts(p) \/ EvictBegin(p) \/ PeerEdit(p) \/ PeerDelete(p) PROVE SyncInv'
  BY <1>1, UserCreateStep, UserWriteStep, UserChmodStep, UserUnlinkStep, UserDownloadStep, KeepLocalStep,
     KeepRemoteStep, KeepBothStep, EvictBeginStep, PeerEditStep, PeerDeleteStep DEF UserStarts
<1>2. CASE UserEnds \/ EvictEnds
  BY <1>2, UserCommitStep, UserUnlinkCommitStep, KeepRemoteFetchStep, KeepRemotePutStep, EvictRemoveStep,
     EvictMarkStep DEF UserEnds, EvictEnds
<1>3. ASSUME NEW x \in Workers, PassBegin(x) \/ Worker(x) PROVE SyncInv'
  <2>1. CASE PassBegin(x) \/ Upload(x) \/ Ops(x)
    BY <2>1, PassBeginStep, UploadNextStep, UploadMarkStep, UploadOpenStep, UploadPutStep, UploadSavedStep,
       UploadFailedStep, OpsListStep, OpsNextStep, OpsCompleteStep, OpsEndStep DEF Upload, Ops
  <2>2. CASE Pull(x)
    BY <2>2, PullListStep, PullNextStep, PullInsertStep, PullEvictStep, PullRemoveStep, PullLocalStep,
       PullGoneStep, PullUnlinkStep, PullEndStep DEF Pull
  <2>3. CASE Resolve(x)
    BY <2>3, ResolveLocalWinsStep, ResolveRemoteWinsStep, ResolveConflictStep, ResolveFetchStep,
       ResolveSettleStep DEF Resolve
  <2> QED
    BY <1>3, <2>1, <2>2, <2>3 DEF Worker
<1>4. CASE Tick
  <2>1. now' \in Times
    BY <1>4 DEF Tick, SyncInv, Typed, DataTyped, Times
  <2> QED
    BY <1>4, <2>1, StillStep DEF Tick
<1>5. CASE Crash
  BY <1>5, CrashStep
<1>6. CASE UNCHANGED vars
  <2>1. now' \in Times
    BY <1>6 DEF vars, SyncInv, Typed, DataTyped
  <2> QED
    BY <1>6, <2>1, StillStep DEF vars
<1> QED
  BY <1>1, <1>2, <1>3, <1>4, <1>5, <1>6 DEF Next

\* What the user saved last is on the remote, or in the cache under a row that
\* protects it from eviction: whatever the workers, the strategies, the failed
\* calls, the crashes between file operations and the other clients, as long
\* as none of the circumstances of Admits arises (engine.go: uploadFile,
\* processPendingOps, pullDir; conflict.go; eviction.go).
THEOREM SavedWorkKept ==
    ASSUME Admits = {}
    PROVE  Spec => []LocalWorkKept
<1>1. Init => SyncInv
  BY SyncStart
<1>2. SyncInv /\ [Next]_vars => SyncInv'
  BY SyncStep
<1>3. SyncInv => LocalWorkKept
  BY DEF SyncInv, PathFine, LocalWorkKept
<1> QED
  BY <1>1, <1>2, <1>3, PTL DEF Spec

\* A clean file is there, and if it is not what the remote has, the next pull
\* sees that by its mtime: under the same conditions (engine.go: uploadFile,
\* pullDir; conflict.go: applyRemoteWins; eviction.go).
THEOREM CleanRowsMatch ==
    ASSUME Admits = {}
    PROVE  Spec => []CleanMatchesRemote
<1>1. Init => SyncInv
  BY SyncStart
<1>2. SyncInv /\ [Next]_vars => SyncInv'
  BY SyncStep
<1>3. SyncInv => CleanMatchesRemote
  BY DEF SyncInv, PathFine, CleanMatchesRemote, Match, Busy, Present
<1> QED
  BY <1>1, <1>2, <1>3, PTL DEF Spec

=============================================================================
