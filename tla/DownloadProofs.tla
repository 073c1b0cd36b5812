--------------------------- MODULE DownloadProofs ---------------------------
(***************************************************************************)
(* What the download manager claims to have on disk is there, for every    *)
(* file, every number of handles, prefetches, Download objects and         *)
(* goroutines, with cancellations, failures, checkpoints and crashes       *)
(* wherever they may fall.                                                 *)
(***************************************************************************)
EXTENDS Download, WellFoundedInduction, TLAPS

USE SizeAssumption, FlagAssumption

\* What a Download, a goroutine, a caller and the row may hold.
DlState ==
    [used : BOOLEAN, ino : Inodes \cup {None}, err : BOOLEAN, done : BOOLEAN, closed : BOOLEAN,
     open : Int, prefetch : BOOLEAN, last : 0..N, ckpt : SUBSET Chunks, pend : SUBSET Chunks,
     cancel : {"none", "put"}, snap : SUBSET Chunks,
     end : {"none", "finish", "delete", "late", "put"}]

GoState ==
    [pc : {"off", "top", "got", "wrote", "yield", "throttle"}, pos : 0..N, seq : BOOLEAN,
     stop : BOOLEAN]

RdState ==
    [pc : {"idle", "stat", "create", "load", "register", "setstate", "spawn", "open", "ready",
           "wait", "serve", "release"},
     g : Gens \cup {None}, own : BOOLEAN, ino : Inodes \cup {None}, ranges : SUBSET Chunks,
     at : Chunks]

RowState == [state : {"evicted", "downloading", "clean"}, ranges : SUBSET Chunks]

\* The chunks in the cache file.
OnDisk == IF ino = None THEN {} ELSE data[ino]

\* What the row r says is in a cache file that holds the chunks disk.
RowBacked(r, disk) ==
    /\ r.ranges \subseteq disk
    /\ r.state = "clean" => disk = Chunks

\* A Download d with range set R writes to the cache file f, all copies of its
\* ranges are in it, and it ends without an error only when it is complete.
DlBacked(d, R, f, disk) ==
    /\ d.used => f # None /\ d.ino = f
    /\ R \subseteq disk /\ d.ckpt \subseteq disk
    /\ d.pend \subseteq disk /\ d.snap \subseteq disk
    /\ d.end = "finish" => R = Chunks
    /\ d.done => d.err \/ R = Chunks

\* A goroutine q has written the chunk it is about to record.
GoBacked(q, disk) ==
    /\ q.pc = "got" => q.pos \in Chunks
    /\ q.pc = "wrote" => q.pos \in disk

\* A caller r has opened the cache file, takes over ranges that are in it and
\* reads what is there.
RdBacked(r, f, disk) ==
    /\ r.ranges \subseteq disk
    /\ r.ino \in {None, f}
    /\ r.pc \in {"load", "register", "ready", "wait", "serve"} => r.ino # None
    /\ r.pc \in {"setstate", "spawn", "open", "ready", "wait", "serve", "release"} => r.g # None
    /\ r.pc = "serve" => r.at \in disk
    /\ r.pc = "create" => f = None /\ ~AtomicOpen

\* The same, of the row, of every Download, goroutine and caller, together with
\* the types.
RowFine(r) == r \in RowState /\ RowBacked(r, OnDisk)

DlFine(D, S) ==
    /\ D \in [Gens -> DlState] /\ S \in [Gens -> SUBSET Chunks]
    /\ \A g \in Gens : DlBacked(D[g], S[g], ino, OnDisk)

\* A Download that is registered, or that a goroutine or a caller works with,
\* has not been collected.
ActiveFine(a, D) == a \in Gens \cup {None} /\ (a # None => D[a].used)

GoFine(G, D) ==
    /\ G \in [Gens -> [Slots -> GoState]]
    /\ \A g \in Gens, i \in Slots : GoBacked(G[g][i], OnDisk)
    /\ \A g \in Gens, i \in Slots : G[g][i].pc # "off" => D[g].used

RdFine(R, D) ==
    /\ R \in [Callers -> RdState]
    /\ \A c \in Callers : RdBacked(R[c], ino, OnDisk)
    /\ \A c \in Callers : R[c].g # None => D[R[c].g].used

\* The cache file and its inodes.
FileFine == ino \in Inodes \cup {None} /\ data \in [Inodes -> SUBSET Chunks]

\* The inductive invariant: whatever anyone claims to have is on disk. It has no
\* evictor at work, for that is one of the circumstances the theorems exclude.
DiskInv ==
    /\ FileFine /\ ev = NoEvict
    /\ RowFine(row) /\ DlFine(dl, ranges)
    /\ ActiveFine(active, dl) /\ GoFine(go, dl) /\ RdFine(rd, dl)

-----------------------------------------------------------------------------
\* A set of naturals that is not empty has a least member.
LEMMA LowestIn ==
    ASSUME NEW S \in SUBSET Nat, S # {}
    PROVE  Lowest(S) \in S
<1>1. \E x \in S : \A y \in S : x <= y
  <2>1. PICK x \in S : ~ \E y \in S : <<y, x>> \in OpToRel(<, Nat)
    BY WFMin, NatLessThanWellFounded
  <2>2. \A y \in S : ~(y < x)
    BY <2>1 DEF OpToRel
  <2> QED
    BY <2>2
<1> QED
  BY <1>1 DEF Lowest

\* A step that leaves the cache file alone.
LEMMA FileKept ==
    ASSUME DiskInv, UNCHANGED <<ino, data, ev>>, RowFine(row'), DlFine(dl', ranges'),
           ActiveFine(active', dl'), GoFine(go', dl'), RdFine(rd', dl')
    PROVE  DiskInv'
<1>1. OnDisk' = OnDisk
  BY DEF OnDisk
<1>2. FileFine' /\ (ev = NoEvict)' /\ RowFine(row)' /\ DlFine(dl, ranges)'
  BY <1>1 DEF DiskInv, FileFine, RowFine, DlFine
<1>3. ActiveFine(active, dl)' /\ GoFine(go, dl)' /\ RdFine(rd, dl)'
  BY <1>1 DEF ActiveFine, GoFine, RdFine
<1> QED
  BY <1>2, <1>3 DEF DiskInv

\* As long as no Download is collected, whoever refers to one may go on.
LEMMA UsersKept ==
    ASSUME DiskInv, NEW D, \A g \in Gens : dl[g].used => D[g].used
    PROVE  ActiveFine(active, D) /\ GoFine(go, D) /\ RdFine(rd, D)
<1>1. ActiveFine(active, D)
  BY DEF DiskInv, ActiveFine
<1>2. GoFine(go, D)
  BY DEF DiskInv, GoFine
<1>3. RdFine(rd, D)
  BY DEF DiskInv, RdFine, RdState
<1> QED
  BY <1>1, <1>2, <1>3

\* One caller changes its variables.
LEMMA SetRd ==
    ASSUME NEW D, RdFine(rd, D), NEW c \in Callers, NEW r \in RdState,
           RdBacked(r, ino, OnDisk), r.g # None => D[r.g].used
    PROVE  RdFine([rd EXCEPT ![c] = r], D)
<1>1. rd \in [Callers -> RdState]
  BY DEF RdFine
<1> DEFINE R == [rd EXCEPT ![c] = r]
<1>2. R \in [Callers -> RdState] /\ \A d \in Callers : R[d] = IF d = c THEN r ELSE rd[d]
  BY <1>1
<1> HIDE DEF R
<1>3. RdFine(R, D)
  BY <1>2 DEF RdFine
<1> QED
  BY <1>3 DEF R

\* One Download changes, and its range set.
LEMMA SetDl ==
    ASSUME DiskInv, NEW g \in Gens, NEW d, NEW R \in SUBSET Chunks,
           DlBacked(d, R, ino, OnDisk),
           NEW D \in [Gens -> DlState], \A h \in Gens : D[h] = IF h = g THEN d ELSE dl[h],
           NEW S, \A h \in Gens : S[h] = IF h = g THEN R ELSE ranges[h],
           S \in [Gens -> SUBSET Chunks]
    PROVE  DlFine(D, S)
  BY DEF DiskInv, DlFine

\* One goroutine changes.
LEMMA SetGo ==
    ASSUME NEW D, GoFine(go, D), NEW g \in Gens, NEW i \in Slots, NEW q \in GoState,
           GoBacked(q, OnDisk), q.pc # "off" => D[g].used
    PROVE  GoFine([go EXCEPT ![g][i] = q], D)
<1> DEFINE G == [go EXCEPT ![g][i] = q]
<1>1. go \in [Gens -> [Slots -> GoState]]
  BY DEF GoFine
<1>2. /\ G \in [Gens -> [Slots -> GoState]]
      /\ \A h \in Gens, j \in Slots : G[h][j] = IF h = g /\ j = i THEN q ELSE go[h][j]
  BY <1>1
<1> HIDE DEF G
<1>3. GoFine(G, D)
  BY <1>2 DEF GoFine
<1> QED
  BY <1>3 DEF G

\* The goroutines of one Download change.
LEMMA SetGos ==
    ASSUME NEW D, GoFine(go, D), NEW g \in Gens, NEW Q \in [Slots -> GoState],
           \A i \in Slots : GoBacked(Q[i], OnDisk), D[g].used
    PROVE  GoFine([go EXCEPT ![g] = Q], D)
<1> DEFINE G == [go EXCEPT ![g] = Q]
<1>1. go \in [Gens -> [Slots -> GoState]]
  BY DEF GoFine
<1>2. /\ G \in [Gens -> [Slots -> GoState]]
      /\ \A h \in Gens : G[h] = IF h = g THEN Q ELSE go[h]
  BY <1>1
<1> HIDE DEF G
<1>3. GoFine(G, D)
  BY <1>2 DEF GoFine
<1> QED
  BY <1>3 DEF G

\* The part of a Download that the invariant speaks of does not change.
SameClaims(d, e) ==
    /\ e.used = d.used /\ e.ino = d.ino
    /\ e.ckpt = d.ckpt /\ e.pend = d.pend /\ e.snap = d.snap
    /\ e.end = d.end /\ e.done = d.done /\ e.err = d.err

\* A Download may change in what it does not claim.
LEMMA SetQuietly ==
    ASSUME DiskInv, NEW g \in Gens, NEW d, SameClaims(dl[g], d),
           NEW D \in [Gens -> DlState], \A h \in Gens : D[h] = IF h = g THEN d ELSE dl[h]
    PROVE  /\ DlFine(D, ranges) /\ \A h \in Gens : D[h].used = dl[h].used
           /\ ActiveFine(active, D) /\ GoFine(go, D) /\ RdFine(rd, D)
<1>1. /\ DlBacked(d, ranges[g], ino, OnDisk) /\ ranges[g] \in SUBSET Chunks
      /\ ranges \in [Gens -> SUBSET Chunks]
  BY DEF DiskInv, DlFine, DlBacked, SameClaims
<1>2. DlFine(D, ranges)
  BY <1>1, SetDl
<1>3. \A h \in Gens : D[h].used = dl[h].used
  BY DEF SameClaims
<1>4. ActiveFine(active, D) /\ GoFine(go, D) /\ RdFine(rd, D)
  BY <1>3, UsersKept
<1> QED
  BY <1>2, <1>3, <1>4

\* The number of open readers, the prefetch mark and the furthest read offset
\* are such fields.
LEMMA QuietFields ==
    ASSUME NEW d \in DlState
    PROVE  /\ d.open + 1 \in Int /\ d.open - 1 \in Int
           /\ \A k \in Int : LET e == [d EXCEPT !.open = k]
                             IN  e \in DlState /\ SameClaims(d, e)
           /\ \A b \in BOOLEAN : LET e == [d EXCEPT !.prefetch = b]
                                 IN  e \in DlState /\ SameClaims(d, e)
           /\ \A n \in 0..N : LET e == [d EXCEPT !.last = n]
                              IN  e \in DlState /\ SameClaims(d, e)
<1>1. d.open \in Int
  BY DEF DlState
<1>2. ASSUME NEW k \in Int
      PROVE  [d EXCEPT !.open = k] \in DlState /\ SameClaims(d, [d EXCEPT !.open = k])
  BY DEF DlState, SameClaims
<1>3. ASSUME NEW b \in BOOLEAN
      PROVE  [d EXCEPT !.prefetch = b] \in DlState /\ SameClaims(d, [d EXCEPT !.prefetch = b])
  BY DEF DlState, SameClaims
<1>4. ASSUME NEW n \in 0..N
      PROVE  [d EXCEPT !.last = n] \in DlState /\ SameClaims(d, [d EXCEPT !.last = n])
  BY DEF DlState, SameClaims
<1> QED
  BY <1>1, <1>2, <1>3, <1>4

\* Goroutines that are told to stop, and a new one.
LEMMA StoppedFine ==
    ASSUME DiskInv, NEW g \in Gens, NEW stop
    PROVE  /\ Stopped(g, stop) \in [Slots -> GoState]
           /\ \A i \in Slots : GoBacked(Stopped(g, stop)[i], OnDisk)
<1>1. \A i \in Slots : go[g][i] \in GoState /\ GoBacked(go[g][i], OnDisk)
  BY DEF DiskInv, GoFine
<1>2. \A q \in GoState : /\ [q EXCEPT !.stop = TRUE] \in GoState
                         /\ GoBacked(q, OnDisk) => GoBacked([q EXCEPT !.stop = TRUE], OnDisk)
  BY DEF GoState, GoBacked
<1> QED
  BY <1>1, <1>2 DEF Stopped

\* A new goroutine, and those it replaces, claim nothing.
LEMMA SpawnedFine ==
    ASSUME DiskInv, NEW g \in Gens, NEW at \in 0..N, NEW seq \in BOOLEAN, NEW stop
    PROVE  /\ Spawned(g, at, seq, stop) \in [Slots -> GoState]
           /\ \A i \in Slots : GoBacked(Spawned(g, at, seq, stop)[i], OnDisk)
<1>1. \A i \in Slots : go[g][i] \in GoState /\ GoBacked(go[g][i], OnDisk)
  BY DEF DiskInv, GoFine
<1>2. \A q \in GoState : /\ [q EXCEPT !.stop = TRUE] \in GoState
                         /\ GoBacked(q, OnDisk) => GoBacked([q EXCEPT !.stop = TRUE], OnDisk)
  BY DEF GoState, GoBacked
<1> DEFINE new == [pc |-> "top", pos |-> at, seq |-> seq, stop |-> FALSE]
<1>3. new \in GoState /\ GoBacked(new, OnDisk)
  BY DEF GoState, GoBacked
<1> HIDE DEF new
<1>4. Spawned(g, at, seq, stop) =
        [i \in Slots |-> IF i = Lowest(Slots \ Alive(g)) THEN new
                         ELSE IF i \in stop THEN [go[g][i] EXCEPT !.stop = TRUE]
                         ELSE go[g][i]]
  BY DEF Spawned, new
<1> QED
  BY <1>1, <1>2, <1>3, <1>4

\* What the invariant says about one Download, and about one caller.
LEMMA DlFacts ==
    ASSUME DiskInv, NEW g \in Gens
    PROVE  /\ dl[g] \in DlState /\ ranges[g] \in SUBSET Chunks
           /\ DlBacked(dl[g], ranges[g], ino, OnDisk)
           /\ dl \in [Gens -> DlState] /\ ranges \in [Gens -> SUBSET Chunks]
  BY DEF DiskInv, DlFine

\* What a caller has to go by.
LEMMA RdFacts ==
    ASSUME DiskInv, NEW c \in Callers
    PROVE  /\ rd[c] \in RdState /\ RdBacked(rd[c], ino, OnDisk)
           /\ rd[c].g # None => rd[c].g \in Gens /\ dl[rd[c].g].used
           /\ rd[c].g # None => ino # None
           /\ ino # None => ino \in Inodes
<1>1. /\ rd[c] \in RdState /\ RdBacked(rd[c], ino, OnDisk)
      /\ rd[c].g # None => dl[rd[c].g].used
  BY DEF DiskInv, RdFine
<1>2. rd[c].g # None => rd[c].g \in Gens
  BY <1>1 DEF RdState
<1>3. rd[c].g # None => ino # None
  BY <1>1, <1>2, DlFacts DEF DlBacked
<1> QED
  BY <1>1, <1>2, <1>3 DEF DiskInv, FileFine

\* A step that changes one caller's variables and nothing else.
LEMMA RdStep ==
    ASSUME DiskInv, UNCHANGED <<ino, data, active, dl, ranges, go, ev>>, RowFine(row'),
           NEW c \in Callers, NEW r \in RdState, rd' = [rd EXCEPT ![c] = r],
           RdBacked(r, ino, OnDisk), r.g # None => dl[r.g].used
    PROVE  DiskInv'
<1>1. /\ DlFine(dl, ranges) /\ ActiveFine(active, dl) /\ GoFine(go, dl) /\ RdFine(rd, dl)
  BY DEF DiskInv
<1>2. RdFine(rd', dl)
  BY <1>1, SetRd
<1> QED
  BY <1>1, <1>2, FileKept

\* A step that also changes such fields of a Download.
LEMMA QuietStep ==
    ASSUME DiskInv, UNCHANGED <<row, ino, data, active, ranges, ev>>,
           NEW g \in Gens, NEW d \in DlState, SameClaims(dl[g], d),
           dl' \in [Gens -> DlState], \A h \in Gens : dl'[h] = IF h = g THEN d ELSE dl[h],
           NEW c \in Callers, NEW r \in RdState, rd' = [rd EXCEPT ![c] = r],
           RdBacked(r, ino, OnDisk), r.g # None => dl[r.g].used, GoFine(go', dl)
    PROVE  DiskInv'
<1>1. /\ DlFine(dl', ranges) /\ \A h \in Gens : dl'[h].used = dl[h].used
      /\ ActiveFine(active, dl') /\ GoFine(go, dl') /\ RdFine(rd, dl')
  BY SetQuietly
<1>2. r.g # None => dl'[r.g].used
  BY <1>1 DEF RdState
<1>3. RdFine(rd', dl')
  BY <1>1, <1>2, SetRd
<1>4. GoFine(go', dl')
  BY <1>1 DEF GoFine
<1> QED
  BY <1>1, <1>3, <1>4, FileKept DEF DiskInv

\* A step that changes a Download and its range set.
LEMMA DlStep ==
    ASSUME DiskInv, UNCHANGED <<ino, data, ev>>, RowFine(row'),
           NEW g \in Gens, NEW d \in DlState, NEW R \in SUBSET Chunks,
           DlBacked(d, R, ino, OnDisk), dl[g].used => d.used,
           dl' \in [Gens -> DlState], \A h \in Gens : dl'[h] = IF h = g THEN d ELSE dl[h],
           ranges' \in [Gens -> SUBSET Chunks],
           \A h \in Gens : ranges'[h] = IF h = g THEN R ELSE ranges[h],
           active' \in {active, None}, GoFine(go', dl), RdFine(rd', dl)
    PROVE  DiskInv'
<1>1. DlFine(dl', ranges')
  BY SetDl
<1>2. \A h \in Gens : dl[h].used => dl'[h].used
  OBVIOUS
<1>3. ActiveFine(active', dl')
  BY <1>2 DEF DiskInv, ActiveFine
<1>4. GoFine(go', dl')
  BY <1>2 DEF GoFine
<1>5. RdFine(rd', dl')
  BY <1>2 DEF RdFine, RdState
<1> QED
  BY <1>1, <1>3, <1>4, <1>5, FileKept

-----------------------------------------------------------------------------
\* The steps of Start.
LEMMA LookupStep ==
    ASSUME DiskInv, NEW c \in Callers, StartLookup(c)
    PROVE  DiskInv'
<1>1. /\ UNCHANGED <<row, ino, data, active, ranges, go, ev>>
      /\ rd[c].pc = "idle" /\ active \in Gens \cup {None}
      /\ active # None => dl[active].used
      /\ GoFine(go, dl) /\ RowFine(row) /\ rd \in [Callers -> RdState]
      /\ dl \in [Gens -> DlState]
  BY DEF StartLookup, DiskInv, ActiveFine, RdFine, DlFine
<1>2. CASE active # None /\ c \in Readers
  <2> DEFINE d == [dl[active] EXCEPT !.open = @ + 1]
             r == [rd[c] EXCEPT !.pc = "open", !.g = active, !.own = FALSE]
  <2>1. d \in DlState /\ SameClaims(dl[active], d)
    BY <1>1, <1>2, DlFacts, QuietFields
  <2>2. r \in RdState /\ RdBacked(r, ino, OnDisk) /\ r.g = active
    <3>1. rd[c] \in RdState /\ RdBacked(rd[c], ino, OnDisk)
      BY <1>1, RdFacts
    <3>2. /\ r.pc = "open" /\ r.g = active /\ r.own = FALSE /\ r.ino = rd[c].ino
          /\ r.ranges = rd[c].ranges /\ r.at = rd[c].at
      BY <3>1 DEF RdState
    <3>3. r \in RdState
      BY <1>1, <1>2, <3>1, ZenonT(40) DEF RdState
    <3> QED
      BY <1>2, <3>1, <3>2, <3>3 DEF RdBacked
  <2>3. dl' = [dl EXCEPT ![active] = d] /\ rd' = [rd EXCEPT ![c] = r]
    BY <1>2 DEF StartLookup
  <2> HIDE DEF d, r
  <2>4. dl' \in [Gens -> DlState] /\ \A h \in Gens : dl'[h] = IF h = active THEN d ELSE dl[h]
    BY <1>1, <1>2, <2>1, <2>3
  <2> QED
    BY <1>1, <1>2, <2>1, <2>2, <2>3, <2>4, QuietStep
<1>3. CASE active # None /\ c \in Prefetchers
  <2> DEFINE d == [dl[active] EXCEPT !.prefetch = TRUE]
  <2>1. d \in DlState /\ SameClaims(dl[active], d)
    BY <1>1, <1>3, DlFacts, QuietFields
  <2>2. dl' = [dl EXCEPT ![active] = d] /\ rd' = rd
    BY <1>3 DEF StartLookup
  <2>3. rd' = [rd EXCEPT ![c] = rd[c]]
    BY <1>1, <2>2
  <2> HIDE DEF d
  <2>4. dl' \in [Gens -> DlState] /\ \A h \in Gens : dl'[h] = IF h = active THEN d ELSE dl[h]
    BY <1>1, <1>3, <2>1, <2>2
  <2> QED
    BY <1>1, <1>3, <2>1, <2>3, <2>4, RdFacts, QuietStep
<1>4. CASE active = None
  <2> DEFINE r == [rd[c] EXCEPT !.pc = "stat"]
  <2>1. r \in RdState /\ RdBacked(r, ino, OnDisk) /\ r.g = rd[c].g
    BY <1>1, RdFacts DEF RdState, RdBacked
  <2>2. dl' = dl /\ rd' = [rd EXCEPT ![c] = r]
    BY <1>4 DEF StartLookup, Goto
  <2> HIDE DEF r
  <2> QED
    BY <1>1, <2>1, <2>2, RdFacts, RdStep
<1> QED
  BY <1>2, <1>3, <1>4 DEF Callers

\* OpenOrCreate makes a new file, when no other caller is about to truncate it.
LEMMA FileMade ==
    ASSUME DiskInv, NEW c \in Callers, ino = None, CreateFile(c),
           \A d \in Callers : d # c => rd[d].pc # "create",
           UNCHANGED <<row, active, dl, ranges, go, ev>>, rd[c].pc \in {"stat", "create"}
    PROVE  DiskInv'
<1> DEFINE new == Lowest(FreeInodes)
           r   == [rd[c] EXCEPT !.pc = "load", !.ino = new]
<1>1. new \in Inodes
  <2>1. FreeInodes # {} /\ FreeInodes \subseteq Inodes /\ Inodes \subseteq Nat
    BY DEF CreateFile, FreeInodes, Inodes
  <2> QED
    BY <2>1, LowestIn
<1> HIDE DEF new
<1>2. ino' = new /\ data' = [data EXCEPT ![new] = {}] /\ rd' = [rd EXCEPT ![c] = r]
  BY DEF CreateFile, new
<1>3. OnDisk = {} /\ OnDisk' = {} /\ FileFine'
  <2>1. data \in [Inodes -> SUBSET Chunks]
    BY DEF DiskInv, FileFine
  <2>2. None \notin Inodes
    BY DEF Inodes, None
  <2> QED
    BY <1>1, <1>2, <2>1, <2>2 DEF OnDisk, FileFine
<1>4. RowFine(row)' /\ (ev = NoEvict)'
  BY <1>3 DEF DiskInv, RowFine
<1>5. \A g \in Gens : ~dl[g].used
  BY DEF DiskInv, DlFine, DlBacked
<1>6. DlFine(dl, ranges)'
  BY <1>3, <1>5 DEF DiskInv, DlFine, DlBacked
<1>7. ActiveFine(active, dl)' /\ GoFine(go, dl)'
  BY <1>3 DEF DiskInv, ActiveFine, GoFine
<1>8. /\ r \in RdState /\ RdBacked(r, new, {}) /\ r.g = rd[c].g
      /\ rd \in [Callers -> RdState]
  <2>1. rd \in [Callers -> RdState] /\ rd[c] \in RdState /\ rd[c].ranges \subseteq {}
    BY <1>3, RdFacts DEF RdBacked, DiskInv, RdFine
  <2>2. new # None
    BY <1>1 DEF Inodes, None
  <2>3. /\ r \in RdState /\ r.pc = "load" /\ r.ino = new /\ r.g = rd[c].g
        /\ r.ranges = rd[c].ranges
    BY <1>1, <2>1 DEF RdState
  <2> QED
    BY <2>1, <2>2, <2>3 DEF RdBacked
<1> HIDE DEF r
<1>9. \A d \in Callers : d # c => RdBacked(rd[d], new, {})
  BY <1>3 DEF DiskInv, RdFine, RdBacked
<1>10. /\ rd' \in [Callers -> RdState]
       /\ \A d \in Callers : rd'[d] = IF d = c THEN r ELSE rd[d]
  BY <1>2, <1>8
<1>11. RdFine(rd, dl)'
  BY <1>2, <1>3, <1>8, <1>9, <1>10 DEF DiskInv, RdFine
<1> QED
  BY <1>3, <1>4, <1>6, <1>7, <1>11 DEF DiskInv

\* Nothing happens between the stat and the create of OpenOrCreate, or nobody
\* else is there to do it.
LoneOpen == AtomicOpen \/ \A c, d \in Callers : c = d

\* os.Stat finds the cache file that the Downloads write to, or none.
LEMMA StatStep ==
    ASSUME DiskInv, LoneOpen, NEW c \in Callers, StartStat(c)
    PROVE  DiskInv'
<1>1. /\ UNCHANGED <<row, active, dl, ranges, go, ev>>
      /\ rd[c].pc = "stat" /\ RowFine(row)
  BY DEF StartStat, DiskInv
<1>2. CASE ino # None
  <2> DEFINE r == [rd[c] EXCEPT !.pc = "load", !.ino = ino]
  <2>1. r \in RdState /\ RdBacked(r, ino, OnDisk) /\ r.g = rd[c].g
    BY ZenonT(40), <1>1, <1>2, RdFacts DEF RdState, RdBacked
  <2>2. rd' = [rd EXCEPT ![c] = r] /\ UNCHANGED <<ino, data>>
    BY <1>2 DEF StartStat
  <2> HIDE DEF r
  <2> QED
    BY <1>1, <2>1, <2>2, RdFacts, RdStep
<1>3. CASE ino = None /\ ~AtomicOpen
  <2> DEFINE r == [rd[c] EXCEPT !.pc = "create"]
  <2>1. r \in RdState /\ RdBacked(r, ino, OnDisk) /\ r.g = rd[c].g
    BY <1>1, <1>3, RdFacts DEF RdState, RdBacked
  <2>2. rd' = [rd EXCEPT ![c] = r] /\ UNCHANGED <<ino, data>>
    BY <1>3 DEF StartStat, Goto
  <2> HIDE DEF r
  <2> QED
    BY <1>1, <2>1, <2>2, RdFacts, RdStep
<1>4. CASE ino = None /\ AtomicOpen
  <2>1. \A d \in Callers : rd[d].pc # "create"
    BY <1>4, RdFacts DEF RdBacked
  <2>2. CreateFile(c)
    BY <1>4 DEF StartStat
  <2> QED
    BY <1>1, <1>4, <2>1, <2>2, FileMade
<1> QED
  BY <1>2, <1>3, <1>4

\* The cache file is created, by a caller that is alone.
LEMMA CreateStep ==
    ASSUME DiskInv, LoneOpen, NEW c \in Callers, StartCreate(c)
    PROVE  DiskInv'
<1>1. UNCHANGED <<row, active, dl, ranges, go, ev>> /\ rd[c].pc = "create" /\ CreateFile(c)
  BY DEF StartCreate
<1>2. ino = None /\ ~AtomicOpen
  BY <1>1, RdFacts DEF RdBacked
<1>3. \A d \in Callers : d # c => rd[d].pc # "create"
  BY <1>2 DEF LoneOpen
<1> QED
  BY <1>1, <1>2, <1>3, FileMade

\* The ranges taken from the row are in the cache file.
LEMMA LoadStep ==
    ASSUME DiskInv, NEW c \in Callers, StartLoad(c)
    PROVE  DiskInv'
<1> DEFINE r == [rd[c] EXCEPT !.pc = "register", !.ranges = row.ranges]
<1>1. /\ UNCHANGED <<row, ino, data, active, dl, ranges, go, ev>> /\ rd' = [rd EXCEPT ![c] = r]
      /\ rd[c].pc = "load" /\ RowFine(row)
  BY DEF StartLoad, DiskInv
<1>2. row.ranges \in SUBSET Chunks /\ row.ranges \subseteq OnDisk
  BY <1>1 DEF RowFine, RowState, RowBacked
<1>3. r \in RdState /\ RdBacked(r, ino, OnDisk) /\ r.g = rd[c].g
  BY ZenonT(40), <1>1, <1>2, RdFacts DEF RdState, RdBacked
<1> HIDE DEF r
<1> QED
  BY <1>1, <1>3, RdFacts, RdStep

\* The row says downloading.
LEMMA SetStateStep ==
    ASSUME DiskInv, NEW c \in Callers, StartSetState(c)
    PROVE  DiskInv'
<1> DEFINE r == [rd[c] EXCEPT !.pc = "spawn"]
<1>1. /\ UNCHANGED <<ino, data, active, dl, ranges, go, ev>> /\ rd' = [rd EXCEPT ![c] = r]
      /\ row' = [row EXCEPT !.state = "downloading"]
      /\ rd[c].pc = "setstate" /\ RowFine(row)
  BY DEF StartSetState, DiskInv, Goto
<1>2. RowFine(row')
  BY <1>1 DEF RowFine, RowState, RowBacked
<1>3. r \in RdState /\ RdBacked(r, ino, OnDisk) /\ r.g = rd[c].g
  BY <1>1, RdFacts DEF RdState, RdBacked
<1> HIDE DEF r
<1> QED
  BY <1>1, <1>2, <1>3, RdFacts, RdStep

\* A handle is open.
LEMMA OpenStep ==
    ASSUME DiskInv, NEW c \in Callers, StartOpen(c)
    PROVE  DiskInv'
<1> DEFINE r == [rd[c] EXCEPT !.pc = "ready", !.ino = ino]
<1>1. UNCHANGED <<row, ino, data, active, ranges, go, ev>> /\ rd[c].pc = "open" /\ RowFine(row)
  BY DEF StartOpen, DiskInv
<1>2. ino # None
  BY <1>1, RdFacts DEF RdBacked
<1>3. rd' = [rd EXCEPT ![c] = r] /\ dl' = dl
  BY <1>2 DEF StartOpen
<1>4. r \in RdState /\ RdBacked(r, ino, OnDisk) /\ r.g = rd[c].g
  BY ZenonT(40), <1>1, <1>2, RdFacts DEF RdState, RdBacked
<1> HIDE DEF r
<1> QED
  BY <1>1, <1>3, <1>4, RdFacts, RdStep

\* A new Download takes over the ranges that were loaded.
LEMMA RegisterStep ==
    ASSUME DiskInv, NEW c \in Callers, StartRegister(c)
    PROVE  DiskInv'
<1>1. /\ UNCHANGED <<row, ino, data, go, ev>> /\ rd[c].pc = "register"
      /\ active \in Gens \cup {None} /\ (active # None => dl[active].used)
      /\ GoFine(go, dl) /\ RowFine(row) /\ dl \in [Gens -> DlState]
      /\ ranges \in [Gens -> SUBSET Chunks]
  BY DEF StartRegister, DiskInv, ActiveFine, DlFine
<1>2. NoRd \in RdState /\ NoRd.ranges = {} /\ NoRd.ino = None
  BY DEF NoRd, RdState, None, Chunks
<1>3. CASE active # None
  <2> DEFINE d == [dl[active] EXCEPT !.open = @ + 1]
             r == [NoRd EXCEPT !.pc = "open", !.g = active]
  <2>1. d \in DlState /\ SameClaims(dl[active], d)
    BY <1>1, <1>3, DlFacts, QuietFields
  <2>2. r \in RdState /\ RdBacked(r, ino, OnDisk) /\ r.g = active
    BY <1>1, <1>2, <1>3 DEF RdState, RdBacked
  <2>3. dl' = [dl EXCEPT ![active] = d] /\ rd' = [rd EXCEPT ![c] = r] /\ UNCHANGED <<active, ranges>>
    BY <1>3 DEF StartRegister
  <2> HIDE DEF d, r
  <2>4. dl' \in [Gens -> DlState] /\ \A h \in Gens : dl'[h] = IF h = active THEN d ELSE dl[h]
    BY <1>1, <1>3, <2>1, <2>3
  <2> QED
    BY <1>1, <1>3, <2>1, <2>2, <2>3, <2>4, QuietStep
<1>4. CASE active = None
  <2> DEFINE free == {h \in Gens : ~dl[h].used}
             g == Lowest(free)
             d == [NoDl EXCEPT !.used = TRUE, !.ino = rd[c].ino, !.open = 1]
             r == [NoRd EXCEPT !.pc = "setstate", !.g = g, !.own = TRUE]
  <2>1. g \in Gens
    <3>1. free # {} /\ free \subseteq Gens /\ Gens \subseteq Nat
      BY <1>4 DEF StartRegister, Gens
    <3>2. Lowest(free) \in free
      BY <3>1, LowestIn
    <3> QED
      BY <3>1, <3>2
  <2>2. /\ active' = g /\ dl' = [dl EXCEPT ![g] = d] /\ ranges' = [ranges EXCEPT ![g] = rd[c].ranges]
        /\ rd' = [rd EXCEPT ![c] = r]
    BY <1>4 DEF StartRegister
  <2> HIDE DEF g
  <2>3. /\ rd[c].ranges \in SUBSET Chunks /\ rd[c].ranges \subseteq OnDisk
        /\ rd[c].ino = ino /\ ino # None /\ ino \in Inodes
    BY <1>1, RdFacts DEF RdState, RdBacked
  <2>4. d \in DlState /\ DlBacked(d, rd[c].ranges, ino, OnDisk) /\ d.used
    <3>1. /\ NoDl \in DlState /\ NoDl.ckpt = {} /\ NoDl.pend = {} /\ NoDl.snap = {}
          /\ NoDl.end = "none" /\ ~NoDl.done
      BY DEF NoDl, DlState, None
    <3>2. d \in DlState
      <4> DEFINE e == [NoDl EXCEPT !.used = TRUE, !.ino = rd[c].ino]
      <4>1. e \in DlState
        BY <2>3, <3>1 DEF DlState
      <4>2. d = [e EXCEPT !.open = 1]
        BY <3>1 DEF DlState
      <4> HIDE DEF d, e
      <4> QED
        BY <4>1, <4>2 DEF DlState
    <3>3. /\ d.used /\ d.ino = rd[c].ino
          /\ d.ckpt = NoDl.ckpt /\ d.pend = NoDl.pend /\ d.snap = NoDl.snap
          /\ d.end = NoDl.end /\ d.done = NoDl.done
      BY <3>1 DEF DlState
    <3> QED
      BY <2>3, <3>1, <3>2, <3>3 DEF DlBacked
  <2>5. r \in RdState /\ RdBacked(r, ino, OnDisk) /\ r.g = g
    <3>1. /\ r \in RdState /\ r.pc = "setstate" /\ r.g = g /\ r.ranges = {} /\ r.ino = None
      BY <1>2, <2>1 DEF RdState
    <3>2. g # None
      BY <2>1 DEF Gens, None
    <3> QED
      BY <3>1, <3>2 DEF RdBacked
  <2> HIDE DEF d, r
  <2>6. dl' \in [Gens -> DlState] /\ \A h \in Gens : dl'[h] = IF h = g THEN d ELSE dl[h]
    BY <1>1, <2>1, <2>2, <2>4
  <2>7. /\ ranges' \in [Gens -> SUBSET Chunks]
        /\ \A h \in Gens : ranges'[h] = IF h = g THEN rd[c].ranges ELSE ranges[h]
    BY <1>1, <2>1, <2>2, <2>3
  <2>8. DlFine(dl', ranges')
    BY <2>1, <2>3, <2>4, <2>6, <2>7, SetDl
  <2>9. \A h \in Gens : dl[h].used => dl'[h].used
    BY <2>4, <2>6
  <2>10. ActiveFine(active, dl') /\ GoFine(go, dl') /\ RdFine(rd, dl')
    BY <2>9, UsersKept
  <2>11. RdFine(rd', dl')
    <3>1. dl'[r.g].used
      BY <2>1, <2>4, <2>5, <2>6
    <3> QED
      BY <2>2, <2>5, <2>10, <3>1, SetRd
  <2>12. ActiveFine(active', dl')
    BY <2>1, <2>2, <2>4, <2>6 DEF ActiveFine
  <2> QED
    BY <1>1, <2>8, <2>10, <2>11, <2>12, FileKept
<1> QED
  BY <1>3, <1>4

\* The first goroutine begins at the first gap.
LEMMA SpawnStep ==
    ASSUME DiskInv, NEW c \in Callers, StartSpawn(c)
    PROVE  DiskInv'
<1> DEFINE g == rd[c].g
           r == [rd[c] EXCEPT !.pc = "open"]
<1>1. /\ UNCHANGED <<row, ino, data, active, ranges, ev>> /\ rd[c].pc = "spawn"
      /\ rd' = [rd EXCEPT ![c] = r]
      /\ GoFine(go, dl) /\ RowFine(row) /\ RdFine(rd, dl) /\ DlFine(dl, ranges)
      /\ ActiveFine(active, dl)
  BY DEF StartSpawn, DiskInv, Goto
<1>2. g \in Gens /\ dl[g].used
  BY <1>1, RdFacts DEF RdBacked
<1>3. r \in RdState /\ RdBacked(r, ino, OnDisk) /\ r.g = g
  BY ZenonT(40), <1>1, <1>2, RdFacts DEF RdState, RdBacked
<1>4. RdFine(rd', dl)
  <2> HIDE DEF r
  <2> QED
    BY <1>1, <1>2, <1>3, SetRd
<1>5. CASE ~IsComplete(g)
  <2> DEFINE at == Lowest(Chunks \ ranges[g])
  <2>1. at \in 0..N
    <3>1. Chunks \ ranges[g] # {} /\ Chunks \ ranges[g] \subseteq Nat
      <4>1. ranges[g] \subseteq Chunks /\ ranges[g] # Chunks
        BY <1>2, <1>5, DlFacts DEF IsComplete
      <4>2. Chunks \subseteq Nat
        BY DEF Chunks
      <4> QED
        BY <4>1, <4>2
    <3>2. at \in Chunks
      BY <3>1, LowestIn
    <3> QED
      BY <3>2 DEF Chunks
  <2>2. dl' = dl /\ go' = [go EXCEPT ![g] = Spawned(g, at, TRUE, {})]
    BY <1>5 DEF StartSpawn
  <2> HIDE DEF at, g, r
  <2>3. GoFine(go', dl)
    BY <1>1, <1>2, <2>1, <2>2, SpawnedFine, SetGos
  <2> QED
    BY <1>1, <1>4, <2>2, <2>3, FileKept
<1>6. CASE IsComplete(g)
  <2> DEFINE d == [dl[g] EXCEPT !.done = TRUE, !.end = "finish"]
  <2>1. dl' = [dl EXCEPT ![g] = d] /\ go' = go
    BY <1>6 DEF StartSpawn
  <2> HIDE DEF g, r
  <2>2. d \in DlState /\ DlBacked(d, ranges[g], ino, OnDisk) /\ d.used
    <3>1. dl[g] \in DlState /\ DlBacked(dl[g], ranges[g], ino, OnDisk) /\ ranges[g] = Chunks
      BY <1>2, <1>6, DlFacts DEF IsComplete
    <3>2. /\ d \in DlState /\ d.used = dl[g].used /\ d.ino = dl[g].ino
          /\ d.ckpt = dl[g].ckpt /\ d.pend = dl[g].pend /\ d.snap = dl[g].snap
      BY <3>1 DEF DlState
    <3> QED
      BY <1>2, <3>1, <3>2 DEF DlBacked
  <2> HIDE DEF d
  <2>3. dl' \in [Gens -> DlState] /\ \A h \in Gens : dl'[h] = IF h = g THEN d ELSE dl[h]
    BY <1>1, <1>2, <2>1, <2>2 DEF DlFine
  <2>4. /\ ranges[g] \in SUBSET Chunks /\ ranges' \in [Gens -> SUBSET Chunks]
        /\ \A h \in Gens : ranges'[h] = IF h = g THEN ranges[g] ELSE ranges[h]
        /\ RowFine(row') /\ active' \in {active, None} /\ GoFine(go', dl)
        /\ UNCHANGED <<ino, data, ev>>
    BY <1>1, <1>2, <2>1, DlFacts
  <2> QED
    BY <1>2, <1>4, <2>2, <2>3, <2>4, DlStep
<1> QED
  BY <1>5, <1>6

-----------------------------------------------------------------------------
\* The steps of a read and of the release of a handle.

\* A chunk that is recorded, or that belongs to a download that has ended
\* without an error, is in the cache file.
LEMMA ReadableIsThere ==
    ASSUME DiskInv, NEW g \in Gens, NEW at \in Chunks,
           at \in ranges[g] \/ (~dl[g].err /\ dl[g].done)
    PROVE  at \in OnDisk
  BY DlFacts DEF DlBacked

\* A read looks its chunk up in the range set, or waits for it.
LEMMA ReadBeginStep ==
    ASSUME DiskInv, NEW c \in Callers, NEW at \in Chunks, ReadBegin(c, at)
    PROVE  DiskInv'
<1> DEFINE g == rd[c].g
           d == [dl[g] EXCEPT !.last = Highest(@, at + 1)]
<1>1. /\ UNCHANGED <<row, ino, data, active, ranges, ev>> /\ rd[c].pc = "ready"
      /\ dl' = [dl EXCEPT ![g] = d] /\ GoFine(go, dl) /\ dl \in [Gens -> DlState]
      /\ rd \in [Callers -> RdState]
  BY DEF ReadBegin, DiskInv, DlFine, RdFine
<1>2. g \in Gens /\ dl[g].used
  BY <1>1, RdFacts DEF RdBacked
<1>3. d \in DlState /\ SameClaims(dl[g], d)
  <2>1. dl[g] \in DlState /\ dl[g].last \in 0..N
    BY <1>2, DlFacts DEF DlState
  <2>2. Highest(dl[g].last, at + 1) \in 0..N
    BY <2>1 DEF Highest, Chunks
  <2> QED
    BY <2>1, <2>2, QuietFields
<1>4. \E r \in RdState : rd' = [rd EXCEPT ![c] = r] /\ RdBacked(r, ino, OnDisk) /\ r.g = g
  <2>1. CASE rd' = [rd EXCEPT ![c].pc = "serve", ![c].at = at] /\ at \in OnDisk
    <3> DEFINE r == [rd[c] EXCEPT !.pc = "serve", !.at = at]
    <3>1. r \in RdState /\ RdBacked(r, ino, OnDisk) /\ r.g = g
      BY ZenonT(40), <1>1, <2>1, RdFacts DEF RdState, RdBacked
    <3> QED
      BY <2>1, <3>1
  <2>2. CASE rd' = rd
    <3>1. rd' = [rd EXCEPT ![c] = rd[c]]
      BY <1>1, <2>2
    <3> QED
      BY <3>1, RdFacts
  <2>3. CASE rd' = [rd EXCEPT ![c].pc = "wait", ![c].at = at]
    <3> DEFINE r == [rd[c] EXCEPT !.pc = "wait", !.at = at]
    <3>1. r \in RdState /\ RdBacked(r, ino, OnDisk) /\ r.g = g
      BY ZenonT(40), <1>1, <2>3, RdFacts DEF RdState, RdBacked
    <3> QED
      BY <2>3, <3>1
  <2> QED
    BY <1>2, <2>1, <2>2, <2>3, ReadableIsThere DEF ReadBegin
<1>5. GoFine(go', dl)
  <2>1. CASE go' = go
    BY <1>1, <2>1
  <2>2. ASSUME NEW seq \in BOOLEAN, NEW stop,
               go' = [go EXCEPT ![g] = Spawned(g, at, seq, stop)]
        PROVE  GoFine(go', dl)
    <3>1. at \in 0..N
      BY DEF Chunks
    <3> HIDE DEF g
    <3> QED
      BY <1>1, <1>2, <2>2, <3>1, SpawnedFine, SetGos
  <2>3. ASSUME NEW stop, go' = [go EXCEPT ![g] = Stopped(g, stop)]
        PROVE  GoFine(go', dl)
    <3> HIDE DEF g
    <3> QED
      BY <1>1, <1>2, <2>3, StoppedFine, SetGos
  <2>4. (Alive(g) = {} \/ dl[g].open = 1) \in BOOLEAN
    OBVIOUS
  <2> QED
    BY <2>1, <2>2, <2>3, <2>4 DEF ReadBegin
<1> HIDE DEF d, g
<1>6. dl' \in [Gens -> DlState] /\ \A h \in Gens : dl'[h] = IF h = g THEN d ELSE dl[h]
  BY <1>1, <1>2, <1>3
<1>7. PICK r \in RdState : rd' = [rd EXCEPT ![c] = r] /\ RdBacked(r, ino, OnDisk) /\ r.g = g
  BY <1>4
<1>8. UNCHANGED <<row, ino, data, active, ranges, ev>> /\ (r.g # None => dl[r.g].used)
  BY <1>1, <1>2, <1>7
<1> QED
  BY <1>2, <1>3, <1>5, <1>6, <1>7, <1>8, QuietStep

\* A read that was woken looks again.
LEMMA ReadWakeStep ==
    ASSUME DiskInv, NEW c \in Callers, ReadWake(c)
    PROVE  DiskInv'
<1> DEFINE g == rd[c].g
<1>1. /\ UNCHANGED <<row, ino, data, active, dl, ranges, go, ev>> /\ rd[c].pc = "wait"
      /\ rd[c].at \in ranges[g] \/ dl[g].err \/ dl[g].done
      /\ RowFine(row)
  BY DEF ReadWake, DiskInv
<1>2. g \in Gens /\ rd[c] \in RdState /\ rd[c].at \in Chunks
  BY <1>1, RdFacts DEF RdBacked, RdState
<1>3. CASE dl[g].err
  <2> DEFINE r == [rd[c] EXCEPT !.pc = "ready", !.at = 0]
  <2>1. rd' = [rd EXCEPT ![c] = r]
    BY <1>3 DEF ReadWake
  <2>2. r \in RdState /\ RdBacked(r, ino, OnDisk) /\ r.g = rd[c].g
    <3>1. 0 \in Chunks
      BY DEF Chunks
    <3> QED
      BY <1>1, <1>2, <3>1, RdFacts DEF RdState, RdBacked
  <2> HIDE DEF r
  <2> QED
    BY <1>1, <2>1, <2>2, RdFacts, RdStep
<1>4. CASE ~dl[g].err
  <2> DEFINE r == [rd[c] EXCEPT !.pc = "serve"]
  <2>1. rd' = [rd EXCEPT ![c] = r]
    BY <1>4 DEF ReadWake, Goto
  <2>2. rd[c].at \in OnDisk
    BY <1>1, <1>2, <1>4, ReadableIsThere
  <2>3. r \in RdState /\ RdBacked(r, ino, OnDisk) /\ r.g = rd[c].g
    BY <1>1, <1>2, <2>2, RdFacts DEF RdState, RdBacked
  <2> HIDE DEF r
  <2> QED
    BY <1>1, <2>1, <2>3, RdFacts, RdStep
<1> QED
  BY <1>3, <1>4

\* A read restarts the goroutine that it needs.
LEMMA ReadRespawnStep ==
    ASSUME DiskInv, NEW c \in Callers, ReadRespawn(c)
    PROVE  DiskInv'
<1> DEFINE g == rd[c].g
<1>1. /\ UNCHANGED <<row, ino, data, active, dl, ranges, rd, ev>> /\ rd[c].pc = "wait"
      /\ go' = [go EXCEPT ![g] = Spawned(g, rd[c].at, TRUE, {})]
      /\ GoFine(go, dl) /\ RowFine(row) /\ RdFine(rd, dl) /\ DlFine(dl, ranges)
      /\ ActiveFine(active, dl)
  BY DEF ReadRespawn, DiskInv
<1>2. g \in Gens /\ dl[g].used /\ rd[c].at \in 0..N
  BY <1>1, RdFacts DEF RdBacked, RdState, Chunks
<1> HIDE DEF g
<1>3. GoFine(go', dl)
  BY <1>1, <1>2, SpawnedFine, SetGos
<1> QED
  BY <1>1, <1>3, FileKept

\* A read takes its chunk from the cache file.
LEMMA ReadServeStep ==
    ASSUME DiskInv, NEW c \in Callers, ReadServe(c)
    PROVE  DiskInv'
<1> DEFINE r == [rd[c] EXCEPT !.pc = "ready", !.at = 0]
<1>1. /\ UNCHANGED <<row, ino, data, active, dl, ranges, ev>> /\ rd[c].pc = "serve"
      /\ rd' = [rd EXCEPT ![c] = r]
      /\ GoFine(go, dl) /\ RowFine(row) /\ RdFine(rd, dl) /\ DlFine(dl, ranges)
      /\ ActiveFine(active, dl)
  BY DEF ReadServe, DiskInv
<1>2. r \in RdState /\ RdBacked(r, ino, OnDisk) /\ r.g = rd[c].g
  <2>1. 0 \in Chunks
    BY DEF Chunks
  <2> QED
    BY <1>1, <2>1, RdFacts DEF RdState, RdBacked
<1> HIDE DEF r
<1>3. RdFine(rd', dl)
  BY <1>1, <1>2, RdFacts, SetRd
<1>4. GoFine(go', dl)
  <2>1. CASE go' = go
    BY <1>1, <2>1
  <2>2. CASE active # None /\ go' = [go EXCEPT ![active] = Spawned(active, rd[c].at + 1, FALSE, {})]
    <3>1. rd[c].at + 1 \in 0..N
      BY RdFacts DEF RdState, Chunks
    <3>2. active \in Gens /\ dl[active].used
      BY <1>1, <2>2 DEF ActiveFine
    <3> QED
      BY <1>1, <2>2, <3>1, <3>2, SpawnedFine, SetGos
  <2> QED
    BY <2>1, <2>2 DEF ReadServe
<1> QED
  BY <1>1, <1>3, <1>4, FileKept

\* A handle is closed;
LEMMA ReleaseStep ==
    ASSUME DiskInv, NEW c \in Callers, Release(c)
    PROVE  DiskInv'
<1> DEFINE g == rd[c].g
           k == [dl[g] EXCEPT !.open = @ - 1]
           d == [k EXCEPT !.prefetch = @ \/ c \in Prefetchers]
<1>1. /\ UNCHANGED <<row, ino, data, active, ranges, go, ev>> /\ rd[c].pc = "ready"
      /\ GoFine(go, dl) /\ dl \in [Gens -> DlState]
  BY DEF Release, DiskInv, DlFine
<1>2. g \in Gens /\ dl[g].used
  BY <1>1, RdFacts DEF RdBacked
<1>3. dl' = [dl EXCEPT ![g] = d]
  BY ZenonT(40), <1>1, <1>2 DEF Release, DlState
<1>4. d \in DlState /\ SameClaims(dl[g], d)
  <2>1. k \in DlState /\ SameClaims(dl[g], k)
    BY <1>2, DlFacts, QuietFields
  <2> HIDE DEF k
  <2>2. (k.prefetch \/ c \in Prefetchers) \in BOOLEAN
    OBVIOUS
  <2>3. d \in DlState /\ SameClaims(k, d)
    BY <2>1, <2>2, QuietFields
  <2> HIDE DEF d
  <2> QED
    BY <2>1, <2>3 DEF SameClaims
<1>5. \E r \in RdState : rd' = [rd EXCEPT ![c] = r] /\ RdBacked(r, ino, OnDisk) /\ r.g \in {None, g}
  <2>1. NoRd \in RdState /\ RdBacked(NoRd, ino, OnDisk) /\ NoRd.g = None
    BY DEF NoRd, RdState, RdBacked, Chunks
  <2> DEFINE r == [NoRd EXCEPT !.pc = "release", !.g = g]
  <2>2. r \in RdState /\ RdBacked(r, ino, OnDisk) /\ r.g = g
    <3>1. /\ r \in RdState /\ r.pc = "release" /\ r.g = g /\ r.ino = NoRd.ino
          /\ r.ranges = NoRd.ranges
      BY <1>2, <2>1 DEF RdState
    <3>2. g # None
      BY <1>2 DEF Gens, None
    <3> QED
      BY <2>1, <3>1, <3>2 DEF RdBacked
  <2>3. rd' = [rd EXCEPT ![c] = NoRd] \/ rd' = [rd EXCEPT ![c] = r]
    BY DEF Release
  <2> QED
    BY <2>1, <2>2, <2>3
<1> HIDE DEF d, g
<1>6. dl' \in [Gens -> DlState] /\ \A h \in Gens : dl'[h] = IF h = g THEN d ELSE dl[h]
  BY <1>1, <1>2, <1>3, <1>4
<1>7. PICK r \in RdState : /\ rd' = [rd EXCEPT ![c] = r] /\ RdBacked(r, ino, OnDisk)
                           /\ r.g \in {None, g}
  BY <1>5
<1>8. UNCHANGED <<row, ino, data, active, ranges, ev>> /\ (r.g # None => dl[r.g].used)
      /\ GoFine(go', dl)
  BY <1>1, <1>2, <1>7
<1> QED
  BY <1>2, <1>4, <1>6, <1>7, <1>8, QuietStep

\* Download.cancel takes its copy of the ranges.
LEMMA CancelKept ==
    ASSUME DiskInv, active # None, CancelDl(active), UNCHANGED <<row, ino, data, ranges, ev>>,
           RdFine(rd', dl)
    PROVE  DiskInv'
<1> DEFINE g == active
           k == [dl[g] EXCEPT !.err = TRUE, !.cancel = "put"]
           d == [k EXCEPT !.snap = ranges[g]]
<1>1. g \in Gens /\ dl[g].used /\ GoFine(go, dl) /\ RowFine(row)
  BY DEF DiskInv, ActiveFine
<1>2. dl[g] \in DlState /\ DlBacked(dl[g], ranges[g], ino, OnDisk)
      /\ ranges[g] \in SUBSET Chunks /\ dl \in [Gens -> DlState] /\ ranges \in [Gens -> SUBSET Chunks]
  BY <1>1, DlFacts
<1>3. active' = None /\ dl' = [dl EXCEPT ![g] = d] /\ go' = [go EXCEPT ![g] = Stopped(g, Alive(g))]
  BY <1>2, ZenonT(60) DEF CancelDl, DlState
<1>4. d \in DlState /\ DlBacked(d, ranges[g], ino, OnDisk) /\ d.used
  <2>1. /\ k \in DlState /\ k.used = dl[g].used /\ k.ino = dl[g].ino /\ k.err = TRUE
        /\ k.ckpt = dl[g].ckpt /\ k.pend = dl[g].pend /\ k.end = dl[g].end
    BY <1>2 DEF DlState
  <2> HIDE DEF k
  <2>2. /\ d \in DlState /\ d.used = k.used /\ d.ino = k.ino /\ d.err = k.err
        /\ d.ckpt = k.ckpt /\ d.pend = k.pend /\ d.snap = ranges[g] /\ d.end = k.end
    BY <1>2, <2>1 DEF DlState
  <2> HIDE DEF d
  <2> QED
    BY <1>1, <1>2, <2>1, <2>2 DEF DlBacked
<1> HIDE DEF d
<1>5. dl' \in [Gens -> DlState] /\ \A h \in Gens : dl'[h] = IF h = g THEN d ELSE dl[h]
  BY <1>1, <1>2, <1>3, <1>4
<1>6. GoFine(go', dl)
  BY <1>1, <1>3, StoppedFine, SetGos
<1>7. /\ ranges' \in [Gens -> SUBSET Chunks] /\ active' \in {active, None} /\ RowFine(row')
      /\ \A h \in Gens : ranges'[h] = IF h = g THEN ranges[g] ELSE ranges[h]
  BY <1>1, <1>2, <1>3
<1> HIDE DEF g
<1> QED
  BY <1>1, <1>2, <1>4, <1>5, <1>6, <1>7, DlStep

\* the last one cancels the Download.
LEMMA ReleaseCancelStep ==
    ASSUME DiskInv, NEW c \in Callers, ReleaseCancel(c)
    PROVE  DiskInv'
<1>1. /\ UNCHANGED <<row, ino, data, ranges, ev>> /\ rd' = [rd EXCEPT ![c] = NoRd]
      /\ GoFine(go, dl) /\ RowFine(row) /\ RdFine(rd, dl) /\ DlFine(dl, ranges)
      /\ ActiveFine(active, dl)
  BY DEF ReleaseCancel, DiskInv
<1>2. NoRd \in RdState /\ RdBacked(NoRd, ino, OnDisk) /\ NoRd.g = None
  BY DEF NoRd, RdState, RdBacked, Chunks
<1>3. RdFine(rd', dl)
  BY <1>1, <1>2, SetRd
<1>4. CASE active # None /\ CancelDl(active)
  BY <1>1, <1>3, <1>4, CancelKept
<1>5. CASE UNCHANGED <<active, dl, go>>
  BY <1>1, <1>3, <1>5, FileKept
<1> QED
  BY <1>4, <1>5 DEF ReleaseCancel

\* The mount goes offline and cancels the Downloads.
LEMMA OfflineStep ==
    ASSUME DiskInv, OfflineCancel
    PROVE  DiskInv'
<1>1. UNCHANGED <<row, ino, data, ranges, ev>> /\ active # None /\ CancelDl(active)
  BY DEF OfflineCancel
<1>2. RdFine(rd', dl)
  BY DEF DiskInv, OfflineCancel
<1> QED
  BY <1>1, <1>2, CancelKept

-----------------------------------------------------------------------------
\* The steps of a goroutine.
LEMMA GoFacts ==
    ASSUME DiskInv, NEW g \in Gens, NEW i \in Slots
    PROVE  /\ go[g][i] \in GoState /\ GoBacked(go[g][i], OnDisk)
           /\ go[g][i].pc # "off" => dl[g].used
           /\ go \in [Gens -> [Slots -> GoState]]
  BY DEF DiskInv, GoFine

\* A step that changes one goroutine and nothing else.
LEMMA GoOnlyStep ==
    ASSUME DiskInv, UNCHANGED <<row, ino, data, active, dl, ranges, rd, ev>>,
           NEW g \in Gens, NEW i \in Slots, NEW q \in GoState,
           GoBacked(q, OnDisk), dl[g].used, go' = [go EXCEPT ![g][i] = q]
    PROVE  DiskInv'
<1>1. /\ RowFine(row) /\ RdFine(rd, dl) /\ DlFine(dl, ranges) /\ ActiveFine(active, dl)
      /\ GoFine(go, dl)
  BY DEF DiskInv
<1>2. GoFine(go', dl)
  BY <1>1, SetGo
<1> QED
  BY <1>1, <1>2, FileKept

\* The deferred exit of a goroutine.
LEMMA ExitStep ==
    ASSUME DiskInv, NEW g \in Gens, NEW i \in Slots, NEW failed \in BOOLEAN,
           go[g][i].pc # "off", Exit(g, i, failed),
           UNCHANGED <<row, ino, data, active, ranges, rd, ev>>
    PROVE  DiskInv'
<1> DEFINE error == dl[g].err \/ failed
           end   == IF dl[g].done \/ ~(Alive(g) = {i}) THEN dl[g].end
                    ELSE IF IsComplete(g) THEN "finish"
                    ELSE IF error THEN "late" ELSE dl[g].end
           done  == dl[g].done \/ end # dl[g].end
           k     == [dl[g] EXCEPT !.err = error, !.end = end]
           d     == [k EXCEPT !.done = done]
<1>1. /\ dl[g] \in DlState /\ DlBacked(dl[g], ranges[g], ino, OnDisk) /\ dl[g].used
      /\ ranges[g] \in SUBSET Chunks /\ dl \in [Gens -> DlState] /\ ranges \in [Gens -> SUBSET Chunks]
  BY DlFacts, GoFacts
<1>2. go' = [go EXCEPT ![g][i] = NoGo] /\ dl' = [dl EXCEPT ![g] = d]
  BY <1>1 DEF Exit, DlState
<1>3. GoFine(go', dl)
  <2>1. NoGo \in GoState /\ GoBacked(NoGo, OnDisk) /\ NoGo.pc = "off"
    BY DEF NoGo, GoState, GoBacked
  <2>2. GoFine(go, dl)
    BY DEF DiskInv
  <2> QED
    BY <1>2, <2>1, <2>2, SetGo
<1>4. /\ end \in {"none", "finish", "delete", "late", "put"} /\ error \in BOOLEAN /\ done \in BOOLEAN
      /\ end = "finish" => ranges[g] = Chunks
      /\ done => error \/ ranges[g] = Chunks
  <2>1. dl[g].end \in {"none", "finish", "delete", "late", "put"}
    BY <1>1 DEF DlState
  <2>2. /\ dl[g].end = "finish" => ranges[g] = Chunks
        /\ dl[g].done => dl[g].err \/ ranges[g] = Chunks
    BY <1>1 DEF DlBacked
  <2> QED
    BY <2>1, <2>2 DEF IsComplete
<1> HIDE DEF error, end, done
<1>5. d \in DlState /\ DlBacked(d, ranges[g], ino, OnDisk) /\ d.used
  <2>1. /\ k \in DlState /\ k.used = dl[g].used /\ k.ino = dl[g].ino /\ k.err = error
        /\ k.ckpt = dl[g].ckpt /\ k.pend = dl[g].pend /\ k.snap = dl[g].snap /\ k.end = end
    BY <1>1, <1>4 DEF DlState
  <2> HIDE DEF k
  <2>2. /\ d \in DlState /\ d.used = k.used /\ d.ino = k.ino /\ d.err = k.err /\ d.done = done
        /\ d.ckpt = k.ckpt /\ d.pend = k.pend /\ d.snap = k.snap /\ d.end = k.end
    BY <1>4, <2>1 DEF DlState
  <2> HIDE DEF d
  <2> QED
    BY <1>1, <1>4, <2>1, <2>2 DEF DlBacked
<1> HIDE DEF d
<1>6. dl' \in [Gens -> DlState] /\ \A h \in Gens : dl'[h] = IF h = g THEN d ELSE dl[h]
  BY <1>1, <1>2, <1>5
<1>7. /\ ranges' \in [Gens -> SUBSET Chunks] /\ active' \in {active, None} /\ RowFine(row')
      /\ \A h \in Gens : ranges'[h] = IF h = g THEN ranges[g] ELSE ranges[h]
      /\ RdFine(rd', dl) /\ UNCHANGED <<ino, data, ev>>
  BY <1>1 DEF DiskInv
<1> QED
  BY <1>1, <1>3, <1>5, <1>6, <1>7, DlStep

\* A chunk is written to the cache file.
LEMMA WriteStep ==
    ASSUME DiskInv, NEW g \in Gens, NEW i \in Slots, go[g][i].pc = "got",
           data' = [data EXCEPT ![dl[g].ino] = @ \cup {go[g][i].pos}],
           go' = [go EXCEPT ![g][i].pc = "wrote"],
           UNCHANGED <<row, ino, active, dl, ranges, rd, ev>>
    PROVE  DiskInv'
<1> DEFINE q == [go[g][i] EXCEPT !.pc = "wrote"]
<1>1. /\ go[g][i] \in GoState /\ go[g][i].pos \in Chunks /\ dl[g].used
      /\ go \in [Gens -> [Slots -> GoState]]
  BY GoFacts DEF GoBacked
<1>2. ino # None /\ dl[g].ino = ino /\ ino \in Inodes /\ data \in [Inodes -> SUBSET Chunks]
  BY <1>1, DlFacts DEF DlBacked, DiskInv, FileFine
<1>3. OnDisk' = OnDisk \cup {go[g][i].pos} /\ FileFine'
  BY <1>1, <1>2 DEF OnDisk, FileFine
<1>4. OnDisk \subseteq OnDisk' /\ OnDisk' \subseteq Chunks /\ go[g][i].pos \in OnDisk'
  BY <1>1, <1>2, <1>3 DEF OnDisk
<1>5. RowFine(row)' /\ (ev = NoEvict)'
  BY <1>4 DEF DiskInv, RowFine, RowBacked
<1>6. DlFine(dl, ranges)'
  BY <1>4 DEF DiskInv, DlFine, DlBacked
<1>7. RdFine(rd, dl)' /\ ActiveFine(active, dl)'
  BY <1>4 DEF DiskInv, RdFine, RdBacked, ActiveFine
<1>8. q \in GoState /\ q.pc = "wrote" /\ q.pos = go[g][i].pos /\ go' = [go EXCEPT ![g][i] = q]
  BY <1>1 DEF GoState
<1> HIDE DEF q
<1>9. /\ go' \in [Gens -> [Slots -> GoState]]
      /\ \A h \in Gens, j \in Slots : go'[h][j] = IF h = g /\ j = i THEN q ELSE go[h][j]
  BY <1>1, <1>8
<1>10. GoFine(go, dl)'
  <2>1. GoBacked(q, OnDisk')
    BY <1>4, <1>8 DEF GoBacked
  <2>2. \A h \in Gens, j \in Slots : GoBacked(go[h][j], OnDisk')
    BY <1>4 DEF DiskInv, GoFine, GoBacked
  <2>3. \A h \in Gens, j \in Slots : GoBacked(go'[h][j], OnDisk')
    BY <1>9, <2>1, <2>2
  <2>4. \A h \in Gens, j \in Slots : go'[h][j].pc # "off" => dl[h].used
    BY <1>1, <1>9 DEF DiskInv, GoFine
  <2> QED
    BY <1>9, <2>3, <2>4 DEF GoFine
<1> QED
  BY <1>3, <1>5, <1>6, <1>7, <1>10 DEF DiskInv

\* A chunk that was written is recorded, and checkpointed now and then.
LEMMA AddStep ==
    ASSUME DiskInv, NEW g \in Gens, NEW i \in Slots, GoAdd(g, i)
    PROVE  DiskInv'
<1> DEFINE pos  == go[g][i].pos
           have == ranges[g] \cup {pos}
           next == IF ~go[g][i].seq THEN "top" ELSE "yield"
           q    == [go[g][i] EXCEPT !.pos = pos + 1, !.pc = next,
                                    !.stop = @ \/ (~go[g][i].seq /\ pos + 1 \in have)]
<1>1. /\ UNCHANGED <<row, ino, data, active, rd, ev>> /\ go[g][i].pc = "wrote"
      /\ ranges' = [ranges EXCEPT ![g] = have]
      /\ RowFine(row) /\ RdFine(rd, dl) /\ GoFine(go, dl)
  BY DEF GoAdd, DiskInv
<1>2. /\ go[g][i] \in GoState /\ pos \in OnDisk /\ dl[g].used
      /\ dl[g] \in DlState /\ DlBacked(dl[g], ranges[g], ino, OnDisk)
      /\ ranges[g] \in SUBSET Chunks /\ dl \in [Gens -> DlState] /\ ranges \in [Gens -> SUBSET Chunks]
      /\ OnDisk \subseteq Chunks
  BY <1>1, GoFacts, DlFacts DEF GoBacked, OnDisk, DiskInv, FileFine
<1>3. /\ have \in SUBSET Chunks /\ have \subseteq OnDisk /\ pos + 1 \in 0..N
      /\ ranges[g] = Chunks => have = Chunks
  <2>1. pos \in Chunks /\ ranges[g] \subseteq OnDisk
    BY <1>2 DEF DlBacked
  <2>2. pos + 1 \in 0..N
    BY <2>1 DEF Chunks
  <2> QED
    BY <1>2, <2>1, <2>2
<1>4. go' = [go EXCEPT ![g][i] = q]
  BY DEF GoAdd
<1>5. q \in GoState /\ q.pc \in {"top", "yield"}
  <2>1. next \in {"top", "yield"}
    OBVIOUS
  <2> HIDE DEF next, have
  <2> QED
    BY <1>2, <1>3, <2>1 DEF GoState
<1> HIDE DEF q
<1>6. GoFine(go', dl)
  BY <1>1, <1>2, <1>4, <1>5, SetGo DEF GoBacked
<1>7. \E d \in DlState : dl' = [dl EXCEPT ![g] = d] /\ DlBacked(d, have, ino, OnDisk) /\ d.used
  <2>1. CASE dl' = dl
    <3>1. dl' = [dl EXCEPT ![g] = dl[g]]
      BY <1>2, <2>1
    <3>2. DlBacked(dl[g], have, ino, OnDisk)
      BY <1>2, <1>3 DEF DlBacked
    <3> QED
      BY <1>2, <3>1, <3>2
  <2>2. CASE dl' = [dl EXCEPT ![g].ckpt = have]
    <3> DEFINE d == [dl[g] EXCEPT !.ckpt = have]
    <3> HIDE DEF have
    <3>1. /\ d \in DlState /\ d.used = dl[g].used /\ d.ino = dl[g].ino
          /\ d.ckpt = have /\ d.pend = dl[g].pend /\ d.snap = dl[g].snap
          /\ d.end = dl[g].end /\ d.done = dl[g].done /\ d.err = dl[g].err
      BY <1>2, <1>3 DEF DlState
    <3>2. dl' = [dl EXCEPT ![g] = d]
      BY <2>2
    <3> HIDE DEF d
    <3>3. DlBacked(d, have, ino, OnDisk)
      BY <1>2, <1>3, <3>1 DEF DlBacked
    <3> QED
      BY <1>2, <3>1, <3>2, <3>3
  <2>3. CASE dl' = [dl EXCEPT ![g].pend = have]
    <3> DEFINE d == [dl[g] EXCEPT !.pend = have]
    <3> HIDE DEF have
    <3>1. /\ d \in DlState /\ d.used = dl[g].used /\ d.ino = dl[g].ino
          /\ d.ckpt = dl[g].ckpt /\ d.pend = have /\ d.snap = dl[g].snap
          /\ d.end = dl[g].end /\ d.done = dl[g].done /\ d.err = dl[g].err
      BY <1>2, <1>3 DEF DlState
    <3>2. dl' = [dl EXCEPT ![g] = d]
      BY <2>3
    <3> HIDE DEF d
    <3>3. DlBacked(d, have, ino, OnDisk)
      BY <1>2, <1>3, <3>1 DEF DlBacked
    <3> QED
      BY <1>2, <3>1, <3>2, <3>3
  <2> QED
    BY <2>1, <2>2, <2>3 DEF GoAdd
<1> HIDE DEF have
<1>8. PICK d \in DlState : dl' = [dl EXCEPT ![g] = d] /\ DlBacked(d, have, ino, OnDisk) /\ d.used
  BY <1>7
<1>9. /\ dl' \in [Gens -> DlState] /\ \A h \in Gens : dl'[h] = IF h = g THEN d ELSE dl[h]
  BY <1>2, <1>8
<1>10. /\ ranges' \in [Gens -> SUBSET Chunks]
       /\ \A h \in Gens : ranges'[h] = IF h = g THEN have ELSE ranges[h]
  BY <1>1, <1>2, <1>3
<1>11. /\ UNCHANGED <<ino, data, ev>> /\ active' \in {active, None} /\ RowFine(row')
       /\ RdFine(rd', dl) /\ DlBacked(d, have, ino, OnDisk) /\ d.used
  BY <1>1, <1>8
<1> QED
  BY <1>3, <1>6, <1>9, <1>10, <1>11, DlStep

\* Every step of a goroutine keeps the invariant,
LEMMA GoroutineStep ==
    ASSUME DiskInv, NEW g \in Gens, NEW i \in Slots, Goroutine(g, i)
    PROVE  DiskInv'
<1>1. /\ go[g][i] \in GoState /\ GoBacked(go[g][i], OnDisk)
      /\ go[g][i].pc # "off" => dl[g].used
      /\ go \in [Gens -> [Slots -> GoState]]
  BY GoFacts
<1>2. ASSUME NEW pc \in {"top", "got", "throttle"}, GoStep(g, i, pc), go[g][i].pc # "off",
             pc = "got" => go[g][i].pos \in Chunks,
             UNCHANGED <<row, ino, data, active, dl, ranges, rd, ev>>
      PROVE  DiskInv'
  <2> DEFINE q == [go[g][i] EXCEPT !.pc = pc]
  <2>1. q \in GoState /\ q.pc = pc /\ q.pos = go[g][i].pos
    BY <1>1 DEF GoState
  <2>2. go' = [go EXCEPT ![g][i] = q]
    BY <1>2 DEF GoStep
  <2> HIDE DEF q
  <2>3. GoBacked(q, OnDisk)
    BY <1>2, <2>1 DEF GoBacked
  <2> QED
    BY <1>1, <1>2, <2>1, <2>2, <2>3, GoOnlyStep
<1>3. CASE GoTop(g, i)
  <2>1. UNCHANGED <<row, ino, data, active, ranges, rd, ev>> /\ go[g][i].pc # "off"
    BY <1>3 DEF GoTop
  <2>2. CASE \E failed \in BOOLEAN : Exit(g, i, failed)
    BY <2>1, <2>2, ExitStep
  <2>3. CASE go[g][i].pos < N /\ GoStep(g, i, "got") /\ UNCHANGED dl
    <3>1. go[g][i].pos \in Chunks
      BY <1>1, <2>3 DEF GoState, Chunks
    <3> QED
      BY <1>2, <2>1, <2>3, <3>1
  <2> QED
    BY <1>3, <2>2, <2>3 DEF GoTop
<1>4. CASE GoWrite(g, i)
  <2>1. UNCHANGED <<row, ino, active, ranges, rd, ev>> /\ go[g][i].pc = "got"
    BY <1>4 DEF GoWrite
  <2>2. CASE Exit(g, i, TRUE) /\ UNCHANGED data
    BY <2>1, <2>2, ExitStep
  <2>3. CASE ~dl[g].closed
    BY <1>4, <2>1, <2>3, WriteStep DEF GoWrite, GoStep
  <2> QED
    BY <1>4, <2>2, <2>3 DEF GoWrite
<1>5. CASE GoAdd(g, i)
  BY <1>5, AddStep
<1>6. CASE GoYield(g, i)
  <2>1. UNCHANGED <<row, ino, data, active, ranges, rd, ev>> /\ go[g][i].pc # "off"
    BY <1>6 DEF GoYield
  <2>2. CASE Exit(g, i, FALSE)
    BY <2>1, <2>2, ExitStep
  <2>3. CASE (GoStep(g, i, "throttle") \/ GoStep(g, i, "top")) /\ UNCHANGED dl
    BY <1>2, <2>1, <2>3
  <2> QED
    BY <1>6, <2>2, <2>3 DEF GoYield
<1>7. CASE GoThrottle(g, i)
  <2>1. UNCHANGED <<row, ino, data, active, ranges, rd, ev>> /\ go[g][i].pc # "off"
    BY <1>7 DEF GoThrottle
  <2>2. CASE Exit(g, i, FALSE)
    BY <2>1, <2>2, ExitStep
  <2>3. CASE GoStep(g, i, "top") /\ UNCHANGED dl
    BY <1>2, <2>1, <2>3
  <2> QED
    BY <1>7, <2>2, <2>3 DEF GoThrottle
<1> QED
  BY <1>3, <1>4, <1>5, <1>6, <1>7 DEF Goroutine

-----------------------------------------------------------------------------
\* The background work of a Download: each of these steps changes the row, the
\* registration and one Download, whose claims shrink or stay.
LEMMA BackgroundKept ==
    ASSUME DiskInv, NEW g \in Gens, NEW d \in DlState, dl' = [dl EXCEPT ![g] = d],
           d.used = dl[g].used, d.ino = dl[g].ino, d.done = dl[g].done, d.err = dl[g].err,
           d.ckpt \subseteq OnDisk, d.pend \subseteq OnDisk, d.snap \subseteq OnDisk,
           d.end = dl[g].end \/ d.end # "finish",
           RowFine(row'), active' \in {active, None},
           UNCHANGED <<ino, data, ranges, go, rd, ev>>
    PROVE  DiskInv'
<1>1. /\ DlBacked(dl[g], ranges[g], ino, OnDisk) /\ ranges[g] \in SUBSET Chunks
      /\ dl \in [Gens -> DlState] /\ ranges \in [Gens -> SUBSET Chunks]
  BY DlFacts
<1>2. DlBacked(d, ranges[g], ino, OnDisk) /\ (dl[g].used => d.used)
  BY <1>1 DEF DlBacked
<1>3. dl' \in [Gens -> DlState] /\ \A h \in Gens : dl'[h] = IF h = g THEN d ELSE dl[h]
  BY <1>1
<1>4. /\ ranges' \in [Gens -> SUBSET Chunks]
      /\ \A h \in Gens : ranges'[h] = IF h = g THEN ranges[g] ELSE ranges[h]
      /\ GoFine(go', dl) /\ RdFine(rd', dl) /\ UNCHANGED <<ino, data, ev>>
  BY <1>1 DEF DiskInv
<1> QED
  BY <1>1, <1>2, <1>3, <1>4, DlStep

\* and so does what runs when they have ended,
LEMMA BackgroundStep ==
    ASSUME DiskInv, NEW g \in Gens, Background(g)
    PROVE  DiskInv'
<1>1. /\ dl[g] \in DlState /\ ranges[g] \in SUBSET Chunks
      /\ DlBacked(dl[g], ranges[g], ino, OnDisk) /\ RowFine(row) /\ OnDisk \subseteq Chunks
  BY DlFacts DEF DiskInv, OnDisk, FileFine
<1>2. /\ dl[g].ckpt \subseteq OnDisk /\ dl[g].pend \subseteq OnDisk /\ dl[g].snap \subseteq OnDisk
      /\ dl[g].ckpt \in SUBSET Chunks /\ dl[g].pend \in SUBSET Chunks
      /\ dl[g].snap \in SUBSET Chunks
  BY <1>1 DEF DlBacked, DlState
<1>3. \A R \in SUBSET Chunks : R \subseteq OnDisk => RowFine([state |-> "evicted", ranges |-> R])
  BY DEF RowFine, RowState, RowBacked
<1>4. CASE Flush(g)
  <2> DEFINE d == [dl[g] EXCEPT !.ckpt = dl[g].pend, !.pend = {}]
  <2>1. /\ d \in DlState /\ d.used = dl[g].used /\ d.ino = dl[g].ino /\ d.done = dl[g].done
        /\ d.err = dl[g].err /\ d.ckpt = dl[g].pend /\ d.pend = {} /\ d.snap = dl[g].snap
        /\ d.end = dl[g].end
    BY <1>1, <1>2 DEF DlState
  <2>2. dl' = [dl EXCEPT ![g] = d] /\ UNCHANGED <<ino, data, active, ranges, go, rd, ev>>
    BY <1>4 DEF Flush
  <2>3. RowFine(row')
    <3>1. CASE row' = row
      BY <1>1, <3>1
    <3>2. CASE row.state = "downloading" /\ row' = [row EXCEPT !.ranges = dl[g].ckpt]
      BY <1>1, <1>2, <3>2 DEF RowFine, RowState, RowBacked
    <3> QED
      BY <1>4, <3>1, <3>2 DEF Flush
  <2> HIDE DEF d
  <2>4. /\ d.ckpt \subseteq OnDisk /\ d.pend \subseteq OnDisk /\ d.snap \subseteq OnDisk
        /\ d.end = dl[g].end \/ d.end # "finish"
        /\ active' \in {active, None} /\ UNCHANGED <<ino, data, ranges, go, rd, ev>>
    BY <1>2, <2>1, <2>2
  <2> QED
    BY <2>1, <2>2, <2>3, <2>4, BackgroundKept
<1>5. CASE CancelPut(g)
  <2> DEFINE k == [dl[g] EXCEPT !.cancel = "none", !.snap = {}]
             d == [k EXCEPT !.closed = TRUE]
  <2>1. /\ k \in DlState /\ k.used = dl[g].used /\ k.ino = dl[g].ino /\ k.done = dl[g].done
        /\ k.err = dl[g].err /\ k.ckpt = dl[g].ckpt /\ k.pend = dl[g].pend /\ k.snap = {}
        /\ k.end = dl[g].end
    BY <1>1 DEF DlState
  <2>2. dl' = [dl EXCEPT ![g] = d] /\ UNCHANGED <<ino, data, active, ranges, go, rd, ev>>
    BY <1>5 DEF CancelPut
  <2> HIDE DEF k
  <2>3. /\ d \in DlState /\ d.used = k.used /\ d.ino = k.ino /\ d.done = k.done
        /\ d.err = k.err /\ d.ckpt = k.ckpt /\ d.pend = k.pend /\ d.snap = k.snap
        /\ d.end = k.end
    BY <2>1 DEF DlState
  <2>4. RowFine(row')
    BY <1>2, <1>3, <1>5 DEF CancelPut
  <2> HIDE DEF d
  <2>5. /\ d.used = dl[g].used /\ d.ino = dl[g].ino /\ d.done = dl[g].done /\ d.err = dl[g].err
        /\ d.ckpt \subseteq OnDisk /\ d.pend \subseteq OnDisk /\ d.snap \subseteq OnDisk
        /\ d.end = dl[g].end \/ d.end # "finish"
        /\ active' \in {active, None} /\ UNCHANGED <<ino, data, ranges, go, rd, ev>>
    BY <1>2, <2>1, <2>2, <2>3
  <2> QED
    BY <2>2, <2>3, <2>4, <2>5, BackgroundKept
<1>6. ASSUME NEW end \in {"none", "delete", "put"}, NEW closed \in BOOLEAN,
             dl' = [dl EXCEPT ![g].end = end, ![g].closed = closed],
             RowFine(row'), active' \in {active, None},
             UNCHANGED <<ino, data, ranges, go, rd, ev>>
      PROVE  DiskInv'
  <2> DEFINE d == [dl[g] EXCEPT !.end = end, !.closed = closed]
  <2>1. /\ d \in DlState /\ d.used = dl[g].used /\ d.ino = dl[g].ino /\ d.done = dl[g].done
        /\ d.err = dl[g].err /\ d.ckpt = dl[g].ckpt /\ d.pend = dl[g].pend /\ d.snap = dl[g].snap
        /\ d.end = end
    BY <1>1 DEF DlState
  <2>2. dl' = [dl EXCEPT ![g] = d]
    BY <1>6
  <2> HIDE DEF d
  <2>3. /\ d.ckpt \subseteq OnDisk /\ d.pend \subseteq OnDisk /\ d.snap \subseteq OnDisk
        /\ d.end = dl[g].end \/ d.end # "finish"
    BY <1>2, <2>1
  <2> QED
    BY <1>6, <2>1, <2>2, <2>3, BackgroundKept
<1>7. CASE FinishPut(g)
  <2>1. /\ dl' = [dl EXCEPT ![g].end = "delete", ![g].closed = TRUE]
        /\ row' = [state |-> "clean", ranges |-> ranges[g]]
        /\ UNCHANGED <<ino, data, active, ranges, go, rd, ev>> /\ dl[g].end = "finish"
    BY <1>7 DEF FinishPut
  <2>2. ranges[g] = Chunks /\ OnDisk = Chunks
    BY <1>1, <2>1 DEF DlBacked
  <2>3. RowFine(row')
    BY <2>1, <2>2 DEF RowFine, RowState, RowBacked
  <2> QED
    BY <1>6, <2>1, <2>3
<1>8. CASE FinishDelete(g) \/ LateDelete(g)
  <2>1. dl \in [Gens -> DlState] /\ dl[g].closed \in BOOLEAN
    BY <1>1, DlFacts DEF DlState
  <2>2. \A end : [dl EXCEPT ![g].end = end] = [dl EXCEPT ![g].end = end, ![g].closed = dl[g].closed]
    BY <2>1 DEF DlState
  <2>3. /\ dl' = [dl EXCEPT ![g].end = "none"] \/ dl' = [dl EXCEPT ![g].end = "put"]
        /\ active' = None /\ UNCHANGED <<row, ino, data, ranges, go, rd, ev>>
    BY <1>8 DEF FinishDelete, LateDelete
  <2> QED
    BY <1>1, <1>6, <2>1, <2>2, <2>3
<1>9. CASE LatePut(g)
  <2>1. /\ dl' = [dl EXCEPT ![g].end = "none", ![g].closed = TRUE]
        /\ row' = [state |-> "evicted", ranges |-> ranges[g]]
        /\ UNCHANGED <<ino, data, active, ranges, go, rd, ev>>
    BY <1>9 DEF LatePut
  <2>2. RowFine(row')
    BY <1>1, <1>3, <2>1 DEF DlBacked
  <2> QED
    BY <1>6, <2>1, <2>2
<1> QED
  BY <1>4, <1>5, <1>7, <1>8, <1>9 DEF Background

\* Collecting a Download that nothing refers to loses nothing: its file is the
\* cache file.
LEMMA CollectStep ==
    ASSUME DiskInv, NEW g \in Gens, Collect(g)
    PROVE  DiskInv'
<1>1. /\ dl' = [dl EXCEPT ![g] = NoDl] /\ ranges' = [ranges EXCEPT ![g] = {}]
      /\ UNCHANGED <<row, ino, active, go, rd, ev>>
      /\ dl[g].used /\ active # g /\ Alive(g) = {} /\ \A c \in Callers : rd[c].g # g
      /\ dl \in [Gens -> DlState] /\ ranges \in [Gens -> SUBSET Chunks]
  BY DlFacts DEF Collect
<1>2. data' = data
  <2>1. dl[g].ino = ino /\ data \in [Inodes -> SUBSET Chunks]
    BY <1>1, DlFacts DEF DlBacked, DiskInv, FileFine
  <2>2. data' = [i \in Inodes |-> IF i = dl[g].ino /\ i # ino THEN {} ELSE data[i]]
    BY DEF Collect
  <2> QED
    BY <2>1, <2>2
<1>3. NoDl \in DlState /\ DlBacked(NoDl, {}, ino, OnDisk) /\ {} \in SUBSET Chunks
  BY DEF NoDl, DlState, DlBacked, Chunks
<1>4. /\ dl' \in [Gens -> DlState] /\ \A h \in Gens : dl'[h] = IF h = g THEN NoDl ELSE dl[h]
      /\ ranges' \in [Gens -> SUBSET Chunks]
      /\ \A h \in Gens : ranges'[h] = IF h = g THEN {} ELSE ranges[h]
  BY <1>1, <1>3
<1>5. DlFine(dl', ranges')
  BY <1>3, <1>4 DEF DiskInv, DlFine
<1>6. ActiveFine(active', dl')
  BY <1>1, <1>4 DEF DiskInv, ActiveFine
<1>7. GoFine(go', dl')
  BY <1>1, <1>4 DEF DiskInv, GoFine, Alive
<1>8. RdFine(rd', dl')
  BY <1>1, <1>4 DEF DiskInv, RdFine, RdState
<1> QED
  BY <1>1, <1>2, <1>5, <1>6, <1>7, <1>8, FileKept DEF DiskInv

\* After a crash the row claims what it had claimed before, or nothing.
LEMMA CrashStep ==
    ASSUME DiskInv, Crash
    PROVE  DiskInv'
<1>1. /\ NoDl \in DlState /\ DlBacked(NoDl, {}, ino, OnDisk)
      /\ NoGo \in GoState /\ GoBacked(NoGo, OnDisk) /\ NoGo.pc = "off"
      /\ NoRd \in RdState /\ RdBacked(NoRd, ino, OnDisk) /\ NoRd.g = None
  BY DEF NoDl, DlState, DlBacked, NoGo, GoState, GoBacked, NoRd, RdState, RdBacked, Chunks
<1>2. RowFine(row')
  <2>1. RowFine(row) /\ RowFine([state |-> "evicted", ranges |-> {}])
    BY DEF DiskInv, RowFine, RowState, RowBacked
  <2> QED
    BY <2>1 DEF Crash
<1>3. DlFine(dl', ranges') /\ ActiveFine(active', dl')
  BY <1>1 DEF Crash, DlFine, ActiveFine
<1>4. GoFine(go', dl')
  BY <1>1 DEF Crash, GoFine
<1>5. RdFine(rd', dl')
  BY <1>1 DEF Crash, RdFine
<1>6. UNCHANGED <<ino, data, ev>>
  BY DEF Crash, DiskInv
<1> QED
  BY <1>2, <1>3, <1>4, <1>5, <1>6, FileKept

-----------------------------------------------------------------------------

\* so every step does.
LEMMA DiskStep ==
    ASSUME DiskInv, LoneOpen, Evictions = {}, [Next]_vars
    PROVE  DiskInv'
<1>1. CASE UNCHANGED vars
  <2>1. UNCHANGED <<row, ino, data, active, dl, ranges, go, rd, ev>>
    BY <1>1 DEF vars
  <2> QED
    BY <2>1, FileKept DEF DiskInv
<1>2. ASSUME NEW c \in Callers, Caller(c)
      PROVE  DiskInv'
  BY <1>2, LookupStep, StatStep, CreateStep, LoadStep, RegisterStep, SetStateStep, SpawnStep,
     OpenStep, ReadBeginStep, ReadWakeStep, ReadRespawnStep, ReadServeStep, ReleaseStep,
     ReleaseCancelStep DEF Caller, Starting, Waiting
<1>3. CASE Foreground
  <2>1. UNCHANGED <<row, ino, data, active, dl, ranges, go, rd, ev>>
    BY <1>3 DEF Foreground
  <2> QED
    BY <2>1, FileKept DEF DiskInv
<1>4. ~Eviction /\ ~EvictCommand /\ ~EvictLRU
  BY DEF DiskInv, NoEvict, Eviction, EvictCancelled, EvictRemove, EvictMark, EvictCommand, EvictLRU
<1> QED
  BY <1>1, <1>2, <1>3, <1>4, GoroutineStep, BackgroundStep, CollectStep, OfflineStep, CrashStep
     DEF Next, Environment

\* The first state has no cache file and claims nothing.
LEMMA DiskStart == Init => DiskInv
<1> SUFFICES ASSUME Init
             PROVE  DiskInv
  OBVIOUS
<1>1. OnDisk = {} /\ FileFine /\ ev = NoEvict
  BY DEF Init, OnDisk, FileFine
<1>2. /\ NoDl \in DlState /\ DlBacked(NoDl, {}, ino, OnDisk)
      /\ NoGo \in GoState /\ GoBacked(NoGo, OnDisk) /\ NoGo.pc = "off"
      /\ NoRd \in RdState /\ RdBacked(NoRd, ino, OnDisk) /\ NoRd.g = None
  BY DEF NoDl, DlState, DlBacked, NoGo, GoState, GoBacked, NoRd, RdState, RdBacked, Chunks
<1>3. RowFine(row)
  BY DEF Init, RowFine, RowState, RowBacked
<1>4. DlFine(dl, ranges) /\ ActiveFine(active, dl)
  BY <1>2 DEF Init, DlFine, ActiveFine
<1>5. GoFine(go, dl) /\ RdFine(rd, dl)
  BY <1>2 DEF Init, GoFine, RdFine
<1> QED
  BY <1>1, <1>3, <1>4, <1>5 DEF DiskInv

\* The invariant holds at all times.
LEMMA DiskInvariant ==
    ASSUME LoneOpen, Evictions = {}
    PROVE  Spec => []DiskInv
<1>1. DiskInv /\ [Next]_vars => DiskInv'
  BY DiskStep
<1> QED
  BY <1>1, DiskStart, PTL DEF Spec

\* Every chunk that a range set or the row claims is in the cache file, however
\* many Downloads of the path follow or overlap each other, are cancelled, fail,
\* checkpoint their ranges late or are cut off by a crash; provided that nobody
\* evicts the file and OpenOrCreate's stat and create are not interleaved
\* (manager.go: downloadLoop, cancel, finish, flushCheckpoints, Start).
THEOREM ClaimsOnDisk ==
    ASSUME LoneOpen, Evictions = {}
    PROVE  Spec => []RangesOnDisk
<1>1. Spec => []DiskInv
  BY DiskInvariant
<1>2. DiskInv => RangesOnDisk
  <2> SUFFICES ASSUME DiskInv
               PROVE  RangesOnDisk
    OBVIOUS
  <2>1. \A g \in Gens : dl[g].used => ranges[g] \subseteq data[dl[g].ino]
    BY DlFacts DEF DlBacked, OnDisk
  <2>2. row.ranges # {} => ino # None /\ row.ranges \subseteq data[ino]
    BY DEF DiskInv, RowFine, RowBacked, OnDisk
  <2> QED
    BY <2>1, <2>2 DEF RangesOnDisk
<1> QED
  BY <1>1, <1>2, PTL

\* A row marked clean has a complete cache file, whichever Download wrote the
\* row last, under the same provisos (manager.go: finish, cancel).
THEOREM CleanFileIsComplete ==
    ASSUME LoneOpen, Evictions = {}
    PROVE  Spec => []CleanIsComplete
<1>1. Spec => []DiskInv
  BY DiskInvariant
<1>2. DiskInv => CleanIsComplete
  <2> SUFFICES ASSUME DiskInv, row.state = "clean"
               PROVE  ino # None /\ data[ino] = Chunks
    BY DEF CleanIsComplete
  <2>1. OnDisk = Chunks
    BY DEF DiskInv, RowFine, RowBacked
  <2>2. Chunks # {}
    BY DEF Chunks
  <2> QED
    BY <2>1, <2>2 DEF OnDisk
<1> QED
  BY <1>1, <1>2, PTL

\* No read is answered from a gap of the file it has open, under the same
\* provisos (node.go: Read; manager.go: waitForRange).
THEOREM ReadsSeeData ==
    ASSUME LoneOpen, Evictions = {}
    PROVE  Spec => []ServedFromDisk
<1>1. Spec => []DiskInv
  BY DiskInvariant
<1>2. DiskInv => ServedFromDisk
  <2> SUFFICES ASSUME DiskInv, NEW c \in Readers, rd[c].pc = "serve"
               PROVE  rd[c].at \in data[rd[c].ino]
    BY DEF ServedFromDisk
  <2>1. rd[c].ino # None /\ rd[c].ino \in {None, ino} /\ rd[c].at \in OnDisk
    BY RdFacts DEF RdBacked, Callers
  <2> QED
    BY <2>1 DEF OnDisk
<1> QED
  BY <1>1, <1>2, PTL

=============================================================================
