------------------------------ MODULE DriveIds ------------------------------
(***************************************************************************)
(* The Google Drive adapter (internal/remote/gdrive/gdrive.go). Drive      *)
(* knows objects by identifier, with a name and a parent, and allows two   *)
(* objects of one name; the mount speaks paths. The adapter keeps a table  *)
(* path -> identifier in the metadata database, fills it while it walks a  *)
(* path, lists a directory, creates one or renames, and trusts it without  *)
(* asking Drive again.                                                     *)
(*                                                                         *)
(* A call is a sequence of steps: one query or request to Drive, or one    *)
(* statement on the table. Calls of several goroutines interleave.         *)
(*                                                                         *)
(* The adapter keeps the promise of RemoteTree only under circumstances    *)
(* that its callers do not ensure; Admits names the ones a run lets in:    *)
(*   "race"     a call on a path another call is changing                  *)
(*   "lost"     a request whose effect stays without its reply or without  *)
(*              the statement that follows it                              *)
(*   "dirmove"  Delete or Rename of a directory with cached descendants    *)
(*   "onto"     Mkdir or Rename onto a name in use                         *)
(*   "blindput" a failing lookup in Put                                    *)
(*   "peer"     another client removes or moves a cached object, or        *)
(*              creates one where a call is about to                       *)
(***************************************************************************)
EXTENDS Integers, Sequences, FiniteSets

CONSTANTS
    Paths,        \* relative paths, sequences of one or two names
    Vers,         \* contents of files
    Ids,          \* identifiers Drive can hand out; none is used twice
    Engines,      \* goroutines that change the remote
    Readers,      \* goroutines that only look up and read
    RootName,     \* the configured root folder, one path segment
    Admits        \* circumstances let in

Circumstances == {"race", "lost", "dirmove", "onto", "blindput", "peer"}

ASSUME DriveAssumption ==
    /\ \A p \in Paths : p = <<p[1]>> \/ (p = <<p[1], p[2]>> /\ <<p[1]>> \in Paths)
    /\ {"none", "top"} \cap Ids = {}
    /\ Engines \cap Readers = {}
    /\ Admits \subseteq Circumstances

VARIABLES
    obj,          \* Drive: the object of each identifier
    ids,          \* table drive_path_ids
    rootID,       \* GDriveAdapter.rootID
    call          \* the adapter call each goroutine is in

vars == <<obj, ids, rootID, call>>

None    == "none"         \* no row, no identifier
Top     == "top"          \* the folder that is the configured root
Unused  == [kind |-> "unused"]
Gone    == [kind |-> "gone"]
Callers == Engines \cup Readers
Keys    == Paths \cup {<<RootName>>}

Parent(p)   == SubSeq(p, 1, Len(p) - 1)
Name(p)     == p[Len(p)]
Under(p, q) == Len(p) <= Len(q) /\ SubSeq(q, 1, Len(p)) = p

Object == [kind : {"file"}, parent : Ids \cup {Top}, name : {Name(p) : p \in Paths}, ver : Vers]
     \cup [kind : {"dir"}, parent : Ids \cup {Top}, name : {Name(p) : p \in Paths}]

Idle == [op |-> "none", path |-> <<>>, dst |-> <<>>, ver |-> None, pc |-> "idle",
         want |-> <<>>, seg |-> 0, at |-> None, id |-> None, par |-> None, todo |-> {}]

TypeOK ==
    /\ obj \in [Ids -> Object \cup {Unused, Gone}]
    /\ ids \in [Keys -> Ids \cup {None, Top}]
    /\ rootID \in Ids \cup {Top}
    /\ \A c \in Callers :
        /\ call[c].op \in {"none", "get", "list", "put", "mkdir", "delete", "rename"}
        /\ call[c].pc \in {"idle", "resolve", "walk", "store", "parents", "api",
                           "unmap", "map", "listed"}
        /\ call[c].path \in Paths \cup {<<>>} /\ call[c].dst \in Paths \cup {<<>>}
        /\ call[c].ver \in Vers \cup {None}
        /\ call[c].want \in Paths \cup {<<>>} /\ call[c].seg \in 0..2
        /\ {call[c].at, call[c].id, call[c].par} \subseteq Ids \cup {None, Top}
        /\ call[c].pc = "walk" => call[c].at # None
        /\ call[c].todo \subseteq Ids

-----------------------------------------------------------------------------
(* Drive.                                                                  *)

Exists(i) == i = Top \/ (i \in Ids /\ obj[i] \notin {Unused, Gone})

\* Only a folder can be a parent.
Folder(i) == i = Top \/ (i \in Ids /\ obj[i].kind = "dir")

Children(i) == {j \in Ids : Exists(j) /\ obj[j].parent = i}

\* The objects a query "name = n in parents of i" finds.
Named(i, n) == {j \in Children(i) : obj[j].name = n}

\* The objects that are at path p, read from the root by names.
At(p) == IF Len(p) = 1 THEN Named(Top, p[1])
         ELSE UNION {Named(i, p[2]) : i \in {j \in Named(Top, p[1]) : obj[j].kind = "dir"}}

Free(p) == At(p) = {}

\* Below a folder and its subfolders.
Below(i) == Children(i) \cup UNION {Children(j) : j \in Children(i)}

\* Files.Delete removes a folder with all that it contains.
Erased(i) == [j \in Ids |-> IF j = i \/ j \in Below(i) THEN Gone ELSE obj[j]]

-----------------------------------------------------------------------------
(* Calls.                                                                  *)

\* A call under way involves path p, or a path above or below it.
Touches(k, p) == \E q \in {k.path} \cup IF k.op = "rename" THEN {k.dst} ELSE {} :
                    k.op # "none" /\ (Under(p, q) \/ Under(q, p))

Changes(op) == op \in {"put", "mkdir", "delete", "rename"}
Removes(op) == op \in {"delete", "rename"}

\* The overlap that "race" lets in: a path is removed while another call uses
\* it, or two calls change it.
Overlaps(c, op, p) ==
    \E e \in Callers \ {c} :
        /\ Touches(call[e], p)
        /\ Removes(op) \/ Removes(call[e].op) \/ (Changes(op) /\ Changes(call[e].op))

CachedBelow(p) == \E q \in Paths : q # p /\ Under(p, q) /\ ids[q] # None

Begin(c, op, p, d, v, want) ==
    /\ call[c] = Idle
    /\ "race" \in Admits \/ \A q \in {p} \cup IF op = "rename" THEN {d} ELSE {} :
                                ~Overlaps(c, op, q)
    /\ call' = [call EXCEPT ![c] = [Idle EXCEPT !.op = op, !.path = p, !.dst = d, !.ver = v,
                                                !.pc = "resolve", !.want = want]]
    /\ UNCHANGED <<obj, ids, rootID>>

\* Stat, Get and GetRange look the path up and ask Drive for the object.
GetBegin(c, p) == Begin(c, "get", p, <<>>, None, p)

\* List of the root or of a directory.
ListBegin(c, p) == c \in Engines /\ Begin(c, "list", p, <<>>, None, p)

\* Put looks up the parent first.
PutBegin(c, p, v) == c \in Engines /\ Begin(c, "put", p, <<>>, v, Parent(p))

MkdirBegin(c, p) ==
    /\ c \in Engines
    /\ "onto" \in Admits \/ Free(p)
    /\ Begin(c, "mkdir", p, <<>>, None, Parent(p))

DeleteBegin(c, p) ==
    /\ c \in Engines
    /\ "dirmove" \in Admits \/ ~CachedBelow(p)
    /\ Begin(c, "delete", p, <<>>, None, p)

RenameBegin(c, p, d) ==
    /\ c \in Engines /\ ~Under(p, d) /\ ~Under(d, p)
    /\ Len(d) = 2 => \A i \in At(p) : Children(i) = {}    \* bound: depth two
    /\ "onto" \in Admits \/ Free(d)
    /\ "dirmove" \in Admits \/ ~CachedBelow(p)
    /\ Begin(c, "rename", p, d, None, p)

Goto(c, k) == call' = [call EXCEPT ![c] = k]

\* Where a call goes on once a lookup has answered i.
Resolved(k, i) ==
    LET r == [k EXCEPT !.want = <<>>, !.seg = 0, !.at = None, !.pc = "api"] IN
    CASE k.op = "put" /\ k.par = None ->
            [r EXCEPT !.par = i, !.want = k.path, !.pc = "resolve"]
      [] k.op = "rename" /\ k.id = None -> [r EXCEPT !.id = i, !.pc = "parents"]
      [] k.op = "rename" /\ k.id # None -> [r EXCEPT !.par = i]
      [] k.op = "mkdir" -> [r EXCEPT !.par = i]
      [] OTHER -> [r EXCEPT !.id = i]

\* A lookup that fails ends the call, except the second one of Put, whose
\* error is ignored: Put takes the file as new.
Unresolved(k) ==
    IF k.op = "put" /\ k.par # None
    THEN [k EXCEPT !.want = <<>>, !.seg = 0, !.at = None, !.pc = "api"]
    ELSE Idle

\* resolveID begins: the root, a cached path, or a walk from the root.
Resolve(c) ==
    LET k == call[c] IN
    /\ k.pc = "resolve"
    /\ Goto(c, IF k.want = <<>> THEN Resolved(k, rootID)
               ELSE IF ids[k.want] # None THEN Resolved(k, ids[k.want])
               ELSE [k EXCEPT !.pc = "walk", !.seg = 1, !.at = rootID])
    /\ UNCHANGED <<obj, ids, rootID>>

Segment(k) == SubSeq(k.want, 1, k.seg)

\* The next segment, or the end of the walk at identifier i.
Advance(k, i) ==
    IF k.seg = Len(k.want) THEN Resolved(k, i)
    ELSE [k EXCEPT !.pc = "walk", !.seg = @ + 1, !.at = i]

\* One segment of the walk: a cached one is taken as it is; otherwise Drive is
\* asked, for folders only unless it is the last one, and answers with one of
\* the objects of that name.
Walk(c) ==
    LET k    == call[c]
        hits == {j \in Named(k.at, k.want[k.seg]) :
                    k.seg < Len(k.want) => obj[j].kind = "dir"} IN
    /\ k.pc = "walk"
    /\ IF ids[Segment(k)] # None
       THEN Goto(c, Advance(k, ids[Segment(k)]))
       ELSE IF hits = {}
       THEN Goto(c, Unresolved(k))
       ELSE \E j \in hits : Goto(c, [k EXCEPT !.pc = "store", !.at = j])
    /\ UNCHANGED <<obj, ids, rootID>>

\* The query fails without an answer.
WalkError(c) ==
    LET k == call[c] IN
    /\ k.pc = "walk" /\ ids[Segment(k)] = None
    /\ "blindput" \in Admits \/ Unresolved(k) = Idle
    /\ Goto(c, Unresolved(k))
    /\ UNCHANGED <<obj, ids, rootID>>

\* Mutant: the walk caches its intermediate folders under the whole path.
WalkStoreWhole(c) ==
    LET k == call[c] IN
    /\ k.pc = "store"
    /\ ids' = [ids EXCEPT ![k.want] = k.at]
    /\ Goto(c, Advance(k, k.at))
    /\ UNCHANGED <<obj, rootID>>

\* The walk caches the answer under the path walked so far.
WalkStore(c) ==
    LET k == call[c] IN
    /\ k.pc = "store"
    /\ ids' = [ids EXCEPT ![Segment(k)] = k.at]
    /\ Goto(c, Advance(k, k.at))
    /\ UNCHANGED <<obj, rootID>>

\* Rename asks for the current parents and then looks up the new one.
RenameParents(c) ==
    LET k == call[c] IN
    /\ k.pc = "parents"
    /\ Goto(c, IF Exists(k.id)
               THEN [k EXCEPT !.pc = "resolve", !.want = Parent(k.dst)]
               ELSE Idle)
    /\ UNCHANGED <<obj, ids, rootID>>

-----------------------------------------------------------------------------
(* The request itself. It succeeds, and the call goes on to k; or, under   *)
(* "lost", it takes effect and the reply is an error.                      *)

Answered(c, k) == \E r \in {k} \cup (IF "lost" \in Admits THEN {Idle} ELSE {}) : Goto(c, r)

\* Stat, Get or GetRange of the object.
GetApi(c) ==
    /\ call[c].op = "get" /\ call[c].pc = "api"
    /\ Goto(c, Idle)
    /\ UNCHANGED <<obj, ids, rootID>>

\* List takes the children of the folder, then caches them one by one.
ListApi(c) ==
    LET k == call[c] IN
    /\ k.op = "list" /\ k.pc = "api"
    /\ Goto(c, IF Children(k.id) = {} THEN Idle
               ELSE [k EXCEPT !.pc = "listed", !.todo = Children(k.id)])
    /\ UNCHANGED <<obj, ids, rootID>>

ListStore(c) ==
    LET k == call[c] IN
    /\ k.pc = "listed"
    /\ \E j \in k.todo :
        /\ ids' = [ids EXCEPT ![Append(k.path, obj[j].name)] = j]
        /\ Goto(c, IF k.todo = {j} THEN Idle ELSE [k EXCEPT !.todo = @ \ {j}])
    /\ UNCHANGED <<obj, rootID>>

Fresh == {i \in Ids : obj[i] = Unused}

\* Mutant: Put does not tell update from create.
PutUpdateCreates(c) ==
    LET k == call[c] IN
    /\ k.op = "put" /\ k.pc = "api" /\ k.id # None
    /\ Folder(k.par)
    /\ \E i \in Fresh :
        obj' = [obj EXCEPT ![i] = [kind |-> "file", parent |-> k.par, name |-> Name(k.path),
                                   ver |-> k.ver]]
    /\ Goto(c, Idle)
    /\ UNCHANGED <<ids, rootID>>

\* Put of a file that was found: new contents, and the name of the path.
PutUpdate(c) ==
    LET k == call[c] IN
    /\ k.op = "put" /\ k.pc = "api" /\ k.id # None
    /\ Exists(k.id) /\ obj[k.id].kind = "file"
    /\ obj' = [obj EXCEPT ![k.id].ver = k.ver, ![k.id].name = Name(k.path)]
    /\ Answered(c, Idle)
    /\ UNCHANGED <<ids, rootID>>

\* Put of a file that was not found. The new identifier is not cached.
PutCreate(c) ==
    LET k == call[c] IN
    /\ k.op = "put" /\ k.pc = "api" /\ k.id = None
    /\ Folder(k.par)
    /\ \E i \in Fresh :
        obj' = [obj EXCEPT ![i] = [kind |-> "file", parent |-> k.par, name |-> Name(k.path),
                                   ver |-> k.ver]]
    /\ Answered(c, Idle)
    /\ UNCHANGED <<ids, rootID>>

\* Mkdir creates a folder and then caches it.
MkdirApi(c) ==
    LET k == call[c] IN
    /\ k.op = "mkdir" /\ k.pc = "api"
    /\ Folder(k.par)
    /\ \E i \in Fresh :
        /\ obj' = [obj EXCEPT ![i] = [kind |-> "dir", parent |-> k.par, name |-> Name(k.path)]]
        /\ Answered(c, [k EXCEPT !.pc = "map", !.id = i])
    /\ UNCHANGED <<ids, rootID>>

DeleteApi(c) ==
    LET k == call[c] IN
    /\ k.op = "delete" /\ k.pc = "api"
    /\ Exists(k.id)
    /\ obj' = Erased(k.id)
    /\ Answered(c, [k EXCEPT !.pc = "unmap"])
    /\ UNCHANGED <<ids, rootID>>

\* Mutant: the row of the old path stays.
RenameApiKeepsRow(c) ==
    LET k == call[c] IN
    /\ k.op = "rename" /\ k.pc = "api"
    /\ Exists(k.id) /\ Folder(k.par)
    /\ obj' = [obj EXCEPT ![k.id].name = Name(k.dst), ![k.id].parent = k.par]
    /\ Answered(c, [k EXCEPT !.pc = "map"])
    /\ UNCHANGED <<ids, rootID>>

\* Rename gives the object the new name and its new parent instead of the old.
RenameApi(c) ==
    LET k == call[c] IN
    /\ k.op = "rename" /\ k.pc = "api"
    /\ Exists(k.id) /\ Folder(k.par)
    /\ obj' = [obj EXCEPT ![k.id].name = Name(k.dst), ![k.id].parent = k.par]
    /\ Answered(c, [k EXCEPT !.pc = "unmap"])
    /\ UNCHANGED <<ids, rootID>>

\* A request that fails without effect, or that Drive refuses because the
\* object is gone, ends the call and leaves the table as it is.
ApiError(c) ==
    /\ call[c].pc \in {"parents", "api"}
    /\ Goto(c, Idle)
    /\ UNCHANGED <<obj, ids, rootID>>

\* DeleteDriveID after Delete and Rename.
Unmap(c) ==
    LET k == call[c] IN
    /\ k.pc = "unmap"
    /\ ids' = [ids EXCEPT ![k.path] = None]
    /\ Goto(c, IF k.op = "rename" THEN [k EXCEPT !.pc = "map"] ELSE Idle)
    /\ UNCHANGED <<obj, rootID>>

\* PutDriveID after Mkdir and Rename.
Map(c) ==
    LET k == call[c] IN
    /\ k.pc = "map"
    /\ ids' = [ids EXCEPT ![IF k.op = "rename" THEN k.dst ELSE k.path] = k.id]
    /\ Goto(c, Idle)
    /\ UNCHANGED <<obj, rootID>>

-----------------------------------------------------------------------------
(* Restarts and other clients.                                             *)

\* The mount process ends, at any moment, and New resolves the root again:
\* from the table, where the root folder shares its key with a relative path.
Restart ==
    /\ "lost" \in Admits \/ \A c \in Callers : call[c].pc \notin {"unmap", "map"}
    /\ call' = [c \in Callers |-> Idle]
    /\ rootID' = IF ids[<<RootName>>] # None THEN ids[<<RootName>>] ELSE Top
    /\ ids' = [ids EXCEPT ![<<RootName>>] = rootID']
    /\ UNCHANGED obj

\* Another client changes what the adapter holds no identifier of.
Unheeded(p) ==
    \/ "peer" \in Admits
    \/ /\ \A q \in Paths : Under(p, q) => ids[q] = None
       /\ \A c \in Callers : ~Touches(call[c], p)

PeerWrite(i, v) ==
    /\ Exists(i) /\ obj[i].kind = "file"
    /\ obj' = [obj EXCEPT ![i].ver = v]
    /\ UNCHANGED <<ids, rootID, call>>

PeerCreate(p, v) ==
    /\ Free(p) /\ Unheeded(p)
    /\ \E i \in Fresh, d \in IF Len(p) = 1 THEN {Top}
                             ELSE {j \in At(Parent(p)) : obj[j].kind = "dir"} :
        obj' = [obj EXCEPT ![i] = [kind |-> "file", parent |-> d, name |-> Name(p), ver |-> v]]
    /\ UNCHANGED <<ids, rootID, call>>

PeerDelete(p, i) ==
    /\ i \in At(p) /\ Unheeded(p)
    /\ obj' = Erased(i)
    /\ UNCHANGED <<ids, rootID, call>>

-----------------------------------------------------------------------------
Init ==
    /\ obj = [i \in Ids |-> Unused]
    /\ ids = [k \in Keys |-> IF k = <<RootName>> THEN Top ELSE None]
    /\ rootID = Top
    /\ call = [c \in Callers |-> Idle]

Step(c) == Resolve(c) \/ Walk(c) \/ WalkError(c) \/ WalkStore(c) \/ RenameParents(c)
           \/ GetApi(c) \/ ListApi(c) \/ ListStore(c) \/ PutUpdate(c) \/ PutCreate(c)
           \/ MkdirApi(c) \/ DeleteApi(c) \/ RenameApi(c) \/ ApiError(c) \/ Unmap(c) \/ Map(c)

Start(c) == \E p \in Paths : \/ GetBegin(c, p) \/ MkdirBegin(c, p) \/ DeleteBegin(c, p)
                             \/ \E v \in Vers : PutBegin(c, p, v)
                             \/ \E d \in Paths : RenameBegin(c, p, d)

Lists(c) == \E p \in Paths \cup {<<>>} : Len(p) < 2 /\ ListBegin(c, p)

Peer == \/ \E i \in Ids, v \in Vers : PeerWrite(i, v)
        \/ \E p \in Paths : \/ \E v \in Vers : PeerCreate(p, v)
                            \/ \E i \in Ids : PeerDelete(p, i)

Next == Restart \/ Peer \/ \E c \in Callers : Step(c) \/ Start(c) \/ Lists(c)

Spec == Init /\ [][Next]_vars

-----------------------------------------------------------------------------
(* Correctness.                                                            *)

\* Every row of drive_path_ids names an object that is at its path, walked
\* from the configured root by names, except while the call that moved or
\* deleted the object is about to drop the row (resolveID trusts the rows
\* without asking Drive).
CacheExact ==
    /\ \A p \in Paths :
        \/ ids[p] \in {None} \cup At(p)
        \/ \E c \in Callers : call[c].pc = "unmap" /\ call[c].path = p
    /\ rootID = Top

\* The object a request is sent to is at the path of the call at that moment,
\* although it was looked up steps before (gdrive.go: Put, Delete, Rename).
ActsOnItsPath ==
    \A c \in Callers :
        call[c].pc = "api" /\ Changes(call[c].op) /\ call[c].id # None
            => call[c].id \in At(call[c].path)

Ambiguous == [kind |-> "ambiguous"]

\* The tree of paths that Drive's objects form; two objects of one path are
\* no tree.
TreeAt(p) == IF At(p) = {} THEN [kind |-> "absent"]
             ELSE IF Cardinality(At(p)) > 1 THEN Ambiguous
             ELSE LET i == CHOOSE i \in At(p) : TRUE IN
                  IF obj[i].kind = "dir" THEN [kind |-> "dir"]
                  ELSE [kind |-> "file", ver |-> obj[i].ver]

Tree == INSTANCE RemoteTree WITH tree <- [p \in Paths |-> TreeAt(p)]

\* The adapter with its table of identifiers, its walks and its separate
\* requests implements the tree of paths that its interface promises
\* (adapter.go: RemoteAdapter).
TreeImplemented == Tree!Spec
=============================================================================
