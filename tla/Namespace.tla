----------------------------- MODULE Namespace ------------------------------
(***************************************************************************)
(* Directories, renames and deletions: what the FUSE nodes                 *)
(* (internal/fuse/node.go) and the cache layer (internal/cache/cache.go)   *)
(* do to the metadata rows, the cache directory and the queue of pending   *)
(* operations, and how the engine (internal/sync/engine.go) uploads,       *)
(* replays that queue and pulls the remote tree. The remote is RemoteTree. *)
(*                                                                         *)
(* One file at a time is the matter of module FileSync: here an upload is  *)
(* one step, and file contents do not change after creation.               *)
(*                                                                         *)
(* Admits names uses that nothing in the code rules out and that break the *)
(* properties below:                                                       *)
(*   "unsent"   delete or rename of something the remote does not have     *)
(*              (yet, or any more) under that name                         *)
(*   "recreate" creation where a pending operation deletes or moves away   *)
(*   "onto"     rename onto an existing path                               *)
(*   "hollow"   rmdir of a directory whose contents are on the remote only *)
(*   "subtree"  rename of a directory with contents not yet uploaded       *)
(*   "hidden"   creation at a path whose file a directory rename has       *)
(*              hidden, or below which such a rename has left rows         *)
(*   "revived"  use of what a pull has brought back before its deletion    *)
(*              or rename is replayed                                      *)
(*   "overtake" a remote call fails and the replay goes on with a later    *)
(*              operation on the same part of the tree                     *)
(*   "lost"     a crash between a remote operation and its completion      *)
(***************************************************************************)
EXTENDS Integers, Sequences

Seqs == INSTANCE SequencesExt

CONSTANTS
    Paths,        \* the paths, sequences of names
    Limit,        \* pending operations replayed in a cycle (10 in the code)
    MaxOps,       \* bound on what the user does
    MaxFaults,    \* bound on failing remote calls and crashes
    Admits        \* circumstances let in

Vers == 0..MaxOps

VARIABLES
    tree,         \* the remote
    rows,         \* the files table: kind and state of each path
    disk,         \* the cache directory
    ops,          \* pending_ops, ordered by id
    user,         \* what the user has made of the tree
    w,            \* the engine's loop
    used,         \* user operations so far, the source of ids and contents
    faults        \* failed remote calls and crashes so far

vars == <<tree, rows, disk, ops, user, w, used, faults>>

Remote == INSTANCE RemoteTree
Absent == Remote!Absent
Dir    == Remote!Dir
Under(p, q) == Remote!Under(p, q)
Below(p, q) == Under(p, q) /\ p # q
Parent(p)   == Remote!Parent(p)

ASSUME NamespaceAssumption ==
    /\ \A p \in Paths : p \in Seq(STRING) /\ p # <<>> /\ \A n \in 1..Len(p) : SubSeq(p, 1, n) \in Paths
    /\ Limit \in Nat \ {0} /\ MaxOps \in Nat /\ MaxFaults \in Nat
    /\ Admits \subseteq {"unsent", "recreate", "onto", "hollow", "subtree", "hidden", "revived", "overtake", "lost"}

NoRow == [kind |-> "absent", state |-> "none"]
Row(k, s) == [kind |-> k, state |-> s]
Idle  == [pc |-> "upload", files |-> {}, ops |-> <<>>, dirs |-> {}, dir |-> <<>>, list |-> <<>>]

Trees == [Paths -> {Absent, Dir} \cup {Remote!File(v) : v \in Vers}]
OpSet == [id : 1..MaxOps, op : {"put", "delete", "mkdir", "rmdir", "rename"}, path : Paths, dest : Paths]

TypeOK ==
    /\ tree \in Trees /\ disk \in Trees /\ user \in Trees
    /\ rows \in [Paths -> [kind : {"absent", "dir", "file"},
                           state : {"none", "dirty", "clean", "evicted", "conflict"}]]
    /\ ops \in Seq(OpSet) /\ w.ops \in Seq(OpSet)
    /\ w.pc \in {"upload", "put", "ops", "apply", "complete", "pull", "list", "merge"}
    /\ w.files \subseteq Paths /\ w.dirs \subseteq Paths \cup {<<>>}
    /\ used \in 0..MaxOps /\ faults \in 0..MaxFaults

\* A directory with a file that an earlier pull has made known, not downloaded.
Init ==
    /\ \E d \in {p \in Paths : Len(p) = 1}, f \in {p \in Paths : Len(p) = 2} :
        /\ Below(d, f)
        /\ tree = [p \in Paths |-> IF p = d THEN Dir ELSE IF p = f THEN Remote!File(0) ELSE Absent]
    /\ rows = [p \in Paths |-> IF tree[p] = Absent THEN NoRow ELSE Row(tree[p].kind, "evicted")]
    /\ disk = [p \in Paths |-> Absent]
    /\ ops = <<>> /\ user = tree /\ w = Idle
    /\ used = 0 /\ faults = 0

\* A lookup finds p: every component has a row.
Visible(p) == \A q \in Paths : Under(q, p) => rows[q].kind # "absent"
Sees(p)    == Visible(p) /\ ("revived" \in Admits \/ user[p] # Absent)
Finds(p)   == p \in {<<>>} \cup {q \in Paths : Sees(q) /\ rows[q].kind = "dir"}

OnDisk(p)  == p \in {<<>>} \cup {q \in Paths : disk[q] = Dir}
Bare(p)    == \A q \in Paths : Below(p, q) => disk[q] = Absent

\* os.MkdirAll of the directory that holds p.
WithParents(t, p) == [q \in Paths |-> IF Below(q, p) THEN Dir ELSE t[q]]

\* A pending operation takes p away on the remote.
Leaves(p) == \E i \in DOMAIN ops : ops[i].op \in {"delete", "rmdir", "rename"} /\ Under(ops[i].path, p)

\* AddPendingOpTx: a path has one pending put at most.
Queue(q, op, p, d) ==
    IF op = "put" /\ \E i \in DOMAIN q : q[i].op = "put" /\ q[i].path = p THEN q
    ELSE Append(q, [id |-> used + 1, op |-> op, path |-> p, dest |-> d])

UserStep == used < MaxOps /\ used' = used + 1 /\ UNCHANGED <<tree, w, faults>>

-----------------------------------------------------------------------------
(* What the user does.                                                     *)

\* Nothing is about to leave p, and no directory rename has left traces of it.
Vacant(p) ==
    /\ "recreate" \in Admits \/ ~Leaves(p)
    /\ "hidden" \in Admits \/ /\ Visible(p) \/ user[p] = Absent
                              /\ \A q \in Paths : Below(p, q) => rows[q].kind = "absent"

MayCreate(p) == ~Visible(p) /\ Finds(Parent(p)) /\ Vacant(p)

\* CacheLayer.Create truncates what is on disk.
Create(p) ==
    /\ MayCreate(p) /\ disk[p].kind # "dir"
    /\ disk' = [WithParents(disk, p) EXCEPT ![p] = Remote!File(used + 1)]
    /\ rows' = [rows EXCEPT ![p] = Row("file", "dirty")]
    /\ ops' = Queue(ops, "put", p, p)
    /\ user' = [user EXCEPT ![p] = Remote!File(used + 1)]
    /\ UserStep

\* CacheLayer.Mkdir: the parent must be on disk.
Mkdir(p) ==
    /\ MayCreate(p) /\ disk[p] = Absent /\ OnDisk(Parent(p))
    /\ disk' = [disk EXCEPT ![p] = Dir]
    /\ rows' = [rows EXCEPT ![p] = Row("dir", "dirty")]
    /\ ops' = Queue(ops, "mkdir", p, p)
    /\ user' = [user EXCEPT ![p] = Dir]
    /\ UserStep

\* The remote knows p and will still know it when the queue reaches the new operation.
Sent(p) == "unsent" \in Admits \/ (tree[p] # Absent /\ ~Leaves(p))

\* FuseNode.Unlink, CacheLayer.Delete.
Unlink(p) ==
    /\ Sees(p) /\ rows[p].kind = "file" /\ Sent(p)
    /\ disk' = [disk EXCEPT ![p] = Absent]
    /\ rows' = [rows EXCEPT ![p] = NoRow]
    /\ ops' = Queue(ops, "delete", p, p)
    /\ user' = [user EXCEPT ![p] = Absent]
    /\ UserStep

\* CacheLayer.Rmdir removes an empty directory of the disk; rows are not asked.
Rmdir(p) ==
    /\ Sees(p) /\ Sent(p) /\ disk[p] = Dir /\ Bare(p)
    /\ "hollow" \in Admits \/ \A q \in Paths : Below(p, q) => user[q] = Absent
    /\ disk' = [disk EXCEPT ![p] = Absent]
    /\ rows' = [rows EXCEPT ![p] = NoRow]
    /\ ops' = Queue(ops, "rmdir", p, p)
    /\ user' = [user EXCEPT ![p] = Absent]
    /\ UserStep

\* Pending uploads and creations follow a rename, earlier renames lead to its target.
Redirected(p, d) ==
    [i \in DOMAIN ops |->
        IF ops[i].op \in {"put", "mkdir"} /\ ops[i].path = p THEN [ops[i] EXCEPT !.path = d]
        ELSE IF ops[i].op = "rename" /\ ops[i].dest = p THEN [ops[i] EXCEPT !.dest = d]
        ELSE ops[i]]

\* CacheLayer.Rename moves the disk's subtree, but of the rows only p's own.
Rename(p, d) ==
    /\ Sees(p) /\ Finds(Parent(d)) /\ ~Under(p, d)
    /\ \A q \in Paths : Under(p, q) /\ user[q] # Absent => Remote!Moved(p, d, q) \in Paths
    /\ Sent(p) /\ Vacant(d)
    /\ "onto" \in Admits \/ (~Visible(d) /\ tree[d] = Absent)
    /\ "subtree" \in Admits \/ \A q \in Paths : Below(p, q) => rows[q].state # "dirty"
    /\ disk[p] # Absent /\ (disk[d] = Absent \/ (disk[d].kind = disk[p].kind /\ Bare(d)))
    /\ disk' = Remote!Move(WithParents(disk, d), p, d)
    /\ rows' = [rows EXCEPT ![p] = NoRow, ![d] = rows[p]]
    /\ ops' = Queue(Redirected(p, d), "rename", p, d)
    /\ user' = Remote!Move(user, p, d)
    /\ UserStep

\* The user reads an evicted file: module Download fetches it.
Read(p) ==
    /\ Sees(p) /\ rows[p] = Row("file", "evicted") /\ tree[p].kind = "file"
    /\ disk' = [WithParents(disk, p) EXCEPT ![p] = tree[p]]
    /\ rows' = [rows EXCEPT ![p].state = "clean"]
    /\ UNCHANGED <<tree, ops, user, w, used, faults>>

-----------------------------------------------------------------------------
(* The engine's cycle.                                                     *)

\* A remote call may fail.
Faulty == faults < MaxFaults /\ faults' = faults + 1
Fine   == UNCHANGED faults

\* uploadDirty lists the dirty files.
UploadDirty ==
    /\ w.pc = "upload"
    /\ w' = [w EXCEPT !.pc = "put", !.files = {p \in Paths : rows[p] = Row("file", "dirty")}]
    /\ UNCHANGED <<tree, rows, disk, ops, user, used, faults>>

\* uploadFile: the row is gone, the cache file is gone, the Put is refused or
\* fails, or the file is uploaded and clean.
UploadFile(p) ==
    /\ w.pc = "put" /\ p \in w.files
    /\ w' = [w EXCEPT !.files = @ \ {p}]
    /\ \/ /\ rows[p].kind = "absent" \/ disk[p].kind # "file" \/ ~Remote!MayPut(p)
          /\ Fine /\ UNCHANGED <<tree, rows>>
       \/ /\ rows[p].kind # "absent" /\ disk[p].kind = "file"
          /\ Faulty /\ UNCHANGED <<tree, rows>>
       \/ /\ rows[p].kind # "absent" /\ disk[p].kind = "file"
          /\ Remote!Put(p, disk[p].ver)
          /\ rows' = [rows EXCEPT ![p].state = "clean"]
          /\ Fine
    /\ UNCHANGED <<disk, ops, user, used>>

\* processPendingOps takes the first operations.
ProcessPendingOps ==
    /\ w.pc = "put" /\ w.files = {}
    /\ w' = [w EXCEPT !.pc = "apply", !.ops = SubSeq(ops, 1, IF Len(ops) < Limit THEN Len(ops) ELSE Limit)]
    /\ UNCHANGED <<tree, rows, disk, ops, user, used, faults>>

\* The remote does not take the operation.
Refused(o) ==
    \/ o.op \in {"delete", "rmdir"} /\ ~Remote!MayDelete(o.path)
    \/ o.op = "mkdir" /\ ~Remote!MayMkdir(o.path)
    \/ o.op = "rename" /\ ~Remote!MayRename(o.path, o.dest)

Taken(o) ==
    \/ o.op \in {"delete", "rmdir"} /\ Remote!Delete(o.path)
    \/ o.op = "mkdir" /\ Remote!Mkdir(o.path)
    \/ o.op = "rename" /\ Remote!Rename(o.path, o.dest)
    \/ o.op = "put" /\ UNCHANGED tree

\* Operations on the same part of the tree.
Touches(o, p) == \E q \in {o.path, o.dest} : Under(q, p) \/ Under(p, q)
Related(o, n) == Touches(o, n.path) \/ Touches(o, n.dest)

\* An operation that fails stays for the next cycle; the replay goes on.
OpFails ==
    /\ w.pc = "apply" /\ w.ops # <<>>
    /\ \/ Refused(Head(w.ops)) /\ Fine
       \/ /\ Head(w.ops).op # "put" /\ Faulty
          /\ "overtake" \in Admits \/ \A i \in 2..Len(w.ops) : ~Related(Head(w.ops), w.ops[i])
    /\ w' = [w EXCEPT !.ops = Tail(@)]
    /\ UNCHANGED <<tree, rows, disk, ops, user, used>>

OpApplied ==
    /\ w.pc = "apply" /\ w.ops # <<>>
    /\ Taken(Head(w.ops))
    /\ w' = [w EXCEPT !.pc = "complete"]
    /\ UNCHANGED <<rows, disk, ops, user, used, faults>>

\* Mutant: the oldest operation is completed, whichever was carried out.
CompleteFirst ==
    /\ w.pc = "complete"
    /\ ops' = Tail(ops)
    /\ w' = [w EXCEPT !.pc = "apply", !.ops = Tail(@)]
    /\ UNCHANGED <<tree, rows, disk, user, used, faults>>

\* CompletePendingOp: the row with this identifier, if there is one, is deleted.
Completed(q, id) ==
    IF \E i \in DOMAIN q : q[i].id = id
    THEN Seqs!RemoveAt(q, CHOOSE i \in DOMAIN q : q[i].id = id)
    ELSE q

OpCompletes ==
    /\ w.pc = "complete"
    /\ ops' = Completed(ops, Head(w.ops).id)
    /\ w' = [w EXCEPT !.pc = "apply", !.ops = Tail(@)]
    /\ UNCHANGED <<tree, rows, disk, user, used, faults>>

\* The pull starts at the root.
Pull ==
    /\ w.pc = "apply" /\ w.ops = <<>>
    /\ w' = [w EXCEPT !.pc = "list", !.dirs = {<<>>}]
    /\ UNCHANGED <<tree, rows, disk, ops, user, used, faults>>

Children(t, d) == {p \in Paths : Parent(p) = d /\ t[p] # Absent}

\* pullDir lists one directory; a directory that cannot be listed is skipped.
PullList(d) ==
    /\ w.pc = "list" /\ d \in w.dirs
    /\ \/ /\ Remote!IsDir(tree, d) /\ Fine
          /\ w' = [w EXCEPT !.pc = "merge", !.dir = d, !.dirs = @ \ {d},
                            !.list = [p \in Children(tree, d) |-> tree[p].kind]]
       \/ /\ ~Remote!IsDir(tree, d) /\ Fine
          /\ w' = [w EXCEPT !.dirs = @ \ {d}]
       \/ /\ Faulty
          /\ w' = [w EXCEPT !.dirs = @ \ {d}]
    /\ UNCHANGED <<tree, rows, disk, ops, user, used>>

\* Mutant: a row that the remote does not have goes whatever its state.
StaleAll == {p \in Paths : /\ Parent(p) = w.dir /\ p \notin DOMAIN w.list
                           /\ rows[p].kind # "absent"}

\* Local rows of the directory that the remote no longer has.
Stale == {p \in Paths : /\ Parent(p) = w.dir /\ p \notin DOMAIN w.list
                        /\ rows[p].kind # "absent" /\ rows[p].state \in {"clean", "evicted"}}

\* Mutant: new remote files count as cached.
NewRowClean(k) == Row(k, "clean")

\* A remote file or directory that is new here.
NewRow(k) == Row(k, "evicted")

\* The listing is merged into the rows: what is new is added, what the remote
\* lost goes, and a directory made here looks newer on the remote and
\* becomes a conflict. Its subdirectories follow.
PullMerge ==
    /\ w.pc = "merge"
    /\ rows' = [p \in Paths |->
                    IF p \in DOMAIN w.list
                    THEN IF rows[p].kind = "absent" THEN NewRow(w.list[p])
                         ELSE IF rows[p].state = "dirty" THEN Row(rows[p].kind, "conflict")
                         ELSE rows[p]
                    ELSE IF p \in Stale THEN NoRow ELSE rows[p]]
    /\ disk' = [p \in Paths |-> IF p \in Stale /\ Bare(p) THEN Absent ELSE disk[p]]
    /\ w' = [w EXCEPT !.pc = "list", !.list = <<>>, !.dir = <<>>,
                      !.dirs = @ \cup {p \in DOMAIN w.list : w.list[p] = "dir"}]
    /\ UNCHANGED <<tree, ops, user, used, faults>>

CycleEnds ==
    /\ w.pc = "list" /\ w.dirs = {}
    /\ w' = Idle
    /\ UNCHANGED <<tree, rows, disk, ops, user, used, faults>>

\* The process is killed and the mount is started again.
Crash ==
    /\ w # Idle /\ ("lost" \in Admits \/ w.pc # "complete")
    /\ w' = Idle /\ Faulty
    /\ UNCHANGED <<tree, rows, disk, ops, user, used>>

-----------------------------------------------------------------------------
User == \E p \in Paths : \/ Create(p) \/ Mkdir(p) \/ Unlink(p) \/ Rmdir(p) \/ Read(p)
                         \/ \E d \in Paths : Rename(p, d)
Engine == \/ UploadDirty \/ ProcessPendingOps \/ OpFails \/ OpApplied \/ OpCompletes
          \/ Pull \/ PullMerge \/ CycleEnds
          \/ \E p \in Paths : UploadFile(p)
          \/ \E d \in Paths \cup {<<>>} : PullList(d)

Next == User \/ Engine \/ Crash

\* The loop's ticker keeps starting cycles and the loop runs them.
Spec == Init /\ [][Next]_vars /\ WF_vars(Engine)

-----------------------------------------------------------------------------
(* Correctness.                                                            *)

\* No content that the user still has in the tree disappears from both sides.
NothingLost ==
    \A p \in Paths : user[p].kind = "file" =>
        \E q \in Paths : disk[q] = user[p] \/ tree[q] = user[p]

\* A file that the user has and sees as local can be opened (node.go: Open
\* takes clean and dirty rows from the disk).
RowHasFile ==
    \A p \in Paths : Visible(p) /\ user[p].kind = "file" /\ rows[p].state \in {"clean", "dirty"} =>
        disk[p] = user[p]

View == [p \in Paths |->
            IF ~Visible(p) THEN Absent
            ELSE IF rows[p].kind = "dir" THEN Dir
            ELSE IF rows[p].state = "evicted" THEN tree[p]
            ELSE disk[p]]

\* Once the user stops, the queue empties and the remote and what the mount
\* shows become what the user made (engine.go: loop).
Converges == <>[](ops = <<>> /\ tree = user /\ View = user)
=============================================================================
