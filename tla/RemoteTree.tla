----------------------------- MODULE RemoteTree -----------------------------
(***************************************************************************)
(* What remote.RemoteAdapter (internal/remote/adapter.go) promises: one    *)
(* tree of files and directories, addressed by path, on which every        *)
(* operation takes effect at once and at the path it names. DriveIds shows *)
(* how far the Google Drive adapter keeps this promise, and Namespace uses *)
(* these operations as its remote.                                         *)
(***************************************************************************)
EXTENDS Integers, Sequences

CONSTANTS
    Paths,        \* the paths of the tree, sequences of names
    Vers          \* the contents a file can have

VARIABLE tree     \* what is at each path

Absent  == [kind |-> "absent"]
Dir     == [kind |-> "dir"]
File(v) == [kind |-> "file", ver |-> v]

Parent(p) == SubSeq(p, 1, Len(p) - 1)

\* q is p or lies below it.
Under(p, q) == Len(p) <= Len(q) /\ SubSeq(q, 1, Len(p)) = p

\* The path of q once p has become d.
Moved(p, d, q) == d \o SubSeq(q, Len(p) + 1, Len(q))

IsDir(t, p) == p = <<>> \/ (p \in Paths /\ t[p].kind = "dir")

Init == tree = [p \in Paths |-> Absent]

\* Put: the file at p has the contents v, whether it existed or not.
MayPut(p) == IsDir(tree, Parent(p)) /\ tree[p].kind # "dir"
Put(p, v) ==
    /\ MayPut(p)
    /\ tree' = [tree EXCEPT ![p] = File(v)]

\* Mkdir: p was free and is a directory.
MayMkdir(p) == IsDir(tree, Parent(p)) /\ tree[p] = Absent
Mkdir(p) ==
    /\ MayMkdir(p)
    /\ tree' = [tree EXCEPT ![p] = Dir]

\* Delete: p and everything below it is gone.
MayDelete(p) == tree[p] # Absent
Delete(p) ==
    /\ MayDelete(p)
    /\ tree' = [q \in Paths |-> IF Under(p, q) THEN Absent ELSE tree[q]]

\* Rename: p and everything below it is found under the free path d.
MayRename(p, d) ==
    /\ tree[p] # Absent /\ tree[d] = Absent
    /\ IsDir(tree, Parent(d)) /\ ~Under(p, d)
\* The tree t after the move.
Move(t, p, d) == [q \in Paths |->
                    IF Under(p, q) THEN Absent
                    ELSE IF Under(d, q) /\ Moved(d, p, q) \in Paths
                         THEN t[Moved(d, p, q)]
                         ELSE t[q]]
Rename(p, d) == MayRename(p, d) /\ tree' = Move(tree, p, d)

Next == \E p \in Paths : \/ \E v \in Vers : Put(p, v)
                         \/ Mkdir(p) \/ Delete(p)
                         \/ \E d \in Paths : Rename(p, d)

Spec == Init /\ [][Next]_tree
=============================================================================
