--------------------------- MODULE NamespaceProofs --------------------------
(***************************************************************************)
(* That neither content nor a cached file is lost, for every set of paths  *)
(* and every bound, as long as no circumstance of Admits arises.           *)
(***************************************************************************)
EXTENDS Namespace, SequenceTheorems, WellFoundedInduction, TLAPS

-----------------------------------------------------------------------------
(* Paths.                                                                  *)

Names == Seq(STRING)

\* Under, name by name.
LEMMA UnderNames ==
    ASSUME NEW p \in Names, NEW q \in Names
    PROVE  Under(p, q) <=> Len(p) <= Len(q) /\ \A i \in 1..Len(p) : q[i] = p[i]
<1>1. ASSUME Len(p) <= Len(q)
      PROVE  /\ SubSeq(q, 1, Len(p)) \in Names /\ Len(SubSeq(q, 1, Len(p))) = Len(p)
             /\ \A i \in 1..Len(p) : SubSeq(q, 1, Len(p))[i] = q[i]
  BY <1>1 DEF Names
<1>2. ASSUME Len(p) <= Len(q), \A i \in 1..Len(p) : q[i] = p[i]
      PROVE  SubSeq(q, 1, Len(p)) = p
  BY <1>1, <1>2 DEF Names
<1> QED
  BY <1>1, <1>2 DEF Under, Remote!Under

\* A path is under itself, and under is transitive.
LEMMA UnderOrder ==
    ASSUME NEW p \in Names, NEW q \in Names, NEW r \in Names
    PROVE  /\ Under(p, p)
           /\ Under(p, q) /\ Under(q, r) => Under(p, r)
           /\ Under(p, q) /\ Under(q, p) => p = q
           /\ Under(p, r) /\ Under(q, r) => Under(p, q) \/ Under(q, p)
<1>1. Len(p) \in Nat /\ Len(q) \in Nat /\ Len(r) \in Nat
  BY DEF Names
<1>2. Under(p, p)
  BY UnderNames, <1>1
<1>3. Under(p, q) /\ Under(q, r) => Under(p, r)
  BY UnderNames, <1>1
<1>4. ASSUME Under(p, q), Under(q, p) PROVE p = q
  <2>1. Len(p) = Len(q) /\ \A i \in 1..Len(p) : q[i] = p[i]
    BY UnderNames, <1>1, <1>4
  <2> QED
    BY <2>1 DEF Names
<1>5. ASSUME Under(p, r), Under(q, r) PROVE Under(p, q) \/ Under(q, p)
  <2>1. /\ \A i \in 1..Len(p) : r[i] = p[i]
        /\ \A i \in 1..Len(q) : r[i] = q[i]
    BY UnderNames, <1>5
  <2>2. CASE Len(p) <= Len(q)
    BY <2>1, <2>2, <1>1, UnderNames
  <2>3. CASE Len(q) <= Len(p)
    BY <2>1, <2>3, <1>1, UnderNames
  <2> QED
    BY <2>2, <2>3, <1>1
<1> QED
  BY <1>2, <1>3, <1>4, <1>5

\* A path that moved, name by name.
LEMMA MovedNames ==
    ASSUME NEW p \in Names, NEW d \in Names, NEW q \in Names, Under(p, q)
    PROVE  /\ Remote!Moved(p, d, q) \in Names
           /\ Len(Remote!Moved(p, d, q)) = Len(d) + Len(q) - Len(p)
           /\ \A i \in 1..Len(d) : Remote!Moved(p, d, q)[i] = d[i]
           /\ \A i \in 1..Len(q) - Len(p) : Remote!Moved(p, d, q)[Len(d) + i] = q[Len(p) + i]
<1>1. Len(p) \in Nat /\ Len(q) \in Nat /\ Len(d) \in Nat /\ Len(p) <= Len(q)
  BY UnderNames DEF Names
<1> DEFINE s == SubSeq(q, Len(p) + 1, Len(q))
<1>2. /\ s \in Names /\ Len(s) = Len(q) - Len(p)
      /\ \A i \in 1..Len(q) - Len(p) : s[i] = q[Len(p) + i]
  BY <1>1 DEF Names
<1>3. Remote!Moved(p, d, q) = d \o s
  BY DEF Remote!Moved
<1> HIDE DEF s
<1> DEFINE m == d \o s
<1>4. /\ m \in Names /\ Len(m) = Len(d) + Len(s)
      /\ \A i \in 1..Len(d) : m[i] = d[i]
      /\ \A i \in 1..Len(s) : m[Len(d) + i] = s[i]
  <2>1. /\ m \in Names /\ Len(m) = Len(d) + Len(s)
        /\ \A i \in 1..Len(d) + Len(s) : m[i] = IF i <= Len(d) THEN d[i] ELSE s[i - Len(d)]
    BY <1>2, ConcatProperties DEF Names
  <2> HIDE DEF m
  <2>2. ASSUME NEW i \in 1..Len(s) PROVE m[Len(d) + i] = s[i]
    <3>1. Len(d) + i \in 1..Len(d) + Len(s) /\ ~(Len(d) + i <= Len(d)) /\ Len(d) + i - Len(d) = i
      BY <1>1, <1>2
    <3> QED
      BY <2>1, <3>1
  <2> QED
    BY <1>1, <1>2, <2>1, <2>2
<1>5. Remote!Moved(p, d, q) = m
  BY <1>3
<1> HIDE DEF m
<1>6. \A i \in 1..Len(q) - Len(p) : m[Len(d) + i] = q[Len(p) + i]
  BY <1>2, <1>4
<1>7. Len(m) = Len(d) + Len(q) - Len(p)
  BY <1>1, <1>2, <1>4
<1> QED
  BY <1>4, <1>5, <1>6, <1>7

\* What moves from p to d comes to lie under d, keeps its order, and can be
\* moved back.
LEMMA MovedUnder ==
    ASSUME NEW p \in Names, NEW d \in Names, NEW q \in Names, Under(p, q)
    PROVE  /\ Remote!Moved(p, d, q) \in Names
           /\ Under(d, Remote!Moved(p, d, q))
           /\ Remote!Moved(d, p, Remote!Moved(p, d, q)) = q
           /\ Remote!Moved(p, d, p) = d
<1> DEFINE m == Remote!Moved(p, d, q)
           b == Remote!Moved(d, p, m)
<1>1. Len(p) \in Nat /\ Len(q) \in Nat /\ Len(d) \in Nat /\ Len(p) <= Len(q)
  BY UnderNames DEF Names
<1>2. /\ m \in Names /\ Len(m) = Len(d) + Len(q) - Len(p)
      /\ \A i \in 1..Len(d) : m[i] = d[i]
      /\ \A i \in 1..Len(q) - Len(p) : m[Len(d) + i] = q[Len(p) + i]
  BY MovedNames
<1> HIDE DEF m
<1>3. Under(d, m)
  BY <1>1, <1>2, UnderNames
<1>4. /\ b \in Names /\ Len(b) = Len(q)
      /\ \A i \in 1..Len(p) : b[i] = p[i]
      /\ \A i \in 1..Len(q) - Len(p) : b[Len(p) + i] = q[Len(p) + i]
  <2>1. /\ b \in Names /\ Len(b) = Len(p) + Len(m) - Len(d)
        /\ \A i \in 1..Len(p) : b[i] = p[i]
        /\ \A i \in 1..Len(m) - Len(d) : b[Len(p) + i] = m[Len(d) + i]
    BY <1>2, <1>3, MovedNames
  <2> HIDE DEF b
  <2>2. Len(b) = Len(q) /\ Len(m) - Len(d) = Len(q) - Len(p)
    BY <1>1, <1>2, <2>1
  <2>3. \A i \in 1..Len(q) - Len(p) : b[Len(p) + i] = q[Len(p) + i]
    BY <1>2, <2>1, <2>2
  <2> QED
    BY <2>1, <2>2, <2>3
<1> HIDE DEF b
<1>5. b = q
  <2>1. \A i \in 1..Len(p) : q[i] = p[i]
    BY UnderNames
  <2>2. ASSUME NEW i \in 1..Len(q) PROVE b[i] = q[i]
    <3>1. CASE i <= Len(p)
      BY <1>1, <1>4, <2>1, <3>1
    <3>2. CASE ~(i <= Len(p))
      <4>1. i - Len(p) \in 1..Len(q) - Len(p) /\ Len(p) + (i - Len(p)) = i
        BY <1>1, <3>2
      <4> QED
        BY <1>4, <4>1
    <3> QED
      BY <3>1, <3>2
  <2> QED
    BY <1>1, <1>4, <2>2 DEF Names
<1>6. Remote!Moved(p, d, p) = d
  <2>1. Under(p, p)
    BY UnderOrder
  <2>2. /\ Remote!Moved(p, d, p) \in Names
        /\ Len(Remote!Moved(p, d, p)) = Len(d) + Len(p) - Len(p)
        /\ \A i \in 1..Len(d) : Remote!Moved(p, d, p)[i] = d[i]
    BY <2>1, MovedNames
  <2> QED
    BY <1>1, <2>2 DEF Names
<1> QED
  BY <1>2, <1>3, <1>5, <1>6 DEF m, b

\* A move keeps what is under what.
LEMMA MovedOrder ==
    ASSUME NEW p \in Names, NEW d \in Names, NEW q \in Names, NEW r \in Names,
           Under(p, q), Under(q, r)
    PROVE  Under(Remote!Moved(p, d, q), Remote!Moved(p, d, r))
<1> DEFINE m == Remote!Moved(p, d, q)
           n == Remote!Moved(p, d, r)
<1>1. Len(p) \in Nat /\ Len(q) \in Nat /\ Len(r) \in Nat /\ Len(d) \in Nat
  BY DEF Names
<1>2. Under(p, r) /\ Len(p) <= Len(q) /\ Len(q) <= Len(r) /\ \A i \in 1..Len(q) : r[i] = q[i]
  BY <1>1, UnderOrder, UnderNames
<1>3. /\ m \in Names /\ Len(m) = Len(d) + Len(q) - Len(p)
      /\ \A i \in 1..Len(d) : m[i] = d[i]
      /\ \A i \in 1..Len(q) - Len(p) : m[Len(d) + i] = q[Len(p) + i]
  BY MovedNames, ZenonT(60)
<1>4. /\ n \in Names /\ Len(n) = Len(d) + Len(r) - Len(p)
      /\ \A i \in 1..Len(d) : n[i] = d[i]
      /\ \A i \in 1..Len(r) - Len(p) : n[Len(d) + i] = r[Len(p) + i]
  BY <1>2, MovedNames, ZenonT(60)
<1> HIDE DEF m, n
<1>5. Len(m) <= Len(n)
  BY <1>1, <1>2, <1>3, <1>4
<1>6. ASSUME NEW i \in 1..Len(m) PROVE n[i] = m[i]
  <2>1. CASE i <= Len(d)
    BY <1>1, <1>3, <1>4, <2>1
  <2>2. CASE ~(i <= Len(d))
    <3>1. /\ i - Len(d) \in 1..Len(q) - Len(p) /\ i - Len(d) \in 1..Len(r) - Len(p)
          /\ Len(d) + (i - Len(d)) = i /\ Len(p) + (i - Len(d)) \in 1..Len(q)
      BY <1>1, <1>2, <1>3, <2>2
    <3>2. m[i] = q[Len(p) + (i - Len(d))]
      BY <1>3, <3>1
    <3>3. n[i] = r[Len(p) + (i - Len(d))]
      BY <1>4, <3>1
    <3> QED
      BY <1>2, <3>1, <3>2, <3>3
  <2> QED
    BY <2>1, <2>2
<1> QED
  BY <1>3, <1>4, <1>5, <1>6, UnderNames DEF m, n

\* Paths are lists of names, and what a path lies under is a path.
LEMMA PathNames ==
    /\ Paths \subseteq Names /\ <<>> \in Names
    /\ \A p \in Paths : p # <<>> /\ Parent(p) \in Paths \cup {<<>>}
    /\ \A p \in Paths, r \in Names \ {<<>>} : Under(r, p) => r \in Paths
<1>1. Paths \subseteq Names /\ <<>> \in Names /\ \A p \in Paths : p # <<>>
  BY NamespaceAssumption DEF Names
<1>2. ASSUME NEW p \in Paths PROVE Parent(p) \in Paths \cup {<<>>}
  <2>1. Len(p) \in Nat /\ Len(p) # 0
    BY <1>1 DEF Names
  <2>2. CASE Len(p) = 1
    BY <2>1, <2>2 DEF Parent, Remote!Parent
  <2>3. CASE Len(p) > 1
    <3>1. Len(p) - 1 \in 1..Len(p)
      BY <2>1, <2>3
    <3> QED
      BY <3>1, NamespaceAssumption DEF Parent, Remote!Parent
  <2>4. Len(p) = 1 \/ Len(p) > 1
    BY <2>1
  <2> QED
    BY <2>2, <2>3, <2>4
<1>3. ASSUME NEW p \in Paths, NEW r \in Names \ {<<>>}, Under(r, p) PROVE r \in Paths
  <2>1. Len(r) \in Nat /\ Len(p) \in Nat /\ Len(r) # 0
    BY <1>1 DEF Names
  <2>2. Len(r) \in 1..Len(p) /\ SubSeq(p, 1, Len(r)) = r
    BY <1>3, <2>1 DEF Under, Remote!Under
  <2> QED
    BY <2>2, NamespaceAssumption
<1> QED
  BY <1>1, <1>2, <1>3

\* What lies strictly above a path is what its parent lies under.
LEMMA AboveParent ==
    ASSUME NEW p \in Paths, NEW r \in Names
    PROVE  /\ Under(r, p) /\ r # p <=> Under(r, Parent(p))
           /\ Parent(p) \in Names /\ ~Under(p, Parent(p))
<1>1. /\ p \in Names /\ Len(p) \in Nat /\ Len(p) >= 1 /\ Len(r) \in Nat
  BY PathNames DEF Names
<1>2. /\ Parent(p) \in Names /\ Len(Parent(p)) = Len(p) - 1
      /\ \A i \in 1..Len(p) - 1 : Parent(p)[i] = p[i]
  <2> DEFINE n == Len(p) - 1
             s == SubSeq(p, 1, n)
  <2>1. Parent(p) = s
    BY DEF Parent, Remote!Parent
  <2>2. n \in Int /\ n >= 0 /\ n = Len(p) - 1
    BY <1>1
  <2>3. \A i \in 1..n : p[i] \in STRING
    BY <1>1 DEF Names
  <2> HIDE DEF n
  <2>4. /\ s \in Names /\ Len(s) = IF 1 <= n THEN n - 1 + 1 ELSE 0
        /\ \A i \in 1..n - 1 + 1 : s[i] = p[1 + i - 1]
    BY <2>2, <2>3, SubSeqProperties DEF Names
  <2> HIDE DEF s
  <2>5. Len(s) = n
    <3>1. CASE 1 <= n
      <4>1. n - 1 + 1 = n
        BY <2>2
      <4>2. Len(s) = n - 1 + 1
        BY <2>4, <3>1
      <4> QED
        BY <4>1, <4>2
    <3>2. CASE ~(1 <= n)
      <4>1. n = 0
        BY <2>2, <3>2
      <4>2. Len(s) = 0
        BY <2>4, <3>2
      <4> QED
        BY <4>1, <4>2
    <3> QED
      BY <3>1, <3>2
  <2>6. \A i \in 1..n : s[i] = p[i]
    BY <2>2, <2>4
  <2> QED
    BY <2>1, <2>2, <2>4, <2>5, <2>6
<1>3. ASSUME Under(r, p), r # p PROVE Under(r, Parent(p))
  <2>1. Len(r) <= Len(p) /\ \A i \in 1..Len(r) : p[i] = r[i]
    BY <1>1, <1>3, UnderNames
  <2>2. Len(r) # Len(p)
    BY <1>1, <1>3, <2>1 DEF Names
  <2>3. Len(r) <= Len(p) - 1
    BY <1>1, <2>1, <2>2
  <2> QED
    BY <1>1, <1>2, <2>1, <2>3, UnderNames
<1>4. ASSUME Under(r, Parent(p)) PROVE Under(r, p) /\ r # p
  <2>1. Len(r) <= Len(p) - 1 /\ \A i \in 1..Len(r) : Parent(p)[i] = r[i]
    BY <1>2, <1>4, UnderNames
  <2>2. \A i \in 1..Len(r) : p[i] = r[i]
    BY <1>1, <1>2, <2>1
  <2> QED
    BY <1>1, <2>1, <2>2, UnderNames
<1>5. ~Under(p, Parent(p))
  BY <1>1, <1>2, UnderNames
<1> QED
  BY <1>2, <1>3, <1>4, <1>5

-----------------------------------------------------------------------------
(* Trees, and what an operation of the queue makes of one.                 *)

Node == {Absent, Dir} \cup {Remote!File(v) : v \in Vers}

\* Operations that take a path away.
Leaving == {"delete", "rmdir", "rename"}

\* What the remote makes of the tree t, and whether it takes the operation:
\* only a rename has two paths.
Effect(o, t) ==
    IF o.op \in {"delete", "rmdir"}
    THEN [q \in Paths |-> IF Under(o.path, q) THEN Absent ELSE t[q]]
    ELSE IF o.op = "mkdir" THEN [t EXCEPT ![o.path] = Dir]
    ELSE IF o.op = "rename" THEN Remote!Move(t, o.path, o.dest)
    ELSE t

Legal(o, t) ==
    /\ o.op \in {"delete", "rmdir", "mkdir"} => o.dest = o.path
    /\ o.op \in Leaving => t[o.path] # Absent
    /\ o.op = "mkdir" => t[o.path] = Absent /\ Remote!IsDir(t, Parent(o.path))
    /\ o.op = "rename" => /\ t[o.dest] = Absent /\ Remote!IsDir(t, Parent(o.dest))
                          /\ ~Under(o.path, o.dest)

\* What is in a tree is in directories.
Proper(t) ==
    \A q \in Paths : t[q] # Absent => \A r \in Paths : Below(r, q) => t[r] = Dir

\* Where an operation changes the tree.
Zone(o, q) == Under(o.path, q) \/ Under(o.dest, q)

\* The kinds of a node tell what it is.
LEMMA NodeKinds ==
    ASSUME NEW n \in Node
    PROVE  /\ n.kind = "dir" <=> n = Dir
           /\ n.kind = "absent" <=> n = Absent
           /\ n.kind = "file" <=> n # Absent /\ n # Dir
           /\ Absent # Dir /\ Dir.kind = "dir" /\ Absent.kind = "absent"
<1>1. Absent.kind = "absent" /\ Dir.kind = "dir" /\ \A v : Remote!File(v).kind = "file"
  BY DEF Absent, Dir, Remote!Absent, Remote!Dir, Remote!File
<1>2. n = Absent \/ n = Dir \/ \E v : n = Remote!File(v)
  BY DEF Node
<1> QED
  BY <1>1, <1>2

\* A directory is something.
LEMMA DirIsThere ==
    Absent # Dir /\ Absent \in Node /\ Dir \in Node
  BY NodeKinds DEF Node

\* The operations of the queue.
LEMMA OpFields ==
    ASSUME NEW o \in OpSet
    PROVE  /\ o.path \in Paths /\ o.dest \in Paths /\ o.id \in 1..MaxOps
           /\ o.path \in Names /\ o.dest \in Names
           /\ o.op \in {"put", "delete", "mkdir", "rmdir", "rename"}
  BY PathNames DEF OpSet

\* Nothing lies above the root.
LEMMA RootTop ==
    \A r \in Paths : ~Under(r, <<>>)
<1> TAKE r \in Paths
<1>1. r \in Names /\ r # <<>> /\ Len(r) \in Nat /\ Len(r) # 0
  BY PathNames DEF Names
<1> QED
  BY <1>1, PathNames, UnderNames

\* A directory lies in directories.
LEMMA DirAbove ==
    ASSUME NEW t \in Trees, Proper(t), NEW d \in Paths, Remote!IsDir(t, Parent(d)),
           NEW r \in Paths, Below(r, d)
    PROVE  t[r] = Dir
<1>1. r \in Names /\ Under(r, Parent(d))
  BY AboveParent, PathNames DEF Below
<1>2. Parent(d) # <<>>
  BY <1>1, RootTop
<1>3. Parent(d) \in Paths /\ t[Parent(d)] = Dir
  <2>1. Parent(d) \in Paths /\ t[Parent(d)] \in Node
    BY <1>2, PathNames DEF Trees, Node
  <2> QED
    BY <1>2, <2>1, NodeKinds DEF Remote!IsDir
<1>4. CASE r = Parent(d)
  BY <1>3, <1>4
<1>5. CASE r # Parent(d)
  BY <1>1, <1>3, <1>5, DirIsThere DEF Proper, Below
<1> QED
  BY <1>4, <1>5

\* What is in a proper tree has a parent.
LEMMA HasParent ==
    ASSUME NEW t \in Trees, Proper(t), NEW q \in Paths, t[q] # Absent
    PROVE  Remote!IsDir(t, Parent(q))
<1>1. CASE Parent(q) = <<>>
  BY <1>1 DEF Remote!IsDir
<1>2. CASE Parent(q) # <<>>
  <2>1. Parent(q) \in Paths /\ Parent(q) \in Names /\ Under(Parent(q), Parent(q))
    BY <1>2, PathNames, UnderOrder
  <2>2. Below(Parent(q), q)
    BY <2>1, AboveParent DEF Below
  <2>3. t[Parent(q)] = Dir
    BY <2>1, <2>2 DEF Proper
  <2> QED
    BY <2>1, <2>3, NodeKinds DEF Remote!IsDir, Node
<1> QED
  BY <1>1, <1>2

\* The three places a path can have in a move of p to d.
LEMMA MoveCases ==
    ASSUME NEW t \in Trees, NEW p \in Paths, NEW d \in Paths, NEW q \in Paths
    PROVE  /\ Under(p, q) => Remote!Move(t, p, d)[q] = Absent
           /\ ~Under(p, q) /\ ~Under(d, q) => Remote!Move(t, p, d)[q] = t[q]
           /\ ~Under(p, q) /\ Under(d, q) =>
                Remote!Move(t, p, d)[q] = IF Remote!Moved(d, p, q) \in Paths
                                          THEN t[Remote!Moved(d, p, q)] ELSE t[q]
  BY DEF Remote!Move, Under, Absent

\* An operation makes a tree of a tree.
LEMMA EffectTyped ==
    ASSUME NEW o \in OpSet, NEW t \in Trees
    PROVE  Effect(o, t) \in Trees
<1>1. Absent \in Node /\ Dir \in Node /\ Trees = [Paths -> Node]
  BY DEF Node, Trees
<1> HIDE DEF Trees
<1>2. CASE o.op \in {"delete", "rmdir"}
  BY <1>1, <1>2 DEF Effect
<1>3. CASE o.op = "mkdir"
  BY <1>1, <1>3 DEF Effect
<1>4. CASE o.op = "rename"
  <2>1. Effect(o, t) = Remote!Move(t, o.path, o.dest)
    BY <1>4 DEF Effect
  <2> QED
    BY <1>1, <2>1 DEF Remote!Move, Absent
<1>5. CASE o.op = "put"
  BY <1>5 DEF Effect
<1> QED
  BY <1>2, <1>3, <1>4, <1>5, OpFields

\* Outside its zone an operation changes nothing,
LEMMA EffectOutside ==
    ASSUME NEW o \in OpSet, NEW t \in Trees, NEW q \in Paths, ~Zone(o, q)
    PROVE  Effect(o, t)[q] = t[q]
<1>1. o.path \in Paths /\ o.dest \in Paths /\ ~Under(o.path, q) /\ ~Under(o.dest, q)
  BY OpFields DEF Zone
<1>2. q # o.path
  BY <1>1, UnderOrder, PathNames
<1>3. CASE o.op = "rename"
  BY <1>1, <1>3, MoveCases DEF Effect
<1>4. CASE o.op # "rename"
  BY <1>1, <1>2, <1>4 DEF Effect, Trees
<1> QED
  BY <1>3, <1>4

\* and within, what it makes depends on the zone alone.
LEMMA EffectInside ==
    ASSUME NEW o \in OpSet, NEW t \in Trees, NEW u \in Trees,
           \A q \in Paths : Zone(o, q) => t[q] = u[q],
           NEW q \in Paths, Zone(o, q)
    PROVE  Effect(o, t)[q] = Effect(o, u)[q]
<1>1. o.path \in Paths /\ o.dest \in Paths /\ o.path \in Names /\ o.dest \in Names /\ q \in Names
  BY OpFields, PathNames
<1>2. CASE o.op = "rename"
  <2>1. Effect(o, t) = Remote!Move(t, o.path, o.dest) /\ Effect(o, u) = Remote!Move(u, o.path, o.dest)
    BY <1>2 DEF Effect
  <2>2. CASE Under(o.path, q)
    BY <1>1, <2>1, <2>2, MoveCases
  <2>3. CASE ~Under(o.path, q)
    <3>1. Under(o.dest, q)
      BY <2>3 DEF Zone
    <3>2. Under(o.path, Remote!Moved(o.dest, o.path, q))
      BY <1>1, <3>1, MovedUnder
    <3>3. Remote!Moved(o.dest, o.path, q) \in Paths =>
            t[Remote!Moved(o.dest, o.path, q)] = u[Remote!Moved(o.dest, o.path, q)]
      BY <3>2 DEF Zone
    <3> QED
      BY <1>1, <2>1, <2>3, <3>1, <3>3, MoveCases
  <2> QED
    BY <2>2, <2>3
<1>3. CASE o.op # "rename"
  BY <1>1, <1>3 DEF Effect, Trees
<1> QED
  BY <1>2, <1>3

\* Neither path lies under the other.
Comparable(p, q) == Under(p, q) \/ Under(q, p)

\* An operation has nothing to do with what lies under a or b.
Apart(o, a, b) == \A p \in {o.path, o.dest} : ~Comparable(p, a) /\ ~Comparable(p, b)

\* Two trees differ under a and b at most.
Elsewhere(a, b, t, u) ==
    \A q \in Paths : ~Under(a, q) /\ ~Under(b, q) => t[q] = u[q]

\* An operation takes a tree as it takes one that differs apart from it,
LEMMA ApartAgree ==
    ASSUME NEW o \in OpSet, NEW t \in Trees, NEW u \in Trees, NEW a \in Paths, NEW b \in Paths,
           Apart(o, a, b), Elsewhere(a, b, t, u)
    PROVE  /\ \A q \in Paths : Zone(o, q) => t[q] = u[q] /\ ~Under(a, q) /\ ~Under(b, q)
           /\ Legal(o, t) <=> Legal(o, u)
<1>1. /\ o.path \in Paths /\ o.dest \in Paths /\ a \in Names /\ b \in Names
      /\ o.path \in Names /\ o.dest \in Names
  BY OpFields, PathNames
<1>2. /\ ~Comparable(o.path, a) /\ ~Comparable(o.path, b)
      /\ ~Comparable(o.dest, a) /\ ~Comparable(o.dest, b)
  BY DEF Apart
<1>3. ASSUME NEW q \in Paths, Zone(o, q)
      PROVE  t[q] = u[q] /\ ~Under(a, q) /\ ~Under(b, q)
  <2>1. q \in Names
    BY PathNames
  <2>2. ~Under(a, q) /\ ~Under(b, q)
    BY <1>1, <1>2, <1>3, <2>1, UnderOrder DEF Zone, Comparable
  <2> QED
    BY <2>2 DEF Elsewhere
<1>4. ASSUME NEW p \in {o.path, o.dest}
      PROVE  t[p] = u[p] /\ (Remote!IsDir(t, Parent(p)) <=> Remote!IsDir(u, Parent(p)))
  <2>1. p \in Paths /\ p \in Names /\ Zone(o, p) /\ Parent(p) \in Names
    BY <1>1, <1>4, UnderOrder, AboveParent DEF Zone
  <2>2. t[p] = u[p]
    BY <1>3, <2>1
  <2>3. CASE Parent(p) \in Paths
    <3>1. ~Under(a, Parent(p)) /\ ~Under(b, Parent(p))
      BY <1>1, <1>2, <1>4, <2>1, AboveParent DEF Comparable
    <3>2. t[Parent(p)] = u[Parent(p)]
      BY <2>3, <3>1 DEF Elsewhere
    <3> QED
      BY <2>2, <3>2 DEF Remote!IsDir
  <2>4. CASE Parent(p) \notin Paths
    BY <2>2, <2>4 DEF Remote!IsDir
  <2> QED
    BY <2>3, <2>4
<1>5. Legal(o, t) <=> Legal(o, u)
  BY <1>4 DEF Legal
<1> QED
  BY <1>3, <1>5

\* and makes the same of it, what differs aside.
LEMMA ApartEffect ==
    ASSUME NEW o \in OpSet, NEW t \in Trees, NEW u \in Trees, NEW a \in Paths, NEW b \in Paths,
           Apart(o, a, b), Elsewhere(a, b, t, u), NEW q \in Paths
    PROVE  Effect(o, u)[q] = IF Zone(o, q) THEN Effect(o, t)[q] ELSE u[q]
<1>1. CASE Zone(o, q)
  BY <1>1, ApartAgree, EffectInside
<1>2. CASE ~Zone(o, q)
  BY <1>2, EffectOutside
<1> QED
  BY <1>1, <1>2

\* Operations on different parts of the tree can change places.
LEMMA Commute ==
    ASSUME NEW o \in OpSet, NEW n \in OpSet, NEW t \in Trees, Apart(o, n.path, n.dest)
    PROVE  /\ Effect(o, Effect(n, t)) = Effect(n, Effect(o, t))
           /\ Legal(o, Effect(n, t)) <=> Legal(o, t)
           /\ Legal(n, Effect(o, t)) <=> Legal(n, t)
<1>1. /\ n.path \in Paths /\ n.dest \in Paths /\ o.path \in Paths /\ o.dest \in Paths
      /\ Effect(n, t) \in Trees /\ Effect(o, t) \in Trees
      /\ Effect(o, Effect(n, t)) \in Trees /\ Effect(n, Effect(o, t)) \in Trees
  BY OpFields, EffectTyped
<1>2. Apart(n, o.path, o.dest)
  BY DEF Apart, Comparable
<1>3. Elsewhere(n.path, n.dest, t, Effect(n, t)) /\ Elsewhere(o.path, o.dest, t, Effect(o, t))
  BY EffectOutside DEF Elsewhere, Zone
<1>4. ASSUME NEW q \in Paths
      PROVE  Effect(o, Effect(n, t))[q] = Effect(n, Effect(o, t))[q]
  <2>1. Effect(o, Effect(n, t))[q] = IF Zone(o, q) THEN Effect(o, t)[q] ELSE Effect(n, t)[q]
    BY <1>1, <1>3, ApartEffect
  <2>2. Effect(n, Effect(o, t))[q] = IF Zone(n, q) THEN Effect(n, t)[q] ELSE Effect(o, t)[q]
    BY <1>1, <1>2, <1>3, ApartEffect
  <2>3. ~(Zone(o, q) /\ Zone(n, q))
    BY <1>1, <1>3, ApartAgree DEF Zone
  <2>4. ~Zone(o, q) /\ ~Zone(n, q) => Effect(n, t)[q] = Effect(o, t)[q]
    BY EffectOutside
  <2> QED
    BY <2>1, <2>2, <2>3, <2>4
<1>5. Effect(o, Effect(n, t)) = Effect(n, Effect(o, t))
  BY <1>1, <1>4 DEF Trees
<1>6. Legal(o, Effect(n, t)) <=> Legal(o, t)
  BY <1>1, <1>3, ApartAgree
<1>7. Legal(n, Effect(o, t)) <=> Legal(n, t)
  BY <1>1, <1>2, <1>3, ApartAgree
<1> QED
  BY <1>5, <1>6, <1>7

\* A file can be put where no operation reaches, before or after it.
LEMMA CommutePut ==
    ASSUME NEW o \in OpSet, NEW t \in Trees, NEW p \in Paths, NEW v \in Node, Apart(o, p, p)
    PROVE  /\ Effect(o, [t EXCEPT ![p] = v]) = [Effect(o, t) EXCEPT ![p] = v]
           /\ Legal(o, [t EXCEPT ![p] = v]) <=> Legal(o, t)
<1> DEFINE u == [t EXCEPT ![p] = v]
<1>1. /\ u \in Trees /\ Effect(o, t) \in Trees /\ Effect(o, u) \in Trees
      /\ [Effect(o, t) EXCEPT ![p] = v] \in Trees
  <2>1. u \in Trees
    BY DEF Trees, Node
  <2>2. Effect(o, t) \in Trees /\ Effect(o, u) \in Trees
    BY <2>1, EffectTyped
  <2> QED
    BY <2>1, <2>2 DEF Trees, Node
<1>2. \A q \in Paths : u[q] = IF q = p THEN v ELSE t[q]
  BY DEF Trees
<1>3. Under(p, p)
  BY UnderOrder, PathNames
<1> HIDE DEF u
<1>4. Elsewhere(p, p, t, u)
  BY <1>2, <1>3 DEF Elsewhere
<1>5. ~Zone(o, p)
  BY <1>1, <1>3, <1>4, ApartAgree
<1>6. ASSUME NEW q \in Paths
      PROVE  Effect(o, u)[q] = IF q = p THEN v ELSE Effect(o, t)[q]
  <2>1. Effect(o, u)[q] = IF Zone(o, q) THEN Effect(o, t)[q] ELSE u[q]
    BY <1>1, <1>4, ApartEffect
  <2>2. ~Zone(o, q) => Effect(o, t)[q] = t[q]
    BY EffectOutside
  <2> QED
    BY <1>2, <1>5, <2>1, <2>2
<1>7. Effect(o, u) = [Effect(o, t) EXCEPT ![p] = v]
  BY <1>1, <1>6 DEF Trees
<1>8. Legal(o, u) <=> Legal(o, t)
  BY <1>1, <1>4, ApartAgree
<1> QED
  BY <1>7, <1>8 DEF u

\* An operation that a proper tree takes leaves what it does not take away.
LEMMA EffectKeeps ==
    ASSUME NEW o \in OpSet, NEW t \in Trees, Proper(t), Legal(o, t),
           NEW q \in Paths, t[q] # Absent, o.op \in Leaving => ~Under(o.path, q)
    PROVE  Effect(o, t)[q] = t[q]
<1>1. o.path \in Paths /\ o.dest \in Paths /\ o.path \in Names /\ o.dest \in Names /\ q \in Names
  BY OpFields, PathNames
<1>2. CASE o.op \in {"delete", "rmdir"}
  BY <1>1, <1>2 DEF Effect, Leaving
<1>3. CASE o.op = "mkdir"
  <2>1. q # o.path
    BY <1>3 DEF Legal
  <2> QED
    BY <1>1, <1>3, <2>1 DEF Effect, Trees
<1>4. CASE o.op = "rename"
  <2>1. ~Under(o.path, q) /\ t[o.dest] = Absent
    BY <1>4 DEF Legal, Leaving
  <2>2. ~Under(o.dest, q)
    BY <1>1, <2>1, DirIsThere DEF Proper, Below
  <2>3. ~Zone(o, q)
    BY <2>1, <2>2 DEF Zone
  <2> QED
    BY <2>3, EffectOutside
<1>5. CASE o.op = "put"
  BY <1>5 DEF Effect
<1> QED
  BY <1>2, <1>3, <1>4, <1>5, OpFields

\* A move into a directory, to a free path, makes a proper tree of one.
LEMMA MoveProper ==
    ASSUME NEW t \in Trees, Proper(t), NEW p \in Paths, NEW d \in Paths,
           t[d] = Absent, Remote!IsDir(t, Parent(d)), ~Under(p, d)
    PROVE  Proper(Remote!Move(t, p, d))
<1> DEFINE u == Remote!Move(t, p, d)
<1>1. p \in Names /\ d \in Names
  BY PathNames
<1>2. ASSUME NEW q \in Paths, Under(d, q)
      PROVE  t[q] = Absent
  BY <1>2, DirIsThere DEF Proper, Below
<1>3. SUFFICES ASSUME NEW q \in Paths, u[q] # Absent, NEW r \in Paths, Below(r, q)
               PROVE  u[r] = Dir
  BY DEF Proper
<1>4. q \in Names /\ r \in Names /\ Under(r, q) /\ r # q
  BY <1>3, PathNames DEF Below
<1>5. ~Under(p, q) /\ ~Under(p, r)
  <2>1. ~Under(p, q)
    BY <1>3, MoveCases
  <2> QED
    BY <1>1, <1>4, <2>1, UnderOrder
<1>6. CASE ~Under(d, q)
  <2>1. ~Under(d, r)
    BY <1>1, <1>4, <1>6, UnderOrder
  <2>2. u[q] = t[q] /\ u[r] = t[r]
    BY <1>5, <1>6, <2>1, MoveCases
  <2> QED
    BY <1>3, <2>2 DEF Proper
<1>7. CASE Under(d, q)
  <2> DEFINE m == Remote!Moved(d, p, q)
  <2>1. m \in Paths /\ u[q] = t[m] /\ t[m] # Absent
    BY <1>2, <1>3, <1>5, <1>7, MoveCases
  <2>2. Under(p, m) /\ m \in Names
    BY <1>1, <1>4, <1>7, MovedUnder
  <2>3. CASE Under(d, r)
    <3> DEFINE n == Remote!Moved(d, p, r)
    <3>1. n \in Names /\ Under(p, n) /\ Under(n, m) /\ Remote!Moved(p, d, n) = r
      BY <1>1, <1>4, <2>3, MovedUnder, MovedOrder
    <3>2. n # m
      BY <1>1, <1>4, <1>7, <3>1, MovedUnder
    <3>3. n # <<>>
      BY <3>1, RootTop
    <3>4. n \in Paths
      BY <2>1, <3>1, <3>3, PathNames
    <3>5. t[n] = Dir
      BY <2>1, <3>1, <3>2, <3>4 DEF Proper, Below
    <3> QED
      BY <1>5, <2>3, <3>4, <3>5, MoveCases
  <2>4. CASE ~Under(d, r)
    <3>1. Below(r, d)
      BY <1>1, <1>4, <1>7, <2>4, UnderOrder DEF Below
    <3>2. t[r] = Dir
      BY <3>1, DirAbove
    <3> QED
      BY <1>5, <2>4, <3>2, MoveCases
  <2> QED
    BY <2>3, <2>4
<1> QED
  BY <1>6, <1>7

\* Without what is under a path a proper tree stays one.
LEMMA CutProper ==
    ASSUME NEW t \in Trees, Proper(t), NEW p \in Paths
    PROVE  Proper([q \in Paths |-> IF Under(p, q) THEN Absent ELSE t[q]])
<1> DEFINE u == [q \in Paths |-> IF Under(p, q) THEN Absent ELSE t[q]]
<1>1. SUFFICES ASSUME NEW q \in Paths, u[q] # Absent, NEW r \in Paths, Below(r, q)
               PROVE  u[r] = Dir
  BY DEF Proper
<1>2. ~Under(p, q) /\ t[q] # Absent /\ t[r] = Dir
  BY <1>1 DEF Proper
<1>3. ~Under(p, r)
  BY <1>1, <1>2, UnderOrder, PathNames DEF Below
<1> QED
  BY <1>2, <1>3

\* Something new in a directory does as well.
LEMMA PlaceProper ==
    ASSUME NEW t \in Trees, Proper(t), NEW p \in Paths, t[p] = Absent,
           Remote!IsDir(t, Parent(p)), NEW v
    PROVE  Proper([t EXCEPT ![p] = v])
<1> DEFINE u == [t EXCEPT ![p] = v]
<1>1. SUFFICES ASSUME NEW q \in Paths, u[q] # Absent, NEW r \in Paths, Below(r, q)
               PROVE  u[r] = Dir
  BY DEF Proper
<1>2. \A x \in Paths : u[x] = IF x = p THEN v ELSE t[x]
  BY DEF Trees
<1>3. CASE q = p
  <2>1. t[r] = Dir /\ r # p
    BY <1>1, <1>3, DirAbove DEF Below
  <2> QED
    BY <1>2, <2>1
<1>4. CASE q # p
  <2>1. t[r] = Dir
    BY <1>1, <1>2, <1>4 DEF Proper
  <2>2. r # p
    BY <2>1, DirIsThere
  <2> QED
    BY <1>2, <2>1, <2>2
<1> QED
  BY <1>3, <1>4

\* Every operation a proper tree takes leaves a proper tree.
LEMMA EffectProper ==
    ASSUME NEW o \in OpSet, NEW t \in Trees, Proper(t), Legal(o, t)
    PROVE  Proper(Effect(o, t))
<1>1. o.path \in Paths /\ o.dest \in Paths
  BY OpFields
<1>2. CASE o.op \in {"delete", "rmdir"}
  BY <1>1, <1>2, CutProper DEF Effect
<1>3. CASE o.op = "mkdir"
  BY <1>1, <1>3, PlaceProper DEF Effect, Legal
<1>4. CASE o.op = "rename"
  BY <1>1, <1>4, MoveProper DEF Effect, Legal
<1>5. CASE o.op = "put"
  BY <1>5 DEF Effect
<1> QED
  BY <1>2, <1>3, <1>4, <1>5, OpFields

\* An operation makes no file.
LEMMA EffectFiles ==
    ASSUME NEW o \in OpSet, NEW t \in Trees, NEW q \in Paths, Effect(o, t)[q].kind = "file"
    PROVE  \E r \in Paths : t[r] = Effect(o, t)[q]
<1>1. o.path \in Paths /\ o.dest \in Paths
  BY OpFields
<1>2. Effect(o, t)[q] # Absent /\ Effect(o, t)[q] # Dir
  BY NodeKinds, DirIsThere
<1>3. CASE o.op \in {"delete", "rmdir"}
  BY <1>2, <1>3 DEF Effect
<1>4. CASE o.op = "mkdir"
  BY <1>2, <1>4 DEF Effect, Trees
<1>5. CASE o.op = "rename"
  BY <1>1, <1>2, <1>5, MoveCases DEF Effect
<1>6. CASE o.op = "put"
  BY <1>6 DEF Effect
<1> QED
  BY <1>3, <1>4, <1>5, <1>6, OpFields

-----------------------------------------------------------------------------
(* Induction over the queue.                                               *)

\* Induction up to n: a set with 0 and with the successor of each of its
\* members below n has every number up to n.
LEMMA Induction ==
    ASSUME NEW n \in Nat, NEW S, 0 \in S,
           \A m \in 0..n : m \in S /\ m < n => m + 1 \in S
    PROVE  0..n \subseteq S
<1> DEFINE Bad == {m \in 0..n : m \notin S}
<1> SUFFICES ASSUME Bad # {} PROVE FALSE
  OBVIOUS
<1>1. Bad \in SUBSET Nat
  OBVIOUS
<1>2. PICK x \in Bad : ~ \E y \in Bad : <<y, x>> \in OpToRel(<, Nat)
  BY <1>1, WFMin, NatLessThanWellFounded
<1>3. x \in 0..n /\ x \notin S /\ x # 0
  OBVIOUS
<1>4. x - 1 \in 0..n /\ x - 1 < n /\ x - 1 \notin S
  BY <1>3
<1>5. x - 1 \in Bad /\ <<x - 1, x>> \in OpToRel(<, Nat)
  BY <1>3, <1>4 DEF OpToRel
<1> QED
  BY <1>2, <1>5

-----------------------------------------------------------------------------
(* What the queue will make of the remote: G[k] is the tree once the waiting *)
(* operations with identifiers up to k are replayed.                       *)

Chain(W, n, G, t) ==
    /\ G[0] = t
    /\ \A k \in 0..n : G[k] \in Trees /\ Proper(G[k])
    /\ \A k \in 1..n : \A o \in W : o.id = k => Legal(o, G[k - 1]) /\ G[k] = Effect(o, G[k - 1])
    /\ \A k \in 1..n : (\A o \in W : o.id # k) => G[k] = G[k - 1]

\* What is there and is not taken away will be there.
LEMMA ChainKeeps ==
    ASSUME NEW W \in SUBSET OpSet, NEW n \in Nat, NEW G, NEW t, Chain(W, n, G, t),
           NEW i \in 0..n, NEW q \in Paths, G[i][q] # Absent,
           \A o \in W : o.op \in Leaving /\ Under(o.path, q) => o.id <= i
    PROVE  \A j \in i..n : G[j][q] = G[i][q]
<1> DEFINE S == {m \in 0..n : i <= m => G[m][q] = G[i][q]}
<1>1. 0 \in S
  OBVIOUS
<1>2. ASSUME NEW m \in 0..n, m \in S, m < n
      PROVE  m + 1 \in S
  <2>1. m + 1 \in 1..n /\ m + 1 \in 0..n /\ m + 1 - 1 = m
    BY <1>2
  <2>2. CASE i <= m
    <3>1. G[m][q] = G[i][q] /\ G[m] \in Trees /\ Proper(G[m])
      BY <1>2, <2>2 DEF Chain
    <3>2. CASE \E o \in W : o.id = m + 1
      <4>1. PICK o \in W : o.id = m + 1
        BY <3>2
      <4>2. Legal(o, G[m]) /\ G[m + 1] = Effect(o, G[m])
        BY <2>1, <4>1 DEF Chain
      <4>3. ~(o.id <= i)
        BY <1>2, <2>2, <4>1
      <4>4. o.op \in Leaving => ~Under(o.path, q)
        BY <4>3
      <4>5. G[m + 1][q] = G[m][q]
        BY <3>1, <4>2, <4>4, EffectKeeps
      <4> QED
        BY <2>1, <3>1, <4>5
    <3>3. CASE ~ \E o \in W : o.id = m + 1
      <4>1. G[m + 1] = G[m]
        BY <2>1, <3>3 DEF Chain
      <4> QED
        BY <2>1, <3>1, <4>1
    <3> QED
      BY <3>2, <3>3
  <2>3. CASE ~(i <= m)
    <3>1. i <= m + 1 => i = m + 1
      BY <1>2, <2>3
    <3> QED
      BY <2>1, <3>1
  <2> QED
    BY <2>2, <2>3
<1> HIDE DEF S
<1>3. 0..n \subseteq S
  BY <1>1, <1>2, Induction
<1> QED
  BY <1>3 DEF S

\* Every file that will be there is there, somewhere.
LEMMA ChainFiles ==
    ASSUME NEW W \in SUBSET OpSet, NEW n \in Nat, NEW G, NEW t, Chain(W, n, G, t),
           NEW q \in Paths, G[n][q].kind = "file"
    PROVE  \E r \in Paths : t[r] = G[n][q]
<1> DEFINE S == {m \in 0..n : \A x \in Paths : G[m][x].kind = "file" =>
                                \E r \in Paths : t[r] = G[m][x]}
<1>1. 0 \in S
  BY DEF Chain
<1>2. ASSUME NEW m \in 0..n, m \in S, m < n
      PROVE  m + 1 \in S
  <2>1. m + 1 \in 1..n /\ m + 1 \in 0..n /\ m + 1 - 1 = m
    BY <1>2
  <2>2. ASSUME NEW x \in Paths, G[m + 1][x].kind = "file"
        PROVE  \E y \in Paths : G[m][y] = G[m + 1][x]
    <3>1. CASE \E o \in W : o.id = m + 1
      <4>1. PICK o \in W : o.id = m + 1
        BY <3>1
      <4>2. G[m + 1] = Effect(o, G[m]) /\ G[m] \in Trees
        BY <2>1, <4>1 DEF Chain
      <4> QED
        BY <2>2, <4>2, EffectFiles
    <3>2. CASE ~ \E o \in W : o.id = m + 1
      BY <2>1, <3>2 DEF Chain
    <3> QED
      BY <3>1, <3>2
  <2>3. ASSUME NEW x \in Paths, G[m + 1][x].kind = "file"
        PROVE  \E r \in Paths : t[r] = G[m + 1][x]
    BY <1>2, <2>2, <2>3
  <2> QED
    BY <2>1, <2>3
<1>3. 0..n \subseteq S
  <2> HIDE DEF S
  <2> QED
    BY <1>1, <1>2, Induction
<1>4. n \in S
  BY <1>3
<1> QED
  BY <1>4

\* Operations ahead of o in W have nothing to do with it, and none has its place.
Foremost(o, W) ==
    /\ \A e \in W : e.id < o.id => e.op = "put" \/ Apart(o, e.path, e.dest)
    /\ \A e \in W : e.id = o.id => e = o

\* An operation whose predecessors have nothing to do with it is legal now.
LEMMA ChainEarly ==
    ASSUME NEW W \in SUBSET OpSet, NEW n \in Nat, NEW G, NEW t, Chain(W, n, G, t),
           NEW o \in W, o.id \in 1..n, Foremost(o, W)
    PROVE  \A i \in 0..o.id - 1 : Legal(o, G[i])
<1> DEFINE k == o.id
           S == {m \in 0..k - 1 : Legal(o, G[k - 1 - m])}
<1>0. k \in 1..n /\ k \in Nat /\ k - 1 \in Nat
  OBVIOUS
<1> HIDE DEF k
<1>1. 0 \in S
  <2>1. Legal(o, G[k - 1])
    BY <1>0 DEF Chain, k
  <2> QED
    BY <1>0, <2>1
<1>2. ASSUME NEW m \in 0..k - 1, m \in S, m < k - 1
      PROVE  m + 1 \in S
  <2> DEFINE j == k - 1 - m
  <2>1. j \in 1..n /\ j < k /\ j - 1 \in 0..n /\ k - 1 - (m + 1) = j - 1 /\ m + 1 \in 0..k - 1
    BY <1>0, <1>2
  <2>2. Legal(o, G[j])
    BY <1>2
  <2> HIDE DEF j
  <2>3. Legal(o, G[j - 1])
    <3>1. CASE \E e \in W : e.id = j
      <4>1. PICK e \in W : e.id = j
        BY <3>1
      <4>2. G[j] = Effect(e, G[j - 1]) /\ G[j - 1] \in Trees
        BY <2>1, <4>1 DEF Chain
      <4>3. e.op = "put" \/ Apart(o, e.path, e.dest)
        BY <2>1, <4>1 DEF k, Foremost
      <4>4. CASE e.op = "put"
        BY <2>2, <4>2, <4>4 DEF Effect
      <4>5. CASE Apart(o, e.path, e.dest)
        BY <2>2, <4>2, <4>5, Commute
      <4> QED
        BY <4>3, <4>4, <4>5
    <3>2. CASE ~ \E e \in W : e.id = j
      BY <2>1, <2>2, <3>2 DEF Chain
    <3> QED
      BY <3>1, <3>2
  <2> QED
    BY <2>1, <2>3
<1>3. 0..k - 1 \subseteq S
  <2> HIDE DEF S
  <2> QED
    BY <1>0, <1>1, <1>2, Induction
<1>4. ASSUME NEW i \in 0..k - 1 PROVE Legal(o, G[i])
  <2>1. k - 1 - i \in 0..k - 1 /\ k - 1 - (k - 1 - i) = i
    BY <1>0
  <2>2. k - 1 - i \in S
    BY <1>3, <2>1
  <2> QED
    BY <2>1, <2>2
<1> QED
  BY <1>4 DEF k

\* It can be replayed now, and the outcome is the same.
LEMMA ChainTaken ==
    ASSUME NEW W \in SUBSET OpSet, NEW n \in Nat, NEW G, NEW t, Chain(W, n, G, t),
           NEW o \in W, o.id \in 1..n, Foremost(o, W)
    PROVE  \E H : Chain(W \ {o}, n, H, Effect(o, t)) /\ H[n] = G[n]
<1> DEFINE k == o.id
           H == [i \in 0..n |-> IF i < k THEN Effect(o, G[i]) ELSE G[i]]
           V == W \ {o}
<1>0. k \in 1..n /\ k \in Nat
  OBVIOUS
<1>1. \A i \in 0..n : i < k => Legal(o, G[i])
  <2>1. \A i \in 0..o.id - 1 : Legal(o, G[i])
    BY ChainEarly
  <2> QED
    BY <1>0, <2>1
<1>2. H[0] = Effect(o, t)
  BY <1>0 DEF Chain
<1>3. ASSUME NEW i \in 0..n PROVE H[i] \in Trees /\ Proper(H[i])
  <2>1. G[i] \in Trees /\ Proper(G[i])
    BY DEF Chain
  <2>2. i < k => Effect(o, G[i]) \in Trees /\ Proper(Effect(o, G[i]))
    BY <1>1, <2>1, EffectTyped, EffectProper
  <2> QED
    BY <2>1, <2>2
<1>4. ASSUME NEW i \in 1..n
      PROVE  /\ \A e \in V : e.id = i => Legal(e, H[i - 1]) /\ H[i] = Effect(e, H[i - 1])
             /\ (\A e \in V : e.id # i) => H[i] = H[i - 1]
  <2>1. i \in 0..n /\ i - 1 \in 0..n /\ G[i - 1] \in Trees
    BY DEF Chain
  <2>2. CASE i < k
    <3>1. H[i] = Effect(o, G[i]) /\ H[i - 1] = Effect(o, G[i - 1])
      BY <1>0, <2>1, <2>2
    <3> HIDE DEF H
    <3>2. ASSUME NEW e \in V, e.id = i
          PROVE  Legal(e, H[i - 1]) /\ H[i] = Effect(e, H[i - 1])
      <4>1. Legal(e, G[i - 1]) /\ G[i] = Effect(e, G[i - 1])
        BY <3>2 DEF Chain
      <4>2. e.op = "put" \/ Apart(o, e.path, e.dest)
        BY <2>2, <3>2 DEF Foremost
      <4>3. CASE e.op = "put"
        BY <3>1, <4>1, <4>3 DEF Effect, Legal, Leaving
      <4>4. CASE Apart(o, e.path, e.dest)
        BY <2>1, <3>1, <4>1, <4>4, Commute
      <4> QED
        BY <4>2, <4>3, <4>4
    <3>3. (\A e \in V : e.id # i) => H[i] = H[i - 1]
      <4>1. (\A e \in V : e.id # i) => \A e \in W : e.id # i
        BY <1>0, <2>2
      <4> QED
        BY <3>1, <4>1 DEF Chain
    <3> QED
      BY <3>2, <3>3
  <2>3. CASE i = k
    <3>1. H[i] = G[i] /\ H[i - 1] = Effect(o, G[i - 1])
      BY <1>0, <2>1, <2>3
    <3>2. G[i] = Effect(o, G[i - 1])
      BY <2>3 DEF Chain
    <3>3. \A e \in V : e.id # i
      BY <2>3 DEF Foremost
    <3> QED
      BY <3>1, <3>2, <3>3
  <2>4. CASE i > k
    <3>1. H[i] = G[i] /\ H[i - 1] = G[i - 1]
      BY <1>0, <2>1, <2>4
    <3>2. (\A e \in V : e.id # i) => \A e \in W : e.id # i
      BY <1>0, <2>4
    <3> HIDE DEF H
    <3> QED
      BY <3>1, <3>2 DEF Chain
  <2> QED
    BY <1>0, <2>2, <2>3, <2>4
<1>5. H[n] = G[n]
  BY <1>0
<1> HIDE DEF H
<1>6. Chain(V, n, H, Effect(o, t))
  BY <1>2, <1>3, <1>4 DEF Chain
<1> QED
  BY <1>5, <1>6

\* A put can be dropped.
LEMMA ChainDrop ==
    ASSUME NEW W \in SUBSET OpSet, NEW n \in Nat, NEW G, NEW t, Chain(W, n, G, t),
           NEW o \in W, o.op = "put", \A e \in W : e.id = o.id => e = o
    PROVE  Chain(W \ {o}, n, G, t)
<1>1. ASSUME NEW k \in 1..n, \A e \in W \ {o} : e.id # k PROVE G[k] = G[k - 1]
  <2>1. CASE o.id = k
    <3>1. G[k] = Effect(o, G[k - 1])
      BY <2>1 DEF Chain
    <3> QED
      BY <3>1 DEF Effect
  <2>2. CASE o.id # k
    <3>1. \A e \in W : e.id # k
      BY <1>1, <2>2
    <3> QED
      BY <3>1 DEF Chain
  <2> QED
    BY <2>1, <2>2
<1> QED
  BY <1>1 DEF Chain

\* The tree t with v at p.
With(t, p, v) == [t EXCEPT ![p] = v]

\* p is free all along, in a directory, and no operation of W reaches it.
Free(W, n, G, p) ==
    /\ \A e \in W : e.op = "put" \/ Apart(e, p, p)
    /\ \A k \in 0..n : G[k][p] = Absent /\ Remote!IsDir(G[k], Parent(p))

\* A file that is put where no operation reaches stays there.
LEMMA ChainPut ==
    ASSUME NEW W \in SUBSET OpSet, NEW n \in Nat, NEW G, NEW t, Chain(W, n, G, t),
           NEW p \in Paths, NEW v \in Node, Free(W, n, G, p)
    PROVE  \E H : Chain(W, n, H, With(t, p, v)) /\ H[n] = With(G[n], p, v)
<1> USE DEF With
<1> DEFINE H == [i \in 0..n |-> [G[i] EXCEPT ![p] = v]]
<1>1. H[0] = [t EXCEPT ![p] = v]
  BY DEF Chain
<1>2. ASSUME NEW i \in 0..n PROVE H[i] \in Trees /\ Proper(H[i])
  <2>1. G[i] \in Trees /\ Proper(G[i])
    BY DEF Chain
  <2>2. [G[i] EXCEPT ![p] = v] \in Trees
    BY <2>1 DEF Trees, Node
  <2>3. Proper([G[i] EXCEPT ![p] = v])
    BY <2>1, PlaceProper DEF Free
  <2> QED
    BY <2>2, <2>3
<1>3. ASSUME NEW i \in 1..n
      PROVE  /\ \A e \in W : e.id = i => Legal(e, H[i - 1]) /\ H[i] = Effect(e, H[i - 1])
             /\ (\A e \in W : e.id # i) => H[i] = H[i - 1]
  <2>1. /\ i \in 0..n /\ i - 1 \in 0..n /\ G[i - 1] \in Trees
        /\ H[i] = [G[i] EXCEPT ![p] = v] /\ H[i - 1] = [G[i - 1] EXCEPT ![p] = v]
    BY DEF Chain
  <2> HIDE DEF H
  <2>2. ASSUME NEW e \in W, e.id = i
        PROVE  Legal(e, H[i - 1]) /\ H[i] = Effect(e, H[i - 1])
    <3>1. Legal(e, G[i - 1]) /\ G[i] = Effect(e, G[i - 1])
      BY <2>2 DEF Chain
    <3>2. CASE e.op = "put"
      BY <2>1, <3>1, <3>2 DEF Effect, Legal, Leaving
    <3>3. CASE Apart(e, p, p)
      BY <2>1, <3>1, <3>3, CommutePut
    <3> QED
      BY <3>2, <3>3 DEF Free
  <2>3. (\A e \in W : e.id # i) => H[i] = H[i - 1]
    BY <2>1 DEF Chain
  <2> QED
    BY <2>2, <2>3
<1>4. H[n] = [G[n] EXCEPT ![p] = v]
  OBVIOUS
<1> HIDE DEF H
<1>5. Chain(W, n, H, [t EXCEPT ![p] = v])
  BY <1>1, <1>2, <1>3 DEF Chain
<1> QED
  BY <1>4, <1>5

\* The queue grows by an operation that the last tree takes, or the number of
\* user operations grows without one.
LEMMA ChainGrows ==
    ASSUME NEW W \in SUBSET OpSet, NEW n \in Nat, NEW G, NEW t, Chain(W, n, G, t),
           \A e \in W : e.id <= n
    PROVE  /\ \E H : Chain(W, n + 1, H, t) /\ H[n + 1] = G[n]
           /\ \A o \in OpSet : o.id = n + 1 /\ Legal(o, G[n]) =>
                \E H : Chain(W \cup {o}, n + 1, H, t) /\ H[n + 1] = Effect(o, G[n])
<1>1. ASSUME NEW u \in Trees, Proper(u), NEW V \in SUBSET OpSet,
             \A e \in V : e.id <= n <=> e \in W, W \subseteq V,
             \A e \in V : e.id = n + 1 => Legal(e, G[n]) /\ u = Effect(e, G[n]),
             (\A e \in V : e.id # n + 1) => u = G[n]
      PROVE  \E H : Chain(V, n + 1, H, t) /\ H[n + 1] = u
  <2> DEFINE H == [i \in 0..n + 1 |-> IF i <= n THEN G[i] ELSE u]
  <2>1. H[0] = t
    BY DEF Chain
  <2>2. ASSUME NEW i \in 0..n + 1 PROVE H[i] \in Trees /\ Proper(H[i])
    <3>1. CASE i <= n
      BY <3>1 DEF Chain
    <3>2. CASE ~(i <= n)
      BY <1>1, <3>2
    <3> QED
      BY <3>1, <3>2
  <2>3. ASSUME NEW i \in 1..n + 1
        PROVE  /\ \A e \in V : e.id = i => Legal(e, H[i - 1]) /\ H[i] = Effect(e, H[i - 1])
               /\ (\A e \in V : e.id # i) => H[i] = H[i - 1]
    <3>1. CASE i <= n
      <4>1. H[i] = G[i] /\ H[i - 1] = G[i - 1] /\ i \in 1..n
        BY <3>1
      <4>2. \A e \in V : e.id = i => e \in W
        BY <1>1, <3>1
      <4>3. (\A e \in V : e.id # i) => \A e \in W : e.id # i
        BY <1>1
      <4> HIDE DEF H
      <4> QED
        BY <4>1, <4>2, <4>3 DEF Chain
    <3>2. CASE i = n + 1
      <4>1. H[i] = u /\ H[i - 1] = G[n]
        BY <3>2
      <4> HIDE DEF H
      <4> QED
        BY <1>1, <3>2, <4>1
    <3> QED
      BY <3>1, <3>2
  <2>4. H[n + 1] = u
    OBVIOUS
  <2> HIDE DEF H
  <2>5. Chain(V, n + 1, H, t)
    BY <2>1, <2>2, <2>3 DEF Chain
  <2> QED
    BY <2>4, <2>5
<1>2. G[n] \in Trees /\ Proper(G[n])
  BY DEF Chain
<1>3. \E H : Chain(W, n + 1, H, t) /\ H[n + 1] = G[n]
  <2>1. \A e \in W : e.id <= n /\ e.id # n + 1
    <3> TAKE e \in W
    <3>1. e.id <= n /\ e.id \in Int
      BY OpFields
    <3> QED
      BY <3>1
  <2> QED
    BY <1>1, <1>2, <2>1
<1>4. ASSUME NEW o \in OpSet, o.id = n + 1, Legal(o, G[n])
      PROVE  \E H : Chain(W \cup {o}, n + 1, H, t) /\ H[n + 1] = Effect(o, G[n])
  <2> DEFINE V == W \cup {o}
  <2>1. \A e \in W : e.id <= n /\ e.id # n + 1
    <3> TAKE e \in W
    <3>1. e.id <= n /\ e.id \in Int
      BY OpFields
    <3> QED
      BY <3>1
  <2>2. o \notin W /\ ~(o.id <= n)
    BY <1>4, <2>1
  <2>3. \A e \in V : e.id <= n <=> e \in W
    BY <2>1, <2>2
  <2>4. \A e \in V : e.id = n + 1 => e = o
    BY <2>1
  <2>5. Effect(o, G[n]) \in Trees /\ Proper(Effect(o, G[n]))
    BY <1>2, <1>4, EffectTyped, EffectProper
  <2>6. V \in SUBSET OpSet /\ W \subseteq V
    OBVIOUS
  <2>7. /\ \A e \in V : e.id = n + 1 => Legal(e, G[n]) /\ Effect(o, G[n]) = Effect(e, G[n])
        /\ ~(\A e \in V : e.id # n + 1)
    BY <1>4, <2>4
  <2> HIDE DEF V
  <2>8. \E H : Chain(V, n + 1, H, t) /\ H[n + 1] = Effect(o, G[n])
    BY <1>1, <2>3, <2>5, <2>6, <2>7
  <2> QED
    BY <2>8 DEF V
<1> QED
  BY <1>3, <1>4

\* Puts are redirected without effect.
LEMMA ChainSwap ==
    ASSUME NEW W, NEW V, NEW n \in Nat, NEW G, NEW t, Chain(W, n, G, t),
           \A o \in V : \E e \in W : e.id = o.id /\ (o = e \/ (o.op = "put" /\ e.op = "put")),
           \A e \in W : \E o \in V : o.id = e.id
    PROVE  Chain(V, n, G, t)
<1>1. ASSUME NEW i \in 1..n, NEW o \in V, o.id = i
      PROVE  Legal(o, G[i - 1]) /\ G[i] = Effect(o, G[i - 1])
  <2>1. PICK e \in W : e.id = o.id /\ (o = e \/ (o.op = "put" /\ e.op = "put"))
    OBVIOUS
  <2>2. Legal(e, G[i - 1]) /\ G[i] = Effect(e, G[i - 1])
    BY <1>1, <2>1 DEF Chain
  <2> QED
    BY <2>1, <2>2 DEF Effect, Legal, Leaving
<1>2. ASSUME NEW i \in 1..n, \A o \in V : o.id # i
      PROVE  G[i] = G[i - 1]
  BY <1>2 DEF Chain
<1> QED
  BY <1>1, <1>2 DEF Chain

-----------------------------------------------------------------------------
(* The invariant.                                                          *)

OpsOf(q) == {q[i] : i \in DOMAIN q}

\* The operations that the remote has not seen.
WaitingOf(q) == {o \in OpsOf(q) : ~(w.pc = "complete" /\ o.id = w.ops[1].id)}
Waiting == WaitingOf(ops)

Dirty(p) == rows[p] = Row("file", "dirty")

\* The variables have their types, and w is a record.
Typed ==
    /\ TypeOK
    /\ w = [pc |-> w.pc, files |-> w.files, ops |-> w.ops, dirs |-> w.dirs, dir |-> w.dir, list |-> w.list]

\* Operations are numbered in their order.
Ids ==
    /\ \A i, j \in DOMAIN ops : i < j => ops[i].id < ops[j].id
    /\ \A i \in DOMAIN ops : ops[i].id <= used

\* Once the queue is replayed the remote is what the user made, but for files
\* that are not uploaded, which it does not have.
Reaches(t) == \A p \in Paths : t[p] = IF Dirty(p) THEN Absent ELSE user[p]
Planned == \E G : Chain(Waiting, used, G, tree) /\ Reaches(G[used])

\* What the queue is going to take away the user no longer has.
LeftIsGone ==
    \A o \in Waiting : o.op \in Leaving =>
        \A q \in Paths : Under(o.path, q) => user[q] = Absent

\* Rows agree with the user's tree where it has something.
RowsFit ==
    \A p \in Paths : /\ rows[p].kind = "absent" => rows[p] = NoRow
                     /\ Dirty(p) => user[p].kind = "file"
                     /\ rows[p].kind # "absent" /\ user[p] # Absent => rows[p].kind = user[p].kind

\* A file that is not evicted is on the disk, whether a lookup finds it or not.
HasFile ==
    \A p \in Paths : user[p].kind = "file" /\ rows[p].state \in {"clean", "dirty"} =>
        disk[p] = user[p]

\* The uploads ahead are of dirty files.
PutPhase == w.pc = "put" => \A p \in w.files : Dirty(p)

\* The listing in hand is still what the remote has.
MergePhase == w.pc = "merge" => w.list = [p \in Children(tree, w.dir) |-> tree[p].kind]

\* o is the operation n, unless both are puts, which a rename may redirect.
Same(o, n) == o = n \/ (o.op = "put" /\ n.op = "put")

\* The operations to be replayed are waiting, in their order, and those that
\* were passed over have nothing to do with them.
ReplayPhase ==
    w.pc \in {"apply", "complete"} =>
        /\ \A i, j \in DOMAIN w.ops : i < j => w.ops[i].id < w.ops[j].id
        /\ w.pc = "complete" => w.ops # <<>> /\ \E o \in OpsOf(ops) : o.id = w.ops[1].id
        /\ \A j \in DOMAIN w.ops : \/ w.pc = "complete" /\ j = 1
                                   \/ \E o \in Waiting : o.id = w.ops[j].id /\ Same(o, w.ops[j])
        /\ \A o \in Waiting, j \in DOMAIN w.ops :
              o.id < w.ops[j].id /\ (\A i \in DOMAIN w.ops : w.ops[i].id # o.id) =>
                  o.op = "put" \/ Apart(w.ops[j], o.path, o.dest)

NameInv ==
    /\ Typed /\ Ids /\ Planned /\ LeftIsGone
    /\ Proper(user) /\ RowsFit /\ HasFile
    /\ PutPhase /\ MergePhase /\ ReplayPhase

\* The types, one by one.
LEMMA Types ==
    ASSUME Typed
    PROVE  /\ tree \in Trees /\ disk \in Trees /\ user \in Trees
           /\ \A p \in Paths : tree[p] \in Node /\ disk[p] \in Node /\ user[p] \in Node
           /\ Waiting \in SUBSET OpSet /\ ops \in Seq(OpSet) /\ w.ops \in Seq(OpSet)
           /\ used \in Nat /\ used <= MaxOps /\ MaxOps \in Nat
           /\ \A i \in DOMAIN ops : ops[i] \in OpSet
           /\ \A i \in DOMAIN w.ops : w.ops[i] \in OpSet
<1>1. tree \in Trees /\ disk \in Trees /\ user \in Trees
  BY DEF Typed, TypeOK
<1>2. \A p \in Paths : tree[p] \in Node /\ disk[p] \in Node /\ user[p] \in Node
  BY <1>1 DEF Trees, Node
<1>3. ops \in Seq(OpSet) /\ w.ops \in Seq(OpSet) /\ used \in 0..MaxOps
  BY DEF Typed, TypeOK
<1>4. /\ \A i \in DOMAIN ops : ops[i] \in OpSet
      /\ \A i \in DOMAIN w.ops : w.ops[i] \in OpSet
  BY <1>3
<1>5. Waiting \in SUBSET OpSet
  BY <1>4 DEF Waiting, WaitingOf, OpsOf
<1>6. MaxOps \in Nat
  BY NamespaceAssumption
<1> QED
  BY <1>1, <1>2, <1>3, <1>4, <1>5, <1>6

\* What the user has is not about to leave.
LEMMA UserStays ==
    ASSUME Typed, LeftIsGone, NEW G, Chain(Waiting, used, G, tree),
           NEW q \in Paths, user[q] # Absent, NEW i \in 0..used, G[i][q] # Absent
    PROVE  \A j \in i..used : G[j][q] = G[i][q]
<1>1. \A o \in Waiting : ~(o.op \in Leaving /\ Under(o.path, q))
  BY DEF LeftIsGone
<1>2. Waiting \in SUBSET OpSet /\ used \in Nat
  BY Types
<1> QED
  BY <1>1, <1>2, ChainKeeps

\* What is on the remote and the user has is what the user has.
LEMMA RemoteKnows ==
    ASSUME NameInv, NEW q \in Paths, user[q] # Absent, tree[q] # Absent
    PROVE  ~Dirty(q) /\ tree[q] = user[q]
<1>1. PICK G : Chain(Waiting, used, G, tree) /\ Reaches(G[used])
  BY DEF NameInv, Planned
<1>2. used \in Nat /\ 0 \in 0..used /\ G[0] = tree
  BY <1>1, Types DEF NameInv, Chain
<1>3. \A j \in 0..used : G[j][q] = G[0][q]
  BY <1>1, <1>2, UserStays DEF NameInv
<1>4. used \in 0..used
  BY <1>2
<1>5. G[used][q] = tree[q]
  BY <1>2, <1>3, <1>4
<1> QED
  BY <1>1, <1>5 DEF Reaches

\* What the user does not have will not be there.
LEMMA UserLacks ==
    ASSUME RowsFit, NEW t, Reaches(t), NEW q \in Paths, user[q] = Absent
    PROVE  ~Dirty(q) /\ t[q] = Absent
  BY NodeKinds, DirIsThere DEF RowsFit, Reaches

\* A directory that the user finds is one, and will be one on the remote.
LEMMA FoundDir ==
    ASSUME NameInv, NEW t, Reaches(t), NEW d, Finds(d), "revived" \notin Admits
    PROVE  Remote!IsDir(user, d) /\ Remote!IsDir(t, d)
<1>1. CASE d = <<>>
  BY <1>1 DEF Remote!IsDir
<1>2. CASE d # <<>>
  <2>1. d \in Paths /\ Sees(d) /\ rows[d].kind = "dir"
    BY <1>2 DEF Finds
  <2>2. user[d] # Absent
    BY <2>1 DEF Sees
  <2>3. user[d].kind = "dir"
    BY <2>1, <2>2 DEF NameInv, RowsFit
  <2>4. ~Dirty(d)
    BY <2>1 DEF Dirty, Row
  <2>5. t[d] = user[d]
    BY <2>1, <2>4 DEF Reaches
  <2> QED
    BY <2>1, <2>3, <2>5 DEF Remote!IsDir
<1> QED
  BY <1>1, <1>2

\* Identifiers tell waiting operations apart.
LEMMA IdsApart ==
    ASSUME Typed, Ids
    PROVE  /\ \A o, n \in OpsOf(ops) : o.id = n.id => o = n
           /\ \A o \in OpsOf(ops) : o \in OpSet /\ o.id \in 1..used
<1>1. ASSUME NEW i \in DOMAIN ops, NEW j \in DOMAIN ops, ops[i].id = ops[j].id
      PROVE  i = j
  <2>1. i \in Int /\ j \in Int /\ ops[i].id \in Int /\ ops[j].id \in Int
    BY Types, OpFields
  <2> QED
    BY <1>1, <2>1 DEF Ids
<1>2. ASSUME NEW i \in DOMAIN ops PROVE ops[i] \in OpSet /\ ops[i].id \in 1..used
  <2>1. ops[i] \in OpSet /\ ops[i].id \in 1..MaxOps /\ ops[i].id <= used /\ used \in Nat
    BY Types, OpFields DEF Ids
  <2> QED
    BY <2>1
<1> QED
  BY <1>1, <1>2 DEF OpsOf

-----------------------------------------------------------------------------
(* What the user does.                                                     *)

\* An operation is queued, behind those there are.
LEMMA QueueStep ==
    ASSUME NameInv, used' = used + 1, UNCHANGED <<tree, w>>,
           NEW R \in Seq(OpSet), Len(R) = Len(ops),
           \A i \in DOMAIN ops : /\ R[i].id = ops[i].id
                                 /\ \/ Same(R[i], ops[i])
                                    \/ w.pc = "complete" /\ ops[i].id = w.ops[1].id,
           NEW o \in OpSet, o.id = used + 1, ops' = Append(R, o),
           NEW G, Chain(Waiting, used, G, tree), Legal(o, G[used])
    PROVE  /\ ops' \in Seq(OpSet) /\ Ids' /\ ReplayPhase'
           /\ \E H : Chain(Waiting', used', H, tree') /\ H[used'] = Effect(o, G[used])
           /\ \A e \in Waiting' : e = o \/ \E a \in Waiting : Same(e, a)
<1> DEFINE V == WaitingOf(R)
<1>1. /\ used \in Nat /\ ops \in Seq(OpSet) /\ Waiting \in SUBSET OpSet
      /\ DOMAIN R = DOMAIN ops /\ DOMAIN ops = 1..Len(ops) /\ Len(ops) \in Nat
      /\ \A i \in DOMAIN ops : R[i] \in OpSet
  BY Types DEF NameInv
<1>2. /\ \A n, m \in OpsOf(ops) : n.id = m.id => n = m
      /\ \A n \in OpsOf(ops) : n \in OpSet /\ n.id \in 1..used
  BY IdsApart DEF NameInv
<1>3. /\ ops' \in Seq(OpSet) /\ DOMAIN ops' = 1..Len(ops) + 1
      /\ \A i \in DOMAIN ops : ops'[i] = R[i]
      /\ ops'[Len(ops) + 1] = o
  BY <1>1
<1>4. ASSUME NEW i \in DOMAIN ops, ~(w.pc = "complete" /\ ops[i].id = w.ops[1].id)
      PROVE  R[i] \in V /\ R[i].id = ops[i].id /\ Same(R[i], ops[i])
  BY <1>1, <1>4 DEF WaitingOf, OpsOf
<1>5. ASSUME NEW e \in V
      PROVE  \E a \in Waiting : e.id = a.id /\ Same(e, a)
  <2>1. PICK i \in DOMAIN ops : e = R[i] /\ ~(w.pc = "complete" /\ R[i].id = w.ops[1].id)
    BY <1>1 DEF WaitingOf, OpsOf
  <2>2. ops[i] \in Waiting /\ R[i].id = ops[i].id
    BY <2>1 DEF Waiting, WaitingOf, OpsOf
  <2> QED
    BY <1>4, <2>1, <2>2
<1>6. ASSUME NEW a \in Waiting
      PROVE  \E e \in V : e.id = a.id /\ Same(e, a)
  <2>1. PICK i \in DOMAIN ops : a = ops[i] /\ ~(w.pc = "complete" /\ ops[i].id = w.ops[1].id)
    BY DEF Waiting, WaitingOf, OpsOf
  <2> QED
    BY <1>4, <2>1
<1>7. V \in SUBSET OpSet /\ \A e \in V : e.id <= used
  <2>1. V \in SUBSET OpSet
    BY <1>1 DEF WaitingOf, OpsOf
  <2>2. \A a \in Waiting : a.id <= used
    BY <1>2 DEF Waiting, WaitingOf
  <2> QED
    BY <1>5, <2>1, <2>2
<1>8. Chain(V, used, G, tree)
  <2>1. \A e \in V : \E a \in Waiting : a.id = e.id /\ (e = a \/ (e.op = "put" /\ a.op = "put"))
    BY <1>5 DEF Same
  <2>2. \A a \in Waiting : \E e \in V : e.id = a.id
    BY <1>6
  <2> HIDE DEF V
  <2> QED
    BY <1>1, <2>1, <2>2, ChainSwap
<1>9. Waiting' = V \cup {o}
  <2>1. OpsOf(ops') = OpsOf(R) \cup {o}
    BY <1>1, <1>3 DEF OpsOf
  <2>2. ~(w.pc = "complete" /\ o.id = w.ops[1].id)
    <3>1. w.pc = "complete" => \E n \in OpsOf(ops) : n.id = w.ops[1].id
      BY DEF NameInv, ReplayPhase
    <3> QED
      BY <1>1, <1>2, <3>1
  <2> QED
    BY <2>1, <2>2 DEF Waiting, WaitingOf
<1>10. \E H : Chain(Waiting', used', H, tree') /\ H[used'] = Effect(o, G[used])
  <2> HIDE DEF V
  <2>0. used \in Nat
    BY <1>1
  <2>1. \A n \in OpSet : n.id = used + 1 /\ Legal(n, G[used]) =>
          \E H : Chain(V \cup {n}, used + 1, H, tree) /\ H[used + 1] = Effect(n, G[used])
    BY <2>0, <1>7, <1>8, ChainGrows, ZenonT(30)
  <2>2. \E H : Chain(V \cup {o}, used + 1, H, tree) /\ H[used + 1] = Effect(o, G[used])
    BY <2>1
  <2> QED
    BY <1>9, <2>2
<1>11. \A e \in Waiting' : e = o \/ \E a \in Waiting : Same(e, a)
  BY <1>5, <1>9
<1>12. Ids'
  <2>1. ASSUME NEW i \in DOMAIN ops', NEW j \in DOMAIN ops', i < j
        PROVE  ops'[i].id < ops'[j].id
    <3>1. i \in DOMAIN ops /\ ops'[i].id = ops[i].id
      BY <1>1, <1>3, <2>1
    <3>2. ops[i].id \in 1..used
      BY <1>2, <3>1 DEF OpsOf
    <3>3. CASE j \in DOMAIN ops
      BY <1>3, <2>1, <3>1, <3>3 DEF NameInv, Ids
    <3>4. CASE j = Len(ops) + 1
      BY <1>1, <1>3, <3>1, <3>2, <3>4
    <3> QED
      BY <1>1, <1>3, <3>3, <3>4
  <2>2. ASSUME NEW i \in DOMAIN ops'
        PROVE  ops'[i].id <= used'
    <3>1. CASE i \in DOMAIN ops
      <4>1. ops'[i].id = ops[i].id /\ ops[i].id \in 1..used
        BY <1>2, <1>3, <3>1 DEF OpsOf
      <4> QED
        BY <1>1, <4>1
    <3>2. CASE i = Len(ops) + 1
      BY <1>1, <1>3, <3>2
    <3> QED
      BY <1>1, <1>3, <3>1, <3>2
  <2> QED
    BY <2>1, <2>2 DEF Ids
<1>13. ReplayPhase'
  <2> SUFFICES ASSUME w.pc \in {"apply", "complete"} PROVE ReplayPhase'
    BY DEF ReplayPhase
  <2>1. /\ \A i, j \in DOMAIN w.ops : i < j => w.ops[i].id < w.ops[j].id
        /\ w.pc = "complete" => w.ops # <<>> /\ \E n \in OpsOf(ops) : n.id = w.ops[1].id
        /\ \A j \in DOMAIN w.ops : \/ w.pc = "complete" /\ j = 1
                                   \/ \E n \in Waiting : n.id = w.ops[j].id /\ Same(n, w.ops[j])
        /\ \A n \in Waiting, j \in DOMAIN w.ops :
              n.id < w.ops[j].id /\ (\A i \in DOMAIN w.ops : w.ops[i].id # n.id) =>
                  n.op = "put" \/ Apart(w.ops[j], n.path, n.dest)
    BY DEF NameInv, ReplayPhase
  <2>2. w.pc = "complete" => w.ops # <<>> /\ \E n \in OpsOf(ops') : n.id = w.ops[1].id
    <3>1. ASSUME NEW n \in OpsOf(ops) PROVE \E m \in OpsOf(ops') : m.id = n.id
      <4>1. PICK i \in DOMAIN ops : n = ops[i]
        BY DEF OpsOf
      <4>2. i \in DOMAIN ops' /\ ops'[i].id = n.id
        BY <1>1, <1>3, <4>1
      <4> QED
        BY <4>2 DEF OpsOf
    <3> QED
      BY <2>1, <3>1
  <2>3. ASSUME NEW j \in DOMAIN w.ops, ~(w.pc = "complete" /\ j = 1)
        PROVE  \E n \in Waiting' : n.id = w.ops[j].id /\ Same(n, w.ops[j])
    <3>1. PICK n \in Waiting : n.id = w.ops[j].id /\ Same(n, w.ops[j])
      BY <2>1, <2>3
    <3>2. PICK e \in V : e.id = n.id /\ Same(e, n)
      BY <1>6
    <3> QED
      BY <1>9, <3>1, <3>2 DEF Same
  <2>4. ASSUME NEW j \in DOMAIN w.ops
        PROVE  w.ops[j].id <= used
    <3>1. CASE w.pc = "complete" /\ j = 1
      BY <1>2, <2>1, <3>1
    <3>2. CASE ~(w.pc = "complete" /\ j = 1)
      <4>1. PICK n \in Waiting : n.id = w.ops[j].id
        BY <2>1, <3>2
      <4> QED
        BY <1>2, <4>1 DEF Waiting, WaitingOf
    <3> QED
      BY <3>1, <3>2
  <2>5. ASSUME NEW n \in Waiting', NEW j \in DOMAIN w.ops, n.id < w.ops[j].id,
               \A i \in DOMAIN w.ops : w.ops[i].id # n.id
        PROVE  n.op = "put" \/ Apart(w.ops[j], n.path, n.dest)
    <3>1. n # o
      <4>1. w.ops[j].id <= used /\ w.ops[j].id \in Int
        BY <2>4, Types, OpFields DEF NameInv
      <4> QED
        BY <1>1, <2>5, <4>1
    <3>2. PICK a \in Waiting : n.id = a.id /\ Same(n, a)
      BY <1>5, <1>9, <3>1
    <3>3. a.op = "put" \/ Apart(w.ops[j], a.path, a.dest)
      BY <2>1, <2>5, <3>2
    <3> QED
      BY <3>2, <3>3 DEF Same
  <2> QED
    BY <2>1, <2>2, <2>3, <2>5 DEF ReplayPhase
<1> QED
  BY <1>3, <1>10, <1>11, <1>12, <1>13

\* A put that is queued already is not queued again.
LEMMA QueueRests ==
    ASSUME NameInv, used' = used + 1, UNCHANGED <<tree, w, ops>>,
           NEW G, Chain(Waiting, used, G, tree)
    PROVE  /\ ops' \in Seq(OpSet) /\ Ids' /\ ReplayPhase'
           /\ \E H : Chain(Waiting', used', H, tree') /\ H[used'] = G[used]
           /\ Waiting' = Waiting
<1>1. used \in Nat /\ ops \in Seq(OpSet) /\ Waiting \in SUBSET OpSet
  BY Types DEF NameInv
<1>2. Waiting' = Waiting
  BY DEF Waiting, WaitingOf
<1>3. \A e \in OpsOf(ops) : e.id \in 1..used
  BY IdsApart DEF NameInv
<1>4. \A e \in Waiting : e.id <= used
  BY <1>1, <1>3 DEF Waiting, WaitingOf
<1>5. \E H : Chain(Waiting, used + 1, H, tree) /\ H[used + 1] = G[used]
  BY <1>1, <1>4, ChainGrows
<1>6. Ids'
  <2>1. \A i \in DOMAIN ops : ops[i].id \in 1..used
    BY <1>3 DEF OpsOf
  <2>2. \A i \in DOMAIN ops : ops[i].id <= used + 1
    BY <1>1, <2>1
  <2> QED
    BY <2>2 DEF NameInv, Ids
<1>7. ReplayPhase'
  BY <1>2 DEF NameInv, ReplayPhase
<1> QED
  BY <1>1, <1>2, <1>5, <1>6, <1>7

\* What is left to show of a step of the user.
LEMMA UserDone ==
    ASSUME NameInv, UNCHANGED <<tree, w>>, Typed', Ids', ReplayPhase',
           NEW H, Chain(Waiting', used', H, tree'),
           \A q \in Paths : H[used'][q] = IF Dirty(q)' THEN Absent ELSE user'[q],
           LeftIsGone', Proper(user'), RowsFit', HasFile',
           \A q \in Paths : Dirty(q) => Dirty(q)'
    PROVE  NameInv'
<1>1. Planned'
  BY DEF Planned, Reaches
<1>2. PutPhase'
  <2>1. ASSUME w.pc = "put", NEW q \in w.files PROVE Dirty(q)'
    <3>1. q \in Paths
      BY DEF NameInv, Typed, TypeOK
    <3> QED
      BY <2>1, <3>1 DEF NameInv, PutPhase
  <2> QED
    BY <2>1 DEF PutPhase
<1>3. MergePhase'
  BY DEF NameInv, MergePhase, Children
<1> QED
  BY <1>1, <1>2, <1>3 DEF NameInv

\* Where nothing is about to leave, no waiting operation takes anything away.
LEMMA NotLeaving ==
    ASSUME NEW p \in Paths, ~Leaves(p), NEW e \in Waiting, e.op \in Leaving
    PROVE  ~Under(e.path, p)
  BY DEF Leaves, Waiting, WaitingOf, OpsOf, Leaving

\* The new operation of a user.
LEMMA NewOp ==
    ASSUME Typed, used < MaxOps, NEW p \in Paths, NEW d \in Paths,
           NEW k \in {"put", "delete", "mkdir", "rmdir", "rename"}
    PROVE  /\ [id |-> used + 1, op |-> k, path |-> p, dest |-> d] \in OpSet
           /\ used + 1 \in 1..MaxOps /\ used + 1 \in 0..MaxOps /\ used + 1 \in Vers
           /\ Remote!File(used + 1) \in Node /\ Remote!File(used + 1).kind = "file"
<1>1. used + 1 \in 1..MaxOps /\ used + 1 \in 0..MaxOps
  BY Types
<1>2. [id |-> used + 1, op |-> k, path |-> p, dest |-> d] \in OpSet
  BY <1>1 DEF OpSet
<1>3. used + 1 \in Vers
  BY <1>1 DEF Vers
<1>4. Remote!File(used + 1) \in Node /\ Remote!File(used + 1).kind = "file"
  BY <1>3 DEF Node, Remote!File
<1> QED
  BY <1>1, <1>2, <1>3, <1>4

\* What a place must be like for something to be made there.
LEMMA MayCreateFacts ==
    ASSUME NameInv, Admits = {}, NEW p \in Paths, MayCreate(p),
           NEW G, Chain(Waiting, used, G, tree), Reaches(G[used])
    PROVE  /\ user[p] = Absent /\ G[used][p] = Absent /\ ~Leaves(p) /\ ~Dirty(p)
           /\ Remote!IsDir(user, Parent(p)) /\ Remote!IsDir(G[used], Parent(p))
           /\ \A q \in Paths : Below(p, q) => user[q] = Absent
<1>1. ~Leaves(p) /\ user[p] = Absent
  BY DEF MayCreate, Vacant
<1>2. Remote!IsDir(user, Parent(p)) /\ Remote!IsDir(G[used], Parent(p))
  BY FoundDir DEF MayCreate
<1>3. G[used][p] = Absent /\ ~Dirty(p)
  BY <1>1, UserLacks DEF NameInv
<1>4. \A q \in Paths : Below(p, q) => user[q] = Absent
  BY <1>1, DirIsThere DEF NameInv, Proper
<1> QED
  BY <1>1, <1>2, <1>3, <1>4

\* What lies above something that is made is no file.
LEMMA AboveMade ==
    ASSUME Typed, Proper(user), NEW p \in Paths, Remote!IsDir(user, Parent(p)),
           NEW q \in Paths, user[q].kind = "file", q # p
    PROVE  ~Under(q, p) /\ WithParents(disk, p)[q] = disk[q]
<1>1. ~Under(q, p)
  <2>1. Under(q, p) => user[q] = Dir
    BY Types, DirAbove DEF Below
  <2> QED
    BY <2>1, Types, NodeKinds
<1>2. WithParents(disk, p)[q] = disk[q]
  BY <1>1 DEF WithParents, Below
<1> QED
  BY <1>1, <1>2

\* A file is created.
LEMMA CreateStep ==
    ASSUME NameInv, Admits = {}, NEW p \in Paths, Create(p)
    PROVE  NameInv'
<1> DEFINE f == Remote!File(used + 1)
           o == [id |-> used + 1, op |-> "put", path |-> p, dest |-> p]
<1>1. PICK G : Chain(Waiting, used, G, tree) /\ Reaches(G[used])
  BY DEF NameInv, Planned
<1>2. /\ user[p] = Absent /\ G[used][p] = Absent /\ ~Leaves(p)
      /\ Remote!IsDir(user, Parent(p)) /\ \A q \in Paths : Below(p, q) => user[q] = Absent
  BY <1>1, MayCreateFacts DEF Create
<1>3. /\ used < MaxOps /\ used' = used + 1 /\ UNCHANGED <<tree, w, faults>>
      /\ ops' = Queue(ops, "put", p, p)
      /\ user' = [user EXCEPT ![p] = f] /\ rows' = [rows EXCEPT ![p] = Row("file", "dirty")]
      /\ disk' = [WithParents(disk, p) EXCEPT ![p] = f]
  BY DEF Create, UserStep
<1>4. /\ Typed /\ tree \in Trees /\ disk \in Trees /\ user \in Trees
      /\ o \in OpSet /\ f \in Node /\ f.kind = "file" /\ used + 1 \in 0..MaxOps
      /\ rows \in [Paths -> [kind : {"absent", "dir", "file"},
                           state : {"none", "dirty", "clean", "evicted", "conflict"}]]
  BY <1>3, NewOp, Types DEF NameInv, Typed, TypeOK
<1>5. /\ ops' \in Seq(OpSet) /\ Ids' /\ ReplayPhase'
      /\ \E H : Chain(Waiting', used', H, tree') /\ H[used'] = G[used]
      /\ \A e \in Waiting' : e.op = "put" \/ e \in Waiting
  <2>1. CASE ops' = ops
    BY <1>1, <1>3, <2>1, QueueRests
  <2>2. CASE ops' = Append(ops, o)
    <3>1. Legal(o, G[used]) /\ Effect(o, G[used]) = G[used] /\ o.id = used + 1 /\ o.op = "put"
      BY DEF Legal, Effect, Leaving
    <3>2. ops \in Seq(OpSet) /\ \A i \in DOMAIN ops : Same(ops[i], ops[i])
      BY <1>4, Types DEF Same
    <3> HIDE DEF o
    <3>3. /\ ops' \in Seq(OpSet) /\ Ids' /\ ReplayPhase'
          /\ \E H : Chain(Waiting', used', H, tree') /\ H[used'] = Effect(o, G[used])
          /\ \A e \in Waiting' : e = o \/ \E a \in Waiting : Same(e, a)
      BY <1>1, <1>3, <1>4, <2>2, <3>1, <3>2, QueueStep
    <3> QED
      BY <3>1, <3>3 DEF Same
  <2>3. ops' = ops \/ ops' = Append(ops, o)
    BY <1>3 DEF Queue
  <2> QED
    BY <2>1, <2>2, <2>3
<1>6. PICK H : Chain(Waiting', used', H, tree') /\ H[used'] = G[used]
  BY <1>5
<1>7. \A q \in Paths : /\ user'[q] = IF q = p THEN f ELSE user[q]
                       /\ rows'[q] = IF q = p THEN Row("file", "dirty") ELSE rows[q]
                       /\ disk'[q] = IF q = p THEN f ELSE WithParents(disk, p)[q]
  BY <1>3, <1>4 DEF Trees, WithParents
<1> HIDE DEF f, o
<1>8. Typed'
  <2>1. WithParents(disk, p) \in Trees
    BY <1>4, DirIsThere DEF WithParents, Trees, Node
  <2>2. disk' \in Trees /\ user' \in Trees
    BY <1>3, <1>4, <2>1 DEF Trees, Node
  <2>3. rows' \in [Paths -> [kind : {"absent", "dir", "file"},
                           state : {"none", "dirty", "clean", "evicted", "conflict"}]]
    BY <1>3, <1>4 DEF Row
  <2> QED
    BY <1>3, <1>4, <1>5, <2>2, <2>3 DEF Typed, TypeOK
<1>9. \A q \in Paths : Dirty(q)' <=> q = p \/ Dirty(q)
  BY <1>7 DEF Dirty
<1>10. ASSUME NEW q \in Paths
       PROVE  H[used'][q] = IF Dirty(q)' THEN Absent ELSE user'[q]
  BY <1>1, <1>2, <1>6, <1>7, <1>9 DEF Reaches
<1>11. LeftIsGone'
  <2>1. ASSUME NEW e \in Waiting', e.op \in Leaving, NEW q \in Paths, Under(e.path, q)
        PROVE  user'[q] = Absent
    <3>1. e \in Waiting
      BY <1>5, <2>1 DEF Leaving
    <3>2. ~Under(e.path, p) /\ user[q] = Absent
      BY <1>2, <2>1, <3>1, NotLeaving DEF NameInv, LeftIsGone
    <3> QED
      BY <1>7, <2>1, <3>2
  <2> QED
    BY <2>1 DEF LeftIsGone
<1>12. Proper(user')
  BY <1>2, <1>3, <1>4, PlaceProper DEF NameInv
<1>13. RowsFit'
  <2>1. ASSUME NEW q \in Paths
        PROVE  /\ rows'[q].kind = "absent" => rows'[q] = NoRow
               /\ Dirty(q)' => user'[q].kind = "file"
               /\ rows'[q].kind # "absent" /\ user'[q] # Absent => rows'[q].kind = user'[q].kind
    BY <1>4, <1>7, <1>9 DEF NameInv, RowsFit, Row
  <2> QED
    BY <2>1 DEF RowsFit
<1>14. HasFile'
  <2>1. ASSUME NEW q \in Paths, user'[q].kind = "file", rows'[q].state \in {"clean", "dirty"}
        PROVE  disk'[q] = user'[q]
    <3>1. CASE q = p
      BY <1>7, <3>1
    <3>2. CASE q # p
      <4>1. user[q].kind = "file" /\ rows[q].state \in {"clean", "dirty"} /\ user'[q] = user[q]
        BY <1>7, <2>1, <3>2
      <4>2. WithParents(disk, p)[q] = disk[q]
        BY <1>2, <3>2, <4>1, AboveMade DEF NameInv
      <4> QED
        BY <1>7, <3>2, <4>1, <4>2 DEF NameInv, HasFile
    <3> QED
      BY <3>1, <3>2
  <2> QED
    BY <2>1 DEF HasFile
<1> QED
  BY <1>3, <1>5, <1>6, <1>8, <1>9, <1>10, <1>11, <1>12, <1>13, <1>14, UserDone

\* An operation is queued, and no other is redirected.
LEMMA QueueNew ==
    ASSUME NameInv, used' = used + 1, UNCHANGED <<tree, w>>,
           NEW o \in OpSet, o.id = used + 1, ops' = Append(ops, o),
           NEW G, Chain(Waiting, used, G, tree), Legal(o, G[used])
    PROVE  /\ ops' \in Seq(OpSet) /\ Ids' /\ ReplayPhase'
           /\ \E H : Chain(Waiting', used', H, tree') /\ H[used'] = Effect(o, G[used])
           /\ \A e \in Waiting' : e = o \/ e.op = "put" \/ e \in Waiting
<1>1. /\ ops \in Seq(OpSet) /\ Len(ops) = Len(ops)
      /\ \A i \in DOMAIN ops : /\ ops[i].id = ops[i].id
                               /\ Same(ops[i], ops[i]) \/ (w.pc = "complete" /\ ops[i].id = w.ops[1].id)
  BY Types DEF Same, NameInv
<1>2. /\ ops' \in Seq(OpSet) /\ Ids' /\ ReplayPhase'
      /\ \E H : Chain(Waiting', used', H, tree') /\ H[used'] = Effect(o, G[used])
      /\ \A e \in Waiting' : e = o \/ \E a \in Waiting : Same(e, a)
  BY <1>1, QueueStep
<1> QED
  BY <1>2 DEF Same

\* A directory is made.
LEMMA MkdirStep ==
    ASSUME NameInv, Admits = {}, NEW p \in Paths, Mkdir(p)
    PROVE  NameInv'
<1> DEFINE o == [id |-> used + 1, op |-> "mkdir", path |-> p, dest |-> p]
<1>1. PICK G : Chain(Waiting, used, G, tree) /\ Reaches(G[used])
  BY DEF NameInv, Planned
<1>2. /\ user[p] = Absent /\ G[used][p] = Absent /\ ~Leaves(p) /\ ~Dirty(p)
      /\ Remote!IsDir(user, Parent(p)) /\ Remote!IsDir(G[used], Parent(p))
  BY <1>1, MayCreateFacts DEF Mkdir
<1>3. /\ used < MaxOps /\ used' = used + 1 /\ UNCHANGED <<tree, w, faults>>
      /\ ops' = Append(ops, o)
      /\ user' = [user EXCEPT ![p] = Dir] /\ rows' = [rows EXCEPT ![p] = Row("dir", "dirty")]
      /\ disk' = [disk EXCEPT ![p] = Dir]
  BY DEF Mkdir, UserStep, Queue
<1>4. /\ Typed /\ tree \in Trees /\ disk \in Trees /\ user \in Trees
      /\ o \in OpSet /\ used + 1 \in 0..MaxOps
      /\ rows \in [Paths -> [kind : {"absent", "dir", "file"},
                           state : {"none", "dirty", "clean", "evicted", "conflict"}]]
  BY <1>3, NewOp, Types DEF NameInv, Typed, TypeOK
<1>5. /\ Legal(o, G[used]) /\ Effect(o, G[used]) = [G[used] EXCEPT ![p] = Dir]
      /\ o.id = used + 1 /\ o.op = "mkdir"
  BY <1>2 DEF Legal, Effect, Leaving
<1> HIDE DEF o
<1>6. /\ ops' \in Seq(OpSet) /\ Ids' /\ ReplayPhase'
      /\ \E H : Chain(Waiting', used', H, tree') /\ H[used'] = Effect(o, G[used])
      /\ \A e \in Waiting' : e = o \/ e.op = "put" \/ e \in Waiting
  BY <1>1, <1>3, <1>4, <1>5, QueueNew
<1>7. PICK H : Chain(Waiting', used', H, tree') /\ H[used'] = [G[used] EXCEPT ![p] = Dir]
  BY <1>5, <1>6
<1>8. \A q \in Paths : /\ user'[q] = IF q = p THEN Dir ELSE user[q]
                       /\ rows'[q] = IF q = p THEN Row("dir", "dirty") ELSE rows[q]
                       /\ disk'[q] = IF q = p THEN Dir ELSE disk[q]
  BY <1>3, <1>4 DEF Trees
<1>9. \A q \in Paths : Dirty(q)' <=> Dirty(q)
  BY <1>2, <1>8 DEF Dirty, Row
<1>10. Typed'
  <2>1. disk' \in Trees /\ user' \in Trees
    BY <1>3, <1>4 DEF Trees
  <2>2. rows' \in [Paths -> [kind : {"absent", "dir", "file"},
                           state : {"none", "dirty", "clean", "evicted", "conflict"}]]
    BY <1>3, <1>4 DEF Row
  <2> QED
    BY <1>3, <1>4, <1>6, <2>1, <2>2 DEF Typed, TypeOK
<1>11. ASSUME NEW q \in Paths
       PROVE  H[used'][q] = IF Dirty(q)' THEN Absent ELSE user'[q]
  <2>1. G[used] \in Trees
    <3>1. used \in Nat
      BY <1>4, Types
    <3> QED
      BY <1>1, <3>1 DEF Chain
  <2>2. H[used'][q] = IF q = p THEN Dir ELSE G[used][q]
    BY <1>7, <2>1 DEF Trees
  <2> QED
    BY <1>1, <1>2, <1>8, <1>9, <2>2 DEF Reaches
<1>12. LeftIsGone'
  <2>1. ASSUME NEW e \in Waiting', e.op \in Leaving, NEW q \in Paths, Under(e.path, q)
        PROVE  user'[q] = Absent
    <3>1. e \in Waiting
      BY <1>5, <1>6, <2>1 DEF Leaving
    <3>2. ~Under(e.path, p) /\ user[q] = Absent
      BY <1>2, <2>1, <3>1, NotLeaving DEF NameInv, LeftIsGone
    <3> QED
      BY <1>8, <2>1, <3>2
  <2> QED
    BY <2>1 DEF LeftIsGone
<1>13. Proper(user')
  BY <1>2, <1>3, <1>4, PlaceProper DEF NameInv
<1>14. RowsFit'
  <2>1. ASSUME NEW q \in Paths
        PROVE  /\ rows'[q].kind = "absent" => rows'[q] = NoRow
               /\ Dirty(q)' => user'[q].kind = "file"
               /\ rows'[q].kind # "absent" /\ user'[q] # Absent => rows'[q].kind = user'[q].kind
    BY <1>2, <1>4, <1>8, <1>9, NodeKinds, DirIsThere DEF NameInv, RowsFit, Row
  <2> QED
    BY <2>1 DEF RowsFit
<1>15. HasFile'
  <2>1. ASSUME NEW q \in Paths, user'[q].kind = "file", rows'[q].state \in {"clean", "dirty"}
        PROVE  disk'[q] = user'[q]
    <3>1. q # p
      BY <1>8, <2>1, NodeKinds, DirIsThere
    <3> QED
      BY <1>8, <2>1, <3>1 DEF NameInv, HasFile
  <2> QED
    BY <2>1 DEF HasFile
<1> QED
  BY <1>3, <1>6, <1>7, <1>9, <1>10, <1>11, <1>12, <1>13, <1>14, <1>15, UserDone

\* A file, or a directory with nothing in it, is removed.
LEMMA RemoveStep ==
    ASSUME NameInv, Admits = {}, NEW p \in Paths, Sees(p), Sent(p),
           \A q \in Paths : Below(p, q) => user[q] = Absent,
           NEW k \in {"delete", "rmdir"},
           disk' = [disk EXCEPT ![p] = Absent], rows' = [rows EXCEPT ![p] = NoRow],
           ops' = Queue(ops, k, p, p), user' = [user EXCEPT ![p] = Absent], UserStep
    PROVE  NameInv'
<1> DEFINE o == [id |-> used + 1, op |-> k, path |-> p, dest |-> p]
<1>1. PICK G : Chain(Waiting, used, G, tree) /\ Reaches(G[used])
  BY DEF NameInv, Planned
<1>2. /\ user[p] # Absent /\ tree[p] # Absent /\ ~Leaves(p)
      /\ ~Dirty(p) /\ tree[p] = user[p] /\ G[used][p] = user[p]
  BY <1>1, RemoteKnows DEF Sees, Sent, Reaches
<1>3. /\ used < MaxOps /\ used' = used + 1 /\ UNCHANGED <<tree, w, faults>>
      /\ ops' = Append(ops, o)
  BY DEF UserStep, Queue
<1>4. /\ Typed /\ tree \in Trees /\ disk \in Trees /\ user \in Trees
      /\ o \in OpSet /\ used + 1 \in 0..MaxOps
      /\ rows \in [Paths -> [kind : {"absent", "dir", "file"},
                           state : {"none", "dirty", "clean", "evicted", "conflict"}]]
  BY <1>3, NewOp, Types DEF NameInv, Typed, TypeOK
<1>5. /\ Legal(o, G[used]) /\ o.id = used + 1 /\ o.op \in Leaving /\ o.op # "put" /\ o.path = p
      /\ Effect(o, G[used]) = [q \in Paths |-> IF Under(p, q) THEN Absent ELSE G[used][q]]
  BY <1>2 DEF Legal, Effect, Leaving
<1> HIDE DEF o
<1>6. /\ ops' \in Seq(OpSet) /\ Ids' /\ ReplayPhase'
      /\ \E H : Chain(Waiting', used', H, tree') /\ H[used'] = Effect(o, G[used])
      /\ \A e \in Waiting' : e = o \/ e.op = "put" \/ e \in Waiting
  BY <1>1, <1>3, <1>4, <1>5, QueueNew
<1>7. PICK H : /\ Chain(Waiting', used', H, tree')
               /\ H[used'] = [q \in Paths |-> IF Under(p, q) THEN Absent ELSE G[used][q]]
  BY <1>5, <1>6
<1>8. \A q \in Paths : /\ user'[q] = IF q = p THEN Absent ELSE user[q]
                       /\ rows'[q] = IF q = p THEN NoRow ELSE rows[q]
                       /\ disk'[q] = IF q = p THEN Absent ELSE disk[q]
  BY <1>4 DEF Trees
<1>9. \A q \in Paths : Dirty(q)' <=> Dirty(q)
  BY <1>2, <1>8 DEF Dirty, Row, NoRow
<1>10. Typed'
  <2>1. disk' \in Trees /\ user' \in Trees
    BY <1>4, DirIsThere DEF Trees, Node
  <2>2. rows' \in [Paths -> [kind : {"absent", "dir", "file"},
                           state : {"none", "dirty", "clean", "evicted", "conflict"}]]
    BY <1>4 DEF NoRow
  <2> QED
    BY <1>3, <1>4, <1>6, <2>1, <2>2 DEF Typed, TypeOK
<1>11. Under(p, p) /\ \A q \in Paths : Under(p, q) <=> q = p \/ Below(p, q)
  BY PathNames, UnderOrder DEF Below
<1>12. \A q \in Paths : Under(p, q) => user'[q] = Absent
  BY <1>8, <1>11
<1>13. ASSUME NEW q \in Paths
       PROVE  H[used'][q] = IF Dirty(q)' THEN Absent ELSE user'[q]
  <2>1. CASE Under(p, q)
    BY <1>7, <1>12, <2>1
  <2>2. CASE ~Under(p, q)
    BY <1>1, <1>7, <1>8, <1>9, <1>11, <2>2 DEF Reaches
  <2> QED
    BY <2>1, <2>2
<1>14. LeftIsGone'
  <2>1. ASSUME NEW e \in Waiting', e.op \in Leaving, NEW q \in Paths, Under(e.path, q)
        PROVE  user'[q] = Absent
    <3>1. CASE e = o
      BY <1>5, <1>12, <2>1, <3>1
    <3>2. CASE e \in Waiting
      <4>1. user[q] = Absent
        BY <2>1, <3>2 DEF NameInv, LeftIsGone
      <4> QED
        BY <1>8, <4>1
    <3> QED
      BY <1>6, <2>1, <3>1, <3>2 DEF Leaving
  <2> QED
    BY <2>1 DEF LeftIsGone
<1>15. Proper(user')
  <2>1. user' = [q \in Paths |-> IF Under(p, q) THEN Absent ELSE user[q]]
    BY <1>4, <1>8, <1>11 DEF Trees
  <2> QED
    BY <1>4, <2>1, CutProper DEF NameInv
<1>16. RowsFit'
  <2>1. ASSUME NEW q \in Paths
        PROVE  /\ rows'[q].kind = "absent" => rows'[q] = NoRow
               /\ Dirty(q)' => user'[q].kind = "file"
               /\ rows'[q].kind # "absent" /\ user'[q] # Absent => rows'[q].kind = user'[q].kind
    BY <1>2, <1>8, <1>9 DEF NameInv, RowsFit
  <2> QED
    BY <2>1 DEF RowsFit
<1>17. HasFile'
  <2>1. ASSUME NEW q \in Paths, user'[q].kind = "file", rows'[q].state \in {"clean", "dirty"}
        PROVE  disk'[q] = user'[q]
    <3>1. q # p
      BY <1>8, <2>1, NodeKinds, DirIsThere
    <3> QED
      BY <1>8, <2>1, <3>1 DEF NameInv, HasFile
  <2> QED
    BY <2>1 DEF HasFile
<1> QED
  BY <1>3, <1>6, <1>7, <1>9, <1>10, <1>13, <1>14, <1>15, <1>16, <1>17, UserDone

\* A file is deleted,
LEMMA UnlinkStep ==
    ASSUME NameInv, Admits = {}, NEW p \in Paths, Unlink(p)
    PROVE  NameInv'
<1>1. ASSUME NEW q \in Paths, Below(p, q) PROVE user[q] = Absent
  <2>1. user[p].kind = "file" /\ user[p] \in Node
    BY Types DEF Unlink, Sees, NameInv, RowsFit
  <2>2. user[p] # Dir
    BY <2>1, NodeKinds
  <2> QED
    BY <1>1, <2>2 DEF NameInv, Proper
<1> QED
  BY <1>1, RemoveStep DEF Unlink

\* or a directory.
LEMMA RmdirStep ==
    ASSUME NameInv, Admits = {}, NEW p \in Paths, Rmdir(p)
    PROVE  NameInv'
  BY RemoveStep DEF Rmdir

\* An evicted file is read: what is fetched is what the user has.
LEMMA ReadStep ==
    ASSUME NameInv, Admits = {}, NEW p \in Paths, Read(p)
    PROVE  NameInv'
<1>1. PICK G : Chain(Waiting, used, G, tree) /\ Reaches(G[used])
  BY DEF NameInv, Planned
<1>2. /\ Typed /\ tree \in Trees /\ disk \in Trees /\ user \in Trees
      /\ rows \in [Paths -> [kind : {"absent", "dir", "file"},
                           state : {"none", "dirty", "clean", "evicted", "conflict"}]]
      /\ tree[p] \in Node
  BY Types DEF NameInv, Typed, TypeOK
<1>3. /\ user[p] # Absent /\ tree[p].kind = "file" /\ tree[p] # Absent /\ rows[p] = Row("file", "evicted")
      /\ UNCHANGED <<tree, ops, user, w, used, faults>>
      /\ disk' = [WithParents(disk, p) EXCEPT ![p] = tree[p]]
      /\ rows' = [rows EXCEPT ![p].state = "clean"]
  BY <1>2, NodeKinds DEF Read, Sees
<1>4. tree[p] = user[p]
  BY <1>3, RemoteKnows
<1>5. WithParents(disk, p) \in Trees
  BY <1>2, DirIsThere DEF WithParents, Trees, Node
<1>6. \A q \in Paths : /\ rows'[q] = IF q = p THEN Row("file", "clean") ELSE rows[q]
                       /\ disk'[q] = IF q = p THEN user[p] ELSE WithParents(disk, p)[q]
  BY <1>2, <1>3, <1>4, <1>5 DEF Trees, Row
<1>7. \A q \in Paths : Dirty(q)' <=> Dirty(q)
  BY <1>3, <1>6 DEF Dirty, Row
<1>8. Typed'
  <2>1. disk' \in Trees
    BY <1>2, <1>3, <1>5 DEF Trees
  <2>2. rows' \in [Paths -> [kind : {"absent", "dir", "file"},
                           state : {"none", "dirty", "clean", "evicted", "conflict"}]]
    BY <1>2, <1>3
  <2> QED
    BY <1>2, <1>3, <2>1, <2>2 DEF Typed, TypeOK
<1>9. Waiting' = Waiting /\ Ids' /\ ReplayPhase' /\ LeftIsGone' /\ Proper(user') /\ MergePhase'
  BY <1>3 DEF Waiting, WaitingOf, OpsOf, Ids, ReplayPhase, LeftIsGone, MergePhase, NameInv, Children
<1>10. Planned'
  BY <1>1, <1>3, <1>7, <1>9 DEF Planned, Reaches
<1>11. PutPhase'
  BY <1>3, <1>7, <1>2 DEF PutPhase, NameInv, Typed, TypeOK
<1>12. RowsFit'
  <2>1. ASSUME NEW q \in Paths
        PROVE  /\ rows'[q].kind = "absent" => rows'[q] = NoRow
               /\ Dirty(q)' => user'[q].kind = "file"
               /\ rows'[q].kind # "absent" /\ user'[q] # Absent => rows'[q].kind = user'[q].kind
    BY <1>3, <1>6, <1>7 DEF NameInv, RowsFit, Row
  <2> QED
    BY <2>1 DEF RowsFit
<1>13. HasFile'
  <2>1. ASSUME NEW q \in Paths, user'[q].kind = "file", rows'[q].state \in {"clean", "dirty"}
        PROVE  disk'[q] = user'[q]
    <3>1. CASE q = p
      BY <1>3, <1>6, <3>1
    <3>2. CASE q # p
      <4>1. user[q].kind = "file" /\ rows[q].state \in {"clean", "dirty"} /\ user'[q] = user[q]
        BY <1>3, <1>6, <2>1, <3>2
      <4>2. Remote!IsDir(user, Parent(p))
        BY <1>2, <1>3, HasParent DEF NameInv
      <4>3. WithParents(disk, p)[q] = disk[q]
        BY <1>2, <3>2, <4>1, <4>2, AboveMade DEF NameInv
      <4> QED
        BY <1>6, <3>2, <4>1, <4>3 DEF NameInv, HasFile
    <3> QED
      BY <3>1, <3>2
  <2> QED
    BY <2>1 DEF HasFile
<1> QED
  BY <1>8, <1>9, <1>10, <1>11, <1>12, <1>13 DEF NameInv

\* What is there before a rename.
LEMMA RenameFacts ==
    ASSUME NameInv, Admits = {}, NEW p \in Paths, NEW d \in Paths, Rename(p, d)
    PROVE  /\ user[p] # Absent /\ tree[p] # Absent /\ ~Leaves(p) /\ ~Dirty(p)
           /\ rows[p].kind # "absent" /\ rows[p].kind = user[p].kind
           /\ user[d] = Absent /\ tree[d] = Absent /\ ~Leaves(d)
           /\ Finds(Parent(d)) /\ ~Under(p, d) /\ ~Under(d, p)
           /\ \A q \in Paths : Below(d, q) => rows[q] = NoRow
           /\ \A q \in Paths : Below(p, q) => rows[q].state # "dirty"
<1>1. /\ Visible(p) /\ user[p] # Absent /\ tree[p] # Absent /\ ~Leaves(p)
      /\ Finds(Parent(d)) /\ ~Under(p, d) /\ ~Leaves(d) /\ user[d] = Absent /\ tree[d] = Absent
      /\ \A q \in Paths : Below(d, q) => rows[q].kind = "absent"
      /\ \A q \in Paths : Below(p, q) => rows[q].state # "dirty"
  BY DEF Rename, Sees, Sent, Vacant
<1>2. ~Dirty(p)
  BY <1>1, RemoteKnows
<1>3. Under(p, p)
  BY PathNames, UnderOrder
<1>4. rows[p].kind # "absent"
  BY <1>1, <1>3 DEF Visible
<1>5. rows[p].kind = user[p].kind
  BY <1>1, <1>4 DEF NameInv, RowsFit
<1>6. ~Under(d, p)
  <2>1. SUFFICES ASSUME Under(d, p) PROVE FALSE
    OBVIOUS
  <2>2. Below(d, p)
    BY <1>1, <2>1 DEF Below
  <2> QED
    BY <1>1, <2>2, DirIsThere DEF NameInv, Proper
<1>7. \A q \in Paths : Below(d, q) => rows[q] = NoRow
  BY <1>1 DEF NameInv, RowsFit
<1> QED
  BY <1>1, <1>2, <1>4, <1>5, <1>6, <1>7

\* Of the waiting operations a rename redirects puts only.
LEMMA RedirectedPuts ==
    ASSUME NameInv, NEW p \in Paths, NEW d \in Paths, user[p] # Absent, tree[p] # Absent
    PROVE  /\ Redirected(p, d) \in Seq(OpSet) /\ Len(Redirected(p, d)) = Len(ops)
           /\ \A i \in DOMAIN ops : /\ Redirected(p, d)[i].id = ops[i].id
                                    /\ \/ Same(Redirected(p, d)[i], ops[i])
                                       \/ w.pc = "complete" /\ ops[i].id = w.ops[1].id
<1>1. PICK G : Chain(Waiting, used, G, tree) /\ Reaches(G[used])
  BY DEF NameInv, Planned
<1>2. /\ Typed /\ Ids /\ LeftIsGone /\ ops \in Seq(OpSet) /\ used \in Nat
      /\ \A i \in DOMAIN ops : ops[i] \in OpSet
  BY Types DEF NameInv
<1>3. DOMAIN ops = 1..Len(ops) /\ Len(ops) \in Nat
  BY <1>2
<1>4. ASSUME NEW i \in DOMAIN ops
      PROVE  /\ Redirected(p, d)[i] \in OpSet /\ Redirected(p, d)[i].id = ops[i].id
             /\ \/ Redirected(p, d)[i] = ops[i]
                \/ ops[i].op = "put" /\ Redirected(p, d)[i].op = "put"
                \/ ops[i].op = "mkdir" /\ ops[i].path = p
                \/ ops[i].op = "rename" /\ ops[i].dest = p
  <2>1. Redirected(p, d)[i] = IF ops[i].op \in {"put", "mkdir"} /\ ops[i].path = p
                              THEN [ops[i] EXCEPT !.path = d]
                              ELSE IF ops[i].op = "rename" /\ ops[i].dest = p
                              THEN [ops[i] EXCEPT !.dest = d] ELSE ops[i]
    BY DEF Redirected
  <2> QED
    BY <1>2, <2>1 DEF OpSet
<1>5. Redirected(p, d) \in Seq(OpSet) /\ Len(Redirected(p, d)) = Len(ops)
  <2>1. DOMAIN Redirected(p, d) = 1..Len(ops)
    BY <1>3 DEF Redirected
  <2>2. Redirected(p, d) \in [1..Len(ops) -> OpSet]
    <3>1. Redirected(p, d) = [i \in 1..Len(ops) |-> Redirected(p, d)[i]]
      BY <2>1 DEF Redirected
    <3> QED
      BY <1>3, <1>4, <3>1
  <2> QED
    BY <1>3, <2>2, SeqDef, LenProperties
<1>6. ASSUME NEW i \in DOMAIN ops, ~(w.pc = "complete" /\ ops[i].id = w.ops[1].id)
      PROVE  /\ ~(ops[i].op = "mkdir" /\ ops[i].path = p)
             /\ ~(ops[i].op = "rename" /\ ops[i].dest = p)
  <2>1. ops[i] \in Waiting /\ ops[i].id \in 1..used
    BY <1>2, <1>6, IdsApart DEF Waiting, WaitingOf, OpsOf
  <2>2. Legal(ops[i], G[ops[i].id - 1])
    BY <1>1, <2>1 DEF Chain
  <2>3. /\ 0 \in 0..used /\ ops[i].id - 1 \in 0..used /\ G[0] = tree
    BY <1>1, <1>2, <2>1 DEF Chain
  <2>4. G[ops[i].id - 1][p] = tree[p]
    BY <1>1, <1>2, <2>3, UserStays
  <2> QED
    BY <2>2, <2>4 DEF Legal
<1> QED
  BY <1>4, <1>5, <1>6 DEF Same

\* Where the user's tree, the rows and the disk are after a rename.
LEMMA RenamePlaces ==
    ASSUME NameInv, Admits = {}, NEW p \in Paths, NEW d \in Paths, Rename(p, d), NEW q \in Paths
    PROVE  /\ Under(p, q) => user'[q] = Absent /\ ~Under(d, q)
           /\ q # p /\ q # d => rows'[q] = rows[q]
           /\ rows'[p] = NoRow /\ rows'[d] = rows[p]
           /\ ~Under(p, q) /\ ~Under(d, q) => user'[q] = user[q]
           /\ user'[d] = user[p] /\ disk'[d] = disk[p]
           /\ ~Under(p, q) /\ ~Under(d, q) => disk'[q] = WithParents(disk, d)[q]
           /\ Dirty(q)' <=> Dirty(q)
           /\ Under(d, q) => ~Dirty(q)
<1>1. /\ user[p] # Absent /\ ~Dirty(p) /\ user[d] = Absent
      /\ ~Under(p, d) /\ ~Under(d, p)
      /\ \A r \in Paths : Below(d, r) => rows[r] = NoRow
  BY RenameFacts
<1>2. /\ user \in Trees /\ disk \in Trees /\ Typed /\ user[d] \in Node
      /\ rows \in [Paths -> [kind : {"absent", "dir", "file"},
                           state : {"none", "dirty", "clean", "evicted", "conflict"}]]
  BY Types DEF NameInv, Typed, TypeOK
<1>3. /\ user' = Remote!Move(user, p, d) /\ disk' = Remote!Move(WithParents(disk, d), p, d)
      /\ rows' = [rows EXCEPT ![p] = NoRow, ![d] = rows[p]]
  BY DEF Rename
<1>4. p \in Names /\ d \in Names /\ q \in Names /\ Under(p, p) /\ Under(d, d)
  BY PathNames, UnderOrder
<1>5. p # d
  BY <1>1, <1>4
<1>6. WithParents(disk, d) \in Trees
  BY <1>2, DirIsThere DEF WithParents, Trees, Node
<1>7. Under(p, q) => ~Under(d, q)
  BY <1>1, <1>4, UnderOrder
<1>8. Remote!Moved(d, p, d) = p
  BY <1>4, MovedUnder
<1>9. user'[d] = user[p] /\ disk'[d] = WithParents(disk, d)[p]
  BY <1>1, <1>2, <1>3, <1>4, <1>6, <1>8, MoveCases
<1>10. WithParents(disk, d)[p] = disk[p]
  BY <1>1 DEF WithParents, Below
<1>11. /\ Under(p, q) => user'[q] = Absent
       /\ ~Under(p, q) /\ ~Under(d, q) => user'[q] = user[q] /\ disk'[q] = WithParents(disk, d)[q]
  BY <1>2, <1>3, <1>6, MoveCases
<1>12. /\ q # p /\ q # d => rows'[q] = rows[q]
       /\ rows'[p] = NoRow /\ rows'[d] = rows[p]
  BY <1>2, <1>3, <1>5
<1>13. ~Dirty(d)
  BY <1>1, <1>2, NodeKinds DEF NameInv, RowsFit
<1>14. Dirty(q)' <=> Dirty(q)
  BY <1>1, <1>12, <1>13 DEF Dirty, NoRow, Row
<1>15. Under(d, q) => ~Dirty(q)
  BY <1>1, <1>13 DEF Below, Dirty, NoRow, Row
<1> QED
  BY <1>7, <1>9, <1>10, <1>11, <1>12, <1>14, <1>15

\* What the queue takes away is still gone after a rename.
LEMMA RenameGone ==
    ASSUME NameInv, Admits = {}, NEW p \in Paths, NEW d \in Paths, Rename(p, d),
           NEW e \in Waiting, e.op \in Leaving, NEW q \in Paths, Under(e.path, q)
    PROVE  user'[q] = Absent
<1>1. PICK G : Chain(Waiting, used, G, tree) /\ Reaches(G[used])
  BY DEF NameInv, Planned
<1>2. /\ Typed /\ Ids /\ LeftIsGone /\ used \in Nat /\ Waiting \in SUBSET OpSet /\ RowsFit
  BY Types DEF NameInv
<1>3. e \in OpSet /\ e.id \in 1..used /\ e.path \in Paths
  BY <1>2, IdsApart, OpFields DEF Waiting, WaitingOf
<1>4. user[q] = Absent
  BY <1>2 DEF LeftIsGone
<1>5. user[d] = Absent /\ ~Leaves(d)
  BY RenameFacts
<1>6. ~Under(d, q)
  <2>1. SUFFICES ASSUME Under(d, q) PROVE FALSE
    OBVIOUS
  <2>2. ~Under(e.path, d)
    BY <1>5, NotLeaving
  <2>3. Under(d, e.path) /\ d # e.path
    BY <1>3, <2>1, <2>2, PathNames, UnderOrder
  <2>4. /\ Legal(e, G[e.id - 1]) /\ Proper(G[e.id - 1]) /\ e.id - 1 \in 0..used
    BY <1>1, <1>2, <1>3 DEF Chain
  <2>5. G[e.id - 1][d] = Dir
    BY <1>3, <2>3, <2>4 DEF Legal, Proper, Below
  <2>6. \A a \in Waiting : a.op \in Leaving => ~Under(a.path, d)
    BY <1>5, NotLeaving
  <2> DEFINE i == e.id - 1
  <2>7. \A j \in i..used : G[j][d] = G[i][d]
    <3>1. i \in 0..used /\ G[i][d] # Absent
      BY <2>4, <2>5, DirIsThere
    <3>2. \A a \in Waiting : a.op \in Leaving /\ Under(a.path, d) => a.id <= i
      BY <2>6
    <3> HIDE DEF i
    <3> QED
      BY <1>1, <1>2, <3>1, <3>2, ChainKeeps
  <2>8. G[used][d] = Dir
    <3>1. used \in i..used
      BY <1>2, <1>3
    <3> QED
      BY <2>5, <2>7, <3>1
  <2>9. G[used][d] = Absent
    BY <1>1, <1>2, <1>5, UserLacks
  <2> QED
    BY <2>8, <2>9, DirIsThere
<1> QED
  BY <1>4, <1>6, RenamePlaces

\* A path is renamed.
LEMMA RenameStep ==
    ASSUME NameInv, Admits = {}, NEW p \in Paths, NEW d \in Paths, Rename(p, d)
    PROVE  NameInv'
<1> DEFINE o == [id |-> used + 1, op |-> "rename", path |-> p, dest |-> d]
           R == Redirected(p, d)
<1>1. PICK G : Chain(Waiting, used, G, tree) /\ Reaches(G[used])
  BY DEF NameInv, Planned
<1>2. /\ user[p] # Absent /\ tree[p] # Absent /\ ~Dirty(p)
      /\ rows[p].kind # "absent" /\ rows[p].kind = user[p].kind
      /\ user[d] = Absent /\ Finds(Parent(d)) /\ ~Under(p, d) /\ ~Under(d, p)
      /\ \A q \in Paths : Below(d, q) => rows[q] = NoRow
      /\ \A q \in Paths : Below(p, q) => rows[q].state # "dirty"
  BY RenameFacts
<1>3. /\ used < MaxOps /\ used' = used + 1 /\ UNCHANGED <<tree, w, faults>>
      /\ ops' = Append(R, o)
      /\ user' = Remote!Move(user, p, d) /\ disk' = Remote!Move(WithParents(disk, d), p, d)
      /\ rows' = [rows EXCEPT ![p] = NoRow, ![d] = rows[p]]
  BY DEF Rename, UserStep, Queue
<1>4. /\ Typed /\ tree \in Trees /\ disk \in Trees /\ user \in Trees /\ used \in Nat
      /\ o \in OpSet /\ used + 1 \in 0..MaxOps /\ Proper(user) /\ RowsFit
      /\ rows \in [Paths -> [kind : {"absent", "dir", "file"},
                           state : {"none", "dirty", "clean", "evicted", "conflict"}]]
  BY <1>3, NewOp, Types DEF NameInv, Typed, TypeOK
<1>5. /\ Remote!IsDir(user, Parent(d)) /\ Remote!IsDir(G[used], Parent(d))
  <2>1. "revived" \notin Admits
    OBVIOUS
  <2> QED
    BY <1>1, <1>2, <2>1, FoundDir
<1>6. G[used] \in Trees /\ G[used][p] = user[p] /\ G[used][d] = Absent
  BY <1>1, <1>2, <1>4, UserLacks DEF Reaches, Chain
<1>7. /\ Legal(o, G[used]) /\ Effect(o, G[used]) = Remote!Move(G[used], p, d)
      /\ o.id = used + 1 /\ o.op \in Leaving /\ o.op # "put" /\ o.path = p
  BY <1>2, <1>5, <1>6 DEF Legal, Effect, Leaving
<1>8. \A t \in Trees : Remote!Move(t, p, d) \in Trees
  <2>1. \A t \in Trees : Effect(o, t) = Remote!Move(t, p, d)
    BY DEF Effect
  <2> QED
    BY <1>4, <2>1, EffectTyped
<1>9. /\ R \in Seq(OpSet) /\ Len(R) = Len(ops)
      /\ \A i \in DOMAIN ops : /\ R[i].id = ops[i].id
                               /\ \/ Same(R[i], ops[i])
                                  \/ w.pc = "complete" /\ ops[i].id = w.ops[1].id
  BY <1>2, RedirectedPuts
<1> HIDE DEF o, R
<1>10. /\ ops' \in Seq(OpSet) /\ Ids' /\ ReplayPhase'
       /\ \E H : Chain(Waiting', used', H, tree') /\ H[used'] = Effect(o, G[used])
       /\ \A e \in Waiting' : e = o \/ \E a \in Waiting : Same(e, a)
  BY <1>1, <1>3, <1>4, <1>7, <1>9, QueueStep
<1>11. PICK H : Chain(Waiting', used', H, tree') /\ H[used'] = Remote!Move(G[used], p, d)
  BY <1>7, <1>10
<1>12. Typed'
  <2>1. WithParents(disk, d) \in Trees
    BY <1>4, DirIsThere DEF WithParents, Trees, Node
  <2>2. disk' \in Trees /\ user' \in Trees
    BY <1>3, <1>4, <1>8, <2>1
  <2>3. rows' \in [Paths -> [kind : {"absent", "dir", "file"},
                           state : {"none", "dirty", "clean", "evicted", "conflict"}]]
    BY <1>3, <1>4 DEF NoRow
  <2> QED
    BY <1>3, <1>4, <1>10, <2>2, <2>3 DEF Typed, TypeOK
<1>13. \A q \in Paths : Dirty(q)' <=> Dirty(q)
  BY RenamePlaces
<1>14. ASSUME NEW q \in Paths
       PROVE  H[used'][q] = IF Dirty(q)' THEN Absent ELSE user'[q]
  <2>1. CASE Under(p, q)
    BY <1>3, <1>4, <1>6, <1>11, <2>1, MoveCases
  <2>2. CASE ~Under(p, q) /\ ~Under(d, q)
    <3>1. H[used'][q] = G[used][q] /\ user'[q] = user[q]
      BY <1>3, <1>4, <1>6, <1>11, <2>2, MoveCases
    <3> QED
      BY <1>1, <1>13, <3>1 DEF Reaches
  <2>3. CASE ~Under(p, q) /\ Under(d, q)
    <3> DEFINE m == Remote!Moved(d, p, q)
    <3>1. ~Dirty(q)' /\ ~Dirty(q)
      BY <2>3, RenamePlaces
    <3>2. /\ H[used'][q] = IF m \in Paths THEN G[used][m] ELSE G[used][q]
          /\ user'[q] = IF m \in Paths THEN user[m] ELSE user[q]
      BY <1>3, <1>4, <1>6, <1>11, <2>3, MoveCases
    <3>3. Under(p, m)
      BY <2>3, PathNames, MovedUnder
    <3> HIDE DEF m
    <3>4. ASSUME m \in Paths PROVE ~Dirty(m)
      <4>1. CASE m = p
        BY <1>2, <4>1
      <4>2. CASE m # p
        BY <1>2, <3>3, <3>4, <4>2 DEF Below, Dirty, Row
      <4> QED
        BY <4>1, <4>2
    <3> QED
      BY <1>1, <3>1, <3>2, <3>4 DEF Reaches
  <2> QED
    BY <2>1, <2>2, <2>3
<1>15. LeftIsGone'
  <2>1. ASSUME NEW e \in Waiting', e.op \in Leaving, NEW q \in Paths, Under(e.path, q)
        PROVE  user'[q] = Absent
    <3>1. CASE e = o
      BY <1>7, <2>1, <3>1, RenamePlaces
    <3>2. CASE e \in Waiting
      BY <2>1, <3>2, RenameGone
    <3>3. e = o \/ e \in Waiting
      BY <1>10, <2>1 DEF Same, Leaving
    <3> QED
      BY <3>1, <3>2, <3>3
  <2> QED
    BY <2>1 DEF LeftIsGone
<1>16. Proper(user')
  BY <1>2, <1>3, <1>4, <1>5, MoveProper
<1>17. d \in Names /\ Under(d, d) /\ Under(p, p) /\ p # d
  BY <1>2, PathNames, UnderOrder
<1>18. \A q \in Paths : Under(d, q) <=> q = d \/ Below(d, q)
  BY <1>17 DEF Below
<1>19. RowsFit'
  <2>1. ASSUME NEW q \in Paths
        PROVE  /\ rows'[q].kind = "absent" => rows'[q] = NoRow
               /\ Dirty(q)' => user'[q].kind = "file"
               /\ rows'[q].kind # "absent" /\ user'[q] # Absent => rows'[q].kind = user'[q].kind
    <3>1. CASE q = p
      <4>1. rows'[q] = NoRow /\ ~Dirty(q)'
        BY <1>2, <1>13, <3>1, RenamePlaces
      <4> QED
        BY <4>1 DEF NoRow
    <3>2. CASE q = d
      <4>1. rows'[q] = rows[p] /\ user'[q] = user[p] /\ ~Dirty(q)'
        BY <1>13, <1>17, <3>2, RenamePlaces
      <4> QED
        BY <1>2, <4>1
    <3>3. CASE q # p /\ q # d
      <4>1. rows'[q] = rows[q]
        BY <3>3, RenamePlaces
      <4>2. rows'[q].kind = "absent" => rows'[q] = NoRow
        BY <1>4, <4>1 DEF RowsFit
      <4>3. CASE Under(p, q)
        <5>1. user'[q] = Absent /\ ~Dirty(q)'
          BY <1>2, <1>13, <3>3, <4>3, RenamePlaces DEF Below, Dirty, Row
        <5> QED
          BY <4>2, <5>1
      <4>4. CASE Under(d, q)
        <5>1. rows'[q] = NoRow /\ ~Dirty(q)'
          BY <1>2, <1>18, <3>3, <4>1, <4>4, RenamePlaces
        <5> QED
          BY <5>1 DEF NoRow
      <4>5. CASE ~Under(p, q) /\ ~Under(d, q)
        <5>1. user'[q] = user[q] /\ (Dirty(q)' <=> Dirty(q))
          BY <1>13, <4>5, RenamePlaces
        <5> QED
          BY <1>4, <4>1, <5>1 DEF RowsFit
      <4> QED
        BY <4>3, <4>4, <4>5
    <3> QED
      BY <3>1, <3>2, <3>3
  <2> QED
    BY <2>1 DEF RowsFit
<1>20. HasFile'
  <2>1. ASSUME NEW q \in Paths, user'[q].kind = "file", rows'[q].state \in {"clean", "dirty"}
        PROVE  disk'[q] = user'[q]
    <3>1. ~Under(p, q)
      BY <2>1, NodeKinds, DirIsThere, RenamePlaces
    <3>2. CASE q = d
      <4>1. rows'[q] = rows[p] /\ user'[q] = user[p] /\ disk'[q] = disk[p]
        BY <3>2, RenamePlaces
      <4> QED
        BY <2>1, <4>1 DEF NameInv, HasFile
    <3>3. CASE Below(d, q)
      <4>1. rows'[q] = NoRow
        BY <1>2, <1>17, <3>1, <3>3, RenamePlaces DEF Below
      <4> QED
        BY <2>1, <4>1 DEF NoRow
    <3>4. CASE ~Under(d, q)
      <4>1. rows'[q] = rows[q] /\ user'[q] = user[q] /\ disk'[q] = WithParents(disk, d)[q]
        BY <1>17, <3>1, <3>4, RenamePlaces
      <4>2. user[q].kind = "file" /\ q # d
        BY <1>17, <2>1, <3>4, <4>1
      <4>3. WithParents(disk, d)[q] = disk[q]
        BY <1>4, <1>5, <4>2, AboveMade
      <4> QED
        BY <2>1, <4>1, <4>3 DEF NameInv, HasFile
    <3> QED
      BY <1>18, <3>2, <3>3, <3>4
  <2> QED
    BY <2>1 DEF HasFile
<1> QED
  BY <1>3, <1>10, <1>11, <1>12, <1>13, <1>14, <1>15, <1>16, <1>19, <1>20, UserDone

-----------------------------------------------------------------------------
(* What the engine does.                                                   *)

\* A waiting operation, its place in the chain and what the remote is then.
LEMMA InChain ==
    ASSUME NameInv, NEW G, Chain(Waiting, used, G, tree), NEW e \in Waiting
    PROVE  /\ e \in OpSet /\ e.id \in 1..used /\ e.id - 1 \in 0..used /\ e.id \in 0..used
           /\ Legal(e, G[e.id - 1]) /\ G[e.id] = Effect(e, G[e.id - 1])
           /\ Proper(G[e.id - 1]) /\ G[e.id - 1] \in Trees
<1>1. Typed /\ Ids /\ used \in Nat
  BY Types DEF NameInv
<1>2. e \in OpSet /\ e.id \in 1..used /\ e.id - 1 \in 0..used /\ e.id \in 0..used
  BY <1>1, IdsApart DEF Waiting, WaitingOf
<1> QED
  BY <1>2 DEF Chain

\* A dirty file is not on the remote, nor will it be, and its directory is.
LEMMA DirtyPlace ==
    ASSUME NameInv, NEW G, Chain(Waiting, used, G, tree), Reaches(G[used]),
           NEW p \in Paths, Dirty(p), Remote!IsDir(tree, Parent(p))
    PROVE  /\ user[p].kind = "file" /\ user[p] # Absent /\ tree[p] = Absent /\ disk[p] = user[p]
           /\ \A k \in 0..used : G[k][p] = Absent /\ Remote!IsDir(G[k], Parent(p))
<1>1. /\ Typed /\ LeftIsGone /\ used \in Nat /\ Proper(user) /\ user \in Trees /\ tree \in Trees
      /\ G[0] = tree
  BY Types DEF NameInv, Chain
<1>2. user[p].kind = "file" /\ user[p] # Absent /\ disk[p] = user[p]
  BY NodeKinds, DirIsThere DEF NameInv, RowsFit, HasFile, Dirty, Row
<1>3. tree[p] = Absent
  BY <1>2, RemoteKnows
<1>4. ASSUME NEW k \in 0..used PROVE G[k][p] = Absent
  <2>1. SUFFICES ASSUME G[k][p] # Absent PROVE FALSE
    OBVIOUS
  <2>2. \A j \in k..used : G[j][p] = G[k][p]
    BY <1>1, <1>2, <2>1, UserStays
  <2>3. G[used][p] = G[k][p]
    BY <1>1, <2>2
  <2> QED
    BY <2>1, <2>3 DEF Reaches
<1>5. ASSUME NEW k \in 0..used PROVE Remote!IsDir(G[k], Parent(p))
  <2>1. CASE Parent(p) = <<>>
    BY <2>1 DEF Remote!IsDir
  <2>2. CASE Parent(p) # <<>>
    <3> DEFINE r == Parent(p)
    <3>1. r \in Paths /\ tree[r] \in Node /\ user[r] \in Node
      BY <1>1, <2>2, PathNames DEF Trees, Node
    <3>2. Remote!IsDir(user, r)
      BY <1>1, <1>2, HasParent
    <3>3. /\ tree[r].kind = "dir" /\ user[r].kind = "dir" /\ r # <<>>
      BY <2>2, <3>2 DEF Remote!IsDir
    <3>4. tree[r] = Dir /\ user[r] = Dir
      BY <3>1, <3>3, NodeKinds
    <3> HIDE DEF r
    <3>5. 0 \in 0..used /\ k \in 0..used
      BY <1>1
    <3>6. G[k][r] = Dir
      BY <1>1, <3>1, <3>4, <3>5, DirIsThere, UserStays
    <3> QED
      BY <3>1, <3>6, NodeKinds DEF r, Remote!IsDir
  <2> QED
    BY <2>1, <2>2
<1> QED
  BY <1>2, <1>3, <1>4, <1>5

\* No waiting operation has to do with a dirty file whose directory is there.
LEMMA DirtyApart ==
    ASSUME NameInv, NEW G, Chain(Waiting, used, G, tree), Reaches(G[used]),
           NEW p \in Paths, Dirty(p), Remote!IsDir(tree, Parent(p)), NEW e \in Waiting
    PROVE  e.op = "put" \/ Apart(e, p, p)
<1> DEFINE t == G[e.id - 1]
<1>1. /\ e \in OpSet /\ e.id \in 0..used /\ e.id - 1 \in 0..used
      /\ Legal(e, t) /\ G[e.id] = Effect(e, t) /\ Proper(t) /\ t \in Trees
  BY InChain
<1>2. /\ e.path \in Paths /\ e.dest \in Paths /\ e.path \in Names /\ e.dest \in Names
      /\ p \in Names
      /\ e.op \in {"put", "delete", "mkdir", "rmdir", "rename"}
  BY <1>1, OpFields, PathNames
<1>3. /\ user[p] # Absent /\ t[p] = Absent /\ Remote!IsDir(t, Parent(p)) /\ G[e.id][p] = Absent
  BY <1>1, DirtyPlace
<1> HIDE DEF t
\* Nothing that is free lies above p,
<1>4. ASSUME NEW d \in Paths, t[d] = Absent, d # p PROVE ~Under(d, p)
  BY <1>1, <1>3, <1>4, DirAbove, DirIsThere DEF Below
\* and nothing that is there, or is in a directory, lies below it.
<1>5. ASSUME NEW d \in Paths, t[d] # Absent PROVE ~Under(p, d)
  BY <1>1, <1>3, <1>5, DirIsThere DEF Proper, Below
<1>6. ASSUME NEW d \in Paths, d # p, Remote!IsDir(t, Parent(d)) PROVE ~Under(p, d)
  BY <1>1, <1>3, <1>6, DirAbove, DirIsThere DEF Below
<1>7. ASSUME e.op \in Leaving PROVE ~Comparable(e.path, p)
  <2>1. ~Under(e.path, p)
    BY <1>3, <1>7 DEF NameInv, LeftIsGone
  <2>2. ~Under(p, e.path)
    BY <1>1, <1>2, <1>5, <1>7 DEF Legal
  <2> QED
    BY <2>1, <2>2 DEF Comparable
<1>8. CASE e.op \in {"delete", "rmdir"}
  <2>1. e.dest = e.path
    BY <1>1, <1>8 DEF Legal
  <2> QED
    BY <1>7, <1>8, <2>1 DEF Apart, Leaving
<1>9. CASE e.op = "mkdir"
  <2>1. e.dest = e.path /\ t[e.path] = Absent /\ Remote!IsDir(t, Parent(e.path))
    BY <1>1, <1>9 DEF Legal
  <2>2. e.path # p
    <3>1. Effect(e, t)[e.path] = Dir
      BY <1>1, <1>2, <1>9 DEF Effect, Trees
    <3> QED
      BY <1>1, <1>3, <3>1, DirIsThere
  <2>3. ~Comparable(e.path, p)
    BY <1>2, <1>4, <1>6, <2>1, <2>2 DEF Comparable
  <2> QED
    BY <2>1, <2>3 DEF Apart
<1>10. CASE e.op = "rename"
  <2>1. /\ t[e.path] # Absent /\ t[e.dest] = Absent
        /\ Remote!IsDir(t, Parent(e.dest)) /\ ~Under(e.path, e.dest)
    BY <1>1, <1>10 DEF Legal, Leaving
  <2>2. e.dest # p
    <3>1. Under(e.dest, e.dest) /\ Under(e.path, e.path) /\ Remote!Moved(e.dest, e.path, e.dest) = e.path
      BY <1>2, UnderOrder, MovedUnder
    <3>2. Effect(e, t)[e.dest] = t[e.path]
      BY <1>1, <1>2, <1>10, <2>1, <3>1, MoveCases DEF Effect
    <3> QED
      BY <1>1, <1>3, <2>1, <3>2
  <2>3. ~Comparable(e.dest, p)
    BY <1>2, <1>4, <1>6, <2>1, <2>2 DEF Comparable
  <2>4. ~Comparable(e.path, p)
    BY <1>7, <1>10 DEF Leaving
  <2> QED
    BY <2>3, <2>4 DEF Apart
<1> QED
  BY <1>2, <1>8, <1>9, <1>10

\* What is left to show of a step of the loop alone.
LEMMA LoopRests ==
    ASSUME NameInv, UNCHANGED <<tree, rows, disk, ops, user, used>>,
           w.pc # "complete", w'.pc # "complete", Typed', PutPhase', MergePhase', ReplayPhase'
    PROVE  NameInv'
<1>1. Waiting' = Waiting
  BY DEF Waiting, WaitingOf, OpsOf
<1>2. \A p \in Paths : Dirty(p)' <=> Dirty(p)
  BY DEF Dirty
<1>3. Planned'
  BY <1>1, <1>2 DEF NameInv, Planned, Reaches
<1>4. Ids' /\ LeftIsGone' /\ Proper(user')
  BY <1>1 DEF NameInv, Ids, LeftIsGone
<1>5. RowsFit' /\ HasFile'
  BY <1>2 DEF NameInv, RowsFit, HasFile
<1> QED
  BY <1>3, <1>4, <1>5 DEF NameInv

\* The dirty files are listed.
LEMMA UploadDirtyStep ==
    ASSUME NameInv, UploadDirty
    PROVE  NameInv'
<1>1. /\ w.pc = "upload" /\ UNCHANGED <<tree, rows, disk, ops, user, used, faults>>
      /\ w' = [w EXCEPT !.pc = "put", !.files = {p \in Paths : rows[p] = Row("file", "dirty")}]
  BY DEF UploadDirty
<1>2. w'.pc = "put" /\ w'.files = {p \in Paths : Dirty(p)} /\ Typed'
  BY <1>1 DEF NameInv, Typed, TypeOK, Dirty
<1>3. PutPhase' /\ MergePhase' /\ ReplayPhase'
  BY <1>1, <1>2 DEF PutPhase, MergePhase, ReplayPhase, Dirty
<1> QED
  BY <1>1, <1>2, <1>3, LoopRests

\* A dirty file is uploaded, or not.
LEMMA UploadFileStep ==
    ASSUME NameInv, NEW p \in Paths, UploadFile(p)
    PROVE  NameInv'
<1>1. /\ w.pc = "put" /\ p \in w.files /\ UNCHANGED <<disk, ops, user, used>>
      /\ w' = [w EXCEPT !.files = @ \ {p}]
  BY DEF UploadFile
<1>2. /\ Typed /\ tree \in Trees /\ disk \in Trees /\ user \in Trees /\ used \in Nat
      /\ Waiting \in SUBSET OpSet
      /\ rows \in [Paths -> [kind : {"absent", "dir", "file"},
                           state : {"none", "dirty", "clean", "evicted", "conflict"}]]
  BY Types DEF NameInv, Typed, TypeOK
<1>3. w'.pc = "put" /\ w'.files = w.files \ {p}
      /\ w' = [pc |-> w'.pc, files |-> w'.files, ops |-> w'.ops, dirs |-> w'.dirs, dir |-> w'.dir, list |-> w'.list]
      /\ w'.files \subseteq Paths /\ w'.ops = w.ops /\ w'.dirs = w.dirs
  BY <1>1, <1>2 DEF Typed, TypeOK
<1>4. MergePhase' /\ ReplayPhase' /\ Waiting' = Waiting
  BY <1>1, <1>3 DEF MergePhase, ReplayPhase, Waiting, WaitingOf, OpsOf
<1>5. CASE UNCHANGED <<tree, rows>> /\ (Fine \/ Faulty)
  <2>1. faults' \in 0..MaxFaults
    BY <1>2, <1>5, NamespaceAssumption DEF Fine, Faulty, Typed, TypeOK
  <2>2. Typed'
    BY <1>1, <1>2, <1>3, <1>5, <2>1 DEF Typed, TypeOK
  <2>3. PutPhase'
    BY <1>1, <1>3, <1>5 DEF NameInv, PutPhase, Dirty
  <2> QED
    BY <1>1, <1>3, <1>4, <1>5, <2>2, <2>3, LoopRests
<1>6. CASE /\ disk[p].kind = "file" /\ Remote!Put(p, disk[p].ver)
           /\ rows' = [rows EXCEPT ![p].state = "clean"] /\ Fine
  <2>1. PICK G : Chain(Waiting, used, G, tree) /\ Reaches(G[used])
    BY DEF NameInv, Planned
  <2>2. Dirty(p) /\ Remote!IsDir(tree, Parent(p))
    BY <1>1, <1>6 DEF NameInv, PutPhase, Remote!Put, Remote!MayPut, Parent
  <2>3. /\ user[p].kind = "file" /\ user[p] # Absent /\ tree[p] = Absent /\ disk[p] = user[p]
        /\ \A k \in 0..used : G[k][p] = Absent /\ Remote!IsDir(G[k], Parent(p))
    BY <2>1, <2>2, DirtyPlace
  <2>4. tree' = [tree EXCEPT ![p] = user[p]]
    <3>1. disk[p] \in Node /\ disk[p] # Absent /\ disk[p] # Dir
      BY <1>2, <1>6, NodeKinds DEF Trees, Node
    <3>2. Remote!File(disk[p].ver) = disk[p]
      BY <3>1 DEF Node, Remote!File
    <3> QED
      BY <1>6, <2>3, <3>2 DEF Remote!Put
  <2>5. user[p] \in Node
    BY <1>2 DEF Trees, Node
  <2>6. \A e \in Waiting : e.op = "put" \/ Apart(e, p, p)
    BY <2>1, <2>2, DirtyApart
  <2>7. PICK H : Chain(Waiting, used, H, tree') /\ H[used] = [G[used] EXCEPT ![p] = user[p]]
    <3>1. Free(Waiting, used, G, p)
      BY <2>3, <2>6 DEF Free
    <3>2. \E H : Chain(Waiting, used, H, With(tree, p, user[p])) /\ H[used] = With(G[used], p, user[p])
      BY <1>2, <2>1, <2>5, <3>1, ChainPut
    <3> QED
      BY <2>4, <3>2 DEF With
  <2>8. \A q \in Paths : rows'[q] = IF q = p THEN Row("file", "clean") ELSE rows[q]
    BY <1>2, <1>6, <2>2 DEF Dirty, Row
  <2>9. \A q \in Paths : Dirty(q)' <=> q # p /\ Dirty(q)
    BY <2>8 DEF Dirty, Row
  <2>10. Planned'
    <3>1. G[used] \in Trees
      BY <1>2, <2>1 DEF Chain
    <3>2. ASSUME NEW q \in Paths
          PROVE  H[used][q] = IF Dirty(q)' THEN Absent ELSE user[q]
      BY <2>1, <2>7, <2>9, <3>1 DEF Reaches, Trees
    <3> QED
      BY <1>1, <1>4, <2>7, <3>2 DEF Planned, Reaches
  <2>11. Typed'
    <3>1. tree' \in Trees
      BY <1>2, <2>4, <2>5 DEF Trees, Node
    <3>2. rows' \in [Paths -> [kind : {"absent", "dir", "file"},
                           state : {"none", "dirty", "clean", "evicted", "conflict"}]]
      BY <1>2, <1>6
    <3> QED
      BY <1>1, <1>2, <1>3, <1>6, <3>1, <3>2 DEF Typed, TypeOK, Fine
  <2>12. Ids' /\ LeftIsGone' /\ Proper(user')
    BY <1>1, <1>4 DEF NameInv, Ids, LeftIsGone
  <2>13. RowsFit'
    <3>1. ASSUME NEW q \in Paths
          PROVE  /\ rows'[q].kind = "absent" => rows'[q] = NoRow
                 /\ Dirty(q)' => user[q].kind = "file"
                 /\ rows'[q].kind # "absent" /\ user[q] # Absent => rows'[q].kind = user[q].kind
      BY <2>3, <2>8, <2>9 DEF NameInv, RowsFit, Row
    <3> QED
      BY <1>1, <3>1 DEF RowsFit
  <2>14. HasFile'
    <3>1. ASSUME NEW q \in Paths, user[q].kind = "file", rows'[q].state \in {"clean", "dirty"}
          PROVE  disk[q] = user[q]
      BY <2>3, <2>8, <3>1 DEF NameInv, HasFile
    <3> QED
      BY <1>1, <3>1 DEF HasFile
  <2>15. PutPhase'
    <3>1. \A q \in w.files : q \in Paths /\ Dirty(q)
      BY <1>1, <1>2 DEF NameInv, PutPhase, Typed, TypeOK
    <3>2. \A q \in w'.files : Dirty(q)'
      BY <1>3, <2>9, <3>1
    <3> QED
      BY <3>2 DEF PutPhase
  <2> QED
    BY <1>4, <2>10, <2>11, <2>12, <2>13, <2>14, <2>15 DEF NameInv
<1> QED
  BY <1>5, <1>6 DEF UploadFile

\* The queue's first operations are taken.
LEMMA ProcessStep ==
    ASSUME NameInv, ProcessPendingOps
    PROVE  NameInv'
<1> DEFINE n == IF Len(ops) < Limit THEN Len(ops) ELSE Limit
           s == SubSeq(ops, 1, n)
<1>1. /\ w.pc = "put" /\ UNCHANGED <<tree, rows, disk, ops, user, used, faults>>
      /\ w' = [w EXCEPT !.pc = "apply", !.ops = s]
  BY DEF ProcessPendingOps
<1>2. /\ Typed /\ Ids /\ ops \in Seq(OpSet) /\ \A i \in DOMAIN ops : ops[i] \in OpSet
  BY Types DEF NameInv
<1>3. n \in Nat /\ n <= Len(ops) /\ DOMAIN ops = 1..Len(ops) /\ Len(ops) \in Nat
  BY <1>2, NamespaceAssumption
<1> HIDE DEF n
<1>4. s \in Seq(OpSet) /\ DOMAIN s = 1..n /\ \A i \in 1..n : i \in DOMAIN ops /\ s[i] = ops[i]
  BY <1>2, <1>3
<1> HIDE DEF s
<1>5. w'.pc = "apply" /\ w'.ops = s /\ Typed'
  BY <1>1, <1>2, <1>4 DEF Typed, TypeOK
<1>6. Waiting' = Waiting /\ Waiting = OpsOf(ops)
  BY <1>1, <1>5 DEF Waiting, WaitingOf, OpsOf
<1>7. ASSUME NEW o \in Waiting, NEW j \in 1..n, o.id < s[j].id
      PROVE  \E i \in 1..n : s[i].id = o.id
  <2>1. PICK i \in DOMAIN ops : o = ops[i]
    BY <1>6 DEF OpsOf
  <2>2. o.id \in Int /\ s[j].id \in Int /\ j \in DOMAIN ops /\ s[j] = ops[j]
    BY <1>2, <1>4, <2>1 DEF OpSet
  <2>3. ~(j < i) /\ i # j
    <3>1. j < i => ops[j].id < ops[i].id
      BY <1>2, <2>2 DEF Ids
    <3> QED
      BY <1>7, <2>1, <2>2, <3>1
  <2>4. i \in 1..n
    BY <1>3, <2>1, <2>3
  <2> QED
    BY <1>4, <2>1, <2>4
<1>8. ReplayPhase'
  <2>1. \A i, j \in 1..n : i < j => s[i].id < s[j].id
    BY <1>2, <1>4 DEF Ids
  <2>2. \A j \in 1..n : \E o \in Waiting : o.id = s[j].id /\ Same(o, s[j])
    BY <1>4, <1>6 DEF OpsOf, Same
  <2> QED
    BY <1>4, <1>5, <1>6, <1>7, <2>1, <2>2 DEF ReplayPhase
<1>9. PutPhase' /\ MergePhase'
  BY <1>5 DEF PutPhase, MergePhase
<1> QED
  BY <1>1, <1>5, <1>8, <1>9, LoopRests

\* The next operation is waiting, and the remote takes it.
LEMMA HeadWaits ==
    ASSUME NameInv, w.pc = "apply", w.ops # <<>>, NEW G, Chain(Waiting, used, G, tree)
    PROVE  /\ 1 \in DOMAIN w.ops /\ Head(w.ops) = w.ops[1]
           /\ \E o \in Waiting :
                 /\ o.id = w.ops[1].id /\ Same(o, w.ops[1]) /\ Legal(o, tree)
                 /\ o.op # "put" => o = w.ops[1] /\ Foremost(o, Waiting)
<1>1. /\ Typed /\ Ids /\ used \in Nat /\ Waiting \in SUBSET OpSet /\ w.ops \in Seq(OpSet)
      /\ \A i \in DOMAIN w.ops : w.ops[i] \in OpSet
  BY Types DEF NameInv
<1>2. 1 \in DOMAIN w.ops /\ Head(w.ops) = w.ops[1] /\ DOMAIN w.ops = 1..Len(w.ops)
  BY <1>1
<1>3. PICK o \in Waiting : o.id = w.ops[1].id /\ Same(o, w.ops[1])
  BY <1>2 DEF NameInv, ReplayPhase
<1>4. o \in OpSet /\ o.id \in 1..used /\ o.op \in {"put", "delete", "mkdir", "rmdir", "rename"}
  BY <1>3, InChain, OpFields
<1>5. CASE o.op = "put"
  BY <1>2, <1>3, <1>5 DEF Legal, Leaving
<1>6. CASE o.op # "put"
  <2>1. o = w.ops[1]
    BY <1>3, <1>6 DEF Same
  <2>2. \A e \in Waiting : e.id = o.id => e = o
    BY <1>1, IdsApart DEF Waiting, WaitingOf
  <2>3. ASSUME NEW e \in Waiting, e.id < o.id PROVE e.op = "put" \/ Apart(o, e.path, e.dest)
    <3>1. ASSUME NEW i \in DOMAIN w.ops PROVE w.ops[i].id # e.id
      <4>1. e.id \in Int /\ w.ops[i].id \in Int /\ o.id \in Int
        BY <1>1, <1>4 DEF OpSet
      <4>2. CASE i = 1
        BY <2>1, <2>3, <4>1, <4>2
      <4>3. CASE i # 1
        <5>1. 1 < i
          BY <1>2, <4>3
        <5>2. w.ops[1].id < w.ops[i].id
          BY <1>2, <5>1 DEF NameInv, ReplayPhase
        <5> QED
          BY <2>1, <2>3, <4>1, <5>2
      <4> QED
        BY <4>2, <4>3
    <3> QED
      BY <1>2, <2>1, <2>3, <3>1 DEF NameInv, ReplayPhase
  <2>4. Foremost(o, Waiting)
    BY <2>2, <2>3 DEF Foremost
  <2>5. \A i \in 0..o.id - 1 : Legal(o, G[i])
    BY <1>1, <1>4, <2>4, ChainEarly
  <2>6. Legal(o, tree)
    <3>1. 0 \in 0..o.id - 1 /\ G[0] = tree
      BY <1>4 DEF Chain
    <3> QED
      BY <2>5, <3>1
  <2> QED
    BY <1>2, <1>3, <2>1, <2>4, <2>6
<1> QED
  BY <1>5, <1>6

\* What is left of the operations once the first is done with.
LEMMA TailOps ==
    ASSUME NEW s \in Seq(OpSet), s # <<>>
    PROVE  /\ Tail(s) \in Seq(OpSet) /\ Len(s) \in Nat
           /\ \A j \in DOMAIN Tail(s) : j + 1 \in DOMAIN s /\ j + 1 # 1 /\ j + 1 \in Int /\ Tail(s)[j] = s[j + 1]
           /\ \A j \in DOMAIN s : j # 1 => j - 1 \in DOMAIN Tail(s) /\ Tail(s)[j - 1] = s[j]
  OBVIOUS

\* An operation that fails stays, and those behind it that are replayed have
\* nothing to do with it.
LEMMA OpFailsStep ==
    ASSUME NameInv, Admits = {}, OpFails
    PROVE  NameInv'
<1>1. /\ w.pc = "apply" /\ w.ops # <<>> /\ UNCHANGED <<tree, rows, disk, ops, user, used>>
      /\ w' = [w EXCEPT !.ops = Tail(@)]
  BY DEF OpFails
<1>2. PICK G : Chain(Waiting, used, G, tree) /\ Reaches(G[used])
  BY DEF NameInv, Planned
<1>3. /\ 1 \in DOMAIN w.ops /\ Head(w.ops) = w.ops[1]
      /\ \E o \in Waiting :
            /\ o.id = w.ops[1].id /\ Same(o, w.ops[1]) /\ Legal(o, tree)
            /\ o.op # "put" => o = w.ops[1] /\ Foremost(o, Waiting)
  BY <1>1, <1>2, HeadWaits
<1>4. PICK o \in Waiting : o.id = w.ops[1].id /\ Same(o, w.ops[1]) /\ Legal(o, tree)
  BY <1>3
<1>5. ~Refused(w.ops[1])
  BY <1>4 DEF Refused, Same, Legal, Leaving, Remote!MayDelete, Remote!MayMkdir, Remote!MayRename,
              Under, Parent, Absent
<1>6. /\ w.ops[1].op # "put" /\ Faulty
      /\ \A i \in 2..Len(w.ops) : ~Related(w.ops[1], w.ops[i])
  BY <1>3, <1>5 DEF OpFails
<1>7. o = w.ops[1]
  BY <1>4, <1>6 DEF Same
<1>8. /\ Typed /\ Ids /\ w.ops \in Seq(OpSet)
      /\ \A i \in DOMAIN w.ops : w.ops[i] \in OpSet
      /\ Waiting \in SUBSET OpSet
  BY Types DEF NameInv
<1> DEFINE s == Tail(w.ops)
<1>9. /\ s \in Seq(OpSet) /\ Len(w.ops) \in Nat /\ DOMAIN w.ops = 1..Len(w.ops)
      /\ \A j \in DOMAIN s : j + 1 \in DOMAIN w.ops /\ j + 1 # 1 /\ j + 1 \in Int /\ s[j] = w.ops[j + 1]
      /\ \A j \in DOMAIN w.ops : j # 1 => j - 1 \in DOMAIN s /\ s[j - 1] = w.ops[j]
  BY <1>1, <1>8, TailOps
<1>10. w'.pc = "apply" /\ w'.ops = s
  BY <1>1, <1>8 DEF Typed
<1>11. Typed'
  <2>1. faults' \in 0..MaxFaults
    BY <1>6, <1>8, NamespaceAssumption DEF Faulty, Typed, TypeOK
  <2> QED
    BY <1>1, <1>8, <1>9, <1>10, <2>1 DEF Typed, TypeOK
<1>12. Waiting' = Waiting
  BY <1>1, <1>10 DEF Waiting, WaitingOf, OpsOf
<1> HIDE DEF s
<1>13. \A i, j \in DOMAIN s : i < j => s[i].id < s[j].id
  <2>1. ASSUME NEW i \in DOMAIN s, NEW j \in DOMAIN s, i < j PROVE s[i].id < s[j].id
    <3>1. i + 1 \in DOMAIN w.ops /\ j + 1 \in DOMAIN w.ops /\ i + 1 < j + 1
      BY <1>9, <2>1
    <3> QED
      BY <1>1, <1>9, <3>1 DEF NameInv, ReplayPhase
  <2> QED
    BY <2>1
<1>14. \A j \in DOMAIN s : \E e \in Waiting : e.id = s[j].id /\ Same(e, s[j])
  BY <1>1, <1>9 DEF NameInv, ReplayPhase
<1>15. ASSUME NEW e \in Waiting, NEW j \in DOMAIN s, e.id < s[j].id,
              \A i \in DOMAIN s : s[i].id # e.id
       PROVE  e.op = "put" \/ Apart(s[j], e.path, e.dest)
  <2>1. j + 1 \in DOMAIN w.ops /\ s[j] = w.ops[j + 1] /\ j + 1 \in 2..Len(w.ops)
    BY <1>9
  <2>2. CASE e.id = w.ops[1].id
    <3>1. e = o
      BY <1>4, <1>8, <2>2, IdsApart DEF Waiting, WaitingOf
    <3>2. ~Related(o, s[j])
      BY <1>6, <1>7, <2>1
    <3> QED
      BY <3>1, <3>2 DEF Related, Touches, Apart, Comparable
  <2>3. CASE e.id # w.ops[1].id
    <3>1. ASSUME NEW i \in DOMAIN w.ops PROVE w.ops[i].id # e.id
      <4>1. CASE i = 1
        BY <2>3, <4>1
      <4>2. CASE i # 1
        <5>1. i - 1 \in DOMAIN s /\ s[i - 1] = w.ops[i]
          BY <1>9, <4>2
        <5> QED
          BY <1>15, <5>1
      <4> QED
        BY <4>1, <4>2
    <3> QED
      BY <1>1, <1>15, <2>1, <3>1 DEF NameInv, ReplayPhase
  <2> QED
    BY <2>2, <2>3
<1>16. ReplayPhase'
  BY <1>10, <1>12, <1>13, <1>14, <1>15 DEF ReplayPhase
<1>17. PutPhase' /\ MergePhase'
  BY <1>10 DEF PutPhase, MergePhase
<1> QED
  BY <1>1, <1>10, <1>11, <1>16, <1>17, LoopRests

\* An operation is carried out: it waits no longer.
LEMMA OpAppliedStep ==
    ASSUME NameInv, OpApplied
    PROVE  NameInv'
<1>1. /\ w.pc = "apply" /\ w.ops # <<>> /\ UNCHANGED <<rows, disk, ops, user, used, faults>>
      /\ Taken(Head(w.ops)) /\ w' = [w EXCEPT !.pc = "complete"]
  BY DEF OpApplied
<1>2. PICK G : Chain(Waiting, used, G, tree) /\ Reaches(G[used])
  BY DEF NameInv, Planned
<1>3. /\ 1 \in DOMAIN w.ops /\ Head(w.ops) = w.ops[1]
      /\ \E o \in Waiting :
            /\ o.id = w.ops[1].id /\ Same(o, w.ops[1]) /\ Legal(o, tree)
            /\ o.op # "put" => o = w.ops[1] /\ Foremost(o, Waiting)
  BY <1>1, <1>2, HeadWaits
<1>4. PICK o \in Waiting : /\ o.id = w.ops[1].id /\ Same(o, w.ops[1]) /\ Legal(o, tree)
                           /\ o.op # "put" => o = w.ops[1] /\ Foremost(o, Waiting)
  BY <1>3
<1>5. /\ Typed /\ Ids /\ used \in Nat /\ Waiting \in SUBSET OpSet /\ tree \in Trees
      /\ w.ops \in Seq(OpSet)
  BY Types DEF NameInv
<1>6. o \in OpSet /\ o.id \in 1..used
  BY <1>2, <1>4, InChain
<1>7. \A e \in Waiting : e.id = o.id => e = o
  BY <1>4, <1>5, IdsApart DEF Waiting, WaitingOf
<1>8. w'.pc = "complete" /\ w'.ops = w.ops
  BY <1>1, <1>5 DEF Typed
<1>9. Waiting' = Waiting \ {o}
  <2>1. Waiting = OpsOf(ops)
    BY <1>1 DEF Waiting, WaitingOf
  <2>2. Waiting' = {e \in OpsOf(ops) : e.id # w.ops[1].id}
    BY <1>1, <1>8 DEF Waiting, WaitingOf, OpsOf
  <2> QED
    BY <1>4, <1>7, <2>1, <2>2
<1>10. \E H : Chain(Waiting', used, H, tree') /\ H[used] = G[used]
  <2>1. CASE o.op = "put"
    <3>1. w.ops[1].op = "put"
      BY <1>4, <2>1 DEF Same
    <3>2. tree' = tree
      BY <1>1, <1>3, <3>1 DEF Taken
    <3>3. Chain(Waiting \ {o}, used, G, tree)
      BY <1>2, <1>4, <1>5, <1>7, <2>1, ChainDrop
    <3> QED
      BY <1>9, <3>2, <3>3
  <2>2. CASE o.op # "put"
    <3>1. o = w.ops[1] /\ Foremost(o, Waiting)
      BY <1>4, <2>2
    <3>2. tree' = Effect(o, tree)
      <4>1. Taken(o)
        BY <1>1, <1>3, <3>1
      <4> QED
        BY <2>2, <4>1, <1>6 DEF Taken, Effect, Remote!Delete, Remote!Mkdir, Remote!Rename,
                                Under, Absent, Dir, OpSet
    <3>3. \E H : Chain(Waiting \ {o}, used, H, Effect(o, tree)) /\ H[used] = G[used]
      BY <1>2, <1>4, <1>5, <1>6, <3>1, ChainTaken
    <3> QED
      BY <1>9, <3>2, <3>3
  <2> QED
    BY <2>1, <2>2
<1>11. \A p \in Paths : Dirty(p)' <=> Dirty(p)
  BY <1>1 DEF Dirty
<1>12. Planned'
  BY <1>1, <1>2, <1>10, <1>11 DEF Planned, Reaches
<1>13. Typed'
  <2>1. tree' \in Trees
    <3>1. PICK H : Chain(Waiting', used, H, tree')
      BY <1>10
    <3>2. 0 \in 0..used
      BY <1>5
    <3> QED
      BY <3>1, <3>2 DEF Chain
  <2> QED
    BY <1>1, <1>5, <1>8, <2>1 DEF Typed, TypeOK
<1>14. Ids' /\ Proper(user') /\ LeftIsGone'
  BY <1>1, <1>9 DEF NameInv, Ids, LeftIsGone
<1>15. RowsFit' /\ HasFile'
  BY <1>1, <1>11 DEF NameInv, RowsFit, HasFile
<1>16. PutPhase' /\ MergePhase'
  BY <1>8 DEF PutPhase, MergePhase
<1>17. ReplayPhase'
  <2>1. DOMAIN w.ops = 1..Len(w.ops)
    BY <1>5
  <2>2. o \in OpsOf(ops)
    BY <1>4 DEF Waiting, WaitingOf
  <2>3. ASSUME NEW j \in DOMAIN w.ops, j # 1
        PROVE  \E e \in Waiting' : e.id = w.ops[j].id /\ Same(e, w.ops[j])
    <3>1. PICK e \in Waiting : e.id = w.ops[j].id /\ Same(e, w.ops[j])
      BY <1>1 DEF NameInv, ReplayPhase
    <3>2. w.ops[1].id < w.ops[j].id
      <4>1. 1 < j
        BY <2>1, <2>3
      <4> QED
        BY <1>1, <1>3, <4>1 DEF NameInv, ReplayPhase
    <3>3. e # o
      BY <1>4, <1>6, <3>1, <3>2
    <3> QED
      BY <1>9, <3>1, <3>3
  <2>4. \A i, j \in DOMAIN w.ops : i < j => w.ops[i].id < w.ops[j].id
    BY <1>1 DEF NameInv, ReplayPhase
  <2>5. \A e \in Waiting', j \in DOMAIN w.ops :
           e.id < w.ops[j].id /\ (\A i \in DOMAIN w.ops : w.ops[i].id # e.id) =>
               e.op = "put" \/ Apart(w.ops[j], e.path, e.dest)
    BY <1>1, <1>9 DEF NameInv, ReplayPhase
  <2>6. OpsOf(ops') = OpsOf(ops)
    BY <1>1
  <2> QED
    BY <1>1, <1>4, <1>8, <2>2, <2>3, <2>4, <2>5, <2>6 DEF ReplayPhase
<1> QED
  BY <1>12, <1>13, <1>14, <1>15, <1>16, <1>17 DEF NameInv

\* A sequence without one of its elements.
LEMMA WithoutOne ==
    ASSUME NEW S, NEW s \in Seq(S), NEW i \in DOMAIN s
    PROVE  /\ Seqs!RemoveAt(s, i) \in Seq(S) /\ Len(Seqs!RemoveAt(s, i)) = Len(s) - 1
           /\ \A j \in 1..Len(s) - 1 :
                 Seqs!RemoveAt(s, i)[j] = IF j < i THEN s[j] ELSE s[j + 1]
<1> DEFINE a == SubSeq(s, 1, i - 1)
           b == SubSeq(s, i + 1, Len(s))
<1>1. Len(s) \in Nat /\ i \in 1..Len(s)
  OBVIOUS
<1>2. a \in Seq(S) /\ Len(a) = i - 1 /\ \A j \in 1..i - 1 : a[j] = s[j]
  BY <1>1
<1>3. b \in Seq(S) /\ Len(b) = Len(s) - i /\ \A j \in 1..Len(s) - i : b[j] = s[i + j]
  BY <1>1
<1>4. Seqs!RemoveAt(s, i) = a \o b
  BY DEF Seqs!RemoveAt
<1> HIDE DEF a, b
<1>5. /\ a \o b \in Seq(S) /\ Len(a \o b) = Len(s) - 1
      /\ \A j \in 1..Len(s) - 1 : (a \o b)[j] = IF j <= Len(a) THEN a[j] ELSE b[j - Len(a)]
  <2>1. a \in Seq(S) /\ b \in Seq(S)
    BY <1>2, <1>3
  <2>2. /\ a \o b \in Seq(S) /\ Len(a \o b) = Len(a) + Len(b)
        /\ \A j \in 1..Len(a) + Len(b) : (a \o b)[j] = IF j <= Len(a) THEN a[j] ELSE b[j - Len(a)]
    BY <2>1, ConcatProperties
  <2>3. Len(a) + Len(b) = Len(s) - 1
    BY <1>1, <1>2, <1>3
  <2> QED
    BY <2>2, <2>3
<1>6. ASSUME NEW j \in 1..Len(s) - 1 PROVE (a \o b)[j] = IF j < i THEN s[j] ELSE s[j + 1]
  <2>1. CASE j < i
    BY <1>1, <1>2, <1>5, <2>1
  <2>2. CASE ~(j < i)
    <3>1. j - (i - 1) \in 1..Len(s) - i /\ i + (j - (i - 1)) = j + 1
      BY <1>1, <2>2
    <3>2. (a \o b)[j] = b[j - (i - 1)]
      BY <1>1, <1>2, <1>5, <2>2
    <3> QED
      BY <1>3, <2>2, <3>1, <3>2
  <2> QED
    BY <2>1, <2>2
<1> QED
  BY <1>4, <1>5, <1>6

\* An operation that was carried out leaves the queue.
LEMMA OpCompletesStep ==
    ASSUME NameInv, OpCompletes
    PROVE  NameInv'
<1>1. /\ w.pc = "complete" /\ UNCHANGED <<tree, rows, disk, user, used, faults>>
      /\ w' = [w EXCEPT !.pc = "apply", !.ops = Tail(@)]
      /\ ops' = Completed(ops, Head(w.ops).id)
  BY DEF OpCompletes
<1>2. /\ Typed /\ Ids /\ used \in Nat /\ w.ops \in Seq(OpSet) /\ ops \in Seq(OpSet)
      /\ \A i \in DOMAIN ops : ops[i] \in OpSet
      /\ DOMAIN ops = 1..Len(ops) /\ Len(ops) \in Nat
  BY Types DEF NameInv
<1>3. w.ops # <<>> /\ \E i \in DOMAIN ops : ops[i].id = w.ops[1].id
  BY <1>1 DEF NameInv, ReplayPhase, OpsOf
<1>4. Head(w.ops) = w.ops[1] /\ 1 \in DOMAIN w.ops
  BY <1>2, <1>3
<1>5. PICK i \in DOMAIN ops : ops[i].id = w.ops[1].id /\ ops' = Seqs!RemoveAt(ops, i)
  <2> DEFINE i == CHOOSE i \in DOMAIN ops : ops[i].id = w.ops[1].id
  <2>1. i \in DOMAIN ops /\ ops[i].id = w.ops[1].id
    BY <1>3
  <2>2. ops' = Seqs!RemoveAt(ops, i)
    BY <1>1, <1>3, <1>4 DEF Completed
  <2> HIDE DEF i
  <2> QED
    BY <2>1, <2>2
<1>6. /\ ops' \in Seq(OpSet) /\ Len(ops') = Len(ops) - 1
      /\ \A j \in 1..Len(ops) - 1 : ops'[j] = IF j < i THEN ops[j] ELSE ops[j + 1]
  BY <1>2, <1>5, WithoutOne
<1>7. DOMAIN ops' = 1..Len(ops) - 1
  BY <1>2, <1>6
<1> DEFINE s == Tail(w.ops)
<1>8. /\ s \in Seq(OpSet)
      /\ \A j \in DOMAIN s : j + 1 \in DOMAIN w.ops /\ j + 1 # 1 /\ j + 1 \in Int /\ s[j] = w.ops[j + 1]
      /\ \A j \in DOMAIN w.ops : j # 1 => j - 1 \in DOMAIN s /\ s[j - 1] = w.ops[j]
  BY <1>2, <1>3, TailOps
<1>9. w'.pc = "apply" /\ w'.ops = s
  BY <1>1, <1>2 DEF Typed
<1> HIDE DEF s
<1>10. Typed'
  BY <1>1, <1>2, <1>6, <1>8, <1>9 DEF Typed, TypeOK
<1>11. OpsOf(ops') = OpsOf(ops) \ {ops[i]}
  <2>1. ASSUME NEW j \in 1..Len(ops) - 1 PROVE ops'[j] \in OpsOf(ops) \ {ops[i]}
    <3>1. PICK k \in DOMAIN ops : ops'[j] = ops[k] /\ k # i
      <4>1. CASE j < i
        BY <1>2, <1>6, <4>1
      <4>2. CASE ~(j < i)
        <5>1. j + 1 \in DOMAIN ops /\ j + 1 # i
          BY <1>2, <4>2
        <5> QED
          BY <1>6, <4>2, <5>1
      <4> QED
        BY <4>1, <4>2
    <3>2. ops[k].id # ops[i].id
      <4>1. ops[k].id \in Int /\ ops[i].id \in Int /\ k \in Int /\ i \in Int
        BY <1>2 DEF OpSet
      <4>2. k < i \/ i < k
        BY <3>1, <4>1
      <4> QED
        BY <1>2, <4>1, <4>2 DEF Ids
    <3> QED
      BY <3>1, <3>2 DEF OpsOf
  <2>2. ASSUME NEW k \in DOMAIN ops, k # i PROVE \E j \in 1..Len(ops) - 1 : ops'[j] = ops[k]
    <3>1. CASE k < i
      <4>1. k \in 1..Len(ops) - 1
        BY <1>2, <3>1
      <4> QED
        BY <1>6, <3>1, <4>1
    <3>2. CASE ~(k < i)
      <4>1. k - 1 \in 1..Len(ops) - 1 /\ ~(k - 1 < i) /\ k - 1 + 1 = k
        BY <1>2, <2>2, <3>2
      <4> QED
        BY <1>6, <4>1
    <3> QED
      BY <3>1, <3>2
  <2>3. OpsOf(ops') \subseteq OpsOf(ops) \ {ops[i]}
    <3>1. \A x \in OpsOf(ops') : \E j \in 1..Len(ops) - 1 : x = ops'[j]
      BY <1>7 DEF OpsOf
    <3> QED
      BY <2>1, <3>1
  <2>4. ASSUME NEW x \in OpsOf(ops) \ {ops[i]} PROVE x \in OpsOf(ops')
    <3>1. PICK k \in DOMAIN ops : x = ops[k] /\ k # i
      BY <2>4 DEF OpsOf
    <3>2. PICK j \in 1..Len(ops) - 1 : ops'[j] = ops[k]
      BY <2>2, <3>1
    <3> QED
      BY <1>7, <3>1, <3>2 DEF OpsOf
  <2> QED
    BY <2>3, <2>4
<1>12. Waiting' = Waiting
  <2>1. Waiting' = OpsOf(ops')
    BY <1>9 DEF Waiting, WaitingOf
  <2>2. Waiting = {e \in OpsOf(ops) : e.id # w.ops[1].id}
    BY <1>1 DEF Waiting, WaitingOf
  <2>3. \A e \in OpsOf(ops) : e.id = w.ops[1].id <=> e = ops[i]
    BY <1>2, <1>5, IdsApart DEF OpsOf
  <2> QED
    BY <1>11, <2>1, <2>2, <2>3
<1>13. Ids'
  <2>1. ASSUME NEW j \in DOMAIN ops', NEW k \in DOMAIN ops', j < k PROVE ops'[j].id < ops'[k].id
    <3>1. /\ ops'[j] = IF j < i THEN ops[j] ELSE ops[j + 1]
          /\ ops'[k] = IF k < i THEN ops[k] ELSE ops[k + 1]
          /\ j \in DOMAIN ops /\ j + 1 \in DOMAIN ops /\ k \in DOMAIN ops /\ k + 1 \in DOMAIN ops
          /\ j < k + 1 /\ j + 1 < k + 1 /\ (k < i => j < i)
      BY <1>2, <1>6, <1>7, <2>1
    <3> QED
      BY <1>2, <2>1, <3>1 DEF Ids
  <2>2. ASSUME NEW j \in DOMAIN ops' PROVE ops'[j].id <= used'
    <3>1. ops'[j] \in OpsOf(ops)
      BY <1>11 DEF OpsOf
    <3> QED
      BY <1>1, <1>2, <3>1 DEF OpsOf, Ids
  <2> QED
    BY <2>1, <2>2 DEF Ids
<1>14. \A p \in Paths : Dirty(p)' <=> Dirty(p)
  BY <1>1 DEF Dirty
<1>15. Planned' /\ LeftIsGone'
  BY <1>1, <1>12, <1>14 DEF NameInv, Planned, Reaches, LeftIsGone
<1>16. Proper(user') /\ RowsFit' /\ HasFile'
  BY <1>1, <1>14 DEF NameInv, RowsFit, HasFile
<1>17. PutPhase' /\ MergePhase'
  BY <1>9 DEF PutPhase, MergePhase
<1>18. ReplayPhase'
  <2>1. ASSUME NEW j \in DOMAIN s, NEW k \in DOMAIN s, j < k PROVE s[j].id < s[k].id
    <3>1. j + 1 \in DOMAIN w.ops /\ k + 1 \in DOMAIN w.ops /\ j + 1 < k + 1
      BY <1>8, <2>1
    <3> QED
      BY <1>1, <1>8, <3>1 DEF NameInv, ReplayPhase
  <2>2. \A j \in DOMAIN s : \E e \in Waiting : e.id = s[j].id /\ Same(e, s[j])
    BY <1>1, <1>8 DEF NameInv, ReplayPhase
  <2>3. ASSUME NEW e \in Waiting, NEW j \in DOMAIN s, e.id < s[j].id,
               \A k \in DOMAIN s : s[k].id # e.id
        PROVE  e.op = "put" \/ Apart(s[j], e.path, e.dest)
    <3>1. j + 1 \in DOMAIN w.ops /\ s[j] = w.ops[j + 1]
      BY <1>8
    <3>2. e.id # w.ops[1].id
      BY <1>1 DEF Waiting, WaitingOf
    <3>3. ASSUME NEW k \in DOMAIN w.ops PROVE w.ops[k].id # e.id
      <4>1. CASE k = 1
        BY <3>2, <4>1
      <4>2. CASE k # 1
        <5>1. k - 1 \in DOMAIN s /\ s[k - 1] = w.ops[k]
          BY <1>8, <4>2
        <5> QED
          BY <2>3, <5>1
      <4> QED
        BY <4>1, <4>2
    <3> QED
      BY <1>1, <2>3, <3>1, <3>3 DEF NameInv, ReplayPhase
  <2> QED
    BY <1>9, <1>12, <2>1, <2>2, <2>3 DEF ReplayPhase
<1> QED
  BY <1>10, <1>13, <1>15, <1>16, <1>17, <1>18 DEF NameInv

\* The pull starts,
LEMMA PullStep ==
    ASSUME NameInv, Pull
    PROVE  NameInv'
<1>1. /\ w.pc = "apply" /\ UNCHANGED <<tree, rows, disk, ops, user, used, faults>>
      /\ w' = [w EXCEPT !.pc = "list", !.dirs = {<<>>}]
  BY DEF Pull
<1>2. w'.pc = "list" /\ Typed'
  BY <1>1 DEF NameInv, Typed, TypeOK
<1>3. PutPhase' /\ MergePhase' /\ ReplayPhase'
  BY <1>2 DEF PutPhase, MergePhase, ReplayPhase
<1> QED
  BY <1>1, <1>2, <1>3, LoopRests

\* lists a directory,
LEMMA PullListStep ==
    ASSUME NameInv, NEW d \in Paths \cup {<<>>}, PullList(d)
    PROVE  NameInv'
<1>1. w.pc = "list" /\ UNCHANGED <<tree, rows, disk, ops, user, used>> /\ Typed
  BY DEF PullList, NameInv
<1>2. CASE /\ Fine
           /\ w' = [w EXCEPT !.pc = "merge", !.dir = d, !.dirs = @ \ {d},
                             !.list = [p \in Children(tree, d) |-> tree[p].kind]]
  <2>1. w'.pc = "merge" /\ w'.dir = d /\ w'.list = [p \in Children(tree, d) |-> tree[p].kind] /\ Typed'
    BY <1>1, <1>2 DEF Typed, TypeOK, Fine
  <2>2. MergePhase'
    BY <1>1, <2>1 DEF MergePhase
  <2>3. PutPhase' /\ ReplayPhase'
    BY <2>1 DEF PutPhase, ReplayPhase
  <2> QED
    BY <1>1, <2>1, <2>2, <2>3, LoopRests
<1>3. CASE (Fine \/ Faulty) /\ w' = [w EXCEPT !.dirs = @ \ {d}]
  <2>1. faults' \in 0..MaxFaults
    BY <1>1, <1>3, NamespaceAssumption DEF Fine, Faulty, Typed, TypeOK
  <2>2. w'.pc = "list" /\ Typed'
    BY <1>1, <1>3, <2>1 DEF Typed, TypeOK
  <2>3. PutPhase' /\ MergePhase' /\ ReplayPhase'
    BY <2>2 DEF PutPhase, MergePhase, ReplayPhase
  <2> QED
    BY <1>1, <2>2, <2>3, LoopRests
<1> QED
  BY <1>2, <1>3 DEF PullList

\* and ends.
LEMMA CycleEndsStep ==
    ASSUME NameInv, CycleEnds
    PROVE  NameInv'
<1>1. w.pc = "list" /\ w' = Idle /\ UNCHANGED <<tree, rows, disk, ops, user, used, faults>>
  BY DEF CycleEnds
<1>2. w'.pc = "upload" /\ Typed'
  BY <1>1 DEF NameInv, Typed, TypeOK, Idle
<1>3. PutPhase' /\ MergePhase' /\ ReplayPhase'
  BY <1>2 DEF PutPhase, MergePhase, ReplayPhase
<1> QED
  BY <1>1, <1>2, <1>3, LoopRests

\* A crash between operations forgets nothing but the loop's place.
LEMMA CrashStep ==
    ASSUME NameInv, Admits = {}, Crash
    PROVE  NameInv'
<1>1. w.pc # "complete" /\ w' = Idle /\ Faulty /\ UNCHANGED <<tree, rows, disk, ops, user, used>>
  BY DEF Crash
<1>2. faults' \in 0..MaxFaults
  BY <1>1, NamespaceAssumption DEF Faulty, NameInv, Typed, TypeOK
<1>3. w'.pc = "upload" /\ Typed'
  BY <1>1, <1>2 DEF NameInv, Typed, TypeOK, Idle
<1>4. PutPhase' /\ MergePhase' /\ ReplayPhase'
  BY <1>3 DEF PutPhase, MergePhase, ReplayPhase
<1> QED
  BY <1>1, <1>3, <1>4, LoopRests

\* A listing is merged: dirty files are not in it, and rows that go are of
\* nothing the user has and the remote lacks but what a queued operation made.
LEMMA PullMergeStep ==
    ASSUME NameInv, PullMerge
    PROVE  NameInv'
<1>1. /\ w.pc = "merge" /\ UNCHANGED <<tree, ops, user, used, faults>>
      /\ disk' = [p \in Paths |-> IF p \in Stale /\ Bare(p) THEN Absent ELSE disk[p]]
      /\ w' = [w EXCEPT !.pc = "list", !.list = <<>>, !.dir = <<>>,
                        !.dirs = @ \cup {p \in DOMAIN w.list : w.list[p] = "dir"}]
  BY DEF PullMerge
<1>2. /\ Typed /\ tree \in Trees /\ disk \in Trees /\ user \in Trees
      /\ rows \in [Paths -> [kind : {"absent", "dir", "file"},
                           state : {"none", "dirty", "clean", "evicted", "conflict"}]]
  BY Types DEF NameInv, Typed, TypeOK
<1>3. /\ DOMAIN w.list = Children(tree, w.dir)
      /\ \A p \in DOMAIN w.list : p \in Paths /\ tree[p] # Absent /\ w.list[p] = tree[p].kind
  BY <1>1 DEF NameInv, MergePhase, Children
<1>4. \A p \in Paths : tree[p] # Absent => tree[p].kind \in {"dir", "file"}
  <2>1. ASSUME NEW p \in Paths, tree[p] # Absent PROVE tree[p].kind \in {"dir", "file"}
    <3>1. tree[p] \in Node
      BY <1>2 DEF Trees, Node
    <3> QED
      BY <2>1, <3>1, NodeKinds
  <2> QED
    BY <2>1
<1>5. \A p \in Stale : p \in Paths /\ p \notin DOMAIN w.list /\ rows[p].state \in {"clean", "evicted"}
  BY DEF Stale
<1>6. \A p \in Paths : disk'[p] = IF p \in Stale /\ Bare(p) THEN Absent ELSE disk[p]
  BY <1>1
<1>7. ASSUME NEW p \in DOMAIN w.list, rows[p].kind # "absent", rows[p].state = "dirty"
      PROVE  rows[p].kind = "dir"
  <2>1. p \in Paths /\ tree[p] # Absent
    BY <1>3
  <2>2. SUFFICES ASSUME rows[p].kind = "file" PROVE FALSE
    BY <1>2, <1>7, <2>1
  <2>3. Dirty(p)
    BY <1>2, <1>7, <2>1, <2>2 DEF Dirty, Row
  <2>4. user[p] # Absent
    BY <2>1, <2>3, NodeKinds, DirIsThere DEF NameInv, RowsFit
  <2> QED
    BY <2>1, <2>3, <2>4, RemoteKnows
\* A row is new, is a directory's in conflict, stays or goes.
<1> DEFINE New(p)   == /\ rows[p].kind = "absent" /\ tree[p] # Absent
                       /\ rows'[p] = Row(tree[p].kind, "evicted")
           Clash(p) == /\ rows[p] = Row("dir", "dirty") /\ rows'[p] = Row("dir", "conflict")
           Stays(p) == rows'[p] = rows[p] /\ p \notin Stale
           Goes(p)  == rows'[p] = NoRow /\ rows[p].state \in {"clean", "evicted"}
<1>8. ASSUME NEW p \in Paths PROVE New(p) \/ Clash(p) \/ Stays(p) \/ Goes(p)
  <2>1. rows'[p] = IF p \in DOMAIN w.list
                   THEN IF rows[p].kind = "absent" THEN NewRow(w.list[p])
                        ELSE IF rows[p].state = "dirty" THEN Row(rows[p].kind, "conflict")
                        ELSE rows[p]
                   ELSE IF p \in Stale THEN NoRow ELSE rows[p]
    BY DEF PullMerge
  <2>2. CASE p \in DOMAIN w.list /\ rows[p].kind = "absent"
    BY <1>3, <2>1, <2>2 DEF NewRow
  <2>3. CASE p \in DOMAIN w.list /\ rows[p].kind # "absent" /\ rows[p].state = "dirty"
    <3>1. rows[p].kind = "dir"
      BY <1>7, <2>3
    <3>2. rows[p] = Row("dir", "dirty")
      BY <1>2, <2>3, <3>1 DEF Row
    <3> QED
      BY <2>1, <2>3, <3>1, <3>2
  <2>4. CASE p \in DOMAIN w.list /\ rows[p].kind # "absent" /\ rows[p].state # "dirty"
    BY <1>5, <2>1, <2>4
  <2>5. CASE p \notin DOMAIN w.list /\ p \in Stale
    BY <1>5, <2>1, <2>5
  <2>6. CASE p \notin DOMAIN w.list /\ p \notin Stale
    BY <2>1, <2>6
  <2> QED
    BY <2>2, <2>3, <2>4, <2>5, <2>6
<1>9. ASSUME NEW p \in Paths PROVE Dirty(p)' <=> Dirty(p)
  <2>1. CASE New(p)
    BY <2>1 DEF Dirty, Row
  <2>2. CASE Clash(p)
    BY <2>2 DEF Dirty, Row
  <2>3. CASE Stays(p)
    BY <2>3 DEF Dirty
  <2>4. CASE Goes(p)
    BY <2>4 DEF Dirty, Row, NoRow
  <2> QED
    BY <1>8, <2>1, <2>2, <2>3, <2>4
<1>10. w'.pc = "list" /\ w'.ops = w.ops /\ Typed'
  <2>1. disk' \in Trees
    BY <1>1, <1>2, DirIsThere DEF Trees, Node
  <2>2. ASSUME NEW p \in Paths
        PROVE  rows'[p] \in [kind : {"absent", "dir", "file"},
                             state : {"none", "dirty", "clean", "evicted", "conflict"}]
    <3>1. CASE New(p)
      <4>1. tree[p].kind \in {"dir", "file"}
        BY <1>4, <3>1
      <4> QED
        BY <3>1, <4>1 DEF Row
    <3>2. CASE Clash(p)
      BY <3>2 DEF Row
    <3>3. CASE Stays(p)
      BY <1>2, <3>3
    <3>4. CASE Goes(p)
      BY <3>4 DEF NoRow
    <3> QED
      BY <1>8, <3>1, <3>2, <3>3, <3>4
  <2>3. rows' \in [Paths -> [kind : {"absent", "dir", "file"},
                           state : {"none", "dirty", "clean", "evicted", "conflict"}]]
    <3>1. rows' = [p \in Paths |-> rows'[p]]
      BY DEF PullMerge
    <3> QED
      BY <2>2, <3>1
  <2> QED
    BY <1>1, <1>2, <1>3, <2>1, <2>3 DEF Typed, TypeOK
<1>11. Waiting' = Waiting
  BY <1>1, <1>10 DEF Waiting, WaitingOf, OpsOf
<1>12. Planned' /\ LeftIsGone' /\ Ids' /\ Proper(user')
  BY <1>1, <1>9, <1>11 DEF NameInv, Planned, Reaches, LeftIsGone, Ids
<1>13. RowsFit'
  <2>1. ASSUME NEW p \in Paths
        PROVE  /\ rows'[p].kind = "absent" => rows'[p] = NoRow
               /\ Dirty(p)' => user[p].kind = "file"
               /\ rows'[p].kind # "absent" /\ user[p] # Absent => rows'[p].kind = user[p].kind
    <3>1. /\ rows[p].kind = "absent" => rows[p] = NoRow
          /\ Dirty(p) => user[p].kind = "file"
          /\ rows[p].kind # "absent" /\ user[p] # Absent => rows[p].kind = user[p].kind
      BY DEF NameInv, RowsFit
    <3>2. CASE New(p)
      <4>1. user[p] # Absent => tree[p] = user[p]
        BY <3>2, RemoteKnows
      <4> QED
        BY <1>4, <1>9, <3>1, <3>2, <4>1 DEF Row
    <3>3. CASE Clash(p)
      BY <1>9, <3>1, <3>3 DEF Row
    <3>4. CASE Stays(p)
      BY <1>9, <3>1, <3>4
    <3>5. CASE Goes(p)
      BY <1>9, <3>1, <3>5 DEF NoRow
    <3> QED
      BY <1>8, <3>2, <3>3, <3>4, <3>5
  <2> QED
    BY <1>1, <2>1 DEF RowsFit
<1>14. HasFile'
  <2>1. ASSUME NEW p \in Paths, user[p].kind = "file", rows'[p].state \in {"clean", "dirty"}
        PROVE  disk'[p] = user[p]
    <3>1. Stays(p)
      <4>1. ~New(p) /\ ~Clash(p) /\ ~Goes(p)
        BY <2>1 DEF Row, NoRow
      <4> QED
        BY <1>8, <4>1
    <3> QED
      BY <1>6, <2>1, <3>1 DEF NameInv, HasFile
  <2> QED
    BY <1>1, <2>1 DEF HasFile
<1>15. PutPhase' /\ MergePhase' /\ ReplayPhase'
  BY <1>10 DEF PutPhase, MergePhase, ReplayPhase
<1> QED
  BY <1>10, <1>12, <1>13, <1>14, <1>15 DEF NameInv

-----------------------------------------------------------------------------
(* The invariant holds, and what follows from it.                          *)

\* The mount starts with a directory and a file in it.
LEMMA InitInv ==
    Init => NameInv
<1> SUFFICES ASSUME Init PROVE NameInv
  OBVIOUS
<1>1. PICK d \in {p \in Paths : Len(p) = 1}, f \in {p \in Paths : Len(p) = 2} :
         /\ Below(d, f)
         /\ tree = [p \in Paths |-> IF p = d THEN Dir ELSE IF p = f THEN Remote!File(0) ELSE Absent]
  BY DEF Init
<1>2. /\ rows = [p \in Paths |-> IF tree[p] = Absent THEN NoRow ELSE Row(tree[p].kind, "evicted")]
      /\ disk = [p \in Paths |-> Absent]
      /\ ops = <<>> /\ user = tree /\ w = Idle /\ used = 0 /\ faults = 0
  BY DEF Init
<1>3. /\ d \in Paths /\ f \in Paths /\ Len(d) = 1 /\ Len(f) = 2 /\ d # f /\ Under(d, f)
      /\ MaxOps \in Nat /\ MaxFaults \in Nat
  BY <1>1, NamespaceAssumption DEF Below
<1>4. Remote!File(0) \in Node /\ Remote!File(0).kind = "file"
  BY <1>3 DEF Node, Vers, Remote!File
<1>5. tree \in Trees /\ user \in Trees /\ disk \in Trees
  BY <1>1, <1>2, <1>4, DirIsThere DEF Trees, Node
<1>6. \A p \in Paths : tree[p] \in Node /\ tree[p].kind \in {"absent", "dir", "file"}
  <2>1. ASSUME NEW p \in Paths PROVE tree[p] \in Node /\ tree[p].kind \in {"absent", "dir", "file"}
    <3>1. tree[p] \in Node
      BY <1>5 DEF Trees, Node
    <3> QED
      BY <3>1, NodeKinds
  <2> QED
    BY <2>1
<1>7. Typed
  <2>1. rows \in [Paths -> [kind : {"absent", "dir", "file"},
                           state : {"none", "dirty", "clean", "evicted", "conflict"}]]
    BY <1>2, <1>6 DEF Row, NoRow
  <2> QED
    BY <1>2, <1>3, <1>5, <2>1 DEF Typed, TypeOK, Idle
<1>8. Proper(tree)
  <2>1. ASSUME NEW q \in Paths, tree[q] # Absent, NEW r \in Paths, Below(r, q) PROVE tree[r] = Dir
    <3>1. q = d \/ q = f
      BY <1>1, <2>1
    <3>2. r \in Names /\ d \in Names /\ f \in Names /\ q \in Names /\ r # <<>>
      BY <1>3, PathNames
    <3>3. Len(r) \in Nat /\ Len(q) \in Nat /\ Len(r) # 0 /\ Len(r) <= Len(q)
      BY <2>1, <3>2, UnderNames DEF Names, Below
    <3>4. \A i \in 1..Len(r) : q[i] = r[i]
      BY <2>1, <3>2, UnderNames DEF Below
    <3>5. Len(r) # Len(q)
      BY <2>1, <3>2, <3>4 DEF Names, Below
    <3>6. Len(q) = 1 \/ (q = f /\ Len(q) = 2)
      BY <1>3, <3>1
    <3>7. q = f /\ Len(r) = 1
      <4>1. ASSUME NEW m \in Nat, NEW n \in Nat, m # 0, m <= n, m # n, n = 1 \/ n = 2
            PROVE  n = 2 /\ m = 1
        BY <4>1
      <4>2. Len(q) = 2 /\ Len(r) = 1
        BY <3>3, <3>5, <3>6, <4>1
      <4> QED
        BY <3>6, <4>2
    <3>8. 1 \in 1..Len(r) /\ 1 \in 1..Len(d)
      BY <1>3, <3>7
    <3>9. f[1] = r[1]
      BY <3>4, <3>7, <3>8
    <3>10. f[1] = d[1]
      BY <1>3, <3>2, <3>8, UnderNames
    <3>11. r = d
      <4>1. Len(r) = Len(d) /\ \A i \in 1..Len(r) : r[i] = d[i]
        <5>1. \A i \in 1..Len(r) : i = 1
          BY <3>7
        <5> QED
          BY <1>3, <3>7, <3>9, <3>10, <5>1
      <4> QED
        BY <3>2, <4>1 DEF Names
    <3> QED
      BY <1>1, <1>3, <3>11
  <2> QED
    BY <2>1 DEF Proper
<1>9. Waiting = {} /\ Ids /\ w.pc = "upload"
  BY <1>2 DEF Waiting, WaitingOf, OpsOf, Ids, Idle
<1>10. \A p \in Paths : ~Dirty(p)
  BY <1>2 DEF Dirty, Row, NoRow
<1>11. Planned
  <2> DEFINE G == [k \in 0..0 |-> tree]
  <2>1. Chain(Waiting, used, G, tree)
    BY <1>2, <1>5, <1>8, <1>9 DEF Chain
  <2>2. Reaches(G[used])
    BY <1>2, <1>10 DEF Reaches
  <2> QED
    BY <2>1, <2>2 DEF Planned
<1>12. LeftIsGone /\ Proper(user) /\ PutPhase /\ MergePhase /\ ReplayPhase
  BY <1>2, <1>8, <1>9 DEF LeftIsGone, PutPhase, MergePhase, ReplayPhase
<1>13. RowsFit /\ HasFile
  <2>1. ASSUME NEW p \in Paths
        PROVE  /\ rows[p].kind = "absent" => rows[p] = NoRow
               /\ rows[p].kind # "absent" /\ user[p] # Absent => rows[p].kind = user[p].kind
               /\ rows[p].state \notin {"clean", "dirty"}
    <3>1. rows[p] = IF tree[p] = Absent THEN NoRow ELSE Row(tree[p].kind, "evicted")
      BY <1>2
    <3>2. tree[p] # Absent => tree[p].kind # "absent"
      BY <1>6, NodeKinds
    <3> QED
      BY <1>2, <3>1, <3>2 DEF Row, NoRow
  <2> QED
    BY <1>10, <2>1 DEF RowsFit, HasFile
<1> QED
  BY <1>7, <1>9, <1>11, <1>12, <1>13 DEF NameInv

\* Every step keeps the invariant.
LEMMA NameStep ==
    ASSUME Admits = {}, NameInv, [Next]_vars
    PROVE  NameInv'
<1>1. CASE User
  BY <1>1, CreateStep, MkdirStep, UnlinkStep, RmdirStep, ReadStep, RenameStep DEF User
<1>2. CASE Engine
  BY <1>2, UploadDirtyStep, ProcessStep, OpFailsStep, OpAppliedStep, OpCompletesStep,
     PullStep, PullMergeStep, CycleEndsStep, UploadFileStep, PullListStep DEF Engine
<1>3. CASE Crash
  BY <1>3, CrashStep
<1>4. CASE UNCHANGED vars
  <2>1. UNCHANGED <<tree, rows, disk, ops, user, w, used, faults>>
    BY <1>4 DEF vars
  <2>2. Waiting' = Waiting
    BY <2>1 DEF Waiting, WaitingOf, OpsOf
  <2>3. \A p \in Paths : Dirty(p)' <=> Dirty(p)
    BY <2>1 DEF Dirty
  <2>4. Planned' /\ LeftIsGone' /\ Ids' /\ Proper(user')
    BY <2>1, <2>2, <2>3 DEF NameInv, Planned, Reaches, LeftIsGone, Ids
  <2>5. Typed' /\ RowsFit' /\ HasFile'
    BY <2>1, <2>3 DEF NameInv, Typed, TypeOK, RowsFit, HasFile
  <2>6. PutPhase'
    <3>1. w'.pc = "put" => \A p \in w'.files : p \in Paths /\ Dirty(p)
      BY <2>1 DEF NameInv, PutPhase, Typed, TypeOK
    <3> QED
      BY <2>3, <3>1 DEF PutPhase
  <2>8. MergePhase'
    BY <2>1 DEF NameInv, MergePhase, Children
  <2>7. ReplayPhase'
    BY <2>1, <2>2 DEF NameInv, ReplayPhase
  <2> QED
    BY <2>4, <2>5, <2>6, <2>7, <2>8 DEF NameInv
<1> QED
  BY <1>1, <1>2, <1>3, <1>4 DEF Next

\* The rows, the disk, the remote and the queue stay of their types.
THEOREM NamespaceTypes ==
    ASSUME Admits = {}
    PROVE  Spec => []TypeOK
<1>1. Init => NameInv
  BY InitInv
<1>2. NameInv /\ [Next]_vars => NameInv'
  BY NameStep
<1>3. NameInv => TypeOK
  BY DEF NameInv, Typed
<1> QED
  BY <1>1, <1>2, <1>3, PTL DEF Spec

\* A file that is not evicted is on the disk whenever a lookup finds it
\* (node.go: Open), whatever the user, the engine and crashes do.
THEOREM RowsHaveTheirFiles ==
    ASSUME Admits = {}
    PROVE  Spec => []RowHasFile
<1>1. Init => NameInv
  BY InitInv
<1>2. NameInv /\ [Next]_vars => NameInv'
  BY NameStep
<1>3. NameInv => RowHasFile
  BY DEF NameInv, HasFile, RowHasFile
<1> QED
  BY <1>1, <1>2, <1>3, PTL DEF Spec

\* What the user has in the tree is on the disk or on the remote: a file that
\* is not uploaded is on the disk, and any other is in the tree that the queue
\* makes of the remote, which has no file that the remote does not have.
THEOREM NothingIsLost ==
    ASSUME Admits = {}
    PROVE  Spec => []NothingLost
<1>1. Init => NameInv
  BY InitInv
<1>2. NameInv /\ [Next]_vars => NameInv'
  BY NameStep
<1>3. ASSUME NameInv, NEW p \in Paths, user[p].kind = "file"
      PROVE  \E q \in Paths : disk[q] = user[p] \/ tree[q] = user[p]
  <2>1. PICK G : Chain(Waiting, used, G, tree) /\ Reaches(G[used])
    BY <1>3 DEF NameInv, Planned
  <2>2. Waiting \in SUBSET OpSet /\ used \in Nat
    BY <1>3, Types DEF NameInv
  <2>3. CASE Dirty(p)
    <3>1. disk[p] = user[p]
      BY <1>3, <2>3 DEF NameInv, HasFile, Dirty, Row
    <3> QED
      BY <3>1
  <2>4. CASE ~Dirty(p)
    <3>1. G[used][p] = user[p]
      BY <2>1, <2>4 DEF Reaches
    <3>2. \E q \in Paths : tree[q] = G[used][p]
      BY <1>3, <2>1, <2>2, <3>1, ChainFiles
    <3> QED
      BY <3>1, <3>2
  <2> QED
    BY <2>3, <2>4
<1>4. NameInv => NothingLost
  BY <1>3 DEF NothingLost
<1> QED
  BY <1>1, <1>2, <1>4, PTL DEF Spec
=============================================================================
