--------------------------- MODULE DriveIdsProofs ---------------------------
(***************************************************************************)
(* Proofs about the Drive adapter, for any set of paths, identifiers and   *)
(* goroutines: the table of identifiers is exact, every request reaches    *)
(* the object at the path of its call, and the adapter implements the tree *)
(* of paths of RemoteTree.                                                 *)
(***************************************************************************)
EXTENDS DriveIds, FiniteSetTheorems, SequenceTheorems, TLAPS

\* What the theorems leave out of Circumstances. A name in use ("onto") and
\* a failing lookup in Put ("blindput") only make two objects of one name.
Quiet == {"race", "lost", "dirmove", "peer"} \cap Admits = {}

\* The root folder has a key of its own in the table.
OwnKey == <<RootName>> \notin Paths

\* The names of files and directories, and the places they make.
Names  == {Name(p) : p \in Paths}
Places == {<<n>> : n \in Names} \cup {<<m, n>> : m \in Names, n \in Names}

-----------------------------------------------------------------------------
(* Paths.                                                                  *)

\* A sequence of length one is a tuple of its element.
LEMMA OneLong ==
    ASSUME NEW S, NEW s \in Seq(S), Len(s) = 1
    PROVE  s = <<s[1]>>
<1>1. <<s[1]>> \in Seq(S) /\ Len(<<s[1]>>) = 1 /\ \A i \in 1..1 : s[i] = <<s[1]>>[i]
  OBVIOUS
<1> QED
  BY <1>1, SeqEqual

\* A sequence of length two is a tuple of its elements.
LEMMA TwoLong ==
    ASSUME NEW S, NEW s \in Seq(S), Len(s) = 2
    PROVE  s = <<s[1], s[2]>>
<1> DEFINE t == <<s[1], s[2]>>
<1>1. t \in Seq(S) /\ Len(t) = 2 /\ t[1] = s[1] /\ t[2] = s[2]
  <2>1. s[1] \in S /\ s[2] \in S
    BY ElementOfSeq
  <2> QED
    BY <2>1
<1> HIDE DEF t
<1>2. \A i \in 1..Len(s) : s[i] = t[i]
  <2> SUFFICES ASSUME NEW i \in 1..Len(s) PROVE s[i] = t[i]
    OBVIOUS
  <2>1. i = 1 \/ i = 2
    OBVIOUS
  <2> QED
    BY <1>1, <2>1
<1>3. s = t
  BY <1>1, <1>2, SeqEqual
<1> QED
  BY <1>3 DEF t

\* Prefixes and extensions of the paths in use.
LEMMA TupleFacts ==
    ASSUME NEW x, NEW y
    PROVE  /\ <<x>> # <<>> /\ Len(<<x>>) = 1 /\ <<x, y>> # <<>> /\ Len(<<x, y>>) = 2 /\ <<x>> # <<x, y>>
           /\ SubSeq(<<x>>, 1, 0) = <<>> /\ SubSeq(<<x, y>>, 1, 0) = <<>>
           /\ SubSeq(<<x>>, 1, 1) = <<x>> /\ SubSeq(<<x, y>>, 1, 1) = <<x>>
           /\ SubSeq(<<x, y>>, 1, 2) = <<x, y>>
           /\ Append(<<>>, x) = <<x>> /\ Append(<<x>>, y) = <<x, y>>
<1>1. SubSeq(<<x>>, 1, 1) = <<x>>
  <2>1. /\ SubSeq(<<x>>, 1, 1) \in Seq({x}) /\ Len(SubSeq(<<x>>, 1, 1)) = 1
        /\ SubSeq(<<x>>, 1, 1)[1] = x
    BY SubSeqProperties
  <2> QED
    BY <2>1, OneLong
<1>2. SubSeq(<<x, y>>, 1, 1) = <<x>>
  <2>1. /\ SubSeq(<<x, y>>, 1, 1) \in Seq({x, y}) /\ Len(SubSeq(<<x, y>>, 1, 1)) = 1
        /\ SubSeq(<<x, y>>, 1, 1)[1] = x
    BY SubSeqProperties
  <2> QED
    BY <2>1, OneLong
<1>3. SubSeq(<<x, y>>, 1, 2) = <<x, y>>
  <2>1. /\ SubSeq(<<x, y>>, 1, 2) \in Seq({x, y}) /\ Len(SubSeq(<<x, y>>, 1, 2)) = 2
        /\ SubSeq(<<x, y>>, 1, 2)[1] = x /\ SubSeq(<<x, y>>, 1, 2)[2] = y
    BY SubSeqProperties
  <2> QED
    BY <2>1, TwoLong
<1>4. Append(<<x>>, y) = <<x, y>>
  <2>1. /\ Append(<<x>>, y) \in Seq({x, y}) /\ Len(Append(<<x>>, y)) = 2
        /\ Append(<<x>>, y)[1] = x /\ Append(<<x>>, y)[2] = y
    OBVIOUS
  <2> QED
    BY <2>1, TwoLong
<1>5. SubSeq(<<x>>, 1, 0) = <<>> /\ SubSeq(<<x, y>>, 1, 0) = <<>>
  BY SubSeqEmpty
<1>6. /\ <<x>> # <<>> /\ Len(<<x>>) = 1 /\ <<x, y>> # <<>> /\ Len(<<x, y>>) = 2 /\ <<x>> # <<x, y>>
      /\ Append(<<>>, x) = <<x>>
  OBVIOUS
<1> QED
  BY <1>1, <1>2, <1>3, <1>4, <1>5, <1>6

\* A place has one or two names.
LEMMA PlaceShape ==
    \A p \in Places : p = <<p[1]>> \/ p = <<p[1], p[2]>>
<1> SUFFICES ASSUME NEW p \in Places PROVE p = <<p[1]>> \/ p = <<p[1], p[2]>>
  OBVIOUS
<1> QED
  BY DEF Places

\* Paths are places, and the directory of a path is a path.
LEMMA PathShape ==
    /\ Paths \subseteq Places
    /\ \A p \in Paths : p = <<p[1]>> \/ p = <<p[1], p[2]>>
    /\ \A p \in Paths : <<p[1]>> \in Paths
    /\ \A p \in Paths : p # <<>> /\ Name(p) \in Names
<1>1. ASSUME NEW p \in Paths, p = <<p[1]>>
      PROVE  Name(p) = p[1] /\ p # <<>>
  BY <1>1, TupleFacts DEF Name
<1>2. ASSUME NEW p \in Paths, p = <<p[1], p[2]>>
      PROVE  Name(p) = p[2] /\ p # <<>>
  BY <1>2, TupleFacts DEF Name
<1>3. \A p \in Paths : p = <<p[1]>> \/ (p = <<p[1], p[2]>> /\ <<p[1]>> \in Paths)
  BY DriveAssumption
<1>4. \A p \in Paths : p # <<>> /\ Name(p) \in Names
  BY <1>1, <1>2, <1>3 DEF Names
<1>5. \A p \in Paths : <<p[1]>> \in Paths
  BY <1>3
<1>6. ASSUME NEW p \in Paths
      PROVE  p \in Places
  <2>1. p[1] \in Names
    <3>1. <<p[1]>> \in Paths
      BY <1>5
    <3>2. <<p[1]>>[1] = p[1]
      OBVIOUS
    <3> QED
      BY <1>1, <1>4, <3>1, <3>2
  <2>2. CASE p = <<p[1]>>
    BY <2>1, <2>2 DEF Places
  <2>3. CASE p = <<p[1], p[2]>>
    BY <1>2, <1>4, <2>1, <2>3 DEF Places
  <2> QED
    BY <1>3, <2>2, <2>3
<1> QED
  BY <1>3, <1>4, <1>5, <1>6

\* What Under means for paths of at most two names.
LEMMA UnderMeans ==
    ASSUME NEW p \in Places \cup {<<>>}, NEW q \in Places \cup {<<>>}
    PROVE  Under(p, q) <=> p = <<>> \/ (q # <<>> /\ p = <<q[1]>>) \/ p = q
<1>1. CASE q = <<>>
  <2>1. Len(q) = 0
    BY <1>1
  <2>2. CASE p = <<>>
    BY <1>1, <2>2, SubSeqEmpty DEF Under
  <2>3. CASE p \in Places
    BY <1>1, <2>1, <2>3, PlaceShape, TupleFacts DEF Under
  <2> QED
    BY <2>2, <2>3
<1>2. CASE q \in Places /\ p = <<>>
  BY <1>2, SubSeqEmpty DEF Under
<1>3. CASE q \in Places /\ p \in Places
  <2>1. ASSUME NEW x, NEW y, p = <<x>>, q = <<y>>
        PROVE  Under(p, q) <=> p = <<q[1]>> \/ p = q
    <3>1. Under(<<x>>, <<y>>) <=> <<y>> = <<x>>
      <4>1. Len(<<x>>) = 1 /\ Len(<<y>>) = 1 /\ 1 <= 1
        OBVIOUS
      <4>2. SubSeq(<<y>>, 1, 1) = <<y>>
        BY TupleFacts
      <4> QED
        BY <4>1, <4>2, Zenon DEF Under
    <3> QED
      BY <2>1, <3>1
  <2>2. ASSUME NEW x, NEW y, NEW z, p = <<x>>, q = <<y, z>>
        PROVE  Under(p, q) <=> p = <<q[1]>> \/ p = q
    <3>1. Under(<<x>>, <<y, z>>) <=> <<y>> = <<x>>
      <4>1. Len(<<x>>) = 1 /\ Len(<<y, z>>) = 2 /\ 1 <= 2
        OBVIOUS
      <4>2. SubSeq(<<y, z>>, 1, 1) = <<y>>
        BY TupleFacts
      <4> QED
        BY <4>1, <4>2, Zenon DEF Under
    <3> QED
      BY <2>2, <3>1
  <2>3. ASSUME NEW x, NEW y, NEW z, p = <<x, y>>, q = <<z>>
        PROVE  Under(p, q) <=> p = <<q[1]>> \/ p = q
    <3>1. ~Under(p, q) /\ Len(p) = 2 /\ Len(q) = 1 /\ Len(<<q[1]>>) = 1
      BY <2>3, TupleFacts DEF Under
    <3> QED
      BY <3>1
  <2>4. ASSUME NEW x, NEW y, NEW z, NEW w, p = <<x, y>>, q = <<z, w>>
        PROVE  Under(p, q) <=> p = <<q[1]>> \/ p = q
    <3>1. Under(<<x, y>>, <<z, w>>) <=> <<z, w>> = <<x, y>>
      <4>1. Len(<<x, y>>) = 2 /\ Len(<<z, w>>) = 2 /\ 2 <= 2
        OBVIOUS
      <4>2. SubSeq(<<z, w>>, 1, 2) = <<z, w>>
        BY TupleFacts
      <4> QED
        BY <4>1, <4>2, Zenon DEF Under
    <3>2. Len(p) = 2 /\ Len(<<q[1]>>) = 1
      BY <2>4, TupleFacts
    <3> QED
      BY <2>4, <3>1, <3>2
  <2> QED
    BY <1>3, <2>1, <2>2, <2>3, <2>4, PlaceShape, TupleFacts
<1> QED
  BY <1>1, <1>2, <1>3

\* Under is an order in which the paths above a path form a chain.
LEMMA UnderOrder ==
    ASSUME NEW p \in Places \cup {<<>>}, NEW q \in Places \cup {<<>>}, NEW r \in Places \cup {<<>>}
    PROVE  /\ Under(p, p) /\ Under(<<>>, p)
           /\ Under(p, q) /\ Under(q, r) => Under(p, r)
           /\ Under(p, r) /\ Under(q, r) => Under(p, q) \/ Under(q, p)
           /\ Under(p, q) /\ Under(q, p) => p = q
<1>1. \A x : <<x>>[1] = x /\ <<x>> # <<>>
  OBVIOUS
<1>2. <<>> \in Places \cup {<<>>}
  OBVIOUS
<1> QED
  BY <1>1, <1>2, UnderMeans

\* The parent of a path is the root or a path above it, and the path is its
\* parent with the name added.
LEMMA ParentFacts ==
    ASSUME NEW p \in Paths
    PROVE  /\ Parent(p) \in Paths \cup {<<>>} /\ Under(Parent(p), p)
           /\ p = <<p[1]>> => Parent(p) = <<>> /\ Name(p) = p[1] /\ Len(p) = 1
           /\ p = <<p[1], p[2]>> => Parent(p) = <<p[1]>> /\ Name(p) = p[2] /\ Len(p) = 2
<1>1. ASSUME NEW x, p = <<x>>
      PROVE  Parent(p) = <<>> /\ Name(p) = p[1] /\ Len(p) = 1
  BY <1>1, TupleFacts DEF Parent, Name
<1>2. ASSUME NEW x, NEW y, p = <<x, y>>
      PROVE  Parent(p) = <<p[1]>> /\ Name(p) = p[2] /\ Len(p) = 2
  <2>1. Parent(<<x, y>>) = <<x>> /\ Name(<<x, y>>) = y /\ Len(<<x, y>>) = 2
    <3>1. Len(<<x, y>>) = 2 /\ 2 - 1 = 1 /\ <<x, y>>[2] = y
      OBVIOUS
    <3> QED
      BY <3>1, TupleFacts, Zenon DEF Parent, Name
  <2> QED
    BY <1>2, <2>1
<1>3. Parent(p) = <<>> \/ Parent(p) = <<p[1]>>
  BY <1>1, <1>2, PathShape
<1>4. Parent(p) \in Paths \cup {<<>>}
  BY <1>3, PathShape
<1>5. Under(Parent(p), p)
  BY <1>3, <1>4, PathShape, UnderMeans
<1> QED
  BY <1>1, <1>2, <1>4, <1>5

\* The numbers of segments.
LEMMA OneOrTwo ==
    \A n \in 1..2 : (n = 1 /\ n - 1 = 0) \/ (n = 2 /\ n - 1 = 1)
OBVIOUS

\* The segments that a walk goes through.
LEMMA SegmentFacts ==
    ASSUME NEW p \in Paths, NEW n \in 1..Len(p)
    PROVE  /\ Len(p) \in 1..2
           /\ SubSeq(p, 1, n) \in Paths /\ Under(SubSeq(p, 1, n), p)
           /\ n = Len(p) => SubSeq(p, 1, n) = p
           /\ n = 1 => SubSeq(p, 1, n - 1) = <<>> /\ SubSeq(p, 1, n) = <<p[n]>>
           /\ n # 1 => /\ n = 2 /\ n = Len(p) /\ SubSeq(p, 1, n - 1) = <<p[1]>>
                       /\ SubSeq(p, 1, n) = <<p[1], p[n]>>
<1> DEFINE Goal ==
           /\ Len(p) \in 1..2
           /\ SubSeq(p, 1, n) \in Paths /\ Under(SubSeq(p, 1, n), p)
           /\ n = Len(p) => SubSeq(p, 1, n) = p
           /\ n = 1 => SubSeq(p, 1, n - 1) = <<>> /\ SubSeq(p, 1, n) = <<p[n]>>
           /\ n # 1 => /\ n = 2 /\ n = Len(p) /\ SubSeq(p, 1, n - 1) = <<p[1]>>
                       /\ SubSeq(p, 1, n) = <<p[1], p[n]>>
<1>1. p # <<>> /\ <<p[1]>> \in Paths /\ Paths \subseteq Places
  BY PathShape
<1>2. Under(p, p) /\ Under(<<p[1]>>, p)
  BY <1>1, UnderMeans
<1>3. ASSUME NEW x, p = <<x>>
      PROVE  /\ Len(p) = 1 /\ n = 1 /\ n - 1 = 0 /\ p = <<p[1]>>
             /\ SubSeq(p, 1, 1) = p /\ SubSeq(p, 1, 0) = <<>>
  <2>1. Len(p) = 1 /\ p[1] = x
    BY <1>3
  <2>2. SubSeq(p, 1, 1) = p /\ SubSeq(p, 1, 0) = <<>>
    BY <1>3, TupleFacts, Zenon
  <2> QED
    BY <1>3, <2>1, <2>2
<1>4. ASSUME NEW x, NEW y, p = <<x, y>>
      PROVE  /\ Len(p) = 2 /\ ((n = 1 /\ n - 1 = 0) \/ (n = 2 /\ n - 1 = 1))
             /\ p = <<p[1], p[2]>>
             /\ SubSeq(p, 1, 2) = p /\ SubSeq(p, 1, 1) = <<p[1]>> /\ SubSeq(p, 1, 0) = <<>>
  <2>1. Len(p) = 2 /\ p[1] = x /\ p[2] = y
    BY <1>4
  <2>2. SubSeq(p, 1, 2) = p /\ SubSeq(p, 1, 1) = <<x>> /\ SubSeq(p, 1, 0) = <<>>
    BY <1>4, TupleFacts, Zenon
  <2>3. (n = 1 /\ n - 1 = 0) \/ (n = 2 /\ n - 1 = 1)
    <3>1. n \in 1..2
      BY <2>1, Zenon
    <3> QED
      BY <3>1, OneOrTwo, Zenon
  <2> QED
    BY <1>4, <2>1, <2>2, <2>3
<1>5. 1 # 2 /\ 1 \in 1..2 /\ 2 \in 1..2
  OBVIOUS
<1>6. (\E x : p = <<x>>) \/ (\E x, y : p = <<x, y>>)
  BY PathShape
<1>7. ASSUME NEW x, p = <<x>>
      PROVE  Goal
  BY <1>1, <1>2, <1>3, <1>5, <1>7, Zenon
<1>8. ASSUME NEW x, NEW y, p = <<x, y>>
      PROVE  Goal
  BY <1>1, <1>2, <1>4, <1>5, <1>8, ZenonT(30)
<1> QED
  BY <1>6, <1>7, <1>8

\* The entries of a listing are places below the directory.
LEMMA EntryFacts ==
    ASSUME NEW p, p = <<>> \/ (p \in Paths /\ p = <<p[1]>>), NEW n \in Names
    PROVE  /\ Append(p, n) \in Places /\ Under(p, Append(p, n))
           /\ p = <<>> => Append(p, n) = <<n>>
           /\ p # <<>> => Append(p, n) = <<p[1], n>>
<1>1. CASE p = <<>>
  <2>1. Append(p, n) = <<n>> /\ <<n>> \in Places
    BY <1>1, TupleFacts DEF Places
  <2> QED
    BY <1>1, <2>1, UnderOrder
<1>2. CASE p \in Paths /\ p = <<p[1]>>
  <2>1. p # <<>> /\ p \in Places /\ p[1] \in Names
    BY <1>2, PathShape, ParentFacts
  <2>3. Append(p, n) = <<p[1], n>>
    <3>1. PICK x : p = <<x>>
      BY <1>2
    <3> QED
      BY <3>1, TupleFacts
  <2>2. <<p[1], n>> \in Places /\ <<p[1], n>> # <<>> /\ <<p[1], n>>[1] = p[1]
    BY <2>1 DEF Places
  <2> QED
    BY <1>2, <2>1, <2>2, <2>3, UnderMeans
<1> QED
  BY <1>1, <1>2

-----------------------------------------------------------------------------
(* What holds between two steps.                                           *)

\* How far a walk is.
Segs == 0..2

\* The calls that Go's types allow.
Calls == [op : {"none", "get", "list", "put", "mkdir", "delete", "rename"},
          path : Paths \cup {<<>>}, dst : Paths \cup {<<>>}, ver : Vers \cup {None},
          pc : {"idle", "resolve", "walk", "store", "parents", "api", "unmap", "map", "listed"},
          want : Paths \cup {<<>>}, seg : Segs,
          at : Ids \cup {None, Top}, id : Ids \cup {None, Top}, par : Ids \cup {None, Top},
          todo : SUBSET Ids]

\* Types, and a root folder that keeps its identifier.
Typed ==
    /\ obj \in [Ids -> Object \cup {Unused, Gone}]
    /\ ids \in [Keys -> Ids \cup {None, Top}] /\ ids[<<RootName>>] = Top
    /\ rootID = Top
    /\ call \in [Callers -> Calls]

\* Object i is neither unused nor deleted.
Live(i) == i \in Ids /\ obj[i].kind \in {"file", "dir"}

\* Every object is in the root folder or in a folder of the root folder, and
\* those in the root folder have a path of the table.
DriveShape ==
    \A i \in Ids : Live(i) =>
        \/ obj[i].parent = Top /\ <<obj[i].name>> \in Paths
        \/ /\ obj[i].parent \in Ids /\ obj[obj[i].parent].kind = "dir"
           /\ obj[obj[i].parent].parent = Top

\* Object i is at place p, read from the object to the root.
Sits(i, p) ==
    /\ Live(i)
    /\ \/ obj[i].parent = Top /\ p = <<obj[i].name>>
       \/ /\ obj[i].parent \in Ids /\ obj[obj[i].parent].kind = "dir"
          /\ obj[obj[i].parent].parent = Top
          /\ p = <<obj[obj[i].parent].name, obj[i].name>>

\* Sits, with the root folder at the empty path.
Spot(p, i) == IF p = <<>> THEN i = Top ELSE Sits(i, p)

\* The points of a call within a lookup, and those before its request.
Looks == {"resolve", "walk", "store"}
Early == Looks \cup {"parents", "api"}

\* The path under which the object of a call is after it.
Target(k) == IF k.op = "rename" THEN k.dst ELSE k.path

\* What a lookup of call k is for.
Wanted(k) ==
    IF k.op = "rename" THEN (IF k.id = None THEN k.path ELSE Parent(k.dst))
    ELSE IF k.op = "mkdir" \/ (k.op = "put" /\ k.par = None) THEN Parent(k.path)
    ELSE k.path

\* The stages of a call.
Stage(k) ==
    /\ k.op = "none" <=> k.pc = "idle"
    /\ k.op \notin {"none", "list"} => k.path \in Paths
    /\ k.op = "list" => k.path = <<>> \/ (k.path \in Paths /\ k.path = <<k.path[1]>>)
    /\ k.op = "rename" => k.dst \in Paths /\ ~Under(k.path, k.dst) /\ ~Under(k.dst, k.path)
    /\ k.op = "put" => k.ver \in Vers
    /\ k.pc \in Looks => k.want = Wanted(k)
    /\ k.pc = "parents" => k.op = "rename"
    /\ k.pc = "listed" => k.op = "list"
    /\ k.pc = "unmap" => Removes(k.op)
    /\ k.pc = "map" => k.op \in {"mkdir", "rename"}

\* A walk stands at an object of the segments behind it.
WalkFine(k) ==
    k.pc \in {"walk", "store"} =>
        /\ k.want # <<>> /\ k.seg \in 1..Len(k.want)
        /\ k.pc = "walk" => Spot(SubSeq(k.want, 1, k.seg - 1), k.at)
        /\ k.pc = "store" => Sits(k.at, SubSeq(k.want, 1, k.seg))

\* The identifiers that a call holds are at the paths it means.
HeldFine(k) ==
    /\ k.pc \in Early /\ k.id # None => Spot(k.path, k.id)
    /\ k.pc \in {"parents", "api"} /\ k.op \notin {"put", "mkdir"} => k.id # None
    /\ k.pc \in Early /\ k.par # None => Spot(Parent(Target(k)), k.par)
    /\ k.pc = "api" /\ k.op \in {"put", "mkdir", "rename"} => k.par # None
    /\ k.par # None => k.op \in {"put", "mkdir", "rename"}
    /\ k.pc = "map" \/ (k.pc = "unmap" /\ k.op = "rename") => Sits(k.id, Target(k))
    /\ k.pc = "listed" => \A j \in k.todo : Sits(j, Append(k.path, obj[j].name))

\* No object is below place p.
Bare(p) == \A i \in Ids, q \in Places : Sits(i, q) /\ Under(p, q) => q = p

\* The table has no rows below what a call removes, and what moves down a
\* level is empty.
RemovalFine(k) ==
    k.pc \in Early /\ Removes(k.op) =>
        /\ \A q \in Paths : Under(k.path, q) /\ q # k.path => ids[q] = None
        /\ k.op = "rename" /\ Len(k.dst) = 2 => Bare(k.path)

\* What holds of a call between two steps.
CallFine(c) ==
    Stage(call[c]) /\ WalkFine(call[c]) /\ HeldFine(call[c]) /\ RemovalFine(call[c])

\* The paths that a call is about.
Ends(k) == {k.path, Target(k)}

\* Two calls of which one removes, or both change, have paths apart.
Apart(k, l) ==
    /\ k.op # "none" /\ l.op # "none"
    /\ Removes(k.op) \/ Removes(l.op) \/ (Changes(k.op) /\ Changes(l.op))
    => \A p \in Ends(k), q \in Ends(l) : ~Under(p, q) /\ ~Under(q, p)

\* A row is empty, names the object at its path or is about to be dropped.
RowFine(p) ==
    \/ ids[p] = None \/ Sits(ids[p], p)
    \/ \E c \in Callers : call[c].pc = "unmap" /\ call[c].path = p

\* The inductive invariant.
DriveInv ==
    /\ Typed /\ DriveShape
    /\ \A c \in Callers : CallFine(c)
    /\ \A c, e \in Callers : c # e => Apart(call[c], call[e])
    /\ \A p \in Paths : RowFine(p)

-----------------------------------------------------------------------------
(* Objects and places.                                                     *)

\* Top and None are no identifiers.
LEMMA NotIds == Top \notin Ids /\ None \notin Ids /\ Top # None
BY DriveAssumption DEF Top, None

\* The kinds of objects.
LEMMA Objects ==
    ASSUME Typed, NEW i \in Ids
    PROVE  /\ obj[i].kind \in {"file", "dir", "unused", "gone"}
           /\ Exists(i) <=> Live(i)
           /\ Live(i) => obj[i] \in Object /\ obj[i].name \in Names /\ obj[i].parent \in Ids \cup {Top}
           /\ obj[i].kind = "unused" => obj[i] = Unused
<1>1. obj[i] \in Object \cup {Unused, Gone}
  BY DEF Typed
<1>2. CASE obj[i] \in Object
  BY <1>2, NotIds DEF Object, Exists, Live, Unused, Gone, Names
<1>3. CASE obj[i] \in {Unused, Gone}
  BY <1>3, NotIds DEF Exists, Live, Unused, Gone
<1> QED
  BY <1>1, <1>2, <1>3

\* Reading a path from the root and from the object agree.
LEMMA AtSits ==
    ASSUME Typed, NEW p \in Places, NEW i
    PROVE  i \in At(p) <=> Sits(i, p)
<1>1. \A j \in Ids : Exists(j) <=> Live(j)
  BY Objects
<1>2. \A j \in Ids : obj[j].kind = "dir" => Live(j)
  BY DEF Live
<1>3. ASSUME NEW x, p = <<x>>
      PROVE  i \in At(p) <=> Sits(i, p)
  <2>1. At(p) = Named(Top, x) /\ \A m, n : <<m, n>> # p
    BY <1>3, TupleFacts DEF At
  <2>2. i \in At(p) <=> i \in Ids /\ Exists(i) /\ obj[i].parent = Top /\ obj[i].name = x
    BY <2>1 DEF Named, Children
  <2>3. Sits(i, p) <=> Live(i) /\ obj[i].parent = Top /\ obj[i].name = x
    BY <1>3, <2>1 DEF Sits
  <2> QED
    BY <1>1, <2>2, <2>3 DEF Live
<1>4. ASSUME NEW x, NEW y, p = <<x, y>>
      PROVE  i \in At(p) <=> Sits(i, p)
  <2>1. At(p) = UNION {Named(d, y) : d \in {j \in Named(Top, x) : obj[j].kind = "dir"}}
    BY <1>4, TupleFacts DEF At
  <2>2. \A m : <<m>> # p
    BY <1>4, TupleFacts
  <2>3. i \in At(p) <=> \E d \in Named(Top, x) : obj[d].kind = "dir" /\ i \in Named(d, y)
    BY <2>1
  <2>4. \A d : d \in Named(Top, x) <=> d \in Ids /\ Exists(d) /\ obj[d].parent = Top /\ obj[d].name = x
    BY DEF Named, Children
  <2>5. \A d : i \in Named(d, y) <=> i \in Ids /\ Exists(i) /\ obj[i].parent = d /\ obj[i].name = y
    BY DEF Named, Children
  <2>6. i \in At(p) <=> /\ i \in Ids /\ Exists(i) /\ obj[i].name = y
                        /\ obj[i].parent \in Ids /\ obj[obj[i].parent].kind = "dir"
                        /\ obj[obj[i].parent].parent = Top /\ obj[obj[i].parent].name = x
    BY <1>1, <1>2, <2>3, <2>4, <2>5
  <2>7. Sits(i, p) <=> /\ Live(i) /\ obj[i].name = y
                       /\ obj[i].parent \in Ids /\ obj[obj[i].parent].kind = "dir"
                       /\ obj[obj[i].parent].parent = Top /\ obj[obj[i].parent].name = x
    BY <1>4, <2>2 DEF Sits
  <2> QED
    BY <1>1, <2>6, <2>7 DEF Live
<1> QED
  BY <1>3, <1>4, PlaceShape

\* Every object is at one place.
LEMMA SitsOnce ==
    ASSUME Typed, DriveShape, NEW i, Live(i)
    PROVE  /\ \E q \in Places : Sits(i, q)
           /\ \A p, q : Sits(i, p) /\ Sits(i, q) => p = q
<1>1. i \in Ids /\ obj[i].name \in Names
  BY Objects DEF Live
<1>2. CASE obj[i].parent = Top
  <2>1. <<obj[i].name>> \in Places
    BY <1>1 DEF Places
  <2>2. \A q : Sits(i, q) <=> q = <<obj[i].name>>
    BY <1>1, <1>2, NotIds DEF Sits
  <2> QED
    BY <2>1, <2>2
<1>3. CASE /\ obj[i].parent \in Ids /\ obj[obj[i].parent].kind = "dir"
           /\ obj[obj[i].parent].parent = Top
  <2>1. obj[obj[i].parent].name \in Names
    BY <1>3, Objects DEF Live
  <2>2. <<obj[obj[i].parent].name, obj[i].name>> \in Places
    BY <1>1, <2>1 DEF Places
  <2>3. \A q : Sits(i, q) <=> q = <<obj[obj[i].parent].name, obj[i].name>>
    BY <1>1, <1>3, NotIds DEF Sits
  <2> QED
    BY <2>2, <2>3
<1> QED
  BY <1>1, <1>2, <1>3 DEF DriveShape, Live

\* What a folder holds is at the entries of the folder's path.
LEMMA ChildSits ==
    ASSUME Typed, DriveShape, NEW p, p = <<>> \/ (p \in Paths /\ p = <<p[1]>>),
           NEW d, Spot(p, d), NEW j \in Children(d)
    PROVE  j \in Ids /\ Sits(j, Append(p, obj[j].name))
<1>1. Live(j) /\ obj[j].parent = d /\ obj[j].name \in Names
  BY Objects DEF Children, Live
<1>2. CASE p = <<>>
  BY <1>1, <1>2, EntryFacts DEF Spot, Sits, Live
<1>3. CASE p # <<>> /\ p \in Paths /\ p = <<p[1]>>
  <2>1. Sits(d, p) /\ d \in Ids /\ d # Top
    BY <1>3, NotIds DEF Spot, Sits, Live
  <2>2. obj[d].kind = "dir" /\ obj[d].parent = Top
    BY <1>1, <2>1 DEF DriveShape, Live
  <2>3. p = <<obj[d].name>>
    BY <2>1, <2>2, NotIds DEF Sits
  <2>4. Append(p, obj[j].name) = <<obj[d].name, obj[j].name>>
    BY <1>1, <1>3, <2>3, EntryFacts
  <2> QED
    BY <1>1, <2>1, <2>2, <2>4 DEF Sits, Live
<1> QED
  BY <1>2, <1>3

-----------------------------------------------------------------------------
(* Steps that leave the objects alone.                                     *)

\* Places depend on the objects only.
LEMMA SameObjects ==
    ASSUME obj' = obj
    PROVE  /\ DriveShape => DriveShape'
           /\ \A i, p : Sits(i, p)' <=> Sits(i, p)
           /\ \A i, p : Spot(p, i)' <=> Spot(p, i)
           /\ \A p : Bare(p)' <=> Bare(p)
<1>1. DriveShape => DriveShape'
  BY DEF DriveShape, Live
<1>2. \A i, p : Sits(i, p)' <=> Sits(i, p)
  BY DEF Sits, Live
<1>3. \A i, p : Spot(p, i)' <=> Spot(p, i)
  BY <1>2 DEF Spot
<1>4. \A p : Bare(p)' <=> Bare(p)
  BY <1>2 DEF Bare
<1> QED
  BY <1>1, <1>2, <1>3, <1>4

\* A goroutine without a call.
LEMMA IdleFine ==
    /\ Idle \in Calls /\ Stage(Idle) /\ WalkFine(Idle) /\ HeldFine(Idle) /\ RemovalFine(Idle)
    /\ Idle.op = "none" /\ Idle.pc = "idle" /\ Idle.id = None /\ Idle.par = None
BY DEF Idle, Calls, Segs, Stage, WalkFine, HeldFine, RemovalFine, Looks, Early, Removes

\* Calls fit together if each of them did before.
LEMMA ApartKept ==
    ASSUME DriveInv, NEW c \in Callers, NEW k, call' = [call EXCEPT ![c] = k],
           k.op = "none" \/ (k.op = call[c].op /\ k.path = call[c].path /\ k.dst = call[c].dst)
    PROVE  (\A d, e \in Callers : d # e => Apart(call[d], call[e]))'
<1>1. /\ call'[c] = k /\ \A e \in Callers \ {c} : call'[e] = call[e]
  BY DEF DriveInv, Typed
<1>2. \A d, e \in Callers : d # e => Apart(call[d], call[e])
  BY DEF DriveInv
<1> SUFFICES ASSUME NEW d \in Callers, NEW e \in Callers, d # e
             PROVE  Apart(call[d], call[e])'
  OBVIOUS
<1>3. CASE d # c /\ e # c
  BY <1>1, <1>2, <1>3 DEF Apart, Ends, Target
<1>4. CASE d = c
  <2>1. e # c /\ call'[e] = call[e] /\ Apart(call[c], call[e])
    BY <1>1, <1>2, <1>4
  <2> QED
    BY <1>1, <1>4, <2>1 DEF Apart, Ends, Target
<1>5. CASE e = c
  <2>1. d # c /\ call'[d] = call[d] /\ Apart(call[d], call[c])
    BY <1>1, <1>2, <1>5
  <2> QED
    BY <1>1, <1>5, <2>1 DEF Apart, Ends, Target
<1> QED
  BY <1>3, <1>4, <1>5

\* A row on the way to or from the paths of one call is not below what
\* another one removes.
LEMMA FarFromOthers ==
    ASSUME DriveInv, NEW c \in Callers, NEW e \in Callers, c # e, call[c].op # "none",
           Removes(call[e].op), NEW r \in Ends(call[c]), NEW q \in Paths,
           Under(q, r) \/ Under(r, q)
    PROVE  ~Under(call[e].path, q)
<1>1. Apart(call[c], call[e]) /\ call[e].op # "none"
  BY DEF DriveInv, Removes
<1>2. call[e].path \in Ends(call[e])
  BY DEF Ends
<1>3. ~Under(call[e].path, r) /\ ~Under(r, call[e].path)
  BY <1>1, <1>2 DEF Apart
<1>4. {call[e].path, r, q} \subseteq Places \cup {<<>>}
  BY PathShape DEF DriveInv, Typed, Calls, Ends, Target
<1> QED
  BY <1>3, <1>4, UnderOrder

\* Call k goes on as m without a change of the objects.
Follows(m, k) ==
    /\ m \in Calls /\ m.pc # "unmap"
    /\ \/ m = Idle
       \/ /\ m.op = k.op /\ m.path = k.path /\ m.dst = k.dst
          /\ m.pc \in Early => k.pc \in Early
          /\ Stage(m) /\ WalkFine(m) /\ HeldFine(m)

\* The statements on the table and the steps that only move a call on.
LEMMA TableStep ==
    ASSUME DriveInv, NEW c \in Callers, NEW k, Follows(k, call[c]),
           obj' = obj, rootID' = rootID, call' = [call EXCEPT ![c] = k],
           ids' \in [Keys -> Ids \cup {None, Top}], ids'[<<RootName>>] = Top,
           call[c].pc = "unmap" => ids'[call[c].path] = None,
           \A q \in Paths : ids'[q] # ids[q] =>
              \/ ids'[q] = None
              \/ /\ Sits(ids'[q], q) /\ call[c].op # "none"
                 /\ \E r \in Ends(call[c]) : Under(q, r) \/ Under(r, q)
                 /\ Removes(call[c].op) /\ Under(call[c].path, q) => q = call[c].path \/ k = Idle
    PROVE  DriveInv'
<1> USE DEF Follows
<1>1. /\ call'[c] = k /\ \A e \in Callers \ {c} : call'[e] = call[e]
      /\ call' \in [Callers -> Calls]
  BY DEF DriveInv, Typed
<1>2. Typed' /\ DriveShape'
  BY <1>1, SameObjects DEF DriveInv, Typed
<1>3. (\A d, e \in Callers : d # e => Apart(call[d], call[e]))'
  BY ApartKept, IdleFine
<1>4. ASSUME NEW p \in Paths
      PROVE  RowFine(p)'
  <2>1. RowFine(p)
    BY DEF DriveInv
  <2>2. CASE ids'[p] = None \/ Sits(ids'[p], p)
    BY <2>2, SameObjects DEF RowFine
  <2>3. CASE ids'[p] = ids[p] /\ ids[p] # None /\ ~Sits(ids[p], p)
    <3>1. PICK e \in Callers : call[e].pc = "unmap" /\ call[e].path = p
      BY <2>1, <2>3 DEF RowFine
    <3>2. e # c
      BY <2>3, <3>1
    <3> QED
      BY <1>1, <3>1, <3>2 DEF RowFine
  <2> QED
    BY <2>2, <2>3
<1>5. ASSUME NEW e \in Callers, e # c
      PROVE  CallFine(e)'
  <2>1. CallFine(e) /\ call'[e] = call[e]
    BY <1>1, <1>5 DEF DriveInv
  <2>2. Stage(call[e])' /\ WalkFine(call[e])' /\ HeldFine(call[e])'
    BY <2>1, SameObjects DEF CallFine, Stage, WalkFine, HeldFine, Wanted, Target
  <2>3. RemovalFine(call[e])'
    <3> SUFFICES ASSUME call[e].pc \in Early, Removes(call[e].op)
                 PROVE  /\ \A q \in Paths : Under(call[e].path, q) /\ q # call[e].path => ids'[q] = None
                        /\ call[e].op = "rename" /\ Len(call[e].dst) = 2 => Bare(call[e].path)
      BY <2>1, SameObjects DEF RemovalFine
    <3>1. \A q \in Paths : Under(call[e].path, q) => ids'[q] \in {None, ids[q]}
      BY <1>5, FarFromOthers
    <3> QED
      BY <2>1, <3>1 DEF CallFine, RemovalFine
  <2> QED
    BY <2>2, <2>3 DEF CallFine
<1>6. CallFine(c)'
  <2>1. CASE k = Idle
    <3>1. Stage(k) /\ WalkFine(k) /\ HeldFine(k) /\ k.pc = "idle"
      BY <2>1, IdleFine
    <3>2. Stage(call[c])' /\ WalkFine(call[c])' /\ HeldFine(call[c])'
      BY <1>1, <3>1, SameObjects DEF Stage, WalkFine, HeldFine, Wanted, Target
    <3>3. RemovalFine(call[c])'
      BY <1>1, <3>1 DEF RemovalFine, Early, Looks
    <3> QED
      BY <3>2, <3>3 DEF CallFine
  <2>2. CASE /\ k # Idle /\ Stage(k) /\ WalkFine(k) /\ HeldFine(k)
             /\ k.op = call[c].op /\ k.path = call[c].path /\ k.dst = call[c].dst
             /\ k.pc \in Early => call[c].pc \in Early
    <3>1. Stage(call[c])' /\ WalkFine(call[c])' /\ HeldFine(call[c])'
      BY <1>1, <2>2, SameObjects DEF Stage, WalkFine, HeldFine, Wanted, Target
    <3>2. RemovalFine(call[c])'
      <4> SUFFICES ASSUME k.pc \in Early, Removes(k.op)
                   PROVE  /\ \A q \in Paths : Under(k.path, q) /\ q # k.path => ids'[q] = None
                          /\ k.op = "rename" /\ Len(k.dst) = 2 => Bare(k.path)
        BY <1>1, SameObjects DEF RemovalFine
      <4>1. /\ \A q \in Paths : Under(k.path, q) /\ q # k.path => ids[q] = None
            /\ k.op = "rename" /\ Len(k.dst) = 2 => Bare(k.path)
        BY <2>2 DEF DriveInv, CallFine, RemovalFine
      <4> QED
        BY <2>2, <4>1
    <3> QED
      BY <3>1, <3>2 DEF CallFine
  <2> QED
    BY <2>1, <2>2
<1> QED
  BY <1>2, <1>3, <1>4, <1>5, <1>6 DEF DriveInv

\* The steps that only move a call on.
LEMMA CallStep ==
    ASSUME DriveInv, NEW c \in Callers, NEW k, Follows(k, call[c]), call[c].pc # "unmap",
           call' = [call EXCEPT ![c] = k], UNCHANGED <<obj, ids, rootID>>
    PROVE  DriveInv'
<1>1. ids' \in [Keys -> Ids \cup {None, Top}] /\ ids'[<<RootName>>] = Top
  BY DEF DriveInv, Typed
<1> QED
  BY <1>1, TableStep

\* What is at a place, or the root, is no missing identifier.
LEMMA SpotIds ==
    /\ \A p, i : Spot(p, i) => i \in Ids \cup {Top} /\ i # None
    /\ \A p, i : Sits(i, p) => i \in Ids /\ i # None /\ p # <<>> /\ Spot(p, i)
<1>1. \A p, i : Sits(i, p) => i \in Ids /\ i # None
  BY NotIds DEF Sits, Live
<1>2. \A p, i : Sits(i, p) => p # <<>>
  BY DEF Sits
<1>3. \A p, i : Spot(p, i) => i \in Ids \cup {Top} /\ i # None
  BY <1>1, NotIds DEF Spot
<1>4. \A p, i : Sits(i, p) => Spot(p, i)
  BY <1>2 DEF Spot
<1> QED
  BY <1>1, <1>2, <1>3, <1>4

\* A call whose lookup is over.
LEMMA Cleared ==
    ASSUME NEW k \in Calls
    PROVE  [k EXCEPT !.want = <<>>, !.seg = 0, !.at = None, !.pc = "api"] \in Calls
<1>1. \A z \in Segs : [k EXCEPT !.want = <<>>, !.seg = z, !.at = None, !.pc = "api"] \in Calls
  BY DEF Calls
<1>2. 0 \in Segs
  BY DEF Segs
<1> QED
  BY <1>1, <1>2

\* What the answer of a lookup makes of a call.
LEMMA AnswerTyped ==
    ASSUME NEW k \in Calls, NEW r \in Calls, NEW i \in Ids \cup {None, Top}
    PROVE  /\ [r EXCEPT !.par = i, !.want = k.path, !.pc = "resolve"] \in Calls
           /\ [r EXCEPT !.id = i, !.pc = "parents"] \in Calls
           /\ [r EXCEPT !.par = i] \in Calls
           /\ [r EXCEPT !.id = i] \in Calls
<1>1. [r EXCEPT !.par = i, !.want = k.path, !.pc = "resolve"] \in Calls
  BY ZenonT(60) DEF Calls
<1>2. [r EXCEPT !.id = i, !.pc = "parents"] \in Calls
  BY ZenonT(60) DEF Calls
<1>3. [r EXCEPT !.par = i] \in Calls
  BY DEF Calls
<1>4. [r EXCEPT !.id = i] \in Calls
  BY DEF Calls
<1> QED
  BY <1>1, <1>2, <1>3, <1>4

\* A lookup that found what it looked for.
LEMMA ResolvedFine ==
    ASSUME NEW k \in Calls, k.pc \in Looks, Stage(k), HeldFine(k), NEW i, Spot(Wanted(k), i)
    PROVE  Follows(Resolved(k, i), k)
<1> DEFINE r == [k EXCEPT !.want = <<>>, !.seg = 0, !.at = None, !.pc = "api"]
<1>1. i \in Ids \cup {Top} /\ i # None
  BY SpotIds
<1>8. r \in Calls
  BY Cleared
<1>2. k.pc \notin {"idle", "api", "listed", "map", "unmap", "parents"} /\ k.op # "none"
  BY DEF Looks, Stage
<1>3. CASE k.op = "put" /\ k.par = None
  <2> DEFINE m == [r EXCEPT !.par = i, !.want = k.path, !.pc = "resolve"]
  <2>1. Resolved(k, i) = m
    BY <1>3 DEF Resolved
  <2>2. m \in Calls
    <3> HIDE DEF r
    <3> QED
      BY <1>1, <1>8, AnswerTyped
  <2>3. /\ m.op = "put" /\ m.path = k.path /\ m.dst = k.dst /\ m.par = i /\ m.id = k.id
        /\ m.pc = "resolve" /\ m.want = k.path /\ m.ver = k.ver
    BY <1>3 DEF Calls
  <2> HIDE DEF m
  <2>4. Stage(m) /\ WalkFine(m)
    BY <1>1, <1>2, <1>3, <2>3 DEF Stage, WalkFine, Wanted, Looks, Removes
  <2>5. HeldFine(m)
    BY <1>1, <1>2, <1>3, <2>3 DEF HeldFine, Wanted, Target, Looks, Early
  <2> QED
    BY <1>3, <2>1, <2>2, <2>3, <2>4, <2>5 DEF Follows, Early
<1>4. CASE k.op = "rename" /\ k.id = None
  <2> DEFINE m == [r EXCEPT !.id = i, !.pc = "parents"]
  <2>1. Resolved(k, i) = m
    BY <1>4 DEF Resolved
  <2>2. m \in Calls
    <3> HIDE DEF r
    <3> QED
      BY <1>1, <1>8, AnswerTyped
  <2>3. /\ m.op = "rename" /\ m.path = k.path /\ m.dst = k.dst /\ m.par = k.par /\ m.id = i
        /\ m.pc = "parents" /\ m.ver = k.ver
    BY <1>4 DEF Calls
  <2> HIDE DEF m
  <2>4. Stage(m) /\ WalkFine(m)
    BY <1>1, <1>2, <1>4, <2>3 DEF Stage, WalkFine, Looks, Removes
  <2>5. HeldFine(m)
    BY <1>1, <1>2, <1>4, <2>3 DEF HeldFine, Wanted, Target, Looks, Early
  <2> QED
    BY <1>4, <2>1, <2>2, <2>3, <2>4, <2>5 DEF Follows, Early
<1>5. CASE (k.op = "rename" /\ k.id # None) \/ k.op = "mkdir"
  <2> DEFINE m == [r EXCEPT !.par = i]
  <2>1. Resolved(k, i) = m
    BY <1>5 DEF Resolved
  <2>2. m \in Calls
    <3> HIDE DEF r
    <3> QED
      BY <1>1, <1>8, AnswerTyped
  <2>3. /\ m.op = k.op /\ m.path = k.path /\ m.dst = k.dst /\ m.par = i /\ m.id = k.id
        /\ m.pc = "api" /\ m.ver = k.ver
    BY <1>5 DEF Calls
  <2> HIDE DEF m
  <2>4. Stage(m) /\ WalkFine(m)
    BY <1>1, <1>2, <1>5, <2>3 DEF Stage, WalkFine, Looks, Removes
  <2>5. HeldFine(m)
    BY <1>1, <1>2, <1>5, <2>3 DEF HeldFine, Wanted, Target, Looks, Early
  <2> QED
    BY <1>5, <2>1, <2>2, <2>3, <2>4, <2>5 DEF Follows, Early
<1>6. CASE k.op \in {"get", "list", "delete"} \/ (k.op = "put" /\ k.par # None)
  <2> DEFINE m == [r EXCEPT !.id = i]
  <2>1. Resolved(k, i) = m
    BY <1>6 DEF Resolved
  <2>2. m \in Calls
    <3> HIDE DEF r
    <3> QED
      BY <1>1, <1>8, AnswerTyped
  <2>3. /\ m.op = k.op /\ m.path = k.path /\ m.dst = k.dst /\ m.par = k.par /\ m.id = i
        /\ m.pc = "api" /\ m.ver = k.ver
    BY <1>6 DEF Calls
  <2> HIDE DEF m
  <2>4. Stage(m) /\ WalkFine(m)
    BY <1>1, <1>2, <1>6, <2>3 DEF Stage, WalkFine, Looks, Removes
  <2>5. HeldFine(m)
    BY <1>1, <1>2, <1>6, <2>3 DEF HeldFine, Wanted, Target, Looks, Early
  <2> QED
    BY <1>6, <2>1, <2>2, <2>3, <2>4, <2>5 DEF Follows, Early
<1>7. k.op \in {"get", "list", "put", "mkdir", "delete", "rename"}
  BY <1>2 DEF Calls
<1> QED
  BY <1>3, <1>4, <1>5, <1>6, <1>7

\* A lookup that found nothing.
LEMMA UnresolvedFine ==
    ASSUME NEW k \in Calls, k.pc \in Looks, Stage(k), HeldFine(k)
    PROVE  Follows(Unresolved(k), k)
<1>1. CASE k.op = "put" /\ k.par # None
  <2> DEFINE m == [k EXCEPT !.want = <<>>, !.seg = 0, !.at = None, !.pc = "api"]
  <2>1. Unresolved(k) = m
    BY <1>1 DEF Unresolved
  <2>2. m \in Calls
    BY Cleared
  <2>3. /\ m.op = "put" /\ m.path = k.path /\ m.dst = k.dst /\ m.par = k.par /\ m.id = k.id
        /\ m.pc = "api" /\ m.ver = k.ver
    BY <1>1 DEF Calls
  <2> HIDE DEF m
  <2>4. Stage(m) /\ WalkFine(m)
    BY <1>1, <2>3 DEF Stage, WalkFine, Looks, Removes
  <2>5. HeldFine(m)
    BY <1>1, <2>3 DEF HeldFine, Target, Looks, Early
  <2> QED
    BY <1>1, <2>1, <2>2, <2>3, <2>4, <2>5 DEF Follows, Early
<1>2. CASE ~(k.op = "put" /\ k.par # None)
  BY <1>2, IdleFine DEF Unresolved, Follows
<1> QED
  BY <1>1, <1>2

\* A walk that found its next segment.
LEMMA AdvanceFine ==
    ASSUME NEW k \in Calls, k.pc \in {"walk", "store"}, Stage(k), HeldFine(k), WalkFine(k),
           NEW i, Sits(i, Segment(k))
    PROVE  Follows(Advance(k, i), k)
<1>1. k.want = Wanted(k) /\ k.want \in Paths /\ k.seg \in 1..Len(k.want) /\ k.op # "none"
  BY DEF Calls, WalkFine, Stage, Looks
<1>2. CASE k.seg = Len(k.want)
  <2>1. Spot(Wanted(k), i)
    <3>1. SubSeq(k.want, 1, k.seg) = k.want
      BY <1>1, <1>2, SegmentFacts
    <3> QED
      BY <1>1, <3>1, SpotIds DEF Segment
  <2> QED
    BY <1>2, <2>1, ResolvedFine DEF Advance, Looks
<1>3. CASE k.seg # Len(k.want)
  <2> DEFINE m == [k EXCEPT !.pc = "walk", !.seg = @ + 1, !.at = i]
  <2>1. k.seg = 1 /\ Len(k.want) = 2
    <3>1. k.seg = 1
      BY <1>1, <1>3, SegmentFacts
    <3>2. Len(k.want) \in 1..2
      BY <1>1, SegmentFacts
    <3> QED
      BY <1>3, <3>1, <3>2
  <2>2. m \in Calls /\ Advance(k, i) = m
    <3>1. i \in Ids /\ k.seg + 1 \in Segs
      BY <2>1, SpotIds DEF Segs
    <3>2. \A z \in Segs : [k EXCEPT !.pc = "walk", !.seg = z, !.at = i] \in Calls
      BY <3>1 DEF Calls
    <3>3. Advance(k, i) = [k EXCEPT !.pc = "walk", !.seg = k.seg + 1, !.at = i]
      BY <1>3 DEF Advance
    <3> QED
      BY <3>1, <3>2, <3>3
  <2>3. /\ m.op = k.op /\ m.path = k.path /\ m.dst = k.dst /\ m.par = k.par /\ m.id = k.id
        /\ m.pc = "walk" /\ m.ver = k.ver /\ m.want = k.want /\ m.seg = 2 /\ m.at = i
    BY <2>1 DEF Calls
  <2> HIDE DEF m
  <2>4. Stage(m) /\ HeldFine(m)
    BY <1>1, <2>3 DEF Stage, HeldFine, Looks, Early, Wanted, Target, Removes
  <2>5. Spot(SubSeq(k.want, 1, m.seg - 1), i)
    <3>1. m.seg - 1 = k.seg
      BY <2>1, <2>3
    <3> QED
      BY <3>1, SpotIds DEF Segment
  <2>6. WalkFine(m)
    <3>1. 2 \in 1..2
      OBVIOUS
    <3>2. m.seg \in 1..Len(m.want) /\ m.want # <<>>
      BY <1>1, <2>1, <2>3, <3>1, PathShape, Zenon
    <3> QED
      BY <2>3, <2>5, <3>2 DEF WalkFine
  <2> QED
    BY <2>2, <2>3, <2>4, <2>6 DEF Follows, Early, Looks
<1> QED
  BY <1>2, <1>3

\* A lookup is on the way to a path of its call.
LEMMA WantedFacts ==
    ASSUME NEW k \in Calls, Stage(k), k.op # "none"
    PROVE  /\ Wanted(k) \in Paths \cup {<<>>}
           /\ \E r \in Ends(k) : Under(Wanted(k), r)
           /\ Wanted(k) = k.path \/ Under(Wanted(k), Target(k))
<1>1. k.path \in Paths \cup {<<>>} /\ (k.op = "rename" => k.dst \in Paths)
      /\ (k.op \notin {"none", "list"} => k.path \in Paths)
  BY DEF Calls, Stage
<1>2. CASE Wanted(k) = k.path
  BY <1>1, <1>2, UnderOrder, PathShape DEF Ends
<1>3. CASE Wanted(k) # k.path
  <2>1. Target(k) \in Paths /\ Wanted(k) = Parent(Target(k))
    BY <1>1, <1>3 DEF Wanted, Target
  <2> QED
    BY <2>1, ParentFacts DEF Ends
<1> QED
  BY <1>2, <1>3

\* A cached row on the way to or from a path of a call is right.
LEMMA CachedSits ==
    ASSUME DriveInv, NEW c \in Callers, call[c].op # "none", call[c].pc # "unmap",
           NEW q \in Paths, NEW r \in Ends(call[c]), Under(q, r) \/ Under(r, q), ids[q] # None
    PROVE  Sits(ids[q], q)
<1> SUFFICES ASSUME NEW e \in Callers, call[e].pc = "unmap", call[e].path = q PROVE FALSE
  BY DEF DriveInv, RowFine
<1>1. e # c /\ Removes(call[e].op)
  BY DEF DriveInv, CallFine, Stage
<1>2. Under(q, q)
  BY PathShape, UnderOrder
<1> QED
  BY <1>1, <1>2, FarFromOthers

\* resolveID answers with the root, with a row that is right, or walks.
LEMMA ResolveStep ==
    ASSUME DriveInv, NEW c \in Callers, Resolve(c)
    PROVE  DriveInv'
<1>1. PICK k : k = call[c]
  OBVIOUS
<1>2. k \in Calls /\ k.pc = "resolve" /\ Stage(k) /\ HeldFine(k) /\ rootID = Top /\ k.op # "none"
  BY <1>1 DEF DriveInv, Typed, CallFine, Resolve, Stage
<1>3. k.want = Wanted(k) /\ k.want \in Paths \cup {<<>>} /\ k.pc \in Looks
  BY <1>2, WantedFacts DEF Stage, Looks
<1>4. CASE k.want = <<>>
  <2>1. Spot(Wanted(k), rootID)
    BY <1>2, <1>3, <1>4 DEF Spot
  <2>2. Follows(Resolved(k, rootID), k)
    BY <1>2, <1>3, <2>1, ResolvedFine
  <2> QED
    BY <1>1, <1>2, <1>4, <2>2, CallStep DEF Resolve, Goto
<1>5. CASE k.want # <<>> /\ ids[k.want] # None
  <2>1. Sits(ids[k.want], k.want)
    BY <1>1, <1>2, <1>3, <1>5, WantedFacts, CachedSits
  <2>2. Follows(Resolved(k, ids[k.want]), k)
    BY <1>2, <1>3, <2>1, ResolvedFine, SpotIds
  <2> QED
    BY <1>1, <1>2, <1>5, <2>2, CallStep DEF Resolve, Goto
<1>6. CASE k.want # <<>> /\ ids[k.want] = None
  <2> DEFINE m == [k EXCEPT !.pc = "walk", !.seg = 1, !.at = rootID]
  <2>1. m \in Calls
    <3>1. \A z \in Segs : [k EXCEPT !.pc = "walk", !.seg = z, !.at = Top] \in Calls
      BY <1>2 DEF Calls
    <3>2. 1 \in Segs
      BY DEF Segs
    <3> QED
      BY <1>2, <3>1, <3>2
  <2>2. /\ m.op = k.op /\ m.path = k.path /\ m.dst = k.dst /\ m.par = k.par /\ m.id = k.id
        /\ m.pc = "walk" /\ m.ver = k.ver /\ m.want = k.want /\ m.seg = 1 /\ m.at = Top
    BY <1>2 DEF Calls
  <2>3. call' = [call EXCEPT ![c] = m]
    BY <1>1, <1>6 DEF Resolve, Goto
  <2> HIDE DEF m
  <2>4. Stage(m) /\ HeldFine(m)
    BY <1>2, <1>3, <2>2 DEF Stage, HeldFine, Looks, Early, Wanted, Target, Removes
  <2>5. k.want \in Paths /\ Len(k.want) \in 1..2 /\ 1 \in 1..Len(k.want)
    <3>1. k.want \in Paths
      BY <1>3, <1>6
    <3>2. Len(k.want) \in 1..2
      BY <3>1, PathShape, ParentFacts
    <3> QED
      BY <3>1, <3>2
  <2>6. SubSeq(k.want, 1, m.seg - 1) = <<>>
    <3>1. m.seg - 1 = 1 - 1
      BY <2>2, Zenon
    <3> QED
      BY <2>5, <3>1, SegmentFacts
  <2>7. WalkFine(m)
    BY <1>6, <2>2, <2>5, <2>6 DEF WalkFine, Spot
  <2>8. Follows(m, k)
    BY <1>2, <2>1, <2>2, <2>4, <2>7 DEF Follows, Early, Looks
  <2> QED
    BY <1>1, <1>2, <2>3, <2>8, CallStep DEF Resolve
<1> QED
  BY <1>3, <1>4, <1>5, <1>6

\* What Drive answers in a walk is at the segment it was asked for.
LEMMA WalkSits ==
    ASSUME Typed, DriveShape, NEW k \in Calls, k.pc = "walk", WalkFine(k),
           NEW j \in Named(k.at, k.want[k.seg])
    PROVE  j \in Ids /\ Sits(j, Segment(k))
<1>1. k.want \in Paths /\ k.seg \in 1..Len(k.want) /\ Spot(SubSeq(k.want, 1, k.seg - 1), k.at)
  BY DEF WalkFine, Calls
<1>2. j \in Children(k.at) /\ obj[j].name = k.want[k.seg] /\ obj[j].name \in Names
  BY Objects DEF Named, Children
<1>3. CASE k.seg = 1
  <2>1. SubSeq(k.want, 1, k.seg - 1) = <<>> /\ SubSeq(k.want, 1, k.seg) = <<k.want[k.seg]>>
    BY <1>1, <1>3, SegmentFacts
  <2>2. Append(<<>>, obj[j].name) = <<obj[j].name>>
    BY TupleFacts
  <2>3. j \in Ids /\ Sits(j, Append(<<>>, obj[j].name))
    BY <1>1, <1>2, <2>1, ChildSits
  <2> QED
    BY <1>2, <2>1, <2>2, <2>3 DEF Segment
<1>4. CASE k.seg # 1
  <2>1. /\ SubSeq(k.want, 1, k.seg - 1) = <<k.want[1]>>
        /\ SubSeq(k.want, 1, k.seg) = <<k.want[1], k.want[k.seg]>>
    BY <1>1, <1>4, SegmentFacts
  <2>2. <<k.want[1]>> \in Paths /\ <<k.want[1]>>[1] = k.want[1]
    BY <1>1, PathShape
  <2>3. Append(<<k.want[1]>>, obj[j].name) = <<k.want[1], obj[j].name>>
    BY TupleFacts
  <2>4. j \in Ids /\ Sits(j, Append(<<k.want[1]>>, obj[j].name))
    BY <1>1, <1>2, <2>1, <2>2, ChildSits
  <2> QED
    BY <1>2, <2>1, <2>3, <2>4 DEF Segment
<1> QED
  BY <1>3, <1>4

\* The path of a walk's segment is on the way to a path of the call.
LEMMA SegmentNear ==
    ASSUME NEW k \in Calls, k.pc \in {"walk", "store"}, Stage(k), WalkFine(k)
    PROVE  /\ Segment(k) \in Paths /\ k.op # "none"
           /\ \E r \in Ends(k) : Under(Segment(k), r)
           /\ k.op = "rename" /\ Under(k.path, Segment(k)) => Segment(k) = k.path
           /\ k.op = "delete" /\ Under(k.path, Segment(k)) => Segment(k) = k.path
<1>1. /\ k.want = Wanted(k) /\ k.op # "none" /\ k.want \in Paths /\ k.seg \in 1..Len(k.want)
  BY DEF Calls, WalkFine, Stage, Looks
<1>2. Segment(k) \in Paths /\ Under(Segment(k), k.want)
  BY <1>1, SegmentFacts DEF Segment
<1>3. PICK r \in Ends(k) : Under(k.want, r)
  BY <1>1, WantedFacts
<1>4. {k.want, Segment(k), r, k.path, k.dst, Target(k)} \subseteq Places \cup {<<>>}
  BY <1>1, <1>2, PathShape DEF Calls, Ends, Target
<1>5. Under(Segment(k), r)
  BY <1>2, <1>3, <1>4, UnderOrder
<1>6. CASE k.want = k.path
  BY <1>1, <1>2, <1>4, <1>5, <1>6, UnderOrder
<1>7. CASE k.want # k.path
  <2>1. Under(Segment(k), Target(k))
    BY <1>1, <1>2, <1>4, <1>7, WantedFacts, UnderOrder
  <2>2. k.op = "rename" => ~Under(k.path, Segment(k))
    BY <1>4, <2>1, UnderOrder DEF Stage, Target
  <2>3. k.op # "delete"
    BY <1>1, <1>7 DEF Wanted
  <2> QED
    BY <1>1, <1>2, <1>5, <2>2, <2>3
<1> QED
  BY <1>6, <1>7

\* One segment of a walk.
LEMMA WalkStep ==
    ASSUME DriveInv, NEW c \in Callers, Walk(c)
    PROVE  DriveInv'
<1>1. PICK k : k = call[c]
  OBVIOUS
<1>2. k \in Calls /\ k.pc = "walk" /\ Stage(k) /\ HeldFine(k) /\ WalkFine(k)
  BY <1>1 DEF DriveInv, Typed, CallFine, Walk
<1>3. Segment(k) \in Paths /\ k.op # "none" /\ \E r \in Ends(k) : Under(Segment(k), r)
  BY <1>2, SegmentNear
<1>4. k.pc \in Looks
  BY <1>2 DEF Looks
<1>5. CASE ids[Segment(k)] # None
  <2>1. Sits(ids[Segment(k)], Segment(k))
    BY <1>1, <1>2, <1>3, <1>5, CachedSits
  <2>2. Follows(Advance(k, ids[Segment(k)]), k)
    BY <1>2, <2>1, AdvanceFine
  <2> QED
    BY <1>1, <1>2, <1>5, <2>2, CallStep DEF Walk, Goto
<1>6. CASE call' = [call EXCEPT ![c] = Unresolved(k)]
  <2>1. Follows(Unresolved(k), k)
    BY <1>2, <1>4, UnresolvedFine
  <2> QED
    BY <1>1, <1>2, <1>6, <2>1, CallStep DEF Walk
<1>7. ASSUME NEW j \in Named(k.at, k.want[k.seg]),
             call' = [call EXCEPT ![c] = [k EXCEPT !.pc = "store", !.at = j]]
      PROVE  DriveInv'
  <2> DEFINE m == [k EXCEPT !.pc = "store", !.at = j]
  <2>1. j \in Ids /\ Sits(j, Segment(k))
    BY <1>2, <1>7, WalkSits DEF DriveInv
  <2>2. m \in Calls
    BY <1>2, <2>1 DEF Calls
  <2>3. /\ m.op = k.op /\ m.path = k.path /\ m.dst = k.dst /\ m.par = k.par /\ m.id = k.id
        /\ m.pc = "store" /\ m.ver = k.ver /\ m.want = k.want /\ m.seg = k.seg /\ m.at = j
    BY <1>2 DEF Calls
  <2>4. call' = [call EXCEPT ![c] = m]
    BY <1>7
  <2> HIDE DEF m
  <2>5. Stage(m) /\ HeldFine(m)
    BY <1>2, <1>3, <1>4, <2>3 DEF Stage, HeldFine, Looks, Early, Wanted, Target, Removes
  <2>6. WalkFine(m)
    BY <1>2, <2>1, <2>3 DEF WalkFine, Segment
  <2>7. Follows(m, k)
    BY <1>2, <2>2, <2>3, <2>5, <2>6 DEF Follows, Early, Looks
  <2> QED
    BY <1>1, <1>2, <2>4, <2>7, CallStep DEF Walk
<1> QED
  BY <1>1, <1>5, <1>6, <1>7 DEF Walk, Goto

\* The failing query of a walk.
LEMMA WalkErrorStep ==
    ASSUME DriveInv, NEW c \in Callers, WalkError(c)
    PROVE  DriveInv'
<1>1. PICK k : k = call[c]
  OBVIOUS
<1>2. k \in Calls /\ k.pc = "walk" /\ k.pc \in Looks /\ Stage(k) /\ HeldFine(k)
  BY <1>1 DEF DriveInv, Typed, CallFine, WalkError, Looks
<1>3. Follows(Unresolved(k), k)
  BY <1>2, UnresolvedFine
<1> QED
  BY <1>1, <1>2, <1>3, CallStep DEF WalkError, Goto

\* The row that a walk writes.
LEMMA WalkStoreStep ==
    ASSUME DriveInv, OwnKey, NEW c \in Callers, WalkStore(c)
    PROVE  DriveInv'
<1>1. PICK k : k = call[c]
  OBVIOUS
<1>2. k \in Calls /\ k.pc = "store" /\ Stage(k) /\ HeldFine(k) /\ WalkFine(k)
  BY <1>1 DEF DriveInv, Typed, CallFine, WalkStore
<1>3. Sits(k.at, Segment(k)) /\ k.at \in Ids
  BY <1>2, SpotIds DEF WalkFine, Segment
<1>4. /\ Segment(k) \in Paths /\ k.op # "none"
      /\ \E r \in Ends(k) : Under(Segment(k), r)
      /\ Removes(k.op) /\ Under(k.path, Segment(k)) => Segment(k) = k.path
  BY <1>2, SegmentNear DEF Removes
<1>5. Follows(Advance(k, k.at), k)
  BY <1>2, <1>3, AdvanceFine
<1>6. /\ ids' = [ids EXCEPT ![Segment(k)] = k.at]
      /\ call' = [call EXCEPT ![c] = Advance(k, k.at)] /\ UNCHANGED <<obj, rootID>>
  BY <1>1 DEF WalkStore, Goto
<1>7. /\ ids' \in [Keys -> Ids \cup {None, Top}] /\ ids'[<<RootName>>] = Top
      /\ \A q \in Paths : ids'[q] # ids[q] => q = Segment(k) /\ ids'[q] = k.at
  BY <1>3, <1>4, <1>6 DEF DriveInv, Typed, Keys, OwnKey
<1>8. \A q \in Paths : ids'[q] # ids[q] =>
          /\ Sits(ids'[q], q) /\ call[c].op # "none"
          /\ \E r \in Ends(call[c]) : Under(q, r) \/ Under(r, q)
          /\ Removes(call[c].op) /\ Under(call[c].path, q) => q = call[c].path
  BY <1>1, <1>3, <1>4, <1>7
<1> QED
  BY <1>1, <1>2, <1>5, <1>6, <1>7, <1>8, TableStep

\* Rename knows its object and looks up the new parent.
LEMMA RenameParentsStep ==
    ASSUME DriveInv, NEW c \in Callers, RenameParents(c)
    PROVE  DriveInv'
<1>1. PICK k : k = call[c]
  OBVIOUS
<1>2. k \in Calls /\ k.pc = "parents" /\ Stage(k) /\ HeldFine(k) /\ k.op = "rename" /\ k.id # None
  BY <1>1 DEF DriveInv, Typed, CallFine, RenameParents, Stage, HeldFine
<1> DEFINE m == [k EXCEPT !.pc = "resolve", !.want = Parent(k.dst)]
<1>3. Parent(k.dst) \in Paths \cup {<<>>}
  BY <1>2, ParentFacts DEF Stage
<1>4. m \in Calls
  BY <1>2, <1>3 DEF Calls
<1>5. /\ m.op = k.op /\ m.path = k.path /\ m.dst = k.dst /\ m.par = k.par /\ m.id = k.id
      /\ m.pc = "resolve" /\ m.ver = k.ver /\ m.want = Parent(k.dst)
  BY <1>2 DEF Calls
<1> HIDE DEF m
<1>6. Stage(m) /\ HeldFine(m) /\ WalkFine(m)
  BY <1>2, <1>5 DEF Stage, HeldFine, WalkFine, Looks, Early, Wanted, Target, Removes
<1>7. Follows(m, k) /\ Follows(Idle, k)
  BY <1>2, <1>4, <1>5, <1>6, IdleFine DEF Follows, Early, Looks
<1>8. call' = [call EXCEPT ![c] = m] \/ call' = [call EXCEPT ![c] = Idle]
  BY <1>1 DEF RenameParents, Goto, m
<1> QED
  BY <1>1, <1>2, <1>7, <1>8, CallStep DEF RenameParents

\* The calls that end without a change.
LEMMA EndStep ==
    ASSUME DriveInv, NEW c \in Callers, GetApi(c) \/ ApiError(c)
    PROVE  DriveInv'
<1>1. Follows(Idle, call[c]) /\ call[c].pc # "unmap"
  BY IdleFine DEF Follows, GetApi, ApiError
<1> QED
  BY <1>1, CallStep DEF GetApi, ApiError, Goto

\* A listing takes the children of its folder.
LEMMA ListApiStep ==
    ASSUME DriveInv, NEW c \in Callers, ListApi(c)
    PROVE  DriveInv'
<1>1. PICK k : k = call[c]
  OBVIOUS
<1>2. /\ k \in Calls /\ k.pc = "api" /\ Stage(k) /\ HeldFine(k) /\ k.op = "list"
  BY <1>1 DEF DriveInv, Typed, CallFine, ListApi
<1>3. /\ Spot(k.path, k.id) /\ k.par = None
      /\ k.path = <<>> \/ (k.path \in Paths /\ k.path = <<k.path[1]>>)
  BY <1>2 DEF HeldFine, Stage, Early
<1> DEFINE m == [k EXCEPT !.pc = "listed", !.todo = Children(k.id)]
<1>4. Children(k.id) \subseteq Ids
  BY DEF Children
<1>5. m \in Calls
  BY <1>2, <1>4 DEF Calls
<1>6. /\ m.op = k.op /\ m.path = k.path /\ m.dst = k.dst /\ m.par = k.par /\ m.id = k.id
      /\ m.pc = "listed" /\ m.ver = k.ver /\ m.todo = Children(k.id)
  BY <1>2 DEF Calls
<1> HIDE DEF m
<1>7. Stage(m) /\ WalkFine(m)
  BY <1>2, <1>6 DEF Stage, WalkFine, Looks, Wanted, Removes
<1>8. HeldFine(m)
  <2>1. \A j \in Children(k.id) : Sits(j, Append(k.path, obj[j].name))
    BY <1>3, ChildSits DEF DriveInv
  <2> QED
    BY <1>2, <1>3, <1>6, <2>1 DEF HeldFine, Looks, Early
<1>9. Follows(m, k) /\ Follows(Idle, k)
  BY <1>2, <1>5, <1>6, <1>7, <1>8, IdleFine DEF Follows, Early, Looks
<1>10. call' = [call EXCEPT ![c] = m] \/ call' = [call EXCEPT ![c] = Idle]
  BY <1>1 DEF ListApi, Goto, m
<1> QED
  BY <1>1, <1>2, <1>9, <1>10, CallStep DEF ListApi

\* A listing writes one row.
LEMMA ListStoreStep ==
    ASSUME DriveInv, OwnKey, NEW c \in Callers, ListStore(c)
    PROVE  DriveInv'
<1>1. PICK k : k = call[c]
  OBVIOUS
<1>2. /\ k \in Calls /\ k.pc = "listed" /\ Stage(k) /\ HeldFine(k) /\ k.op = "list"
  BY <1>1 DEF DriveInv, Typed, CallFine, ListStore, Stage
<1>3. PICK j \in k.todo :
        /\ ids' = [ids EXCEPT ![Append(k.path, obj[j].name)] = j]
        /\ call' = [call EXCEPT ![c] = IF k.todo = {j} THEN Idle ELSE [k EXCEPT !.todo = @ \ {j}]]
  BY <1>1 DEF ListStore, Goto
<1> DEFINE q == Append(k.path, obj[j].name)
           m == [k EXCEPT !.todo = @ \ {j}]
<1>4. j \in Ids /\ Sits(j, q)
  BY <1>2, SpotIds DEF HeldFine
<1>5. obj[j].name \in Names /\ (obj[j].parent = Top => <<obj[j].name>> \in Paths)
  BY <1>4, Objects, NotIds DEF DriveInv, DriveShape, Sits, Live
<1>6. k.path = <<>> \/ (k.path \in Paths /\ k.path = <<k.path[1]>>)
  BY <1>2 DEF Stage
<1>7. Under(k.path, q) /\ q # <<RootName>>
  <2>1. Under(k.path, q)
    BY <1>5, <1>6, EntryFacts
  <2>2. CASE k.path = <<>>
    <3>1. q = <<obj[j].name>>
      BY <1>5, <2>2, EntryFacts
    <3>2. obj[j].parent = Top
      BY <1>4, <3>1, TupleFacts DEF Sits
    <3> QED
      BY <1>5, <2>1, <3>1, <3>2 DEF OwnKey
  <2>3. CASE k.path # <<>>
    <3>1. q = <<k.path[1], obj[j].name>>
      BY <1>5, <1>6, <2>3, EntryFacts
    <3> QED
      BY <2>1, <3>1, TupleFacts
  <2> QED
    BY <2>2, <2>3
<1>8. m \in Calls
  BY <1>2 DEF Calls
<1>9. /\ m.op = k.op /\ m.path = k.path /\ m.dst = k.dst /\ m.par = k.par /\ m.id = k.id
      /\ m.pc = k.pc /\ m.ver = k.ver /\ m.want = k.want /\ m.todo \subseteq k.todo
  BY <1>2 DEF Calls
<1> HIDE DEF m, q
<1>10. Stage(m) /\ HeldFine(m) /\ WalkFine(m)
  BY <1>2, <1>9 DEF Stage, HeldFine, WalkFine, Looks, Early, Removes
<1>11. Follows(m, k) /\ Follows(Idle, k)
  BY <1>2, <1>8, <1>9, <1>10, IdleFine DEF Follows, Early, Looks
<1>12. /\ ids' \in [Keys -> Ids \cup {None, Top}] /\ ids'[<<RootName>>] = Top
       /\ \A p \in Paths : ids'[p] # ids[p] => p = q /\ ids'[p] = j
  BY <1>3, <1>4, <1>7 DEF DriveInv, Typed, Keys, q
<1>13. call' = [call EXCEPT ![c] = m] \/ call' = [call EXCEPT ![c] = Idle]
  BY <1>3 DEF m
<1>14. k.path \in Ends(k) /\ ~Removes(k.op) /\ k.op # "none" /\ k.pc # "unmap"
  BY <1>2 DEF Ends, Removes
<1>15. obj' = obj /\ rootID' = rootID
  BY DEF ListStore
<1> QED
  BY <1>1, <1>4, <1>7, <1>11, <1>12, <1>13, <1>14, <1>15, TableStep

\* Delete and Rename drop the row of the old path.
LEMMA UnmapStep ==
    ASSUME DriveInv, OwnKey, NEW c \in Callers, Unmap(c)
    PROVE  DriveInv'
<1>1. PICK k : k = call[c]
  OBVIOUS
<1>2. /\ k \in Calls /\ k.pc = "unmap" /\ Stage(k) /\ HeldFine(k) /\ k.path \in Paths
      /\ k.op \in {"delete", "rename"}
  BY <1>1 DEF DriveInv, Typed, CallFine, Unmap, Stage, Removes
<1> DEFINE m == [k EXCEPT !.pc = "map"]
<1>3. m \in Calls
  BY <1>2 DEF Calls
<1>4. /\ m.op = k.op /\ m.path = k.path /\ m.dst = k.dst /\ m.par = k.par /\ m.id = k.id
      /\ m.pc = "map" /\ m.ver = k.ver
  BY <1>2 DEF Calls
<1> HIDE DEF m
<1>5. k.op = "rename" => Stage(m) /\ HeldFine(m) /\ WalkFine(m)
  BY <1>2, <1>4 DEF Stage, HeldFine, WalkFine, Looks, Early, Target
<1>6. (k.op = "rename" => Follows(m, k)) /\ Follows(Idle, k)
  BY <1>3, <1>4, <1>5, IdleFine DEF Follows, Early, Looks
<1>7. /\ ids' \in [Keys -> Ids \cup {None, Top}] /\ ids'[<<RootName>>] = Top
      /\ \A p \in Paths : ids'[p] # ids[p] => ids'[p] = None
      /\ ids'[k.path] = None /\ obj' = obj /\ rootID' = rootID
  BY <1>1, <1>2 DEF DriveInv, Typed, Keys, OwnKey, Unmap
<1>8. CASE k.op = "rename"
  <2>1. call' = [call EXCEPT ![c] = m]
    BY <1>1, <1>8 DEF Unmap, Goto, m
  <2> QED
    BY <1>1, <1>6, <1>7, <1>8, <2>1, TableStep
<1>9. CASE k.op # "rename"
  <2>1. call' = [call EXCEPT ![c] = Idle]
    BY <1>1, <1>9 DEF Unmap, Goto
  <2> QED
    BY <1>1, <1>6, <1>7, <2>1, TableStep
<1> QED
  BY <1>8, <1>9

\* Mkdir and Rename write the row of the new path.
LEMMA MapStep ==
    ASSUME DriveInv, OwnKey, NEW c \in Callers, Map(c)
    PROVE  DriveInv'
<1>1. PICK k : k = call[c]
  OBVIOUS
<1>2. /\ k \in Calls /\ k.pc = "map" /\ k.op \in {"mkdir", "rename"} /\ Target(k) \in Paths
      /\ Sits(k.id, Target(k)) /\ k.id \in Ids
  BY <1>1, SpotIds DEF DriveInv, Typed, CallFine, Map, Stage, HeldFine, Target
<1>3. /\ ids' = [ids EXCEPT ![Target(k)] = k.id] /\ call' = [call EXCEPT ![c] = Idle]
      /\ obj' = obj /\ rootID' = rootID
  BY <1>1 DEF Map, Goto, Target
<1>4. /\ ids' \in [Keys -> Ids \cup {None, Top}] /\ ids'[<<RootName>>] = Top
      /\ \A p \in Paths : ids'[p] # ids[p] => p = Target(k) /\ ids'[p] = k.id
  BY <1>2, <1>3 DEF DriveInv, Typed, Keys, OwnKey
<1>5. Target(k) \in Ends(k) /\ Under(Target(k), Target(k))
  BY <1>2, PathShape, UnderOrder DEF Ends
<1>6. Follows(Idle, k)
  BY IdleFine DEF Follows
<1>7. \A q \in Paths : ids'[q] # ids[q] =>
          /\ Sits(ids'[q], q) /\ call[c].op # "none"
          /\ \E r \in Ends(call[c]) : Under(q, r) \/ Under(r, q)
  BY <1>1, <1>2, <1>4, <1>5
<1> QED
  BY <1>1, <1>2, <1>3, <1>4, <1>6, <1>7, TableStep

-----------------------------------------------------------------------------
(* Steps that change the objects.                                          *)

\* Nothing leaves its place except below the paths X.
Lossless(X) ==
    \A j \in Ids, q \in Places : Sits(j, q) /\ (\A p \in X : ~Under(p, q))
        => Sits(j, q)' /\ obj'[j].name = obj[j].name

\* Nothing gets a new place except below the paths Y.
Gains(Y) ==
    \A j \in Ids, q \in Places : Sits(j, q)' => Sits(j, q) \/ \E p \in Y : Under(p, q)

\* Object i is new, at path p.
Appears(i, p) ==
    /\ i \in Ids /\ ~Live(i) /\ \A j \in Ids \ {i} : obj'[j] = obj[j]
    /\ \A j, q : Sits(j, q)' <=> Sits(j, q) \/ (j = i /\ q = p)

\* File i is new, at path p with contents v.
NewFile(i, p, v) == Appears(i, p) /\ obj'[i].kind = "file" /\ obj'[i].ver = v

\* Object i and what is in it is gone.
Vanishes(i) ==
    \A j \in Ids : Live(j)' => obj'[j] = obj[j] /\ j # i /\ obj[j].parent # i

\* Object i and what is in it is at path d.
MovesTo(i, d) ==
    /\ Sits(i, d)' /\ \A q : Sits(i, q)' => q = d
    /\ \A j \in Ids \ {i} :
         /\ obj'[j] = obj[j]
         /\ obj[j].parent # i => \A q : Sits(j, q)' <=> Sits(j, q)
         /\ Live(j) /\ obj[j].parent = i => \A q : Sits(j, q)' <=> q = Append(d, obj[j].name)

\* A call whose paths are apart from the change keeps what it has found.
LEMMA OthersKept ==
    ASSUME DriveInv, NEW e \in Callers, call'[e] = call[e], ids' = ids,
           NEW X \in SUBSET Paths, NEW Y \in SUBSET Paths, Lossless(X), Gains(Y),
           call[e].op # "none" =>
              \A p \in X, r \in Ends(call[e]) : ~Under(p, r) /\ ~Under(r, p),
           Removes(call[e].op) =>
              \A p \in Y, r \in Ends(call[e]) : ~Under(p, r) /\ ~Under(r, p)
    PROVE  CallFine(e)'
<1>1. PICK k : k = call[e]
  OBVIOUS
<1>2. k \in Calls /\ Stage(k) /\ WalkFine(k) /\ HeldFine(k) /\ RemovalFine(k)
  BY <1>1 DEF DriveInv, Typed, CallFine
<1>3. Stage(call[e])'
  BY <1>1, <1>2 DEF Stage, Wanted
<1>4. CASE k.op = "none"
  <2>1. k.pc = "idle" /\ k.par = None
    BY <1>2, <1>4 DEF Stage, HeldFine
  <2>2. WalkFine(call[e])' /\ HeldFine(call[e])' /\ RemovalFine(call[e])'
    BY <1>1, <2>1 DEF WalkFine, HeldFine, RemovalFine, Early, Looks
  <2> QED
    BY <1>3, <2>2 DEF CallFine
<1>5. CASE k.op # "none"
  <2>1. Ends(k) \subseteq Places \cup {<<>>} /\ X \subseteq Places /\ Y \subseteq Places
    BY <1>2, PathShape DEF Ends, Target, Calls
  <2>2. ASSUME NEW q \in Places, NEW r \in Ends(k), Under(q, r) \/ Under(r, q), NEW j, Sits(j, q)
        PROVE  Sits(j, q)' /\ obj'[j].name = obj[j].name
    <3>1. \A p \in X : ~Under(p, q)
      BY <1>1, <1>5, <2>1, <2>2, UnderOrder
    <3>2. j \in Ids
      BY <2>2, SpotIds
    <3> QED
      BY <2>2, <3>1, <3>2 DEF Lossless
  <2>3. ASSUME NEW q \in Places \cup {<<>>}, NEW r \in Ends(k), Under(q, r), NEW j, Spot(q, j)
        PROVE  Spot(q, j)'
    BY <2>2, <2>3 DEF Spot
  <2>4. WalkFine(call[e])'
    <3>1. CASE k.pc \in {"walk", "store"}
      <4>1. /\ k.want \in Paths /\ k.seg \in 1..Len(k.want)
            /\ k.pc = "walk" => Spot(SubSeq(k.want, 1, k.seg - 1), k.at)
            /\ k.pc = "store" => Sits(k.at, SubSeq(k.want, 1, k.seg))
        BY <1>2, <3>1 DEF WalkFine, Calls
      <4>2. PICK r \in Ends(k) : Under(k.want, r)
        BY <1>2, <1>5, <3>1, WantedFacts DEF Stage, Looks
      <4>3. /\ SubSeq(k.want, 1, k.seg) \in Places /\ Under(SubSeq(k.want, 1, k.seg), k.want)
        BY <4>1, SegmentFacts, PathShape
      <4>4. /\ SubSeq(k.want, 1, k.seg - 1) \in Places \cup {<<>>}
            /\ Under(SubSeq(k.want, 1, k.seg - 1), k.want)
        <5>1. PICK t : t = SubSeq(k.want, 1, k.seg - 1) /\ t \in {<<>>, <<k.want[1]>>}
          BY <4>1, SegmentFacts
        <5>2. <<k.want[1]>> \in Places /\ k.want \in Places /\ k.want # <<>>
          BY <4>1, PathShape
        <5>3. t \in {<<>>, <<k.want[1]>>}
          BY <5>1
        <5>4. t \in Places \cup {<<>>} /\ Under(t, k.want)
          BY <5>2, <5>3, UnderMeans
        <5> QED
          BY <5>1, <5>4, Zenon
      <4>5. k.want \in Places /\ r \in Places \cup {<<>>}
        BY <2>1, <4>1, PathShape
      <4>6. Under(SubSeq(k.want, 1, k.seg), r) /\ Under(SubSeq(k.want, 1, k.seg - 1), r)
        <5>1. \A t \in Places \cup {<<>>} : Under(t, k.want) => Under(t, r)
          BY <4>2, <4>5, UnderOrder
        <5> QED
          BY <4>3, <4>4, <5>1, Zenon
      <4>7. /\ k.pc = "walk" => Spot(SubSeq(k.want, 1, k.seg - 1), k.at)'
            /\ k.pc = "store" => Sits(k.at, SubSeq(k.want, 1, k.seg))'
        BY <2>2, <2>3, <4>1, <4>3, <4>4, <4>6
      <4> QED
        BY <1>1, <1>2, <4>7 DEF WalkFine
    <3>2. CASE k.pc \notin {"walk", "store"}
      BY <1>1, <3>2 DEF WalkFine
    <3> QED
      BY <3>1, <3>2
  <2>5. HeldFine(call[e])'
    <3>1. k.path \in Ends(k) /\ k.path \in Places \cup {<<>>} /\ Under(k.path, k.path)
      BY <2>1, UnderOrder DEF Ends
    <3>2. /\ Target(k) \in Ends(k) /\ Target(k) \in Places \cup {<<>>} /\ Under(Target(k), Target(k))
      BY <2>1, UnderOrder DEF Ends
    <3>3. k.pc \in Early /\ k.id # None => Spot(k.path, k.id)'
      BY <1>2, <2>3, <3>1 DEF HeldFine
    <3>4. k.pc \in Early /\ k.par # None => Spot(Parent(Target(k)), k.par)'
      <4> SUFFICES ASSUME k.pc \in Early, k.par # None
                   PROVE  Spot(Parent(Target(k)), k.par)'
        OBVIOUS
      <4>1. Target(k) \in Paths /\ Spot(Parent(Target(k)), k.par)
        BY <1>2 DEF HeldFine, Stage, Target
      <4> QED
        BY <2>3, <3>2, <4>1, ParentFacts, PathShape
    <3>5. k.pc = "map" \/ (k.pc = "unmap" /\ k.op = "rename") => Sits(k.id, Target(k))'
      <4>1. k.pc = "map" \/ (k.pc = "unmap" /\ k.op = "rename") => Sits(k.id, Target(k))
        BY <1>2 DEF HeldFine
      <4> QED
        BY <2>2, <3>2, <4>1, SpotIds
    <3>6. k.pc = "listed" => \A j \in k.todo : Sits(j, Append(k.path, obj[j].name))'
      <4> SUFFICES ASSUME k.pc = "listed", NEW j \in k.todo
                   PROVE  Sits(j, Append(k.path, obj[j].name))'
        OBVIOUS
      <4>1. /\ Sits(j, Append(k.path, obj[j].name)) /\ j \in Ids
            /\ k.path = <<>> \/ (k.path \in Paths /\ k.path = <<k.path[1]>>)
        BY <1>2, SpotIds DEF HeldFine, Stage
      <4>2. obj[j].name \in Names
        BY <4>1, Objects DEF DriveInv, Sits
      <4>3. Append(k.path, obj[j].name) \in Places /\ Under(k.path, Append(k.path, obj[j].name))
        BY <4>1, <4>2, EntryFacts
      <4>4. PICK q : q = Append(k.path, obj[j].name)
        OBVIOUS
      <4>5. Sits(j, q)' /\ obj'[j].name = obj[j].name
        BY <2>2, <3>1, <4>1, <4>3, <4>4
      <4> QED
        BY <4>4, <4>5
    <3> QED
      BY <1>1, <1>2, <3>3, <3>4, <3>5, <3>6 DEF HeldFine, Target
  <2>6. RemovalFine(call[e])'
    <3> SUFFICES ASSUME k.pc \in Early, Removes(k.op), k.op = "rename", Len(k.dst) = 2
                 PROVE  Bare(k.path)'
      BY <1>1, <1>2 DEF RemovalFine
    <3>1. Bare(k.path) /\ k.path \in Ends(k)
      BY <1>2 DEF RemovalFine, Ends
    <3> SUFFICES ASSUME NEW i \in Ids, NEW q \in Places, Sits(i, q)', Under(k.path, q)
                 PROVE  q = k.path
      BY DEF Bare
    <3>2. \A p \in Y : ~Under(p, q)
      BY <1>1, <2>1, <3>1, UnderOrder
    <3> QED
      BY <3>1, <3>2 DEF Gains, Bare
  <2> QED
    BY <1>3, <2>4, <2>5, <2>6 DEF CallFine
<1> QED
  BY <1>4, <1>5

\* A request that changes objects, seen from everything but its own call.
LEMMA RequestStep ==
    ASSUME DriveInv, NEW c \in Callers, Changes(call[c].op), call[c].pc = "api",
           obj' \in [Ids -> Object \cup {Unused, Gone}], DriveShape', ids' = ids, rootID' = rootID,
           NEW k \in Calls, call' = [call EXCEPT ![c] = k],
           Lossless(IF Removes(call[c].op) THEN {call[c].path} ELSE {}),
           Gains({Target(call[c])}),
           \/ k = Idle /\ ~Removes(call[c].op)
           \/ /\ k.op = call[c].op /\ k.path = call[c].path /\ k.dst = call[c].dst
              /\ k.pc = IF Removes(call[c].op) THEN "unmap" ELSE "map"
              /\ Stage(k) /\ HeldFine(call[c])'
    PROVE  DriveInv'
<1>1. /\ call'[c] = k /\ \A e \in Callers \ {c} : call'[e] = call[e]
      /\ call' \in [Callers -> Calls]
  BY DEF DriveInv, Typed
<1>2. Typed'
  BY <1>1 DEF DriveInv, Typed
<1>3. (\A d, e \in Callers : d # e => Apart(call[d], call[e]))'
  BY ApartKept, IdleFine
<1>4. PICK X : X = IF Removes(call[c].op) THEN {call[c].path} ELSE {}
  OBVIOUS
<1>5. call[c].path \in Paths /\ Target(call[c]) \in Paths /\ call[c].op # "none"
  BY DEF DriveInv, CallFine, Stage, Target, Changes
<1>6. ASSUME NEW e \in Callers, e # c
      PROVE  CallFine(e)'
  <2>1. Apart(call[c], call[e])
    BY <1>6 DEF DriveInv
  <2>2. Target(call[c]) \in Ends(call[c]) /\ call[c].path \in Ends(call[c])
    BY DEF Ends
  <2>3. call[e].op # "none" => \A p \in X, r \in Ends(call[e]) : ~Under(p, r) /\ ~Under(r, p)
    BY <1>4, <1>5, <2>1, <2>2 DEF Apart
  <2>4. Removes(call[e].op) =>
          \A p \in {Target(call[c])}, r \in Ends(call[e]) : ~Under(p, r) /\ ~Under(r, p)
    BY <1>5, <2>1, <2>2 DEF Apart, Removes
  <2>5. X \subseteq Paths /\ Lossless(X)
    BY <1>4, <1>5
  <2> QED
    BY <1>1, <1>5, <1>6, <2>3, <2>4, <2>5, OthersKept
<1>7. CallFine(c)'
  <2>1. CASE k = Idle
    <3>1. Stage(k) /\ k.pc = "idle" /\ k.par = None
      BY <2>1, IdleFine
    <3>2. /\ Stage(call[c])' /\ WalkFine(call[c])' /\ HeldFine(call[c])' /\ RemovalFine(call[c])'
      BY <1>1, <3>1 DEF Stage, WalkFine, HeldFine, RemovalFine, Early, Looks, Wanted
    <3> QED
      BY <3>2 DEF CallFine
  <2>2. CASE k.pc \in {"unmap", "map"} /\ Stage(k) /\ HeldFine(call[c])'
    <3>1. Stage(call[c])' /\ WalkFine(call[c])' /\ RemovalFine(call[c])'
      BY <1>1, <2>2 DEF Stage, WalkFine, RemovalFine, Early, Looks, Wanted
    <3> QED
      BY <2>2, <3>1 DEF CallFine
  <2> QED
    BY <2>1, <2>2
<1>8. ASSUME NEW p \in Paths
      PROVE  RowFine(p)'
  <2>1. CASE ids[p] = None
    BY <2>1 DEF RowFine
  <2>2. CASE \E e \in Callers : call[e].pc = "unmap" /\ call[e].path = p
    BY <1>1, <2>2 DEF RowFine
  <2>3. CASE Sits(ids[p], p) /\ ids[p] # None
    <3>1. ids[p] \in Ids /\ p \in Places
      BY <2>3, SpotIds, PathShape
    <3>2. CASE Removes(call[c].op) /\ Under(call[c].path, p)
      <4>1. p = call[c].path
        BY <2>3, <3>2 DEF DriveInv, CallFine, RemovalFine, Early
      <4> QED
        BY <1>1, <3>2, <4>1 DEF RowFine
    <3>3. CASE ~(Removes(call[c].op) /\ Under(call[c].path, p))
      <4>1. Sits(ids[p], p)'
        <5>1. PICK i : i = ids[p]
          OBVIOUS
        <5>2. Sits(i, p)'
          BY <1>4, <2>3, <3>1, <3>3, <5>1 DEF Lossless
        <5> QED
          BY <5>1, <5>2
      <4> QED
        BY <4>1 DEF RowFine
    <3> QED
      BY <3>2, <3>3
  <2> QED
    BY <2>1, <2>2, <2>3 DEF DriveInv, RowFine
<1> QED
  BY <1>2, <1>3, <1>6, <1>7, <1>8 DEF DriveInv

\* Another client's change is apart from every call and from the table.
LEMMA PeerStep ==
    ASSUME DriveInv, NEW p \in Paths, NEW X \in SUBSET {p}, NEW Y \in SUBSET {p},
           obj' \in [Ids -> Object \cup {Unused, Gone}], DriveShape',
           UNCHANGED <<ids, rootID, call>>, Lossless(X), Gains(Y),
           (X = {} /\ Y = {}) \/ \A c \in Callers : ~Touches(call[c], p),
           \A q \in Paths : p \in X /\ Under(p, q) => ids[q] = None
    PROVE  DriveInv'
<1>1. Typed'
  BY DEF DriveInv, Typed
<1>2. (\A d, e \in Callers : d # e => Apart(call[d], call[e]))'
  BY DEF DriveInv, Apart, Ends, Target
<1>3. ASSUME NEW e \in Callers
      PROVE  CallFine(e)'
  <2>1. call[e].op # "none" =>
          \A q \in X \cup Y, r \in Ends(call[e]) : ~Under(q, r) /\ ~Under(r, q)
    BY DEF Touches, Ends, Target
  <2> QED
    BY <2>1, OthersKept DEF Removes
<1>4. ASSUME NEW q \in Paths
      PROVE  RowFine(q)'
  <2>1. CASE ids[q] = None \/ \E e \in Callers : call[e].pc = "unmap" /\ call[e].path = q
    BY <2>1 DEF RowFine
  <2>2. CASE Sits(ids[q], q) /\ ids[q] # None
    <3>1. PICK i : i = ids[q]
      OBVIOUS
    <3>2. i \in Ids /\ q \in Places
      BY <2>2, <3>1, SpotIds, PathShape
    <3>3. Sits(i, q)'
      BY <2>2, <3>1, <3>2 DEF Lossless
    <3> QED
      BY <3>1, <3>3 DEF RowFine
  <2> QED
    BY <2>1, <2>2 DEF DriveInv, RowFine
<1> QED
  BY <1>1, <1>2, <1>3, <1>4 DEF DriveInv

\* Contents may change as long as names and parents stay.
LEMMA SameTree ==
    ASSUME Typed, DriveShape,
           \A j \in Ids : /\ obj'[j].kind = obj[j].kind
                          /\ Live(j) => obj'[j].name = obj[j].name /\ obj'[j].parent = obj[j].parent
    PROVE  DriveShape' /\ Lossless({}) /\ Gains({})
<1>1. \A j : Live(j)' <=> Live(j)
  BY DEF Live
<1>2. \A j \in Ids : obj[j].kind = "dir" => Live(j)
  BY DEF Live
<1>3. DriveShape'
  BY <1>1, <1>2 DEF DriveShape
<1>4. \A j, q : Sits(j, q)' <=> Sits(j, q)
  <2> SUFFICES ASSUME NEW j, NEW q PROVE Sits(j, q)' <=> Sits(j, q)
    OBVIOUS
  <2>1. CASE ~Live(j)
    BY <1>1, <2>1 DEF Sits
  <2>2. CASE Live(j)
    <3>1. j \in Ids /\ obj'[j].name = obj[j].name /\ obj'[j].parent = obj[j].parent
      BY <2>2 DEF Live
    <3> QED
      BY <1>1, <1>2, <3>1 DEF Sits
  <2> QED
    BY <2>1, <2>2
<1>5. Lossless({}) /\ Gains({})
  BY <1>4 DEF Lossless, Gains, Sits
<1> QED
  BY <1>3, <1>5

\* A new object has the place that its parent and name give it.
LEMMA Created ==
    ASSUME Typed, DriveShape, NEW p \in Paths, NEW i \in Ids, obj[i] = Unused,
           NEW o \in Object, o.name = Name(p), Spot(Parent(p), o.parent), Folder(o.parent),
           obj' = [obj EXCEPT ![i] = o]
    PROVE  /\ obj' \in [Ids -> Object \cup {Unused, Gone}] /\ DriveShape'
           /\ Lossless({}) /\ Gains({p}) /\ Sits(i, p)' /\ Appears(i, p)
<1>1. obj' \in [Ids -> Object \cup {Unused, Gone}]
  BY DEF Typed
<1>2. /\ obj'[i] = o /\ \A j \in Ids \ {i} : obj'[j] = obj[j]
      /\ ~Live(i) /\ Live(i)' /\ \A j \in Ids \ {i} : Live(j)' <=> Live(j)
  BY DEF Typed, Live, Unused, Object
<1>3. \A j \in Ids : Live(j) => obj[j].parent # i
  BY <1>2, NotIds DEF DriveShape, Live
<1>4. ASSUME NEW j \in Ids \ {i}, NEW q
      PROVE  Sits(j, q)' <=> Sits(j, q)
  <2>1. CASE ~Live(j)
    BY <1>2, <2>1 DEF Sits
  <2>2. CASE Live(j)
    <3>1. obj'[j] = obj[j] /\ obj[j].parent # i /\ Live(j)'
      BY <1>2, <1>3, <2>2
    <3>2. obj[j].parent \in Ids => obj'[obj[j].parent] = obj[obj[j].parent]
      BY <1>2, <3>1
    <3> QED
      BY <2>2, <3>1, <3>2 DEF Sits
  <2> QED
    BY <2>1, <2>2
<1>5. /\ Sits(i, p)'
      /\ \/ o.parent = Top /\ <<o.name>> \in Paths
         \/ /\ o.parent \in Ids /\ obj'[o.parent].kind = "dir" /\ obj'[o.parent].parent = Top
  <2>1. CASE p = <<p[1]>>
    <3>1. Parent(p) = <<>> /\ o.name = p[1] /\ o.parent = Top
      BY <2>1, ParentFacts DEF Spot
    <3> QED
      BY <1>2, <2>1, <3>1 DEF Sits
  <2>2. CASE p = <<p[1], p[2]>>
    <3>1. Parent(p) = <<p[1]>> /\ o.name = p[2] /\ Sits(o.parent, <<p[1]>>)
      BY <2>2, ParentFacts, TupleFacts DEF Spot
    <3>2. o.parent \in Ids /\ obj[o.parent].kind = "dir" /\ o.parent # i
      BY <1>2, <3>1, NotIds DEF Folder, Sits, Live
    <3>3. obj[o.parent].parent = Top /\ obj[o.parent].name = p[1]
      BY <3>1, <3>2, TupleFacts DEF Sits
    <3>4. obj'[o.parent] = obj[o.parent]
      BY <1>2, <3>2
    <3> QED
      BY <1>2, <2>2, <3>1, <3>2, <3>3, <3>4 DEF Sits
  <2> QED
    BY <2>1, <2>2, PathShape
<1>6. DriveShape'
  <2> SUFFICES ASSUME NEW j \in Ids, Live(j)'
               PROVE  \/ obj'[j].parent = Top /\ <<obj'[j].name>> \in Paths
                      \/ /\ obj'[j].parent \in Ids /\ obj'[obj'[j].parent].kind = "dir"
                         /\ obj'[obj'[j].parent].parent = Top
    BY DEF DriveShape
  <2>1. CASE j = i
    BY <1>2, <1>5, <2>1
  <2>2. CASE j # i
    <3>1. Live(j) /\ obj'[j] = obj[j] /\ obj[j].parent # i
      BY <1>2, <1>3, <2>2
    <3>2. obj[j].parent \in Ids => obj'[obj[j].parent] = obj[obj[j].parent]
      BY <1>2, <3>1
    <3> QED
      BY <3>1, <3>2 DEF DriveShape
  <2> QED
    BY <2>1, <2>2
<1>7. Lossless({})
  BY <1>2, <1>4 DEF Lossless, Sits
<1>8. Gains({p})
  <2> SUFFICES ASSUME NEW j \in Ids, NEW q \in Places, Sits(j, q)'
               PROVE  Sits(j, q) \/ Under(p, q)
    BY DEF Gains
  <2>1. CASE j # i
    BY <1>4, <2>1
  <2>2. CASE j = i
    <3>1. q = p
      BY <1>5, <2>2, NotIds DEF Sits
    <3> QED
      BY <3>1, UnderOrder
  <2> QED
    BY <2>1, <2>2
<1>9. ASSUME NEW j, NEW q
      PROVE  Sits(j, q)' <=> Sits(j, q) \/ (j = i /\ q = p)
  <2>1. CASE j \in Ids \ {i}
    BY <1>4, <2>1
  <2>2. CASE j \notin Ids
    BY <2>2 DEF Sits, Live
  <2>3. CASE j = i
    <3>1. Sits(i, q)' => q = p
      BY <1>5, NotIds DEF Sits
    <3>2. ~Sits(i, q)
      BY <1>2 DEF Sits
    <3> QED
      BY <1>5, <2>3, <3>1, <3>2
  <2> QED
    BY <2>1, <2>2, <2>3
<1>10. Appears(i, p)
  BY <1>2, <1>9 DEF Appears
<1> QED
  BY <1>1, <1>5, <1>6, <1>7, <1>8, <1>10

\* What is erased is the object and what is below its place.
LEMMA ErasedBelow ==
    ASSUME Typed, DriveShape, NEW p \in Paths, NEW i, Sits(i, p), obj' = Erased(i)
    PROVE  /\ obj' \in [Ids -> Object \cup {Unused, Gone}] /\ DriveShape'
           /\ Lossless({p}) /\ Gains({}) /\ Vanishes(i)
<1>1. i \in Ids /\ Live(i) /\ i # Top
  BY NotIds DEF Sits, Live
<1>2. obj' \in [Ids -> Object \cup {Unused, Gone}]
  BY DEF Erased, Typed
<1>3. \A j : j \in Children(i) <=> Live(j) /\ obj[j].parent = i
  BY Objects DEF Children, Live
<1>4. \A e \in Children(i) : \A j : j \notin Children(e)
  <2> SUFFICES ASSUME NEW e \in Children(i), NEW j \in Children(e) PROVE FALSE
    OBVIOUS
  <2>1. e \in Ids /\ obj[e].parent = i /\ Live(j) /\ obj[j].parent = e
    BY <1>3, Objects DEF Children, Live
  <2> QED
    BY <1>1, <2>1, NotIds DEF DriveShape, Live
<1>5. Below(i) = Children(i)
  BY <1>4 DEF Below
<1>6. \A j \in Ids : obj'[j] = IF j = i \/ (Live(j) /\ obj[j].parent = i) THEN Gone ELSE obj[j]
  BY <1>3, <1>5 DEF Erased
<1>7. \A j \in Ids : /\ Live(j)' => Live(j) /\ obj'[j] = obj[j] /\ j # i /\ obj[j].parent # i
                     /\ obj'[j].kind = "dir" => obj'[j] = obj[j]
  BY <1>6 DEF Live, Gone
<1>8. ASSUME NEW d \in Ids, obj[d].kind = "dir", obj[d].parent = Top, d # i
      PROVE  obj'[d] = obj[d]
  BY <1>1, <1>6, <1>8
<1>9. DriveShape'
  <2> SUFFICES ASSUME NEW j \in Ids, Live(j)'
               PROVE  \/ obj'[j].parent = Top /\ <<obj'[j].name>> \in Paths
                      \/ /\ obj'[j].parent \in Ids /\ obj'[obj'[j].parent].kind = "dir"
                         /\ obj'[obj'[j].parent].parent = Top
    BY DEF DriveShape
  <2>1. Live(j) /\ obj'[j] = obj[j] /\ obj[j].parent # i
    BY <1>7
  <2> QED
    BY <1>8, <2>1 DEF DriveShape
<1>10. Lossless({p})
  <2> SUFFICES ASSUME NEW j \in Ids, NEW q \in Places, Sits(j, q), ~Under(p, q)
               PROVE  Sits(j, q)' /\ obj'[j].name = obj[j].name
    BY DEF Lossless
  <2>1. j # i
    BY <1>1, SitsOnce, UnderOrder, PathShape
  <2>2. obj[j].parent # i
    <3> SUFFICES ASSUME obj[j].parent = i PROVE FALSE
      OBVIOUS
    <3>1. q = <<obj[i].name, obj[j].name>> /\ obj[i].parent = Top
      BY <1>1 DEF Sits
    <3>2. p = <<obj[i].name>>
      BY <3>1, NotIds DEF Sits
    <3>3. q # <<>> /\ q[1] = obj[i].name /\ p \in Places
      BY <3>1, PathShape
    <3> QED
      BY <3>2, <3>3, UnderMeans
  <2>3. obj'[j] = obj[j]
    BY <1>6, <2>1, <2>2
  <2>4. CASE obj[j].parent = Top
    BY <2>3, <2>4, NotIds DEF Sits, Live
  <2>5. CASE obj[j].parent # Top
    <3>1. obj'[obj[j].parent] = obj[obj[j].parent]
      BY <1>8, <2>2, <2>5 DEF Sits
    <3> QED
      BY <2>3, <2>5, <3>1 DEF Sits, Live
  <2> QED
    BY <2>4, <2>5
<1>11. Gains({})
  <2> SUFFICES ASSUME NEW j \in Ids, NEW q \in Places, Sits(j, q)'
               PROVE  Sits(j, q)
    BY DEF Gains
  <2>1. Live(j) /\ obj'[j] = obj[j]
    BY <1>7 DEF Sits
  <2> QED
    BY <1>7, <2>1 DEF Sits
<1>12. Vanishes(i)
  BY <1>7 DEF Vanishes
<1> QED
  BY <1>2, <1>9, <1>10, <1>11, <1>12

\* What moves is the object and what is below its place, to below the new
\* one.
LEMMA MovedBelow ==
    ASSUME Typed, DriveShape, NEW p \in Paths, NEW d \in Paths, ~Under(p, d), ~Under(d, p),
           NEW i, Sits(i, p), NEW f, Spot(Parent(d), f), Folder(f), Len(d) = 2 => Bare(p),
           obj' = [obj EXCEPT ![i].name = Name(d), ![i].parent = f]
    PROVE  /\ obj' \in [Ids -> Object \cup {Unused, Gone}] /\ DriveShape'
           /\ Lossless({p}) /\ Gains({d}) /\ Sits(i, d)' /\ MovesTo(i, d)
           /\ obj'[i].kind = obj[i].kind /\ (obj[i].kind = "file" => obj'[i].ver = obj[i].ver)
<1>1. i \in Ids /\ Live(i) /\ i # Top /\ obj[i] \in Object
  BY NotIds, Objects DEF Sits, Live
<1>2. f \in Ids \cup {Top} /\ Name(d) \in Names
  BY SpotIds, PathShape
<1>3. PICK o : o = [obj[i] EXCEPT !.name = Name(d), !.parent = f]
  OBVIOUS
<1>4. o \in Object /\ o.kind = obj[i].kind /\ o.name = Name(d) /\ o.parent = f
  BY <1>1, <1>2, <1>3 DEF Object, Names
<1>5. obj' = [obj EXCEPT ![i] = o]
  BY <1>1, <1>3 DEF Typed
<1>6. /\ obj' \in [Ids -> Object \cup {Unused, Gone}]
      /\ obj'[i] = o /\ \A j \in Ids \ {i} : obj'[j] = obj[j]
      /\ \A j : Live(j)' <=> Live(j)
  BY <1>1, <1>4, <1>5 DEF Typed, Live
<1>7. /\ f # i
      /\ \/ f = Top /\ d = <<o.name>>
         \/ /\ f \in Ids /\ obj[f].kind = "dir" /\ obj[f].parent = Top
            /\ d = <<obj[f].name, o.name>> /\ Bare(p)
  <2>1. CASE d = <<d[1]>>
    <3>1. Parent(d) = <<>> /\ o.name = d[1] /\ f = Top
      BY <1>4, <2>1, ParentFacts DEF Spot
    <3> QED
      BY <1>1, <2>1, <3>1
  <2>2. CASE d = <<d[1], d[2]>>
    <3>1. Parent(d) = <<d[1]>> /\ o.name = d[2] /\ Sits(f, <<d[1]>>) /\ Bare(p)
      BY <1>4, <2>2, ParentFacts, TupleFacts DEF Spot
    <3>2. f \in Ids /\ obj[f].kind = "dir"
      BY <3>1, NotIds DEF Folder, Sits, Live
    <3>3. obj[f].parent = Top /\ obj[f].name = d[1]
      BY <3>1, TupleFacts DEF Sits
    <3>4. p # <<d[1]>>
      BY PathShape, UnderMeans
    <3>5. f # i
      BY <1>1, <3>1, <3>4, SitsOnce
    <3> QED
      BY <2>2, <3>1, <3>2, <3>3, <3>5
  <2> QED
    BY <2>1, <2>2, PathShape
<1>8. Sits(i, d)'
  BY <1>1, <1>4, <1>6, <1>7 DEF Sits
<1>9. ASSUME NEW j \in Ids, Live(j), obj[j].parent = i
      PROVE  f = Top /\ obj[i].kind = "dir" /\ obj[i].parent = Top
  <2>1. obj[i].kind = "dir" /\ obj[i].parent = Top
    BY <1>1, <1>9 DEF DriveShape
  <2>2. p = <<obj[i].name>>
    BY <2>1, NotIds DEF Sits
  <2>3. PICK q \in Places : q = <<obj[i].name, obj[j].name>> /\ Sits(j, q)
    BY <1>1, <1>9, <2>1, SitsOnce, NotIds DEF Sits
  <2>4. q # <<>> /\ q[1] = obj[i].name /\ q # p
    BY <2>2, <2>3, TupleFacts
  <2>5. Under(p, q)
    BY <2>2, <2>4, PathShape, UnderMeans
  <2>6. ~Bare(p)
    BY <2>3, <2>4, <2>5 DEF Bare
  <2> QED
    BY <1>7, <2>1, <2>6
<1>10. DriveShape'
  <2> SUFFICES ASSUME NEW j \in Ids, Live(j)
               PROVE  \/ obj'[j].parent = Top /\ <<obj'[j].name>> \in Paths
                      \/ /\ obj'[j].parent \in Ids /\ obj'[obj'[j].parent].kind = "dir"
                         /\ obj'[obj'[j].parent].parent = Top
    BY <1>6 DEF DriveShape
  <2>1. CASE j = i
    BY <1>4, <1>6, <1>7, <2>1
  <2>2. CASE j # i /\ obj[j].parent = i
    BY <1>1, <1>4, <1>6, <1>9, <2>2
  <2>3. CASE j # i /\ obj[j].parent # i
    <3>1. obj'[j] = obj[j]
      BY <1>6, <2>3
    <3>2. obj[j].parent \in Ids => obj'[obj[j].parent] = obj[obj[j].parent]
      BY <1>6, <2>3
    <3> QED
      BY <3>1, <3>2 DEF DriveShape
  <2> QED
    BY <2>1, <2>2, <2>3
<1>11. Lossless({p})
  <2> SUFFICES ASSUME NEW j \in Ids, NEW q \in Places, Sits(j, q), ~Under(p, q)
               PROVE  Sits(j, q)' /\ obj'[j].name = obj[j].name
    BY DEF Lossless
  <2>1. j # i
    BY <1>1, SitsOnce, UnderOrder, PathShape
  <2>2. obj[j].parent # i
    <3> SUFFICES ASSUME obj[j].parent = i PROVE FALSE
      OBVIOUS
    <3>1. q = <<obj[i].name, obj[j].name>> /\ obj[i].parent = Top
      BY <1>1 DEF Sits
    <3>2. p = <<obj[i].name>>
      BY <3>1, NotIds DEF Sits
    <3>3. q # <<>> /\ q[1] = obj[i].name /\ p \in Places
      BY <3>1, PathShape
    <3> QED
      BY <3>2, <3>3, UnderMeans
  <2>3. obj'[j] = obj[j]
    BY <1>6, <2>1
  <2>4. obj[j].parent \in Ids => obj'[obj[j].parent] = obj[obj[j].parent]
    BY <1>6, <2>2
  <2> QED
    BY <1>6, <2>3, <2>4 DEF Sits
<1>12. Gains({d})
  <2> SUFFICES ASSUME NEW j \in Ids, NEW q \in Places, Sits(j, q)'
               PROVE  Sits(j, q) \/ Under(d, q)
    BY DEF Gains
  <2>1. CASE j = i
    <3>1. q = d
      BY <1>8, <2>1, NotIds DEF Sits
    <3> QED
      BY <3>1, UnderOrder
  <2>2. CASE j # i /\ obj[j].parent = i
    <3>1. Live(j) /\ obj'[j] = obj[j]
      BY <1>6, <2>2 DEF Sits
    <3>2. f = Top /\ d = <<o.name>>
      BY <1>7, <1>9, <2>2, <3>1, NotIds
    <3>3. q = <<o.name, obj[j].name>>
      BY <1>1, <1>6, <2>2, <3>1 DEF Sits
    <3>4. q # <<>> /\ q[1] = o.name /\ d \in Places
      BY <3>3, PathShape
    <3> QED
      BY <3>2, <3>4, UnderMeans
  <2>3. CASE j # i /\ obj[j].parent # i
    <3>1. obj'[j] = obj[j]
      BY <1>6, <2>3
    <3>2. obj[j].parent \in Ids => obj'[obj[j].parent] = obj[obj[j].parent]
      BY <1>6, <2>3
    <3> QED
      BY <1>6, <3>1, <3>2 DEF Sits
  <2> QED
    BY <2>1, <2>2, <2>3
<1>13. \A q : Sits(i, q)' => q = d
  BY <1>8, NotIds DEF Sits
<1>14. ASSUME NEW j \in Ids \ {i}, obj[j].parent # i, NEW q
       PROVE  Sits(j, q)' <=> Sits(j, q)
  <2>1. obj'[j] = obj[j]
    BY <1>6
  <2>2. obj[j].parent \in Ids => obj'[obj[j].parent] = obj[obj[j].parent]
    BY <1>6, <1>14
  <2> QED
    BY <1>6, <2>1, <2>2 DEF Sits
<1>15. ASSUME NEW j \in Ids \ {i}, Live(j), obj[j].parent = i, NEW q
       PROVE  Sits(j, q)' <=> q = Append(d, obj[j].name)
  <2>1. f = Top /\ obj[i].kind = "dir"
    BY <1>9, <1>15
  <2>2. d = <<o.name>>
    BY <1>7, <2>1, NotIds
  <2>3. Append(d, obj[j].name) = <<o.name, obj[j].name>>
    BY <2>2, TupleFacts
  <2>4. obj'[j] = obj[j] /\ obj'[i] = o /\ o.kind = "dir" /\ o.parent = Top /\ Live(j)'
    BY <1>4, <1>6, <1>15, <2>1
  <2> QED
    BY <1>1, <1>15, <2>3, <2>4 DEF Sits
<1>16. MovesTo(i, d)
  BY <1>6, <1>8, <1>13, <1>14, <1>15 DEF MovesTo
<1>17. obj'[i].kind = obj[i].kind /\ (obj[i].kind = "file" => obj'[i].ver = obj[i].ver)
  BY <1>1, <1>3, <1>6 DEF Object
<1> QED
  BY <1>6, <1>8, <1>10, <1>11, <1>12, <1>16, <1>17

-----------------------------------------------------------------------------
(* The actions that change objects, begin calls or restart.                *)

\* What a call that sends its request holds.
LEMMA RequestHolds ==
    ASSUME DriveInv, NEW c \in Callers, call[c].pc = "api", Changes(call[c].op)
    PROVE  /\ Typed /\ DriveShape /\ call[c] \in Calls /\ call[c].path \in Paths /\ Target(call[c]) \in Paths
           /\ call[c].id # None => Sits(call[c].id, call[c].path)
           /\ Removes(call[c].op) => call[c].id # None
           /\ call[c].op # "delete" => Spot(Parent(Target(call[c])), call[c].par)
<1>1. call[c].path \in Paths /\ Target(call[c]) \in Paths /\ call[c].path # <<>>
  BY PathShape DEF DriveInv, CallFine, Stage, Target, Changes
<1>2. call[c].id # None => Sits(call[c].id, call[c].path)
  BY <1>1 DEF DriveInv, CallFine, HeldFine, Early, Spot
<1>3. Removes(call[c].op) => call[c].id # None
  BY DEF DriveInv, CallFine, HeldFine, Removes
<1>4. call[c].op # "delete" => Spot(Parent(Target(call[c])), call[c].par)
  BY DEF DriveInv, CallFine, HeldFine, Early, Changes
<1> QED
  BY <1>1, <1>2, <1>3, <1>4 DEF DriveInv, Typed

\* The reply of a request arrives.
LEMMA AnswerArrives ==
    ASSUME Quiet, NEW c, NEW k, Answered(c, k)
    PROVE  call' = [call EXCEPT ![c] = k]
BY DEF Quiet, Answered, Goto

\* The name of an object is the last one of its path.
LEMMA NameFits ==
    ASSUME NEW p \in Paths, NEW i, Sits(i, p)
    PROVE  obj[i].name = Name(p)
<1>1. CASE p = <<p[1]>>
  <2>1. Name(p) = p[1] /\ Len(p) = 1
    BY <1>1, ParentFacts
  <2>2. p # <<obj[obj[i].parent].name, obj[i].name>>
    BY <2>1, TupleFacts
  <2> QED
    BY <2>1, <2>2 DEF Sits
<1>2. CASE p = <<p[1], p[2]>>
  <2>1. Name(p) = p[2] /\ Len(p) = 2
    BY <1>2, ParentFacts, TupleFacts
  <2>2. p # <<obj[i].name>>
    BY <2>1, TupleFacts
  <2>3. p = <<obj[obj[i].parent].name, obj[i].name>>
    BY <2>2 DEF Sits
  <2> QED
    BY <2>1, <2>3
<1> QED
  BY <1>1, <1>2, PathShape

\* Put of a file that was found changes what is at its path.
LEMMA PutUpdateEffect ==
    ASSUME DriveInv, Quiet, NEW c \in Callers, NEW k, k = call[c], PutUpdate(c)
    PROVE  /\ k.op = "put" /\ k.pc = "api" /\ k.ver \in Vers
           /\ k.path \in Paths /\ Sits(k.id, k.path)
           /\ obj[k.id].kind = "file" /\ obj'[k.id].kind = "file"
           /\ obj'[k.id].ver = k.ver
           /\ \A j \in Ids \ {k.id} : obj'[j] = obj[j]
           /\ obj' \in [Ids -> Object \cup {Unused, Gone}]
           /\ DriveShape' /\ Lossless({}) /\ Gains({})
           /\ call' = [call EXCEPT ![c] = Idle] /\ ids' = ids /\ rootID' = rootID
<1>1. k = call[c]
  OBVIOUS
<1>2. k.op = "put" /\ k.pc = "api" /\ k.id # None /\ ~Removes(k.op) /\ Changes(k.op)
  BY <1>1 DEF PutUpdate, Removes, Changes
<1>3. /\ Typed /\ DriveShape /\ k \in Calls /\ k.path \in Paths /\ Sits(k.id, k.path)
      /\ k.id \in Ids /\ k.ver \in Vers
  BY <1>1, <1>2, RequestHolds, SpotIds DEF DriveInv, CallFine, Stage
<1>4. obj[k.id].name = Name(k.path)
  BY <1>3, NameFits
<1>5. obj[k.id].kind = "file" /\ obj[k.id] \in Object
  BY <1>1, <1>3, Objects DEF PutUpdate, Sits
<1>6. PICK o : o = [obj[k.id] EXCEPT !.ver = k.ver, !.name = Name(k.path)]
  OBVIOUS
<1>7. /\ o \in Object /\ o.kind = "file" /\ o.name = obj[k.id].name /\ o.parent = obj[k.id].parent
      /\ o.ver = k.ver
  BY <1>3, <1>4, <1>5, <1>6 DEF Object
<1>8. obj' = [obj EXCEPT ![k.id] = o]
  BY <1>1, <1>3, <1>6 DEF PutUpdate, Typed
<1>9. /\ obj' \in [Ids -> Object \cup {Unused, Gone}]
      /\ \A j \in Ids : /\ obj'[j].kind = obj[j].kind
                        /\ obj'[j].name = obj[j].name /\ obj'[j].parent = obj[j].parent
  BY <1>3, <1>5, <1>7, <1>8 DEF Typed
<1>10. DriveShape' /\ Lossless({}) /\ Gains({})
  BY <1>3, <1>9, SameTree
<1>11. call' = [call EXCEPT ![c] = Idle] /\ ids' = ids /\ rootID' = rootID
  BY AnswerArrives DEF PutUpdate
<1>12. /\ obj'[k.id] = o /\ \A j \in Ids \ {k.id} : obj'[j] = obj[j]
  BY <1>3, <1>8 DEF Typed
<1> QED
  BY <1>1, <1>2, <1>3, <1>5, <1>7, <1>9, <1>10, <1>11, <1>12

\* It changes no place.
LEMMA PutUpdateStep ==
    ASSUME DriveInv, Quiet, NEW c \in Callers, PutUpdate(c)
    PROVE  DriveInv'
<1>1. PICK k : k = call[c]
  OBVIOUS
<1>2. /\ Gains({}) => Gains({Target(k)})
      /\ k.op = "put" => Changes(k.op) /\ ~Removes(k.op)
  BY DEF Gains, Changes, Removes
<1> QED
  BY <1>1, <1>2, PutUpdateEffect, IdleFine, RequestStep

\* Put of a file that was not found makes a new one at its path.
LEMMA PutCreateEffect ==
    ASSUME DriveInv, Quiet, NEW c \in Callers, NEW k, k = call[c], PutCreate(c)
    PROVE  /\ k.op = "put" /\ k.pc = "api" /\ k.id = None
           /\ k.path \in Paths /\ k.ver \in Vers
           /\ Spot(Parent(k.path), k.par) /\ Folder(k.par)
           /\ \E i \in Ids : NewFile(i, k.path, k.ver)
           /\ obj' \in [Ids -> Object \cup {Unused, Gone}]
           /\ DriveShape' /\ Lossless({}) /\ Gains({k.path})
           /\ call' = [call EXCEPT ![c] = Idle] /\ ids' = ids /\ rootID' = rootID
<1>1. k = call[c]
  OBVIOUS
<1>2. /\ k.op = "put" /\ k.pc = "api" /\ ~Removes(k.op) /\ Changes(k.op) /\ Target(k) = k.path
  BY <1>1 DEF PutCreate, Removes, Changes, Target
<1>3. /\ Typed /\ DriveShape /\ k.path \in Paths /\ Spot(Parent(k.path), k.par) /\ k.ver \in Vers
  BY <1>1, <1>2, RequestHolds DEF DriveInv, CallFine, Stage
<1>4. PICK i \in Fresh : obj' = [obj EXCEPT ![i] = [kind |-> "file", parent |-> k.par,
                                                    name |-> Name(k.path), ver |-> k.ver]]
  BY <1>1 DEF PutCreate
<1>5. PICK o : o = [kind |-> "file", parent |-> k.par, name |-> Name(k.path), ver |-> k.ver]
  OBVIOUS
<1>6. /\ o \in Object /\ o.name = Name(k.path) /\ o.parent = k.par /\ Folder(k.par)
      /\ o.kind = "file" /\ o.ver = k.ver
  BY <1>1, <1>3, <1>5, SpotIds DEF Object, PutCreate
<1>7. i \in Ids /\ obj[i] = Unused /\ obj' = [obj EXCEPT ![i] = o]
  BY <1>4, <1>5 DEF Fresh
<1>8. /\ obj' \in [Ids -> Object \cup {Unused, Gone}] /\ DriveShape'
      /\ Lossless({}) /\ Gains({k.path}) /\ Appears(i, k.path) /\ obj'[i] = o
  BY <1>3, <1>6, <1>7, Created DEF Typed
<1>9. call' = [call EXCEPT ![c] = Idle] /\ ids' = ids /\ rootID' = rootID
  BY AnswerArrives DEF PutCreate
<1>10. k.id = None
  BY <1>1 DEF PutCreate
<1>11. NewFile(i, k.path, k.ver)
  BY <1>6, <1>8 DEF NewFile
<1> QED
  BY <1>1, <1>2, <1>3, <1>6, <1>7, <1>8, <1>9, <1>10, <1>11

\* It changes no other place.
LEMMA PutCreateStep ==
    ASSUME DriveInv, Quiet, NEW c \in Callers, PutCreate(c)
    PROVE  DriveInv'
<1>1. PICK k : k = call[c]
  OBVIOUS
<1>2. k.op = "put" => Changes(k.op) /\ ~Removes(k.op) /\ Target(k) = k.path
  BY DEF Changes, Removes, Target
<1> QED
  BY <1>1, <1>2, PutCreateEffect, IdleFine, RequestStep

\* Call k with the directory made.
Made(k, i) == [k EXCEPT !.pc = "map", !.id = i]

\* Directory i is new, and goroutine c knows it.
MadeBy(c, k, i) ==
    Appears(i, k.path) /\ obj'[i].kind = "dir" /\ call' = [call EXCEPT ![c] = Made(k, i)]

\* Mkdir makes a new directory at its path.
LEMMA MkdirApiEffect ==
    ASSUME DriveInv, Quiet, NEW c \in Callers, NEW k, k = call[c], MkdirApi(c)
    PROVE  /\ k.op = "mkdir" /\ k.pc = "api" /\ k.path \in Paths
           /\ Spot(Parent(k.path), k.par) /\ Folder(k.par)
           /\ \E i \in Ids : MadeBy(c, k, i)
           /\ obj' \in [Ids -> Object \cup {Unused, Gone}]
           /\ DriveShape' /\ Lossless({}) /\ Gains({k.path})
           /\ ids' = ids /\ rootID' = rootID
<1>1. k = call[c]
  OBVIOUS
<1>2. /\ k.op = "mkdir" /\ k.pc = "api" /\ ~Removes(k.op) /\ Changes(k.op) /\ Target(k) = k.path
  BY <1>1 DEF MkdirApi, Removes, Changes, Target
<1>3. /\ Typed /\ DriveShape /\ k.path \in Paths /\ Spot(Parent(k.path), k.par) /\ k \in Calls /\ Stage(k)
  BY <1>1, <1>2, RequestHolds DEF DriveInv, CallFine
<1>4. PICK i \in Fresh :
        /\ obj' = [obj EXCEPT ![i] = [kind |-> "dir", parent |-> k.par, name |-> Name(k.path)]]
        /\ Answered(c, Made(k, i))
  BY <1>1, Zenon DEF MkdirApi, Made
<1>5. PICK o : o = [kind |-> "dir", parent |-> k.par, name |-> Name(k.path)]
  OBVIOUS
<1>6. /\ o \in Object /\ o.name = Name(k.path) /\ o.parent = k.par /\ Folder(k.par)
      /\ o.kind = "dir"
  BY <1>1, <1>3, <1>5, SpotIds DEF Object, MkdirApi
<1>7. i \in Ids /\ obj[i] = Unused /\ obj' = [obj EXCEPT ![i] = o]
  BY <1>4, <1>5 DEF Fresh
<1>8. /\ obj' \in [Ids -> Object \cup {Unused, Gone}] /\ DriveShape'
      /\ Lossless({}) /\ Gains({k.path}) /\ Sits(i, k.path)' /\ Appears(i, k.path)
      /\ obj'[i] = o
  BY <1>3, <1>6, <1>7, Created DEF Typed
<1>9. /\ call' = [call EXCEPT ![c] = Made(k, i)]
      /\ ids' = ids /\ rootID' = rootID
  BY <1>1, <1>4, AnswerArrives DEF MkdirApi
<1>10. MadeBy(c, k, i)
  BY <1>6, <1>8, <1>9 DEF MadeBy
<1> QED
  BY <1>1, <1>2, <1>3, <1>6, <1>7, <1>8, <1>9, <1>10

\* It changes no other place.
LEMMA MkdirApiStep ==
    ASSUME DriveInv, Quiet, NEW c \in Callers, MkdirApi(c)
    PROVE  DriveInv'
<1>1. PICK k : k = call[c]
  OBVIOUS
<1>2. /\ k.op = "mkdir" /\ k.pc = "api" /\ ~Removes(k.op) /\ Changes(k.op) /\ Target(k) = k.path
  BY <1>1 DEF MkdirApi, Removes, Changes, Target
<1>3. k \in Calls /\ Stage(k)
  BY <1>1 DEF DriveInv, Typed, CallFine
<1>0. PICK i \in Ids : MadeBy(c, k, i)
  BY <1>1, MkdirApiEffect
<1>4. Sits(i, k.path)'
  BY <1>0 DEF MadeBy, Appears
<1> DEFINE m == [k EXCEPT !.pc = "map", !.id = i]
<1>5. m \in Calls
  BY <1>3 DEF Calls
<1>6. /\ m.op = k.op /\ m.path = k.path /\ m.dst = k.dst /\ m.par = k.par /\ m.id = i
      /\ m.pc = "map" /\ m.ver = k.ver
  BY <1>3 DEF Calls
<1>7. call' = [call EXCEPT ![c] = m]
  BY <1>1, <1>0 DEF MadeBy, Made
<1> HIDE DEF m
<1>8. Stage(m)
  BY <1>2, <1>3, <1>6 DEF Stage, Looks
<1>9. HeldFine(call[c])'
  <2>1. call'[c] = m
    BY <1>7 DEF DriveInv, Typed
  <2> QED
    BY <1>2, <1>4, <1>6, <2>1 DEF HeldFine, Early, Looks, Target
<1>10. /\ obj' \in [Ids -> Object \cup {Unused, Gone}] /\ DriveShape'
       /\ Lossless({}) /\ Gains({k.path}) /\ ids' = ids /\ rootID' = rootID
  BY <1>1, MkdirApiEffect
<1> QED
  BY <1>1, <1>2, <1>5, <1>6, <1>7, <1>8, <1>9, <1>10, RequestStep

\* Delete erases the object at its path.
LEMMA DeleteApiEffect ==
    ASSUME DriveInv, Quiet, NEW c \in Callers, NEW k, k = call[c], DeleteApi(c)
    PROVE  /\ k.op = "delete" /\ k.pc = "api" /\ k.path \in Paths
           /\ Sits(k.id, k.path) /\ Vanishes(k.id)
           /\ obj' \in [Ids -> Object \cup {Unused, Gone}]
           /\ DriveShape' /\ Lossless({k.path}) /\ Gains({})
           /\ call' = [call EXCEPT ![c] = [k EXCEPT !.pc = "unmap"]] /\ ids' = ids /\ rootID' = rootID
<1>1. k = call[c]
  OBVIOUS
<1>2. k.op = "delete" /\ k.pc = "api" /\ Removes(k.op) /\ Changes(k.op)
  BY <1>1 DEF DeleteApi, Removes, Changes
<1>3. Typed /\ DriveShape /\ k.path \in Paths /\ Sits(k.id, k.path)
  BY <1>1, <1>2, RequestHolds
<1>4. /\ obj' \in [Ids -> Object \cup {Unused, Gone}] /\ DriveShape'
      /\ Lossless({k.path}) /\ Gains({}) /\ Vanishes(k.id)
  BY <1>1, <1>3, ErasedBelow DEF DeleteApi
<1>5. call' = [call EXCEPT ![c] = [k EXCEPT !.pc = "unmap"]] /\ ids' = ids /\ rootID' = rootID
  BY <1>1, AnswerArrives DEF DeleteApi
<1> QED
  BY <1>1, <1>2, <1>3, <1>4, <1>5

\* It changes no place that is not below.
LEMMA DeleteApiStep ==
    ASSUME DriveInv, Quiet, NEW c \in Callers, DeleteApi(c)
    PROVE  DriveInv'
<1>1. PICK k : k = call[c]
  OBVIOUS
<1>2. /\ k.op = "delete" /\ k.pc = "api" /\ Removes(k.op) /\ Changes(k.op) /\ Target(k) = k.path
  BY <1>1 DEF DeleteApi, Removes, Changes, Target
<1>3. /\ Typed /\ DriveShape /\ k.path \in Paths /\ Sits(k.id, k.path) /\ k \in Calls /\ Stage(k)
      /\ HeldFine(k)
  BY <1>1, <1>2, RequestHolds DEF DriveInv, CallFine
<1>4. /\ obj' \in [Ids -> Object \cup {Unused, Gone}] /\ DriveShape'
      /\ Lossless({k.path}) /\ Gains({})
  BY <1>1, DeleteApiEffect
<1>5. Gains({k.path})
  BY <1>4 DEF Gains
<1> DEFINE m == [k EXCEPT !.pc = "unmap"]
<1>6. m \in Calls
  BY <1>3 DEF Calls
<1>7. /\ m.op = k.op /\ m.path = k.path /\ m.dst = k.dst /\ m.par = k.par /\ m.id = k.id
      /\ m.pc = "unmap" /\ m.ver = k.ver
  BY <1>3 DEF Calls
<1>8. call' = [call EXCEPT ![c] = m] /\ ids' = ids /\ rootID' = rootID
  BY <1>1, DeleteApiEffect
<1> HIDE DEF m
<1>9. Stage(m)
  BY <1>2, <1>3, <1>7 DEF Stage, Looks
<1>10. HeldFine(call[c])'
  <2>1. call'[c] = m
    BY <1>8 DEF DriveInv, Typed
  <2>2. k.par = None
    BY <1>2, <1>3 DEF HeldFine
  <2> QED
    BY <1>2, <1>7, <2>1, <2>2 DEF HeldFine, Early, Looks
<1> QED
  BY <1>1, <1>2, <1>4, <1>5, <1>6, <1>7, <1>8, <1>9, <1>10, RequestStep

\* Rename moves the object at its path.
LEMMA RenameApiEffect ==
    ASSUME DriveInv, Quiet, NEW c \in Callers, NEW k, k = call[c], RenameApi(c)
    PROVE  /\ k.op = "rename" /\ k.pc = "api" /\ k.path \in Paths /\ k.dst \in Paths
           /\ ~Under(k.path, k.dst) /\ ~Under(k.dst, k.path)
           /\ Len(k.dst) = 2 => Bare(k.path)
           /\ Spot(Parent(k.dst), k.par) /\ Folder(k.par)
           /\ Sits(k.id, k.path) /\ MovesTo(k.id, k.dst)
           /\ obj'[k.id].kind = obj[k.id].kind
           /\ obj[k.id].kind = "file" => obj'[k.id].ver = obj[k.id].ver
           /\ obj' \in [Ids -> Object \cup {Unused, Gone}]
           /\ DriveShape' /\ Lossless({k.path}) /\ Gains({k.dst})
           /\ call' = [call EXCEPT ![c] = [k EXCEPT !.pc = "unmap"]] /\ ids' = ids /\ rootID' = rootID
<1>1. k = call[c]
  OBVIOUS
<1>2. k.op = "rename" /\ k.pc = "api" /\ Removes(k.op) /\ Changes(k.op) /\ Target(k) = k.dst
  BY <1>1 DEF RenameApi, Removes, Changes, Target
<1>3. /\ Typed /\ DriveShape /\ k.path \in Paths /\ Sits(k.id, k.path)
      /\ k.dst \in Paths /\ Spot(Parent(k.dst), k.par)
  BY <1>1, <1>2, RequestHolds
<1>4. ~Under(k.path, k.dst) /\ ~Under(k.dst, k.path) /\ (Len(k.dst) = 2 => Bare(k.path))
  BY <1>1, <1>2 DEF DriveInv, CallFine, RemovalFine, Stage, Early
<1>5. Folder(k.par) /\ obj' = [obj EXCEPT ![k.id].name = Name(k.dst), ![k.id].parent = k.par]
  BY <1>1 DEF RenameApi
<1>6. /\ obj' \in [Ids -> Object \cup {Unused, Gone}] /\ DriveShape'
      /\ Lossless({k.path}) /\ Gains({k.dst}) /\ MovesTo(k.id, k.dst)
      /\ obj'[k.id].kind = obj[k.id].kind /\ (obj[k.id].kind = "file" => obj'[k.id].ver = obj[k.id].ver)
  <2>1. PICK i, f, p, d : i = k.id /\ f = k.par /\ p = k.path /\ d = k.dst
    OBVIOUS
  <2>2. /\ p \in Paths /\ d \in Paths /\ ~Under(p, d) /\ ~Under(d, p) /\ Sits(i, p)
        /\ Spot(Parent(d), f) /\ Folder(f) /\ (Len(d) = 2 => Bare(p))
        /\ obj' = [obj EXCEPT ![i].name = Name(d), ![i].parent = f]
    BY <1>3, <1>4, <1>5, <2>1
  <2>3. /\ obj' \in [Ids -> Object \cup {Unused, Gone}] /\ DriveShape'
        /\ Lossless({p}) /\ Gains({d}) /\ MovesTo(i, d)
        /\ obj'[i].kind = obj[i].kind /\ (obj[i].kind = "file" => obj'[i].ver = obj[i].ver)
    BY <1>3, <2>2, MovedBelow, ZenonT(60)
  <2> QED
    BY <2>1, <2>3
<1>7. call' = [call EXCEPT ![c] = [k EXCEPT !.pc = "unmap"]] /\ ids' = ids /\ rootID' = rootID
  BY <1>1, AnswerArrives DEF RenameApi
<1> QED
  BY <1>1, <1>2, <1>3, <1>4, <1>5, <1>6, <1>7

\* It changes no place that is not below one of its paths.
LEMMA RenameApiStep ==
    ASSUME DriveInv, Quiet, NEW c \in Callers, RenameApi(c)
    PROVE  DriveInv'
<1>1. PICK k : k = call[c]
  OBVIOUS
<1>2. /\ k.op = "rename" /\ k.pc = "api" /\ Removes(k.op) /\ Changes(k.op) /\ Target(k) = k.dst
  BY <1>1 DEF RenameApi, Removes, Changes, Target
<1>3. k \in Calls /\ Stage(k)
  BY <1>1 DEF DriveInv, Typed, CallFine
<1>4. /\ obj' \in [Ids -> Object \cup {Unused, Gone}] /\ DriveShape'
      /\ Lossless({k.path}) /\ Gains({k.dst}) /\ Sits(k.id, k.dst)'
  BY <1>1, RenameApiEffect DEF MovesTo
<1> DEFINE m == [k EXCEPT !.pc = "unmap"]
<1>5. m \in Calls
  BY <1>3 DEF Calls
<1>6. /\ m.op = k.op /\ m.path = k.path /\ m.dst = k.dst /\ m.par = k.par /\ m.id = k.id
      /\ m.pc = "unmap" /\ m.ver = k.ver
  BY <1>3 DEF Calls
<1>7. call' = [call EXCEPT ![c] = m] /\ ids' = ids /\ rootID' = rootID
  BY <1>1, RenameApiEffect
<1> HIDE DEF m
<1>8. Stage(m)
  BY <1>2, <1>3, <1>6 DEF Stage, Looks
<1>9. HeldFine(call[c])'
  <2>1. call'[c] = m
    BY <1>7 DEF DriveInv, Typed
  <2> QED
    BY <1>2, <1>4, <1>6, <2>1 DEF HeldFine, Early, Looks, Target
<1> QED
  BY <1>1, <1>2, <1>4, <1>5, <1>6, <1>7, <1>8, <1>9, RequestStep

\* Another client writes a file.
LEMMA PeerWriteEffect ==
    ASSUME Typed, DriveShape, NEW i \in Ids, NEW v \in Vers, PeerWrite(i, v)
    PROVE  /\ Live(i) /\ obj[i].kind = "file" /\ obj'[i].kind = "file" /\ obj'[i].ver = v
           /\ \A j \in Ids \ {i} : obj'[j] = obj[j]
           /\ obj' \in [Ids -> Object \cup {Unused, Gone}]
           /\ DriveShape' /\ Lossless({}) /\ Gains({})
<1>1. obj[i] \in Object /\ obj[i].kind = "file" /\ Live(i)
  BY Objects DEF PeerWrite
<1>2. PICK o : o = [obj[i] EXCEPT !.ver = v]
  OBVIOUS
<1>3. o \in Object /\ o.kind = "file" /\ o.name = obj[i].name /\ o.parent = obj[i].parent /\ o.ver = v
  BY <1>1, <1>2 DEF Object
<1>4. obj' = [obj EXCEPT ![i] = o]
  BY <1>2 DEF PeerWrite, Typed
<1>5. /\ obj' \in [Ids -> Object \cup {Unused, Gone}]
      /\ obj'[i] = o /\ \A j \in Ids \ {i} : obj'[j] = obj[j]
      /\ \A j \in Ids : /\ obj'[j].kind = obj[j].kind
                        /\ obj'[j].name = obj[j].name /\ obj'[j].parent = obj[j].parent
  BY <1>1, <1>3, <1>4 DEF Typed
<1>6. DriveShape' /\ Lossless({}) /\ Gains({})
  BY <1>5, SameTree
<1> QED
  BY <1>1, <1>3, <1>5, <1>6

\* Another client creates a file.
LEMMA PeerCreateEffect ==
    ASSUME Typed, DriveShape, NEW p \in Paths, NEW v \in Vers, PeerCreate(p, v)
    PROVE  /\ \E i \in Ids : NewFile(i, p, v)
           /\ \E d : Spot(Parent(p), d) /\ Folder(d)
           /\ obj' \in [Ids -> Object \cup {Unused, Gone}]
           /\ DriveShape' /\ Lossless({}) /\ Gains({p})
<1>1. PICK i \in Fresh, d \in IF Len(p) = 1 THEN {Top}
                              ELSE {j \in At(Parent(p)) : obj[j].kind = "dir"} :
        obj' = [obj EXCEPT ![i] = [kind |-> "file", parent |-> d, name |-> Name(p), ver |-> v]]
  BY DEF PeerCreate
<1>2. Spot(Parent(p), d) /\ Folder(d)
  <2>1. CASE p = <<p[1]>>
    BY <1>1, <2>1, ParentFacts DEF Spot, Folder
  <2>2. CASE p = <<p[1], p[2]>>
    <3>1. d \in At(Parent(p)) /\ obj[d].kind = "dir" /\ Parent(p) = <<p[1]>> /\ <<p[1]>> \in Places
      BY <1>1, <2>2, ParentFacts, PathShape
    <3>2. Sits(d, Parent(p))
      BY <3>1, AtSits
    <3> QED
      BY <3>1, <3>2, SpotIds DEF Folder
  <2> QED
    BY <2>1, <2>2, PathShape
<1>3. PICK o : o = [kind |-> "file", parent |-> d, name |-> Name(p), ver |-> v]
  OBVIOUS
<1>4. o \in Object /\ o.name = Name(p) /\ o.parent = d /\ o.kind = "file" /\ o.ver = v
  BY <1>2, <1>3, SpotIds DEF Object
<1>5. i \in Ids /\ obj[i] = Unused /\ obj' = [obj EXCEPT ![i] = o] /\ d \in Ids \cup {Top}
  BY <1>1, <1>2, <1>3, SpotIds DEF Fresh
<1>6. /\ obj' \in [Ids -> Object \cup {Unused, Gone}] /\ DriveShape'
      /\ Lossless({}) /\ Gains({p}) /\ Appears(i, p) /\ obj'[i] = o
  BY <1>2, <1>4, <1>5, Created DEF Typed
<1>7. NewFile(i, p, v)
  BY <1>4, <1>6 DEF NewFile
<1> QED
  BY <1>2, <1>5, <1>6, <1>7

\* Another client deletes a file or a directory.
LEMMA PeerDeleteEffect ==
    ASSUME Typed, DriveShape, NEW p \in Paths, NEW i \in Ids, PeerDelete(p, i)
    PROVE  /\ Sits(i, p) /\ Vanishes(i)
           /\ obj' \in [Ids -> Object \cup {Unused, Gone}]
           /\ DriveShape' /\ Lossless({p}) /\ Gains({})
<1>1. Sits(i, p)
  BY AtSits, PathShape DEF PeerDelete
<1> QED
  BY <1>1, ErasedBelow DEF PeerDelete

\* Other clients.
LEMMA PeersStep ==
    ASSUME DriveInv, Quiet, Peer
    PROVE  DriveInv'
<1>1. Typed /\ DriveShape
  BY DEF DriveInv
<1>2. ASSUME NEW i \in Ids, NEW v \in Vers, PeerWrite(i, v)
      PROVE  DriveInv'
  <2>1. /\ obj' \in [Ids -> Object \cup {Unused, Gone}] /\ Live(i)
        /\ DriveShape' /\ Lossless({}) /\ Gains({})
    BY <1>1, <1>2, PeerWriteEffect
  <2>2. PICK q \in Places : Sits(i, q)
    BY <1>1, <2>1, SitsOnce
  <2>3. Paths # {}
    BY <2>2 DEF Places, Names
  <2> QED
    BY <1>2, <2>1, <2>3, PeerStep DEF PeerWrite
<1>3. ASSUME NEW p \in Paths, NEW v \in Vers, PeerCreate(p, v)
      PROVE  DriveInv'
  <2>1. /\ obj' \in [Ids -> Object \cup {Unused, Gone}] /\ DriveShape'
        /\ Lossless({}) /\ Gains({p})
    BY <1>1, <1>3, PeerCreateEffect
  <2> QED
    BY <1>3, <2>1, PeerStep DEF PeerCreate, Unheeded, Quiet
<1>4. ASSUME NEW p \in Paths, NEW i \in Ids, PeerDelete(p, i)
      PROVE  DriveInv'
  <2>1. /\ obj' \in [Ids -> Object \cup {Unused, Gone}] /\ DriveShape'
        /\ Lossless({p}) /\ Gains({})
    BY <1>1, <1>4, PeerDeleteEffect
  <2> QED
    BY <1>4, <2>1, PeerStep DEF PeerDelete, Unheeded, Quiet
<1> QED
  BY <1>2, <1>3, <1>4 DEF Peer

\* A call begins apart from those under way.
LEMMA BeginStep ==
    ASSUME DriveInv, Quiet, NEW c \in Callers,
           NEW op \in {"get", "list", "put", "mkdir", "delete", "rename"},
           NEW p \in Paths \cup {<<>>}, NEW d \in Paths \cup {<<>>}, NEW v \in Vers \cup {None},
           Begin(c, op, p, d, v, IF op \in {"put", "mkdir"} THEN Parent(p) ELSE p),
           op # "list" => p \in Paths,
           op = "list" => p = <<>> \/ p = <<p[1]>>,
           op = "rename" => d \in Paths /\ ~Under(p, d) /\ ~Under(d, p),
           op = "put" => v \in Vers,
           Removes(op) => \A q \in Paths : Under(p, q) /\ q # p => ids[q] = None,
           op = "rename" /\ Len(d) = 2 => Bare(p)
    PROVE  DriveInv'
<1> DEFINE want == IF op \in {"put", "mkdir"} THEN Parent(p) ELSE p
           k == [Idle EXCEPT !.op = op, !.path = p, !.dst = d, !.ver = v,
                             !.pc = "resolve", !.want = want]
<1>1. /\ call[c] = Idle /\ call' = [call EXCEPT ![c] = k] /\ UNCHANGED <<obj, ids, rootID>>
      /\ \A q \in {p} \cup IF op = "rename" THEN {d} ELSE {} : ~Overlaps(c, op, q)
  BY DEF Begin, Quiet
<1>2. want \in Paths \cup {<<>>}
  BY ParentFacts
<1>3. k \in Calls
  <2>1. Idle \in Calls
    BY IdleFine
  <2> HIDE DEF want
  <2> QED
    BY <1>2, <2>1, ZenonT(60) DEF Calls
<1>4. /\ k.op = op /\ k.path = p /\ k.dst = d /\ k.ver = v /\ k.pc = "resolve" /\ k.want = want
      /\ k.id = None /\ k.par = None
  BY DEF Idle
<1> HIDE DEF k, want
<1>5. /\ call'[c] = k /\ \A e \in Callers \ {c} : call'[e] = call[e]
      /\ call' \in [Callers -> Calls]
  BY <1>1, <1>3 DEF DriveInv, Typed
<1>6. Typed' /\ DriveShape'
  BY <1>1, <1>5, SameObjects DEF DriveInv, Typed
<1>7. ASSUME NEW e \in Callers, e # c
      PROVE  CallFine(e)'
  <2>1. Lossless({}) /\ Gains({})
    BY <1>1, SameObjects DEF Lossless, Gains
  <2> QED
    BY <1>1, <1>5, <1>7, <2>1, OthersKept
<1>8. CallFine(c)'
  <2>1. Stage(k) /\ WalkFine(k)
    BY <1>4 DEF Stage, WalkFine, Looks, Wanted, want, Removes
  <2>2. HeldFine(k)
    BY <1>4 DEF HeldFine
  <2>3. RemovalFine(k)
    BY <1>4 DEF RemovalFine
  <2>4. /\ Stage(call[c])' /\ WalkFine(call[c])' /\ HeldFine(call[c])' /\ RemovalFine(call[c])'
    BY <1>1, <1>4, <1>5, <2>1, <2>2, <2>3, SameObjects
       DEF Stage, WalkFine, HeldFine, RemovalFine, Wanted
  <2> QED
    BY <2>4 DEF CallFine
<1>9. ASSUME NEW e \in Callers, e # c
      PROVE  Apart(k, call[e]) /\ Apart(call[e], k)
  <2>1. \A q \in Ends(k) : ~Overlaps(c, op, q)
    BY <1>1, <1>4 DEF Ends, Target
  <2>2. \A q \in Ends(k), r \in Ends(call[e]) :
          /\ call[e].op # "none" /\ (Under(q, r) \/ Under(r, q))
          => ~Removes(op) /\ ~Removes(call[e].op) /\ ~(Changes(op) /\ Changes(call[e].op))
    BY <1>9, <2>1 DEF Overlaps, Touches, Ends, Target
  <2> QED
    BY <1>4, <2>2 DEF Apart
<1>10. (\A x, e \in Callers : x # e => Apart(call[x], call[e]))'
  <2> SUFFICES ASSUME NEW x \in Callers, NEW e \in Callers, x # e
               PROVE  Apart(call[x], call[e])'
    OBVIOUS
  <2>1. CASE x # c /\ e # c
    <3>1. Apart(call[x], call[e]) /\ call'[x] = call[x] /\ call'[e] = call[e]
      BY <1>5, <2>1 DEF DriveInv
    <3> QED
      BY <3>1 DEF Apart, Ends, Target
  <2>2. CASE x = c
    <3>1. Apart(k, call[e]) /\ call'[e] = call[e]
      BY <1>5, <1>9, <2>2
    <3> QED
      BY <1>5, <2>2, <3>1 DEF Apart, Ends, Target
  <2>3. CASE e = c
    <3>1. Apart(call[x], k) /\ call'[x] = call[x]
      BY <1>5, <1>9, <2>3
    <3> QED
      BY <1>5, <2>3, <3>1 DEF Apart, Ends, Target
  <2> QED
    BY <2>1, <2>2, <2>3
<1>11. ASSUME NEW q \in Paths
       PROVE  RowFine(q)'
  <2>1. RowFine(q) /\ call[c].pc = "idle"
    BY <1>1, IdleFine DEF DriveInv
  <2> QED
    BY <1>1, <1>5, <2>1, SameObjects DEF RowFine
<1> QED
  BY <1>6, <1>7, <1>8, <1>10, <1>11 DEF DriveInv

\* Every way to begin a call.
LEMMA StartStep ==
    ASSUME DriveInv, Quiet, NEW c \in Callers, Start(c) \/ Lists(c)
    PROVE  DriveInv'
<1>1. <<>> \in Paths \cup {<<>>} /\ None \in Vers \cup {None}
  OBVIOUS
<1>2. ASSUME NEW p \in Paths, GetBegin(c, p)
      PROVE  DriveInv'
  BY <1>1, <1>2, BeginStep DEF GetBegin, Removes
<1>3. ASSUME NEW p \in Paths, MkdirBegin(c, p)
      PROVE  DriveInv'
  BY <1>1, <1>3, BeginStep DEF MkdirBegin, Removes
<1>4. ASSUME NEW p \in Paths, DeleteBegin(c, p)
      PROVE  DriveInv'
  <2>1. \A q \in Paths : Under(p, q) /\ q # p => ids[q] = None
    BY <1>4 DEF DeleteBegin, CachedBelow, Quiet
  <2>2. Begin(c, "delete", p, <<>>, None, p)
    BY <1>4 DEF DeleteBegin
  <2> QED
    BY <1>1, <2>1, <2>2, BeginStep
<1>5. ASSUME NEW p \in Paths, NEW v \in Vers, PutBegin(c, p, v)
      PROVE  DriveInv'
  BY <1>1, <1>5, BeginStep DEF PutBegin, Removes
<1>6. ASSUME NEW p \in Paths, NEW d \in Paths, RenameBegin(c, p, d)
      PROVE  DriveInv'
  <2>1. Len(d) = 2 => Bare(p)
    <3> SUFFICES ASSUME Len(d) = 2, NEW i \in Ids, NEW q \in Places, Sits(i, q), Under(p, q), q # p
                 PROVE  FALSE
      BY DEF Bare
    <3>1. p = <<q[1]>> /\ p \in Places
      BY PathShape, UnderMeans
    <3>2. q # <<obj[i].name>>
      BY <3>1
    <3>3. /\ obj[i].parent \in Ids /\ obj[obj[i].parent].kind = "dir" /\ Live(i)
          /\ obj[obj[i].parent].parent = Top /\ q = <<obj[obj[i].parent].name, obj[i].name>>
      BY <3>2 DEF Sits
    <3>4. Sits(obj[i].parent, p)
      BY <3>1, <3>3 DEF Sits, Live
    <3>5. obj[i].parent \in At(p)
      BY <3>1, <3>4, AtSits DEF DriveInv
    <3>6. i \in Children(obj[i].parent)
      BY <3>3, Objects DEF Children, DriveInv
    <3> QED
      BY <1>6, <3>5, <3>6 DEF RenameBegin
  <2> QED
    BY <1>1, <1>6, <2>1, BeginStep DEF RenameBegin, CachedBelow, Quiet
<1>7. ASSUME NEW p \in Paths \cup {<<>>}, Len(p) < 2, ListBegin(c, p)
      PROVE  DriveInv'
  <2>1. p = <<>> \/ p = <<p[1]>>
    <3>1. CASE p \in Paths /\ p = <<p[1], p[2]>>
      <4>1. Len(p) = 2
        BY <3>1, ParentFacts
      <4> QED
        BY <1>7, <4>1
    <3> QED
      BY <3>1, PathShape
  <2> QED
    BY <1>1, <1>7, <2>1, BeginStep DEF ListBegin, Removes
<1> QED
  BY <1>2, <1>3, <1>4, <1>5, <1>6, <1>7 DEF Start, Lists

\* A restart finds the root under its own key.
LEMMA RestartStep ==
    ASSUME DriveInv, Quiet, Restart
    PROVE  DriveInv'
<1>1. /\ ids[<<RootName>>] = Top /\ \A c \in Callers : call[c].pc # "unmap"
      /\ call' = [c \in Callers |-> Idle] /\ obj' = obj
  BY DEF DriveInv, Typed, Restart, Quiet
<1>2. rootID' = Top /\ ids' = ids
  BY <1>1, NotIds DEF DriveInv, Typed, Restart
<1>3. Typed' /\ DriveShape'
  BY <1>1, <1>2, IdleFine, SameObjects DEF DriveInv, Typed
<1>4. ASSUME NEW c \in Callers
      PROVE  CallFine(c)' /\ call'[c] = Idle
  <2>1. call'[c] = Idle
    BY <1>1
  <2>2. Stage(Idle) /\ Idle.pc = "idle" /\ Idle.par = None
    BY IdleFine
  <2>3. Stage(call[c])' /\ WalkFine(call[c])' /\ HeldFine(call[c])' /\ RemovalFine(call[c])'
    BY <2>1, <2>2 DEF Stage, WalkFine, HeldFine, RemovalFine, Early, Looks, Wanted
  <2> QED
    BY <2>1, <2>3 DEF CallFine
<1>5. (\A c, e \in Callers : c # e => Apart(call[c], call[e]))'
  BY <1>4, IdleFine DEF Apart
<1>6. ASSUME NEW p \in Paths
      PROVE  RowFine(p)'
  <2>1. RowFine(p)
    BY DEF DriveInv
  <2> QED
    BY <1>1, <1>2, <2>1, SameObjects DEF RowFine
<1> QED
  BY <1>3, <1>4, <1>5, <1>6 DEF DriveInv

\* The adapter starts on an empty Drive with an empty table.
LEMMA InitFine ==
    ASSUME Init, OwnKey
    PROVE  DriveInv
<1>1. Typed
  BY IdleFine DEF Init, Typed, Keys
<1>2. \A i : ~Live(i)
  BY DEF Init, Live, Unused
<1>3. \A c \in Callers : call[c] = Idle
  BY DEF Init
<1>4. \A c \in Callers : CallFine(c)
  BY <1>3, IdleFine DEF CallFine
<1>5. \A p \in Paths : ids[p] = None
  BY DEF Init, Keys, OwnKey
<1> QED
  BY <1>1, <1>2, <1>3, <1>4, <1>5, IdleFine DEF DriveInv, DriveShape, Apart, RowFine

\* Every step of the adapter, of a restart and of other clients keeps the
\* invariant.
LEMMA StepFine ==
    ASSUME DriveInv, Quiet, OwnKey, [Next]_vars
    PROVE  DriveInv'
<1>1. ASSUME NEW c \in Callers, Step(c)
      PROVE  DriveInv'
  BY <1>1, ResolveStep, WalkStep, WalkErrorStep, WalkStoreStep, RenameParentsStep, EndStep,
     ListApiStep, ListStoreStep, PutUpdateStep, PutCreateStep, MkdirApiStep, DeleteApiStep,
     RenameApiStep, UnmapStep, MapStep DEF Step
<1>2. CASE UNCHANGED vars
  <2>1. /\ Typed' /\ DriveShape' /\ (\A p \in Paths : RowFine(p))'
    BY <1>2, SameObjects DEF vars, DriveInv, Typed, RowFine
  <2>2. ASSUME NEW e \in Callers
        PROVE  CallFine(e)'
    <3>1. Lossless({}) /\ Gains({})
      BY <1>2, SameObjects DEF vars, Lossless, Gains
    <3> QED
      BY <1>2, <3>1, OthersKept DEF vars
  <2>3. (\A c, e \in Callers : c # e => Apart(call[c], call[e]))'
    BY <1>2 DEF vars, DriveInv, Apart, Ends, Target
  <2> QED
    BY <2>1, <2>2, <2>3 DEF DriveInv
<1> QED
  BY <1>1, <1>2, StartStep, RestartStep, PeersStep DEF Next

\* The invariant holds of every behaviour of the adapter.
THEOREM AdapterSound ==
    ASSUME Quiet, OwnKey
    PROVE  Spec => []DriveInv
<1>1. Init => DriveInv
  BY InitFine
<1>2. DriveInv /\ [Next]_vars => DriveInv'
  BY StepFine
<1> QED
  BY <1>1, <1>2, PTL DEF Spec

\* Every row of drive_path_ids names an object that is at its path, except
\* while the call that moved or deleted the object is about to drop the row:
\* resolveID may trust the rows as long as calls on one path exclude each
\* other, replies arrive, directories are only removed with no rows below and
\* other clients keep off what is cached.
THEOREM TableExact ==
    ASSUME Quiet, OwnKey
    PROVE  Spec => []CacheExact
<1>1. ASSUME DriveInv
      PROVE  CacheExact
  <2>1. ASSUME NEW p \in Paths
        PROVE  \/ ids[p] \in {None} \cup At(p)
               \/ \E c \in Callers : call[c].pc = "unmap" /\ call[c].path = p
    <3>1. Sits(ids[p], p) => ids[p] \in At(p)
      BY <1>1, AtSits, PathShape DEF DriveInv
    <3> QED
      BY <1>1, <3>1 DEF DriveInv, RowFine
  <2> QED
    BY <1>1, <2>1 DEF CacheExact, DriveInv, Typed
<1> QED
  BY <1>1, AdapterSound, PTL

\* Put, Delete and Rename send their request to an object that is at the path
\* of the call at that moment, although they looked it up steps before.
THEOREM RequestsOnPath ==
    ASSUME Quiet, OwnKey
    PROVE  Spec => []ActsOnItsPath
<1>1. ASSUME DriveInv
      PROVE  ActsOnItsPath
  <2> SUFFICES ASSUME NEW c \in Callers, call[c].pc = "api", Changes(call[c].op), call[c].id # None
               PROVE  call[c].id \in At(call[c].path)
    BY DEF ActsOnItsPath
  <2>1. Typed /\ call[c].path \in Places /\ Sits(call[c].id, call[c].path)
    BY <1>1, RequestHolds, PathShape
  <2> QED
    BY <2>1, AtSits
<1> QED
  BY <1>1, AdapterSound, PTL

-----------------------------------------------------------------------------
(* The tree.                                                               *)

\* Nothing is at place p.
Clear(p) == \A i : ~Sits(i, p)

\* There is one object at a place at most.
Sole == \A q \in Places : \A i, j : Sits(i, q) /\ Sits(j, q) => i = j

\* Every object is at a path of the table.
Charted == \A i : Live(i) => \E q \in Paths : Sits(i, q)

\* Where a call is about to create or move something there is nothing.
Vacant(k) ==
    /\ k.op = "mkdir" /\ k.pc \in Early => Clear(k.path)
    /\ k.op = "rename" /\ k.pc \in Early => Clear(k.dst)
    /\ k.op = "put" /\ k.pc = "api" /\ k.id = None => Clear(k.path)

\* What the objects form is a tree over the paths of the table.
TreeInv == Sole /\ Charted /\ \A c \in Callers : Vacant(call[c])

\* The tree of DriveIds.
Picture == [p \in Paths |-> TreeAt(p)]

\* What the tree shows of an object.
Shown(i) == IF obj[i].kind = "dir" THEN [kind |-> "dir"] ELSE [kind |-> "file", ver |-> obj[i].ver]

\* The tree shows exactly what is at each path.
Drawn ==
    \A q \in Paths : /\ Clear(q) => Picture[q] = [kind |-> "absent"]
                     /\ \A i : Sits(i, q) => Picture[q] = Shown(i)

\* TreeAt reads the tree off the objects as long as paths are unique.
LEMMA TreeDrawn == Typed /\ Sole => Drawn
<1> SUFFICES ASSUME Typed, Sole, NEW q \in Paths
             PROVE  /\ Clear(q) => TreeAt(q) = [kind |-> "absent"]
                    /\ \A i : Sits(i, q) => TreeAt(q) = Shown(i)
  BY DEF Drawn, Picture
<1>1. \A i : i \in At(q) <=> Sits(i, q)
  BY AtSits, PathShape
<1>2. ASSUME Clear(q)
      PROVE  TreeAt(q) = [kind |-> "absent"]
  <2>1. At(q) = {}
    BY <1>1, <1>2 DEF Clear
  <2> QED
    BY <2>1 DEF TreeAt
<1>3. ASSUME NEW i, Sits(i, q)
      PROVE  TreeAt(q) = Shown(i)
  <2>1. At(q) = {i}
    BY <1>1, <1>3, PathShape DEF Sole
  <2>2. Cardinality(At(q)) = 1
    BY <2>1, FS_Singleton
  <2>4. ~(Cardinality(At(q)) > 1) /\ At(q) # {}
    BY <2>1, <2>2
  <2>3. (CHOOSE j \in At(q) : TRUE) = i
    BY <2>1
  <2> QED
    BY <2>3, <2>4, Zenon DEF TreeAt, Shown
<1> QED
  BY <1>2, <1>3

\* The same after a step.
LEMMA TreeDrawnNext == (Typed /\ Sole)' => Drawn'
BY TreeDrawn, PTL

-----------------------------------------------------------------------------
(* Above and below.                                                        *)

\* What sits anywhere is an object, at a path of the table.
LEMMA OnChart ==
    ASSUME Typed, DriveShape, Charted, NEW i, NEW q, Sits(i, q)
    PROVE  i \in Ids /\ Live(i) /\ q \in Paths
<1>1. Live(i) /\ i \in Ids
  BY DEF Sits, Live
<1>2. PICK r \in Paths : Sits(i, r)
  BY <1>1 DEF Charted
<1>3. r = q
  BY <1>1, <1>2, SitsOnce
<1> QED
  BY <1>1, <1>2, <1>3

\* An object is in the folder at the parent of its path.
LEMMA FolderAbove ==
    ASSUME Typed, DriveShape, NEW p \in Paths, NEW i, Sits(i, p)
    PROVE  Spot(Parent(p), obj[i].parent) /\ Folder(obj[i].parent)
<1>1. CASE p = <<p[1]>>
  <2>1. Parent(p) = <<>> /\ Len(p) = 1
    BY <1>1, ParentFacts
  <2>2. \A x, y : p # <<x, y>>
    BY <2>1, TupleFacts
  <2> QED
    BY <2>1, <2>2 DEF Sits, Spot, Folder
<1>2. CASE p = <<p[1], p[2]>>
  <2>1. Parent(p) = <<p[1]>> /\ Len(p) = 2 /\ Parent(p) # <<>>
    BY <1>2, ParentFacts, TupleFacts
  <2>2. \A x : p # <<x>>
    BY <2>1, TupleFacts
  <2>3. /\ obj[i].parent \in Ids /\ obj[obj[i].parent].kind = "dir"
        /\ obj[obj[i].parent].parent = Top
        /\ p = <<obj[obj[i].parent].name, obj[i].name>>
    BY <2>2 DEF Sits
  <2>4. p[1] = obj[obj[i].parent].name
    BY <2>3
  <2> QED
    BY <2>1, <2>3, <2>4 DEF Sits, Spot, Folder, Live
<1> QED
  BY <1>1, <1>2, PathShape

\* What is below a path is in the folder there.
LEMMA FolderBelow ==
    ASSUME Typed, DriveShape, NEW p \in Paths, NEW q \in Places, Under(p, q), p # q,
           NEW j, Sits(j, q)
    PROVE  /\ obj[j].parent \in Ids /\ Sits(obj[j].parent, p) /\ obj[obj[j].parent].kind = "dir"
           /\ p = <<p[1]>> /\ q = <<p[1], obj[j].name>> /\ q = Append(p, obj[j].name)
<1>1. p = <<q[1]>> /\ p \in Places /\ p # <<>>
  BY PathShape, UnderMeans
<1>2. q # <<obj[j].name>>
  BY <1>1
<1>3. /\ obj[j].parent \in Ids /\ obj[obj[j].parent].kind = "dir"
      /\ obj[obj[j].parent].parent = Top /\ q = <<obj[obj[j].parent].name, obj[j].name>>
  BY <1>2 DEF Sits
<1>4. q[1] = obj[obj[j].parent].name /\ p = <<obj[obj[j].parent].name>> /\ p[1] = q[1]
  BY <1>1, <1>3
<1>5. Sits(obj[j].parent, p)
  BY <1>3, <1>4 DEF Sits, Live
<1>6. q = Append(p, obj[j].name)
  BY <1>3, <1>4, TupleFacts
<1> QED
  BY <1>1, <1>3, <1>4, <1>5, <1>6

\* Below a path with nothing at it there is nothing.
LEMMA ClearBelow ==
    ASSUME Typed, DriveShape, NEW p \in Paths, Clear(p), NEW j, NEW q \in Places, Sits(j, q)
    PROVE  ~Under(p, q)
<1> SUFFICES ASSUME Under(p, q) PROVE FALSE
  OBVIOUS
<1> QED
  BY FolderBelow DEF Clear

\* A picture changes where something else sits or shows only.
LEMMA SamePicture ==
    ASSUME Drawn, Drawn', NEW q \in Paths,
           \A j : /\ Sits(j, q)' <=> Sits(j, q)
                  /\ Sits(j, q) => Shown(j)' = Shown(j)
    PROVE  Picture'[q] = Picture[q]
<1>1. CASE Clear(q)
  <2>1. Clear(q)'
    BY <1>1 DEF Clear
  <2> QED
    BY <1>1, <2>1 DEF Drawn
<1>2. CASE ~Clear(q)
  <2>1. PICK j : Sits(j, q)
    BY <1>2 DEF Clear
  <2> QED
    BY <2>1 DEF Drawn
<1> QED
  BY <1>1, <1>2

\* The parent of a path with something at it, or to come, is a directory.
LEMMA DirAbove ==
    ASSUME Typed, DriveShape, Charted, Drawn, NEW p \in Paths,
           NEW f, Spot(Parent(p), f), Folder(f)
    PROVE  Parent(p) = <<>> \/ (Parent(p) \in Paths /\ Picture[Parent(p)].kind = "dir")
<1> SUFFICES ASSUME Parent(p) # <<>> PROVE Parent(p) \in Paths /\ Picture[Parent(p)].kind = "dir"
  OBVIOUS
<1>1. Parent(p) \in Paths /\ Sits(f, Parent(p))
  BY ParentFacts DEF Spot
<1>2. f \in Ids /\ obj[f].kind = "dir"
  BY <1>1, NotIds DEF Folder, Sits, Live
<1>3. Picture[Parent(p)] = Shown(f)
  BY <1>1 DEF Drawn
<1> QED
  BY <1>1, <1>2, <1>3 DEF Shown

-----------------------------------------------------------------------------
(* What the changes of the objects do to the tree.                         *)

\* Every object is somewhere.
LEMMA Placed == Typed /\ DriveShape => \A j : Live(j) => \E q \in Places : Sits(j, q)
BY SitsOnce

\* The same after a step.
LEMMA PlacedNext == (Typed /\ DriveShape)' => (\A j : Live(j) => \E q \in Places : Sits(j, q))'
BY Placed, PTL

\* Everything stays on the table's paths if what is new is at one of them.
LEMMA ChartedKept ==
    ASSUME Typed, DriveShape, Charted, (Typed /\ DriveShape)',
           \A j \in Ids, q \in Places : Sits(j, q)' => Sits(j, q) \/ q \in Paths
    PROVE  Charted'
<1>1. \A j : Live(j)' => \E q \in Places : Sits(j, q)'
  BY PlacedNext
<1>2. ASSUME NEW j, Live(j)'
      PROVE  \E q \in Paths : Sits(j, q)'
  <2>1. PICK q \in Places : Sits(j, q)'
    BY <1>1, <1>2
  <2>2. j \in Ids
    BY <1>2 DEF Live
  <2>3. CASE Sits(j, q)
    BY <2>1, <2>3, OnChart
  <2>4. CASE q \in Paths
    BY <2>1, <2>4
  <2> QED
    BY <2>1, <2>2, <2>3, <2>4
<1> QED
  BY <1>2 DEF Charted

\* A new object adds its path.
LEMMA CreatedTree ==
    ASSUME Typed, DriveShape, Sole, Charted, (Typed /\ DriveShape)',
           NEW p \in Paths, Clear(p), NEW i, Appears(i, p)
    PROVE  Sole' /\ Charted' /\ Picture' = [Picture EXCEPT ![p] = Shown(i)']
<1> USE DEF Appears
<1>1. Sole'
  <2> SUFFICES ASSUME NEW q \in Places, NEW j, NEW l, Sits(j, q)', Sits(l, q)'
               PROVE  j = l
    BY DEF Sole
  <2>1. CASE q = p
    BY <2>1 DEF Clear
  <2>2. CASE q # p
    BY <2>2 DEF Sole
  <2> QED
    BY <2>1, <2>2
<1>2. Charted'
  BY ChartedKept
<1>3. Drawn /\ Drawn'
  BY <1>1, TreeDrawn, TreeDrawnNext
<1>4. Picture'[p] = Shown(i)'
  BY <1>3 DEF Drawn
<1>5. ASSUME NEW q \in Paths, q # p
      PROVE  Picture'[q] = Picture[q]
  <2>1. ASSUME NEW j
        PROVE  /\ Sits(j, q)' <=> Sits(j, q)
               /\ Sits(j, q) => Shown(j)' = Shown(j)
    <3>1. Sits(j, q) => j \in Ids \ {i}
      BY DEF Sits, Live
    <3> QED
      BY <1>5, <3>1 DEF Shown
  <2> QED
    BY <1>3, <2>1, SamePicture
<1>6. Picture' = [Picture EXCEPT ![p] = Shown(i)']
  BY <1>4, <1>5 DEF Picture
<1> QED
  BY <1>1, <1>2, <1>6

\* New contents change what is at one path.
LEMMA WrittenTree ==
    ASSUME Typed, DriveShape, Sole, Charted, (Typed /\ DriveShape)',
           NEW p \in Paths, NEW i, Sits(i, p),
           \A j \in Ids \ {i} : obj'[j] = obj[j],
           Lossless({}), Gains({})
    PROVE  Sole' /\ Charted' /\ Picture' = [Picture EXCEPT ![p] = Shown(i)']
<1>1. \A j, q : q \in Paths => (Sits(j, q)' <=> Sits(j, q))
  <2> SUFFICES ASSUME NEW j, NEW q \in Paths
               PROVE  Sits(j, q)' <=> Sits(j, q)
    OBVIOUS
  <2>1. Sits(j, q)' => j \in Ids
    BY DEF Sits, Live
  <2>2. Sits(j, q) => j \in Ids
    BY DEF Sits, Live
  <2> QED
    BY <2>1, <2>2, PathShape DEF Lossless, Gains
<1>2. Sole'
  <2> SUFFICES ASSUME NEW q \in Places, NEW j, NEW l, Sits(j, q)', Sits(l, q)'
               PROVE  j = l
    BY DEF Sole
  <2>1. j \in Ids /\ l \in Ids
    BY DEF Sits, Live
  <2> QED
    BY <2>1 DEF Sole, Gains
<1>3. Charted'
  BY ChartedKept DEF Gains
<1>4. Drawn /\ Drawn'
  BY <1>2, TreeDrawn, TreeDrawnNext
<1>5. Picture'[p] = Shown(i)'
  BY <1>1, <1>4 DEF Drawn
<1>6. ASSUME NEW q \in Paths, q # p
      PROVE  Picture'[q] = Picture[q]
  <2>1. ASSUME NEW j
        PROVE  /\ Sits(j, q)' <=> Sits(j, q)
               /\ Sits(j, q) => Shown(j)' = Shown(j)
    <3>1. Sits(j, q) => j \in Ids \ {i}
      BY <1>6, SitsOnce, OnChart
    <3> QED
      BY <1>1, <3>1 DEF Shown
  <2> QED
    BY <1>4, <2>1, SamePicture
<1>7. Picture' = [Picture EXCEPT ![p] = Shown(i)']
  BY <1>5, <1>6 DEF Picture
<1> QED
  BY <1>2, <1>3, <1>7

\* What is erased leaves its path and all below it empty.
LEMMA ErasedTree ==
    ASSUME Typed, DriveShape, Sole, Charted, (Typed /\ DriveShape)',
           NEW p \in Paths, NEW i, Sits(i, p), Lossless({p}), Gains({}), Vanishes(i)
    PROVE  /\ Sole' /\ Charted'
           /\ Picture' = [q \in Paths |-> IF Under(p, q) THEN [kind |-> "absent"] ELSE Picture[q]]
<1> USE DEF Vanishes
<1>1. ASSUME NEW j, NEW q \in Places
      PROVE  Sits(j, q)' <=> Sits(j, q) /\ ~Under(p, q)
  <2>1. CASE j \notin Ids
    BY <2>1 DEF Sits, Live
  <2>2. CASE j \in Ids
    <3>1. Sits(j, q) /\ ~Under(p, q) => Sits(j, q)'
      BY <2>2 DEF Lossless
    <3>2. Sits(j, q)' => Sits(j, q) /\ j # i /\ obj[j].parent # i
      BY <2>2 DEF Gains, Sits
    <3>3. Sits(j, q) /\ Under(p, q) => j = i \/ obj[j].parent = i
      <4> SUFFICES ASSUME Sits(j, q), Under(p, q), j # i PROVE obj[j].parent = i
        OBVIOUS
      <4>1. p # q
        BY PathShape DEF Sole
      <4>2. Sits(obj[j].parent, p)
        BY <4>1, FolderBelow
      <4> QED
        BY <4>2, PathShape DEF Sole
    <3> QED
      BY <3>1, <3>2, <3>3
  <2> QED
    BY <2>1, <2>2
<1>2. Sole'
  BY <1>1 DEF Sole
<1>3. Charted'
  BY <1>1, ChartedKept
<1>4. Drawn /\ Drawn'
  BY <1>2, TreeDrawn, TreeDrawnNext
<1>5. ASSUME NEW q \in Paths, Under(p, q)
      PROVE  Picture'[q] = [kind |-> "absent"]
  <2>1. Clear(q)'
    BY <1>1, <1>5, PathShape DEF Clear
  <2> QED
    BY <1>4, <2>1 DEF Drawn
<1>6. ASSUME NEW q \in Paths, ~Under(p, q)
      PROVE  Picture'[q] = Picture[q]
  <2>1. ASSUME NEW j
        PROVE  /\ Sits(j, q)' <=> Sits(j, q)
               /\ Sits(j, q) => Shown(j)' = Shown(j)
    <3>1. Sits(j, q)' <=> Sits(j, q)
      BY <1>1, <1>6, PathShape
    <3>2. Sits(j, q)' => obj'[j] = obj[j]
      BY DEF Sits, Live
    <3> QED
      BY <3>1, <3>2 DEF Shown
  <2> QED
    BY <1>4, <2>1, SamePicture
<1>7. Picture' = [q \in Paths |-> IF Under(p, q) THEN [kind |-> "absent"] ELSE Picture[q]]
  <2>1. \A q \in Paths : Picture'[q] = IF Under(p, q) THEN [kind |-> "absent"] ELSE Picture[q]
    BY <1>5, <1>6
  <2>2. Picture' = [q \in Paths |-> Picture'[q]]
    BY DEF Picture
  <2> QED
    BY <2>1, <2>2
<1> QED
  BY <1>2, <1>3, <1>7

\* The paths of the table are closed under renames of directories: what is in
\* one directory could be in another. Any table of the code is.
Closed ==
    \A p, d \in Paths : \A y : Append(p, y) \in Paths /\ d = <<d[1]>> => Append(d, y) \in Paths

\* The path of an entry, and what tells entries apart.
LEMMA EntryPath ==
    ASSUME NEW p \in Paths, NEW y
    PROVE  /\ p = <<p[1]>> => /\ Append(p, y) = <<p[1], y>> /\ Append(p, y) # p
                              /\ \A z : Append(p, z) = Append(p, y) => z = y
           /\ Append(p, y) \in Paths => p = <<p[1]>> /\ Under(p, Append(p, y))
<1>1. ASSUME p = <<p[1]>>
      PROVE  Append(p, y) = <<p[1], y>> /\ Append(p, y) # p
  <2>1. PICK x : p = <<x>> /\ x = p[1]
    BY <1>1
  <2>2. Append(<<x>>, y) = <<x, y>> /\ <<x>> # <<x, y>>
    BY TupleFacts
  <2> QED
    BY <2>1, <2>2
<1>2. ASSUME p = <<p[1]>>, NEW z, Append(p, z) = Append(p, y)
      PROVE  z = y
  <2>1. PICK x : p = <<x>> /\ x = p[1]
    BY <1>2
  <2>2. Append(<<x>>, y) = <<x, y>> /\ Append(<<x>>, z) = <<x, z>>
    BY TupleFacts
  <2>3. <<x, y>> = <<x, z>>
    BY <1>2, <2>1, <2>2
  <2> QED
    BY <2>3
<1>3. ASSUME p = <<p[1], p[2]>>
      PROVE  Append(p, y) \notin Paths
  <2>1. PICK a, b : p = <<a, b>>
    BY <1>3
  <2>2. Len(Append(<<a, b>>, y)) = 3
    <3>1. <<a, b>> \in Seq({a, b, y}) /\ Len(<<a, b>>) = 2 /\ y \in {a, b, y}
      OBVIOUS
    <3> QED
      BY <3>1, AppendProperties
  <2>3. \A q \in Paths : Len(q) = 1 \/ Len(q) = 2
    BY PathShape, ParentFacts
  <2>4. Len(Append(p, y)) = 3
    BY <2>1, <2>2
  <2>5. Append(p, y) \in Paths => Len(Append(p, y)) = 1 \/ Len(Append(p, y)) = 2
    BY <2>3, Zenon
  <2>6. 3 # 1 /\ 3 # 2
    OBVIOUS
  <2> QED
    BY <2>4, <2>5, <2>6, Zenon
<1>4. ASSUME Append(p, y) \in Paths
      PROVE  p = <<p[1]>> /\ Under(p, Append(p, y))
  <2>1. p = <<p[1]>>
    BY <1>3, <1>4, PathShape
  <2>2. Append(p, y) = <<p[1], y>>
    BY <1>1, <2>1
  <2>3. <<p[1], y>>[1] = p[1] /\ <<p[1], y>> # <<>>
    OBVIOUS
  <2> QED
    BY <1>4, <2>1, <2>2, <2>3, PathShape, UnderMeans
<1> QED
  BY <1>1, <1>2, <1>4

\* Where a move takes a path from.
LEMMA MovedFrom ==
    ASSUME NEW p \in Paths, NEW d \in Paths
    PROVE  /\ Tree!Moved(d, p, d) = p
           /\ \A y : d = <<d[1]>> => Tree!Moved(d, p, Append(d, y)) = Append(p, y)
<1>1. \E S : p \in Seq(S)
  <2>1. ASSUME NEW a, p = <<a>>
        PROVE  p \in Seq({a})
    BY <2>1
  <2>2. ASSUME NEW a, NEW b, p = <<a, b>>
        PROVE  p \in Seq({a, b})
    BY <2>2
  <2>3. (\E a : p = <<a>>) \/ \E a, b : p = <<a, b>>
    BY PathShape
  <2> QED
    BY <2>1, <2>2, <2>3
<1>2. Tree!Moved(d, p, d) = p
  <2>1. Len(d) \in Nat
    BY PathShape, ParentFacts
  <2>2. SubSeq(d, Len(d) + 1, Len(d)) = <<>>
    BY <2>1, SubSeqEmpty
  <2>3. p \o <<>> = p
    BY <1>1, ConcatEmptySeq
  <2> QED
    BY <2>2, <2>3 DEF Tree!Moved
<1>3. ASSUME NEW y, d = <<d[1]>>
      PROVE  Tree!Moved(d, p, Append(d, y)) = Append(p, y)
  <2>1. PICK x : d = <<x>>
    BY <1>3
  <2>2. Append(d, y) = <<x, y>> /\ Len(d) = 1 /\ Len(<<x, y>>) = 2
    BY <2>1, TupleFacts
  <2>3. SubSeq(<<x, y>>, 2, 2) = <<y>>
    <3>1. /\ SubSeq(<<x, y>>, 2, 2) \in Seq({x, y}) /\ Len(SubSeq(<<x, y>>, 2, 2)) = 1
          /\ SubSeq(<<x, y>>, 2, 2)[1] = y
      BY SubSeqProperties
    <3> QED
      BY <3>1, OneLong
  <2>4. p \o <<y>> = Append(p, y)
    <3>1. PICK S : p \in Seq(S)
      BY <1>1
    <3>2. p \in Seq(S \cup {y}) /\ y \in S \cup {y}
      BY <3>1
    <3> QED
      BY <3>2, AppendIsConcat
  <2>5. 1 + 1 = 2
    OBVIOUS
  <2> QED
    BY <2>2, <2>3, <2>4, <2>5, Zenon DEF Tree!Moved
<1> QED
  BY <1>2, <1>3

\* A move takes the path and all below it to the new path.
LEMMA MovedTree ==
    ASSUME Typed, DriveShape, Sole, Charted, (Typed /\ DriveShape)', Closed,
           NEW p \in Paths, NEW d \in Paths, ~Under(p, d), ~Under(d, p), Clear(d),
           NEW i, Sits(i, p), Len(d) = 2 => Bare(p),
           MovesTo(i, d), Shown(i)' = Shown(i)
    PROVE  /\ Sole' /\ Charted'
           /\ Picture' = Tree!Move(Picture, p, d)
<1>0. /\ Sits(i, d)' /\ \A q : Sits(i, q)' => q = d
      /\ \A j \in Ids \ {i} :
           /\ obj'[j] = obj[j]
           /\ obj[j].parent # i => \A q : Sits(j, q)' <=> Sits(j, q)
           /\ Live(j) /\ obj[j].parent = i => \A q : Sits(j, q)' <=> q = Append(d, obj[j].name)
  BY DEF MovesTo
<1>1. i \in Ids /\ Live(i) /\ {p, d} \subseteq Places /\ Under(d, d) /\ Under(p, p)
  BY PathShape, UnderOrder DEF Sits, Live
<1>2. ASSUME NEW j \in Ids \ {i}, Live(j), obj[j].parent = i
      PROVE  /\ Sits(j, Append(p, obj[j].name)) /\ Append(p, obj[j].name) \in Paths
             /\ d = <<d[1]>> /\ Append(d, obj[j].name) \in Paths
  <2>1. obj[i].kind = "dir" /\ obj[i].parent = Top
    BY <1>1, <1>2, NotIds DEF DriveShape
  <2>2. p = <<obj[i].name>>
    BY <2>1, NotIds DEF Sits
  <2>3. Append(p, obj[j].name) = <<obj[i].name, obj[j].name>>
    BY <2>2, TupleFacts
  <2>4. Sits(j, Append(p, obj[j].name))
    BY <1>1, <1>2, <2>1, <2>3 DEF Sits
  <2>5. Append(p, obj[j].name) \in Paths
    BY <2>4, OnChart
  <2>6. Under(p, Append(p, obj[j].name)) /\ Append(p, obj[j].name) # p
    BY <2>5, EntryPath
  <2>7. Len(d) # 2
    BY <2>4, <2>5, <2>6, PathShape DEF Bare
  <2>8. d = <<d[1]>>
    BY <2>7, PathShape, ParentFacts
  <2> QED
    BY <2>4, <2>5, <2>8 DEF Closed
<1>3. ASSUME NEW j, NEW q, Sits(j, q)'
      PROVE  \/ j = i /\ q = d
             \/ j \in Ids \ {i} /\ Live(j) /\ obj[j].parent = i /\ q = Append(d, obj[j].name)
             \/ j \in Ids \ {i} /\ obj[j].parent # i /\ Sits(j, q)
  <2>1. j \in Ids /\ Live(j)'
    BY <1>3 DEF Sits, Live
  <2>2. j # i => Live(j)
    BY <1>0, <2>1 DEF Live
  <2> QED
    BY <1>0, <1>3, <2>1, <2>2
<1>4. ASSUME NEW q \in Places, Under(d, q), NEW j, Sits(j, q)'
      PROVE  (j = i /\ q = d) \/ (j \in Ids \ {i} /\ Live(j) /\ obj[j].parent = i /\ q = Append(d, obj[j].name))
  BY <1>3, <1>4, ClearBelow
<1>5. ASSUME NEW q \in Places, Under(p, q), NEW j
      PROVE  ~Sits(j, q)'
  <2> SUFFICES ASSUME Sits(j, q)' PROVE FALSE
    OBVIOUS
  <2>1. ~Under(d, q)
    BY <1>1, <1>5, UnderOrder
  <2>2. ASSUME j \in Ids \ {i}, Live(j), obj[j].parent = i, q = Append(d, obj[j].name)
        PROVE  FALSE
    BY <1>2, <2>1, <2>2, EntryPath
  <2>3. ASSUME j # i, obj[j].parent # i, Sits(j, q)
        PROVE  FALSE
    <3>1. p # q
      BY <1>1, <2>3 DEF Sole
    <3>2. Sits(obj[j].parent, p)
      BY <1>5, <2>3, <3>1, FolderBelow
    <3> QED
      BY <1>1, <2>3, <3>2 DEF Sole
  <2> QED
    BY <1>1, <1>3, <2>1, <2>2, <2>3
<1>6. ASSUME NEW q \in Places, ~Under(p, q), ~Under(d, q), NEW j
      PROVE  Sits(j, q)' <=> Sits(j, q)
  <2>1. ASSUME Sits(j, q)'
        PROVE  Sits(j, q)
    <3>1. ASSUME j \in Ids \ {i}, Live(j), obj[j].parent = i
          PROVE  Under(d, Append(d, obj[j].name))
      BY <1>2, <3>1, EntryPath
    <3> QED
      BY <1>1, <1>3, <1>6, <2>1, <3>1
  <2>2. ASSUME Sits(j, q)
        PROVE  Sits(j, q)'
    <3>1. j \in Ids /\ Live(j) /\ j # i
      BY <1>1, <1>6, <2>2, SitsOnce DEF Sits, Live
    <3>2. ASSUME obj[j].parent = i
          PROVE  FALSE
      <4>0. PICK r \in Paths : r = Append(p, obj[j].name) /\ Sits(j, r)
        BY <1>2, <3>1, <3>2
      <4>1. q = r
        BY <2>2, <3>1, <4>0, SitsOnce
      <4> QED
        BY <1>6, <4>0, <4>1, EntryPath
    <3> QED
      BY <1>0, <2>2, <3>1, <3>2
  <2> QED
    BY <2>1, <2>2
<1>7. Sole'
  <2> SUFFICES ASSUME NEW q \in Places, NEW j, NEW l, Sits(j, q)', Sits(l, q)'
               PROVE  j = l
    BY DEF Sole
  <2>1. CASE Under(p, q)
    BY <1>5, <2>1
  <2>2. CASE ~Under(p, q) /\ ~Under(d, q)
    BY <1>6, <2>2 DEF Sole
  <2>3. CASE Under(d, q) /\ q = d
    <3>1. ASSUME NEW k \in Ids \ {i}, Live(k), obj[k].parent = i
          PROVE  Append(d, obj[k].name) # d
      BY <1>2, <3>1, EntryPath
    <3> QED
      BY <1>4, <2>3, <3>1
  <2>4. CASE Under(d, q) /\ q # d
    <3>1. /\ j \in Ids \ {i} /\ Live(j) /\ obj[j].parent = i /\ q = Append(d, obj[j].name)
          /\ l \in Ids \ {i} /\ Live(l) /\ obj[l].parent = i /\ q = Append(d, obj[l].name)
      BY <1>4, <2>4
    <3>2. obj[j].name = obj[l].name
      <4>1. d = <<d[1]>> /\ Append(d, obj[j].name) = Append(d, obj[l].name)
        BY <1>2, <3>1
      <4> QED
        BY <4>1, EntryPath
    <3>3. Sits(j, Append(p, obj[j].name)) /\ Sits(l, Append(p, obj[l].name)) /\ Append(p, obj[j].name) \in Places
      BY <1>2, <3>1, PathShape
    <3> QED
      BY <3>2, <3>3 DEF Sole
  <2> QED
    BY <2>1, <2>2, <2>3, <2>4
<1>8. Charted'
  <2>1. ASSUME NEW j \in Ids, NEW q \in Places, Sits(j, q)'
        PROVE  Sits(j, q) \/ q \in Paths
    <3>1. CASE j \in Ids \ {i} /\ Live(j) /\ obj[j].parent = i /\ q = Append(d, obj[j].name)
      BY <1>2, <3>1
    <3> QED
      BY <1>3, <2>1, <3>1
  <2> QED
    BY <2>1, ChartedKept
<1>9. Drawn /\ Drawn'
  BY <1>7, TreeDrawn, TreeDrawnNext
<1>10. \A j : Sits(j, p) \/ j \in Ids => Shown(j)' = Shown(j)
  BY <1>0, <1>1 DEF Shown, Sits, Live
<1>11. Picture'[d] = Picture[p]
  BY <1>0, <1>9 DEF Drawn
<1>12. ASSUME NEW q \in Paths, Under(p, q)
       PROVE  Picture'[q] = [kind |-> "absent"]
  <2>1. Clear(q)'
    BY <1>5, <1>12, PathShape DEF Clear
  <2> QED
    BY <1>9, <2>1 DEF Drawn
<1>13. ASSUME NEW q \in Paths, ~Under(p, q), ~Under(d, q)
       PROVE  Picture'[q] = Picture[q]
  <2>1. \A j : Sits(j, q) => Shown(j)' = Shown(j)
    BY <1>10 DEF Sits, Live
  <2>2. \A j : Sits(j, q)' <=> Sits(j, q)
    BY <1>6, <1>13, PathShape
  <2> QED
    BY <1>9, <2>1, <2>2, SamePicture
<1>14. ASSUME NEW y, d = <<d[1]>>, Append(d, y) \in Paths
       PROVE  Picture'[Append(d, y)] = IF Append(p, y) \in Paths THEN Picture[Append(p, y)]
                                       ELSE Picture[Append(d, y)]
  <2>1. /\ Append(d, y) \in Places /\ Append(d, y) # d /\ Under(d, Append(d, y))
        /\ \A z : Append(d, z) = Append(d, y) => z = y
    BY <1>14, EntryPath, PathShape
  <2>2. ASSUME NEW j, Sits(j, Append(d, y))'
        PROVE  Sits(j, Append(p, y))
    <3>1. j \in Ids \ {i} /\ Live(j) /\ obj[j].parent = i /\ Append(d, y) = Append(d, obj[j].name)
      BY <1>4, <2>1, <2>2
    <3>2. obj[j].name = y
      BY <2>1, <3>1
    <3> QED
      BY <1>2, <3>1, <3>2
  <2>3. ASSUME NEW j, Sits(j, Append(p, y))
        PROVE  Sits(j, Append(d, y))' /\ Append(p, y) \in Paths /\ Shown(j)' = Shown(j)
    <3>1. j \in Ids /\ Live(j) /\ Append(p, y) \in Paths /\ Append(p, y) \in Places
      BY <2>3, OnChart, PathShape
    <3>2. /\ p = <<p[1]>> /\ Under(p, Append(p, y)) /\ Append(p, y) # p
          /\ \A z : Append(p, z) = Append(p, y) => z = y
      BY <3>1, EntryPath
    <3>3. Sits(obj[j].parent, p) /\ Append(p, y) = Append(p, obj[j].name)
      <4>1. PICK r \in Places : r = Append(p, y)
        BY <3>1
      <4>2. Under(p, r) /\ p # r /\ Sits(j, r)
        BY <2>3, <3>2, <4>1
      <4> QED
        BY <4>1, <4>2, FolderBelow
    <3>4. obj[j].parent = i
      BY <1>1, <3>3 DEF Sole
    <3>5. obj[j].name = y
      BY <3>2, <3>3
    <3>6. j # i
      BY <1>1, <2>3, <3>2, SitsOnce
    <3> QED
      BY <1>0, <1>10, <3>1, <3>4, <3>5, <3>6
  <2>4. CASE \E j : Sits(j, Append(p, y))
    <3>1. PICK j : Sits(j, Append(p, y))
      BY <2>4
    <3>2. Sits(j, Append(d, y))' /\ Append(p, y) \in Paths /\ Shown(j)' = Shown(j)
      BY <2>3, <3>1
    <3>3. Picture'[Append(d, y)] = Shown(j)' /\ Picture[Append(p, y)] = Shown(j)
      BY <1>9, <1>14, <3>1, <3>2 DEF Drawn
    <3> QED
      BY <3>2, <3>3
  <2>5. CASE ~ \E j : Sits(j, Append(p, y))
    <3>1. Clear(Append(d, y))' /\ Clear(Append(p, y))
      BY <2>2, <2>5 DEF Clear
    <3>2. Clear(Append(d, y))
      BY <2>1, ClearBelow DEF Clear
    <3>3. Picture'[Append(d, y)] = [kind |-> "absent"] /\ Picture[Append(d, y)] = [kind |-> "absent"]
      BY <1>9, <1>14, <3>1, <3>2 DEF Drawn
    <3>4. Append(p, y) \in Paths => Picture[Append(p, y)] = [kind |-> "absent"]
      BY <1>9, <3>1 DEF Drawn
    <3> QED
      BY <3>3, <3>4
  <2> QED
    BY <2>4, <2>5
<1>15. ASSUME NEW q \in Paths
       PROVE  Picture'[q] = IF Under(p, q) THEN [kind |-> "absent"]
                            ELSE IF Under(d, q) /\ Tree!Moved(d, p, q) \in Paths
                                 THEN Picture[Tree!Moved(d, p, q)]
                                 ELSE Picture[q]
  <2>1. CASE Under(p, q)
    BY <1>12, <2>1
  <2>2. CASE ~Under(p, q) /\ ~Under(d, q)
    BY <1>13, <2>2
  <2>3. CASE ~Under(p, q) /\ q = d
    BY <1>1, <1>11, <2>3, MovedFrom
  <2>4. CASE ~Under(p, q) /\ Under(d, q) /\ q # d
    <3>1. d = <<q[1]>> /\ d = <<d[1]>> /\ q[1] = d[1]
      BY <2>4, PathShape, UnderMeans
    <3>2. q = <<q[1], q[2]>>
      BY <2>4, <3>1, PathShape
    <3>3. Append(d, q[2]) = <<q[1], q[2]>>
      BY <3>1, EntryPath
    <3>4. PICK y : q = Append(d, y)
      BY <3>2, <3>3
    <3>5. Tree!Moved(d, p, q) = Append(p, y)
      <4>1. Tree!Moved(d, p, Append(d, y)) = Append(p, y)
        <5>1. d = <<d[1]>>
          BY <3>1
        <5> QED
          BY <5>1, MovedFrom, ZenonT(30)
      <4> QED
        BY <3>4, <4>1
    <3>6. Picture'[q] = IF Append(p, y) \in Paths THEN Picture[Append(p, y)] ELSE Picture[q]
      BY <1>14, <3>1, <3>4
    <3> QED
      BY <2>4, <3>5, <3>6
  <2> QED
    BY <2>1, <2>2, <2>3, <2>4
<1>16. Picture' = Tree!Move(Picture, p, d)
  <2>1. \A q : Tree!Under(p, q) <=> Under(p, q)
    BY DEF Tree!Under, Under
  <2>2. \A q : Tree!Under(d, q) <=> Under(d, q)
    BY DEF Tree!Under, Under
  <2>3. Picture' = [q \in Paths |-> Picture'[q]]
    BY DEF Picture
  <2> QED
    BY <1>15, <2>1, <2>2, <2>3 DEF Tree!Move, Tree!Absent
<1> QED
  BY <1>7, <1>8, <1>16

-----------------------------------------------------------------------------
(* The steps that leave the objects, and with them the tree, alone.        *)

\* The tree depends on the objects only.
LEMMA SameChart ==
    ASSUME obj' = obj
    PROVE  /\ Sole => Sole'
           /\ Charted => Charted'
           /\ \A k : Vacant(k) => Vacant(k)'
           /\ Picture' = Picture
<1>1. \A i, p : Sits(i, p)' <=> Sits(i, p)
  BY SameObjects
<1>2. Sole => Sole'
  BY <1>1 DEF Sole
<1>3. Charted => Charted'
  BY <1>1 DEF Charted, Live
<1>4. \A p : Clear(p)' <=> Clear(p)
  BY <1>1 DEF Clear
<1>5. \A k : Vacant(k) => Vacant(k)'
  BY <1>4 DEF Vacant
<1>6. Picture' = Picture
  BY DEF Picture, TreeAt, At, Named, Children, Exists
<1> QED
  BY <1>2, <1>3, <1>5, <1>6

\* A call moves on to m.
LEMMA TreeStill ==
    ASSUME DriveInv, TreeInv, obj' = obj, NEW c \in Callers, NEW m,
           call' = [call EXCEPT ![c] = m], Vacant(m)
    PROVE  TreeInv' /\ Picture' = Picture
<1>1. Sole' /\ Charted' /\ Picture' = Picture /\ \A k : Vacant(k) => Vacant(k)'
  BY SameChart DEF TreeInv
<1>2. ASSUME NEW e \in Callers
      PROVE  Vacant(call[e])'
  <2>1. PICK k : k = call'[e]
    OBVIOUS
  <2>2. Vacant(k)
    BY <2>1 DEF DriveInv, Typed, TreeInv
  <2>3. Vacant(k)'
    BY <1>1, <2>2
  <2> QED
    BY <2>1, <2>3 DEF Vacant
<1> QED
  BY <1>1, <1>2 DEF TreeInv

\* A call without a change ahead claims nothing.
LEMMA PastVacant ==
    \A m : m.pc \notin Early \/ ~Changes(m.op) => Vacant(m)
BY DEF Vacant, Early, Changes

\* A lookup that found something.
LEMMA ResolvedVacant ==
    ASSUME NEW k \in Calls, k.pc \in Looks, Vacant(k), NEW i, i # None
    PROVE  Vacant(Resolved(k, i))
<1> DEFINE r == [k EXCEPT !.want = <<>>, !.seg = 0, !.at = None, !.pc = "api"]
<1>1. k.pc \in Early
  BY DEF Early
<1>2. CASE k.op = "put" /\ k.par = None
  <2> DEFINE m == [r EXCEPT !.par = i, !.want = k.path, !.pc = "resolve"]
  <2>1. Resolved(k, i) = m
    BY <1>2 DEF Resolved
  <2>2. m.op = "put" /\ m.pc = "resolve"
    BY <1>2 DEF Calls
  <2> HIDE DEF m
  <2> QED
    BY <2>1, <2>2 DEF Vacant
<1>3. CASE k.op = "rename" /\ k.id = None
  <2> DEFINE m == [r EXCEPT !.id = i, !.pc = "parents"]
  <2>1. Resolved(k, i) = m
    BY <1>3 DEF Resolved
  <2>2. m.op = "rename" /\ m.dst = k.dst
    BY <1>3 DEF Calls
  <2> HIDE DEF m
  <2> QED
    BY <1>1, <1>3, <2>1, <2>2 DEF Vacant
<1>4. CASE (k.op = "rename" /\ k.id # None) \/ k.op = "mkdir"
  <2> DEFINE m == [r EXCEPT !.par = i]
  <2>1. Resolved(k, i) = m
    BY <1>4 DEF Resolved
  <2>2. m.op = k.op /\ m.dst = k.dst /\ m.path = k.path
    BY <1>4 DEF Calls
  <2> HIDE DEF m
  <2> QED
    BY <1>1, <1>4, <2>1, <2>2 DEF Vacant
<1>5. CASE k.op \notin {"rename", "mkdir"} /\ ~(k.op = "put" /\ k.par = None)
  <2> DEFINE m == [r EXCEPT !.id = i]
  <2>1. Resolved(k, i) = m
    BY <1>5 DEF Resolved
  <2>2. m.op = k.op /\ m.id = i
    BY <1>5 DEF Calls
  <2> HIDE DEF m
  <2> QED
    BY <1>5, <2>1, <2>2 DEF Vacant
<1> QED
  BY <1>2, <1>3, <1>4, <1>5

\* A walk that found its next segment.
LEMMA AdvanceVacant ==
    ASSUME NEW k \in Calls, k.pc \in {"walk", "store"}, Vacant(k), NEW i, i # None
    PROVE  Vacant(Advance(k, i))
<1>1. k.pc \in Looks /\ k.pc \in Early
  BY DEF Looks, Early
<1>2. CASE k.seg = Len(k.want)
  BY <1>1, <1>2, ResolvedVacant DEF Advance
<1>3. CASE k.seg # Len(k.want)
  <2> DEFINE m == [k EXCEPT !.pc = "walk", !.seg = @ + 1, !.at = i]
  <2>1. Advance(k, i) = m
    BY <1>3 DEF Advance
  <2>2. m.op = k.op /\ m.dst = k.dst /\ m.path = k.path /\ m.pc = "walk"
    BY DEF Calls
  <2> HIDE DEF m
  <2> QED
    BY <1>1, <2>1, <2>2 DEF Vacant
<1> QED
  BY <1>2, <1>3

\* A lookup that found nothing, where there is nothing.
LEMMA UnresolvedVacant ==
    ASSUME NEW k \in Calls, k.op = "put" /\ k.par # None => Clear(k.path)
    PROVE  Vacant(Unresolved(k))
<1>1. CASE k.op = "put" /\ k.par # None
  <2> DEFINE m == [k EXCEPT !.want = <<>>, !.seg = 0, !.at = None, !.pc = "api"]
  <2>1. Unresolved(k) = m
    BY <1>1 DEF Unresolved
  <2>2. m.op = k.op /\ m.path = k.path
    BY DEF Calls
  <2> HIDE DEF m
  <2> QED
    BY <1>1, <2>1, <2>2 DEF Vacant
<1>2. CASE ~(k.op = "put" /\ k.par # None)
  BY <1>2, IdleFine, PastVacant DEF Unresolved, Early, Looks
<1> QED
  BY <1>1, <1>2

\* A segment of a walk that Drive does not find leads nowhere.
LEMMA NotFound ==
    ASSUME Typed, DriveShape, Sole, NEW k \in Calls, k.pc = "walk", WalkFine(k),
           \A j \in Named(k.at, k.want[k.seg]) : k.seg < Len(k.want) /\ obj[j].kind # "dir"
    PROVE  Clear(k.want)
<1>1. /\ k.want \in Paths /\ k.seg \in 1..Len(k.want) /\ Len(k.want) \in 1..2
      /\ Spot(SubSeq(k.want, 1, k.seg - 1), k.at)
  BY PathShape, ParentFacts DEF WalkFine, Calls
<1> SUFFICES ASSUME NEW i, Sits(i, k.want) PROVE FALSE
  BY DEF Clear
<1>2. /\ Spot(Parent(k.want), obj[i].parent) /\ Folder(obj[i].parent)
      /\ obj[i].name = Name(k.want) /\ i \in Ids
  BY <1>1, FolderAbove, NameFits, SpotIds
<1>3. ASSUME NEW d, NEW j \in Ids, Live(j), obj[j].parent = d
      PROVE  j \in Named(d, obj[j].name)
  BY <1>3, Objects DEF Named, Children
<1>4. CASE k.seg = Len(k.want)
  <2>1. Spot(Parent(k.want), k.at) /\ Name(k.want) = k.want[k.seg]
    BY <1>1, <1>4 DEF Parent, Name
  <2>2. k.at = obj[i].parent
    <3>1. CASE Parent(k.want) = <<>>
      BY <1>2, <2>1, <3>1 DEF Spot
    <3>2. CASE Parent(k.want) # <<>>
      <4>1. Parent(k.want) \in Places
        BY <1>1, <3>2, ParentFacts, PathShape
      <4> QED
        BY <1>2, <2>1, <3>2, <4>1 DEF Spot, Sole
    <3> QED
      BY <3>1, <3>2
  <2>3. i \in Named(k.at, k.want[k.seg])
    BY <1>2, <1>3, <2>1, <2>2 DEF Sits
  <2> QED
    BY <1>4, <1>1, <2>3
<1>5. CASE k.seg # Len(k.want)
  <2>1. k.seg = 1 /\ Len(k.want) = 2
    <3>1. k.seg = 1
      BY <1>1, <1>5, SegmentFacts
    <3> QED
      BY <1>1, <1>5, <3>1
  <2>2. SubSeq(k.want, 1, k.seg - 1) = <<>> /\ k.at = Top
    <3>1. PICK t : t = SubSeq(k.want, 1, k.seg - 1) /\ t = <<>>
      BY <1>1, <2>1, SegmentFacts
    <3>2. Spot(t, k.at)
      BY <1>1, <3>1, Zenon
    <3>3. k.at = Top
      BY <3>1, <3>2 DEF Spot
    <3> QED
      BY <3>1, <3>3, Zenon
  <2>3. Parent(k.want) = <<k.want[1]>> /\ <<k.want[1]>> # <<>>
    BY <1>1, <2>1, PathShape, ParentFacts
  <2>4. PICK f : f = obj[i].parent /\ Sits(f, <<k.want[1]>>) /\ Folder(f)
    BY <1>2, <2>3 DEF Spot
  <2>5. f \in Ids /\ Live(f) /\ obj[f].kind = "dir"
    BY <2>4, NotIds DEF Folder, Sits, Live
  <2>6. obj[f].parent = Top /\ obj[f].name = k.want[1]
    <3>1. \A x, y : <<k.want[1]>> # <<x, y>>
      BY TupleFacts
    <3>2. <<k.want[1]>> = <<obj[f].name>> => obj[f].name = k.want[1]
      OBVIOUS
    <3> QED
      BY <2>4, <3>1, <3>2 DEF Sits
  <2>7. f \in Named(k.at, k.want[k.seg])
    BY <1>3, <2>1, <2>2, <2>5, <2>6
  <2> QED
    BY <2>5, <2>7
<1> QED
  BY <1>4, <1>5

\* What a call whose lookup goes on is.
LEMMA LookingFine ==
    ASSUME DriveInv, TreeInv, NEW c \in Callers
    PROVE  /\ call[c] \in Calls /\ Stage(call[c]) /\ WalkFine(call[c]) /\ HeldFine(call[c])
           /\ Vacant(call[c]) /\ Typed /\ DriveShape /\ Sole /\ Charted
BY DEF DriveInv, Typed, CallFine, TreeInv

\* Lookups leave the tree alone.
LEMMA LookupStill ==
    ASSUME DriveInv, TreeInv, Admits = {}, NEW c \in Callers,
           Resolve(c) \/ Walk(c) \/ WalkError(c) \/ WalkStore(c) \/ RenameParents(c)
    PROVE  TreeInv' /\ Picture' = Picture
<1>1. PICK k : k = call[c]
  OBVIOUS
<1>2. /\ k \in Calls /\ Stage(k) /\ WalkFine(k) /\ HeldFine(k) /\ Vacant(k)
      /\ Typed /\ DriveShape /\ Sole
  BY <1>1, LookingFine
<1>3. ASSUME NEW m, call' = [call EXCEPT ![c] = m], Vacant(m), obj' = obj
      PROVE  TreeInv' /\ Picture' = Picture
  BY <1>3, TreeStill
<1>4. Vacant(Idle)
  BY IdleFine, PastVacant DEF Early, Looks
<1>5. CASE Resolve(c)
  <2>1. k.pc \in Looks /\ obj' = obj
    BY <1>1, <1>5 DEF Resolve, Looks
  <2>2. CASE k.want = <<>>
    <3>1. Vacant(Resolved(k, rootID))
      BY <1>2, <2>1, ResolvedVacant, NotIds DEF Typed
    <3> QED
      BY <1>1, <1>3, <1>5, <2>1, <2>2, <3>1 DEF Resolve, Goto
  <2>3. CASE k.want # <<>> /\ ids[k.want] # None
    <3>1. Vacant(Resolved(k, ids[k.want]))
      BY <1>2, <2>1, <2>3, ResolvedVacant
    <3> QED
      BY <1>1, <1>3, <1>5, <2>1, <2>3, <3>1 DEF Resolve, Goto
  <2>4. CASE k.want # <<>> /\ ids[k.want] = None
    <3> DEFINE m == [k EXCEPT !.pc = "walk", !.seg = 1, !.at = rootID]
    <3>1. m.op = k.op /\ m.path = k.path /\ m.dst = k.dst /\ m.pc = "walk"
      BY <1>2 DEF Calls
    <3>2. call' = [call EXCEPT ![c] = m]
      BY <1>1, <1>5, <2>4 DEF Resolve, Goto
    <3> HIDE DEF m
    <3>3. Vacant(m)
      BY <1>2, <2>1, <3>1 DEF Vacant, Early
    <3> QED
      BY <1>3, <2>1, <3>2, <3>3
  <2> QED
    BY <2>2, <2>3, <2>4
<1>6. CASE Walk(c)
  <2>1. k.pc = "walk" /\ k.pc \in Looks /\ k.pc \in Early /\ obj' = obj
    BY <1>1, <1>6 DEF Walk, Looks, Early
  <2>2. CASE ids[Segment(k)] # None
    <3>1. Vacant(Advance(k, ids[Segment(k)]))
      BY <1>2, <2>1, <2>2, AdvanceVacant
    <3> QED
      BY <1>1, <1>3, <1>6, <2>1, <2>2, <3>1 DEF Walk, Goto
  <2>3. ASSUME call' = [call EXCEPT ![c] = Unresolved(k)],
               \A j \in Named(k.at, k.want[k.seg]) : ~(k.seg < Len(k.want) => obj[j].kind = "dir")
        PROVE  TreeInv' /\ Picture' = Picture
    <3>1. Clear(k.want)
      BY <1>2, <2>1, <2>3, NotFound
    <3>2. k.op = "put" /\ k.par # None => k.want = k.path
      BY <1>2, <2>1 DEF Stage, Wanted
    <3>3. Vacant(Unresolved(k))
      BY <1>2, <3>1, <3>2, UnresolvedVacant
    <3> QED
      BY <1>3, <2>1, <2>3, <3>3
  <2>4. ASSUME NEW j, call' = [call EXCEPT ![c] = [k EXCEPT !.pc = "store", !.at = j]]
        PROVE  TreeInv' /\ Picture' = Picture
    <3> DEFINE m == [k EXCEPT !.pc = "store", !.at = j]
    <3>1. m.op = k.op /\ m.path = k.path /\ m.dst = k.dst /\ m.pc = "store"
      BY <1>2 DEF Calls
    <3>2. call' = [call EXCEPT ![c] = m]
      BY <2>4
    <3> HIDE DEF m
    <3>3. Vacant(m)
      BY <1>2, <2>1, <3>1 DEF Vacant
    <3> QED
      BY <1>3, <2>1, <3>2, <3>3
  <2> QED
    BY <1>1, <1>6, <2>2, <2>3, <2>4 DEF Walk, Goto
<1>7. CASE WalkError(c)
  <2>1. call' = [call EXCEPT ![c] = Idle] /\ obj' = obj
    BY <1>1, <1>7 DEF WalkError, Goto
  <2> QED
    BY <1>3, <1>4, <2>1
<1>8. CASE WalkStore(c)
  <2>1. k.pc = "store" /\ k.at # None
    BY <1>1, <1>2, <1>8, SpotIds DEF WalkStore, WalkFine
  <2>2. Vacant(Advance(k, k.at))
    BY <1>2, <2>1, AdvanceVacant
  <2> QED
    BY <1>1, <1>3, <1>8, <2>2 DEF WalkStore, Goto
<1>9. CASE RenameParents(c)
  <2> DEFINE m == [k EXCEPT !.pc = "resolve", !.want = Parent(k.dst)]
  <2>1. m.op = k.op /\ m.path = k.path /\ m.dst = k.dst /\ m.pc = "resolve" /\ k.pc \in Early
    BY <1>1, <1>2, <1>9 DEF Calls, RenameParents, Early
  <2>2. obj' = obj /\ (call' = [call EXCEPT ![c] = m] \/ call' = [call EXCEPT ![c] = Idle])
    BY <1>1, <1>9 DEF RenameParents, Goto
  <2> HIDE DEF m
  <2>3. Vacant(m)
    BY <1>2, <2>1 DEF Vacant
  <2> QED
    BY <1>3, <1>4, <2>2, <2>3
<1> QED
  BY <1>5, <1>6, <1>7, <1>8, <1>9

\* So do reads, failing requests and the statements on the table.
LEMMA QuietStill ==
    ASSUME DriveInv, TreeInv, NEW c \in Callers,
           GetApi(c) \/ ListApi(c) \/ ListStore(c) \/ ApiError(c) \/ Unmap(c) \/ Map(c)
    PROVE  TreeInv' /\ Picture' = Picture
<1>1. PICK k : k = call[c]
  OBVIOUS
<1>2. k \in Calls /\ Stage(k)
  BY <1>1, LookingFine
<1>3. ASSUME NEW m, call' = [call EXCEPT ![c] = m], Vacant(m), obj' = obj
      PROVE  TreeInv' /\ Picture' = Picture
  BY <1>3, TreeStill
<1>4. Vacant(Idle)
  BY IdleFine, PastVacant DEF Early, Looks
<1>5. CASE GetApi(c) \/ ApiError(c) \/ Map(c)
  BY <1>3, <1>4, <1>5 DEF GetApi, ApiError, Map, Goto
<1>6. CASE ListApi(c)
  <2> DEFINE m == [k EXCEPT !.pc = "listed", !.todo = Children(k.id)]
  <2>1. m.pc = "listed"
    BY <1>2 DEF Calls
  <2>2. obj' = obj /\ (call' = [call EXCEPT ![c] = m] \/ call' = [call EXCEPT ![c] = Idle])
    BY <1>1, <1>6 DEF ListApi, Goto
  <2> HIDE DEF m
  <2>3. Vacant(m)
    BY <2>1, PastVacant DEF Early, Looks
  <2> QED
    BY <1>3, <1>4, <2>2, <2>3
<1>7. CASE ListStore(c)
  <2>1. k.pc = "listed" /\ obj' = obj
    BY <1>1, <1>7 DEF ListStore
  <2>2. PICK j : call' = [call EXCEPT ![c] = IF k.todo = {j} THEN Idle ELSE [k EXCEPT !.todo = @ \ {j}]]
    BY <1>1, <1>7 DEF ListStore, Goto
  <2> DEFINE m == [k EXCEPT !.todo = @ \ {j}]
  <2>3. m.pc = "listed"
    BY <1>2, <2>1 DEF Calls
  <2>4. call' = [call EXCEPT ![c] = m] \/ call' = [call EXCEPT ![c] = Idle]
    BY <2>2
  <2> HIDE DEF m
  <2>5. Vacant(m)
    BY <2>3, PastVacant DEF Early, Looks
  <2> QED
    BY <1>3, <1>4, <2>1, <2>4, <2>5
<1>8. CASE Unmap(c)
  <2> DEFINE m == [k EXCEPT !.pc = "map"]
  <2>1. m.pc = "map"
    BY <1>2 DEF Calls
  <2>2. obj' = obj /\ (call' = [call EXCEPT ![c] = m] \/ call' = [call EXCEPT ![c] = Idle])
    BY <1>1, <1>8 DEF Unmap, Goto
  <2> HIDE DEF m
  <2>3. Vacant(m)
    BY <2>1, PastVacant DEF Early, Looks
  <2> QED
    BY <1>3, <1>4, <2>2, <2>3
<1> QED
  BY <1>5, <1>6, <1>7, <1>8

-----------------------------------------------------------------------------
(* Calls that begin, and restarts.                                         *)

\* A place that is free is clear.
LEMMA FreeClear ==
    ASSUME Typed, NEW p \in Paths, Free(p)
    PROVE  Clear(p)
BY AtSits, PathShape DEF Free, Clear

\* A call begins where nothing is in the way.
LEMMA BeginStill ==
    ASSUME DriveInv, TreeInv, NEW c \in Callers, NEW op, NEW p, NEW d, NEW v, NEW want,
           Begin(c, op, p, d, v, want),
           op = "mkdir" => Clear(p), op = "rename" => Clear(d)
    PROVE  TreeInv' /\ Picture' = Picture
<1> DEFINE m == [Idle EXCEPT !.op = op, !.path = p, !.dst = d, !.ver = v,
                             !.pc = "resolve", !.want = want]
<1>1. m.op = op /\ m.path = p /\ m.dst = d /\ m.pc = "resolve"
  BY DEF Idle
<1>2. call' = [call EXCEPT ![c] = m] /\ obj' = obj
  BY DEF Begin
<1> HIDE DEF m
<1>3. Vacant(m)
  BY <1>1 DEF Vacant
<1> QED
  BY <1>2, <1>3, TreeStill

\* Every way to begin a call leaves the tree alone.
LEMMA StartStill ==
    ASSUME DriveInv, TreeInv, Admits = {}, NEW c \in Callers, Start(c) \/ Lists(c)
    PROVE  TreeInv' /\ Picture' = Picture
<1>1. Typed
  BY DEF DriveInv
<1>2. ASSUME NEW p \in Paths, GetBegin(c, p)
      PROVE  TreeInv' /\ Picture' = Picture
  BY <1>2, BeginStill DEF GetBegin
<1>3. ASSUME NEW p \in Paths, MkdirBegin(c, p)
      PROVE  TreeInv' /\ Picture' = Picture
  <2>1. Clear(p)
    BY <1>1, <1>3, FreeClear DEF MkdirBegin
  <2> QED
    BY <1>3, <2>1, BeginStill DEF MkdirBegin
<1>4. ASSUME NEW p \in Paths, DeleteBegin(c, p)
      PROVE  TreeInv' /\ Picture' = Picture
  BY <1>4, BeginStill DEF DeleteBegin
<1>5. ASSUME NEW p \in Paths, NEW v \in Vers, PutBegin(c, p, v)
      PROVE  TreeInv' /\ Picture' = Picture
  BY <1>5, BeginStill DEF PutBegin
<1>6. ASSUME NEW p \in Paths, NEW d \in Paths, RenameBegin(c, p, d)
      PROVE  TreeInv' /\ Picture' = Picture
  <2>1. Clear(d)
    BY <1>1, <1>6, FreeClear DEF RenameBegin
  <2> QED
    BY <1>6, <2>1, BeginStill DEF RenameBegin
<1>7. ASSUME NEW p, ListBegin(c, p)
      PROVE  TreeInv' /\ Picture' = Picture
  BY <1>7, BeginStill DEF ListBegin
<1> QED
  BY <1>2, <1>3, <1>4, <1>5, <1>6, <1>7 DEF Start, Lists

\* So does a restart.
LEMMA RestartStill ==
    ASSUME TreeInv, Restart
    PROVE  TreeInv' /\ Picture' = Picture
<1>1. Sole' /\ Charted' /\ Picture' = Picture
  BY SameChart DEF TreeInv, Restart
<1>2. \A c \in Callers : call'[c] = Idle
  BY DEF Restart
<1>3. \A c \in Callers : Vacant(call[c])'
  BY <1>2, IdleFine DEF Vacant
<1> QED
  BY <1>1, <1>3 DEF TreeInv

-----------------------------------------------------------------------------
(* The requests and the changes of other clients are those of the tree.    *)

\* A call whose paths are apart from what is new still finds nothing there.
LEMMA VacantKept ==
    ASSUME NEW k, Stage(k), Vacant(k), NEW Y, Gains(Y),
           Changes(k.op) => \A p \in Y, r \in Ends(k) : ~Under(p, r)
    PROVE  Vacant(k)'
<1>1. ASSUME Changes(k.op), NEW r \in Ends(k), r \in Paths, Clear(r)
      PROVE  Clear(r)'
  <2> SUFFICES ASSUME NEW j, Sits(j, r)' PROVE FALSE
    BY DEF Clear
  <2>1. j \in Ids /\ r \in Places
    BY <1>1, PathShape DEF Sits, Live
  <2> QED
    BY <1>1, <2>1 DEF Gains, Clear
<1>2. k.op = "mkdir" /\ k.pc \in Early => Clear(k.path)'
  <2> SUFFICES ASSUME k.op = "mkdir", k.pc \in Early PROVE Clear(k.path)'
    OBVIOUS
  <2>1. Changes(k.op) /\ k.path \in Ends(k) /\ k.path \in Paths /\ Clear(k.path)
    BY DEF Vacant, Stage, Ends, Changes
  <2> QED
    BY <1>1, <2>1
<1>3. k.op = "rename" /\ k.pc \in Early => Clear(k.dst)'
  <2> SUFFICES ASSUME k.op = "rename", k.pc \in Early PROVE Clear(k.dst)'
    OBVIOUS
  <2>1. Changes(k.op) /\ k.dst \in Ends(k) /\ k.dst \in Paths /\ Clear(k.dst)
    BY DEF Vacant, Stage, Ends, Target, Changes
  <2> QED
    BY <1>1, <2>1
<1>4. k.op = "put" /\ k.pc = "api" /\ k.id = None => Clear(k.path)'
  <2> SUFFICES ASSUME k.op = "put", k.pc = "api", k.id = None PROVE Clear(k.path)'
    OBVIOUS
  <2>1. Changes(k.op) /\ k.path \in Ends(k) /\ k.path \in Paths /\ Clear(k.path)
    BY DEF Vacant, Stage, Ends, Changes
  <2> QED
    BY <1>1, <2>1
<1> QED
  BY <1>2, <1>3, <1>4 DEF Vacant

\* A request is apart from what other calls are about to create.
LEMMA VacantRequest ==
    ASSUME DriveInv, TreeInv, NEW c \in Callers, Changes(call[c].op), NEW Y, Gains(Y),
           Y \subseteq {Target(call[c])},
           NEW m, call' = [call EXCEPT ![c] = m], m.pc \notin Early
    PROVE  (\A e \in Callers : Vacant(call[e]))'
<1> SUFFICES ASSUME NEW e \in Callers PROVE Vacant(call[e])'
  OBVIOUS
<1>1. call'[c] = m /\ (e # c => call'[e] = call[e])
  BY DEF DriveInv, Typed
<1>2. CASE e = c
  <2>1. m.pc # "api"
    BY DEF Early
  <2> QED
    BY <1>1, <1>2, <2>1 DEF Vacant
<1>3. CASE e # c
  <2>1. PICK k : k = call[e]
    OBVIOUS
  <2>2. Stage(k) /\ Vacant(k) /\ Apart(call[c], k)
    BY <1>3, <2>1 DEF DriveInv, CallFine, TreeInv
  <2>3. Changes(k.op) => \A p \in Y, r \in Ends(k) : ~Under(p, r)
    BY <2>2 DEF Apart, Ends, Changes
  <2>4. Vacant(k)'
    BY <2>2, <2>3, VacantKept
  <2>5. call'[e] = k
    BY <1>1, <1>3, <2>1
  <2> QED
    BY <2>4, <2>5 DEF Vacant
<1> QED
  BY <1>2, <1>3

\* So is a change of another client.
LEMMA VacantPeer ==
    ASSUME DriveInv, TreeInv, call' = call, NEW Y, Gains(Y),
           \A p \in Y, e \in Callers : ~Touches(call[e], p)
    PROVE  (\A e \in Callers : Vacant(call[e]))'
<1> SUFFICES ASSUME NEW e \in Callers PROVE Vacant(call[e])'
  OBVIOUS
<1>1. PICK k : k = call[e]
  OBVIOUS
<1>2. Stage(k) /\ Vacant(k)
  BY <1>1 DEF DriveInv, CallFine, TreeInv
<1>3. Changes(k.op) => \A p \in Y, r \in Ends(k) : ~Under(p, r)
  BY <1>1 DEF Touches, Ends, Target, Changes
<1>4. Vacant(k)'
  BY <1>2, <1>3, VacantKept
<1> QED
  BY <1>1, <1>4 DEF Vacant

\* The directory that a path of the tree needs.
Rooted(p) == Parent(p) = <<>> \/ (Parent(p) \in Paths /\ Picture[Parent(p)].kind = "dir")

\* The steps of the tree.
LEMMA TreePut ==
    ASSUME NEW p \in Paths, NEW v \in Vers, Rooted(p), Picture[p].kind # "dir",
           Picture' = [Picture EXCEPT ![p] = [kind |-> "file", ver |-> v]]
    PROVE  Tree!Next
BY DEF Rooted, Picture, Parent, Tree!Next, Tree!Put, Tree!MayPut, Tree!IsDir, Tree!Parent, Tree!File

\* A directory is made.
LEMMA TreeMkdir ==
    ASSUME NEW p \in Paths, Rooted(p), Picture[p] = [kind |-> "absent"],
           Picture' = [Picture EXCEPT ![p] = [kind |-> "dir"]]
    PROVE  Tree!Next
BY DEF Rooted, Picture, Parent, Tree!Next, Tree!Mkdir, Tree!MayMkdir, Tree!IsDir, Tree!Parent,
       Tree!Absent, Tree!Dir

\* A path and all below it goes.
LEMMA TreeDelete ==
    ASSUME NEW p \in Paths, Picture[p] # [kind |-> "absent"],
           Picture' = [q \in Paths |-> IF Under(p, q) THEN [kind |-> "absent"] ELSE Picture[q]]
    PROVE  Tree!Next
BY DEF Picture, Under, Tree!Next, Tree!Delete, Tree!MayDelete, Tree!Under, Tree!Absent

\* A path and all below it moves.
LEMMA TreeRename ==
    ASSUME NEW p \in Paths, NEW d \in Paths, Picture[p] # [kind |-> "absent"],
           Picture[d] = [kind |-> "absent"], Rooted(d), ~Under(p, d),
           Picture' = Tree!Move(Picture, p, d)
    PROVE  Tree!Next
BY DEF Rooted, Picture, Parent, Under, Tree!Next, Tree!Rename, Tree!MayRename, Tree!Under,
       Tree!IsDir, Tree!Parent, Tree!Absent

\* What a request or a change of another client starts from and ends in.
LEMMA BothEnds ==
    ASSUME DriveInv, DriveInv', TreeInv
    PROVE  /\ Typed /\ DriveShape /\ Sole /\ Charted /\ Drawn
           /\ (Typed /\ DriveShape)'
BY TreeDrawn DEF DriveInv, TreeInv

\* Put of a file that was found.
LEMMA PutUpdateMaps ==
    ASSUME DriveInv, DriveInv', TreeInv, Quiet, NEW c \in Callers, PutUpdate(c)
    PROVE  TreeInv' /\ Tree!Next
<1>1. PICK k : k = call[c]
  OBVIOUS
<1>2. PICK i, p : i = k.id /\ p = k.path
  OBVIOUS
<1>3. /\ k.op = "put" /\ k.ver \in Vers /\ p \in Paths /\ Sits(i, p)
      /\ obj[i].kind = "file" /\ obj'[i].kind = "file" /\ obj'[i].ver = k.ver
      /\ \A j \in Ids \ {i} : obj'[j] = obj[j]
      /\ Lossless({}) /\ Gains({}) /\ call' = [call EXCEPT ![c] = Idle]
  BY <1>1, <1>2, PutUpdateEffect
<1>4. /\ Typed /\ DriveShape /\ Sole /\ Charted /\ Drawn
      /\ (Typed /\ DriveShape)'
  BY BothEnds
<1>5. Sole' /\ Charted' /\ Picture' = [Picture EXCEPT ![p] = Shown(i)']
  BY <1>3, <1>4, WrittenTree
<1>6. (\A e \in Callers : Vacant(call[e]))'
  <2>1. Idle.pc \notin Early /\ Changes(call[c].op)
    BY <1>1, <1>3, IdleFine DEF Early, Looks, Changes
  <2>2. {} \subseteq {Target(call[c])}
    OBVIOUS
  <2> QED
    BY <1>3, <2>1, <2>2, VacantRequest
<1>7. Shown(i)' = [kind |-> "file", ver |-> k.ver] /\ Picture[p].kind = "file"
  <2>1. Shown(i)' = [kind |-> "file", ver |-> k.ver] /\ Shown(i).kind = "file"
    BY <1>3 DEF Shown
  <2>2. Picture[p] = Shown(i)
    BY <1>3, <1>4 DEF Drawn
  <2> QED
    BY <2>1, <2>2
<1>8. Rooted(p)
  BY <1>3, <1>4, FolderAbove, DirAbove DEF Rooted
<1>9. Tree!Next
  BY <1>3, <1>5, <1>7, <1>8, TreePut
<1> QED
  BY <1>5, <1>6, <1>9 DEF TreeInv

\* Put of a file that was not found.
LEMMA PutCreateMaps ==
    ASSUME DriveInv, DriveInv', TreeInv, Quiet, NEW c \in Callers, PutCreate(c)
    PROVE  TreeInv' /\ Tree!Next
<1>1. PICK k : k = call[c]
  OBVIOUS
<1>2. PICK p : p = k.path
  OBVIOUS
<1>3. /\ k.op = "put" /\ k.pc = "api" /\ k.id = None /\ k.ver \in Vers /\ p \in Paths
      /\ Spot(Parent(p), k.par) /\ Folder(k.par)
      /\ \E i \in Ids : NewFile(i, p, k.ver)
      /\ Gains({p}) /\ call' = [call EXCEPT ![c] = Idle]
  BY <1>1, <1>2, PutCreateEffect
<1>4. PICK i \in Ids : NewFile(i, p, k.ver)
  BY <1>3
<1>5. /\ Typed /\ DriveShape /\ Sole /\ Charted /\ Drawn
      /\ (Typed /\ DriveShape)'
  BY BothEnds
<1>6. Clear(p)
  BY <1>1, <1>2, <1>3 DEF TreeInv, Vacant
<1>7. Sole' /\ Charted' /\ Picture' = [Picture EXCEPT ![p] = Shown(i)']
  BY <1>3, <1>4, <1>5, <1>6, CreatedTree DEF NewFile
<1>8. (\A e \in Callers : Vacant(call[e]))'
  <2>1. Idle.pc \notin Early /\ Changes(call[c].op) /\ {p} \subseteq {Target(call[c])}
    BY <1>1, <1>2, <1>3, IdleFine DEF Early, Looks, Changes, Target
  <2> QED
    BY <1>3, <2>1, VacantRequest
<1>9. Shown(i)' = [kind |-> "file", ver |-> k.ver] /\ Picture[p].kind = "absent"
  BY <1>3, <1>4, <1>5, <1>6 DEF Shown, Drawn, NewFile
<1>10. Rooted(p)
  BY <1>3, <1>5, DirAbove DEF Rooted
<1>11. Tree!Next
  BY <1>3, <1>7, <1>9, <1>10, TreePut
<1> QED
  BY <1>7, <1>8, <1>11 DEF TreeInv

\* Mkdir.
LEMMA MkdirMaps ==
    ASSUME DriveInv, DriveInv', TreeInv, Quiet, NEW c \in Callers, MkdirApi(c)
    PROVE  TreeInv' /\ Tree!Next
<1>1. PICK k : k = call[c]
  OBVIOUS
<1>2. PICK p : p = k.path
  OBVIOUS
<1>3. /\ k.op = "mkdir" /\ k.pc = "api" /\ p \in Paths
      /\ Spot(Parent(p), k.par) /\ Folder(k.par)
      /\ \E i \in Ids : MadeBy(c, k, i)
      /\ Gains({p})
  BY <1>1, <1>2, MkdirApiEffect
<1>4. PICK i \in Ids : MadeBy(c, k, i)
  BY <1>3
<1>5. Appears(i, p) /\ obj'[i].kind = "dir" /\ call' = [call EXCEPT ![c] = Made(k, i)]
  BY <1>2, <1>4 DEF MadeBy
<1>6. /\ Typed /\ DriveShape /\ Sole /\ Charted /\ Drawn
      /\ (Typed /\ DriveShape)'
  BY BothEnds
<1>7. Clear(p)
  BY <1>1, <1>2, <1>3 DEF TreeInv, Vacant, Early
<1>8. Sole' /\ Charted' /\ Picture' = [Picture EXCEPT ![p] = Shown(i)']
  BY <1>3, <1>5, <1>6, <1>7, CreatedTree
<1>9. (\A e \in Callers : Vacant(call[e]))'
  <2>1. Made(k, i).pc = "map"
    BY <1>1 DEF Made, DriveInv, Typed, Calls
  <2>2. Made(k, i).pc \notin Early /\ Changes(call[c].op) /\ {p} \subseteq {Target(call[c])}
    BY <1>1, <1>2, <1>3, <2>1 DEF Early, Looks, Changes, Target
  <2> QED
    BY <1>3, <1>5, <2>2, VacantRequest
<1>10. Shown(i)' = [kind |-> "dir"] /\ Picture[p] = [kind |-> "absent"]
  BY <1>3, <1>5, <1>6, <1>7 DEF Shown, Drawn
<1>11. Rooted(p)
  BY <1>3, <1>6, DirAbove DEF Rooted
<1>12. Tree!Next
  BY <1>3, <1>8, <1>10, <1>11, TreeMkdir
<1> QED
  BY <1>8, <1>9, <1>12 DEF TreeInv

\* Delete.
LEMMA DeleteMaps ==
    ASSUME DriveInv, DriveInv', TreeInv, Quiet, NEW c \in Callers, DeleteApi(c)
    PROVE  TreeInv' /\ Tree!Next
<1>1. PICK k : k = call[c]
  OBVIOUS
<1>2. PICK i, p : i = k.id /\ p = k.path
  OBVIOUS
<1> DEFINE m == [k EXCEPT !.pc = "unmap"]
<1>3. /\ k.op = "delete" /\ p \in Paths /\ Sits(i, p) /\ Vanishes(i)
      /\ Lossless({p}) /\ Gains({}) /\ call' = [call EXCEPT ![c] = m]
  BY <1>1, <1>2, DeleteApiEffect
<1>4. /\ Typed /\ DriveShape /\ Sole /\ Charted /\ Drawn
      /\ (Typed /\ DriveShape)'
  BY BothEnds
<1>5. /\ Sole' /\ Charted'
      /\ Picture' = [q \in Paths |-> IF Under(p, q) THEN [kind |-> "absent"] ELSE Picture[q]]
  BY <1>3, <1>4, ErasedTree
<1>6. (\A e \in Callers : Vacant(call[e]))'
  <2>1. m.pc = "unmap"
    BY <1>1 DEF DriveInv, Typed, Calls
  <2>2. m.pc \notin Early /\ Changes(call[c].op) /\ {} \subseteq {Target(call[c])}
    BY <1>1, <1>3, <2>1 DEF Early, Looks, Changes
  <2> HIDE DEF m
  <2> QED
    BY <1>3, <2>2, VacantRequest
<1>7. Picture[p] # [kind |-> "absent"]
  <2>1. Shown(i).kind # "absent"
    BY DEF Shown
  <2>2. Picture[p] = Shown(i)
    BY <1>3, <1>4 DEF Drawn
  <2> QED
    BY <2>1, <2>2
<1>8. Tree!Next
  BY <1>3, <1>5, <1>7, TreeDelete
<1> QED
  BY <1>5, <1>6, <1>8 DEF TreeInv

\* Rename.
LEMMA RenameMaps ==
    ASSUME DriveInv, DriveInv', TreeInv, Quiet, Closed, NEW c \in Callers, RenameApi(c)
    PROVE  TreeInv' /\ Tree!Next
<1>1. PICK k : k = call[c]
  OBVIOUS
<1>2. PICK i, f, p, d : i = k.id /\ f = k.par /\ p = k.path /\ d = k.dst
  OBVIOUS
<1> DEFINE m == [k EXCEPT !.pc = "unmap"]
<1>3. /\ k.op = "rename" /\ k.pc = "api" /\ p \in Paths /\ d \in Paths
      /\ ~Under(p, d) /\ ~Under(d, p) /\ (Len(d) = 2 => Bare(p))
      /\ Spot(Parent(d), f) /\ Folder(f) /\ Sits(i, p) /\ MovesTo(i, d)
      /\ obj'[i].kind = obj[i].kind /\ (obj[i].kind = "file" => obj'[i].ver = obj[i].ver)
      /\ Gains({d}) /\ call' = [call EXCEPT ![c] = m]
  BY <1>1, <1>2, RenameApiEffect
<1>4. /\ Typed /\ DriveShape /\ Sole /\ Charted /\ Drawn
      /\ (Typed /\ DriveShape)'
  BY BothEnds
<1>5. Clear(d)
  BY <1>1, <1>2, <1>3 DEF TreeInv, Vacant, Early
<1>6. Shown(i)' = Shown(i)
  <2>1. obj[i].kind = "dir" \/ obj[i].kind = "file"
    BY <1>3 DEF Sits, Live
  <2> QED
    BY <1>3, <2>1 DEF Shown
<1>7. Sole' /\ Charted' /\ Picture' = Tree!Move(Picture, p, d)
  BY <1>3, <1>4, <1>5, <1>6, MovedTree
<1>8. (\A e \in Callers : Vacant(call[e]))'
  <2>1. m.pc = "unmap"
    BY <1>1 DEF DriveInv, Typed, Calls
  <2>2. m.pc \notin Early /\ Changes(call[c].op) /\ {d} \subseteq {Target(call[c])}
    BY <1>1, <1>2, <1>3, <2>1 DEF Early, Looks, Changes, Target
  <2> HIDE DEF m
  <2> QED
    BY <1>3, <2>2, VacantRequest
<1>9. Picture[p] # [kind |-> "absent"] /\ Picture[d] = [kind |-> "absent"]
  <2>1. Shown(i).kind # "absent"
    BY DEF Shown
  <2>2. Picture[p] = Shown(i) /\ Picture[d] = [kind |-> "absent"]
    BY <1>3, <1>4, <1>5 DEF Drawn
  <2> QED
    BY <2>1, <2>2
<1>10. Rooted(d)
  BY <1>3, <1>4, DirAbove DEF Rooted
<1>11. Tree!Next
  BY <1>3, <1>7, <1>9, <1>10, TreeRename
<1> QED
  BY <1>7, <1>8, <1>11 DEF TreeInv

\* Another client.
LEMMA PeerMaps ==
    ASSUME DriveInv, DriveInv', TreeInv, Admits = {}, Peer
    PROVE  TreeInv' /\ Tree!Next
<1>1. /\ Typed /\ DriveShape /\ Sole /\ Charted /\ Drawn
      /\ (Typed /\ DriveShape)'
  BY BothEnds
<1>2. ASSUME NEW i \in Ids, NEW v \in Vers, PeerWrite(i, v)
      PROVE  TreeInv' /\ Tree!Next
  <2>1. /\ Live(i) /\ obj[i].kind = "file" /\ obj'[i].kind = "file" /\ obj'[i].ver = v
        /\ \A j \in Ids \ {i} : obj'[j] = obj[j]
        /\ Lossless({}) /\ Gains({}) /\ call' = call
    BY <1>1, <1>2, PeerWriteEffect DEF PeerWrite
  <2>2. PICK p \in Paths : Sits(i, p)
    BY <1>1, <2>1 DEF Charted
  <2>3. Sole' /\ Charted' /\ Picture' = [Picture EXCEPT ![p] = Shown(i)']
    BY <1>1, <2>1, <2>2, WrittenTree
  <2>4. (\A e \in Callers : Vacant(call[e]))'
    BY <2>1, VacantPeer
  <2>5. Shown(i)' = [kind |-> "file", ver |-> v] /\ Picture[p].kind = "file"
    <3>1. Shown(i)' = [kind |-> "file", ver |-> v] /\ Shown(i).kind = "file"
      BY <2>1 DEF Shown
    <3>2. Picture[p] = Shown(i)
      BY <1>1, <2>2 DEF Drawn
    <3> QED
      BY <3>1, <3>2
  <2>6. Rooted(p)
    BY <1>1, <2>2, FolderAbove, DirAbove DEF Rooted
  <2>7. Tree!Next
    BY <2>3, <2>5, <2>6, TreePut
  <2> QED
    BY <2>3, <2>4, <2>7 DEF TreeInv
<1>3. ASSUME NEW p \in Paths, NEW v \in Vers, PeerCreate(p, v)
      PROVE  TreeInv' /\ Tree!Next
  <2>0. PICK i \in Ids : NewFile(i, p, v)
    BY <1>1, <1>3, PeerCreateEffect
  <2>1. /\ \E d : Spot(Parent(p), d) /\ Folder(d)
        /\ Appears(i, p) /\ obj'[i].kind = "file" /\ obj'[i].ver = v /\ Gains({p})
    BY <1>1, <1>3, <2>0, PeerCreateEffect DEF NewFile
  <2>2. Clear(p) /\ call' = call /\ \A e \in Callers : ~Touches(call[e], p)
    BY <1>1, <1>3, FreeClear DEF PeerCreate, Unheeded
  <2>3. Sole' /\ Charted' /\ Picture' = [Picture EXCEPT ![p] = Shown(i)']
    BY <1>1, <2>1, <2>2, CreatedTree
  <2>4. (\A e \in Callers : Vacant(call[e]))'
    BY <2>1, <2>2, VacantPeer
  <2>5. Shown(i)' = [kind |-> "file", ver |-> v] /\ Picture[p].kind = "absent"
    BY <1>1, <2>1, <2>2 DEF Shown, Drawn
  <2>6. Rooted(p)
    BY <1>1, <2>1, DirAbove DEF Rooted
  <2>7. Tree!Next
    BY <2>3, <2>5, <2>6, TreePut
  <2> QED
    BY <2>3, <2>4, <2>7 DEF TreeInv
<1>4. ASSUME NEW p \in Paths, NEW i \in Ids, PeerDelete(p, i)
      PROVE  TreeInv' /\ Tree!Next
  <2>1. /\ Sits(i, p) /\ Vanishes(i) /\ Lossless({p}) /\ Gains({}) /\ call' = call
    BY <1>1, <1>4, PeerDeleteEffect DEF PeerDelete
  <2>2. /\ Sole' /\ Charted'
        /\ Picture' = [q \in Paths |-> IF Under(p, q) THEN [kind |-> "absent"] ELSE Picture[q]]
    BY <1>1, <2>1, ErasedTree
  <2>3. (\A e \in Callers : Vacant(call[e]))'
    BY <2>1, VacantPeer
  <2>4. Picture[p] # [kind |-> "absent"]
    <3>1. Shown(i).kind # "absent" /\ Picture[p] = Shown(i)
      BY <1>1, <2>1 DEF Shown, Drawn
    <3> QED
      BY <3>1
  <2>5. Tree!Next
    BY <2>2, <2>4, TreeDelete
  <2> QED
    BY <2>2, <2>3, <2>5 DEF TreeInv
<1> QED
  BY <1>2, <1>3, <1>4 DEF Peer

-----------------------------------------------------------------------------
(* The refinement.                                                         *)

\* Every step of the adapter is one of the tree or leaves it alone.
LEMMA StepMaps ==
    ASSUME DriveInv, DriveInv', TreeInv, Admits = {}, Closed, [Next]_vars
    PROVE  TreeInv' /\ (Tree!Next \/ Picture' = Picture)
<1>1. Quiet
  BY DEF Quiet
<1>2. ASSUME NEW c \in Callers, Step(c)
      PROVE  TreeInv' /\ (Tree!Next \/ Picture' = Picture)
  BY <1>1, <1>2, LookupStill, QuietStill, PutUpdateMaps, PutCreateMaps, MkdirMaps, DeleteMaps,
     RenameMaps DEF Step
<1>3. CASE UNCHANGED vars
  <2>1. Sole' /\ Charted' /\ Picture' = Picture /\ \A k : Vacant(k) => Vacant(k)'
    BY <1>3, SameChart DEF TreeInv, vars
  <2>2. ASSUME NEW e \in Callers
        PROVE  Vacant(call[e])'
    <3>1. PICK k : k = call[e]
      OBVIOUS
    <3>2. Vacant(k)' /\ k = call'[e]
      BY <1>3, <2>1, <3>1 DEF TreeInv, vars
    <3> QED
      BY <3>2 DEF Vacant
  <2> QED
    BY <2>1, <2>2 DEF TreeInv
<1> QED
  BY <1>2, <1>3, StartStill, RestartStill, PeerMaps DEF Next

\* The tree starts empty.
LEMMA InitMaps ==
    ASSUME Init, DriveInv
    PROVE  TreeInv /\ Tree!Init
<1>1. \A i : ~Live(i)
  BY DEF Init, Live, Unused
<1>2. \A p : Clear(p)
  BY <1>1 DEF Clear, Sits
<1>3. Sole /\ Charted
  BY <1>1, <1>2 DEF Sole, Charted, Clear
<1>4. \A c \in Callers : Vacant(call[c])
  BY <1>2 DEF Vacant
<1>5. Drawn
  BY <1>3, TreeDrawn DEF DriveInv
<1>6. \A p \in Paths : Picture[p] = [kind |-> "absent"]
  BY <1>2, <1>5 DEF Drawn
<1> QED
  BY <1>3, <1>4, <1>6 DEF TreeInv, Picture, Tree!Init, Tree!Absent

\* The adapter with its table of identifiers, its walks and its separate
\* requests implements the tree of paths of RemoteTree, for any set of paths,
\* identifiers, contents and goroutines, as long as none of the circumstances
\* occurs: every request changes the tree as the operation of its call says,
\* and nothing else the adapter does changes it (adapter.go: RemoteAdapter).
THEOREM ImplementsTree ==
    ASSUME Admits = {}, OwnKey, Closed
    PROVE  Spec => TreeImplemented
<1>1. Quiet
  BY DEF Quiet
<1>2. Init => DriveInv
  BY InitFine
<1>3. Init => TreeInv /\ Tree!Init
  BY <1>2, InitMaps
<1>4. DriveInv /\ DriveInv' /\ TreeInv /\ [Next]_vars => TreeInv'
  BY StepMaps
<1>5. DriveInv /\ DriveInv' /\ TreeInv /\ [Next]_vars => [Tree!Next]_([p \in Paths |-> TreeAt(p)])
  BY StepMaps DEF Picture
<1>6. Spec => []DriveInv
  BY <1>1, AdapterSound
<1> QED
  BY <1>3, <1>4, <1>5, <1>6, PTL DEF Spec, TreeImplemented, Tree!Spec
=============================================================================
