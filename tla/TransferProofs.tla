--------------------------- MODULE TransferProofs ---------------------------
(***************************************************************************)
(* What resumed transfers write and report, for every file length, every   *)
(* number of goroutines and every retry budget.                            *)
(***************************************************************************)
EXTENDS Transfer, FiniteSetTheorems, WellFoundedInduction, TLAPS

-----------------------------------------------------------------------------
(* Induction, in the form of a set of numbers that holds 0 and is closed   *)
(* under successor, and loops, which are recursive functions.              *)

\* Induction up to n: a set with 0 and with the successor of each of its
\* members below n has every number up to n.
LEMMA Induction ==
    ASSUME NEW n \in Nat, NEW S, 0 \in S,
           \A m \in 0..n : m \in S /\ m < n => m + 1 \in S
    PROVE  0..n \subseteq S
<1> DEFINE Bad == {m \in 0..n : m \notin S}
<1> SUFFICES ASSUME Bad # {} PROVE FALSE
  OBVIOUS
<1>1. Bad \in SUBSET Nat
  OBVIOUS
<1>2. PICK x \in Bad : ~ \E y \in Bad : <<y, x>> \in OpToRel(<, Nat)
  BY <1>1, WFMin, NatLessThanWellFounded
<1>3. x \in 0..n /\ x \notin S /\ x # 0
  OBVIOUS
<1>4. x - 1 \in 0..n /\ x - 1 < n /\ x - 1 \notin S
  BY <1>3
<1>5. x - 1 \in Bad /\ <<x - 1, x>> \in OpToRel(<, Nat)
  BY <1>3, <1>4 DEF OpToRel
<1> QED
  BY <1>2, <1>5

\* f holds the values of a loop of n iterations: it begins with init, and
\* iteration m takes a value a of A to step[m][a].
IsLoop(f, n, A, init, step) ==
    /\ f \in [0..n -> A] /\ f[0] = init
    /\ \A m \in 1..n : f[m] = step[m][f[m - 1]]

\* Every loop has its values.
LEMMA LoopExists ==
    ASSUME NEW n \in Nat, NEW A, NEW init \in A, NEW step \in [1..n -> [A -> A]]
    PROVE  \E f : IsLoop(f, n, A, init, step)
<1> DEFINE Loop(m, f) == f[0] = init /\ \A k \in 1..m : f[k] = step[k][f[k - 1]]
           S == {m \in 0..n : \E f \in [0..m -> A] : Loop(m, f)}
<1>1. 0 \in S
  <2>1. [k \in 0..0 |-> init] \in [0..0 -> A] /\ Loop(0, [k \in 0..0 |-> init])
    OBVIOUS
  <2>2. \E f \in [0..0 -> A] : Loop(0, f)
    BY <2>1
  <2>3. 0 \in 0..n
    OBVIOUS
  <2> HIDE DEF Loop
  <2> QED
    BY <2>2, <2>3
<1>2. ASSUME NEW m \in 0..n, m \in S, m < n
      PROVE  m + 1 \in S
  <2>1. PICK f \in [0..m -> A] : Loop(m, f)
    BY <1>2
  <2> DEFINE g == [k \in 0..m + 1 |-> IF k <= m THEN f[k] ELSE step[m + 1][f[m]]]
  <2>2. m + 1 \in 1..n /\ m \in 0..m /\ f[m] \in A
    BY <1>2
  <2>3. step[m + 1][f[m]] \in A
    BY <2>2
  <2>4. g \in [0..m + 1 -> A]
    BY <2>3
  <2>5. g[0] = init
    BY <2>1, <2>2
  <2>6. ASSUME NEW k \in 1..m + 1
        PROVE  g[k] = step[k][g[k - 1]]
    <3>1. CASE k <= m
      <4>1. k \in 1..m /\ k - 1 \in 0..m /\ k \in 0..m + 1 /\ k - 1 \in 0..m + 1
        BY <3>1, <2>2
      <4>2. g[k] = f[k] /\ g[k - 1] = f[k - 1]
        BY <4>1, <3>1
      <4> QED
        BY <2>1, <4>1, <4>2
    <3>2. CASE k = m + 1
      <4>1. g[m + 1] = step[m + 1][f[m]] /\ g[m] = f[m]
        BY <2>2
      <4> QED
        BY <3>2, <4>1
    <3> QED
      BY <3>1, <3>2
  <2>7. Loop(m + 1, g)
    BY <2>5, <2>6
  <2> HIDE DEF g
  <2> QED
    BY <2>2, <2>4, <2>7
<1>3. n \in S
  <2> HIDE DEF S
  <2>1. \A m \in 0..n : m \in S /\ m < n => m + 1 \in S
    BY <1>2
  <2>2. 0..n \subseteq S
    BY <1>1, <2>1, Induction
  <2> QED
    BY <2>2
<1> QED
  BY <1>3 DEF IsLoop

-----------------------------------------------------------------------------
(* The invariants.                                                         *)

USE FileEndAssumption, TransferAssumption

\* What a transfer may hold.
StreamState ==
    [pc : {"idle", "request", "body", "done"}, offset : 0..FileEnd, length : ToEnd..FileEnd,
     copied : 0..FileEnd, attempt : 0..MaxRetries, pos : 0..FileEnd]

\* The pipe's reader is where the loop of requests is: the position it writes
\* at is the first byte the next request asks for.
InStep == \A s \in Streams : t[s].pos = First(t[s])

\* A request is answered within the file and within the range asked for.
Answered(u) == u.pc = "body" => First(u) < size /\ ~Enough(u)
BodyWithin == \A s \in Streams : Answered(t[s])

\* What was copied has been recorded.
Recorded(u, bytes) == u.pc # "idle" => u.offset .. First(u) - 1 \subseteq bytes
Delivered == \A s \in Streams : Recorded(t[s], added)

\* A transfer is done at the end of the file or of its range.
AtEnd(u) == u.pc = "done" => IF u.length < 0 THEN First(u) >= size ELSE u.copied >= u.length
DoneAtEnd == \A s \in Streams : AtEnd(t[s])

\* The inductive invariants of the two theorems.
TransferInv == TypeOK /\ InStep /\ BodyWithin
WholeInv    == TransferInv /\ Delivered /\ DoneAtEnd

\* The types of a goroutine's variables, one by one.
LEMMA StreamType ==
    ASSUME TypeOK, NEW s \in Streams
    PROVE  /\ t[s] = [pc |-> t[s].pc, offset |-> t[s].offset, length |-> t[s].length,
                      copied |-> t[s].copied, attempt |-> t[s].attempt, pos |-> t[s].pos]
           /\ t[s].offset \in Int /\ 0 <= t[s].offset /\ t[s].offset <= FileEnd
           /\ t[s].length \in Int /\ -1 <= t[s].length /\ t[s].length <= FileEnd
           /\ t[s].copied \in Int /\ 0 <= t[s].copied /\ t[s].copied <= FileEnd
           /\ t[s].pos \in Int /\ 0 <= t[s].pos /\ t[s].pos <= FileEnd
           /\ t[s].attempt \in 0..MaxRetries
           /\ size \in Int /\ 0 <= size /\ size <= FileEnd
  BY DEF TypeOK, ToEnd

\* A body of n bytes that follow the ones copied ends within the file.
LEMMA WithinFile ==
    ASSUME TransferInv, NEW s \in Streams, t[s].pc = "body"
    PROVE  /\ Last(t[s]) \in Int /\ Last(t[s]) <= size
           /\ First(t[s]) \in Int /\ 0 <= First(t[s]) /\ First(t[s]) < Last(t[s])
           /\ t[s].pos = First(t[s])
<1>1. First(t[s]) < size /\ ~Enough(t[s]) /\ t[s].pos = First(t[s])
  BY DEF TransferInv, BodyWithin, InStep, Answered
<1>2. /\ t[s].offset \in Int /\ 0 <= t[s].offset
      /\ t[s].length \in Int
      /\ t[s].copied \in Int /\ 0 <= t[s].copied
      /\ size \in Int
  BY StreamType DEF TransferInv
<1>3. First(t[s]) = t[s].offset + t[s].copied
  BY DEF First
<1>4. Last(t[s]) = IF t[s].length < 0 \/ size < t[s].offset + t[s].length THEN size
                   ELSE t[s].offset + t[s].length
  BY <1>2 DEF Last, Smaller
<1>5. ~(t[s].length >= 0 /\ t[s].copied >= t[s].length)
  BY <1>1 DEF Enough
<1> QED
  BY <1>1, <1>2, <1>3, <1>4, <1>5

\* A goroutine's variables once a body of n bytes has ended.
AfterBody(u, n, attempt, pc) ==
    [Copied(u, n, TRUE) EXCEPT !.attempt = attempt, !.pc = pc]

\* Copying n bytes moves both ends of the pipe.
LEMMA CopyStep ==
    ASSUME TransferInv, NEW s \in Streams, t[s].pc = "body",
           NEW n \in 0..(Last(t[s]) - First(t[s])),
           NEW pc \in {"request", "done"}, NEW attempt \in 0..MaxRetries, NEW u,
           u = AfterBody(t[s], n, attempt, pc)
    PROVE  /\ u \in StreamState /\ u.pc = pc
           /\ u.offset = t[s].offset /\ u.length = t[s].length
           /\ u.copied = t[s].copied + n /\ u.pos = t[s].pos + n
           /\ u.pos = First(u)
<1>1. /\ Last(t[s]) \in Int /\ Last(t[s]) <= size
      /\ First(t[s]) \in Int /\ 0 <= First(t[s]) /\ First(t[s]) < Last(t[s])
      /\ t[s].pos = t[s].offset + t[s].copied /\ First(t[s]) = t[s].pos
  BY WithinFile DEF First
<1>2. /\ t[s].offset \in Int /\ 0 <= t[s].offset
      /\ t[s].copied \in Int /\ 0 <= t[s].copied
      /\ size \in Int /\ size <= FileEnd
  BY StreamType DEF TransferInv
<1>3. n \in Int /\ 0 <= n /\ n <= Last(t[s]) - First(t[s])
  BY <1>1
<1>4. /\ t[s].copied + n \in 0..FileEnd /\ t[s].pos + n \in 0..FileEnd
      /\ t[s].pos + n = t[s].offset + (t[s].copied + n)
  BY <1>1, <1>2, <1>3
<1>5. t[s] \in StreamState
  BY DEF TransferInv, TypeOK, StreamState
<1> DEFINE k == Copied(t[s], n, TRUE)
<1>6. /\ k \in StreamState /\ k.offset = t[s].offset /\ k.length = t[s].length
      /\ k.copied = t[s].copied + n /\ k.pos = t[s].pos + n
  BY <1>4, <1>5 DEF Copied, StreamState
<1>7. u = [k EXCEPT !.attempt = attempt, !.pc = pc]
  BY DEF AfterBody
<1> HIDE DEF k
<1>8. /\ u \in StreamState /\ u.pc = pc
      /\ u.offset = k.offset /\ u.length = k.length
      /\ u.copied = k.copied /\ u.pos = k.pos
  BY <1>6, <1>7 DEF StreamState
<1> QED
  BY <1>4, <1>6, <1>8 DEF First

\* Starting over is a state every invariant allows.
LEMMA IdleState ==
    /\ Idle \in StreamState /\ Idle.pos = First(Idle) /\ Answered(Idle)
    /\ \A bytes : Recorded(Idle, bytes)
    /\ AtEnd(Idle)
  BY DEF Idle, StreamState, ToEnd, First, Answered, Recorded, AtEnd

\* What a step does to the goroutine that takes it: its new variables u, and
\* the bytes of the remote it stores, if any, at the offsets they came from.
Shape(s, u) ==
    /\ u \in StreamState /\ u.pos = First(u) /\ Answered(u)
    /\ t' = [t EXCEPT ![s] = u]
    /\ \/ UNCHANGED <<rangeVars, wrote>>
       \/ /\ t[s].pc = "body"
          /\ \E n \in 0..(Last(t[s]) - First(t[s])) : Store(t[s], First(t[s]), n)
    /\ Recorded(t[s], added) => Recorded(u, added')
    /\ "empty" \notin Admits => AtEnd(u)

\* A step that neither copies nor ends the transfer has that shape.
LEMMA QuietShape ==
    ASSUME TransferInv, NEW s \in Streams, NEW pc \in {"request", "body", "done"},
           NEW attempt \in 0..MaxRetries, NEW u,
           u = [t[s] EXCEPT !.pc = pc, !.attempt = attempt],
           t' = [t EXCEPT ![s] = u], UNCHANGED <<rangeVars, wrote>>,
           t[s].pc # "idle",
           pc = "body" => First(t[s]) < size /\ ~Enough(t[s]),
           pc = "done" => Enough(t[s])
    PROVE  Shape(s, u)
<1>1. t[s] \in StreamState /\ t[s].pos = First(t[s])
  BY DEF TransferInv, TypeOK, StreamState, InStep
<1>2. /\ u \in StreamState /\ u.pc = pc
      /\ u.offset = t[s].offset /\ u.length = t[s].length
      /\ u.copied = t[s].copied /\ u.pos = t[s].pos
  BY <1>1 DEF StreamState
<1>3. First(u) = First(t[s]) /\ (Enough(u) <=> Enough(t[s]))
  BY <1>2 DEF First, Enough
<1>4. u.pos = First(u) /\ Answered(u)
  BY <1>1, <1>2, <1>3 DEF Answered
<1>5. Recorded(t[s], added) => Recorded(u, added')
  BY <1>2, <1>3 DEF Recorded, rangeVars
<1>6. AtEnd(u)
  <2>1. t[s].length \in Int /\ t[s].copied \in Int
    BY StreamType DEF TransferInv
  <2> QED
    BY <1>2, <2>1 DEF AtEnd, Enough
<1> QED
  BY <1>2, <1>4, <1>5, <1>6 DEF Shape

\* A body of n bytes stored has that shape when the transfer goes on, and when
\* it ends with an open-ended range complete.
LEMMA BodyShape ==
    ASSUME TransferInv, NEW s \in Streams, t[s].pc = "body",
           NEW n \in 0..(Last(t[s]) - First(t[s])),
           NEW pc \in {"request", "done"}, NEW attempt \in 0..MaxRetries, NEW u,
           u = AfterBody(t[s], n, attempt, pc),
           t' = [t EXCEPT ![s] = u], Store(t[s], First(t[s]), n),
           pc = "done" => t[s].length < 0,
           pc = "done" /\ "empty" \notin Admits => n = Last(t[s]) - First(t[s])
    PROVE  Shape(s, u)
<1>1. /\ u \in StreamState /\ u.pc = pc
      /\ u.offset = t[s].offset /\ u.length = t[s].length
      /\ u.copied = t[s].copied + n /\ u.pos = t[s].pos + n
      /\ u.pos = First(u)
  BY CopyStep
<1>2. Answered(u)
  BY <1>1 DEF Answered
<1>3. /\ Last(t[s]) \in Int /\ Last(t[s]) <= size
      /\ First(t[s]) \in Int /\ 0 <= First(t[s]) /\ First(t[s]) < Last(t[s])
      /\ t[s].pos = First(t[s])
  BY WithinFile
<1>4. n \in Int /\ 0 <= n
  BY <1>3
<1>5. First(u) = First(t[s]) + n
  BY <1>1, <1>3
<1>6. Recorded(t[s], added) => Recorded(u, added')
  <2> SUFFICES ASSUME t[s].offset .. First(t[s]) - 1 \subseteq added
               PROVE  t[s].offset .. (First(t[s]) + n) - 1 \subseteq added'
    BY <1>1, <1>5 DEF Recorded
  <2>1. added' = added \cup (t[s].pos .. t[s].pos + n - 1)
    BY DEF Store, AddRange
  <2>2. t[s].offset \in Int
    BY StreamType DEF TransferInv
  <2>3. SUFFICES ASSUME NEW i \in t[s].offset .. (First(t[s]) + n) - 1
                 PROVE  i \in added'
    OBVIOUS
  <2>4. i \in t[s].offset .. First(t[s]) - 1 \/ i \in First(t[s]) .. (First(t[s]) + n) - 1
    BY <1>3, <1>4, <2>2
  <2> QED
    BY <1>3, <2>1, <2>4
<1>7. "empty" \notin Admits => AtEnd(u)
  <2> SUFFICES ASSUME "empty" \notin Admits, pc = "done"
               PROVE  First(u) >= size
    BY <1>1 DEF AtEnd
  <2>1. Last(t[s]) = size
    <3>1. size \in Int
      BY StreamType DEF TransferInv
    <3> QED
      BY <3>1 DEF Last, Smaller
  <2> QED
    BY <1>3, <1>5, <2>1
<1> QED
  BY <1>1, <1>2, <1>6, <1>7 DEF Shape

\* Giving up has that shape, whatever was stored.
LEMMA GiveUpShape ==
    ASSUME NEW s \in Streams, t' = [t EXCEPT ![s] = Idle],
           \/ UNCHANGED <<rangeVars, wrote>>
           \/ /\ t[s].pc = "body"
              /\ \E n \in 0..(Last(t[s]) - First(t[s])) : Store(t[s], First(t[s]), n)
    PROVE  Shape(s, Idle)
  BY IdleState DEF Shape

\* Every step has that shape when the server honours the Range header.
LEMMA StepShape ==
    ASSUME TransferInv, NEW s \in Streams, "whole" \notin Admits,
           Open(s) \/ Stream(s) \/ Leave(s)
    PROVE  size' = size /\ \E u : Shape(s, u)
<1> USE DEF Goto
<1>t. t[s] \in StreamState /\ MaxRetries \in Nat
  BY DEF TransferInv, TypeOK, StreamState
<1>1. ASSUME NEW offset \in 0..FileEnd, NEW length \in ToEnd..FileEnd, Start(s, offset, length)
      PROVE  size' = size /\ \E u : Shape(s, u)
  <2> DEFINE u == [Idle EXCEPT !.pc = "request", !.offset = offset, !.length = length,
                               !.pos = offset]
  <2>1. /\ u \in StreamState /\ u.pc = "request" /\ u.offset = offset /\ u.pos = offset
        /\ u.copied = 0
    <3>1. Idle \in StreamState /\ Idle.copied = 0
      BY IdleState DEF Idle
    <3> QED
      BY <3>1 DEF StreamState
  <2>2. t' = [t EXCEPT ![s] = u] /\ UNCHANGED <<rangeVars, size, wrote>>
    BY <1>1 DEF Start
  <2> HIDE DEF u
  <2>3. u.pos = First(u) /\ Answered(u) /\ Recorded(u, added') /\ AtEnd(u)
    BY <2>1 DEF First, Answered, Recorded, AtEnd
  <2> QED
    BY <2>1, <2>2, <2>3 DEF Shape
<1>2. CASE Open(s)
  <2>1. 0 \in 0..FileEnd /\ ToEnd \in ToEnd..FileEnd
    BY DEF ToEnd
  <2>2. \A offset \in 0..FileEnd-1 : offset \in 0..FileEnd /\ FileEnd - offset \in ToEnd..FileEnd
    BY DEF ToEnd
  <2> QED
    BY <1>1, <1>2, <2>1, <2>2 DEF Open
<1>3. CASE Return(s)
  <2> DEFINE u == [t[s] EXCEPT !.pc = "done"]
  <2>1. u = [t[s] EXCEPT !.pc = "done", !.attempt = t[s].attempt] /\ t[s].attempt \in 0..MaxRetries
    BY <1>t DEF StreamState
  <2> HIDE DEF u
  <2>2. t' = [t EXCEPT ![s] = u]
    BY <1>3 DEF Return, u
  <2> QED
    BY <1>3, <2>1, <2>2, QuietShape DEF Return
<1>4. CASE Request(s)
  <2> DEFINE u == [t[s] EXCEPT !.pc = "body"]
  <2>1. u = [t[s] EXCEPT !.pc = "body", !.attempt = t[s].attempt] /\ t[s].attempt \in 0..MaxRetries
    BY <1>t DEF StreamState
  <2> HIDE DEF u
  <2>2. t' = [t EXCEPT ![s] = u]
    BY <1>4 DEF Request, u
  <2> QED
    BY <1>4, <2>1, <2>2, QuietShape DEF Request
<1>5. CASE RequestFails(s)
  <2>1. UNCHANGED <<rangeVars, size, wrote>> /\ t[s].pc = "request"
    BY <1>5 DEF RequestFails
  <2>2. CASE t' = [t EXCEPT ![s] = Idle]
    BY <2>1, <2>2, GiveUpShape
  <2>3. CASE t[s].attempt < MaxRetries /\ t' = [t EXCEPT ![s] = Retry(t[s])]
    <3> DEFINE u == [t[s] EXCEPT !.pc = "request", !.attempt = t[s].attempt + 1]
    <3>1. t[s].attempt + 1 \in 0..MaxRetries
      BY <1>t, <2>3 DEF StreamState
    <3>2. t' = [t EXCEPT ![s] = u]
      BY <1>t, <2>3 DEF Retry, StreamState
    <3> QED
      BY <2>1, <3>1, <3>2, QuietShape
  <2> QED
    BY <1>5, <2>2, <2>3 DEF RequestFails, Retry
<1>6. ASSUME NEW n, BodyBroken(s, n)
      PROVE  size' = size /\ \E u : Shape(s, u)
  <2>1. /\ t[s].pc = "body" /\ n \in 0..(Last(t[s]) - First(t[s]))
        /\ Store(t[s], First(t[s]), n) /\ size' = size
    BY <1>6 DEF BodyBroken
  <2>2. CASE t' = [t EXCEPT ![s] = Idle]
    BY <2>1, <2>2, GiveUpShape
  <2> DEFINE k == Copied(t[s], n, FALSE)
  <2>3. CASE k.attempt < MaxRetries /\ t' = [t EXCEPT ![s] = Retry(k)]
    <3>1. k.attempt = t[s].attempt /\ k.attempt \in 0..MaxRetries
      BY <1>t DEF Copied, StreamState
    <3>2. k = Copied(t[s], n, TRUE)
      BY DEF Copied
    <3> HIDE DEF k
    <3>3. k.attempt + 1 \in 0..MaxRetries
      BY <1>t, <2>3, <3>1
    <3>4. Retry(k) = AfterBody(t[s], n, k.attempt + 1, "request")
      BY <2>3, <3>2 DEF Retry, AfterBody
    <3> QED
      BY <2>1, <2>3, <3>3, <3>4, BodyShape
  <2> QED
    BY <1>6, <2>2, <2>3 DEF BodyBroken, Retry
<1>7. CASE BodyClean(s)
  <2>1. t[s].pc = "body" /\ size' = size
    BY <1>7 DEF BodyClean
  <2> DEFINE pc == IF t[s].length < 0 THEN "done" ELSE "request"
  <2>2. PICK b \in CleanBodies(t[s]) :
            /\ Store(t[s], b[1], b[2])
            /\ t' = [t EXCEPT ![s] = [Copied(t[s], b[2], TRUE) EXCEPT !.attempt = 0, !.pc = pc]]
    BY <1>7 DEF BodyClean
  <2>3. First(t[s]) \in Int /\ Last(t[s]) \in Int /\ First(t[s]) < Last(t[s])
    BY <2>1, WithinFile
  <2>4. /\ b[1] = First(t[s]) /\ b[2] \in {0, Last(t[s]) - First(t[s])}
        /\ "empty" \notin Admits => b[2] = Last(t[s]) - First(t[s])
    BY <2>2 DEF CleanBodies
  <2>5. b[2] \in 0..(Last(t[s]) - First(t[s]))
    BY <2>3, <2>4
  <2>6. t' = [t EXCEPT ![s] = AfterBody(t[s], b[2], 0, pc)]
    BY <2>2 DEF AfterBody
  <2>7. pc \in {"request", "done"} /\ (pc = "done" => t[s].length < 0) /\ 0 \in 0..MaxRetries
    BY <1>t
  <2> HIDE DEF pc
  <2>8. Store(t[s], First(t[s]), b[2])
    BY <2>2, <2>4
  <2> QED
    BY <2>1, <2>4, <2>5, <2>6, <2>7, <2>8, BodyShape
<1>8. CASE Leave(s)
  <2>1. t' = [t EXCEPT ![s] = Idle] /\ UNCHANGED <<rangeVars, size, wrote>>
    BY <1>8 DEF Leave
  <2> QED
    BY <2>1, GiveUpShape
<1> QED
  BY <1>2, <1>3, <1>4, <1>5, <1>6, <1>7, <1>8 DEF Stream

\* The invariant is kept, and every byte stays in its place.
LEMMA PlaceStep ==
    ASSUME TransferInv, BytesInPlace, "whole" \notin Admits, [Next]_vars
    PROVE  TransferInv' /\ BytesInPlace'
<1>1. CASE UNCHANGED vars
  BY <1>1 DEF vars, rangeVars, TransferInv, TypeOK, InStep, BodyWithin, Answered, First, Enough,
              BytesInPlace
<1>2. CASE Next
  <2>1. PICK s \in Streams : Open(s) \/ Stream(s) \/ Leave(s)
    BY <1>2 DEF Next
  <2>2. size' = size /\ \E u : Shape(s, u)
    BY <2>1, StepShape
  <2>3. PICK u : Shape(s, u)
    BY <2>2
  <2>4. /\ u \in StreamState /\ u.pos = First(u) /\ Answered(u)
        /\ t' = [t EXCEPT ![s] = u]
    BY <2>3 DEF Shape
  <2>5. /\ t \in [Streams -> StreamState] /\ size \in Sizes
        /\ wrote \in [0..FileEnd-1 -> Missing..FileEnd-1]
    BY DEF TransferInv, TypeOK, StreamState
  <2>6. t' \in [Streams -> StreamState] /\ \A r \in Streams : t'[r] = IF r = s THEN u ELSE t[r]
    BY <2>4, <2>5
  <2>7. InStep'
    BY <2>4, <2>6 DEF InStep, TransferInv, First
  <2>8. BodyWithin'
    <3>1. \A r \in Streams : Answered(t'[r])
      BY <2>4, <2>6 DEF TransferInv, BodyWithin
    <3> QED
      BY <2>2, <3>1 DEF BodyWithin, Answered, First, Enough
  <2>9. wrote' \in [0..FileEnd-1 -> Missing..FileEnd-1] /\ BytesInPlace'
    <3>1. CASE UNCHANGED <<rangeVars, wrote>>
      BY <2>5, <3>1 DEF rangeVars, BytesInPlace
    <3>2. ASSUME t[s].pc = "body", NEW n \in 0..(Last(t[s]) - First(t[s])),
                 Store(t[s], First(t[s]), n)
          PROVE  wrote' \in [0..FileEnd-1 -> Missing..FileEnd-1] /\ BytesInPlace'
      <4>1. First(t[s]) \in Int /\ Last(t[s]) \in Int /\ t[s].pos = First(t[s])
        BY <3>2, WithinFile
      <4>2. /\ wrote' = [i \in 0..FileEnd-1 |->
                            IF i \in t[s].pos .. t[s].pos + n - 1
                            THEN First(t[s]) + (i - t[s].pos) ELSE wrote[i]]
            /\ added' = added \cup (t[s].pos .. t[s].pos + n - 1)
        BY <3>2 DEF Store, AddRange
      <4>3. \A i \in 0..FileEnd-1 :
                wrote'[i] = IF i \in t[s].pos .. t[s].pos + n - 1 THEN i ELSE wrote[i]
        BY <4>1, <4>2
      <4>4. wrote' \in [0..FileEnd-1 -> Missing..FileEnd-1]
        <5>1. 0..FileEnd-1 \subseteq Missing..FileEnd-1
          BY DEF Missing
        <5>2. \A i \in 0..FileEnd-1 : wrote'[i] \in Missing..FileEnd-1
          BY <2>5, <4>3, <5>1
        <5> QED
          BY <4>2, <5>2
      <4> QED
        BY <4>2, <4>3, <4>4 DEF BytesInPlace
    <3> QED
      BY <2>3, <3>1, <3>2 DEF Shape
  <2> QED
    BY <2>2, <2>5, <2>6, <2>7, <2>8, <2>9 DEF TransferInv, TypeOK, StreamState
<1> QED
  BY <1>1, <1>2

\* What was copied stays recorded, and only a complete transfer is done.
LEMMA WholeStep ==
    ASSUME WholeInv, {"whole", "empty"} \cap Admits = {}, [Next]_vars
    PROVE  (Delivered /\ DoneAtEnd)'
<1>1. CASE UNCHANGED vars
  BY <1>1 DEF vars, rangeVars, WholeInv, Delivered, DoneAtEnd, Recorded, AtEnd, First
<1>2. CASE Next
  <2>1. PICK s \in Streams : Open(s) \/ Stream(s) \/ Leave(s)
    BY <1>2 DEF Next
  <2>2. size' = size /\ \E u : Shape(s, u)
    BY <2>1, StepShape DEF WholeInv
  <2>3. PICK u : Shape(s, u)
    BY <2>2
  <2>4. /\ t' = [t EXCEPT ![s] = u] /\ AtEnd(u)
        /\ Recorded(t[s], added) => Recorded(u, added')
    BY <2>3 DEF Shape
  <2>5. \A r \in Streams : t'[r] = IF r = s THEN u ELSE t[r]
    BY <2>4 DEF WholeInv, TransferInv, TypeOK
  <2>6. added \subseteq added'
    BY <2>3 DEF Shape, rangeVars, Store, AddRange
  <2>7. Delivered'
    <3>1. \A r \in Streams : Recorded(t[r], added) => Recorded(t[r], added')
      BY <2>6 DEF Recorded
    <3>2. \A r \in Streams : Recorded(t'[r], added')
      BY <2>4, <2>5, <3>1 DEF WholeInv, Delivered
    <3> QED
      BY <3>2 DEF Delivered, Recorded, First
  <2>8. DoneAtEnd'
    <3>1. \A r \in Streams : AtEnd(t'[r])
      BY <2>4, <2>5 DEF WholeInv, DoneAtEnd
    <3> QED
      BY <2>2, <3>1 DEF DoneAtEnd, AtEnd, First
  <2> QED
    BY <2>7, <2>8
<1> QED
  BY <1>1, <1>2

\* The initial states satisfy both invariants.
LEMMA TransferStart == TransferInit => WholeInv /\ BytesInPlace
<1> SUFFICES ASSUME TransferInit
             PROVE  WholeInv /\ BytesInPlace
  OBVIOUS
<1>1. /\ \A s \in Streams : t[s] = Idle
      /\ added = {} /\ size \in Sizes
      /\ wrote = [i \in 0..FileEnd-1 |-> Missing]
  BY DEF TransferInit, Init
<1>2. Missing \in Missing..FileEnd-1
  BY DEF Missing
<1>3. TypeOK
  BY <1>1, <1>2, IdleState DEF TypeOK, TransferInit, StreamState
<1>4. InStep /\ BodyWithin /\ Delivered /\ DoneAtEnd
  BY <1>1, IdleState DEF InStep, BodyWithin, Delivered, DoneAtEnd
<1> QED
  BY <1>1, <1>3, <1>4 DEF WholeInv, TransferInv, BytesInPlace

\* Whatever bodies break off and however often a request is repeated, every
\* byte the manager records as present is the byte of that offset on the
\* remote, as long as the server honours the Range header
\* (gdrive.go: streamWithRetry; manager.go: downloadLoop).
THEOREM BytesStayInPlace ==
    ASSUME "whole" \notin Admits
    PROVE  Spec => [](TypeOK /\ BytesInPlace)
<1>1. TransferInit => TransferInv /\ BytesInPlace
  BY TransferStart DEF WholeInv
<1>2. TransferInv /\ BytesInPlace /\ [Next]_vars => (TransferInv /\ BytesInPlace)'
  BY PlaceStep
<1>3. TransferInv => TypeOK
  BY DEF TransferInv
<1> QED
  BY <1>1, <1>2, <1>3, PTL DEF Spec

\* A transfer that ends without an error has delivered and recorded every byte
\* it was asked for, as long as no server answers 200 to a Range request or
\* ends an unfinished body without an error (gdrive.go: streamWithRetry).
THEOREM SuccessDeliversAll ==
    ASSUME {"whole", "empty"} \cap Admits = {}
    PROVE  Spec => []SuccessIsWhole
<1>1. TransferInit => WholeInv /\ BytesInPlace
  BY TransferStart
<1>2. WholeInv /\ BytesInPlace /\ [Next]_vars => (WholeInv /\ BytesInPlace)'
  <2> SUFFICES ASSUME WholeInv, BytesInPlace, [Next]_vars
               PROVE  (WholeInv /\ BytesInPlace)'
    OBVIOUS
  <2>1. TransferInv' /\ BytesInPlace'
    BY PlaceStep DEF WholeInv
  <2>2. (Delivered /\ DoneAtEnd)'
    BY WholeStep
  <2> QED
    BY <2>1, <2>2 DEF WholeInv
<1>3. WholeInv => SuccessIsWhole
  <2> SUFFICES ASSUME WholeInv, NEW s \in Streams, t[s].pc = "done"
               PROVE  t[s].offset .. (IF t[s].length < 0 THEN size
                                      ELSE t[s].offset + t[s].length) - 1 \subseteq added
    BY DEF SuccessIsWhole
  <2>1. t[s].offset .. (t[s].offset + t[s].copied) - 1 \subseteq added
    BY DEF WholeInv, Delivered, Recorded, First
  <2>2. IF t[s].length < 0 THEN t[s].offset + t[s].copied >= size ELSE t[s].copied >= t[s].length
    BY DEF WholeInv, DoneAtEnd, AtEnd, First
  <2>3. /\ t[s].offset \in Int /\ t[s].length \in Int /\ t[s].copied \in Int
        /\ size \in Int
    BY StreamType DEF WholeInv, TransferInv
  <2> QED
    BY <2>1, <2>2, <2>3
<1> QED
  BY <1>1, <1>2, <1>3, PTL DEF Spec

-----------------------------------------------------------------------------
(* What the operations of the RangeSet compute, for lists of any length    *)
(* and offsets without bound. First, sorted lists of intervals.            *)

\* Half-open intervals of offsets.
Interval == Nat \X Nat

\* The ends of an interval, and the members of a list.
LEMMA IntervalEnds ==
    /\ \A iv \in Interval : iv[1] \in Nat /\ iv[2] \in Nat
    /\ \A ivs \in Seq(Interval) : /\ Len(ivs) \in Nat
                                  /\ \A i \in 1..Len(ivs) : ivs[i] \in Interval
  BY DEF Interval

\* In a sorted list every interval ends before every later one begins.
LEMMA Apart ==
    ASSUME NEW ivs \in Seq(Interval), Increasing(ivs),
           NEW i \in 1..Len(ivs), NEW j \in 1..Len(ivs), i < j
    PROVE  ivs[i][2] < ivs[j][1] /\ ivs[i][1] < ivs[j][1] /\ ivs[i][2] < ivs[j][2]
<1> DEFINE N == Len(ivs)
           S == {m \in 0..N : i + m + 1 <= N => ivs[i][2] < ivs[i + m + 1][1]}
<1>0. N \in Nat /\ \A k \in 1..N : ivs[k][1] \in Nat /\ ivs[k][2] \in Nat
  <2>1. N \in Nat /\ \A k \in 1..N : ivs[k] \in Interval
    BY IntervalEnds
  <2> HIDE DEF N
  <2> QED
    BY <2>1, IntervalEnds
<1>1. 0 \in S
  BY <1>0 DEF Increasing
<1>2. ASSUME NEW m \in 0..N, m \in S, m < N
      PROVE  m + 1 \in S
  <2>0. i \in Int /\ m \in Int /\ i + (m + 1) + 1 = i + m + 2 /\ m + 1 \in 0..N
    <3> HIDE DEF S
    <3>1. i \in Int /\ m \in Nat /\ m + 1 \in 0..N
      BY <1>0, <1>2
    <3> QED
      BY <3>1
  <2> SUFFICES ASSUME i + m + 2 <= N
               PROVE  ivs[i][2] < ivs[i + m + 2][1]
    BY <2>0
  <2>1. i + m + 1 \in 1..N /\ i + m + 2 \in 1..N /\ i + m + 1 < N
    BY <1>0
  <2>2. ivs[i][2] < ivs[i + m + 1][1]
    BY <1>2, <2>1
  <2>3. /\ ivs[i + m + 1][1] < ivs[i + m + 1][2]
        /\ ivs[i + m + 1][2] < ivs[(i + m + 1) + 1][1]
    BY <2>1 DEF Increasing
  <2>4. (i + m + 1) + 1 = i + m + 2
    BY <1>0
  <2> QED
    BY <1>0, <2>1, <2>2, <2>3, <2>4
<1>3. j - i - 1 \in 0..N /\ i + (j - i - 1) + 1 = j
  BY <1>0
<1>4. j - i - 1 \in S
  <2> HIDE DEF S
  <2>1. \A m \in 0..N : m \in S /\ m < N => m + 1 \in S
    BY <1>2
  <2>2. 0..N \subseteq S
    BY <1>0, <1>1, <2>1, Induction
  <2> QED
    BY <1>3, <2>2
<1>5. ivs[i][2] < ivs[j][1]
  BY <1>3, <1>4
<1>6. ivs[i][1] < ivs[i][2] /\ ivs[j][1] < ivs[j][2]
  BY DEF Increasing
<1> QED
  BY <1>0, <1>5, <1>6

\* A byte is covered when it lies in one of the intervals.
LEMMA CoveredMeans ==
    ASSUME NEW ivs \in Seq(Interval), NEW x
    PROVE  x \in Covered(ivs) <=>
             x \in Int /\ \E i \in 1..Len(ivs) : ivs[i][1] <= x /\ x < ivs[i][2]
<1>1. \A i \in 1..Len(ivs) : ivs[i][1] \in Nat /\ ivs[i][2] \in Nat
  BY DEF Interval
<1> QED
  BY <1>1 DEF Covered, Bytes

\* The list with one more interval.
LEMMA CoveredAppend ==
    ASSUME NEW ivs \in Seq(Interval), NEW iv \in Interval
    PROVE  Covered(Append(ivs, iv)) = Covered(ivs) \cup Bytes(iv)
<1> DEFINE new == Append(ivs, iv)
<1>1. /\ Len(new) = Len(ivs) + 1 /\ new[Len(ivs) + 1] = iv
      /\ \A i \in 1..Len(ivs) : new[i] = ivs[i]
      /\ Len(ivs) \in Nat
  OBVIOUS
<1> HIDE DEF new
<1>2. 1..Len(new) = 1..Len(ivs) \cup {Len(ivs) + 1}
  BY <1>1
<1> QED
  BY <1>1, <1>2 DEF Covered, new

\* A list stays sorted when an interval beyond its last one is appended.
LEMMA IncreasingAppend ==
    ASSUME NEW ivs \in Seq(Interval), Increasing(ivs), NEW iv \in Interval, iv[1] < iv[2],
           Len(ivs) > 0 => ivs[Len(ivs)][2] < iv[1]
    PROVE  Increasing(Append(ivs, iv)) /\ Append(ivs, iv) \in Seq(Interval)
<1> DEFINE new == Append(ivs, iv)
<1>1. /\ Len(new) = Len(ivs) + 1 /\ new[Len(ivs) + 1] = iv
      /\ \A i \in 1..Len(ivs) : new[i] = ivs[i]
      /\ Len(ivs) \in Nat
  OBVIOUS
<1> HIDE DEF new
<1>2. ASSUME NEW i \in 1..Len(new)
      PROVE  new[i][1] < new[i][2] /\ (i < Len(new) => new[i][2] < new[i + 1][1])
  <2>1. CASE i = Len(ivs) + 1
    BY <1>1, <2>1
  <2>2. CASE i = Len(ivs)
    BY <1>1, <2>2 DEF Increasing
  <2>3. CASE i < Len(ivs)
    <3>1. i \in 1..Len(ivs) /\ i + 1 \in 1..Len(ivs)
      BY <1>1, <2>3
    <3>2. new[i] = ivs[i] /\ new[i + 1] = ivs[i + 1]
      BY <1>1, <3>1
    <3> QED
      BY <2>3, <3>1, <3>2 DEF Increasing
  <2> QED
    BY <1>1, <2>1, <2>2, <2>3
<1> QED
  BY <1>2 DEF Increasing, new

-----------------------------------------------------------------------------
(* Add.                                                                    *)

\* The variables of Add's loop.
Merge == [merged : Seq(Interval), new : Interval, inserted : BOOLEAN]

\* An iteration keeps the types.
LEMMA MergeType ==
    ASSUME NEW acc \in Merge, NEW iv \in Interval
    PROVE  MergeStep(acc, iv) \in Merge
<1>1. /\ acc.merged \in Seq(Interval) /\ acc.new \in Interval /\ acc.inserted \in BOOLEAN
      /\ acc = [merged |-> acc.merged, new |-> acc.new, inserted |-> acc.inserted]
  BY DEF Merge
<1>2. /\ Append(acc.merged, iv) \in Seq(Interval)
      /\ acc.merged \o <<acc.new, iv>> \in Seq(Interval)
  BY <1>1
<1>3. <<Smaller(iv[1], acc.new[1]), Larger(iv[2], acc.new[2])>> \in Interval
  BY <1>1 DEF Interval, Smaller, Larger
<1> QED
  BY <1>1, <1>2, <1>3 DEF MergeStep, Merge

\* The loop starts with the new interval and makes one step per interval.
LEMMA MergingUnfolds ==
    ASSUME NEW ivs \in Seq(Interval), NEW new \in Interval
    PROVE  LET acc == Merging(ivs, new) IN
           /\ acc \in [0..Len(ivs) -> Merge]
           /\ acc[0] = [merged |-> <<>>, new |-> new, inserted |-> FALSE]
           /\ \A n \in 1..Len(ivs) : acc[n] = MergeStep(acc[n - 1], ivs[n])
<1> DEFINE N    == Len(ivs)
           init == [merged |-> <<>>, new |-> new, inserted |-> FALSE]
           step == [n \in 1..N |-> [a \in Merge |-> MergeStep(a, ivs[n])]]
           Body(f) == [n \in 0..N |-> IF n = 0 THEN init ELSE MergeStep(f[n - 1], ivs[n])]
<1>1. N \in Nat /\ init \in Merge
  BY DEF Merge
<1>2. step \in [1..N -> [Merge -> Merge]]
  BY MergeType
<1>3. PICK f : IsLoop(f, N, Merge, init, step)
  <2> HIDE DEF N, init, step
  <2> QED
    BY <1>1, <1>2, LoopExists
<1>4. f = Body(f)
  <2>1. ASSUME NEW n \in 0..N
        PROVE  f[n] = IF n = 0 THEN init ELSE MergeStep(f[n - 1], ivs[n])
    <3>1. CASE n = 0
      BY <1>3, <3>1 DEF IsLoop
    <3>2. CASE n # 0
      <4>1. n \in 1..N /\ n - 1 \in 0..N
        BY <1>1, <3>2
      <4> HIDE DEF init
      <4> QED
        BY <1>3, <3>2, <4>1 DEF IsLoop
    <3> QED
      BY <3>1, <3>2
  <2> HIDE DEF init
  <2> QED
    BY <1>3, <2>1 DEF IsLoop
<1> DEFINE g == CHOOSE h : h = Body(h)
<1>5. g = Body(g)
  BY <1>4
<1>6. Merging(ivs, new) = g
  BY DEF Merging
<1>7. g \in [0..N -> Merge]
  <2> DEFINE S == {n \in 0..N : g[n] \in Merge}
  <2> HIDE DEF g
  <2>1. 0 \in S
    BY <1>1, <1>5
  <2>2. ASSUME NEW m \in 0..N, m \in S, m < N
        PROVE  m + 1 \in S
    <3>1. m + 1 \in 0..N /\ m + 1 # 0 /\ (m + 1) - 1 = m /\ ivs[m + 1] \in Interval
      BY <1>1, <2>2
    <3>2. g[m + 1] = MergeStep(g[m], ivs[m + 1])
      BY <1>5, <3>1
    <3> QED
      BY <2>2, <3>1, <3>2, MergeType
  <2>3. 0..N \subseteq S
    <3> HIDE DEF S, N
    <3>1. \A m \in 0..N : m \in S /\ m < N => m + 1 \in S
      BY <2>2
    <3> QED
      BY <1>1, <2>1, <3>1, Induction
  <2>4. \A n \in 0..N : g[n] \in Merge
    BY <2>3
  <2> QED
    BY <1>5, <2>4
<1> HIDE DEF g
<1>8. g[0] = init
  BY <1>1, <1>5
<1>9. ASSUME NEW n \in 1..N
      PROVE  g[n] = MergeStep(g[n - 1], ivs[n])
  <2>1. n \in 0..N /\ n # 0
    BY <1>1
  <2> QED
    BY <1>5, <2>1
<1> QED
  BY <1>6, <1>7, <1>8, <1>9

\* The bytes of the first n intervals.
CoveredTo(ivs, n) == UNION {Bytes(ivs[i]) : i \in 1..n}

\* One interval more.
LEMMA CoveredToNext ==
    ASSUME NEW ivs, NEW n \in Nat
    PROVE  CoveredTo(ivs, n + 1) = CoveredTo(ivs, n) \cup Bytes(ivs[n + 1])
<1>1. 1..n + 1 = 1..n \cup {n + 1}
  OBVIOUS
<1> QED
  BY <1>1 DEF CoveredTo

LastEnd(ivs) == ivs[Len(ivs)][2]

\* The invariant of Add's loop after n iterations: the list built so far is
\* sorted and ends before the next interval; until it is inserted the new
\* interval lies behind the list; list and new interval hold what they should.
MergeInv(ivs, n, new, acc) ==
    /\ Increasing(acc.merged) /\ acc.new[1] < acc.new[2]
    /\ Len(acc.merged) > 0 /\ n < Len(ivs) => LastEnd(acc.merged) < ivs[n + 1][1]
    /\ Len(acc.merged) > 0 /\ ~acc.inserted => LastEnd(acc.merged) < acc.new[1]
    /\ acc.inserted => Len(acc.merged) > 0 /\ acc.new[2] <= LastEnd(acc.merged)
    /\ Covered(acc.merged) \cup (IF acc.inserted THEN {} ELSE Bytes(acc.new))
        = CoveredTo(ivs, n) \cup Bytes(new)

\* An interval appended is the last one.
LEMMA LastAppended ==
    ASSUME NEW ivs \in Seq(Interval), NEW iv \in Interval
    PROVE  LastEnd(Append(ivs, iv)) = iv[2] /\ Len(Append(ivs, iv)) > 0
  BY DEF LastEnd

\* An iteration keeps the invariant.
LEMMA MergeKeeps ==
    ASSUME NEW ivs \in Seq(Interval), Increasing(ivs), NEW new \in Interval,
           NEW n \in Nat, n < Len(ivs), NEW acc \in Merge, MergeInv(ivs, n, new, acc)
    PROVE  MergeInv(ivs, n + 1, new, MergeStep(acc, ivs[n + 1]))
<1> DEFINE iv  == ivs[n + 1]
           res == MergeStep(acc, iv)
<1> SUFFICES MergeInv(ivs, n + 1, new, res)
  OBVIOUS
<1>1. /\ acc.merged \in Seq(Interval) /\ acc.new \in Interval /\ acc.inserted \in BOOLEAN
      /\ acc = [merged |-> acc.merged, new |-> acc.new, inserted |-> acc.inserted]
      /\ Len(acc.merged) \in Nat /\ Len(ivs) \in Nat
  BY DEF Merge
<1>2. iv \in Interval /\ iv[1] \in Nat /\ iv[2] \in Nat /\ iv[1] < iv[2]
  <2>1. n + 1 \in 1..Len(ivs)
    BY <1>1
  <2> QED
    BY <2>1, IntervalEnds DEF Increasing
<1>3. /\ n + 1 < Len(ivs) => iv[2] < ivs[n + 2][1] /\ ivs[n + 2][1] \in Nat
      /\ (n + 1) + 1 = n + 2
  <2>1. n + 1 < Len(ivs) => n + 1 \in 1..Len(ivs) /\ n + 2 \in 1..Len(ivs)
    BY <1>1
  <2>2. (n + 1) + 1 = n + 2
    OBVIOUS
  <2> QED
    BY <2>1, <2>2, IntervalEnds DEF Increasing
<1>4. /\ acc.new[1] \in Nat /\ acc.new[2] \in Nat
      /\ Len(acc.merged) > 0 => LastEnd(acc.merged) \in Nat
  BY <1>1, IntervalEnds DEF LastEnd
<1>5. CoveredTo(ivs, n + 1) = CoveredTo(ivs, n) \cup Bytes(iv)
  BY CoveredToNext
<1>6. Increasing(acc.merged) /\ acc.new[1] < acc.new[2]
  BY DEF MergeInv
<1>7. /\ Len(acc.merged) > 0 => LastEnd(acc.merged) < iv[1]
      /\ Len(acc.merged) > 0 /\ ~acc.inserted => LastEnd(acc.merged) < acc.new[1]
      /\ acc.inserted => Len(acc.merged) > 0 /\ acc.new[2] <= LastEnd(acc.merged)
  BY DEF MergeInv
<1>8. Covered(acc.merged) \cup (IF acc.inserted THEN {} ELSE Bytes(acc.new))
        = CoveredTo(ivs, n) \cup Bytes(new)
  BY DEF MergeInv
<1> DEFINE plus == Append(acc.merged, iv)
<1>9. /\ plus \in Seq(Interval) /\ Increasing(plus) /\ Covered(plus) = Covered(acc.merged) \cup Bytes(iv)
      /\ LastEnd(plus) = iv[2] /\ Len(plus) > 0
  BY <1>1, <1>2, <1>6, <1>7, IncreasingAppend, CoveredAppend, LastAppended DEF LastEnd
<1> HIDE DEF iv, plus
<1>10. CASE iv[2] < acc.new[1]
  <2>1. res.merged = plus /\ res.new = acc.new /\ res.inserted = acc.inserted
    BY <1>1, <1>10 DEF MergeStep, plus
  <2>2. acc.inserted => acc.new[2] <= iv[2]
    BY <1>2, <1>4, <1>7
  <2> HIDE DEF res
  <2> QED
    BY <1>3, <1>5, <1>6, <1>8, <1>9, <1>10, <2>1, <2>2 DEF MergeInv
<1>11. CASE ~(iv[2] < acc.new[1]) /\ iv[1] > acc.new[2] /\ acc.inserted
  <2>1. res.merged = plus /\ res.new = acc.new /\ res.inserted = TRUE
    BY <1>1, <1>11 DEF MergeStep, plus
  <2>2. acc.new[2] <= iv[2]
    BY <1>2, <1>4, <1>7, <1>11
  <2> HIDE DEF res
  <2> QED
    BY <1>3, <1>5, <1>6, <1>8, <1>9, <1>11, <2>1, <2>2 DEF MergeInv
<1>12. CASE ~(iv[2] < acc.new[1]) /\ iv[1] > acc.new[2] /\ ~acc.inserted
  <2> DEFINE mid == Append(acc.merged, acc.new)
             two == Append(mid, iv)
  <2>1. /\ mid \in Seq(Interval) /\ Increasing(mid) /\ LastEnd(mid) = acc.new[2] /\ Len(mid) > 0
        /\ Covered(mid) = Covered(acc.merged) \cup Bytes(acc.new)
    BY <1>1, <1>6, <1>7, <1>12, IncreasingAppend, CoveredAppend, LastAppended DEF LastEnd
  <2>2. acc.merged \o <<acc.new, iv>> = two
    BY <1>1, <1>2
  <2> HIDE DEF mid
  <2>3. /\ two \in Seq(Interval) /\ Increasing(two) /\ LastEnd(two) = iv[2] /\ Len(two) > 0
        /\ Covered(two) = Covered(mid) \cup Bytes(iv)
    BY <1>2, <1>12, <2>1, IncreasingAppend, CoveredAppend, LastAppended DEF LastEnd
  <2> HIDE DEF two
  <2>4. res.merged = two /\ res.new = acc.new /\ res.inserted = TRUE
    BY <1>1, <1>12, <2>2 DEF MergeStep
  <2> HIDE DEF res
  <2>5. acc.new[2] <= iv[2]
    BY <1>2, <1>4, <1>12
  <2> QED
    BY <1>3, <1>5, <1>6, <1>8, <1>12, <2>1, <2>3, <2>4, <2>5 DEF MergeInv
<1>13. CASE ~(iv[2] < acc.new[1]) /\ ~(iv[1] > acc.new[2])
  <2> DEFINE lo == Smaller(iv[1], acc.new[1])
             hi == Larger(iv[2], acc.new[2])
  <2>1. res.merged = acc.merged /\ res.new = <<lo, hi>> /\ res.inserted = acc.inserted
    BY <1>1, <1>13 DEF MergeStep
  <2>2. ~acc.inserted
    BY <1>2, <1>4, <1>7, <1>13
  <2>3. /\ lo \in Nat /\ hi \in Nat /\ lo < hi /\ lo <= iv[1] /\ lo <= acc.new[1]
        /\ lo = iv[1] \/ lo = acc.new[1]
        /\ iv[2] <= hi /\ acc.new[2] <= hi
        /\ hi = iv[2] \/ hi = acc.new[2]
    BY <1>2, <1>4, <1>6 DEF Smaller, Larger
  <2> HIDE DEF lo, hi, res
  <2>4. Bytes(res.new) = Bytes(iv) \cup Bytes(acc.new)
    <3>1. Bytes(res.new) = lo..hi - 1 /\ res.new[1] = lo /\ res.new[2] = hi
      BY <2>1 DEF Bytes
    <3>2. ASSUME NEW x \in Int
          PROVE  lo <= x /\ x <= hi - 1 <=>
                   \/ iv[1] <= x /\ x <= iv[2] - 1
                   \/ acc.new[1] <= x /\ x <= acc.new[2] - 1
      <4>0. iv[1] <= acc.new[2] /\ acc.new[1] <= iv[2]
        BY <1>2, <1>4, <1>13
      <4>1. lo <= x /\ x <= hi - 1 => \/ iv[1] <= x /\ x <= iv[2] - 1
                                      \/ acc.new[1] <= x /\ x <= acc.new[2] - 1
        <5>1. CASE x < iv[2]
          BY <1>2, <1>4, <2>3, <4>0, <5>1
        <5>2. CASE x >= iv[2]
          BY <1>2, <1>4, <2>3, <4>0, <5>2
        <5> QED
          BY <1>2, <5>1, <5>2
      <4>2. iv[1] <= x /\ x <= iv[2] - 1 => lo <= x /\ x <= hi - 1
        BY <1>2, <2>3
      <4>3. acc.new[1] <= x /\ x <= acc.new[2] - 1 => lo <= x /\ x <= hi - 1
        BY <1>4, <2>3
      <4> QED
        BY <4>1, <4>2, <4>3
    <3> QED
      BY <1>2, <1>4, <2>3, <3>1, <3>2 DEF Bytes
  <2>5. Len(acc.merged) > 0 => /\ LastEnd(acc.merged) < lo
                               /\ n + 1 < Len(ivs) => LastEnd(acc.merged) < ivs[n + 2][1]
    <3> SUFFICES ASSUME Len(acc.merged) > 0
                 PROVE  /\ LastEnd(acc.merged) < lo
                        /\ n + 1 < Len(ivs) => LastEnd(acc.merged) < ivs[n + 2][1]
      OBVIOUS
    <3>1. LastEnd(acc.merged) \in Nat /\ LastEnd(acc.merged) < iv[1] /\ LastEnd(acc.merged) < acc.new[1]
      BY <1>4, <1>7, <2>2
    <3>2. LastEnd(acc.merged) < lo
      BY <2>3, <3>1
    <3> QED
      BY <1>2, <1>3, <3>1, <3>2
  <2>6. res.new[1] = lo /\ res.new[2] = hi
    BY <2>1
  <2> QED
    BY <1>3, <1>5, <1>6, <1>8, <2>1, <2>2, <2>3, <2>4, <2>5, <2>6 DEF MergeInv
<1> QED
  BY <1>10, <1>11, <1>12, <1>13 DEF iv

\* Add keeps the list sorted and adds exactly the bytes of its range, for every
\* sorted list and every range, empty ones included (rangeset.go: Add).
THEOREM AddUnites ==
    ASSUME NEW ivs \in Seq(Interval), Increasing(ivs), NEW offset \in Nat, NEW length \in Int
    PROVE  /\ Add(ivs, offset, length) \in Seq(Interval)
           /\ Increasing(Add(ivs, offset, length))
           /\ Covered(Add(ivs, offset, length)) = Covered(ivs) \cup (offset .. offset + length - 1)
<1>1. CASE length <= 0
  <2>1. offset .. offset + length - 1 = {}
    BY <1>1
  <2> QED
    BY <1>1, <2>1 DEF Add
<1>2. CASE length > 0
  <2> DEFINE N   == Len(ivs)
             new == <<offset, offset + length>>
             acc == Merging(ivs, new)
             S   == {n \in 0..N : MergeInv(ivs, n, new, acc[n])}
  <2>1. new \in Interval /\ new[1] < new[2] /\ Bytes(new) = offset .. offset + length - 1
    BY <1>2 DEF Interval, Bytes
  <2>2. N \in Nat
    OBVIOUS
  <2> HIDE DEF new
  <2>3. /\ acc \in [0..N -> Merge]
        /\ acc[0] = [merged |-> <<>>, new |-> new, inserted |-> FALSE]
        /\ \A n \in 1..N : acc[n] = MergeStep(acc[n - 1], ivs[n])
    BY <2>1, MergingUnfolds
  <2> HIDE DEF acc
  <2>4. 0 \in S
    <3>1. Covered(<<>>) = {} /\ CoveredTo(ivs, 0) = {} /\ Increasing(<<>>) /\ Len(<<>>) = 0
      BY DEF Covered, CoveredTo, Increasing
    <3>2. MergeInv(ivs, 0, new, acc[0])
      BY <2>1, <2>3, <3>1 DEF MergeInv
    <3> QED
      BY <2>2, <3>2
  <2>5. ASSUME NEW m \in 0..N, m \in S, m < N
        PROVE  m + 1 \in S
    <3>1. m \in Nat /\ m + 1 \in 1..N /\ (m + 1) - 1 = m /\ acc[m] \in Merge
      BY <2>2, <2>3, <2>5
    <3>2. acc[m + 1] = MergeStep(acc[m], ivs[m + 1])
      BY <2>3, <3>1
    <3>3. MergeInv(ivs, m + 1, new, acc[m + 1])
      BY <2>1, <2>5, <3>1, <3>2, MergeKeeps
    <3> QED
      BY <2>2, <3>1, <3>3
  <2>6. MergeInv(ivs, N, new, acc[N]) /\ acc[N] \in Merge
    <3> HIDE DEF S, N
    <3>1. \A m \in 0..N : m \in S /\ m < N => m + 1 \in S
      BY <2>5
    <3>2. 0..N \subseteq S
      BY <2>2, <2>4, <3>1, Induction
    <3>3. N \in S
      BY <2>2, <3>2
    <3> QED
      BY <2>2, <2>3, <3>3 DEF S
  <2> DEFINE a == acc[N]
  <2>7. Add(ivs, offset, length) = IF a.inserted THEN a.merged ELSE Append(a.merged, a.new)
    BY <1>2 DEF Add, acc, new
  <2> HIDE DEF a
  <2>8. MergeInv(ivs, N, new, a) /\ a \in Merge
    BY <2>6 DEF a
  <2>9. a.merged \in Seq(Interval) /\ a.new \in Interval /\ a.inserted \in BOOLEAN
    BY <2>8 DEF Merge
  <2>10. CoveredTo(ivs, N) = Covered(ivs)
    BY DEF CoveredTo, Covered
  <2>11. CASE a.inserted
    BY <2>1, <2>7, <2>8, <2>9, <2>10, <2>11 DEF MergeInv
  <2>12. CASE ~a.inserted
    <3>1. /\ Increasing(a.merged) /\ a.new[1] < a.new[2]
          /\ Len(a.merged) > 0 => LastEnd(a.merged) < a.new[1]
          /\ Covered(a.merged) \cup Bytes(a.new) = Covered(ivs) \cup Bytes(new)
      BY <2>8, <2>10, <2>12 DEF MergeInv
    <3>2. /\ Append(a.merged, a.new) \in Seq(Interval)
          /\ Increasing(Append(a.merged, a.new))
          /\ Covered(Append(a.merged, a.new)) = Covered(a.merged) \cup Bytes(a.new)
      BY <2>9, <3>1, IncreasingAppend, CoveredAppend DEF LastEnd
    <3> QED
      BY <2>1, <2>7, <2>12, <3>1, <3>2
  <2> QED
    BY <2>11, <2>12
<1> QED
  BY <1>1, <1>2

-----------------------------------------------------------------------------
(* Contains.                                                               *)

\* The search finds the first interval that ends after start.
LEMMA SearchFinds ==
    ASSUME NEW ivs \in Seq(Interval), NEW start \in Int
    PROVE  LET idx == FirstEndingAfter(ivs, start) IN
           \/ idx = 0 /\ \A i \in 1..Len(ivs) : ivs[i][2] <= start
           \/ /\ idx \in 1..Len(ivs) /\ ivs[idx][2] > start
              /\ \A i \in 1..Len(ivs) : ivs[i][2] > start => idx <= i
<1> DEFINE I == {i \in 1..Len(ivs) : ivs[i][2] > start}
<1>1. \A i \in 1..Len(ivs) : ivs[i][2] \in Nat
  BY IntervalEnds
<1>2. FirstEndingAfter(ivs, start) = IF I # {} THEN Seqs!Min(I) ELSE 0
  BY DEF FirstEndingAfter, Seqs!SelectInSeq
<1>3. CASE I = {}
  BY <1>1, <1>2, <1>3
<1>4. CASE I # {}
  <2>1. I \in SUBSET Nat
    OBVIOUS
  <2>2. PICK x \in I : ~ \E y \in I : <<y, x>> \in OpToRel(<, Nat)
    BY <1>4, <2>1, WFMin, NatLessThanWellFounded
  <2>3. \A y \in I : x <= y
    BY <2>1, <2>2 DEF OpToRel
  <2>4. Seqs!Min(I) \in I /\ \A y \in I : Seqs!Min(I) <= y
    BY <2>3 DEF Seqs!Min
  <2> QED
    BY <1>2, <1>4, <2>4
<1> QED
  BY <1>3, <1>4

\* Contains answers whether every byte of the range is covered, for every
\* sorted list and every range (rangeset.go: Contains).
THEOREM ContainsDecides ==
    ASSUME NEW ivs \in Seq(Interval), Increasing(ivs), NEW offset \in Nat, NEW length \in Int
    PROVE  Contains(ivs, offset, length) <=>
             (offset .. offset + length - 1) \subseteq Covered(ivs)
<1>1. CASE length <= 0
  <2>1. offset .. offset + length - 1 = {}
    BY <1>1
  <2> QED
    BY <1>1, <2>1 DEF Contains
<1>2. CASE length > 0
  <2> DEFINE idx == FirstEndingAfter(ivs, offset)
  <2>1. Contains(ivs, offset, length) <=>
          idx # 0 /\ ivs[idx][1] <= offset /\ ivs[idx][2] >= offset + length
    BY <1>2 DEF Contains
  <2>2. \/ idx = 0 /\ \A i \in 1..Len(ivs) : ivs[i][2] <= offset
        \/ /\ idx \in 1..Len(ivs) /\ ivs[idx][2] > offset
           /\ \A i \in 1..Len(ivs) : ivs[i][2] > offset => idx <= i
    BY SearchFinds
  <2> HIDE DEF idx
  <2>3. \A i \in 1..Len(ivs) : ivs[i][1] \in Nat /\ ivs[i][2] \in Nat
    BY IntervalEnds
  <2>4. ASSUME idx # 0, ivs[idx][1] <= offset, ivs[idx][2] >= offset + length
        PROVE  (offset .. offset + length - 1) \subseteq Covered(ivs)
    <3>1. idx \in 1..Len(ivs)
      BY <2>2, <2>4
    <3>2. \A x \in offset .. offset + length - 1 : ivs[idx][1] <= x /\ x < ivs[idx][2]
      BY <1>2, <2>3, <2>4, <3>1
    <3> QED
      BY <3>1, <3>2, CoveredMeans
  <2>5. ASSUME (offset .. offset + length - 1) \subseteq Covered(ivs)
        PROVE  idx # 0 /\ ivs[idx][1] <= offset /\ ivs[idx][2] >= offset + length
    <3>1. PICK j \in 1..Len(ivs) : ivs[j][1] <= offset /\ offset < ivs[j][2]
      <4>1. offset \in offset .. offset + length - 1
        BY <1>2
      <4> QED
        BY <2>5, <4>1, CoveredMeans
    <3>2. idx \in 1..Len(ivs) /\ idx <= j /\ ivs[idx][2] > offset
      BY <2>2, <2>3, <3>1
    <3>3. idx = j
      <4> SUFFICES ASSUME idx < j PROVE FALSE
        BY <3>2
      <4> QED
        BY <2>3, <3>1, <3>2, Apart
    <3>4. ASSUME ivs[idx][2] < offset + length
          PROVE  FALSE
      <4> DEFINE e == ivs[idx][2]
      <4>1. e \in offset .. offset + length - 1
        BY <1>2, <2>3, <3>2, <3>4
      <4>2. PICK m \in 1..Len(ivs) : ivs[m][1] <= e /\ e < ivs[m][2]
        BY <2>5, <4>1, CoveredMeans
      <4>3. CASE m < idx
        BY <2>3, <3>2, <4>2, <4>3, Apart
      <4>4. CASE m > idx
        BY <2>3, <3>2, <4>2, <4>4, Apart
      <4> QED
        BY <2>3, <3>2, <4>2, <4>3, <4>4
    <3> QED
      BY <2>3, <3>1, <3>2, <3>3, <3>4
  <2> QED
    BY <2>1, <2>4, <2>5
<1> QED
  BY <1>1, <1>2

-----------------------------------------------------------------------------
(* Gaps.                                                                   *)

\* The variables of Gaps' loop.
Search == [gaps : Seq(Interval), pos : Nat]

\* An iteration keeps the types.
LEMMA GapType ==
    ASSUME NEW acc \in Search, NEW iv \in Interval, NEW total \in Nat
    PROVE  GapStep(acc, iv, total) \in Search
<1>1. /\ acc.gaps \in Seq(Interval) /\ acc.pos \in Nat /\ iv[1] \in Nat /\ iv[2] \in Nat
      /\ acc = [gaps |-> acc.gaps, pos |-> acc.pos]
  BY IntervalEnds DEF Search
<1>2. Larger(iv[2], acc.pos) \in Nat /\ Smaller(iv[1], total) \in Nat
  BY <1>1 DEF Larger, Smaller
<1>3. <<acc.pos, Smaller(iv[1], total)>> \in Interval
  BY <1>1, <1>2 DEF Interval
<1>4. Append(acc.gaps, <<acc.pos, Smaller(iv[1], total)>>) \in Seq(Interval)
  BY <1>1, <1>3
<1> QED
  BY <1>1, <1>2, <1>4 DEF GapStep, Search

\* The loop starts at 0 and makes one step per interval.
LEMMA SeekingUnfolds ==
    ASSUME NEW ivs \in Seq(Interval), NEW total \in Nat
    PROVE  LET acc == Seeking(ivs, total) IN
           /\ acc \in [0..Len(ivs) -> Search]
           /\ acc[0] = [gaps |-> <<>>, pos |-> 0]
           /\ \A n \in 1..Len(ivs) : acc[n] = GapStep(acc[n - 1], ivs[n], total)
<1> DEFINE N    == Len(ivs)
           init == [gaps |-> <<>>, pos |-> 0]
           step == [n \in 1..N |-> [a \in Search |-> GapStep(a, ivs[n], total)]]
           Body(f) == [n \in 0..N |-> IF n = 0 THEN init ELSE GapStep(f[n - 1], ivs[n], total)]
<1>1. N \in Nat /\ init \in Search
  BY DEF Search
<1>2. step \in [1..N -> [Search -> Search]]
  BY GapType
<1>3. PICK f : IsLoop(f, N, Search, init, step)
  <2> HIDE DEF N, init, step
  <2> QED
    BY <1>1, <1>2, LoopExists
<1>4. f = Body(f)
  <2>1. ASSUME NEW n \in 0..N
        PROVE  f[n] = IF n = 0 THEN init ELSE GapStep(f[n - 1], ivs[n], total)
    <3>1. CASE n = 0
      BY <1>3, <3>1 DEF IsLoop
    <3>2. CASE n # 0
      <4>1. n \in 1..N /\ n - 1 \in 0..N
        BY <1>1, <3>2
      <4> HIDE DEF init
      <4> QED
        BY <1>3, <3>2, <4>1 DEF IsLoop
    <3> QED
      BY <3>1, <3>2
  <2> HIDE DEF init
  <2> QED
    BY <1>3, <2>1 DEF IsLoop
<1> DEFINE g == CHOOSE h : h = Body(h)
<1>5. g = Body(g)
  BY <1>4
<1>6. Seeking(ivs, total) = g
  BY DEF Seeking
<1>7. g \in [0..N -> Search]
  <2> DEFINE S == {n \in 0..N : g[n] \in Search}
  <2> HIDE DEF g
  <2>1. 0 \in S
    BY <1>1, <1>5
  <2>2. ASSUME NEW m \in 0..N, m \in S, m < N
        PROVE  m + 1 \in S
    <3>1. m + 1 \in 0..N /\ m + 1 # 0 /\ (m + 1) - 1 = m /\ ivs[m + 1] \in Interval
      BY <1>1, <2>2
    <3>2. g[m + 1] = GapStep(g[m], ivs[m + 1], total)
      BY <1>5, <3>1
    <3> QED
      BY <2>2, <3>1, <3>2, GapType
  <2>3. 0..N \subseteq S
    <3> HIDE DEF S, N
    <3>1. \A m \in 0..N : m \in S /\ m < N => m + 1 \in S
      BY <2>2
    <3> QED
      BY <1>1, <2>1, <3>1, Induction
  <2>4. \A n \in 0..N : g[n] \in Search
    BY <2>3
  <2> QED
    BY <1>5, <2>4
<1> HIDE DEF g
<1>8. g[0] = init
  BY <1>1, <1>5
<1>9. ASSUME NEW n \in 1..N
      PROVE  g[n] = GapStep(g[n - 1], ivs[n], total)
  <2>1. n \in 0..N /\ n # 0
    BY <1>1
  <2> QED
    BY <1>5, <2>1
<1> QED
  BY <1>6, <1>7, <1>8, <1>9

\* The invariant of Gaps' loop after n iterations: the gaps found are sorted
\* and lie before the position, which no later interval precedes; the
\* intervals seen end at the position or lie beyond the file; below the
\* position the gaps are what is not covered.
GapInv(ivs, n, total, acc) ==
    /\ Increasing(acc.gaps)
    /\ Len(acc.gaps) > 0 => LastEnd(acc.gaps) < acc.pos
    /\ n < Len(ivs) => acc.pos <= ivs[n + 1][1]
    /\ \A i \in 1..n : ivs[i][2] <= acc.pos \/ ivs[i][1] >= total
    /\ \A x \in Int : x \in Covered(acc.gaps) <=>
                        0 <= x /\ x < acc.pos /\ x < total /\ x \notin Covered(ivs)

\* An iteration keeps the invariant.
LEMMA GapKeeps ==
    ASSUME NEW ivs \in Seq(Interval), Increasing(ivs), NEW total \in Nat,
           NEW n \in Nat, n < Len(ivs), NEW acc \in Search, GapInv(ivs, n, total, acc)
    PROVE  GapInv(ivs, n + 1, total, GapStep(acc, ivs[n + 1], total))
<1> DEFINE iv  == ivs[n + 1]
           res == GapStep(acc, iv, total)
<1> SUFFICES GapInv(ivs, n + 1, total, res)
  OBVIOUS
<1>1. /\ acc.gaps \in Seq(Interval) /\ acc.pos \in Nat
      /\ Len(acc.gaps) \in Nat /\ Len(ivs) \in Nat
      /\ \A i \in 1..Len(ivs) : ivs[i][1] \in Nat /\ ivs[i][2] \in Nat
  BY IntervalEnds DEF Search
<1>2. n + 1 \in 1..Len(ivs) /\ 1..n + 1 = 1..n \cup {n + 1} /\ (n + 1) + 1 = n + 2
  BY <1>1
<1>3. iv[1] \in Nat /\ iv[2] \in Nat /\ iv[1] < iv[2]
  BY <1>1, <1>2 DEF Increasing
<1>4. n + 1 < Len(ivs) => iv[2] < ivs[n + 2][1] /\ ivs[n + 2][1] \in Nat
  <2>1. n + 1 < Len(ivs) => n + 2 \in 1..Len(ivs)
    BY <1>1
  <2> QED
    BY <1>1, <1>2, <2>1 DEF Increasing
<1>5. /\ Increasing(acc.gaps)
      /\ Len(acc.gaps) > 0 => LastEnd(acc.gaps) < acc.pos
      /\ acc.pos <= iv[1]
      /\ \A i \in 1..n : ivs[i][2] <= acc.pos \/ ivs[i][1] >= total
      /\ \A x \in Int : x \in Covered(acc.gaps) <=>
                          0 <= x /\ x < acc.pos /\ x < total /\ x \notin Covered(ivs)
  BY DEF GapInv
<1>a. /\ acc.pos \in Nat /\ iv[1] \in Nat /\ iv[2] \in Nat
      /\ acc.pos <= iv[1] /\ iv[1] < iv[2] /\ acc.pos < iv[2]
  BY <1>1, <1>3, <1>5
<1>6. CASE iv[1] >= total
  <2>1. res = acc
    BY <1>6 DEF GapStep
  <2>2. n + 1 < Len(ivs) => acc.pos <= ivs[n + 2][1]
    BY <1>a, <1>4
  <2>3. \A i \in 1..n + 1 : ivs[i][2] <= acc.pos \/ ivs[i][1] >= total
    BY <1>2, <1>5, <1>6
  <2> HIDE DEF res, iv
  <2> QED
    BY <1>2, <1>5, <2>1, <2>2, <2>3 DEF GapInv
<1>7. CASE iv[1] < total
  <2>1. res.pos = iv[2]
    <3>1. res.pos = Larger(iv[2], acc.pos)
      BY <1>a, <1>7 DEF GapStep
    <3> QED
      BY <1>a, <3>1 DEF Larger
  <2>2. \A i \in 1..n + 1 : ivs[i][2] <= res.pos \/ ivs[i][1] >= total
    <3> SUFFICES ASSUME NEW i \in 1..n + 1
                 PROVE  ivs[i][2] <= iv[2] \/ ivs[i][1] >= total
      BY <2>1
    <3>1. CASE i = n + 1
      BY <1>3, <3>1
    <3>2. CASE i \in 1..n
      <4>1. ivs[i][2] \in Nat
        BY <1>1, <3>2
      <4>2. ivs[i][2] <= acc.pos \/ ivs[i][1] >= total
        BY <1>5, <3>2
      <4> QED
        BY <1>a, <4>1, <4>2
    <3> QED
      BY <1>2, <3>1, <3>2
  <2>3. n + 1 < Len(ivs) => res.pos <= ivs[n + 2][1]
    BY <1>3, <1>4, <2>1
  <2>4. \A x \in Int : iv[1] <= x /\ x < iv[2] => x \in Covered(ivs)
    BY <1>2, CoveredMeans
  <2>5. \A x \in Int : acc.pos <= x /\ x < iv[1] => x \notin Covered(ivs)
    <3> SUFFICES ASSUME NEW x \in Int, acc.pos <= x, x < iv[1],
                        NEW i \in 1..Len(ivs), ivs[i][1] <= x, x < ivs[i][2]
                 PROVE  FALSE
      BY CoveredMeans
    <3>1. CASE i <= n
      <4>1. i \in 1..n
        BY <3>1
      <4>2. ivs[i][2] <= acc.pos \/ ivs[i][1] >= total
        BY <1>5, <4>1
      <4> QED
        BY <1>1, <1>3, <1>7, <4>2
    <3>2. CASE i = n + 1
      BY <1>3, <3>2
    <3>3. CASE i > n + 1
      <4>1. iv[1] < ivs[i][1]
        BY <1>2, <3>3, Apart
      <4> QED
        BY <1>1, <1>3, <4>1
    <3> QED
      BY <3>1, <3>2, <3>3
  <2>6. CASE iv[1] > acc.pos
    <3> DEFINE gap == <<acc.pos, iv[1]>>
    <3>1. res.gaps = Append(acc.gaps, gap)
      <4>1. Smaller(iv[1], total) = iv[1]
        BY <1>a, <1>7 DEF Smaller
      <4> QED
        BY <1>a, <1>7, <2>6, <4>1 DEF GapStep
    <3>2. gap \in Interval /\ gap[1] < gap[2] /\ gap[2] = iv[1] /\ gap[1] = acc.pos
      BY <1>1, <1>3, <2>6 DEF Interval
    <3> HIDE DEF gap, res
    <3>3. /\ Increasing(res.gaps) /\ LastEnd(res.gaps) = iv[1] /\ Len(res.gaps) > 0
          /\ Covered(res.gaps) = Covered(acc.gaps) \cup Bytes(gap)
      BY <1>1, <1>5, <3>1, <3>2, IncreasingAppend, CoveredAppend, LastAppended DEF LastEnd
    <3>4. ASSUME NEW x \in Int
          PROVE  x \in Covered(res.gaps) <=>
                   0 <= x /\ x < res.pos /\ x < total /\ x \notin Covered(ivs)
      <4>1. x \in Bytes(gap) <=> acc.pos <= x /\ x < iv[1]
        BY <1>1, <1>3, <3>2 DEF Bytes
      <4>2. x \in Covered(acc.gaps) <=>
              0 <= x /\ x < acc.pos /\ x < total /\ x \notin Covered(ivs)
        BY <1>5
      <4>3. x \in Covered(res.gaps) <=> x \in Covered(acc.gaps) \/ x \in Bytes(gap)
        BY <3>3
      <4> QED
        BY <1>1, <1>3, <1>5, <1>7, <2>1, <2>4, <2>5, <4>1, <4>2, <4>3
    <3> HIDE DEF iv
    <3> QED
      BY <1>2, <1>3, <2>1, <2>2, <2>3, <3>3, <3>4 DEF GapInv
  <2>7. CASE ~(iv[1] > acc.pos)
    <3>1. res.gaps = acc.gaps
      BY <1>7, <2>7 DEF GapStep
    <3> HIDE DEF res
    <3>2. iv[1] = acc.pos
      BY <1>1, <1>3, <1>5, <2>7
    <3>3. Len(acc.gaps) > 0 => LastEnd(acc.gaps) < res.pos
      <4>1. Len(acc.gaps) > 0 => LastEnd(acc.gaps) \in Nat
        BY <1>1, IntervalEnds DEF LastEnd
      <4> QED
        BY <1>1, <1>3, <1>5, <2>1, <3>2, <4>1
    <3>4. ASSUME NEW x \in Int
          PROVE  x \in Covered(acc.gaps) <=>
                   0 <= x /\ x < res.pos /\ x < total /\ x \notin Covered(ivs)
      BY <1>1, <1>3, <1>5, <2>1, <2>4, <3>2
    <3> HIDE DEF iv
    <3> QED
      BY <1>2, <1>5, <2>2, <2>3, <3>1, <3>3, <3>4 DEF GapInv
  <2> QED
    BY <2>6, <2>7
<1> QED
  BY <1>1, <1>3, <1>6, <1>7

\* Gaps is a sorted list of the bytes of the file that are not covered
\* (rangeset.go: Gaps).
THEOREM GapsComplement ==
    ASSUME NEW ivs \in Seq(Interval), Increasing(ivs), NEW total \in Nat
    PROVE  /\ Gaps(ivs, total) \in Seq(Interval)
           /\ Increasing(Gaps(ivs, total))
           /\ Covered(Gaps(ivs, total)) = (0 .. total - 1) \ Covered(ivs)
<1>1. CASE total <= 0
  <2>1. 0 .. total - 1 = {} /\ Gaps(ivs, total) = <<>>
    BY <1>1 DEF Gaps
  <2>2. Covered(<<>>) = {} /\ Increasing(<<>>) /\ <<>> \in Seq(Interval)
    BY DEF Covered, Increasing
  <2> QED
    BY <2>1, <2>2
<1>2. CASE total > 0
  <2> DEFINE N   == Len(ivs)
             acc == Seeking(ivs, total)
             S   == {n \in 0..N : GapInv(ivs, n, total, acc[n])}
  <2>1. N \in Nat
    OBVIOUS
  <2>2. /\ acc \in [0..N -> Search]
        /\ acc[0] = [gaps |-> <<>>, pos |-> 0]
        /\ \A n \in 1..N : acc[n] = GapStep(acc[n - 1], ivs[n], total)
    BY SeekingUnfolds
  <2> HIDE DEF acc
  <2>3. 0 \in S
    <3>1. Covered(<<>>) = {} /\ Increasing(<<>>) /\ Len(<<>>) = 0
      BY DEF Covered, Increasing
    <3>2. 0 < Len(ivs) => ivs[0 + 1][1] >= 0
      BY IntervalEnds
    <3>3. GapInv(ivs, 0, total, acc[0])
      BY <2>2, <3>1, <3>2 DEF GapInv
    <3> QED
      BY <2>1, <3>3
  <2>4. ASSUME NEW m \in 0..N, m \in S, m < N
        PROVE  m + 1 \in S
    <3>1. m \in Nat /\ m + 1 \in 1..N /\ (m + 1) - 1 = m /\ acc[m] \in Search
      BY <2>1, <2>2, <2>4
    <3>2. acc[m + 1] = GapStep(acc[m], ivs[m + 1], total)
      BY <2>2, <3>1
    <3>3. GapInv(ivs, m + 1, total, acc[m + 1])
      BY <2>4, <3>1, <3>2, GapKeeps
    <3> QED
      BY <2>1, <3>1, <3>3
  <2>5. GapInv(ivs, N, total, acc[N]) /\ acc[N] \in Search
    <3> HIDE DEF S, N
    <3>1. \A m \in 0..N : m \in S /\ m < N => m + 1 \in S
      BY <2>4
    <3>2. 0..N \subseteq S
      BY <2>1, <2>3, <3>1, Induction
    <3>3. N \in S
      BY <2>1, <3>2
    <3> QED
      BY <2>1, <2>2, <3>3 DEF S
  <2> DEFINE a == acc[N]
  <2>6. Gaps(ivs, total) = IF a.pos < total THEN Append(a.gaps, <<a.pos, total>>) ELSE a.gaps
    BY <1>2 DEF Gaps, acc
  <2> HIDE DEF a
  <2>7. GapInv(ivs, N, total, a) /\ a.gaps \in Seq(Interval) /\ a.pos \in Nat
    BY <2>5 DEF a, Search
  <2>8. /\ Increasing(a.gaps)
        /\ Len(a.gaps) > 0 => LastEnd(a.gaps) < a.pos
        /\ \A i \in 1..N : ivs[i][2] <= a.pos \/ ivs[i][1] >= total
        /\ \A x \in Int : x \in Covered(a.gaps) <=>
                            0 <= x /\ x < a.pos /\ x < total /\ x \notin Covered(ivs)
    BY <2>7 DEF GapInv
  <2>9. \A x : x \in Covered(a.gaps) => x \in Int
    BY <2>7, CoveredMeans
  <2>10. CASE ~(a.pos < total)
    <3>1. Covered(a.gaps) = (0 .. total - 1) \ Covered(ivs)
      BY <2>7, <2>8, <2>9, <2>10
    <3> QED
      BY <2>6, <2>7, <2>8, <2>10, <3>1
  <2>11. CASE a.pos < total
    <3> DEFINE gap == <<a.pos, total>>
    <3>1. gap \in Interval /\ gap[1] < gap[2] /\ gap[1] = a.pos /\ gap[2] = total
      BY <2>7, <2>11 DEF Interval
    <3> HIDE DEF gap
    <3>2. /\ Append(a.gaps, gap) \in Seq(Interval) /\ Increasing(Append(a.gaps, gap))
          /\ Covered(Append(a.gaps, gap)) = Covered(a.gaps) \cup Bytes(gap)
      BY <2>7, <2>8, <3>1, IncreasingAppend, CoveredAppend DEF LastEnd
    <3>3. \A x : x \in Bytes(gap) <=> x \in Int /\ a.pos <= x /\ x < total
      BY <2>7, <3>1 DEF Bytes
    <3>4. \A x \in Int : a.pos <= x /\ x < total => x \notin Covered(ivs)
      <4>1. \A i \in 1..Len(ivs) : ivs[i][1] \in Nat /\ ivs[i][2] \in Nat
        BY IntervalEnds
      <4> SUFFICES ASSUME NEW x \in Int, a.pos <= x, x < total, x \in Covered(ivs)
                   PROVE  FALSE
        OBVIOUS
      <4>2. PICK i \in 1..Len(ivs) : ivs[i][1] <= x /\ x < ivs[i][2]
        BY CoveredMeans
      <4>3. ivs[i][2] <= a.pos \/ ivs[i][1] >= total
        BY <2>8
      <4> QED
        BY <2>7, <4>1, <4>2, <4>3
    <3>5. Covered(a.gaps) \cup Bytes(gap) = (0 .. total - 1) \ Covered(ivs)
      BY <2>7, <2>8, <2>9, <2>11, <3>3, <3>4
    <3> QED
      BY <2>6, <2>11, <3>2, <3>5 DEF gap
  <2> QED
    BY <2>10, <2>11
<1> QED
  BY <1>1, <1>2

-----------------------------------------------------------------------------
(* The progress shown to the user.                                         *)

\* The part of an interval within the file has as many bytes as are counted.
LEMMA ClampedCounts ==
    ASSUME NEW iv \in Interval, iv[1] < iv[2], NEW total \in Nat
    PROVE  /\ ClampedLength(iv, total) \in Nat
           /\ IsFiniteSet(Bytes(iv) \cap (0 .. total - 1))
           /\ Cardinality(Bytes(iv) \cap (0 .. total - 1)) = ClampedLength(iv, total)
<1>1. iv[1] \in Nat /\ iv[2] \in Nat
  BY IntervalEnds
<1> DEFINE hi == Smaller(iv[2], total)
<1>2. hi \in Nat /\ hi <= iv[2] /\ hi <= total /\ (hi = iv[2] \/ hi = total)
  BY <1>1 DEF Smaller
<1>3. ClampedLength(iv, total) = IF iv[1] > hi - 1 THEN 0 ELSE (hi - 1) - iv[1] + 1
  BY <1>1, <1>2 DEF ClampedLength, Larger
<1> HIDE DEF hi
<1>4. Bytes(iv) \cap (0 .. total - 1) = iv[1] .. hi - 1
  BY <1>1, <1>2 DEF Bytes
<1>5. /\ IsFiniteSet(iv[1] .. hi - 1)
      /\ Cardinality(iv[1] .. hi - 1) = IF iv[1] > hi - 1 THEN 0 ELSE (hi - 1) - iv[1] + 1
  <2> DEFINE b == hi - 1
  <2>1. b \in Int /\ iv[1] \in Int
    BY <1>1, <1>2
  <2> HIDE DEF b
  <2>2. /\ IsFiniteSet(iv[1] .. b)
        /\ Cardinality(iv[1] .. b) = IF iv[1] > b THEN 0 ELSE b - iv[1] + 1
    BY <2>1, FS_Interval
  <2> QED
    BY <2>2 DEF b
<1>6. ClampedLength(iv, total) \in Nat
  BY <1>1, <1>2, <1>3
<1> QED
  BY <1>3, <1>4, <1>5, <1>6

\* The loop starts at 0 and adds one length per interval.
LEMMA CountingUnfolds ==
    ASSUME NEW ivs \in Seq(Interval), Increasing(ivs), NEW total \in Nat
    PROVE  LET acc == Counting(ivs, total) IN
           /\ acc[0] = 0
           /\ \A n \in 1..Len(ivs) : acc[n] = acc[n - 1] + ClampedLength(ivs[n], total)
<1> DEFINE N    == Len(ivs)
           step == [n \in 1..N |-> [a \in Nat |-> a + ClampedLength(ivs[n], total)]]
           Body(f) == [n \in 0..N |-> IF n = 0 THEN 0
                                      ELSE f[n - 1] + ClampedLength(ivs[n], total)]
<1>1. N \in Nat
  OBVIOUS
<1>2. \A n \in 1..N : ClampedLength(ivs[n], total) \in Nat
  BY IntervalEnds, ClampedCounts DEF Increasing
<1>3. step \in [1..N -> [Nat -> Nat]]
  BY <1>2
<1>4. PICK f : IsLoop(f, N, Nat, 0, step)
  <2> HIDE DEF N, step
  <2> QED
    BY <1>1, <1>3, LoopExists
<1>5. f = Body(f)
  <2>1. ASSUME NEW n \in 0..N
        PROVE  f[n] = IF n = 0 THEN 0 ELSE f[n - 1] + ClampedLength(ivs[n], total)
    <3>1. CASE n = 0
      BY <1>4, <3>1 DEF IsLoop
    <3>2. CASE n # 0
      <4>1. n \in 1..N /\ n - 1 \in 0..N
        BY <1>1, <3>2
      <4> QED
        BY <1>4, <3>2, <4>1 DEF IsLoop
    <3> QED
      BY <3>1, <3>2
  <2> QED
    BY <1>4, <2>1 DEF IsLoop
<1> DEFINE g == CHOOSE h : h = Body(h)
<1>6. g = Body(g)
  BY <1>5
<1>7. Counting(ivs, total) = g
  BY DEF Counting
<1> HIDE DEF g
<1>8. g[0] = 0
  BY <1>1, <1>6
<1>9. ASSUME NEW n \in 1..N
      PROVE  g[n] = g[n - 1] + ClampedLength(ivs[n], total)
  <2>1. n \in 0..N /\ n # 0
    BY <1>1
  <2> QED
    BY <1>6, <2>1
<1> QED
  BY <1>7, <1>8, <1>9

\* The progress is the number of bytes of the file that are covered
\* (manager.go: coveredBytes).
THEOREM CoveredBytesCounts ==
    ASSUME NEW ivs \in Seq(Interval), Increasing(ivs), NEW total \in Nat
    PROVE  CoveredBytes(ivs, total) = Cardinality((0 .. total - 1) \cap Covered(ivs))
<1> DEFINE N    == Len(ivs)
           F    == 0 .. total - 1
           Part(n) == CoveredTo(ivs, n) \cap F
           acc  == Counting(ivs, total)
           S    == {n \in 0..N : IsFiniteSet(Part(n)) /\ acc[n] = Cardinality(Part(n))}
<1>1. N \in Nat /\ IsFiniteSet(F) /\ Cardinality(F) = total
  BY FS_Interval
<1>2. acc[0] = 0 /\ \A n \in 1..N : acc[n] = acc[n - 1] + ClampedLength(ivs[n], total)
  BY CountingUnfolds
<1>3. CASE total = 0
  <2>1. F = {}
    BY <1>3
  <2>2. F \cap Covered(ivs) = {}
    BY <2>1
  <2> QED
    BY <1>3, <2>2, FS_EmptySet DEF CoveredBytes
<1>4. CASE total > 0
  <2> HIDE DEF acc
  <2>1. 0 \in S
    <3>1. Part(0) = {}
      BY DEF CoveredTo
    <3>2. 0 \in 0..N
      BY <1>1
    <3> HIDE DEF Part, N
    <3>3. IsFiniteSet(Part(0)) /\ Cardinality(Part(0)) = 0
      BY <3>1, FS_EmptySet
    <3> QED
      BY <1>2, <3>2, <3>3
  <2>2. ASSUME NEW m \in 0..N, m \in S, m < N
        PROVE  m + 1 \in S
    <3> DEFINE iv == ivs[m + 1]
               B  == Bytes(iv) \cap F
    <3>1. m + 1 \in 1..N /\ m + 1 \in 0..N /\ (m + 1) - 1 = m /\ m \in Nat
      BY <1>1, <2>2
    <3>2. iv \in Interval /\ iv[1] < iv[2]
      BY <3>1, IntervalEnds DEF Increasing
    <3>3. IsFiniteSet(B) /\ Cardinality(B) = ClampedLength(iv, total)
      BY <3>2, ClampedCounts
    <3>4. acc[m + 1] = acc[m] + ClampedLength(iv, total)
      BY <1>2, <3>1
    <3>5. Part(m + 1) = Part(m) \cup B
      BY <3>1, CoveredToNext
    <3>6. Part(m) \cap B = {}
      <4> SUFFICES ASSUME NEW i \in 1..m, NEW x \in Bytes(ivs[i]), x \in Bytes(iv)
                   PROVE  FALSE
        BY DEF CoveredTo
      <4>1. i \in 1..N /\ i < m + 1
        BY <1>1, <2>2
      <4>2. ivs[i][2] < iv[1]
        BY <3>1, <4>1, Apart
      <4>3. /\ ivs[i][1] \in Nat /\ ivs[i][2] \in Nat
            /\ iv[1] \in Nat /\ iv[2] \in Nat
        BY <3>2, <4>1, IntervalEnds
      <4>4. x \in ivs[i][1] .. ivs[i][2] - 1 /\ x \in iv[1] .. iv[2] - 1
        BY DEF Bytes
      <4> HIDE DEF iv
      <4> QED
        BY <4>2, <4>3, <4>4
    <3>7. IsFiniteSet(Part(m)) /\ acc[m] = Cardinality(Part(m)) /\ Cardinality(Part(m)) \in Nat
      BY <2>2, FS_CardinalityType
    <3>8. /\ IsFiniteSet(Part(m) \cup B)
          /\ Cardinality(Part(m) \cup B) = Cardinality(Part(m)) + Cardinality(B)
      <4>1. /\ IsFiniteSet(Part(m) \cup B)
            /\ Cardinality(Part(m) \cup B)
                = Cardinality(Part(m)) + Cardinality(B) - Cardinality(Part(m) \cap B)
        <5> HIDE DEF Part, B
        <5> QED
          BY <3>3, <3>7, FS_Union
      <4>2. Cardinality(Part(m) \cap B) = 0 /\ Cardinality(B) \in Nat
        BY <3>3, <3>6, FS_EmptySet, FS_CardinalityType
      <4> HIDE DEF Part, B
      <4> QED
        BY <3>7, <4>1, <4>2
    <3> HIDE DEF Part, B
    <3> QED
      BY <3>1, <3>3, <3>4, <3>5, <3>7, <3>8
  <2>3. acc[N] = Cardinality(Part(N))
    <3> HIDE DEF S, N
    <3>1. \A m \in 0..N : m \in S /\ m < N => m + 1 \in S
      BY <2>2
    <3>2. 0..N \subseteq S
      BY <1>1, <2>1, <3>1, Induction
    <3>3. N \in S
      BY <1>1, <3>2
    <3> QED
      BY <3>3 DEF S
  <2>4. Part(N) = F \cap Covered(ivs)
    BY DEF CoveredTo, Covered
  <2>5. Cardinality(F \cap Covered(ivs)) \in Nat /\ Cardinality(F \cap Covered(ivs)) <= total
    <3> HIDE DEF F
    <3>1. F \cap Covered(ivs) \in SUBSET F
      OBVIOUS
    <3>2. /\ IsFiniteSet(F \cap Covered(ivs))
          /\ Cardinality(F \cap Covered(ivs)) <= Cardinality(F)
      BY <1>1, <3>1, FS_Subset
    <3> QED
      BY <1>1, <3>2, FS_CardinalityType
  <2>6. CoveredBytes(ivs, total) = Smaller(acc[N], total)
    BY <1>4 DEF CoveredBytes, acc
  <2>7. CoveredBytes(ivs, total) = Smaller(Cardinality(F \cap Covered(ivs)), total)
    <3> HIDE DEF F, Part, N
    <3> QED
      BY <2>3, <2>4, <2>6
  <2> QED
    BY <2>5, <2>7 DEF Smaller
<1> QED
  BY <1>3, <1>4

\* What the list does not cover of a file of n bytes is as many bytes as the
\* progress lacks (manager.go: coveredBytes; rangeset.go: Gaps).
THEOREM ProgressIsRest ==
    ASSUME NEW ivs \in Seq(Interval), Increasing(ivs), NEW total \in Nat
    PROVE  CoveredBytes(ivs, total) = total - Cardinality(Covered(Gaps(ivs, total)))
<1> DEFINE F == 0 .. total - 1
<1>1. IsFiniteSet(F) /\ Cardinality(F) = total
  BY FS_Interval
<1>2. CoveredBytes(ivs, total) = Cardinality(F \cap Covered(ivs))
  BY CoveredBytesCounts
<1>3. Covered(Gaps(ivs, total)) = F \ Covered(ivs)
  BY GapsComplement
<1> HIDE DEF F
<1>4. Cardinality(F \ Covered(ivs)) = Cardinality(F) - Cardinality(F \cap Covered(ivs))
  BY <1>1, FS_Difference
<1>5. Cardinality(F \cap Covered(ivs)) \in Nat
  <2>1. F \cap Covered(ivs) \in SUBSET F
    OBVIOUS
  <2> QED
    BY <1>1, <2>1, FS_Subset, FS_CardinalityType
<1> QED
  BY <1>1, <1>2, <1>3, <1>4, <1>5

-----------------------------------------------------------------------------
(* The RangeSet a transfer fills. Here the replies do not matter: only      *)
(* where the pipe's reader stands.                                          *)

\* What a transfer may hold when a server may answer with more than it was
\* asked for.
LooseState ==
    [pc : {"idle", "request", "body", "done"}, offset : Nat, length : Int, copied : Int,
     attempt : Int, pos : Nat]

\* The reader of every pipe stands where the next request begins.
Positions == size \in Nat /\ t \in [Streams -> LooseState] /\ InStep

\* What a step does to the goroutine that takes it, and to the RangeSet.
Progress(s, u) ==
    /\ u \in LooseState /\ u.pos = First(u)
    /\ t' = [t EXCEPT ![s] = u] /\ size' = size
    /\ \/ UNCHANGED rangeVars
       \/ \E offset \in Nat, length \in Int : AddRange(offset, length)

\* Copying n bytes leaves the reader where the next request begins.
LEMMA CopyProgress ==
    ASSUME Positions, NEW s \in Streams, NEW n \in Int, t[s].pos + n >= 0,
           NEW attempt \in Int, NEW pc \in {"request", "done"}, NEW u,
           u = AfterBody(t[s], n, attempt, pc)
    PROVE  u \in LooseState /\ u.pos = First(u)
<1>1. /\ t[s] \in LooseState /\ t[s].pos = t[s].offset + t[s].copied
      /\ t[s].pos \in Nat /\ t[s].copied \in Int /\ t[s].offset \in Nat
  BY DEF Positions, InStep, First, LooseState
<1>2. /\ t[s].copied + n \in Int /\ t[s].pos + n \in Nat
      /\ t[s].pos + n = t[s].offset + (t[s].copied + n)
  BY <1>1
<1> DEFINE k == Copied(t[s], n, TRUE)
<1>3. /\ k \in LooseState /\ k.offset = t[s].offset
      /\ k.copied = t[s].copied + n /\ k.pos = t[s].pos + n
  BY <1>1, <1>2 DEF Copied, LooseState
<1>4. u = [k EXCEPT !.attempt = attempt, !.pc = pc]
  BY DEF AfterBody
<1> HIDE DEF k
<1>5. /\ u \in LooseState /\ u.offset = k.offset /\ u.copied = k.copied /\ u.pos = k.pos
  BY <1>3, <1>4 DEF LooseState
<1> QED
  BY <1>2, <1>3, <1>5 DEF First

\* A goroutine's variables after a step that copies nothing.
Quiet(u, attempt, pc) == [u EXCEPT !.pc = pc, !.attempt = attempt]

\* That, too, leaves the reader where the next request begins.
LEMMA QuietProgress ==
    ASSUME Positions, NEW s \in Streams, NEW attempt \in Int,
           NEW pc \in {"request", "body", "done"}, NEW u,
           u = Quiet(t[s], attempt, pc)
    PROVE  u \in LooseState /\ u.pos = First(u)
<1>1. t[s] \in LooseState /\ t[s].pos = First(t[s])
  BY DEF Positions, InStep
<1>2. /\ u \in LooseState /\ u.offset = t[s].offset /\ u.copied = t[s].copied
      /\ u.pos = t[s].pos
  BY <1>1 DEF LooseState, Quiet
<1> QED
  BY <1>1, <1>2 DEF First

\* Every step has that shape.
LEMMA StepProgress ==
    ASSUME Positions, NEW s \in Streams, Open(s) \/ Stream(s) \/ Leave(s)
    PROVE  \E u : Progress(s, u)
<1> USE DEF Goto
<1>t. /\ t[s] \in LooseState /\ t[s].pos = First(t[s]) /\ MaxRetries \in Nat
      /\ t[s].attempt \in Int /\ t[s].pos \in Nat /\ t[s].length \in Int /\ t[s].offset \in Nat
      /\ First(t[s]) \in Nat
      /\ size \in Nat /\ FileEnd \in Nat
  BY DEF Positions, InStep, LooseState
<1>i. Idle \in LooseState /\ Idle.pos = First(Idle) /\ Idle.copied = 0
  BY DEF Idle, LooseState, First
<1>1. ASSUME NEW offset \in Nat, NEW length \in Int, Start(s, offset, length)
      PROVE  \E u : Progress(s, u)
  <2> DEFINE u == [Idle EXCEPT !.pc = "request", !.offset = offset, !.length = length,
                               !.pos = offset]
  <2>1. u \in LooseState /\ u.offset = offset /\ u.pos = offset /\ u.copied = 0
    BY <1>i DEF LooseState
  <2>2. t' = [t EXCEPT ![s] = u] /\ UNCHANGED <<rangeVars, size>>
    BY <1>1 DEF Start
  <2> HIDE DEF u
  <2>3. u.pos = First(u)
    BY <2>1 DEF First
  <2> QED
    BY <2>1, <2>2, <2>3 DEF Progress
<1>2. CASE Open(s)
  <2>1. 0 \in Nat /\ ToEnd \in Int
    BY DEF ToEnd
  <2>2. \A offset \in 0..FileEnd-1 : offset \in Nat /\ FileEnd - offset \in Int
    BY <1>t
  <2> QED
    BY <1>1, <1>2, <2>1, <2>2 DEF Open
<1>3. CASE Return(s)
  <2> DEFINE u == [t[s] EXCEPT !.pc = "done"]
  <2>1. u = Quiet(t[s], t[s].attempt, "done")
    BY <1>t DEF LooseState, Quiet
  <2> HIDE DEF u
  <2>2. t' = [t EXCEPT ![s] = u] /\ UNCHANGED <<rangeVars, size>>
    BY <1>3 DEF Return, u
  <2>3. u \in LooseState /\ u.pos = First(u)
    <3>1. t[s].attempt \in Int
      BY <1>t
    <3> QED
      BY <2>1, <3>1, QuietProgress
  <2> QED
    BY <2>2, <2>3 DEF Progress
<1>4. CASE Request(s)
  <2> DEFINE u == [t[s] EXCEPT !.pc = "body"]
  <2>1. u = Quiet(t[s], t[s].attempt, "body")
    BY <1>t DEF LooseState, Quiet
  <2> HIDE DEF u
  <2>2. t' = [t EXCEPT ![s] = u] /\ UNCHANGED <<rangeVars, size>>
    BY <1>4 DEF Request, u
  <2>3. u \in LooseState /\ u.pos = First(u)
    <3>1. t[s].attempt \in Int
      BY <1>t
    <3> QED
      BY <2>1, <3>1, QuietProgress
  <2> QED
    BY <2>2, <2>3 DEF Progress
<1>5. CASE RequestFails(s)
  <2>1. UNCHANGED <<rangeVars, size>>
    BY <1>5 DEF RequestFails
  <2>2. CASE t' = [t EXCEPT ![s] = Idle]
    BY <1>i, <2>1, <2>2 DEF Progress
  <2>3. CASE t[s].attempt < MaxRetries /\ t' = [t EXCEPT ![s] = Retry(t[s])]
    <3> DEFINE u == [t[s] EXCEPT !.pc = "request", !.attempt = t[s].attempt + 1]
    <3>1. t[s].attempt + 1 \in Int
      BY <1>t
    <3>2. t' = [t EXCEPT ![s] = u]
      BY <1>t, <2>3 DEF Retry, LooseState
    <3>3. u \in LooseState /\ u.pos = First(u)
      <4>1. u = Quiet(t[s], t[s].attempt + 1, "request")
        BY DEF Quiet
      <4> QED
        BY <3>1, <4>1, QuietProgress
    <3> HIDE DEF u
    <3> QED
      BY <2>1, <3>2, <3>3 DEF Progress
  <2> QED
    BY <1>5, <2>2, <2>3 DEF RequestFails, Retry
<1>6. ASSUME NEW n, BodyBroken(s, n)
      PROVE  \E u : Progress(s, u)
  <2>1. Last(t[s]) \in Int
    BY <1>t DEF Last, Smaller
  <2>2. n \in Nat /\ AddRange(t[s].pos, n) /\ size' = size
    <3>1. n \in 0..(Last(t[s]) - First(t[s])) /\ Store(t[s], First(t[s]), n) /\ size' = size
      BY <1>6 DEF BodyBroken
    <3> QED
      BY <1>t, <2>1, <3>1 DEF Store
  <2>3. size' = size /\ \E offset \in Nat, length \in Int : AddRange(offset, length)
    <3>1. t[s].pos \in Nat /\ n \in Int
      BY <1>t, <2>2
    <3> QED
      BY <2>2, <3>1
  <2>4. CASE t' = [t EXCEPT ![s] = Idle]
    BY <1>i, <2>3, <2>4 DEF Progress
  <2> DEFINE k == Copied(t[s], n, FALSE)
  <2>5. CASE k.attempt < MaxRetries /\ t' = [t EXCEPT ![s] = Retry(k)]
    <3>1. k.attempt = t[s].attempt /\ k = Copied(t[s], n, TRUE)
      <4>1. k = [t[s] EXCEPT !.copied = t[s].copied + n, !.pos = t[s].pos + n]
        BY DEF Copied
      <4>2. k.attempt = t[s].attempt
        BY <1>t, <4>1 DEF LooseState
      <4> QED
        BY <1>t, <4>2 DEF Copied
    <3> HIDE DEF k
    <3>2. Retry(k) = AfterBody(t[s], n, t[s].attempt + 1, "request")
      BY <2>5, <3>1 DEF Retry, AfterBody
    <3>3. t[s].attempt + 1 \in Int
      BY <1>t
    <3>4. Retry(k) \in LooseState /\ Retry(k).pos = First(Retry(k))
      <4>1. n \in Int /\ t[s].pos + n >= 0
        BY <1>t, <2>2
      <4> QED
        BY <3>2, <3>3, <4>1, CopyProgress
    <3> QED
      BY <2>3, <2>5, <3>4 DEF Progress
  <2> QED
    BY <1>6, <2>4, <2>5 DEF BodyBroken, Retry
<1>7. CASE BodyClean(s)
  <2> DEFINE pc == IF t[s].length < 0 THEN "done" ELSE "request"
  <2>1. PICK b \in CleanBodies(t[s]) :
            /\ Store(t[s], b[1], b[2])
            /\ t' = [t EXCEPT ![s] = [Copied(t[s], b[2], TRUE) EXCEPT !.attempt = 0, !.pc = pc]]
    BY <1>7 DEF BodyClean
  <2>2. Last(t[s]) \in Nat
    <3>1. t[s].length >= 0 => t[s].offset + t[s].length \in Nat
      BY <1>t
    <3> QED
      BY <1>t, <3>1 DEF Last, Smaller
  <2>3. b[2] \in Int /\ t[s].pos + b[2] >= 0
    <3>1. b \in {<<First(t[s]), Last(t[s]) - First(t[s])>>, <<First(t[s]), 0>>,
                 <<0, Smaller(size, FileEnd - t[s].pos)>>}
      BY <2>1 DEF CleanBodies
    <3>2. b[2] \in {Last(t[s]) - First(t[s]), 0, Smaller(size, FileEnd - t[s].pos)}
      BY <3>1
    <3> QED
      BY <1>t, <2>2, <3>2 DEF Smaller
  <2> DEFINE u == AfterBody(t[s], b[2], 0, pc)
  <2>4. t' = [t EXCEPT ![s] = u] /\ size' = size /\ AddRange(t[s].pos, b[2])
    BY <1>7, <2>1 DEF AfterBody, BodyClean, Store
  <2>5. pc \in {"request", "done"}
    OBVIOUS
  <2> HIDE DEF pc
  <2>6. u \in LooseState /\ u.pos = First(u)
    BY <2>3, <2>5, CopyProgress
  <2> HIDE DEF u
  <2> QED
    BY <1>t, <2>3, <2>4, <2>6 DEF Progress
<1>8. CASE Leave(s)
  BY <1>8, <1>i DEF Leave, Progress
<1> QED
  BY <1>2, <1>3, <1>4, <1>5, <1>6, <1>7, <1>8 DEF Stream

\* The invariant of the RangeSet: where the goroutines are, and that the list
\* holds what was added.
RangeInv == Positions /\ intervals \in Seq(Interval) /\ AddIsUnion

\* A step keeps it.
LEMMA RangeStep ==
    ASSUME RangeInv, [Next]_vars
    PROVE  RangeInv'
<1>1. CASE UNCHANGED vars
  BY <1>1 DEF vars, rangeVars, RangeInv, Positions, InStep, AddIsUnion
<1>2. CASE Next
  <2>1. PICK s \in Streams : Open(s) \/ Stream(s) \/ Leave(s)
    BY <1>2 DEF Next
  <2>2. PICK u : Progress(s, u)
    BY <2>1, StepProgress DEF RangeInv
  <2>3. Positions'
    <3>1. /\ u \in LooseState /\ u.pos = First(u) /\ t' = [t EXCEPT ![s] = u] /\ size' = size
          /\ t \in [Streams -> LooseState] /\ size \in Nat
      BY <2>2 DEF Progress, RangeInv, Positions
    <3>2. \A r \in Streams : t'[r] = IF r = s THEN u ELSE t[r]
      BY <3>1
    <3>3. \A r \in Streams : t[r].pos = First(t[r])
      BY DEF RangeInv, Positions, InStep
    <3>4. InStep'
      BY <3>1, <3>2, <3>3 DEF InStep, First
    <3> QED
      BY <3>1, <3>4 DEF Positions
  <2>4. (intervals \in Seq(Interval))' /\ AddIsUnion'
    <3>1. CASE UNCHANGED rangeVars
      BY <3>1 DEF rangeVars, RangeInv, AddIsUnion
    <3>2. ASSUME NEW offset \in Nat, NEW length \in Int, AddRange(offset, length)
          PROVE  (intervals \in Seq(Interval))' /\ AddIsUnion'
      BY <3>2, AddUnites DEF AddRange, RangeInv, AddIsUnion
    <3> QED
      BY <2>2, <3>1, <3>2 DEF Progress
  <2> QED
    BY <2>3, <2>4 DEF RangeInv
<1> QED
  BY <1>1, <1>2

\* It holds at the start.
LEMMA RangeStart == TransferInit => RangeInv
<1> SUFFICES ASSUME TransferInit PROVE RangeInv
  OBVIOUS
<1>1. size \in Nat /\ t \in [Streams -> LooseState] /\ InStep
  BY DEF TransferInit, Idle, LooseState, InStep, First
<1>2. intervals = <<>> /\ added = {}
  BY DEF TransferInit, Init
<1> QED
  BY <1>1, <1>2 DEF RangeInv, Positions, AddIsUnion, Increasing, Covered

\* After every history of transfers the list is sorted, without empty,
\* overlapping or touching intervals, and holds exactly the bytes that were
\* written, whatever the server answers (rangeset.go: Add).
THEOREM RangesAreUnion == Spec => []AddIsUnion
<1>1. RangeInv /\ [Next]_vars => RangeInv'
  BY RangeStep
<1>2. RangeInv => AddIsUnion
  BY DEF RangeInv
<1> QED
  BY <1>1, <1>2, RangeStart, PTL DEF Spec

\* A read is let through, and a file declared complete, exactly when all of
\* its bytes have been written (rangeset.go: Contains, IsComplete).
THEOREM ContainsAgrees == Spec => []ContainsIsSubset
<1>1. RangeInv /\ [Next]_vars => RangeInv'
  BY RangeStep
<1>2. RangeInv => ContainsIsSubset
  <2> SUFFICES ASSUME RangeInv PROVE ContainsIsSubset
    OBVIOUS
  <2>1. intervals \in Seq(Interval) /\ Increasing(intervals) /\ Covered(intervals) = added
    BY DEF RangeInv, AddIsUnion
  <2>2. \A offset \in Nat, length \in Int :
           Contains(intervals, offset, length) <=>
               (offset .. offset + length - 1) \subseteq added
    BY <2>1, ContainsDecides
  <2>3. \A n \in Nat : IsComplete(intervals, n) <=> (0 .. n - 1) \subseteq added
    <3> SUFFICES ASSUME NEW n \in Nat
                 PROVE  IsComplete(intervals, n) <=> (0 .. n - 1) \subseteq added
      OBVIOUS
    <3>1. Contains(intervals, 0, n) <=> (0 .. 0 + n - 1) \subseteq added
      BY <2>2
    <3>2. 0 + n - 1 = n - 1 /\ (n <= 0 => 0 .. n - 1 = {})
      OBVIOUS
    <3> QED
      BY <3>1, <3>2 DEF IsComplete
  <2>4. \A n \in 0..FileEnd : n \in Nat /\ n \in Int
    OBVIOUS
  <2> QED
    BY <2>2, <2>3, <2>4 DEF ContainsIsSubset
<1> QED
  BY <1>1, <1>2, RangeStart, PTL DEF Spec

\* A download resumes at exactly the missing bytes, for every size of the
\* file, and the progress shown is the rest (rangeset.go: Gaps; manager.go:
\* coveredBytes).
THEOREM GapsAgree == Spec => []GapsAreComplement
<1>1. RangeInv /\ [Next]_vars => RangeInv'
  BY RangeStep
<1>2. RangeInv => GapsAreComplement
  <2> SUFFICES ASSUME RangeInv, NEW n \in 0..FileEnd
               PROVE  /\ Covered(Gaps(intervals, n)) = (0 .. n - 1) \ added
                      /\ Increasing(Gaps(intervals, n))
                      /\ CoveredBytes(intervals, n) = n - Cardinality(Covered(Gaps(intervals, n)))
    BY DEF GapsAreComplement
  <2>1. intervals \in Seq(Interval) /\ Increasing(intervals) /\ Covered(intervals) = added
    BY DEF RangeInv, AddIsUnion
  <2>2. n \in Nat
    OBVIOUS
  <2> QED
    BY <2>1, <2>2, GapsComplement, ProgressIsRest
<1> QED
  BY <1>1, <1>2, RangeStart, PTL DEF Spec
=============================================================================
