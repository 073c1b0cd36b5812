------------------------------ MODULE Transfer ------------------------------
(***************************************************************************)
(* One ranged download, from the HTTP responses of the remote to the bytes *)
(* recorded as present: streamWithRetry of internal/remote/gdrive/gdrive.go*)
(* feeds a pipe, whose other end (downloadLoop of internal/download/       *)
(* manager.go) writes to the cache file at its own position and adds what  *)
(* it wrote to the RangeSet. Several transfers of one file run beside and  *)
(* after each other, so every set of present bytes is met.                 *)
(*                                                                         *)
(* Admits names two replies that the code takes for good and that would    *)
(* break it:                                                               *)
(*   "whole"  a server that ignores the Range header and answers 200       *)
(*   "empty"  an empty body without an error                               *)
(***************************************************************************)
EXTENDS RangeSet

CONSTANTS
    Streams,      \* the download goroutines of one file
    Sizes,        \* the sizes the file may have on the remote by now
    MaxRetries,   \* maxDownloadRetries
    Admits        \* replies let in

ASSUME TransferAssumption ==
    /\ Sizes \subseteq 0..FileEnd
    /\ MaxRetries \in Nat
    /\ Admits \subseteq {"whole", "empty"}

VARIABLES
    size,         \* the file's size on the remote
    wrote,        \* cache file: the remote byte stored at each offset
    t             \* per goroutine, parameters and variables of streamWithRetry

vars == <<rangeVars, size, wrote, t>>

Missing == -1
ToEnd   == -1     \* length < 0: read to the end of the file

Idle == [pc |-> "idle", offset |-> 0, length |-> 0, copied |-> 0, attempt |-> 0, pos |-> 0]

TypeOK ==
    /\ size \in Sizes
    /\ wrote \in [0..FileEnd-1 -> Missing..FileEnd-1]
    /\ t \in [Streams -> [pc : {"idle", "request", "body", "done"}, offset : 0..FileEnd,
                          length : ToEnd..FileEnd, copied : 0..FileEnd,
                          attempt : 0..MaxRetries, pos : 0..FileEnd]]

Goto(s, u) == t' = [t EXCEPT ![s] = u]

\* downloadLoop asks for the whole file (Get) or from a position to the end of
\* the file as the row has it (GetRange).
Start(s, offset, length) ==
    /\ t[s].pc = "idle"
    /\ Goto(s, [Idle EXCEPT !.pc = "request", !.offset = offset, !.length = length,
                            !.pos = offset])
    /\ UNCHANGED <<rangeVars, size, wrote>>

\* Mutant: a failed request does not count.
RetryUncounted(u) == [u EXCEPT !.pc = "request"]

\* A retryable error: another request after a delay, or the end of the budget.
Retry(u) == IF u.attempt < MaxRetries THEN [u EXCEPT !.pc = "request", !.attempt = @ + 1]
            ELSE Idle

Enough(u) == u.length >= 0 /\ u.copied >= u.length

\* The top of the loop: everything is there.
Return(s) ==
    /\ t[s].pc = "request" /\ Enough(t[s])
    /\ Goto(s, [t[s] EXCEPT !.pc = "done"])
    /\ UNCHANGED <<rangeVars, size, wrote>>

First(u) == u.offset + u.copied

\* A request is answered with a body. Beyond the end of the file the reply is
\* 416, a final error.
Request(s) ==
    /\ t[s].pc = "request" /\ ~Enough(t[s])
    /\ First(t[s]) < size
    /\ Goto(s, [t[s] EXCEPT !.pc = "body"])
    /\ UNCHANGED <<rangeVars, size, wrote>>

\* A request fails: retryable (transport, 429, 5xx, a rate limit) or final.
RequestFails(s) ==
    /\ t[s].pc = "request" /\ ~Enough(t[s])
    /\ \E u \in {Retry(t[s]), Idle} : Goto(s, u)
    /\ UNCHANGED <<rangeVars, size, wrote>>

\* The end of the range the request names, within the file.
Last(u) == Smaller(size, IF u.length < 0 THEN size ELSE u.offset + u.length)

\* The pipe's reader stores n bytes of the remote, from byte b on, at its own
\* position and records them.
Store(u, b, n) ==
    /\ wrote' = [i \in 0..FileEnd-1 |->
                    IF i \in u.pos .. u.pos + n - 1 THEN b + (i - u.pos) ELSE wrote[i]]
    /\ AddRange(u.pos, n)

\* Mutant: only a complete body counts as copied.
CopiedClean(u, n, clean) ==
    [u EXCEPT !.copied = IF clean THEN @ + n ELSE @, !.pos = @ + n]

\* The loop's variables after io.Copy has copied n bytes.
Copied(u, n, clean) == [u EXCEPT !.copied = @ + n, !.pos = @ + n]

\* Mutant: an open-ended read takes an error for the end of the file.
BodyBrokenDone(s, n) ==
    /\ t[s].pc = "body" /\ n \in 0..(Last(t[s]) - First(t[s]))
    /\ Store(t[s], First(t[s]), n)
    /\ Goto(s, [Copied(t[s], n, FALSE) EXCEPT !.pc = IF t[s].length < 0 THEN "done" ELSE "request"])
    /\ UNCHANGED size

\* The body breaks off after n bytes, with a retryable error or a final one.
BodyBroken(s, n) ==
    /\ t[s].pc = "body" /\ n \in 0..(Last(t[s]) - First(t[s]))
    /\ Store(t[s], First(t[s]), n)
    /\ \E u \in {Retry(Copied(t[s], n, FALSE)), Idle} : Goto(s, u)
    /\ UNCHANGED size

\* The first byte and the length of a body that ends without an error: the
\* range asked for, up to the end of the file, or what Admits lets in.
CleanBodies(u) ==
    {<<First(u), Last(u) - First(u)>>}
    \cup (IF "empty" \in Admits THEN {<<First(u), 0>>} ELSE {})
    \cup (IF "whole" \in Admits THEN {<<0, Smaller(size, FileEnd - u.pos)>>} ELSE {})

\* The body is complete. It ends an open-ended read and renews the budget of a
\* bounded one.
BodyClean(s) ==
    /\ t[s].pc = "body"
    /\ \E b \in CleanBodies(t[s]) :
        /\ Store(t[s], b[1], b[2])
        /\ Goto(s, [Copied(t[s], b[2], TRUE) EXCEPT
                        !.attempt = 0, !.pc = IF t[s].length < 0 THEN "done" ELSE "request"])
    /\ UNCHANGED size

\* The caller closes the pipe or cancels the context, or the call is over.
Leave(s) ==
    /\ t[s].pc # "idle"
    /\ Goto(s, Idle)
    /\ UNCHANGED <<rangeVars, size, wrote>>

TransferInit ==
    /\ Init
    /\ size \in Sizes
    /\ wrote = [i \in 0..FileEnd-1 |-> Missing]
    /\ t = [s \in Streams |-> Idle]

Stream(s) == Return(s) \/ Request(s) \/ RequestFails(s) \/ BodyClean(s)
             \/ \E n \in 0..FileEnd : BodyBroken(s, n)

Open(s) == Start(s, 0, ToEnd) \/ \E offset \in 0..FileEnd-1 : Start(s, offset, FileEnd - offset)

Next == \E s \in Streams : Open(s) \/ Stream(s) \/ Leave(s)

\* Responses and timeouts arrive, so a transfer under way goes on.
Spec == TransferInit /\ [][Next]_vars /\ \A s \in Streams : WF_vars(Stream(s))

-----------------------------------------------------------------------------
\* Every byte recorded as present is the byte of that offset on the remote,
\* after any number of broken bodies and resumed requests (gdrive.go:
\* streamWithRetry, rangeHeader; manager.go: downloadLoop).
BytesInPlace == \A i \in 0..FileEnd-1 : i \in added => wrote[i] = i

\* A transfer that ends without an error has delivered every byte it was asked
\* for; its io.EOF is all that tells the manager it may stop.
SuccessIsWhole ==
    \A s \in Streams : t[s].pc = "done" =>
        t[s].offset .. (IF t[s].length < 0 THEN size ELSE t[s].offset + t[s].length) - 1
            \subseteq added

\* A transfer ends: an error uses up the budget, and whatever renews the
\* budget has moved the transfer forward.
TransferEnds == \A s \in Streams : (t[s].pc \in {"request", "body"}) ~> (t[s].pc \in {"idle", "done"})
=============================================================================
