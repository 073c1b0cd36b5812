------------------------- MODULE ConnectivityProofs -------------------------
(***************************************************************************)
(* Type correctness of Connectivity and its three safety invariants, for   *)
(* every set of subscribers and paths, every threshold and every bound on  *)
(* the failure counter.                                                    *)
(***************************************************************************)
EXTENDS Connectivity, TLAPS

USE SubsAssumption, ThresholdAssumption, PromptAssumption

\* Broadcasting one message keeps the wires well typed.
LEMMA SendType ==
    ASSUME TypeOK, NEW b \in Senders, Send(b)
    PROVE  TypeOK'
<1>1. bcast[b].rest \in Seq(Subs) /\ bcast[b].msg \in ConnState
  BY DEF TypeOK
<1>2. Head(bcast[b].rest) \in Subs /\ Tail(bcast[b].rest) \in Seq(Subs)
  BY <1>1 DEF Send
<1>3. chan' \in [Subs -> ConnState \cup {Empty}]
  BY <1>1, <1>2 DEF Send, TypeOK
<1>4. bcast' \in [Senders -> [msg : ConnState, rest : Seq(Subs)]]
  BY <1>1, <1>2 DEF Send, AfterSend, TypeOK, Quiet, ConnState
<1> QED
  BY <1>3, <1>4 DEF Send, TypeOK, monitorVars, probeVars, engineVars, dlVars

\* Applying a probe's result keeps every variable well typed.
LEMMA ProbeApplyType ==
    ASSUME TypeOK, ProbeApply
    PROVE  TypeOK'
<1>1. failures' \in 0..MaxFailures
  BY DEF ProbeApply, ProbeFailed, ProbeSucceeded, TypeOK
<1>2. state' \in ConnState /\ ctx' \in {"live", "cancelled"}
  BY DEF ProbeApply, ProbeFailed, ProbeSucceeded, GoOffline, KeepGoing, TypeOK, ConnState
<1>3. upCtx' \in [Workers -> {"none", "live", "cancelled"}]
  BY DEF ProbeApply, ProbeFailed, ProbeSucceeded, GoOffline, KeepGoing, CancelUploads, TypeOK
<1>4. bcast' \in [Senders -> [msg : ConnState, rest : Seq(Subs)]]
  <2>1. \A m \in ConnState :
          [bcast EXCEPT !["probe"] = [msg |-> m, rest |-> subscribers]]
            \in [Senders -> [msg : ConnState, rest : Seq(Subs)]]
    BY DEF TypeOK
  <2> QED
    BY <2>1 DEF ProbeApply, ProbeFailed, ProbeSucceeded, GoOffline, KeepGoing, TypeOK, ConnState
<1> QED
  BY <1>1, <1>2, <1>3, <1>4 DEF ProbeApply, TypeOK, dlVars

\* Every variable keeps its type: in particular the failure counter stays
\* within its bound and only subscribed components are sent to.
THEOREM TypeCorrect == Spec => []TypeOK
<1>1. Init => TypeOK
  <2> SUFFICES ASSUME Init PROVE TypeOK
    OBVIOUS
  <2>1. <<>> \in Seq(Subs)
    OBVIOUS
  <2>2. bcast \in [Senders -> [msg : ConnState, rest : Seq(Subs)]]
    BY <2>1 DEF Init, Quiet, ConnState
  <2>3. pc \in [Workers -> {"start", "select", "upload", "put", "ops", "pull",
                           "notify", "bcast", "resume", "exit"}]
    BY DEF Init, Workers
  <2>4. failures \in 0..MaxFailures
    BY DEF Init
  <2> QED
    BY <2>1, <2>2, <2>3, <2>4 DEF Init, TypeOK, ConnState
<1>2. TypeOK /\ [Next]_vars => TypeOK'
  <2> SUFFICES ASSUME TypeOK, [Next]_vars PROVE TypeOK'
    OBVIOUS
  <2>1. CASE Monitor
    BY ZenonT(40), <2>1, SendType, ProbeApplyType
    DEF Monitor, ProbeCall, ProbeSend, ProbeReturn, TypeOK, Senders,
        monitorVars, wireVars, probeVars, engineVars, dlVars
  <2>2. CASE Loop \/ \E w \in Workers : Cycle(w)
    BY <2>2 DEF Loop, Cycle, Tick, UploadBegin, UploadEnd, UploadNothing, OpsEnd, PullEnd,
        TypeOK, Workers, monitorVars, wireVars, probeVars, engineVars, dlVars
  <2>3. CASE Watch
    <3>1. CASE WatchStart
      BY <3>1 DEF WatchStart, Subscribe, TypeOK, Workers, monitorVars, wireVars, probeVars, dlVars
    <3>2. CASE WatchReceive
      BY <3>2 DEF WatchReceive, TypeOK, Workers, monitorVars, wireVars, probeVars, dlVars, Empty
    <3>3. CASE NotifyQueueDrained
      <4>1. bcast' \in [Senders -> [msg : ConnState, rest : Seq(Subs)]]
        BY <3>3 DEF NotifyQueueDrained, TypeOK, ConnState
      <4> QED
        BY <3>3, <4>1 DEF NotifyQueueDrained, TypeOK, Workers, ConnState, probeVars, dlVars
    <3>4. CASE DrainSend
      BY <3>4, SendType DEF DrainSend, Senders
    <3>5. CASE Resume
      BY <3>5 DEF Resume, TypeOK, Workers, monitorVars, wireVars, probeVars, dlVars
    <3> QED
      BY <2>2, <2>3, <3>1, <3>2, <3>3, <3>4, <3>5 DEF Watch, Workers
  <2>4. CASE DlWatch
    <3>1. CASE DlWatchStart
      BY <3>1 DEF DlWatchStart, Subscribe, TypeOK, monitorVars, probeVars, engineVars
    <3>3. CASE DlWatchReceive
      <4>1. chan' \in [Subs -> ConnState \cup {Empty}]
        BY <3>3 DEF DlWatchReceive, TypeOK
      <4> QED
        BY <3>3, <4>1 DEF DlWatchReceive, TypeOK, monitorVars, probeVars, engineVars
    <3>2. CASE CancelAllCopy \/ CancelAllReturn \/ \E p \in Paths : CancelAllOne(p)
      BY <3>2 DEF CancelAllCopy, CancelAllReturn, CancelAllOne, TypeOK, monitorVars, wireVars,
          probeVars, engineVars
    <3> QED
      BY <2>4, <3>1, <3>2, <3>3 DEF DlWatch
  <2>5. CASE Read
    BY <2>5 DEF Read, ReadCheck, ReadStart, DownloadEnd, TypeOK,
        monitorVars, wireVars, probeVars, engineVars
  <2>6. CASE Exit
    BY <2>6 DEF Exit, MonitorExit, EngineExit, TypeOK, Workers, monitorVars, wireVars,
        probeVars, engineVars, dlVars
  <2>8. CASE Main \/ EngineStop
    BY <2>8 DEF Main, MonitorStop, Stopped, EngineStop,
        TypeOK, monitorVars, wireVars, probeVars, engineVars, dlVars
  <2>9. CASE LinkFlip
    <3>1. link' \in BOOLEAN
      BY <2>9 DEF LinkFlip
    <3> QED
      BY <2>9, <3>1 DEF LinkFlip, TypeOK, monitorVars, wireVars, probeVars, engineVars, dlVars
  <2>7. CASE UNCHANGED vars
    BY <2>7 DEF vars, TypeOK, monitorVars, wireVars, probeVars, engineVars, dlVars
  <2> QED
    BY <2>1, <2>2, <2>3, <2>4, <2>5, <2>6, <2>7, <2>8, <2>9 DEF Next
<1> QED
  BY <1>1, <1>2, PTL DEF Spec

-----------------------------------------------------------------------------
(* The safety invariants. Each is needed for the next step of the others:  *)
(* an upload reads a live context only outside OFFLINE because the context *)
(* matches the state, and a drain ends in ONLINE within the failure budget *)
(* because RECONNECTING keeps the counter at zero.                         *)

\* The three together.
Safety == CtxMatchesState /\ UploadsCancelledOffline /\ FailureBudget

\* The step of the monitor that changes its state keeps the invariants: the
\* context is cancelled on both ways into OFFLINE, together with the uploads
\* that hold it, and renewed on the only way out.
LEMMA ProbeApplySafe ==
    ASSUME TypeOK, Safety, ProbeApply
    PROVE  Safety'
<1>1. CASE ~probeErr
  BY <1>1 DEF ProbeApply, ProbeSucceeded, Safety, CtxMatchesState, UploadsCancelledOffline,
      FailureBudget, TypeOK, ConnState
<1>2. CASE probeErr
  <2>1. CtxMatchesState'
    BY <1>2 DEF ProbeApply, ProbeFailed, GoOffline, KeepGoing, Safety, CtxMatchesState
  <2>2. UploadsCancelledOffline'
    BY <1>2 DEF ProbeApply, ProbeFailed, GoOffline, KeepGoing, CancelUploads, Safety,
        UploadsCancelledOffline
  <2>3. FailureBudget'
    BY <1>2 DEF ProbeApply, ProbeFailed, GoOffline, KeepGoing, Safety, FailureBudget,
        TypeOK, ConnState
  <2> QED
    BY <2>1, <2>2, <2>3 DEF Safety
<1> QED
  BY <1>1, <1>2

\* Only a probe's verdict, a drain's report and the two ends of an upload touch
\* the monitor or the contexts of uploads.
LEMMA QuietSteps ==
    ASSUME [Next]_vars, ~ProbeApply, ~NotifyQueueDrained,
           ~ \E w \in Workers : UploadBegin(w) \/ UploadEnd(w)
    PROVE  UNCHANGED <<monitorVars, upCtx>>
<1>1. CASE Monitor
  BY <1>1 DEF Monitor, ProbeCall, ProbeSend, Send, ProbeReturn, engineVars, monitorVars
<1>2. CASE Loop
  BY <1>2 DEF Loop, Cycle, Tick, UploadNothing, OpsEnd, PullEnd, Workers, monitorVars
<1>3. CASE Watch
  BY <1>3 DEF Watch, WatchStart, WatchReceive, Cycle, UploadNothing, OpsEnd, DrainSend,
      Send, Resume, Workers, engineVars, monitorVars
<1>4. CASE DlWatch
  BY <1>4 DEF DlWatch, DlWatchStart, DlWatchReceive, CancelAllCopy, CancelAllOne,
      CancelAllReturn, engineVars, monitorVars
<1>5. CASE Read \/ Exit \/ Main \/ EngineStop \/ LinkFlip
  BY <1>5 DEF Read, ReadCheck, ReadStart, DownloadEnd, Exit, MonitorExit, EngineExit, Main,
      MonitorStop, Stopped, EngineStop, LinkFlip, engineVars, monitorVars
<1>6. CASE UNCHANGED vars
  BY <1>6 DEF vars, monitorVars, engineVars
<1> QED
  BY <1>1, <1>2, <1>3, <1>4, <1>5, <1>6 DEF Next

\* No other step of any goroutine breaks them.
LEMMA OtherStepsSafe ==
    ASSUME TypeOK, Safety, [Next]_vars, ~ProbeApply
    PROVE  Safety'
<1> USE DEF Safety, CtxMatchesState, UploadsCancelledOffline, FailureBudget
<1>1. CASE UNCHANGED <<monitorVars, upCtx>>
  BY <1>1 DEF monitorVars
<1>2. ASSUME NEW w \in Workers, UploadBegin(w) PROVE Safety'
  BY <1>2 DEF UploadBegin, monitorVars, TypeOK
<1>3. ASSUME NEW w \in Workers, UploadEnd(w) PROVE Safety'
  BY <1>3 DEF UploadEnd, monitorVars, TypeOK
<1>4. CASE NotifyQueueDrained
  BY <1>4 DEF NotifyQueueDrained, TypeOK, ConnState
<1>5. CASE ~ \E w \in Workers : UploadBegin(w) \/ UploadEnd(w)
  BY <1>1, <1>4, <1>5, QuietSteps
<1> QED
  BY <1>1, <1>2, <1>3, <1>4, <1>5

\* The conjunction is an invariant, by the two lemmas and type correctness.
LEMMA SafetyInvariant == Spec => []Safety
<1>1. Init => Safety
  BY DEF Init, Safety, CtxMatchesState, UploadsCancelledOffline, FailureBudget
<1>2. TypeOK /\ Safety /\ [Next]_vars => Safety'
  BY ProbeApplySafe, OtherStepsSafe
<1> QED
  BY <1>1, <1>2, TypeCorrect, PTL DEF Spec

\* Monitor.Context is cancelled during exactly the OFFLINE periods.
THEOREM ContextFollowsState == Spec => []CtxMatchesState
  BY SafetyInvariant, PTL DEF Safety

\* While OFFLINE no upload runs on a context that is still live.
THEOREM NoUploadOffline == Spec => []UploadsCancelledOffline
  BY SafetyInvariant, PTL DEF Safety

\* ONLINE never holds a spent failure budget; RECONNECTING holds a full one.
THEOREM BudgetKept == Spec => []FailureBudget
  BY SafetyInvariant, PTL DEF Safety
-----------------------------------------------------------------------------
(* The monitor implements the three-state machine of Link. The invariant   *)
(* is needed twice: an upload that begins OFFLINE gets a dead context, and *)
(* it does not take the place of one that was still alive.                 *)

\* The workers whose uploads are not cancelled.
Live == {w \in Workers : upCtx[w] = "live"}

\* A probe's verdict loses the link, finds it back, or changes nothing.
LEMMA ProbeImplements ==
    ASSUME TypeOK, Safety, ProbeApply
    PROVE  LinkView!Lose \/ LinkView!Return \/ UNCHANGED <<state, Live>>
<1>1. CASE probeErr
  <2>1. CASE GoOffline
    <3>1. Live' = {}
      BY <2>1 DEF GoOffline, CancelUploads, Live
    <3>2. state' = "OFFLINE"
      BY <2>1 DEF GoOffline
    <3>3. CASE state = "OFFLINE"
      BY <3>1, <3>2, <3>3 DEF Safety, UploadsCancelledOffline, Live
    <3>4. CASE state # "OFFLINE"
      BY <3>1, <3>2, <3>4 DEF LinkView!Lose, TypeOK, ConnState, Live
    <3> QED
      BY <3>3, <3>4
  <2>2. CASE KeepGoing
    BY <2>2 DEF KeepGoing, Live
  <2> QED
    BY <1>1, <2>1, <2>2 DEF ProbeApply, ProbeFailed
<1>2. CASE ~probeErr
  <2>1. Live' = Live
    BY <1>2 DEF ProbeApply, ProbeSucceeded, Live
  <2>2. \/ state = "OFFLINE" /\ state' = "RECONNECTING"
        \/ state' = state
    BY <1>2 DEF ProbeApply, ProbeSucceeded
  <2> QED
    BY <2>1, <2>2 DEF LinkView!Return, Live
<1> QED
  BY <1>1, <1>2

\* An upload that begins is seen to begin exactly if its context is live.
LEMMA UploadBeginImplements ==
    ASSUME TypeOK, Safety, NEW w \in Workers, UploadBegin(w)
    PROVE  LinkView!Begin(w) \/ UNCHANGED <<state, Live>>
<1>1. state' = state /\ upCtx' = [upCtx EXCEPT ![w] = ctx]
  BY DEF UploadBegin, monitorVars
<1>2. CASE ctx = "live"
  <2>1. Live' = Live \cup {w}
    BY <1>1, <1>2 DEF Live, TypeOK
  <2>2. state # "OFFLINE"
    BY <1>2 DEF Safety, CtxMatchesState
  <2> QED
    BY <1>1, <2>1, <2>2 DEF LinkView!Begin, Live
<1>3. CASE ctx # "live"
  <2>1. upCtx[w] # "live"
    BY <1>3 DEF Safety, CtxMatchesState, UploadsCancelledOffline
  <2>2. Live' = Live
    BY <1>1, <1>3, <2>1 DEF Live, TypeOK
  <2> QED
    BY <1>1, <2>2
<1> QED
  BY <1>2, <1>3

\* An upload that ends is seen to end if OFFLINE had not ended it before.
LEMMA UploadEndImplements ==
    ASSUME TypeOK, NEW w \in Workers, UploadEnd(w)
    PROVE  LinkView!End(w) \/ UNCHANGED <<state, Live>>
<1>1. state' = state /\ upCtx' = [upCtx EXCEPT ![w] = "none"]
  BY DEF UploadEnd, monitorVars
<1>2. Live' = Live \ {w}
  BY <1>1 DEF Live, TypeOK
<1>3. CASE w \in Live
  BY <1>1, <1>2, <1>3 DEF LinkView!End, Live
<1>4. CASE w \notin Live
  BY <1>1, <1>2, <1>4
<1> QED
  BY <1>3, <1>4

\* Every step of the goroutines is a step of Link or leaves it alone.
LEMMA StepImplements ==
    ASSUME TypeOK, Safety, [Next]_vars
    PROVE  [LinkView!Next]_(LinkView!vars)
<1>1. SUFFICES LinkView!Next \/ UNCHANGED <<state, Live>>
  BY DEF LinkView!vars, Live
<1>2. CASE ProbeApply
  BY <1>2, ProbeImplements DEF LinkView!Next
<1>3. ASSUME NEW w \in Workers, UploadBegin(w)
      PROVE  LinkView!Next \/ UNCHANGED <<state, Live>>
  BY <1>3, UploadBeginImplements DEF LinkView!Next
<1>4. ASSUME NEW w \in Workers, UploadEnd(w)
      PROVE  LinkView!Next \/ UNCHANGED <<state, Live>>
  BY <1>4, UploadEndImplements DEF LinkView!Next
<1>5. CASE NotifyQueueDrained
  BY <1>5 DEF NotifyQueueDrained, LinkView!Next, LinkView!Drained, Live
<1>6. CASE UNCHANGED <<monitorVars, upCtx>>
  BY <1>6 DEF monitorVars, Live
<1> QED
  BY <1>2, <1>3, <1>4, <1>5, <1>6, QuietSteps

\* Connectivity implements Link: no interleaving of probes, drains, broadcasts
\* and uploads leaves the three-state machine the monitor documents.
THEOREM ImplementsLink == Spec => LinkImplemented
<1>1. Init => LinkView!Init
  BY DEF Init, LinkView!Init
<1>2. TypeOK /\ Safety /\ [Next]_vars => [LinkView!Next]_(LinkView!vars)
  BY StepImplements
<1> QED
  BY <1>1, <1>2, TypeCorrect, SafetyInvariant, PTL DEF Spec, LinkImplemented, LinkView!Spec
=============================================================================
