---------------------------- MODULE Connectivity ----------------------------
(***************************************************************************)
(* The connectivity monitor (internal/connectivity/monitor.go) together    *)
(* with everything that reacts to it: the two sync-engine goroutines       *)
(* (loop and watchConn of internal/sync/engine.go), the offline watcher of *)
(* the download manager (watchOffline, cancelAll) and the FUSE read path   *)
(* that consults Monitor.State before it starts a download.                *)
(*                                                                         *)
(* Every goroutine is a program counter, and a step is what happens        *)
(* between two points at which another goroutine can run: a critical       *)
(* section of Monitor.mu, one channel operation, one adapter call.         *)
(* Wall-clock intervals are abstracted: a timer that is armed may fire at  *)
(* any later moment.                                                       *)
(***************************************************************************)
EXTENDS Integers, Sequences

CONSTANTS
    Subs,         \* the components that subscribe: "engine", "download"
    Paths,        \* the files that may be downloaded
    Prompt,       \* timing: an idle goroutine runs before the next probe
    Threshold,    \* consecutive probe failures that declare OFFLINE
    MaxFailures   \* bound: the counter failures stops counting here

ASSUME SubsAssumption == Subs \subseteq {"engine", "download"}

ASSUME PromptAssumption == Prompt \in BOOLEAN

ASSUME ThresholdAssumption ==
    /\ Threshold \in Nat \ {0}
    /\ MaxFailures \in Nat
    /\ MaxFailures >= Threshold

VARIABLES
    link,         \* is the remote reachable (environment)
    state,        \* Monitor.state
    failures,     \* Monitor.failures
    ctx,          \* Monitor.ctx: "live" or "cancelled"
    subscribers,  \* Monitor.subscribers, in subscription order
    chan,         \* each subscriber's channel of capacity 1
    bcast,        \* broadcasts in progress, one per goroutine that broadcasts
    probePc,      \* the monitor goroutine
    probeErr,     \* result of the last adapter.Probe
    pc,           \* the engine goroutines
    upCtx,        \* context of the upload an engine goroutine has in flight
    paused,       \* Engine.paused
    dlPc,         \* the download manager's watcher goroutine
    readPc,       \* a FUSE read between its State check and Manager.Start
    downloading,  \* the paths registered in Manager.downloads
    cancelling,   \* the paths cancelAll has copied and not yet cancelled
    mainPc        \* mountRemote: running, stopping the engine, the monitor

monitorVars == <<state, failures, ctx>>
wireVars    == <<subscribers, chan, bcast>>
probeVars   == <<probePc, probeErr>>
engineVars  == <<pc, upCtx, paused>>
dlVars      == <<dlPc, readPc, downloading, cancelling>>
vars == <<link, monitorVars, wireVars, probeVars, engineVars, dlVars, mainPc>>

ConnState == {"ONLINE", "OFFLINE", "RECONNECTING"}
Empty     == "empty"
Workers   == {"loop", "watch"}
Senders   == {"probe", "drain"}
Quiet     == [msg |-> "ONLINE", rest |-> <<>>]

TypeOK ==
    /\ link \in BOOLEAN
    /\ state \in ConnState
    /\ failures \in 0..MaxFailures
    /\ ctx \in {"live", "cancelled"}
    /\ subscribers \in Seq(Subs)
    /\ chan \in [Subs -> ConnState \cup {Empty}]
    /\ bcast \in [Senders -> [msg : ConnState, rest : Seq(Subs)]]
    /\ probePc \in {"wait", "apply", "bcast", "exit"}
    /\ probeErr \in BOOLEAN
    /\ pc \in [Workers -> {"start", "select", "upload", "put", "ops", "pull",
                           "notify", "bcast", "resume", "exit"}]
    /\ upCtx \in [Workers -> {"none", "live", "cancelled"}]
    /\ paused \in BOOLEAN
    /\ dlPc \in {"start", "select", "copy", "cancel"}
    /\ readPc \in {"idle", "start"}
    /\ downloading \in SUBSET Paths
    /\ cancelling \in SUBSET Paths
    /\ mainPc \in {"run", "engine", "monitor", "stopped"}

-----------------------------------------------------------------------------
(* Start-up: mountRemote has created and started the monitor, the download *)
(* manager and the engine; no goroutine has subscribed yet.                *)

Init ==
    /\ link = TRUE
    /\ state = "ONLINE" /\ failures = 0 /\ ctx = "live"
    /\ subscribers = <<>>
    /\ chan = [s \in Subs |-> Empty]
    /\ bcast = [b \in Senders |-> Quiet]
    /\ probePc = "wait" /\ probeErr = FALSE
    /\ pc = [loop |-> "select", watch |-> "start"]
    /\ upCtx = [w \in Workers |-> "none"]
    /\ paused = FALSE
    /\ dlPc = "start" /\ readPc = "idle" /\ downloading = {} /\ cancelling = {}
    /\ mainPc = "run"

-----------------------------------------------------------------------------
(* The monitor.                                                            *)

\* Monitor.Subscribe, called by each watcher goroutine when it first runs.
Subscribe(s) == subscribers' = Append(subscribers, s)

\* No goroutine is runnable in a step that takes no time: a watcher that has
\* yet to subscribe or whose select has a message, a read past its check. The
\* intervals between probes are seconds long, so histories in which these
\* wait for a probe are unlikely; Prompt = TRUE leaves them out.
Settled ==
    /\ "engine" \in Subs => /\ pc["watch"] # "start"
                            /\ pc["watch"] = "select" => chan["engine"] = Empty
    /\ "download" \in Subs => /\ dlPc # "start"
                              /\ dlPc = "select" => chan["download"] = Empty
    /\ readPc = "idle"

\* Mutant: the probe's context derives from Monitor.ctx.
ProbeCallOnCtx ==
    /\ probePc = "wait"
    /\ Prompt => Settled
    /\ probePc' = "apply"
    /\ probeErr' = (~link \/ ctx = "cancelled")
    /\ UNCHANGED <<link, monitorVars, wireVars, engineVars, dlVars, mainPc>>

\* loop -> probe up to the return of adapter.Probe, which no lock covers.
\* The probe's own timeout turns a hanging remote into an error.
ProbeCall ==
    /\ probePc = "wait"
    /\ Prompt => Settled
    /\ probePc' = "apply"
    /\ probeErr' = ~link
    /\ UNCHANGED <<link, monitorVars, wireVars, engineVars, dlVars, mainPc>>

\* Mutant: the upload contexts do not derive from the monitor's.
CancelNothing == upCtx

\* What m.cancel() does to the uploads whose context derives from Monitor.ctx.
CancelUploads == [w \in Workers |->
                    IF upCtx[w] = "live" THEN "cancelled" ELSE upCtx[w]]

\* The transition to OFFLINE, from either of probe's two failing branches.
GoOffline ==
    /\ state' = "OFFLINE"
    /\ ctx' = "cancelled"
    /\ upCtx' = CancelUploads
    /\ bcast' = [bcast EXCEPT !["probe"] =
                    [msg |-> "OFFLINE", rest |-> subscribers]]

KeepGoing == UNCHANGED <<state, ctx, upCtx, bcast>>

\* Mutant: losing the link while draining declares OFFLINE but leaves the
\* context alive.
GoOfflineKeepCtx ==
    /\ state' = "OFFLINE"
    /\ bcast' = [bcast EXCEPT !["probe"] =
                    [msg |-> "OFFLINE", rest |-> subscribers]]
    /\ UNCHANGED <<ctx, upCtx>>

\* Mutant: the RECONNECTING branch forgets m.cancel().
ProbeFailedNoCancel ==
    /\ failures' = IF failures < MaxFailures THEN failures + 1 ELSE failures
    /\ \/ state = "ONLINE" /\ failures + 1 >= Threshold /\ GoOffline
       \/ state = "RECONNECTING" /\ GoOfflineKeepCtx
       \/ state = "ONLINE" /\ failures + 1 < Threshold /\ KeepGoing
       \/ state = "OFFLINE" /\ KeepGoing

\* The failing half of probe, under Monitor.mu.
ProbeFailed ==
    /\ failures' = IF failures < MaxFailures THEN failures + 1 ELSE failures
    /\ \/ state = "ONLINE" /\ failures + 1 >= Threshold /\ GoOffline
       \/ state = "RECONNECTING" /\ GoOffline
       \/ state = "ONLINE" /\ failures + 1 < Threshold /\ KeepGoing
       \/ state = "OFFLINE" /\ KeepGoing

\* Mutants: a success does not reset the failures, or takes back only one.
ProbeSucceededNoReset ==
    /\ UNCHANGED <<failures, upCtx>>
    /\ \/ /\ state = "OFFLINE"
          /\ state' = "RECONNECTING"
          /\ ctx' = "live"
          /\ bcast' = [bcast EXCEPT !["probe"] =
                          [msg |-> "RECONNECTING", rest |-> subscribers]]
       \/ state # "OFFLINE" /\ UNCHANGED <<state, ctx, bcast>>

ProbeSucceededDecrement ==
    /\ failures' = failures - 1
    /\ UNCHANGED <<state, ctx, bcast, upCtx>>

\* The succeeding half of probe, under Monitor.mu.
ProbeSucceeded ==
    /\ failures' = 0
    /\ UNCHANGED upCtx
    /\ \/ /\ state = "OFFLINE"
          /\ state' = "RECONNECTING"
          /\ ctx' = "live"
          /\ bcast' = [bcast EXCEPT !["probe"] =
                          [msg |-> "RECONNECTING", rest |-> subscribers]]
       \/ state # "OFFLINE" /\ UNCHANGED <<state, ctx, bcast>>

ProbeApply ==
    /\ probePc = "apply"
    /\ probePc' = "bcast"
    /\ IF probeErr THEN ProbeFailed ELSE ProbeSucceeded
    /\ probeErr' = FALSE
    /\ UNCHANGED <<link, subscribers, chan, pc, paused, dlVars, mainPc>>

\* What is left of a broadcast once its first subscriber is served.
AfterSend(bc) == IF Tail(bc.rest) = <<>> THEN Quiet
                 ELSE [msg |-> bc.msg, rest |-> Tail(bc.rest)]

\* Mutant: a blocking send, which waits for room in the buffer.
SendBlocking(b) ==
    /\ bcast[b].rest # <<>>
    /\ chan[Head(bcast[b].rest)] = Empty
    /\ chan' = [chan EXCEPT ![Head(bcast[b].rest)] = bcast[b].msg]
    /\ bcast' = [bcast EXCEPT ![b] = AfterSend(bcast[b])]
    /\ UNCHANGED <<link, monitorVars, subscribers, probeVars, engineVars, dlVars, mainPc>>

\* One non-blocking send of broadcast: dropped when the buffer is full.
Send(b) ==
    /\ bcast[b].rest # <<>>
    /\ chan' = [chan EXCEPT ![Head(bcast[b].rest)] =
                    IF @ = Empty THEN bcast[b].msg ELSE @]
    /\ bcast' = [bcast EXCEPT ![b] = AfterSend(bcast[b])]
    /\ UNCHANGED <<link, monitorVars, subscribers, probeVars, engineVars, dlVars, mainPc>>

ProbeSend == Send("probe")

\* probe returns and loop rearms its timer.
ProbeReturn ==
    /\ probePc = "bcast" /\ bcast["probe"].rest = <<>>
    /\ probePc' = "wait"
    /\ UNCHANGED <<link, monitorVars, wireVars, probeErr, engineVars, dlVars, mainPc>>

\* loop selects stopCh, which Monitor.Stop closed.
MonitorExit ==
    /\ probePc = "wait" /\ mainPc = "monitor"
    /\ probePc' = "exit"
    /\ UNCHANGED <<link, monitorVars, wireVars, probeErr, engineVars, dlVars, mainPc>>

-----------------------------------------------------------------------------
(* The sync engine's two goroutines.                                       *)

\* loop receives a tick: it starts a cycle unless paused.
Tick ==
    /\ pc["loop"] = "select"
    /\ ~paused
    /\ pc' = [pc EXCEPT !["loop"] = "upload"]
    /\ UNCHANGED <<link, monitorVars, wireVars, probeVars, upCtx, paused, dlVars, mainPc>>

\* watchConn subscribes before its first select.
WatchStart ==
    /\ pc["watch"] = "start" /\ "engine" \in Subs
    /\ Subscribe("engine")
    /\ pc' = [pc EXCEPT !["watch"] = "select"]
    /\ UNCHANGED <<link, monitorVars, chan, bcast, probeVars, upCtx, paused, dlVars, mainPc>>

\* watchConn receives a state: OFFLINE pauses the loop, RECONNECTING starts
\* the drain, ONLINE is ignored.
WatchReceive ==
    /\ pc["watch"] = "select" /\ chan["engine"] # Empty
    /\ chan' = [chan EXCEPT !["engine"] = Empty]
    /\ paused' = (paused \/ chan["engine"] = "OFFLINE")
    /\ pc' = [pc EXCEPT !["watch"] =
                IF chan["engine"] = "RECONNECTING" THEN "upload" ELSE "select"]
    /\ UNCHANGED <<link, monitorVars, subscribers, bcast, probeVars, upCtx, dlVars, mainPc>>

\* uploadDirty finds a dirty file: uploadFile derives the upload's context
\* from Monitor.Context and calls adapter.Put.
UploadBegin(w) ==
    /\ pc[w] = "upload"
    /\ pc' = [pc EXCEPT ![w] = "put"]
    /\ upCtx' = [upCtx EXCEPT ![w] = ctx]
    /\ UNCHANGED <<link, monitorVars, wireVars, probeVars, paused, dlVars, mainPc>>

\* adapter.Put returns, and uploadFile drops the context.
UploadEnd(w) ==
    /\ pc[w] = "put"
    /\ pc' = [pc EXCEPT ![w] = "ops"]
    /\ upCtx' = [upCtx EXCEPT ![w] = "none"]
    /\ UNCHANGED <<link, monitorVars, wireVars, probeVars, paused, dlVars, mainPc>>

\* uploadDirty finds nothing (left) to upload.
UploadNothing(w) ==
    /\ pc[w] = "upload"
    /\ pc' = [pc EXCEPT ![w] = "ops"]
    /\ UNCHANGED <<link, monitorVars, wireVars, probeVars, upCtx, paused, dlVars, mainPc>>

\* processPendingOps returns: the loop pulls, the watcher reports the drain.
OpsEnd(w) ==
    /\ pc[w] = "ops"
    /\ pc' = [pc EXCEPT ![w] = IF w = "loop" THEN "pull" ELSE "notify"]
    /\ UNCHANGED <<link, monitorVars, wireVars, probeVars, upCtx, paused, dlVars, mainPc>>

\* pull returns and the loop is back at its select.
PullEnd ==
    /\ pc["loop"] = "pull"
    /\ pc' = [pc EXCEPT !["loop"] = "select"]
    /\ UNCHANGED <<link, monitorVars, wireVars, probeVars, upCtx, paused, dlVars, mainPc>>

\* NotifyQueueDrained up to its broadcast.
NotifyQueueDrained ==
    /\ pc["watch"] = "notify"
    /\ pc' = [pc EXCEPT !["watch"] = "bcast"]
    /\ \/ /\ state = "RECONNECTING"
          /\ state' = "ONLINE"
          /\ bcast' = [bcast EXCEPT !["drain"] =
                          [msg |-> "ONLINE", rest |-> subscribers]]
       \/ state # "RECONNECTING" /\ UNCHANGED <<state, bcast>>
    /\ UNCHANGED <<link, failures, ctx, subscribers, chan, probeVars, upCtx, paused,
                   dlVars, mainPc>>

DrainSend == Send("drain")

\* NotifyQueueDrained has returned: paused.Store(false).
Resume ==
    /\ pc["watch"] = "bcast" /\ bcast["drain"].rest = <<>>
    /\ pc' = [pc EXCEPT !["watch"] = "select"]
    /\ paused' = FALSE
    /\ UNCHANGED <<link, monitorVars, wireVars, probeVars, upCtx, dlVars, mainPc>>

\* A goroutine of the engine selects stopCh, which Engine.Stop closed.
EngineExit(w) ==
    /\ pc[w] = "select" /\ mainPc = "engine"
    /\ pc' = [pc EXCEPT ![w] = "exit"]
    /\ UNCHANGED <<link, monitorVars, wireVars, probeVars, upCtx, paused, dlVars, mainPc>>

-----------------------------------------------------------------------------
(* The download manager and the reads that start downloads.                *)

\* watchOffline subscribes before its first select.
DlWatchStart ==
    /\ dlPc = "start" /\ "download" \in Subs
    /\ Subscribe("download")
    /\ dlPc' = "select"
    /\ UNCHANGED <<link, monitorVars, chan, bcast, probeVars, engineVars, readPc,
                   downloading, cancelling, mainPc>>

\* watchOffline receives a state; only OFFLINE makes it call cancelAll.
DlWatchReceive ==
    /\ dlPc = "select" /\ chan["download"] # Empty
    /\ chan' = [chan EXCEPT !["download"] = Empty]
    /\ dlPc' = IF chan["download"] = "OFFLINE" THEN "copy" ELSE "select"
    /\ UNCHANGED <<link, monitorVars, subscribers, bcast, probeVars, engineVars, readPc,
                   downloading, cancelling, mainPc>>

\* cancelAll copies the registered paths under Manager.mu.
CancelAllCopy ==
    /\ dlPc = "copy"
    /\ dlPc' = "cancel"
    /\ cancelling' = downloading
    /\ UNCHANGED <<link, monitorVars, wireVars, probeVars, engineVars, readPc,
                   downloading, mainPc>>

\* cancelAll cancels one of the copied paths; Cancel waits for the download's
\* lock and writes its ranges to the database.
CancelAllOne(p) ==
    /\ dlPc = "cancel" /\ p \in cancelling
    /\ cancelling' = cancelling \ {p}
    /\ downloading' = downloading \ {p}
    /\ UNCHANGED <<link, monitorVars, wireVars, probeVars, engineVars, dlPc, readPc, mainPc>>

\* cancelAll returns.
CancelAllReturn ==
    /\ dlPc = "cancel" /\ cancelling = {}
    /\ dlPc' = "select"
    /\ UNCHANGED <<link, monitorVars, wireVars, probeVars, engineVars, readPc,
                   downloading, cancelling, mainPc>>

\* ensureStarted reads Monitor.State; OFFLINE fails the read with ENOENT.
ReadCheck ==
    /\ readPc = "idle" /\ "download" \in Subs
    /\ state # "OFFLINE"
    /\ readPc' = "start"
    /\ UNCHANGED <<link, monitorVars, wireVars, probeVars, engineVars, dlPc, downloading,
                   cancelling, mainPc>>

\* ensureStarted calls Manager.Start, which consults no monitor.
ReadStart(p) ==
    /\ readPc = "start"
    /\ readPc' = "idle"
    /\ downloading' = downloading \cup {p}
    /\ UNCHANGED <<link, monitorVars, wireVars, probeVars, engineVars, dlPc, cancelling, mainPc>>

\* The download finishes or fails by itself.
DownloadEnd(p) ==
    /\ p \in downloading
    /\ downloading' = downloading \ {p}
    /\ UNCHANGED <<link, monitorVars, wireVars, probeVars, engineVars, dlPc, readPc,
                   cancelling, mainPc>>

-----------------------------------------------------------------------------
(* The mount process and the network.                                      *)

\* The mount is gone: server.Wait returns and Engine.Stop closes stopCh.
EngineStop ==
    /\ mainPc = "run"
    /\ mainPc' = "engine"
    /\ UNCHANGED <<link, monitorVars, wireVars, probeVars, engineVars, dlVars>>

\* Engine.Stop returns; the deferred Monitor.Stop closes its stopCh.
MonitorStop ==
    /\ mainPc = "engine"
    /\ \A w \in Workers : pc[w] = "exit"
    /\ mainPc' = "monitor"
    /\ UNCHANGED <<link, monitorVars, wireVars, probeVars, engineVars, dlVars>>

\* Monitor.Stop returns.
Stopped ==
    /\ mainPc = "monitor" /\ probePc = "exit"
    /\ mainPc' = "stopped"
    /\ UNCHANGED <<link, monitorVars, wireVars, probeVars, engineVars, dlVars>>

\* The network comes and goes.
LinkFlip ==
    /\ link' = ~link
    /\ UNCHANGED <<monitorVars, wireVars, probeVars, engineVars, dlVars, mainPc>>

-----------------------------------------------------------------------------
Monitor == ProbeCall \/ ProbeApply \/ ProbeSend \/ ProbeReturn
Cycle(w) == UploadBegin(w) \/ UploadEnd(w) \/ UploadNothing(w) \/ OpsEnd(w)
Loop == Tick \/ Cycle("loop") \/ PullEnd
Watch == WatchStart \/ WatchReceive \/ Cycle("watch") \/ NotifyQueueDrained
         \/ DrainSend \/ Resume
DlWatch == DlWatchStart \/ DlWatchReceive \/ CancelAllCopy \/ CancelAllReturn
           \/ \E p \in Paths : CancelAllOne(p)
Read == ReadCheck \/ \E p \in Paths : ReadStart(p) \/ DownloadEnd(p)
Exit == MonitorExit \/ \E w \in Workers : EngineExit(w)
Main == MonitorStop \/ Stopped

Next == Monitor \/ Loop \/ Watch \/ DlWatch \/ Read \/ Exit \/ Main
        \/ EngineStop \/ LinkFlip

\* Go runs every goroutine that can run, timers fire, adapter calls return
\* (they carry a timeout or a cancellable context), and select, choosing at
\* random among its ready cases, takes a case that is ready again and again.
\* Nothing forces the user to unmount, to read, or the network to change.
Fairness ==
    /\ WF_vars(Monitor)
    /\ WF_vars(Loop)
    /\ WF_vars(Watch)
    /\ WF_vars(DlWatch)
    /\ WF_vars(Main)
    /\ SF_vars(MonitorExit)
    /\ \A w \in Workers : SF_vars(EngineExit(w))

Spec == Init /\ [][Next]_vars /\ Fairness

-----------------------------------------------------------------------------
(* Safety.                                                                 *)

\* The context handed to uploads is cancelled during exactly the OFFLINE
\* periods, whichever of probe's branches opened or closed the period
\* (monitor.go: Context, probe).
CtxMatchesState == (ctx = "live") <=> (state # "OFFLINE")

\* While OFFLINE no upload runs on a live context, also not one that read the
\* context before the transition or that a drain started (engine.go:
\* monitorCtx, uploadFile).
UploadsCancelledOffline ==
    state = "OFFLINE" => \A w \in Workers : upCtx[w] # "live"

\* The failure counter never reaches the threshold while ONLINE, and is zero
\* throughout RECONNECTING, so a drain that reports ONLINE grants the link the
\* full budget of failures again (monitor.go: probe, NotifyQueueDrained).
FailureBudget ==
    /\ state = "ONLINE" => failures < Threshold
    /\ state = "RECONNECTING" => failures = 0

\* The monitor as its users see it: an upload is running while the context it
\* holds is live.
LinkView == INSTANCE Link WITH running <- {w \in Workers : upCtx[w] = "live"}

\* Every step of the goroutines is a step of the three-state machine that the
\* comment on type Monitor promises, or leaves it alone; in particular uploads
\* lose their context in the very step that turns OFFLINE.
LinkImplemented == LinkView!Spec

-----------------------------------------------------------------------------
(* Liveness.                                                               *)

Running == [](mainPc = "run")

\* A link that stays down is reported OFFLINE for good, whatever the two
\* broadcasters, the slow subscribers and a drain in flight do.
DeadLinkReported == (Running /\ <>[]~link) => <>[](state = "OFFLINE")

\* A link that stays up ends the OFFLINE period for good.
LinkRecovery == (Running /\ <>[]link) => <>[](state # "OFFLINE")

\* Unmounting ends: both engine goroutines and then the monitor reach their
\* select and exit, from any state of drain, broadcast or pause.
StopReturns == (mainPc = "engine") ~> (mainPc = "stopped")

\* The promise of the README: the engine pauses and resumes automatically
\* when connectivity is restored. With the link up for good, the loop starts
\* sync cycles again and again.
EngineResumes == (Running /\ <>[]link) => []<>(pc["loop"] = "upload")
=============================================================================
