---------------------------- MODULE StreamThreads ----------------------------
(***************************************************************************)
(* The processing threads of one stream worker (visionai/worker.py and     *)
(* visionai/__main__.py).  One thread pulls and analyses one stream.  The  *)
(* threads share three tables guarded by threads_lock: active_threads (the *)
(* slot of a stream), stream_epoch and stream_progress.  Three more        *)
(* threads work on the same tables: the boot loop and the checker, which   *)
(* start threads, and the watchdog, which takes the slot of a stalled one. *)
(*                                                                         *)
(* A step holds at most one critical section of threads_lock, or one       *)
(* access to Redis (stream configuration, stream status); what a thread    *)
(* computes on its own between two of those is part of the next step.      *)
(*                                                                         *)
(* Bounds: the pool Threads (Python starts as many as it likes) and the    *)
(* budget (how many hangs, exceptions, camera outages and edits of the     *)
(* configuration a behaviour may hold).                                    *)
(***************************************************************************)
EXTENDS Integers, FiniteSets

CONSTANTS
  Streams,          \* the thread keys: stream ids of the configuration
  Gb,               \* the streams played over GB/T 28181
  Threads,          \* identities of processing threads
  MaxReadFailures,  \* max_read_failures
  MaxDisturbances,  \* bound on hangs, exceptions, outages and edits
  LeaseEnabled,     \* STREAM_LEASE_ENABLED
  NoStream          \* no stream at all

ASSUME StreamThreadsAssumption ==
  /\ Gb \subseteq Streams
  /\ NoStream \notin Streams
  /\ MaxReadFailures \in Nat \ {0}
  /\ MaxDisturbances \in Nat
  /\ LeaseEnabled \in BOOLEAN

VARIABLES
  cfg,              \* the stream's row in Redis
  up,               \* the camera answers
  budget,           \* how many disturbances are left
  active_threads,   \* the streams that have a slot
  stream_epoch,
  stream_progress,  \* age of the last progress stamp against the watchdog limit
  stream_status,    \* the row of stream_runtime_status
  boot,             \* streams worker.main has still to look at
  seen,             \* the rows as the boot loop or the checker read them last
  checker,          \* where check_offline_with_lease is, and with which stream
  todo,             \* the rest of the checker's snapshot of enabled streams
  stale,            \* the rest of the watchdog's list of stalled streams
  marked,           \* the stalled stream already written OFFLINE
  pc, stream, my_epoch, other_on, read_failure_count,
  hung              \* the call the thread is in does not return

envVars    == <<cfg, up, budget>>
tableVars  == <<active_threads, stream_epoch, stream_progress>>
checkVars  == <<boot, seen, checker, todo>>
dogVars    == <<stale, marked>>
threadVars == <<pc, stream, my_epoch, other_on, read_failure_count, hung>>
vars == <<envVars, tableVars, stream_status, checkVars, dogVars, threadVars>>

-----------------------------------------------------------------------------
(* "detect": analysed, some detection type besides fatigue is on; "pull":  *)
(* analysed, none is; "idle": paused or not analysed; "deleted": no row.   *)
Configs == {"detect", "pull", "idle", "deleted"}

stream_should_analyze(c) == c \in {"detect", "pull"}

(* The program counter of a processing thread; Working is the main loop.   *)
Working == {"top", "entered", "frame", "reconnect", "got", "reinvite", "beaten", "detect"}
Started == Working \cup {"open"}
Stages  == Started \cup {"free", "spawned", "bump", "finally", "offline"}

(* The calls that leave the process and may not come back: RTSP connect and *)
(* model loading, frame decoding, inference.                               *)
MayHang == {"open", "entered", "frame", "reconnect", "reinvite", "detect"}

Registered(t) == pc[t] \in Started \cup {"bump", "finally"}
Holder(t)     == my_epoch[t] = stream_epoch[stream[t]]

At(t, where) == pc[t] = where /\ ~hung[t]
Goto(t, where) == pc' = [pc EXCEPT ![t] = where]
SetStatus(s, v) == stream_status' = [stream_status EXCEPT ![s] = v]
localVars == <<stream, my_epoch, other_on, read_failure_count, hung>>

Init ==
  /\ cfg \in [Streams -> {"detect", "pull", "idle"}]
  /\ up = [s \in Streams |-> TRUE]
  /\ budget = MaxDisturbances
  /\ active_threads = {}
  /\ stream_epoch = [s \in Streams |-> 0]
  /\ stream_progress = [s \in Streams |-> "none"]
  /\ stream_status = [s \in Streams |-> "offline"]
  /\ boot = Streams /\ seen = cfg
  /\ checker = [at |-> "wait", on |-> NoStream] /\ todo = {}
  /\ stale = {} /\ marked = NoStream
  /\ pc = [t \in Threads |-> "free"]
  /\ stream = [t \in Threads |-> NoStream]
  /\ my_epoch = [t \in Threads |-> 0]
  /\ other_on = [t \in Threads |-> FALSE]
  /\ read_failure_count = [t \in Threads |-> 0]
  /\ hung = [t \in Threads |-> FALSE]

-----------------------------------------------------------------------------
(* The world around the worker.                                            *)

\* The operator saves the stream's row with other switches.
Edit(s) ==
  /\ budget > 0 /\ cfg[s] # "deleted"
  /\ budget' = budget - 1
  /\ \E c \in Configs \ {cfg[s], "deleted"} : cfg' = [cfg EXCEPT ![s] = c]
  /\ UNCHANGED <<up, tableVars, stream_status, checkVars, dogVars, threadVars>>

\* The operator deletes the stream: the row goes, the proxy of the media server
\* too (a stream pulled straight from the camera stays reachable), and the
\* status is written offline.
Delete(s) ==
  /\ budget > 0 /\ cfg[s] # "deleted"
  /\ budget' = budget - 1
  /\ cfg' = [cfg EXCEPT ![s] = "deleted"]
  /\ \E proxied \in BOOLEAN : up' = [up EXCEPT ![s] = @ /\ ~proxied]
  /\ SetStatus(s, "offline")
  /\ UNCHANGED <<tableVars, checkVars, dogVars, threadVars>>

CameraDown(s) ==
  /\ budget > 0 /\ up[s]
  /\ budget' = budget - 1
  /\ up' = [up EXCEPT ![s] = FALSE]
  /\ UNCHANGED <<cfg, tableVars, stream_status, checkVars, dogVars, threadVars>>

CameraUp(s) ==
  /\ ~up[s]
  /\ up' = [up EXCEPT ![s] = TRUE]
  /\ UNCHANGED <<cfg, budget, tableVars, stream_status, checkVars, dogVars, threadVars>>

Hang(t) ==
  /\ budget > 0 /\ pc[t] \in MayHang /\ ~hung[t]
  /\ budget' = budget - 1
  /\ hung' = [hung EXCEPT ![t] = TRUE]
  /\ UNCHANGED <<cfg, up, tableVars, stream_status, checkVars, dogVars,
                 pc, stream, my_epoch, other_on, read_failure_count>>

\* The call comes back after all: nothing promises that it does.
Unhang(t) ==
  /\ hung[t]
  /\ hung' = [hung EXCEPT ![t] = FALSE]
  /\ UNCHANGED <<envVars, tableVars, stream_status, checkVars, dogVars,
                 pc, stream, my_epoch, other_on, read_failure_count>>

\* STREAM_WATCHDOG_SEC pass without a new stamp: every thread that could
\* stamp the progress of s hangs.
ProgressAges(s) ==
  LET holders == {t \in Threads : stream[t] = s /\ Registered(t) /\ Holder(t)} IN
  /\ stream_progress[s] = "fresh"
  /\ holders # {} /\ \A t \in holders : hung[t]
  /\ stream_progress' = [stream_progress EXCEPT ![s] = "stale"]
  /\ UNCHANGED <<envVars, active_threads, stream_epoch, stream_status, checkVars,
                 dogVars, threadVars>>

-----------------------------------------------------------------------------
(* Starting a thread.  Thread.start returns before the thread has run its  *)
(* first lines, so the slot is not yet taken.                              *)
StartThread(s) ==
  \E t \in Threads :
    /\ pc[t] = "free"
    /\ Goto(t, "spawned")
    /\ stream' = [stream EXCEPT ![t] = s]
    /\ other_on' = [other_on EXCEPT ![t] = seen[s] = "detect"]
    /\ UNCHANGED <<my_epoch, read_failure_count, hung>>

\* _lease_gate: with leases on, other workers decide what it answers.
LeaseGate == IF LeaseEnabled THEN BOOLEAN ELSE {TRUE}

\* worker.main: one stream of the loop that starts the first threads.
BootStart(s) ==
  /\ s \in boot
  /\ boot' = boot \ {s}
  /\ \/ /\ ~stream_should_analyze(seen[s]) \/ FALSE \in LeaseGate
        /\ UNCHANGED threadVars
     \/ stream_should_analyze(seen[s]) /\ StartThread(s)
  /\ UNCHANGED <<envVars, tableVars, stream_status, seen, checker, todo, dogVars>>

-----------------------------------------------------------------------------
(* check_offline_with_lease: one thread, one stream at a time.             *)
CheckerAt(where, s) == checker = [at |-> where, on |-> s]
CheckerNext(s) ==
  /\ checker' = [at |-> IF todo \ {s} = {} THEN "wait" ELSE "look", on |-> NoStream]
  /\ todo' = todo \ {s}
CheckerGoto(where, s) == checker' = [at |-> where, on |-> s] /\ UNCHANGED todo

\* A round: the snapshot of the enabled streams, taken once.
CheckRound ==
  /\ boot = {} /\ CheckerAt("wait", NoStream)
  /\ seen' = cfg
  /\ todo' = {s \in Streams : stream_should_analyze(cfg[s])}
  /\ checker' = [at |-> IF todo' = {} THEN "wait" ELSE "look", on |-> NoStream]
  /\ UNCHANGED <<envVars, tableVars, stream_status, boot, dogVars, threadVars>>

\* First look under the lock.  The answer of the lease gate counts only for
\* a stream without a slot; for one that runs here it is thrown away.
CheckLook(s) ==
  /\ CheckerAt("look", NoStream) /\ s \in todo
  /\ \/ s \in active_threads /\ CheckerNext(s)
     \/ s \notin active_threads /\ FALSE \in LeaseGate /\ CheckerNext(s)
     \/ s \notin active_threads /\ CheckerGoto("prepare", s)
  /\ UNCHANGED <<envVars, tableVars, stream_status, boot, seen, dogVars, threadVars>>

\* The probe: a GB/T 28181 play for a GB stream, an RTSP connect for another.
CheckPrepare(s) ==
  /\ CheckerAt("prepare", s)
  /\ IF up[s]
     THEN CheckerGoto("recheck", s) /\ UNCHANGED stream_status
     ELSE /\ CheckerNext(s)
          /\ IF s \in Gb THEN SetStatus(s, "offline") ELSE UNCHANGED stream_status
  /\ UNCHANGED <<envVars, tableVars, boot, seen, dogVars, threadVars>>

\* Second look under the lock, after the slow probe.
CheckAgain(s) ==
  /\ CheckerAt("recheck", s)
  /\ IF s \in active_threads THEN CheckerNext(s) ELSE CheckerGoto("start", s)
  /\ UNCHANGED <<envVars, tableVars, stream_status, boot, seen, dogVars, threadVars>>

CheckStart(s) ==
  /\ CheckerAt("start", s)
  /\ IF s \in Gb THEN UNCHANGED stream_status ELSE SetStatus(s, "online")
  /\ StartThread(s)
  /\ CheckerNext(s)
  /\ UNCHANGED <<envVars, tableVars, boot, seen, dogVars>>

\* check_disabled_stream_status: probes the streams that are not analysed.
ProbeIdle(s) ==
  /\ boot = {} /\ cfg[s] = "idle" /\ s \notin Gb
  /\ SetStatus(s, IF up[s] THEN "online" ELSE "offline")
  /\ UNCHANGED <<envVars, tableVars, checkVars, dogVars, threadVars>>

-----------------------------------------------------------------------------
(* run_stream_watchdog and bump_stream_epoch.                              *)
\* Mutant: the slot is not released.
BumpKeepsSlot(s) ==
  /\ stream_epoch' = [stream_epoch EXCEPT ![s] = @ + 1]
  /\ stream_progress' = [stream_progress EXCEPT ![s] = "none"]
  /\ UNCHANGED active_threads

bump_stream_epoch(s) ==
  /\ stream_epoch' = [stream_epoch EXCEPT ![s] = @ + 1]
  /\ active_threads' = active_threads \ {s}
  /\ stream_progress' = [stream_progress EXCEPT ![s] = "none"]

WatchdogScan ==
  /\ boot = {} /\ stale = {} /\ marked = NoStream
  /\ stale' = {s \in active_threads : stream_progress[s] = "stale"}
  /\ stale' # {}
  /\ UNCHANGED <<envVars, tableVars, stream_status, checkVars, marked, threadVars>>

WatchdogMark(s) ==
  /\ s \in stale /\ marked = NoStream
  /\ SetStatus(s, "offline")
  /\ marked' = s
  /\ UNCHANGED <<envVars, tableVars, checkVars, stale, threadVars>>

WatchdogBump(s) ==
  /\ marked = s
  /\ bump_stream_epoch(s)
  /\ marked' = NoStream /\ stale' = stale \ {s}
  /\ UNCHANGED <<envVars, stream_status, checkVars, threadVars>>

-----------------------------------------------------------------------------
(* run_video_processing.                                                   *)
\* Mutant: the first stamp is left to the main loop.
RegisterWithoutStamp(t) ==
  /\ At(t, "spawned")
  /\ my_epoch' = [my_epoch EXCEPT ![t] = stream_epoch[stream[t]]]
  /\ active_threads' = active_threads \cup {stream[t]}
  /\ Goto(t, "open")
  /\ UNCHANGED <<envVars, stream_epoch, stream_progress, stream_status, checkVars,
                 dogVars, stream, other_on, read_failure_count, hung>>

Register(t) ==
  LET s == stream[t] IN
  /\ At(t, "spawned")
  /\ my_epoch' = [my_epoch EXCEPT ![t] = stream_epoch[s]]
  /\ active_threads' = active_threads \cup {s}
  /\ stream_progress' = [stream_progress EXCEPT ![s] = "fresh"]
  /\ Goto(t, "open")
  /\ UNCHANGED <<envVars, stream_epoch, stream_status, checkVars, dogVars,
                 stream, other_on, read_failure_count, hung>>

\* _open_stream_handler, the first status of the run, the models, the second
\* status.
Open(t) ==
  LET s == stream[t] IN
  /\ At(t, "open")
  /\ SetStatus(s, IF up[s] THEN "online" ELSE "offline")
  /\ Goto(t, IF up[s] THEN "top" ELSE "finally")
  /\ UNCHANGED <<envVars, tableVars, checkVars, dogVars, localVars>>

\* The head of the loop: leave if the epoch moved on, else stamp progress.
\* A pass ends after the frame ("got") or after the heartbeat ("beaten").
LoopTop(t) ==
  LET s == stream[t] IN
  /\ At(t, "top") \/ At(t, "got") \/ At(t, "beaten")
  /\ IF Holder(t)
     THEN /\ stream_progress' = [stream_progress EXCEPT ![s] = "fresh"]
          /\ Goto(t, "entered")
     ELSE Goto(t, "finally") /\ UNCHANGED stream_progress
  /\ UNCHANGED <<envVars, active_threads, stream_epoch, stream_status, checkVars,
                 dogVars, stream, my_epoch, other_on, read_failure_count, hung>>

\* Mutant: a paused stream is refreshed like any other.
RefreshIgnoresPause(t) ==
  /\ At(t, "entered")
  /\ Goto(t, "frame")
  /\ other_on' = [other_on EXCEPT ![t] = cfg[stream[t]] = "detect"]
  /\ UNCHANGED <<envVars, tableVars, stream_status, checkVars, dogVars,
                 stream, my_epoch, read_failure_count, hung>>

\* Every 2 s the row is read again.  A missing row changes nothing here.
Refresh(t) ==
  LET c == cfg[stream[t]] IN
  /\ At(t, "entered")
  /\ Goto(t, IF c = "idle" THEN "finally" ELSE "frame")
  /\ other_on' = [other_on EXCEPT ![t] = IF stream_should_analyze(c) THEN c = "detect" ELSE @]
  /\ UNCHANGED <<envVars, tableVars, stream_status, checkVars, dogVars,
                 stream, my_epoch, read_failure_count, hung>>

\* Mutant: one failure too many before the reconnect.
ReadFrameOffByOne(t) ==
  LET s == stream[t]
      n == read_failure_count[t] + 1 IN
  /\ At(t, "entered") \/ At(t, "frame")
  /\ read_failure_count' = [read_failure_count EXCEPT ![t] = IF up[s] THEN 0 ELSE n]
  /\ Goto(t, IF up[s] THEN "got" ELSE IF n <= MaxReadFailures THEN "top" ELSE "reconnect")
  /\ UNCHANGED <<envVars, tableVars, stream_status, checkVars, dogVars,
                 stream, my_epoch, other_on, hung>>

ReadFrame(t) ==
  LET s == stream[t]
      n == read_failure_count[t] + 1 IN
  /\ At(t, "entered") \/ At(t, "frame")
  /\ read_failure_count' = [read_failure_count EXCEPT ![t] = IF up[s] THEN 0 ELSE n]
  /\ Goto(t, IF up[s] THEN "got" ELSE IF n < MaxReadFailures THEN "top" ELSE "reconnect")
  /\ UNCHANGED <<envVars, tableVars, stream_status, checkVars, dogVars,
                 stream, my_epoch, other_on, hung>>

\* Reconnect (for a GB stream: play again, then once more by force).
Reconnect(t) ==
  LET s == stream[t] IN
  /\ At(t, "reconnect")
  /\ SetStatus(s, IF up[s] THEN "online" ELSE "offline")
  /\ read_failure_count' = [read_failure_count EXCEPT ![t] = IF up[s] THEN 0 ELSE @]
  /\ Goto(t, IF up[s] THEN "top" ELSE "finally")
  /\ UNCHANGED <<envVars, tableVars, checkVars, dogVars,
                 stream, my_epoch, other_on, hung>>

\* Every 8 s: a GB stream whose RTP has no bitrate is written OFFLINE and
\* played again; if that fails the thread ends.
GbDead(t) ==
  LET s == stream[t] IN
  /\ At(t, "got") /\ s \in Gb /\ ~up[s]
  /\ SetStatus(s, "offline")
  /\ Goto(t, "reinvite")
  /\ UNCHANGED <<envVars, tableVars, checkVars, dogVars, localVars>>

Reinvite(t) ==
  LET s == stream[t] IN
  /\ At(t, "reinvite")
  /\ IF up[s] THEN SetStatus(s, "online") ELSE UNCHANGED stream_status
  /\ Goto(t, IF up[s] THEN "got" ELSE "finally")
  /\ UNCHANGED <<envVars, tableVars, checkVars, dogVars, localVars>>

\* Mutant: the heartbeat only repeats an OFFLINE.
HeartbeatSilent(t) ==
  /\ At(t, "got")
  /\ IF stream[t] \in Gb /\ ~up[stream[t]]
     THEN SetStatus(stream[t], "offline") ELSE UNCHANGED stream_status
  /\ Goto(t, "beaten")
  /\ UNCHANGED <<envVars, tableVars, checkVars, dogVars, localVars>>

\* Every 20 s; a GB stream is online only while its RTP has a bitrate.
Heartbeat(t) ==
  LET s == stream[t] IN
  /\ At(t, "got")
  /\ SetStatus(s, IF s \in Gb /\ ~up[s] THEN "offline" ELSE "online")
  /\ Goto(t, "beaten")
  /\ UNCHANGED <<envVars, tableVars, checkVars, dogVars, localVars>>

\* The fatigue detector closes its sampling window and no other detection is
\* on: the pull is released until the next window, the status stays online.
\* The passes in between only poll the epoch and the row.
BurstRelease(t) ==
  /\ At(t, "got") /\ ~other_on[t]
  /\ stream_status' \in {stream_status, [stream_status EXCEPT ![stream[t]] = "online"]}
  /\ Goto(t, "top")
  /\ UNCHANGED <<envVars, tableVars, checkVars, dogVars, localVars>>

\* A detection round is due.  The row is read again first, and here a missing
\* row ends the thread.
Verify(t) ==
  LET c == cfg[stream[t]] IN
  /\ At(t, "got") \/ At(t, "beaten")
  /\ other_on[t]
  /\ Goto(t, CASE c = "detect" -> "detect" [] c = "pull" -> "top" [] OTHER -> "finally")
  /\ other_on' = [other_on EXCEPT ![t] = IF stream_should_analyze(c) THEN c = "detect" ELSE @]
  /\ UNCHANGED <<envVars, tableVars, stream_status, checkVars, dogVars,
                 stream, my_epoch, read_failure_count, hung>>

DetectDone(t) ==
  /\ At(t, "detect")
  /\ Goto(t, "top")
  /\ UNCHANGED <<envVars, tableVars, stream_status, checkVars, dogVars, localVars>>

\* The inference does not come back: OFFLINE first, then the bump.
DetectTimeout(t) ==
  /\ pc[t] = "detect" /\ hung[t]
  /\ SetStatus(stream[t], "offline")
  /\ hung' = [hung EXCEPT ![t] = FALSE]
  /\ Goto(t, "bump")
  /\ UNCHANGED <<envVars, tableVars, checkVars, dogVars,
                 stream, my_epoch, other_on, read_failure_count>>

\* bump_stream_epoch without looking whose slot it is.
SelfBump(t) ==
  /\ At(t, "bump")
  /\ bump_stream_epoch(stream[t])
  /\ Goto(t, "finally")
  /\ UNCHANGED <<envVars, stream_status, checkVars, dogVars, localVars>>

\* Any exception of the run: logged, OFFLINE, then the finally clause.
Raise(t) ==
  /\ budget > 0 /\ pc[t] \in Started /\ ~hung[t]
  /\ budget' = budget - 1
  /\ SetStatus(stream[t], "offline")
  /\ Goto(t, "finally")
  /\ UNCHANGED <<cfg, up, tableVars, checkVars, dogVars, localVars>>

Forget(t) ==
  /\ Goto(t, "free")
  /\ stream' = [stream EXCEPT ![t] = NoStream]
  /\ my_epoch' = [my_epoch EXCEPT ![t] = 0]
  /\ other_on' = [other_on EXCEPT ![t] = FALSE]
  /\ read_failure_count' = [read_failure_count EXCEPT ![t] = 0]
  /\ UNCHANGED hung

\* Mutant: the slot stays behind.
FinallyKeepsSlot(t) ==
  /\ At(t, "finally")
  /\ Goto(t, "offline")
  /\ UNCHANGED <<envVars, tableVars, stream_status, checkVars, dogVars, localVars>>

\* Mutant: the slot is given back whoever holds the epoch.
FinallyAlwaysReleases(t) ==
  LET s == stream[t] IN
  /\ At(t, "finally")
  /\ active_threads' = active_threads \ {s}
  /\ stream_progress' = [stream_progress EXCEPT ![s] = "none"]
  /\ Goto(t, "offline")
  /\ UNCHANGED <<envVars, stream_epoch, stream_status, checkVars, dogVars, localVars>>

\* The finally clause: only the holder of the epoch gives the slot back ...
Finally(t) ==
  LET s == stream[t] IN
  /\ At(t, "finally")
  /\ IF Holder(t)
     THEN /\ active_threads' = active_threads \ {s}
          /\ stream_progress' = [stream_progress EXCEPT ![s] = "none"]
          /\ Goto(t, "offline")
          /\ UNCHANGED localVars
     ELSE Forget(t) /\ UNCHANGED <<active_threads, stream_progress>>
  /\ UNCHANGED <<envVars, stream_epoch, stream_status, checkVars, dogVars>>

\* ... and writes OFFLINE, after the lock is released.
FinallyStatus(t) ==
  /\ At(t, "offline")
  /\ SetStatus(stream[t], "offline")
  /\ Forget(t)
  /\ UNCHANGED <<envVars, tableVars, checkVars, dogVars>>

-----------------------------------------------------------------------------
ThreadStep(t) ==
  \/ Register(t) \/ Open(t) \/ LoopTop(t) \/ Refresh(t) \/ BurstRelease(t)
  \/ ReadFrame(t) \/ Reconnect(t) \/ GbDead(t) \/ Reinvite(t) \/ Heartbeat(t)
  \/ Verify(t) \/ DetectDone(t) \/ DetectTimeout(t) \/ SelfBump(t)
  \/ Finally(t) \/ FinallyStatus(t)

CheckerStep ==
  \/ CheckRound
  \/ \E s \in Streams : CheckLook(s) \/ CheckPrepare(s) \/ CheckAgain(s) \/ CheckStart(s)

WatchdogStep ==
  WatchdogScan \/ \E s \in Streams : WatchdogMark(s) \/ WatchdogBump(s)

EnvStep ==
  \/ \E s \in Streams : Edit(s) \/ Delete(s) \/ CameraDown(s) \/ CameraUp(s) \/ ProgressAges(s)
  \/ \E t \in Threads : Hang(t) \/ Unhang(t) \/ Raise(t)

Next ==
  \/ EnvStep
  \/ \E s \in Streams : BootStart(s) \/ ProbeIdle(s)
  \/ CheckerStep
  \/ WatchdogStep
  \/ \E t \in Threads : ThreadStep(t)

Spec == Init /\ [][Next]_vars

(* Python's threads all run; the 2 s and 20 s timers expire again and      *)
(* again, which takes strong fairness since each is polled at one place of *)
(* the loop.  Nothing makes a hung call return, and nothing makes the      *)
(* operator, the camera or an exception act.                               *)
Fairness ==
  /\ \A s \in Streams : WF_vars(BootStart(s)) /\ WF_vars(ProgressAges(s))
  /\ WF_vars(CheckerStep)
  /\ WF_vars(WatchdogStep)
  /\ \A t \in Threads :
       /\ WF_vars(ThreadStep(t))
       /\ SF_vars(Refresh(t))
       /\ SF_vars(Heartbeat(t))

FairSpec == Spec /\ Fairness

-----------------------------------------------------------------------------
TypeOK ==
  /\ cfg \in [Streams -> Configs] /\ up \in [Streams -> BOOLEAN]
  /\ budget \in 0..MaxDisturbances
  /\ active_threads \subseteq Streams
  /\ stream_epoch \in [Streams -> Nat]
  /\ stream_progress \in [Streams -> {"none", "fresh", "stale"}]
  /\ stream_status \in [Streams -> {"online", "offline"}]
  /\ boot \subseteq Streams /\ seen \in [Streams -> Configs]
  /\ checker \in [at : {"wait", "look", "prepare", "recheck", "start"},
                  on : Streams \cup {NoStream}]
  /\ todo \subseteq Streams /\ stale \subseteq Streams
  /\ marked \in Streams \cup {NoStream}
  /\ pc \in [Threads -> Stages]
  /\ stream \in [Threads -> Streams \cup {NoStream}]
  /\ my_epoch \in [Threads -> Nat]
  /\ other_on \in [Threads -> BOOLEAN]
  /\ read_failure_count \in [Threads -> 0..MaxReadFailures]
  /\ hung \in [Threads -> BOOLEAN]

(* A slot in active_threads always belongs to a thread that is still        *)
(* there and holds the stream's current epoch: no exit, no time-out and no  *)
(* watchdog leaves a slot behind, which would stop the checker from ever    *)
(* starting the stream again.                                               *)
SlotBacked ==
  \A s \in active_threads :
    \E t \in Threads : stream[t] = s /\ Registered(t) /\ Holder(t)

(* A thread whose epoch was taken away touches the shared tables no more    *)
(* (its replacement owns them), except through its own detection time-out.  *)
SupersededIsHarmless ==
  [][\A t \in Threads :
       Registered(t) /\ ~Holder(t) /\ pc[t] # "bump" /\ pc'[t] # pc[t]
         => UNCHANGED tableVars]_vars

(* Every slot carries a progress stamp: the watchdog walks stream_progress, *)
(* so a slot without a stamp would never be found stalled.                  *)
WatchdogSeesSlots == \A s \in active_threads : stream_progress[s] # "none"

Processing(t, s) == stream[t] = s /\ pc[t] \in Working /\ Holder(t) /\ ~hung[t]

(* A stream that stays analysed and reachable is processed in the end for   *)
(* good, whatever hung, failed or raised before.                            *)
Recovers ==
  \A s \in Streams :
    <>[](stream_should_analyze(cfg[s]) /\ up[s]) => <>[](\E t \in Threads : Processing(t, s))

(* ... and is then shown online for good: the late OFFLINE of a thread that *)
(* leaves or of the watchdog does not survive the next heartbeats.          *)
StatusSettles ==
  \A s \in Streams :
    <>[](stream_should_analyze(cfg[s]) /\ up[s]) => <>[](stream_status[s] = "online")

Running(t, s) == stream[t] = s /\ pc[t] \in Working /\ ~hung[t]

(* A stream paused or taken out of the analysis for good loses its threads. *)
IdleStops ==
  \A s \in Streams :
    <>[](cfg[s] = "idle") => <>[](\A t \in Threads : ~Running(t, s))
=============================================================================
