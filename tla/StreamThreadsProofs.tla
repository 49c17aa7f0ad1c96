------------------------- MODULE StreamThreadsProofs -------------------------
(***************************************************************************)
(* Type correctness and the slot invariants of StreamThreads, for every    *)
(* set of streams and of threads and every budget.                         *)
(*                                                                         *)
(* SlotInv is inductive.  Registering takes the slot with the current      *)
(* epoch, so the new thread backs it.  A bump raises the epoch of one      *)
(* stream only and empties its slot in the same critical section.  A       *)
(* thread stops being registered only in Finally, where a holder empties   *)
(* the slot and a superseded thread, which backs no slot, leaves it alone. *)
(***************************************************************************)
EXTENDS StreamThreads, TLAPS

\* A thread that was started has a stream ...
HasStream == \A t \in Threads : pc[t] # "free" => stream[t] \in Streams

\* ... and counts failures up to the limit only on its way out of the loop.
Counting == Stages \ {"reconnect", "bump", "finally", "offline"}
BelowLimit ==
  \A t \in Threads : pc[t] \in Counting => read_failure_count[t] < MaxReadFailures

TypeInv == TypeOK /\ HasStream /\ BelowLimit

LEMMA TypeInit == Init => TypeInv
  BY StreamThreadsAssumption
  DEF Init, TypeInv, TypeOK, HasStream, BelowLimit, Configs, Counting, Stages,
      Started, Working

USE StreamThreadsAssumption

\* The steps of the operator, the camera, the calls and the clock.
LEMMA TypeEnv == TypeInv /\ EnvStep => TypeInv'
<1> SUFFICES ASSUME TypeInv, EnvStep PROVE TypeInv'
  OBVIOUS
<1> USE DEF TypeInv, TypeOK, HasStream, BelowLimit, envVars, tableVars, checkVars,
            dogVars, threadVars
<1>1. CASE \E s \in Streams : Edit(s)
  BY <1>1 DEF Edit
<1>2. CASE \E s \in Streams : Delete(s)
  BY <1>2 DEF Delete, SetStatus, Configs
<1>3. CASE \E s \in Streams : CameraDown(s)
  BY <1>3 DEF CameraDown
<1>4. CASE \E s \in Streams : CameraUp(s)
  BY <1>4 DEF CameraUp
<1>5. CASE \E s \in Streams : ProgressAges(s)
  BY <1>5 DEF ProgressAges
<1>6. CASE \E t \in Threads : Hang(t)
  BY <1>6 DEF Hang
<1>7. CASE \E t \in Threads : Unhang(t)
  BY <1>7 DEF Unhang
<1>8. CASE \E t \in Threads : Raise(t)
  BY <1>8 DEF Raise, SetStatus, Goto, localVars, Counting, Stages, Started, Working
<1> QED
  BY <1>1, <1>2, <1>3, <1>4, <1>5, <1>6, <1>7, <1>8 DEF EnvStep

\* Starting a thread.
LEMMA TypeStart ==
  ASSUME TypeInv, NEW s \in Streams, StartThread(s)
  PROVE  /\ pc' \in [Threads -> Stages] /\ stream' \in [Threads -> Streams \cup {NoStream}]
         /\ my_epoch' \in [Threads -> Nat] /\ other_on' \in [Threads -> BOOLEAN]
         /\ read_failure_count' \in [Threads -> 0..MaxReadFailures]
         /\ hung' \in [Threads -> BOOLEAN]
         /\ HasStream' /\ BelowLimit'
  BY DEF TypeInv, TypeOK, HasStream, BelowLimit, StartThread, Goto, Counting, Stages,
         Started, Working

\* The steps of the boot loop, the checker, the prober and the watchdog.
LEMMA TypeStarters ==
  TypeInv /\ (CheckerStep \/ WatchdogStep \/ \E s \in Streams : BootStart(s) \/ ProbeIdle(s))
    => TypeInv'
<1> SUFFICES ASSUME TypeInv,
                    CheckerStep \/ WatchdogStep
                      \/ \E s \in Streams : BootStart(s) \/ ProbeIdle(s)
             PROVE  TypeInv'
  OBVIOUS
<1> USE DEF TypeInv, TypeOK, envVars, tableVars, checkVars, dogVars
<1>1. CASE \E s \in Streams : BootStart(s)
  <2> PICK s \in Streams : BootStart(s)
    BY <1>1
  <2>1. CASE StartThread(s)
    BY <2>1, TypeStart DEF BootStart
  <2>2. CASE UNCHANGED threadVars
    BY <2>2 DEF BootStart, threadVars, HasStream, BelowLimit
  <2> QED BY <2>1, <2>2 DEF BootStart
<1>2. CASE \E s \in Streams : ProbeIdle(s)
  BY <1>2 DEF ProbeIdle, SetStatus, threadVars, HasStream, BelowLimit
<1>3. CASE CheckRound
  BY <1>3 DEF CheckRound, threadVars, HasStream, BelowLimit
<1>4. CASE \E s \in Streams : CheckLook(s)
  <2> PICK s \in Streams : CheckLook(s)
    BY <1>4
  <2>1. CheckerNext(s) \/ CheckerGoto("prepare", s)
    BY DEF CheckLook
  <2>2. /\ checker' \in [at : {"wait", "look", "prepare", "recheck", "start"},
                        on : Streams \cup {NoStream}]
        /\ todo' \subseteq Streams
    BY <2>1 DEF CheckerNext, CheckerGoto
  <2> QED BY <2>2 DEF CheckLook, threadVars, HasStream, BelowLimit
<1>5. CASE \E s \in Streams : CheckPrepare(s)
  BY <1>5 DEF CheckPrepare, CheckerNext, CheckerGoto, SetStatus, threadVars, HasStream,
              BelowLimit
<1>6. CASE \E s \in Streams : CheckAgain(s)
  BY <1>6 DEF CheckAgain, CheckerNext, CheckerGoto, threadVars, HasStream, BelowLimit
<1>7. CASE \E s \in Streams : CheckStart(s)
  <2> PICK s \in Streams : CheckStart(s)
    BY <1>7
  <2>1. StartThread(s)
    BY DEF CheckStart
  <2> QED BY <2>1, TypeStart DEF CheckStart, CheckerNext, SetStatus
<1>8. CASE WatchdogScan
  BY <1>8 DEF WatchdogScan, threadVars, HasStream, BelowLimit
<1>9. CASE \E s \in Streams : WatchdogMark(s)
  BY <1>9 DEF WatchdogMark, SetStatus, threadVars, HasStream, BelowLimit
<1>10. CASE \E s \in Streams : WatchdogBump(s)
  BY <1>10 DEF WatchdogBump, bump_stream_epoch, threadVars, HasStream, BelowLimit
<1> QED
  BY <1>1, <1>2, <1>3, <1>4, <1>5, <1>6, <1>7, <1>8, <1>9, <1>10
  DEF CheckerStep, WatchdogStep

\* The steps of a processing thread.
LEMMA TypeThread ==
  ASSUME TypeInv, NEW t \in Threads, ThreadStep(t)
  PROVE  TypeInv'
<1> USE DEF TypeInv, TypeOK, HasStream, BelowLimit, envVars, tableVars, checkVars, dogVars,
            localVars, At, Goto, Counting, Stages, Started, Working
<1>1. CASE Register(t)
  BY <1>1 DEF Register
<1>2. CASE Open(t)
  BY <1>2 DEF Open, SetStatus
<1>3. CASE LoopTop(t)
  BY <1>3 DEF LoopTop
<1>4. CASE Refresh(t)
  BY <1>4 DEF Refresh
<1>5. CASE BurstRelease(t)
  BY <1>5 DEF BurstRelease
<1>6. CASE ReadFrame(t)
  BY <1>6 DEF ReadFrame
<1>7. CASE Reconnect(t)
  BY <1>7 DEF Reconnect, SetStatus
<1>8. CASE GbDead(t)
  BY <1>8 DEF GbDead, SetStatus
<1>9. CASE Reinvite(t)
  BY <1>9 DEF Reinvite, SetStatus
<1>10. CASE Heartbeat(t)
  BY <1>10 DEF Heartbeat, SetStatus
<1>11. CASE Verify(t)
  BY <1>11 DEF Verify
<1>12. CASE DetectDone(t)
  BY <1>12 DEF DetectDone
<1>13. CASE DetectTimeout(t)
  BY <1>13 DEF DetectTimeout, SetStatus
<1>14. CASE SelfBump(t)
  BY <1>14 DEF SelfBump, bump_stream_epoch
<1>15. CASE Finally(t)
  <2>1. CASE Holder(t)
    BY <1>15, <2>1 DEF Finally
  <2>2. CASE ~Holder(t)
    <3>1. Forget(t) /\ UNCHANGED <<tableVars, envVars, stream_status, checkVars, dogVars>>
      BY <1>15, <2>2 DEF Finally
    <3> QED BY <3>1, StreamThreadsAssumption DEF Forget
  <2> QED BY <2>1, <2>2
<1>16. CASE FinallyStatus(t)
  BY <1>16 DEF FinallyStatus, Forget, SetStatus
<1> QED
  BY <1>1, <1>2, <1>3, <1>4, <1>5, <1>6, <1>7, <1>8, <1>9, <1>10, <1>11, <1>12, <1>13,
     <1>14, <1>15, <1>16
  DEF ThreadStep

LEMMA TypeStutter == TypeInv /\ UNCHANGED vars => TypeInv'
  BY DEF TypeInv, TypeOK, HasStream, BelowLimit, vars, envVars, tableVars, checkVars,
         dogVars, threadVars

LEMMA TypeStep == TypeInv /\ [Next]_vars => TypeInv'
  BY TypeEnv, TypeStarters, TypeThread, TypeStutter DEF Next

\* Every variable keeps its type.
LEMMA TypeInvariance == Spec => []TypeInv
<1>1. Init => TypeInv
  BY TypeInit
<1>2. TypeInv /\ [Next]_vars => TypeInv'
  BY TypeStep
<1> QED BY <1>1, <1>2, PTL DEF Spec

THEOREM TypeCorrect == Spec => []TypeOK
<1>1. TypeInv => TypeOK
  BY DEF TypeInv
<1> QED BY <1>1, TypeInvariance, PTL

-----------------------------------------------------------------------------
Backs(t, s) == stream[t] = s /\ Registered(t) /\ Holder(t)

SlotInv == SlotBacked /\ WatchdogSeesSlots

\* Steps that touch neither the slots nor the epochs and by which no thread
\* loses its registration.
LEMMA QuietStep ==
  ASSUME TypeInv, SlotInv,
         UNCHANGED <<active_threads, stream_epoch>>,
         \A s \in Streams : stream_progress'[s] = "none" => stream_progress[s] = "none",
         \A t \in Threads :
           Registered(t) => Registered(t)' /\ UNCHANGED <<stream[t], my_epoch[t]>>
  PROVE  SlotInv'
<1>1. SlotBacked'
  <2> SUFFICES ASSUME NEW s \in active_threads PROVE \E t \in Threads : Backs(t, s)'
    BY DEF SlotBacked, Backs
  <2>1. PICK t \in Threads : Backs(t, s)
    BY DEF SlotInv, SlotBacked, Backs
  <2> QED BY <2>1 DEF Backs, Holder
<1>2. WatchdogSeesSlots'
  BY DEF SlotInv, WatchdogSeesSlots, TypeInv, TypeOK
<1> QED BY <1>1, <1>2 DEF SlotInv

\* A step that raises the epoch of s empties the slot of s; the threads behind
\* the other slots keep theirs.
LEMMA BumpStep ==
  ASSUME TypeInv, SlotInv, NEW s \in Streams, bump_stream_epoch(s),
         \A t \in Threads :
           Registered(t) => Registered(t)' /\ UNCHANGED <<stream[t], my_epoch[t]>>
  PROVE  SlotInv'
<1>1. SlotBacked'
  <2> SUFFICES ASSUME NEW r \in active_threads, r # s
               PROVE  \E t \in Threads : Backs(t, r)'
    BY DEF SlotBacked, Backs, bump_stream_epoch
  <2>1. PICK t \in Threads : Backs(t, r)
    BY DEF SlotInv, SlotBacked, Backs
  <2>2. stream_epoch'[r] = stream_epoch[r]
    BY DEF bump_stream_epoch, TypeInv, TypeOK
  <2> QED BY <2>1, <2>2 DEF Backs, Holder
<1>2. WatchdogSeesSlots'
  BY DEF SlotInv, WatchdogSeesSlots, bump_stream_epoch, TypeInv, TypeOK
<1> QED BY <1>1, <1>2 DEF SlotInv

LEMMA SlotEnv == TypeInv /\ SlotInv /\ EnvStep => SlotInv'
<1> SUFFICES ASSUME TypeInv, SlotInv, EnvStep PROVE SlotInv'
  OBVIOUS
<1>1. UNCHANGED <<active_threads, stream_epoch, stream, my_epoch>>
  BY DEF EnvStep, Edit, Delete, CameraDown, CameraUp, ProgressAges, Hang, Unhang, Raise,
         tableVars, threadVars, localVars
<1>2. \A s \in Streams : stream_progress'[s] = "none" => stream_progress[s] = "none"
  BY DEF EnvStep, Edit, Delete, CameraDown, CameraUp, ProgressAges, Hang, Unhang, Raise,
         tableVars, TypeInv, TypeOK
<1>3. \A t \in Threads : Registered(t) => Registered(t)'
  <2>1. CASE \E t \in Threads : Raise(t)
    BY <2>1 DEF Raise, Goto, Registered, Started, Working, TypeInv, TypeOK
  <2>2. CASE UNCHANGED pc
    BY <2>2 DEF Registered
  <2>3. (\E t \in Threads : Raise(t)) \/ UNCHANGED pc
    BY DEF EnvStep, Edit, Delete, CameraDown, CameraUp, ProgressAges, Hang, Unhang, threadVars
  <2> QED BY <2>1, <2>2, <2>3
<1> QED BY <1>1, <1>2, <1>3, QuietStep

\* A thread that is just started is not registered yet.
LEMMA StartIsQuiet ==
  ASSUME TypeInv, NEW s \in Streams, StartThread(s)
  PROVE  \A t \in Threads :
           Registered(t) => Registered(t)' /\ UNCHANGED <<stream[t], my_epoch[t]>>
  BY DEF StartThread, Goto, Registered, Started, Working, TypeInv, TypeOK

LEMMA SlotStarters ==
  TypeInv /\ SlotInv
    /\ (CheckerStep \/ WatchdogStep \/ \E s \in Streams : BootStart(s) \/ ProbeIdle(s))
    => SlotInv'
<1> SUFFICES ASSUME TypeInv, SlotInv,
                    CheckerStep \/ WatchdogStep
                      \/ \E s \in Streams : BootStart(s) \/ ProbeIdle(s)
             PROVE  SlotInv'
  OBVIOUS
<1>1. CASE \E s \in Streams : StartThread(s) /\ UNCHANGED tableVars
  BY <1>1, StartIsQuiet, QuietStep DEF tableVars
<1>2. CASE UNCHANGED <<tableVars, threadVars>>
  BY <1>2, QuietStep DEF tableVars, threadVars, Registered
<1>3. CASE \E s \in Streams : bump_stream_epoch(s) /\ UNCHANGED threadVars
  BY <1>3, BumpStep DEF threadVars, Registered
<1> QED
  BY <1>1, <1>2, <1>3
  DEF CheckerStep, CheckRound, CheckLook, CheckPrepare, CheckAgain, CheckStart,
      WatchdogStep, WatchdogScan, WatchdogMark, WatchdogBump, BootStart, ProbeIdle,
      tableVars

LEMMA SlotThread ==
  ASSUME TypeInv, SlotInv, NEW t \in Threads, ThreadStep(t)
  PROVE  SlotInv'
<1>1. CASE Register(t)
  <2>1. SlotBacked'
    <3> SUFFICES ASSUME NEW r \in active_threads' PROVE \E u \in Threads : Backs(u, r)'
      BY DEF SlotBacked, Backs
    <3>1. CASE r = stream[t]
      BY <1>1, <3>1 DEF Register, At, Goto, Backs, Holder, Registered, Started, Working,
                        TypeInv, TypeOK
    <3>2. CASE r # stream[t]
      <4>1. PICK u \in Threads : Backs(u, r)
        BY <1>1, <3>2 DEF SlotInv, SlotBacked, Backs, Register
      <4> QED BY <1>1, <3>2, <4>1 DEF Register, At, Goto, Backs, Holder, Registered,
                                      Started, Working, TypeInv, TypeOK
    <3> QED BY <3>1, <3>2
  <2>2. WatchdogSeesSlots'
    BY <1>1 DEF Register, At, SlotInv, WatchdogSeesSlots, TypeInv, TypeOK, HasStream
  <2> QED BY <2>1, <2>2 DEF SlotInv
<1>2. CASE SelfBump(t)
  <2>1. \A u \in Threads :
          Registered(u) => Registered(u)' /\ UNCHANGED <<stream[u], my_epoch[u]>>
    BY <1>2 DEF SelfBump, At, Goto, Registered, Started, Working, localVars, TypeInv, TypeOK
  <2>2. stream[t] \in Streams
    BY <1>2 DEF SelfBump, At, TypeInv, HasStream
  <2> QED BY <1>2, <2>1, <2>2, BumpStep DEF SelfBump
<1>3. CASE Finally(t)
  <2>1. ASSUME NEW r \in active_threads', NEW u \in Threads, Backs(u, r)
        PROVE  Backs(u, r)'
    BY <1>3, <2>1 DEF Finally, Forget, At, Goto, Backs, Holder, Registered, localVars,
                      Started, Working, TypeInv, TypeOK
  <2>2. active_threads' \subseteq active_threads
    BY <1>3 DEF Finally
  <2>3. SlotBacked'
    BY <2>1, <2>2 DEF SlotInv, SlotBacked, Backs
  <2>4. WatchdogSeesSlots'
    BY <1>3 DEF Finally, SlotInv, WatchdogSeesSlots, TypeInv, TypeOK
  <2> QED BY <2>3, <2>4 DEF SlotInv
<1>4. CASE FinallyStatus(t)
  BY <1>4, QuietStep DEF FinallyStatus, Forget, At, Goto, tableVars, Registered, Started,
                         Working, TypeInv, TypeOK
<1>5. CASE LoopTop(t)
  BY <1>5, QuietStep DEF LoopTop, At, Goto, Registered, Started, Working, TypeInv, TypeOK
<1>6. CASE Open(t) \/ Refresh(t) \/ BurstRelease(t) \/ ReadFrame(t) \/ Reconnect(t)
            \/ GbDead(t) \/ Reinvite(t) \/ Heartbeat(t) \/ Verify(t) \/ DetectDone(t)
            \/ DetectTimeout(t)
  <2>1. UNCHANGED <<tableVars, stream, my_epoch>>
    BY <1>6 DEF Open, Refresh, BurstRelease, ReadFrame, Reconnect, GbDead, Reinvite,
                Heartbeat, Verify, DetectDone, DetectTimeout, localVars
  <2>2. \E where \in Started \cup {"bump", "finally"} : Goto(t, where)
    <3>1. CASE Verify(t)
      BY <3>1 DEF Verify, Started, Working
    <3> QED
      BY <1>6, <3>1 DEF Open, Refresh, BurstRelease, ReadFrame, Reconnect, GbDead, Reinvite,
                        Heartbeat, DetectDone, DetectTimeout, Started, Working
  <2>3. \A u \in Threads : Registered(u) => Registered(u)'
    BY <2>2 DEF Goto, Registered, TypeInv, TypeOK
  <2> QED BY <2>1, <2>3, QuietStep DEF tableVars
<1> QED
  BY <1>1, <1>2, <1>3, <1>4, <1>5, <1>6 DEF ThreadStep

LEMMA SlotInvariance == Spec => []SlotInv
<1>1. Init => SlotInv
  BY DEF Init, SlotInv, SlotBacked, WatchdogSeesSlots
<1>2. TypeInv /\ SlotInv /\ UNCHANGED vars => SlotInv'
  BY QuietStep DEF vars, tableVars, threadVars, Registered
<1>3. TypeInv /\ SlotInv /\ [Next]_vars => SlotInv'
  BY <1>2, SlotEnv, SlotStarters, SlotThread DEF Next
<1> QED BY <1>1, <1>3, TypeInvariance, PTL DEF Spec

\* No slot is left behind without a thread that holds its epoch.
THEOREM SlotsAreBacked == Spec => []SlotBacked
<1>1. SlotInv => SlotBacked
  BY DEF SlotInv
<1> QED BY <1>1, SlotInvariance, PTL

\* The watchdog, which walks the progress stamps, sees every slot.
THEOREM SlotsAreStamped == Spec => []WatchdogSeesSlots
<1>1. SlotInv => WatchdogSeesSlots
  BY DEF SlotInv
<1> QED BY <1>1, SlotInvariance, PTL

\* A superseded thread leaves the shared tables to its replacement.
THEOREM SupersededLeavesTables == Spec => SupersededIsHarmless
<1> DEFINE Harmless ==
      \A t \in Threads :
        Registered(t) /\ ~Holder(t) /\ pc[t] # "bump" /\ pc'[t] # pc[t]
          => UNCHANGED tableVars
<1>1. TypeInv /\ [Next]_vars => [Harmless]_vars
  <2> SUFFICES ASSUME TypeInv, Next,
                      NEW t \in Threads, Registered(t), ~Holder(t), pc[t] # "bump",
                      pc'[t] # pc[t]
               PROVE  UNCHANGED tableVars
    OBVIOUS
  <2>1. CASE EnvStep
    BY <2>1 DEF EnvStep, Edit, Delete, CameraDown, CameraUp, ProgressAges, Hang, Unhang,
                Raise, threadVars
  <2>2. CASE \E s \in Streams : BootStart(s) \/ ProbeIdle(s)
    BY <2>2 DEF BootStart, ProbeIdle
  <2>3. CASE CheckerStep
    BY <2>3 DEF CheckerStep, CheckRound, CheckLook, CheckPrepare, CheckAgain, CheckStart
  <2>4. CASE WatchdogStep
    BY <2>4 DEF WatchdogStep, WatchdogScan, WatchdogMark, WatchdogBump, threadVars
  <2>5. CASE \E u \in Threads : ThreadStep(u)
    <3> PICK u \in Threads : ThreadStep(u)
      BY <2>5
    <3>1. u = t
      BY DEF ThreadStep, Register, Open, LoopTop, Refresh, BurstRelease, ReadFrame,
             Reconnect, GbDead, Reinvite, Heartbeat, Verify, DetectDone, DetectTimeout,
             SelfBump, Finally, FinallyStatus, Forget, Goto, TypeInv, TypeOK
    <3>2. ~ Register(u) /\ ~ SelfBump(u)
      BY <3>1 DEF Register, SelfBump, At, Registered, Started, Working
    <3> QED
      BY <3>1, <3>2 DEF ThreadStep, Open, LoopTop, Refresh, BurstRelease, ReadFrame,
             Reconnect, GbDead, Reinvite, Heartbeat, Verify, DetectDone, DetectTimeout,
             Finally, FinallyStatus, tableVars
  <2> QED BY <2>1, <2>2, <2>3, <2>4, <2>5 DEF Next
<1>2. SupersededIsHarmless <=> [][Harmless]_vars
  BY PTL DEF SupersededIsHarmless
<1> QED BY <1>1, <1>2, TypeInvariance, PTL DEF Spec

=============================================================================
