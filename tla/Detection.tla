----------------------------- MODULE Detection -----------------------------
(***************************************************************************)
(* How one stream's processing thread turns frames into alerts: the loop   *)
(* of run_video_processing (visionai/__main__.py), the rounds of several   *)
(* frames (core/detect_burst.py), what the detector makes of a frame       *)
(* (core/detector.py and the plug-ins of core/behaviors/), the alerts it   *)
(* collects (core/alert_units.py, core/intrusion_zone.py) and the windows  *)
(* of driver monitoring (core/dms/sampler.py).                             *)
(*                                                                         *)
(* One step is one pass of the loop, which runs in one thread.  Around it, *)
(* the stream's row is edited, the camera shows one scene or another, the  *)
(* connection stalls, and inference takes its time.  A scene is what the   *)
(* networks find in a frame:                                               *)
(*   people    the number of person boxes,                                 *)
(*   inZone    whether the centre of one is in a region of the zone,       *)
(*   phone     a phone box that overlaps a person, at the ear or in hand,  *)
(*   offences  the score that a violation plug-in has for a person,        *)
(*   weapon    whether a scene plug-in finds something,                    *)
(*   faces     the faces, by the key their alert is kept under.            *)
(*                                                                         *)
(* Bounds: MaxTime, MaxEdits, MaxCuts, the sets Scenes, Rows and Delays.   *)
(***************************************************************************)
EXTENDS Integers, Sequences, FiniteSets, SequencesExt

CONSTANTS
  FrameCounts,  \* DETECT_BURST_FRAMES: 1 is the mode of single frames
  MinFrames,    \* DETECT_BURST_MIN_FRAMES
  Duration,     \* DETECT_BURST_DURATION_MS
  Interval,     \* DETECTION_INTERVAL
  HitTenths,    \* DETECT_BURST_HIT_RATIO in tenths
  GatherMin,    \* GATHER_MIN_PERSONS
  MinDuration,  \* min_duration_sec, also GATHER_MIN_DURATION_SEC
  SaveInterval, \* SAVE_INTERVAL
  RefreshEvery, \* the age at which the loop reads its row again
  PullGap,      \* pull_interval_sec
  WindowFrames, \* the samples of one window of driver monitoring
  Scenes, Rows, Delays,
  MaxTime, MaxEdits, MaxCuts

ASSUME DetectionAssumption ==
  /\ FrameCounts \subseteq Nat \ {0} /\ MinFrames \in Nat \ {0}
  /\ {Duration, Interval, SaveInterval, RefreshEvery, PullGap} \subseteq Nat
  /\ {GatherMin, MinDuration} \subseteq Nat
  /\ HitTenths \in 0..10 /\ Delays \subseteq Nat \ {0}

ASSUME ScenesAssumption ==
  /\ \A s \in Scenes :
       /\ s.people \in Nat /\ {s.inZone, s.weapon} \subseteq BOOLEAN /\ IsFiniteSet(s.faces)
       /\ IsFiniteSet(DOMAIN s.offences) /\ s.offences \in [DOMAIN s.offences -> Nat]
  /\ \A r \in Rows : r.zone \in BOOLEAN

VARIABLES
  now,
  maxFrames,  \* the setting the process was started with
  row,        \* of the stream's row in Redis: the types enabled, whether there is
              \* a zone, and whether driver monitoring holds the connection
  cfg,        \* ... as the detector has it
  refreshed,  \* last_cfg_refresh
  up,         \* the capture is open
  collector,  \* DetectBurstCollector
  gates,      \* _behavior_state and _gather_since of the detector
  passes,     \* frame_count of the stream handler
  sampler,    \* WindowSampler
  lastSave,   \* last_save_time
  alert,      \* the alerts saved in the last step, with what they rest on
  unbroken,   \* history: since when each evaluation of a type was positive
  edits, cuts

settings == <<maxFrames, row>>
detectionVars == <<now, settings, cfg, refreshed, up, collector, gates, passes,
          sampler, lastSave, alert, unbroken, edits, cuts>>

Fatigue == "fatigue_driving"
Sustained == {"violation", "weapon", "face_recognition"}
Sighted == Sustained \ {"violation"}   \* what SightingsLasted is about
\* Every behaviour that has a duration it must last; SinceNever before that.
SinceNever == -1
LongAgo == -SaveInterval
Empty == [k \in {} |-> 0]

NoAlert == [types |-> {}, at |-> 0, scene |-> 0, window |-> <<>>]

DetectionInit ==
  /\ now = 1 /\ maxFrames \in FrameCounts /\ row \in Rows /\ cfg = row
  /\ refreshed = 0 /\ up = TRUE
  /\ collector = [open |-> FALSE, t0 |-> 0, lastKeep |-> 0, frames |-> <<>>, nextAt |-> 0]
  /\ gates = [violation |-> Empty, weapon |-> Empty, face_recognition |-> Empty,
              gather |-> SinceNever]
  /\ passes = 0
  /\ sampler = [open |-> FALSE, samples |-> 0, end |-> 0]
  /\ lastSave = LongAgo /\ alert = NoAlert
  /\ unbroken = [t \in Sighted |-> SinceNever]
  /\ edits = 0 /\ cuts = 0

-----------------------------------------------------------------------------
(* The frames of a round.                                                   *)

Opened == IF collector.open THEN collector
          ELSE [collector EXCEPT !.open = TRUE, !.t0 = now, !.lastKeep = 0, !.frames = <<>>]
\* A frame is kept when it is the first, or three quarters of an even spacing
\* after the one before.
Fed(frame) ==
  LET c == Opened
      keep == \/ c.frames = <<>>
              \/ /\ Len(c.frames) < maxFrames
                 /\ 4 * maxFrames * (now - c.lastKeep) >= 3 * Duration
  IN  IF keep THEN [c EXCEPT !.frames = Append(@, frame), !.lastKeep = now] ELSE c
Waiting == ~collector.open /\ now < collector.nextAt
Complete(c) == Len(c.frames) >= maxFrames \/ now - c.t0 >= Duration
Closed(c) == [c EXCEPT !.open = FALSE, !.frames = <<>>,
                       !.nextAt = IF c.t0 + Interval > now THEN c.t0 + Interval ELSE now]
Enough(c) == Len(c.frames) >= MinFrames

ResetCapture == collector' = [collector EXCEPT !.open = FALSE, !.frames = <<>>]

-----------------------------------------------------------------------------
(* What has to last.  A map from keys (the index of a person, of a box, of  *)
(* a face) to the time since when the key was there at every evaluation.    *)

Threshold == 5
\* Mutant: what is not seen any more is not forgotten.
SinceForever(map, strong) ==
  [k \in strong \cup DOMAIN map |-> IF k \in DOMAIN map THEN map[k] ELSE now]
Since(map, strong) == [k \in strong |-> IF k \in DOMAIN map THEN map[k] ELSE now]
Lasting(map) == {k \in DOMAIN map : now - map[k] >= MinDuration}
StrongKeys(scores) == {k \in DOMAIN scores : scores[k] >= Threshold}

\* ViolationDetectorPlugin: without a person it returns before it gets there.
ViolationGate(map, scene) ==
  IF scene.people = 0 THEN map ELSE Since(map, StrongKeys(scene.offences))
WeaponGate(map, scene) == Since(map, IF scene.weapon THEN {"t"} ELSE {})
FaceGate(map, scene) == Since(map, scene.faces)
GatherGate(since, scene, types) ==
  IF "gather" \notin types \/ scene.people < GatherMin THEN SinceNever
  ELSE IF since = SinceNever THEN now ELSE since

\* Only the plug-ins of enabled types run; the others keep what they have.
GatesAfter(g, scene, types) ==
  [violation |-> IF "violation" \in types THEN ViolationGate(g.violation, scene) ELSE g.violation,
   weapon |-> IF "weapon" \in types THEN WeaponGate(g.weapon, scene) ELSE g.weapon,
   face_recognition |-> IF "face_recognition" \in types
                        THEN FaceGate(g.face_recognition, scene) ELSE g.face_recognition,
   gather |-> GatherGate(g.gather, scene, types)]

-----------------------------------------------------------------------------
(* What the detector makes of one frame.                                    *)

CollectPerson(types) == types \cap {"0", "gather", "call", "phone_play", "violation"} /= {}
Pairing(scene, mode, types) ==
  /\ mode \in types /\ scene.people > 0
  /\ scene.phone = (IF mode = "call" THEN "ear" ELSE "hand")

PersonBoxes(scene, types) == IF CollectPerson(types) THEN scene.people ELSE 0
WeaponBoxes(scene, types) == "weapon" \in types /\ scene.weapon
\* Faces are framed, all of them, when one of them has lasted.
FacesFramed(scene, types, g) ==
  IF "face_recognition" \in types /\ Lasting(g.face_recognition) /= {} THEN scene.faces ELSE {}

\* g are the gates after the frame.
ProcessResults(scene, types, g) ==
  LET people == PersonBoxes(scene, types)
  IN  [scene     |-> scene,
       persons   |-> people,
       byClass   |-> IF "0" \in types THEN people ELSE 0,
       pairs     |-> {m \in {"call", "phone_play"} : Pairing(scene, m, types)},
       gathering |-> g.gather /= SinceNever /\ now - g.gather >= MinDuration,
       scores    |-> IF "violation" \in types /\ people > 0 THEN scene.offences ELSE Empty,
       boxes     |-> WeaponBoxes(scene, types),
       matches   |-> IF "face_recognition" \in types THEN scene.faces ELSE {},
       framed    |-> FacesFramed(scene, types, g),
       alerts    |-> {t \in types \cap Sustained :
                        /\ Lasting(g[t]) /= {}
                        /\ (t = "violation" => people > 0)}]

\* The signals of a behaviour, whatever its gate says.
BehaviorRawHit(det, t) ==
  \/ t \in det.alerts
  \/ t = "violation" /\ \E k \in DOMAIN det.scores : det.scores[k] > 0
  \/ t = "weapon" /\ det.boxes
  \/ t = "face_recognition" /\ det.matches /= {}
FrameHitKeys(det) ==
  (IF det.byClass > 0 THEN {"0"} ELSE {}) \cup det.pairs
  \cup (IF det.persons >= GatherMin THEN {"gather"} ELSE {})
  \cup {t \in Sustained : BehaviorRawHit(det, t)}
\* In tenths: nine for a box, the scores as they are.
Boxes(det) ==
  det.byClass + Cardinality(det.pairs) + Cardinality(det.matches) + (IF det.boxes THEN 1 ELSE 0)
Scored(scores) ==
  LET key == SetToSeq(DOMAIN scores)
      sum[n \in 0..Len(key)] == IF n = 0 THEN 0 ELSE sum[n - 1] + scores[key[n]]
  IN  sum[Len(key)]
ConfidenceMass(det) == 9 * Boxes(det) + Scored(det.scores)

-----------------------------------------------------------------------------
(* One conclusion of a round.  dets are its frames as ProcessResults saw    *)
(* them.                                                                    *)

CountHits(dets, key) == Cardinality({i \in DOMAIN dets : key \in FrameHitKeys(dets[i])})
KeptKeys(dets) ==
  {key \in UNION {FrameHitKeys(dets[i]) : i \in DOMAIN dets} :
     10 * CountHits(dets, key) >= HitTenths * Len(dets)}
Quality(det, kept) == 100 * Cardinality(FrameHitKeys(det) \cap kept) + ConfidenceMass(det)
PickIndex(dets, kept) ==
  CHOOSE i \in DOMAIN dets :
    \A j \in DOMAIN dets :
      \/ Quality(dets[i], kept) > Quality(dets[j], kept)
      \/ Quality(dets[i], kept) = Quality(dets[j], kept) /\ i <= j
\* Mutant: the classes of the picture stay as they are.
FilterBehaviorsOnly(det, kept) ==
  [det EXCEPT !.gathering = "gather" \in kept,
              !.alerts = {t \in kept \cap Sustained : BehaviorRawHit(det, t)}]
FilterToKept(det, kept) ==
  [det EXCEPT !.byClass = IF "0" \in kept THEN @ ELSE 0,
              !.pairs = @ \cap kept,
              !.gathering = "gather" \in kept,
              !.alerts = {t \in kept \cap Sustained : BehaviorRawHit(det, t)}]

-----------------------------------------------------------------------------
(* The types of the alerts a conclusion leads to.                           *)

\* The gate of a face holds even where a round says that it is to alarm.
FacesToShow(det) == det.framed
CollectAlertUnits(det, types) ==
  {t \in types :
     \/ t = "0" /\ det.byClass > 0
     \/ t \in det.pairs
     \/ t = "gather" /\ det.gathering
     \/ t = "face_recognition" /\ t \in det.alerts /\ FacesToShow(det) /= {}
     \/ t \in {"violation", "weapon"} /\ t \in det.alerts}
\* A row with a zone drops the people who are not in it.
FilterPersonZone(units, scene, zone) ==
  IF zone /\ ~scene.inZone THEN units \ {"0"} ELSE units

\* Either all of it is written or nothing is.
SaveSnapshot(det, window, c) ==
  LET units == FilterPersonZone(CollectAlertUnits(det, c.types), det.scene, c.zone)
  IN  IF now - lastSave < SaveInterval \/ units = {}
      THEN alert' = NoAlert /\ UNCHANGED lastSave
      ELSE \E stored \in {{}, units} :
             /\ alert' = [types |-> stored, at |-> now, scene |-> det.scene, window |-> window]
             /\ lastSave' = IF stored = {} THEN lastSave ELSE now
NothingSaved == alert' = NoAlert /\ UNCHANGED lastSave

-----------------------------------------------------------------------------
(* Inference on the frames of a round, one after the other; the clock of    *)
(* the gates stands still meanwhile.                                        *)

Positive(t, scene) == IF t = "weapon" THEN scene.weapon ELSE scene.faces /= {}
Seen(since, scene, types) ==
  [t \in Sighted |-> IF t \notin types THEN since[t]
                       ELSE IF ~Positive(t, scene) THEN SinceNever
                       ELSE IF since[t] = SinceNever THEN now ELSE since[t]]
\* One frame more.
Inferred(before, f, types) ==
  LET g == GatesAfter(before.gates, f.scene, types)
  IN  [gates |-> g, unbroken |-> Seen(before.unbroken, f.scene, types),
       frames |-> Append(before.frames, f),
       dets |-> Append(before.dets, ProcessResults(f.scene, types, g))]
\* A frame whose inference raises is left out of its round.
Infer(frames, types, lost) ==
  LET done[n \in 0..Len(frames)] ==
        IF n = 0 THEN [gates |-> gates, unbroken |-> unbroken, frames |-> <<>>, dets |-> <<>>]
        ELSE LET before == done[n - 1]
             IN  IF n \in lost THEN before ELSE Inferred(before, frames[n], types)
  IN  done[Len(frames)]

\* detect_burst.run_burst_round and what the loop does with its conclusion.
Conclude(done, c) ==
  LET kept == KeptKeys(done.dets)
      best == PickIndex(done.dets, kept)
  IN  SaveSnapshot(FilterToKept(done.dets[best], kept), done.frames, c)
\* One frame: its result as it is.
ConcludeSingle(done, c) == SaveSnapshot(done.dets[1], done.frames, c)
NoInference == UNCHANGED <<gates, unbroken>> /\ NothingSaved
InferOnly(frames) ==
  LET done == Infer(frames, row.types, {})
  IN  gates' = done.gates /\ unbroken' = done.unbroken /\ UNCHANGED cuts
Detect(frames, c) ==
  IF c.types = {} THEN NoInference /\ UNCHANGED cuts
  ELSE \E lost \in IF cuts < MaxCuts /\ maxFrames > 1 THEN SUBSET DOMAIN frames ELSE {{}} :
         LET done == Infer(frames, c.types, lost)
         IN  /\ cuts' = IF lost = {} THEN cuts ELSE cuts + 1
             /\ gates' = done.gates /\ unbroken' = done.unbroken
             /\ IF done.dets = <<>> THEN NothingSaved
                ELSE IF maxFrames = 1 THEN ConcludeSingle(done, c)
                ELSE Conclude(done, c)

-----------------------------------------------------------------------------
(* The windows of driver monitoring, and the loop.                          *)

Current == IF now - refreshed >= RefreshEvery THEN row ELSE cfg
Refresh == refreshed' = IF now - refreshed >= RefreshEvery THEN now ELSE refreshed
Advance == \E d \in Delays : now' = now + d
OtherOn(c) == c.types \ {Fatigue} /= {}
BurstRelease(c) == Fatigue \in c.types /\ c.pull = "burst" /\ ~OtherOn(c)
WaitingForNextPull == ~sampler.open /\ sampler.end > 0 /\ now - sampler.end < PullGap

Sampled == [sampler EXCEPT !.open = TRUE,
                           !.samples = IF sampler.open THEN @ + 1 ELSE 1]
WindowDone(s) == s.samples >= WindowFrames
ClosedWindow(s) == [open |-> FALSE, samples |-> 0, end |-> now]

Going == now <= MaxTime
Unread == UNCHANGED <<settings, collector, gates, passes, sampler, unbroken, edits>> /\ NothingSaved

\* Between two windows nothing needs the stream: it is let go.
Release ==
  /\ Going /\ BurstRelease(Current) /\ WaitingForNextPull
  /\ cfg' = Current /\ Refresh /\ Advance
  /\ up' = FALSE /\ UNCHANGED cuts /\ Unread
PullAgain ==
  /\ Going /\ BurstRelease(Current) /\ ~WaitingForNextPull /\ ~up
  /\ cfg' = Current /\ Refresh /\ UNCHANGED now
  /\ up' = TRUE /\ UNCHANGED cuts /\ Unread
\* No frame for five reads: the stream is opened anew.
OpenAnew ==
  /\ Going /\ ~(BurstRelease(Current) /\ (WaitingForNextPull \/ ~up))
  /\ IF up THEN cuts < MaxCuts /\ cuts' = cuts + 1 ELSE UNCHANGED cuts
  /\ cfg' = Current /\ Refresh /\ Advance
  /\ up' = TRUE /\ Unread

Reads == Going /\ up /\ ~(BurstRelease(Current) /\ WaitingForNextPull)
\* A frame goes to driver monitoring first.  sleepy: it alarms and is saved.
Monitor(c, s, sleepy) ==
  IF Fatigue \in c.types /\ ~WaitingForNextPull
  THEN /\ s = Sampled /\ (sleepy => now - lastSave >= SaveInterval)
       /\ sampler' = IF WindowDone(s) THEN ClosedWindow(s) ELSE s
  ELSE s = sampler /\ ~sleepy /\ UNCHANGED sampler
Samplers == {sampler, Sampled}
LetGo(c, s) == BurstRelease(c) /\ s /= sampler /\ WindowDone(s)
FatigueAlert ==
  /\ alert' = [types |-> {Fatigue}, at |-> now, scene |-> 0, window |-> <<>>] /\ lastSave' = now
SaveOrNot(sleepy) == IF sleepy THEN FatigueAlert ELSE NothingSaved

\* The window of driver monitoring ends and the stream is let go.
LastSample ==
  /\ Reads /\ \E s \in Samplers, sleepy \in BOOLEAN :
       /\ Monitor(Current, s, sleepy) /\ LetGo(Current, s) /\ SaveOrNot(sleepy)
  /\ up' = FALSE /\ cfg' = Current /\ Refresh /\ Advance
  /\ passes' = (passes + 1) % Interval
  /\ UNCHANGED <<settings, collector, gates, unbroken, edits, cuts>>

\* Nothing else to detect: frames that were kept are dropped.
NothingToDetect ==
  /\ Reads /\ ~OtherOn(Current)
  /\ \E s \in Samplers, sleepy \in BOOLEAN :
       /\ Monitor(Current, s, sleepy) /\ ~LetGo(Current, s) /\ SaveOrNot(sleepy)
  /\ ResetCapture /\ cfg' = Current /\ Refresh /\ Advance
  /\ passes' = (passes + 1) % Interval
  /\ UNCHANGED <<settings, up, gates, unbroken, edits, cuts>>

NoRound(sleepy) == SaveOrNot(sleepy) /\ UNCHANGED <<gates, unbroken, cuts>>
\* What was saved in this pass already keeps the round from saving.
RoundOf(frames, sleepy) ==
  IF sleepy THEN FatigueAlert /\ InferOnly(frames) ELSE Detect(frames, row)

\* A frame for a round of several.
FeedRound ==
  /\ Reads /\ OtherOn(Current) /\ maxFrames > 1
  /\ \E s \in Samplers, sleepy \in BOOLEAN, scene \in Scenes :
       LET c == Fed([at |-> now, scene |-> scene])
       IN  /\ Monitor(Current, s, sleepy)
           /\ IF Waiting THEN /\ cfg' = Current /\ NoRound(sleepy) /\ UNCHANGED collector
              ELSE IF ~Complete(c) THEN cfg' = Current /\ NoRound(sleepy) /\ collector' = c
              ELSE /\ collector' = Closed(c)
                   /\ IF ~Enough(c) THEN cfg' = Current /\ NoRound(sleepy)
                      ELSE cfg' = row /\ RoundOf(c.frames, sleepy)
  /\ Refresh /\ Advance /\ passes' = (passes + 1) % Interval
  /\ UNCHANGED <<settings, up, edits>>

\* Single frames: one of every Interval.
DetectSingle ==
  /\ Reads /\ OtherOn(Current) /\ maxFrames = 1
  /\ passes' = (passes + 1) % Interval
  /\ \E s \in Samplers, sleepy \in BOOLEAN, scene \in Scenes :
       /\ Monitor(Current, s, sleepy)
       /\ IF passes' /= 0 THEN cfg' = Current /\ NoRound(sleepy)
          ELSE cfg' = row /\ RoundOf(<<[at |-> now, scene |-> scene]>>, sleepy)
  /\ Refresh /\ Advance
  /\ UNCHANGED <<settings, up, collector, edits>>

Edit ==
  /\ Going /\ edits < MaxEdits /\ edits' = edits + 1
  /\ \E r \in Rows \ {row} : row' = r
  /\ UNCHANGED <<now, maxFrames, cfg, refreshed, up, collector, gates, passes, sampler,
                 unbroken, cuts>>
  /\ NothingSaved

DetectionNext ==
  \/ Release \/ PullAgain \/ OpenAnew \/ LastSample \/ NothingToDetect
  \/ FeedRound \/ DetectSingle \/ Edit
DetectionSpec == DetectionInit /\ [][DetectionNext]_detectionVars
-----------------------------------------------------------------------------
(* What the alerts claim.                                                   *)

\* What someone who looks at a scene would call it, the zone aside.
Shows(scene, t) ==
  CASE t = "0" -> scene.people > 0
    [] t = "gather" -> scene.people >= GatherMin
    [] t = "call" -> scene.people > 0 /\ scene.phone = "ear"
    [] t = "phone_play" -> scene.people > 0 /\ scene.phone = "hand"
    [] t = "violation" -> scene.people > 0 /\ DOMAIN scene.offences /= {}
    [] t = "weapon" -> scene.weapon
    [] t = "face_recognition" -> scene.faces /= {}
Share(window, t) == Cardinality({i \in DOMAIN window : Shows(window[i].scene, t)})

\* An alert of a round is of a type that was enabled when its frames were
\* looked at, that enough of them show, and that its picture shows, unless it
\* is a gathering of a round of several frames; a person alert of a stream
\* with a zone has somebody in the zone in the picture
\* (aggregate_burst_round, collect_alert_units, filter_person_zone).
AlertsAreEarned ==
  \A t \in alert.types \ {Fatigue} :
    /\ t \in cfg.types
    /\ (t = "gather" => maxFrames = 1) => Shows(alert.scene, t)
    /\ (t = "0" /\ cfg.zone) => alert.scene.inZone
    /\ maxFrames > 1 => 10 * Share(alert.window, t) >= HitTenths * Len(alert.window)

\* With single frames an alert that has to last was positive at every
\* evaluation of its type for MinDuration (apply_scene_duration_alert,
\* apply_keyed_duration_alert).
SightingsLasted ==
  maxFrames = 1 => \A t \in alert.types \cap Sighted :
    unbroken[t] /= SinceNever /\ alert.at - unbroken[t] >= MinDuration
=============================================================================
