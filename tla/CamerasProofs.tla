---------------------------- MODULE CamerasProofs ----------------------------
(***************************************************************************)
(* The parts that work with one camera at a time: speaking through it,      *)
(* where what is sent has an owner, and what is open has one; and detecting *)
(* in its frames, where an alert rests on enough of them and on its         *)
(* picture, and what has to last has lasted.  All of it holds for every     *)
(* number of requests, cameras, sockets, commands and calls, every scene,   *)
(* row and setting, and whatever goes wrong.                                *)
(***************************************************************************)
EXTENDS TalkSessions, Broadcast, Detection, FiniteSetTheorems, WellFoundedInduction, TLAPS

-----------------------------------------------------------------------------
(* Counting up.                                                             *)

LEMMA LeastOf == ASSUME NEW S \in SUBSET Nat, S # {} PROVE \E x \in S : \A y \in S : x <= y
<1> DEFINE Less == {ss \in Nat \X Nat : ss[1] < ss[2]}
<1>1. IsWellFoundedOn(Less, Nat)
  BY NatLessThanWellFounded DEF OpToRel
<1>2. \A x, y \in Nat : y < x => <<y, x>> \in Less
  OBVIOUS
<1> HIDE DEF Less
<1>3. PICK x \in S : \A y \in S : <<y, x>> \notin Less
  BY <1>1, WFMin
<1>4. \A y \in S : x <= y
  <2>1. ASSUME NEW y \in S, y < x PROVE FALSE
    <3>1. <<y, x>> \in Less
      BY <1>2, <2>1
    <3> QED
      BY <1>3, <3>1
  <2>2. \A y \in S : y \in Nat /\ x \in Nat
    OBVIOUS
  <2> QED
    BY <2>1, <2>2
<1> QED
  BY <1>4

LEMMA CountUp ==
  ASSUME NEW N \in Nat, NEW S, 0 \in S, \A n \in 1..N : n - 1 \in S => n \in S
  PROVE  0..N \subseteq S
<1> SUFFICES ASSUME ~(0..N \subseteq S) PROVE FALSE
  OBVIOUS
<1> DEFINE T == {n \in 0..N : n \notin S}
<1>1. T \in SUBSET Nat /\ T # {}
  OBVIOUS
<1>2. PICK n \in T : \A m \in T : n <= m
  BY <1>1, LeastOf
<1>3. n \in 1..N
  BY <1>2
<1>4. n - 1 \notin T
  BY <1>2, <1>3
<1>5. n - 1 \in S
  BY <1>3, <1>4
<1> QED
  BY <1>2, <1>3, <1>5

\* A recursive definition over 0..N has a solution.
Solvable(N, A, a, step) ==
  \E f \in [0..N -> A] : f[0] = a /\ \A n \in 1..N : f[n] = step[n][f[n - 1]]
LEMMA Recursion ==
  ASSUME NEW N \in Nat, NEW A, NEW a \in A,
         NEW step, \A n \in 1..N : \A x \in A : step[n][x] \in A
  PROVE  Solvable(N, A, a, step)
<1> DEFINE Solved(m) ==
             \E f \in [0..m -> A] : f[0] = a /\ \A n \in 1..m : f[n] = step[n][f[n - 1]]
           S == {m \in 0..N : Solved(m)}
<1>1. 0 \in S
  <2> DEFINE f == [n \in 0..0 |-> a]
  <2>1. f \in [0..0 -> A] /\ f[0] = a /\ \A n \in 1..0 : f[n] = step[n][f[n - 1]]
    OBVIOUS
  <2>2. Solved(0)
    BY <2>1
  <2> QED
    BY <2>2
<1>2. ASSUME NEW m \in 1..N, m - 1 \in S PROVE m \in S
  <2>1. PICK f \in [0..(m - 1) -> A] :
          f[0] = a /\ \A n \in 1..(m - 1) : f[n] = step[n][f[n - 1]]
    BY <1>2
  <2> DEFINE g == [n \in 0..m |-> IF n = m THEN step[m][f[m - 1]] ELSE f[n]]
  <2>2. step[m][f[m - 1]] \in A
    BY <2>1
  <2>3. g \in [0..m -> A] /\ g[0] = a
    BY <2>1, <2>2
  <2>4. ASSUME NEW n \in 1..m PROVE g[n] = step[n][g[n - 1]]
    <3>1. g[n - 1] = f[n - 1]
      OBVIOUS
    <3>2. CASE n = m
      <4>1. g[m] = step[m][f[m - 1]]
        OBVIOUS
      <4> HIDE DEF g
      <4> QED
        BY <3>1, <3>2, <4>1
    <3>3. CASE n # m
      <4>1. g[n] = f[n] /\ n \in 1..(m - 1)
        BY <3>3
      <4> HIDE DEF g
      <4> QED
        BY <2>1, <3>1, <4>1
    <3> QED
      BY <3>2, <3>3
  <2> HIDE DEF g
  <2>5. Solved(m)
    BY <2>3, <2>4
  <2> QED
    BY <2>5
<1> HIDE DEF S
<1>3. 0..N \subseteq S
  BY <1>1, <1>2, CountUp
<1>4. N \in S
  BY <1>3
<1> QED
  BY <1>4 DEF S, Solvable

\* The best of finitely many, the first of those that are equally good.
LEMMA BestOf ==
  ASSUME NEW N \in Nat, N > 0, NEW q \in [1..N -> Int]
  PROVE  \E i \in 1..N : \A j \in 1..N : q[i] > q[j] \/ (q[i] = q[j] /\ i <= j)
<1> DEFINE Beats(i, m) == \A j \in 1..m : q[i] > q[j] \/ (q[i] = q[j] /\ i <= j)
           S == {m \in 0..N : m = 0 \/ \E i \in 1..m : Beats(i, m)}
<1>1. 0 \in S
  OBVIOUS
<1>2. ASSUME NEW m \in 1..N, m - 1 \in S PROVE m \in S
  <2>1. CASE m = 1
    <3>1. Beats(1, 1)
      OBVIOUS
    <3> QED
      BY <2>1, <3>1
  <2>2. CASE m # 1
    <3>1. PICK i \in 1..(m - 1) : Beats(i, m - 1)
      BY <1>2, <2>2
    <3>2. CASE q[m] > q[i]
      <4>1. \A j \in 1..(m - 1) : q[m] > q[j]
        <5>1. q[m] \in Int /\ q[i] \in Int /\ \A j \in 1..(m - 1) : q[j] \in Int
          OBVIOUS
        <5> QED
          BY <3>1, <3>2, <5>1
      <4>2. ASSUME NEW j \in 1..m PROVE q[m] > q[j] \/ (q[m] = q[j] /\ m <= j)
        <5>1. CASE j = m
          BY <5>1
        <5>2. CASE j # m
          <6>1. j \in 1..(m - 1)
            BY <5>2
          <6> QED
            BY <4>1, <6>1
        <5> QED
          BY <5>1, <5>2
      <4>3. Beats(m, m)
        BY <4>2
      <4>4. m \in 1..m
        OBVIOUS
      <4> QED
        BY <4>3, <4>4
    <3>3. CASE q[m] <= q[i]
      <4>1. Beats(i, m)
        BY <3>1, <3>3
      <4>2. i \in 1..m
        OBVIOUS
      <4> QED
        BY <4>1, <4>2
    <3> QED
      BY <3>2, <3>3
  <2> QED
    BY <2>1, <2>2
<1> HIDE DEF S
<1>3. 0..N \subseteq S
  BY <1>1, <1>2, CountUp
<1>4. N \in S
  BY <1>3
<1> QED
  BY <1>4 DEF S

-----------------------------------------------------------------------------
(* Detection.  What the gates remember of a type is no older than the time  *)
(* since when its evaluations were positive; what the detector makes of a   *)
(* frame is of a scene, looked at with some gates.                          *)
Keys == {"t"} \cup UNION {DOMAIN s.offences \cup s.faces : s \in Scenes}
Marks == UNION {[K -> Int] : K \in SUBSET Keys}
Gates == [violation : Marks, weapon : Marks, face_recognition : Marks, gather : Int]
Frames == [at : Nat, scene : Scenes]

View(scene, types, g) == ProcessResults(scene, types, GatesAfter(g, scene, types))
Views(types) == {View(s, types, g) : s \in Scenes, g \in Gates}
Looked(det, scene, types) == \E g \in Gates : det = View(scene, types, g)

Grounded(g, u) ==
  /\ g \in Gates /\ u \in [Sighted -> Int] /\ \A t \in Sighted : u[t] <= now
  /\ \A t \in Sighted : \A k \in DOMAIN g[t] : u[t] # SinceNever /\ u[t] <= g[t][k]

Results(types) ==
  [gates : Gates, unbroken : [Sighted -> Int], frames : Seq(Frames), dets : Seq(Views(types))]
\* The detector has gone through some frames, the last one with these gates.
Done(d, types) ==
  /\ Grounded(d.gates, d.unbroken) /\ Len(d.dets) = Len(d.frames)
  /\ \A i \in 1..Len(d.dets) : Looked(d.dets[i], d.frames[i].scene, types)
  /\ d.dets # <<>> =>
       d.dets[Len(d.dets)] = ProcessResults(d.frames[Len(d.dets)].scene, types, d.gates)

Collectors == [open : BOOLEAN, t0 : Nat, lastKeep : Nat, frames : Seq(Frames), nextAt : Nat]

DetectionTypes ==
  /\ now \in Nat /\ now > 0 /\ maxFrames \in Nat /\ maxFrames > 0 /\ row \in Rows /\ cfg \in Rows
  /\ collector \in Collectors
  /\ gates \in Gates

DetectionInv ==
  DetectionTypes /\ Grounded(gates, unbroken) /\ AlertsAreEarned /\ SightingsLasted

\* Maps of keys.
LEMMA MarksAre ==
  /\ \A m \in Marks : DOMAIN m \subseteq Keys /\ m \in [DOMAIN m -> Int]
  /\ \A K \in SUBSET Keys : [K -> Int] \subseteq Marks
BY DEF Marks

LEMMA SinceIsMark ==
  ASSUME now \in Nat, NEW m \in Marks, NEW K \in SUBSET Keys
  PROVE  /\ Since(m, K) \in Marks /\ DOMAIN Since(m, K) = K
         /\ \A k \in K : Since(m, K)[k] = IF k \in DOMAIN m THEN m[k] ELSE now
<1>1. Since(m, K) \in [K -> Int]
  BY MarksAre DEF Since
<1> QED
  BY <1>1, MarksAre DEF Since

LEMMA StrongAre ==
  ASSUME NEW s \in Scenes
  PROVE  /\ StrongKeys(s.offences) \subseteq DOMAIN s.offences /\ DOMAIN s.offences \subseteq Keys
         /\ s.faces \subseteq Keys /\ "t" \in Keys
<1>1. StrongKeys(s.offences) \subseteq DOMAIN s.offences
  BY DEF StrongKeys
<1>2. ASSUME NEW k \in DOMAIN s.offences PROVE k \in Keys
  BY DEF Keys
<1>3. ASSUME NEW k \in s.faces PROVE k \in Keys
  BY DEF Keys
<1>4. "t" \in Keys
  BY DEF Keys
<1> QED
  BY <1>1, <1>2, <1>3, <1>4

\* One frame leaves gates of which each is forgotten when its type is enabled
\* and the frame does not show it.
LEMMA GatesMove ==
  ASSUME now \in Nat, NEW g \in Gates, NEW s \in Scenes, NEW types
  PROVE  /\ GatesAfter(g, s, types) \in Gates
         /\ \A t \in Sighted \cap types :
              /\ ~Positive(t, s) => DOMAIN GatesAfter(g, s, types)[t] = {}
              /\ \A k \in DOMAIN GatesAfter(g, s, types)[t] :
                   GatesAfter(g, s, types)[t][k] = IF k \in DOMAIN g[t] THEN g[t][k] ELSE now
         /\ \A t \in Sighted \ types : GatesAfter(g, s, types)[t] = g[t]
         /\ "violation" \in types /\ s.people # 0 =>
              DOMAIN GatesAfter(g, s, types).violation \subseteq DOMAIN s.offences
         /\ GatesAfter(g, s, types).gather # SinceNever => "gather" \in types /\ s.people >= GatherMin
<1> DEFINE h == GatesAfter(g, s, types)
<1>1. ViolationGate(g.violation, s) \in Marks
      /\ (s.people # 0 => DOMAIN ViolationGate(g.violation, s) \subseteq DOMAIN s.offences)
  BY SinceIsMark, StrongAre DEF ViolationGate, Gates
<1>2. /\ WeaponGate(g.weapon, s) \in Marks
      /\ ~s.weapon => DOMAIN WeaponGate(g.weapon, s) = {}
      /\ \A k \in DOMAIN WeaponGate(g.weapon, s) :
           WeaponGate(g.weapon, s)[k] = IF k \in DOMAIN g.weapon THEN g.weapon[k] ELSE now
  <2>1. (IF s.weapon THEN {"t"} ELSE {}) \in SUBSET Keys
    BY StrongAre
  <2> QED
    BY <2>1, SinceIsMark DEF WeaponGate, Gates
<1>3. /\ FaceGate(g.face_recognition, s) \in Marks
      /\ DOMAIN FaceGate(g.face_recognition, s) = s.faces
      /\ \A k \in DOMAIN FaceGate(g.face_recognition, s) :
           FaceGate(g.face_recognition, s)[k] =
             IF k \in DOMAIN g.face_recognition THEN g.face_recognition[k] ELSE now
  BY SinceIsMark, StrongAre DEF FaceGate, Gates
<1>4. /\ GatherGate(g.gather, s, types) \in Int
      /\ GatherGate(g.gather, s, types) # SinceNever => "gather" \in types /\ s.people >= GatherMin
  BY ScenesAssumption, DetectionAssumption DEF GatherGate, Gates, SinceNever
<1>5. h \in Gates
  BY <1>1, <1>2, <1>3, <1>4 DEF GatesAfter, Gates
<1>6. ASSUME NEW t \in Sighted \cap types
      PROVE  /\ ~Positive(t, s) => DOMAIN h[t] = {}
             /\ \A k \in DOMAIN h[t] : h[t][k] = IF k \in DOMAIN g[t] THEN g[t][k] ELSE now
  <2>1. CASE t = "weapon"
    BY <1>2, <2>1 DEF GatesAfter, Positive
  <2>2. CASE t = "face_recognition"
    BY <1>3, <2>2 DEF GatesAfter, Positive
  <2> QED
    BY <2>1, <2>2 DEF Sighted, Sustained
<1>7. ASSUME NEW t \in Sighted \ types PROVE h[t] = g[t]
  <2>1. t = "weapon" \/ t = "face_recognition"
    BY DEF Sighted, Sustained
  <2> QED
    BY <2>1 DEF GatesAfter
<1>8. "violation" \in types /\ s.people # 0 => DOMAIN h.violation \subseteq DOMAIN s.offences
  BY <1>1 DEF GatesAfter
<1>9. h.gather # SinceNever => "gather" \in types /\ s.people >= GatherMin
  BY <1>4 DEF GatesAfter
<1> HIDE DEF h
<1>10. /\ h \in Gates
       /\ \A t \in Sighted \cap types :
            /\ ~Positive(t, s) => DOMAIN h[t] = {}
            /\ \A k \in DOMAIN h[t] : h[t][k] = IF k \in DOMAIN g[t] THEN g[t][k] ELSE now
       /\ \A t \in Sighted \ types : h[t] = g[t]
  BY <1>5, <1>6, <1>7
<1> QED
  BY <1>8, <1>9, <1>10 DEF h

\* ... and the history of the evaluations keeps up with them.
LEMMA StaysGrounded ==
  ASSUME now \in Nat, NEW g, NEW u, Grounded(g, u), NEW s \in Scenes, NEW types
  PROVE  Grounded(GatesAfter(g, s, types), Seen(u, s, types))
<1> DEFINE h == GatesAfter(g, s, types)
           v == Seen(u, s, types)
<1>1. /\ h \in Gates
      /\ \A t \in Sighted \cap types :
           /\ ~Positive(t, s) => DOMAIN h[t] = {}
           /\ \A k \in DOMAIN h[t] : h[t][k] = IF k \in DOMAIN g[t] THEN g[t][k] ELSE now
      /\ \A t \in Sighted \ types : h[t] = g[t]
  BY GatesMove DEF Grounded
<1>2. \A t \in Sighted : v[t] = IF t \notin types THEN u[t]
                                ELSE IF ~Positive(t, s) THEN SinceNever
                                ELSE IF u[t] = SinceNever THEN now ELSE u[t]
  BY DEF Seen
<1>3. v \in [Sighted -> Int]
  BY DEF Seen, Grounded, SinceNever
<1> HIDE DEF h, v
<1>4. ASSUME NEW t \in Sighted PROVE v[t] <= now
  BY <1>2 DEF Grounded, SinceNever
<1>5. ASSUME NEW t \in Sighted, NEW k \in DOMAIN h[t] PROVE v[t] # SinceNever /\ v[t] <= h[t][k]
  <2>1. CASE t \notin types
    BY <1>1, <1>2, <2>1 DEF Grounded
  <2>2. CASE t \in types
    <3>1. Positive(t, s) /\ h[t][k] = IF k \in DOMAIN g[t] THEN g[t][k] ELSE now
      BY <1>1, <2>2
    <3>2. u[t] \in Int /\ u[t] <= now /\ (k \in DOMAIN g[t] => u[t] # SinceNever /\ u[t] <= g[t][k])
      BY DEF Grounded
    <3> QED
      BY <1>2, <2>2, <3>1, <3>2 DEF SinceNever
  <2> QED
    BY <2>1, <2>2
<1> QED
  BY <1>1, <1>3, <1>4, <1>5 DEF Grounded, h, v

Sorts == {"0", "gather", "call", "phone_play"} \cup Sustained

\* What is found in a frame, or alarmed for it alone, its scene shows.
LEMMA WhatIsSeen ==
  ASSUME now \in Nat, NEW types, NEW s \in Scenes, NEW g \in Gates, NEW det, det = View(s, types, g)
  PROVE  /\ det.scene = s /\ det.byClass \in Nat /\ det.pairs \subseteq {"call", "phone_play"}
         /\ det.boxes \in BOOLEAN /\ IsFiniteSet(det.matches)
         /\ IsFiniteSet(DOMAIN det.scores) /\ det.scores \in [DOMAIN det.scores -> Nat]
         /\ FrameHitKeys(det) \subseteq Sorts /\ CollectAlertUnits(det, types) \subseteq Sorts
         /\ \A t \in types :
              t \in FrameHitKeys(det) \/ t \in CollectAlertUnits(det, types) => Shows(s, t)
         /\ \A t \in types \cap Sustained : BehaviorRawHit(det, t) => Shows(s, t)
<1> DEFINE h == GatesAfter(g, s, types)
<1>1. /\ h \in Gates
      /\ \A t \in Sighted \cap types : ~Positive(t, s) => DOMAIN h[t] = {}
      /\ "violation" \in types /\ s.people # 0 => DOMAIN h.violation \subseteq DOMAIN s.offences
      /\ h.gather # SinceNever => "gather" \in types /\ s.people >= GatherMin
  BY GatesMove
<1>2. /\ s.people \in Nat /\ s.weapon \in BOOLEAN /\ IsFiniteSet(s.faces)
      /\ IsFiniteSet(DOMAIN s.offences) /\ s.offences \in [DOMAIN s.offences -> Nat]
  BY ScenesAssumption
<1>3. det = ProcessResults(s, types, h)
  BY DEF View
<1> HIDE DEF h
<1>4. /\ det.scene = s /\ det.persons = PersonBoxes(s, types)
      /\ det.byClass = (IF "0" \in types THEN PersonBoxes(s, types) ELSE 0)
      /\ det.pairs = {m \in {"call", "phone_play"} : Pairing(s, m, types)}
      /\ det.gathering = (h.gather # SinceNever /\ now - h.gather >= MinDuration)
      /\ det.scores = (IF "violation" \in types /\ PersonBoxes(s, types) > 0 THEN s.offences ELSE Empty)
      /\ det.boxes = WeaponBoxes(s, types)
      /\ det.matches = (IF "face_recognition" \in types THEN s.faces ELSE {})
      /\ det.alerts = {t \in types \cap Sustained :
                         Lasting(h[t]) # {} /\ (t = "violation" => PersonBoxes(s, types) > 0)}
  BY <1>3 DEF ProcessResults
<1>5. PersonBoxes(s, types) \in Nat /\ (PersonBoxes(s, types) > 0 => s.people > 0)
      /\ ("gather" \in types => PersonBoxes(s, types) = s.people)
  BY <1>2 DEF PersonBoxes, CollectPerson
<1>6. IsFiniteSet(DOMAIN det.scores) /\ det.scores \in [DOMAIN det.scores -> Nat]
  <2>1. IsFiniteSet(DOMAIN Empty) /\ Empty \in [DOMAIN Empty -> Nat]
    BY FS_EmptySet DEF Empty
  <2> QED
    BY <1>2, <1>4, <2>1
<1>7. IsFiniteSet(det.matches) /\ det.boxes \in BOOLEAN
  BY <1>2, <1>4, FS_EmptySet DEF WeaponBoxes
<1>8. ASSUME NEW t \in det.alerts PROVE Shows(s, t)
  <2>1. t \in types \cap Sustained /\ DOMAIN h[t] # {} /\ (t = "violation" => s.people > 0)
    BY <1>4, <1>5 DEF Lasting
  <2>2. CASE t = "violation"
    <3>1. DOMAIN h.violation \subseteq DOMAIN s.offences /\ s.people > 0
      BY <1>1, <1>2, <2>1, <2>2
    <3> QED
      BY <2>1, <2>2, <3>1 DEF Shows
  <2>3. CASE t # "violation"
    BY <1>1, <2>1, <2>3 DEF Shows, Sighted, Sustained, Positive
  <2> QED
    BY <2>2, <2>3
<1>9. ASSUME NEW t \in types \cap Sustained, BehaviorRawHit(det, t) PROVE Shows(s, t)
  <2>1. CASE t = "violation" /\ \E k \in DOMAIN det.scores : det.scores[k] > 0
    <3>1. "violation" \in types /\ PersonBoxes(s, types) > 0 /\ DOMAIN s.offences # {}
      BY <1>4, <2>1 DEF Empty
    <3> QED
      BY <1>5, <2>1, <3>1 DEF Shows
  <2>2. CASE t = "weapon" /\ det.boxes
    BY <1>4, <2>2 DEF Shows, WeaponBoxes
  <2>3. CASE t = "face_recognition" /\ det.matches # {}
    BY <1>4, <2>3 DEF Shows
  <2> QED
    BY <1>8, <1>9, <2>1, <2>2, <2>3 DEF BehaviorRawHit
<1>10. \A t \in det.pairs : t \in {"call", "phone_play"} /\ Shows(s, t)
  BY <1>4 DEF Pairing, Shows
<1>11. det.byClass > 0 => Shows(s, "0")
  BY <1>2, <1>4, <1>5 DEF Shows
<1>12. ASSUME NEW t \in types, t \in FrameHitKeys(det) PROVE Shows(s, t)
  <2>1. CASE t = "gather" /\ det.persons >= GatherMin
    BY <1>4, <1>5, <2>1 DEF Shows
  <2>2. CASE t \in Sustained /\ BehaviorRawHit(det, t)
    BY <1>9, <2>2
  <2>3. CASE (t = "0" /\ det.byClass > 0) \/ t \in det.pairs
    BY <1>10, <1>11, <2>3
  <2> QED
    BY <1>12, <2>1, <2>2, <2>3 DEF FrameHitKeys
<1>13. ASSUME NEW t \in types, t \in CollectAlertUnits(det, types) PROVE Shows(s, t)
  <2>1. CASE t = "gather" /\ det.gathering
    BY <1>1, <1>4, <2>1 DEF Shows
  <2>2. CASE t \in det.alerts
    BY <1>8, <2>2
  <2>3. CASE (t = "0" /\ det.byClass > 0) \/ t \in det.pairs
    BY <1>10, <1>11, <2>3
  <2> QED
    BY <1>13, <2>1, <2>2, <2>3 DEF CollectAlertUnits
<1>14. FrameHitKeys(det) \subseteq Sorts /\ CollectAlertUnits(det, types) \subseteq Sorts
  BY <1>10 DEF FrameHitKeys, CollectAlertUnits, Sorts, Sustained
<1> QED
  BY <1>4, <1>5, <1>6, <1>7, <1>9, <1>10, <1>12, <1>13, <1>14

\* The sum of the scores of a frame is a number.
LEMMA ScoredIsNat ==
  ASSUME NEW scores, IsFiniteSet(DOMAIN scores), scores \in [DOMAIN scores -> Nat]
  PROVE  Scored(scores) \in Nat
<1> DEFINE key == SetToSeq(DOMAIN scores)
           n == Cardinality(DOMAIN scores)
<1>1. n \in Nat /\ ExistsBijection(1..n, DOMAIN scores)
  BY FS_CardinalityType
<1>2. PICK b \in Bijection(1..n, DOMAIN scores) : TRUE
  BY <1>1 DEF ExistsBijection
<1>3. b \in [1..n -> DOMAIN scores] /\ IsInjective(b)
  BY <1>2 DEF Bijection, Injection, IsInjective
<1>4. key \in [1..n -> DOMAIN scores]
  BY <1>3 DEF SetToSeq
<1> HIDE DEF key, n
<1>5. key \in Seq(DOMAIN scores) /\ Len(key) = n
  BY <1>1, <1>4
<1> DEFINE Sums(f) == f = [m \in 0..Len(key) |-> IF m = 0 THEN 0 ELSE f[m - 1] + scores[key[m]]]
           sum == CHOOSE f : Sums(f)
           step == [m \in 1..n |-> [x \in Nat |-> x + scores[key[m]]]]
<1>6. step \in [1..n -> [Nat -> Nat]]
  <2>1. \A m \in 1..n, x \in Nat : x + scores[key[m]] \in Nat
    BY <1>4
  <2> QED
    BY <2>1
<1>7. \A m \in 1..n, x \in Nat : step[m][x] = x + scores[key[m]]
  OBVIOUS
<1> HIDE DEF step
<1>8. PICK f \in [0..n -> Nat] : f[0] = 0 /\ \A m \in 1..n : f[m] = step[m][f[m - 1]]
  <2>1. 0 \in Nat /\ \A m \in 1..n : \A x \in Nat : step[m][x] \in Nat
    BY <1>6
  <2>2. Solvable(n, Nat, 0, step)
    BY <1>1, <2>1, Recursion
  <2> QED
    BY <2>2 DEF Solvable
<1>9. Sums(f)
  <2>1. \A m \in 0..n : f[m] = IF m = 0 THEN 0 ELSE f[m - 1] + scores[key[m]]
    <3> SUFFICES ASSUME NEW m \in 0..n, m # 0 PROVE f[m] = f[m - 1] + scores[key[m]]
      BY <1>8
    <3>1. m \in 1..n /\ f[m - 1] \in Nat
      BY <1>1, <1>8
    <3> QED
      BY <1>7, <1>8, <3>1
  <2> QED
    BY <1>5, <2>1
<1>10. Sums(sum)
  BY <1>9
<1> HIDE DEF sum
<1>11. sum[0] = 0 /\ \A m \in 1..n : sum[m] = sum[m - 1] + scores[key[m]]
  <2>1. sum = [m \in 0..n |-> IF m = 0 THEN 0 ELSE sum[m - 1] + scores[key[m]]]
    BY <1>5, <1>10
  <2>2. \A m \in 0..n : sum[m] = IF m = 0 THEN 0 ELSE sum[m - 1] + scores[key[m]]
    BY <2>1, Zenon
  <2>3. 0 \in 0..n /\ \A m \in 1..n : m \in 0..n /\ m # 0
    BY <1>1
  <2> QED
    BY <2>2, <2>3
<1> DEFINE S == {m \in 0..n : sum[m] \in Nat}
<1>12. 0 \in S /\ \A m \in 1..n : m - 1 \in S => m \in S
  BY <1>1, <1>4, <1>11
<1> HIDE DEF S
<1>13. n \in S
  BY <1>1, <1>12, CountUp
<1> QED
  BY <1>5, <1>13 DEF Scored, S, sum, key

\* How good a frame is as the picture of a round is a number.
LEMMA SortsFinite == IsFiniteSet(Sorts)
<1> DEFINE f == <<"0", "gather", "call", "phone_play", "violation", "weapon", "face_recognition">>
<1>1. f \in Surjection(1..7, Sorts)
  <2>1. f \in [1..7 -> Sorts]
    BY DEF Sorts, Sustained
  <2>2. \A t \in Sorts : \E i \in 1..7 : f[i] = t
    BY DEF Sorts, Sustained
  <2> HIDE DEF f
  <2> QED
    BY <2>1, <2>2 DEF Surjection
<1>2. IsFiniteSet(1..7)
  <2> DEFINE n == 7
  <2>1. n \in Int
    OBVIOUS
  <2> HIDE DEF n
  <2>2. IsFiniteSet(1..n)
    BY <2>1, FS_Interval
  <2> QED
    BY <2>2 DEF n
<1> QED
  BY <1>1, <1>2, FS_Surjection

LEMMA QualityIsInt ==
  ASSUME now \in Nat, NEW types, NEW s \in Scenes, NEW det, Looked(det, s, types), NEW kept
  PROVE  Quality(det, kept) \in Int
<1>1. /\ det.byClass \in Nat /\ det.pairs \subseteq {"call", "phone_play"}
      /\ IsFiniteSet(det.matches) /\ FrameHitKeys(det) \subseteq Sorts
      /\ IsFiniteSet(DOMAIN det.scores) /\ det.scores \in [DOMAIN det.scores -> Nat]
  <2>1. PICK g \in Gates : det = View(s, types, g)
    BY DEF Looked
  <2> QED
    BY <2>1, WhatIsSeen
<1>2. Cardinality(FrameHitKeys(det) \cap kept) \in Nat
  BY <1>1, SortsFinite, FS_Subset, FS_CardinalityType
<1>3. Cardinality(det.pairs) \in Nat
  <2>1. det.pairs \subseteq Sorts
    BY <1>1 DEF Sorts
  <2> QED
    BY <2>1, SortsFinite, FS_Subset, FS_CardinalityType
<1>4. Cardinality(det.matches) \in Nat
  BY <1>1, FS_CardinalityType
<1>5. Boxes(det) \in Nat
  BY <1>1, <1>3, <1>4 DEF Boxes
<1>6. Scored(det.scores) \in Nat
  BY <1>1, ScoredIsNat
<1> QED
  BY <1>2, <1>5, <1>6 DEF Quality, ConfidenceMass

LEMMA DoneIs ==
  ASSUME NEW types, NEW d \in Results(types), Done(d, types)
  PROVE  /\ Len(d.dets) \in Nat /\ Len(d.frames) = Len(d.dets)
         /\ DOMAIN d.dets = 1..Len(d.dets) /\ DOMAIN d.frames = 1..Len(d.dets)
         /\ \A i \in 1..Len(d.dets) :
              d.frames[i].scene \in Scenes /\ Looked(d.dets[i], d.frames[i].scene, types)
<1>1. d.frames \in Seq(Frames) /\ d.dets \in Seq(Views(types)) /\ Len(d.dets) = Len(d.frames)
  BY DEF Results, Done
<1>2. \A i \in 1..Len(d.dets) : d.frames[i] \in Frames
  BY <1>1
<1>3. \A i \in 1..Len(d.dets) : d.frames[i].scene \in Scenes
  BY <1>2 DEF Frames
<1>4. \A i \in 1..Len(d.dets) : Looked(d.dets[i], d.frames[i].scene, types)
  BY DEF Done
<1> QED
  BY <1>1, <1>3, <1>4

\* The picture of a round is one of its frames.
LEMMA PickIsOne ==
  ASSUME now \in Nat, NEW types, NEW d \in Results(types), Done(d, types), d.dets # <<>>, NEW kept
  PROVE  PickIndex(d.dets, kept) \in 1..Len(d.dets)
<1> DEFINE n == Len(d.dets)
           q == [i \in 1..n |-> Quality(d.dets[i], kept)]
<1>1. /\ n \in Nat /\ n > 0 /\ DOMAIN d.dets = 1..n
      /\ \A i \in 1..n :
           d.frames[i].scene \in Scenes /\ Looked(d.dets[i], d.frames[i].scene, types)
  <2>1. d.dets \in Seq(Views(types))
    BY DEF Results
  <2> QED
    BY <2>1, DoneIs
<1>2. \A i \in 1..n : Quality(d.dets[i], kept) \in Int
  BY <1>1, QualityIsInt
<1> HIDE DEF n
<1>3. q \in [1..n -> Int] /\ \A i \in 1..n : q[i] = Quality(d.dets[i], kept)
  BY <1>2
<1> HIDE DEF q
<1>4. PICK i \in 1..n : \A j \in 1..n : q[i] > q[j] \/ (q[i] = q[j] /\ i <= j)
  BY <1>1, <1>3, BestOf
<1>5. \E b \in DOMAIN d.dets :
        \A j \in DOMAIN d.dets :
          \/ Quality(d.dets[b], kept) > Quality(d.dets[j], kept)
          \/ Quality(d.dets[b], kept) = Quality(d.dets[j], kept) /\ b <= j
  BY <1>1, <1>3, <1>4
<1>6. PickIndex(d.dets, kept) \in DOMAIN d.dets
  BY <1>5 DEF PickIndex
<1> QED
  BY <1>1, <1>6 DEF n

LEMMA HitIsShown ==
  ASSUME now \in Nat, NEW types, NEW s \in Scenes, NEW det, Looked(det, s, types),
         NEW t \in types, t \in FrameHitKeys(det)
  PROVE  Shows(s, t)
<1>1. PICK g \in Gates : det = View(s, types, g)
  BY DEF Looked
<1>2. \A e \in types : e \in FrameHitKeys(det) => Shows(s, e)
  BY <1>1, WhatIsSeen
<1> QED
  BY <1>2

LEMMA UnitIsShown ==
  ASSUME now \in Nat, NEW types, NEW s \in Scenes, NEW det, Looked(det, s, types)
  PROVE  /\ det.pairs \subseteq {"call", "phone_play"}
         /\ \A t \in CollectAlertUnits(det, types) : t \in types /\ Shows(s, t)
<1>1. PICK g \in Gates : det = View(s, types, g)
  BY DEF Looked
<1>2. /\ det.pairs \subseteq {"call", "phone_play"}
      /\ \A t \in types : t \in CollectAlertUnits(det, types) => Shows(s, t)
  BY <1>1, WhatIsSeen
<1> QED
  BY <1>2 DEF CollectAlertUnits

\* What a round keeps is shown by as many of its frames.
LEMMA KeptIsShared ==
  ASSUME now \in Nat, NEW types, NEW d \in Results(types), Done(d, types),
         NEW t \in KeptKeys(d.dets) \cap types
  PROVE  10 * Share(d.frames, t) >= HitTenths * Len(d.frames)
<1> DEFINE n == Len(d.dets)
           H == {i \in DOMAIN d.dets : t \in FrameHitKeys(d.dets[i])}
           W == {i \in DOMAIN d.frames : Shows(d.frames[i].scene, t)}
<1>1. /\ n \in Nat /\ DOMAIN d.dets = 1..n /\ DOMAIN d.frames = 1..n /\ n = Len(d.frames)
      /\ \A i \in 1..n :
           d.frames[i].scene \in Scenes /\ Looked(d.dets[i], d.frames[i].scene, types)
  BY DoneIs
<1>2. H \subseteq W
  <2> SUFFICES ASSUME NEW i \in 1..n, t \in FrameHitKeys(d.dets[i])
               PROVE  Shows(d.frames[i].scene, t)
    BY <1>1
  <2> QED
    BY <1>1, HitIsShown
<1>3. IsFiniteSet(W)
  <2>1. IsFiniteSet(1..n) /\ W \in SUBSET (1..n)
    BY <1>1, FS_Interval
  <2> QED
    BY <2>1, FS_Subset
<1>4. Cardinality(H) <= Cardinality(W) /\ Cardinality(H) \in Nat /\ Cardinality(W) \in Nat
  BY <1>2, <1>3, FS_Subset, FS_CardinalityType
<1>5. 10 * Cardinality(H) >= HitTenths * n
  BY DEF KeptKeys, CountHits
<1>6. HitTenths * n \in Int
  BY <1>1, DetectionAssumption
<1> HIDE DEF n, H, W
<1>7. 10 * Cardinality(W) >= HitTenths * n
  BY <1>4, <1>5, <1>6
<1> QED
  BY <1>1, <1>7 DEF W, n, Share

\* One frame more.
LEMMA OneMore ==
  ASSUME now \in Nat, NEW types, NEW d \in Results(types), Done(d, types), NEW f \in Frames
  PROVE  /\ Inferred(d, f, types) \in Results(types) /\ Done(Inferred(d, f, types), types)
         /\ Len(Inferred(d, f, types).dets) = Len(d.dets) + 1
<1> DEFINE g == GatesAfter(d.gates, f.scene, types)
           u == Seen(d.unbroken, f.scene, types)
           det == View(f.scene, types, d.gates)
           e == Inferred(d, f, types)
<1>1. f.scene \in Scenes /\ d.gates \in Gates /\ d.frames \in Seq(Frames) /\ d.dets \in Seq(Views(types))
  BY DEF Results, Frames
<1>2. Grounded(g, u)
  BY <1>1, StaysGrounded DEF Done
<1>3. det \in Views(types) /\ Looked(det, f.scene, types)
  BY <1>1 DEF Views, Looked
<1>4. /\ e = [gates |-> g, unbroken |-> u, frames |-> Append(d.frames, f), dets |-> Append(d.dets, det)]
      /\ det = ProcessResults(f.scene, types, g)
  BY DEF Inferred, View
<1> HIDE DEF e, det, g, u
<1>5. e \in Results(types)
  BY <1>1, <1>2, <1>3, <1>4 DEF Results, Grounded
<1>6. Len(e.dets) = Len(d.dets) + 1 /\ Len(e.frames) = Len(e.dets) /\ Len(d.frames) = Len(d.dets)
      /\ Len(d.dets) \in Nat
  BY <1>1, <1>4 DEF Done
<1>7. e.dets[Len(e.dets)] = det /\ e.frames[Len(e.dets)] = f
  BY <1>1, <1>4, <1>6
<1>8. ASSUME NEW i \in 1..Len(e.dets) PROVE Looked(e.dets[i], e.frames[i].scene, types)
  <2>1. CASE i = Len(e.dets)
    BY <1>3, <1>7, <2>1
  <2>2. CASE i # Len(e.dets)
    <3>1. i \in 1..Len(d.dets) /\ e.dets[i] = d.dets[i] /\ e.frames[i] = d.frames[i]
      BY <1>1, <1>4, <1>6, <2>2
    <3> QED
      BY <3>1 DEF Done
  <2> QED
    BY <2>1, <2>2
<1>9. Done(e, types)
  BY <1>2, <1>4, <1>6, <1>7, <1>8 DEF Done
<1> QED
  BY <1>5, <1>6, <1>9 DEF e

\* The detector goes through the frames of a round.
LEMMA InferGoesThrough ==
  ASSUME now \in Nat, Grounded(gates, unbroken), NEW frames \in Seq(Frames), NEW types, NEW failed
  PROVE  /\ Infer(frames, types, failed) \in Results(types)
         /\ Done(Infer(frames, types, failed), types)
         /\ Len(Infer(frames, types, failed).dets) <= Len(frames)
<1> DEFINE n == Len(frames)
           A == {d \in Results(types) : Done(d, types)}
           a == [gates |-> gates, unbroken |-> unbroken, frames |-> <<>>, dets |-> <<>>]
           next(m, x) == IF m \in failed THEN x ELSE Inferred(x, frames[m], types)
           step == [m \in 1..n |-> [x \in A |-> next(m, x)]]
           Steps(f) == f = [m \in 0..n |-> IF m = 0 THEN a ELSE next(m, f[m - 1])]
           done == CHOOSE f : Steps(f)
<1>1. n \in Nat /\ \A m \in 1..n : frames[m] \in Frames
  OBVIOUS
<1>2. a \in A
  <2>1. a \in Results(types)
    BY DEF Results, Grounded
  <2>2. Done(a, types)
    BY DEF Done
  <2> QED
    BY <2>1, <2>2
<1>3. ASSUME NEW m \in 1..n, NEW x \in A
      PROVE  /\ next(m, x) \in A /\ Len(x.dets) \in Nat
             /\ Len(next(m, x).dets) \in {Len(x.dets), Len(x.dets) + 1}
  BY <1>1, OneMore, DoneIs
<1>4. Infer(frames, types, failed) = done[n]
  BY DEF Infer
<1>5. A = {d \in Results(types) : Done(d, types)}
  OBVIOUS
<1> HIDE DEF n, A, a, next
<1>6. \A m \in 1..n : \A x \in A : step[m][x] = next(m, x) /\ step[m][x] \in A
  BY <1>3
<1> HIDE DEF step
<1>7. Solvable(n, A, a, step)
  BY <1>1, <1>2, <1>6, Recursion
<1>8. PICK f \in [0..n -> A] : f[0] = a /\ \A m \in 1..n : f[m] = step[m][f[m - 1]]
  BY <1>7 DEF Solvable
<1>9. Steps(f)
  <2>1. \A m \in 0..n : f[m] = IF m = 0 THEN a ELSE next(m, f[m - 1])
    <3> SUFFICES ASSUME NEW m \in 0..n, m # 0 PROVE f[m] = next(m, f[m - 1])
      BY <1>8
    <3>1. m \in 1..n /\ f[m - 1] \in A
      BY <1>1, <1>8
    <3> QED
      BY <1>6, <1>8, <3>1
  <2> QED
    BY <2>1
<1>10. Steps(done)
  BY <1>9
<1> HIDE DEF done
<1>11. done[0] = a /\ \A m \in 1..n : done[m] = next(m, done[m - 1])
  <2>1. \A m \in 0..n : done[m] = IF m = 0 THEN a ELSE next(m, done[m - 1])
    BY <1>10, Zenon
  <2>2. 0 \in 0..n /\ \A m \in 1..n : m \in 0..n /\ m # 0
    BY <1>1
  <2> QED
    BY <2>1, <2>2
<1> DEFINE S == {m \in 0..n : done[m] \in A /\ Len(done[m].dets) <= m}
<1>12. 0 \in S
  BY <1>1, <1>2, <1>11 DEF a
<1>13. ASSUME NEW m \in 1..n, m - 1 \in S PROVE m \in S
  <2>1. done[m - 1] \in A /\ Len(done[m - 1].dets) <= m - 1 /\ done[m] = next(m, done[m - 1])
    BY <1>11, <1>13
  <2>2. done[m] \in A /\ Len(done[m - 1].dets) \in Nat
        /\ Len(done[m].dets) \in {Len(done[m - 1].dets), Len(done[m - 1].dets) + 1}
    BY <1>3, <2>1
  <2>3. m \in Nat /\ m \in 0..n
    BY <1>1
  <2> QED
    BY <2>1, <2>2, <2>3
<1> HIDE DEF S
<1>14. n \in S
  <2>1. 0..n \subseteq S
    BY <1>1, <1>12, <1>13, CountUp
  <2> QED
    BY <1>1, <2>1
<1> QED
  BY <1>4, <1>5, <1>14 DEF S, n

-----------------------------------------------------------------------------
(* What is saved.                                                           *)

\* A round alarms nothing that it did not keep, and but for a gathering
\* nothing that its picture does not show.
LEMMA FilteredIsShown ==
  ASSUME now \in Nat, NEW types, NEW s \in Scenes, NEW det, Looked(det, s, types), NEW kept,
         NEW t \in CollectAlertUnits(FilterToKept(det, kept), types)
  PROVE  t \in types \cap kept /\ (t # "gather" => Shows(s, t))
<1> DEFINE F == FilterToKept(det, kept)
<1>1. PICK g \in Gates : det = View(s, types, g)
  BY DEF Looked
<1>2. /\ F.byClass = (IF "0" \in kept THEN det.byClass ELSE 0)
      /\ F.pairs = det.pairs \cap kept /\ F.gathering = ("gather" \in kept)
      /\ F.alerts = {e \in kept \cap Sustained : BehaviorRawHit(det, e)}
  BY <1>1 DEF View, ProcessResults, FilterToKept
<1>3. /\ \A e \in types : e \in FrameHitKeys(det) => Shows(s, e)
      /\ \A e \in types \cap Sustained : BehaviorRawHit(det, e) => Shows(s, e)
  BY <1>1, WhatIsSeen
<1> HIDE DEF F
<1>4. t \in types
  BY DEF CollectAlertUnits
<1>5. CASE t = "0" /\ F.byClass > 0
  <2>1. t \in kept /\ t \in FrameHitKeys(det)
    BY <1>2, <1>5 DEF FrameHitKeys
  <2> QED
    BY <1>3, <1>4, <2>1
<1>6. CASE t \in F.pairs
  <2>1. t \in kept /\ t \in FrameHitKeys(det)
    BY <1>2, <1>6 DEF FrameHitKeys
  <2> QED
    BY <1>3, <1>4, <2>1
<1>7. CASE t = "gather" /\ F.gathering
  BY <1>2, <1>4, <1>7
<1>8. CASE t \in F.alerts
  BY <1>2, <1>3, <1>4, <1>8
<1> QED
  BY <1>5, <1>6, <1>7, <1>8 DEF CollectAlertUnits, F

LEMMA FilterKeepsScene ==
  ASSUME NEW types, NEW s \in Scenes, NEW det, Looked(det, s, types), NEW kept
  PROVE  FilterToKept(det, kept).scene = s
<1>1. PICK g \in Gates : det = View(s, types, g)
  BY DEF Looked
<1> QED
  BY <1>1 DEF View, ProcessResults, FilterToKept

\* A snapshot of alerts that are earned.
LEMMA SnapshotEarns ==
  ASSUME NEW s \in Scenes, NEW det, det.scene = s, NEW window, NEW c, c \in Rows,
         SaveSnapshot(det, window, c), cfg' = c, maxFrames' = maxFrames,
         \A t \in CollectAlertUnits(det, c.types) :
           /\ t \in c.types /\ ((t = "gather" => maxFrames = 1) => Shows(s, t))
           /\ maxFrames > 1 => 10 * Share(window, t) >= HitTenths * Len(window)
  PROVE  /\ AlertsAreEarned' /\ alert'.types \subseteq CollectAlertUnits(det, c.types)
         /\ alert'.types # {} => alert'.at = now
<1> DEFINE all == CollectAlertUnits(det, c.types)
           units == FilterPersonZone(all, s, c.zone)
<1>1. \/ alert' = NoAlert
      \/ alert' = [types |-> {}, at |-> now, scene |-> s, window |-> window]
      \/ alert' = [types |-> units, at |-> now, scene |-> s, window |-> window]
  BY DEF SaveSnapshot
<1>2. c.zone \in BOOLEAN /\ s.inZone \in BOOLEAN
  BY ScenesAssumption
<1>3. units \subseteq all /\ ("0" \in units /\ c.zone => s.inZone)
  BY <1>2 DEF FilterPersonZone
<1> HIDE DEF all, units
<1>4. CASE alert'.types = {}
  BY <1>4 DEF AlertsAreEarned
<1>5. CASE alert' = [types |-> units, at |-> now, scene |-> s, window |-> window]
  <2>1. alert'.types = units /\ alert'.at = now /\ alert'.scene = s /\ alert'.window = window
    BY <1>5
  <2>2. ASSUME NEW t \in alert'.types
        PROVE  /\ t \in cfg'.types /\ ((t = "gather" => maxFrames' = 1) => Shows(alert'.scene, t))
               /\ (t = "0" /\ cfg'.zone => alert'.scene.inZone)
               /\ (maxFrames' > 1 =>
                     10 * Share(alert'.window, t) >= HitTenths * Len(alert'.window))
    <3>1. t \in all
      BY <1>3, <2>1
    <3> QED
      BY <1>3, <2>1, <3>1 DEF all
  <2> QED
    BY <1>3, <2>1, <2>2 DEF AlertsAreEarned, all
<1> QED
  BY <1>1, <1>4, <1>5 DEF NoAlert, all

\* The conclusion of a round of several frames,
LEMMA RoundEarns ==
  ASSUME now \in Nat, NEW c \in Rows, NEW d \in Results(c.types), Done(d, c.types), d.dets # <<>>,
         maxFrames \in Nat, maxFrames > 1, Conclude(d, c), cfg' = c, maxFrames' = maxFrames
  PROVE  AlertsAreEarned' /\ SightingsLasted'
<1> DEFINE kept == KeptKeys(d.dets)
           best == PickIndex(d.dets, kept)
           det == d.dets[best]
           s == d.frames[best].scene
           F == FilterToKept(det, kept)
<1>1. best \in 1..Len(d.dets)
  BY PickIsOne
<1>2. s \in Scenes /\ Looked(det, s, c.types)
  BY <1>1, DoneIs
<1>3. SaveSnapshot(F, d.frames, c)
  BY DEF Conclude
<1>4. F.scene = s
  BY <1>2, FilterKeepsScene
<1>5. kept = KeptKeys(d.dets)
  OBVIOUS
<1>6. F = FilterToKept(det, kept)
  OBVIOUS
<1> HIDE DEF kept, best, det, s, F
<1>7. ASSUME NEW t \in CollectAlertUnits(F, c.types)
      PROVE  /\ t \in c.types /\ ((t = "gather" => maxFrames = 1) => Shows(s, t))
             /\ maxFrames > 1 => 10 * Share(d.frames, t) >= HitTenths * Len(d.frames)
  <2>1. t \in c.types \cap kept /\ (t # "gather" => Shows(s, t))
    BY <1>2, <1>6, FilteredIsShown
  <2>2. 10 * Share(d.frames, t) >= HitTenths * Len(d.frames)
    BY <1>5, <2>1, KeptIsShared
  <2> QED
    BY <2>1, <2>2
<1>8. AlertsAreEarned'
  BY <1>2, <1>3, <1>4, <1>7, SnapshotEarns
<1>9. SightingsLasted'
  BY DEF SightingsLasted
<1> QED
  BY <1>8, <1>9

\* ... and of a single frame.
LEMMA SingleEarns ==
  ASSUME now \in Nat, NEW c \in Rows, NEW d \in Results(c.types), Done(d, c.types),
         Len(d.dets) = 1, maxFrames = 1, ConcludeSingle(d, c), cfg' = c, maxFrames' = maxFrames,
         unbroken' = d.unbroken
  PROVE  AlertsAreEarned' /\ SightingsLasted'
<1> DEFINE det == d.dets[1]
           s == d.frames[1].scene
<1>1. 1 \in 1..Len(d.dets)
  OBVIOUS
<1>2. s \in Scenes /\ Looked(det, s, c.types) /\ d.dets # <<>>
  BY <1>1, DoneIs
<1>3. det = ProcessResults(s, c.types, d.gates)
  BY <1>2 DEF Done
<1>4. SaveSnapshot(det, d.frames, c)
  BY DEF ConcludeSingle
<1>5. det.scene = s /\ \A t \in Sighted : t \in det.alerts => Lasting(d.gates[t]) # {}
  BY <1>3 DEF ProcessResults, Sighted
<1> HIDE DEF det, s
<1>6. /\ det.pairs \subseteq {"call", "phone_play"}
      /\ \A t \in CollectAlertUnits(det, c.types) : t \in c.types /\ Shows(s, t)
  BY <1>2, UnitIsShown
<1>7. \A t \in CollectAlertUnits(det, c.types) :
        /\ t \in c.types /\ ((t = "gather" => maxFrames = 1) => Shows(s, t))
        /\ maxFrames > 1 => 10 * Share(d.frames, t) >= HitTenths * Len(d.frames)
  BY <1>6
<1>8. /\ AlertsAreEarned' /\ alert'.types \subseteq CollectAlertUnits(det, c.types)
      /\ alert'.types # {} => alert'.at = now
  BY <1>2, <1>4, <1>5, <1>7, SnapshotEarns
<1>9. ASSUME NEW t \in alert'.types \cap Sighted
       PROVE  unbroken'[t] # SinceNever /\ alert'.at - unbroken'[t] >= MinDuration
  <2>1. t \in det.alerts
    <3>1. t \in CollectAlertUnits(det, c.types) /\ (t = "weapon" \/ t = "face_recognition")
      BY <1>8 DEF Sighted, Sustained
    <3> QED
      BY <1>6, <3>1 DEF CollectAlertUnits
  <2>2. PICK k \in DOMAIN d.gates[t] : now - d.gates[t][k] >= MinDuration
    BY <1>5, <2>1 DEF Lasting
  <2>3. d.unbroken[t] # SinceNever /\ d.unbroken[t] <= d.gates[t][k] /\ d.unbroken[t] \in Int
    BY DEF Done, Grounded
  <2>4. d.gates[t] \in Marks
    <3>1. t = "weapon" \/ t = "face_recognition"
      BY DEF Sighted, Sustained
    <3> QED
      BY <3>1 DEF Results, Gates
  <2>5. d.gates[t][k] \in Int /\ alert'.at = now /\ MinDuration \in Nat
    BY <1>8, <2>4, MarksAre, DetectionAssumption
  <2> QED
    BY <2>2, <2>3, <2>5
<1>10. SightingsLasted'
  BY <1>9 DEF SightingsLasted
<1> QED
  BY <1>8, <1>10

\* The detector's part of a step, for the row as it is.
LEMMA GroundedLater ==
  ASSUME NEW g, NEW u, Grounded(g, u), gates' = g, unbroken' = u,
         now \in Nat, now' \in Nat, now' >= now
  PROVE  Grounded(gates, unbroken)'
<1>1. \A t \in Sighted : unbroken'[t] <= now'
  BY DEF Grounded
<1> QED
  BY <1>1 DEF Grounded

LEMMA DetectEarns ==
  ASSUME DetectionInv, NEW frames \in Seq(Frames), maxFrames = 1 => Len(frames) = 1,
         Detect(frames, row), cfg' = row, maxFrames' = maxFrames, now' \in Nat, now' >= now
  PROVE  Grounded(gates, unbroken)' /\ AlertsAreEarned' /\ SightingsLasted'
<1>1. now \in Nat /\ maxFrames \in Nat /\ maxFrames > 0 /\ row \in Rows /\ Grounded(gates, unbroken)
  BY DEF DetectionInv, DetectionTypes
<1>2. ASSUME alert' = NoAlert PROVE AlertsAreEarned' /\ SightingsLasted'
  BY <1>2 DEF NoAlert, AlertsAreEarned, SightingsLasted
<1>3. CASE row.types = {}
  BY <1>1, <1>2, <1>3, GroundedLater DEF Detect, NoInference, NothingSaved
<1>4. CASE row.types # {}
  <2>1. PICK failed : LET done == Infer(frames, row.types, failed)
                    IN  /\ gates' = done.gates /\ unbroken' = done.unbroken
                        /\ IF done.dets = <<>> THEN NothingSaved
                           ELSE IF maxFrames = 1 THEN ConcludeSingle(done, row)
                           ELSE Conclude(done, row)
    BY <1>4 DEF Detect
  <2> DEFINE d == Infer(frames, row.types, failed)
  <2>2. d \in Results(row.types) /\ Done(d, row.types) /\ Len(d.dets) <= Len(frames)
    BY <1>1, InferGoesThrough
  <2>3. /\ gates' = d.gates /\ unbroken' = d.unbroken
        /\ IF d.dets = <<>> THEN NothingSaved
           ELSE IF maxFrames = 1 THEN ConcludeSingle(d, row) ELSE Conclude(d, row)
    BY <2>1
  <2> HIDE DEF d
  <2>4. Grounded(gates, unbroken)'
    BY <1>1, <2>2, <2>3, GroundedLater DEF Done
  <2>5. CASE d.dets = <<>>
    BY <1>2, <2>3, <2>4, <2>5 DEF NothingSaved
  <2>6. CASE d.dets # <<>> /\ maxFrames = 1
    <3>1. d.dets \in Seq(Views(row.types)) /\ Len(d.dets) <= 1
      BY <2>2, <2>6 DEF Results
    <3>2. Len(d.dets) = 1
      BY <2>6, <3>1
    <3> QED
      BY <1>1, <2>2, <2>3, <2>4, <2>6, <3>2, SingleEarns
  <2>7. CASE d.dets # <<>> /\ maxFrames # 1
    BY <1>1, <2>2, <2>3, <2>4, <2>7, RoundEarns
  <2> QED
    BY <2>5, <2>6, <2>7
<1> QED
  BY <1>3, <1>4

\* A step in which the detector concludes nothing: at most sleep is alarmed.
LEMMA NothingElse ==
  ASSUME DetectionInv, DetectionTypes', now' >= now, UNCHANGED <<gates, unbroken>>,
         NothingSaved \/ FatigueAlert
  PROVE  DetectionInv'
<1>1. Grounded(gates, unbroken)'
  BY GroundedLater DEF DetectionInv, DetectionTypes
<1>2. alert'.types \subseteq {Fatigue}
  BY DEF NothingSaved, FatigueAlert, NoAlert
<1>3. AlertsAreEarned' /\ SightingsLasted'
  BY <1>2 DEF AlertsAreEarned, SightingsLasted, Sighted, Sustained, Fatigue
<1> QED
  BY <1>1, <1>3 DEF DetectionInv

LEMMA RoundOfEarns ==
  ASSUME DetectionInv, gates' \in Gates => DetectionTypes', NEW frames \in Seq(Frames),
         maxFrames = 1 => Len(frames) = 1, NEW sleepy, RoundOf(frames, sleepy),
         cfg' = row, maxFrames' = maxFrames, now' \in Nat, now' >= now
  PROVE  DetectionInv'
<1>1. now \in Nat /\ Grounded(gates, unbroken)
  BY DEF DetectionInv, DetectionTypes
<1>2. CASE sleepy
  <2> DEFINE d == Infer(frames, row.types, {})
  <2>1. Done(d, row.types) /\ gates' = d.gates /\ unbroken' = d.unbroken /\ FatigueAlert
    BY <1>1, <1>2, InferGoesThrough DEF RoundOf, InferOnly
  <2> HIDE DEF d
  <2>2. Grounded(gates, unbroken)'
    BY <1>1, <2>1, GroundedLater DEF Done
  <2>3. AlertsAreEarned' /\ SightingsLasted'
    BY <2>1 DEF FatigueAlert, AlertsAreEarned, SightingsLasted, Sighted, Sustained, Fatigue
  <2> QED
    BY <2>2, <2>3 DEF DetectionInv, Grounded
<1>3. CASE ~sleepy
  BY <1>1, <1>3, DetectEarns DEF RoundOf, DetectionInv, Grounded
<1> QED
  BY <1>2, <1>3

-----------------------------------------------------------------------------
(* The loop.                                                                *)

LEMMA DetectionStarts == DetectionInit => DetectionInv
<1> SUFFICES ASSUME DetectionInit PROVE DetectionInv
  OBVIOUS
<1> USE DEF DetectionInit
<1>1. Empty \in Marks /\ DOMAIN Empty = {}
  <2>1. Empty \in [{} -> Int] /\ {} \in SUBSET Keys
    BY DEF Empty
  <2> QED
    BY <2>1, MarksAre DEF Empty
<1>2. gates \in Gates
  BY <1>1 DEF Gates, SinceNever
<1>3. Grounded(gates, unbroken)
  <2>1. \A t \in Sighted : DOMAIN gates[t] = {}
    BY <1>1 DEF Sighted, Sustained
  <2> QED
    BY <1>2, <2>1 DEF Grounded, SinceNever
<1>4. DetectionTypes
  <2>1. collector \in Collectors
    BY DEF Collectors
  <2>2. maxFrames \in Nat /\ maxFrames > 0 /\ cfg \in Rows
    BY DetectionAssumption
  <2> QED
    BY <1>2, <2>1, <2>2 DEF DetectionTypes
<1>5. AlertsAreEarned /\ SightingsLasted
  BY DEF AlertsAreEarned, SightingsLasted, NoAlert
<1> QED
  BY <1>3, <1>4, <1>5 DEF DetectionInv

\* What the loop and the collector do to the types.
LEMMA LoopTypes ==
  ASSUME DetectionTypes
  PROVE  /\ Current \in Rows
         /\ Advance => now' \in Nat /\ now' > 0 /\ now' >= now
         /\ \A scene \in Scenes :
              LET c == Fed([at |-> now, scene |-> scene])
              IN  c \in Collectors /\ Closed(c) \in Collectors /\ c.frames \in Seq(Frames)
         /\ ResetCapture => collector' \in Collectors
<1> USE DEF DetectionTypes
<1>1. Current \in Rows
  BY DEF Current
<1>2. Advance => now' \in Nat /\ now' > 0 /\ now' >= now
  BY DetectionAssumption DEF Advance
<1>3. Opened \in Collectors
  <2>1. collector \in Collectors /\ now \in Nat /\ <<>> \in Seq(Frames)
    OBVIOUS
  <2> QED
    BY <2>1 DEF Opened, Collectors
<1>4. ASSUME NEW scene \in Scenes
      PROVE  LET c == Fed([at |-> now, scene |-> scene])
             IN  c \in Collectors /\ Closed(c) \in Collectors /\ c.frames \in Seq(Frames)
  <2> DEFINE f == [at |-> now, scene |-> scene]
             c == Fed(f)
  <2>1. f \in Frames
    BY DEF Frames
  <2> HIDE DEF f
  <2>2. c \in Collectors
    <3> DEFINE o == Opened
               grown == Append(o.frames, f)
    <3>1. c = o \/ c = [o EXCEPT !.frames = grown, !.lastKeep = now]
      BY DEF Fed
    <3>2. o \in Collectors /\ now \in Nat
      BY <1>3
    <3> HIDE DEF o
    <3>3. grown \in Seq(Frames)
      BY <2>1, <3>2 DEF Collectors
    <3> HIDE DEF grown
    <3>4. [o EXCEPT !.frames = grown, !.lastKeep = now] \in Collectors
      BY <3>2, <3>3 DEF Collectors
    <3> QED
      BY <3>1, <3>2, <3>4
  <2> HIDE DEF c
  <2>3. Closed(c) \in Collectors
    <3> DEFINE at == IF c.t0 + Interval > now THEN c.t0 + Interval ELSE now
    <3>1. at \in Nat /\ <<>> \in Seq(Frames)
      BY <2>2, DetectionAssumption DEF Collectors
    <3>2. Closed(c) = [c EXCEPT !.open = FALSE, !.frames = <<>>, !.nextAt = at]
      BY DEF Closed
    <3> HIDE DEF at
    <3> QED
      BY <2>2, <3>1, <3>2 DEF Collectors
  <2>4. c.frames \in Seq(Frames)
    BY <2>2 DEF Collectors
  <2> QED
    BY <2>2, <2>3, <2>4 DEF c, f
<1>5. ResetCapture => collector' \in Collectors
  <2>1. collector \in Collectors /\ <<>> \in Seq(Frames)
    OBVIOUS
  <2> QED
    BY <2>1 DEF ResetCapture, Collectors
<1> QED
  BY <1>1, <1>2, <1>4, <1>5

LEMMA DetectionSteps == DetectionInv /\ [DetectionNext]_detectionVars => DetectionInv'
<1> SUFFICES ASSUME DetectionInv, [DetectionNext]_detectionVars PROVE DetectionInv'
  OBVIOUS
<1>0. DetectionTypes
  BY DEF DetectionInv
<1>1. CASE Release \/ PullAgain \/ OpenAnew
  <2>1. now' \in Nat /\ now' > 0 /\ now' >= now /\ cfg' \in Rows
        /\ UNCHANGED <<settings, collector, gates, unbroken>> /\ NothingSaved
    BY <1>0, <1>1, LoopTypes DEF Release, PullAgain, OpenAnew, Unread, DetectionTypes
  <2>2. DetectionTypes'
    BY <1>0, <2>1 DEF DetectionTypes, settings
  <2> QED
    BY <2>1, <2>2, NothingElse
<1>2. CASE LastSample \/ NothingToDetect
  <2>1. now' \in Nat /\ now' > 0 /\ now' >= now /\ cfg' \in Rows
        /\ UNCHANGED <<settings, gates, unbroken>> /\ (NothingSaved \/ FatigueAlert)
        /\ (UNCHANGED collector \/ ResetCapture)
    BY <1>0, <1>2, LoopTypes DEF LastSample, NothingToDetect, SaveOrNot
  <2>2. DetectionTypes'
    BY <1>0, <2>1, LoopTypes DEF DetectionTypes, settings
  <2> QED
    BY <2>1, <2>2, NothingElse
<1>3. CASE FeedRound
  <2>1. PICK s \in Samplers, sleepy \in BOOLEAN, scene \in Scenes :
          LET c == Fed([at |-> now, scene |-> scene])
          IN  IF Waiting THEN cfg' = Current /\ NoRound(sleepy) /\ UNCHANGED collector
              ELSE IF ~Complete(c) THEN cfg' = Current /\ NoRound(sleepy) /\ collector' = c
              ELSE /\ collector' = Closed(c)
                   /\ IF ~Enough(c) THEN cfg' = Current /\ NoRound(sleepy)
                      ELSE cfg' = row /\ RoundOf(c.frames, sleepy)
    BY <1>3 DEF FeedRound
  <2> DEFINE c == Fed([at |-> now, scene |-> scene])
  <2>2. /\ c \in Collectors
        /\ Closed(c) \in Collectors
        /\ c.frames \in Seq(Frames)
    BY <1>0, LoopTypes
  <2>3. now' \in Nat /\ now' > 0 /\ now' >= now /\ UNCHANGED settings /\ maxFrames > 1
        /\ collector' \in {collector, c, Closed(c)}
    BY <1>0, <1>3, <2>1, LoopTypes DEF FeedRound
  <2>4. \/ cfg' = Current /\ NoRound(sleepy)
        \/ cfg' = row /\ RoundOf(c.frames, sleepy)
    BY <2>1
  <2> HIDE DEF c
  <2>5. gates' \in Gates => DetectionTypes'
    BY <1>0, <2>2, <2>3, <2>4, LoopTypes DEF DetectionTypes, settings
  <2>6. CASE cfg' = Current /\ NoRound(sleepy)
    <3>1. UNCHANGED <<gates, unbroken>> /\ (NothingSaved \/ FatigueAlert)
      BY <2>6 DEF NoRound, SaveOrNot
    <3> QED
      BY <1>0, <2>3, <2>5, <3>1, NothingElse DEF DetectionTypes
  <2>7. CASE cfg' = row /\ RoundOf(c.frames, sleepy)
    BY <2>2, <2>3, <2>5, <2>7, RoundOfEarns DEF settings
  <2> QED
    BY <2>4, <2>6, <2>7
<1>4. CASE DetectSingle
  <2>1. PICK s \in Samplers, sleepy \in BOOLEAN, scene \in Scenes :
          \/ cfg' = Current /\ NoRound(sleepy)
          \/ cfg' = row /\ RoundOf(<<[at |-> now, scene |-> scene]>>, sleepy)
    BY <1>4 DEF DetectSingle
  <2> DEFINE frames == <<[at |-> now, scene |-> scene]>>
  <2>2. now' \in Nat /\ now' > 0 /\ now' >= now /\ UNCHANGED <<settings, collector>>
    BY <1>0, <1>4, LoopTypes DEF DetectSingle
  <2>3. frames \in Seq(Frames) /\ Len(frames) = 1
    BY <1>0 DEF Frames, DetectionTypes
  <2> HIDE DEF frames
  <2>4. gates' \in Gates => DetectionTypes'
    BY <1>0, <2>1, <2>2, LoopTypes DEF DetectionTypes, settings
  <2>5. CASE cfg' = Current /\ NoRound(sleepy)
    <3>1. UNCHANGED <<gates, unbroken>> /\ (NothingSaved \/ FatigueAlert)
      BY <2>5 DEF NoRound, SaveOrNot
    <3> QED
      BY <1>0, <2>2, <2>4, <3>1, NothingElse DEF DetectionTypes
  <2>6. CASE cfg' = row /\ RoundOf(frames, sleepy)
    BY <2>2, <2>3, <2>4, <2>6, RoundOfEarns DEF settings
  <2> QED
    BY <2>1, <2>5, <2>6 DEF frames
<1>5. CASE Edit
  <2>1. row' \in Rows /\ UNCHANGED <<now, maxFrames, cfg, collector, gates, unbroken>> /\ NothingSaved
    BY <1>5 DEF Edit
  <2>2. DetectionTypes'
    BY <1>0, <2>1 DEF DetectionTypes
  <2> QED
    BY <1>0, <2>1, <2>2, NothingElse DEF DetectionTypes
<1>6. CASE UNCHANGED detectionVars
  BY <1>6 DEF detectionVars, settings, DetectionInv, DetectionTypes, Grounded, AlertsAreEarned,
              SightingsLasted
<1> QED
  BY <1>1, <1>2, <1>3, <1>4, <1>5, <1>6 DEF DetectionNext

\* An alert of a round is of a type that was enabled when its frames were
\* looked at, that enough of them show, and that its picture shows, unless it
\* is a gathering of a round of several frames; a person alert of a stream
\* with a zone has somebody in the zone in the picture.
THEOREM EveryAlertIsEarned == DetectionSpec => []AlertsAreEarned
<1>1. DetectionInv => AlertsAreEarned
  BY DEF DetectionInv
<1> QED
  BY DetectionStarts, DetectionSteps, <1>1, PTL DEF DetectionSpec

\* With single frames an alert that has to last was positive at every
\* evaluation of its type for as long as it must last.
THEOREM EverySightingLasted == DetectionSpec => []SightingsLasted
<1>1. DetectionInv => SightingsLasted
  BY DEF DetectionInv
<1> QED
  BY DetectionStarts, DetectionSteps, <1>1, PTL DEF DetectionSpec

-----------------------------------------------------------------------------
USE BroadcastBounds, TalkBounds

BroadcastSpec == BroadcastInit /\ [][BroadcastNext]_broadcastVars

-----------------------------------------------------------------------------
(* Broadcast.  A broadcast that begins has no entry until the camera has    *)
(* accepted; the INVITE in work is about the entry and its last call, or    *)
(* counts as lost already.                                                  *)
Orders == [id : Commands, op : {"start", "stop"}]

BroadcastTypes ==
  /\ queue \in Seq(Orders)
  /\ loop \in [at : {"idle", "start", "stop", "mic", "notify", "await"}, id : Nat,
              op : {"start", "stop"}, target : Nat]
  /\ loop.at # "idle" => loop.id \in Commands
  /\ entry \in Commands \cup {0} /\ ssrc \in [Commands -> Nat]
  /\ handler # NoInvite => handler.entry \in Commands
  /\ wire \subseteq Nat /\ calls \in Nat
  /\ \A s \in sending : s[1] \in Commands

NotYet == loop.at \in {"mic", "notify", "await"} => entry = 0

InWork ==
  handler # NoInvite =>
    \/ handler.entry = entry /\ handler.call = ssrc[entry]
    \/ <<handler.entry, handler.call>> \in lost

BroadcastInv == BroadcastTypes /\ NotYet /\ InWork /\ NoSilentSend

LEMMA BroadcastStarts == BroadcastInit => BroadcastInv
<1> USE DEF BroadcastInit
<1>1. BroadcastInit => BroadcastTypes
  BY DEF BroadcastTypes, NoCommand, NoInvite, Commands
<1> QED
  BY <1>1 DEF BroadcastInv, NotYet, InWork, NoSilentSend, NoCommand

\* Steps that leave the entry, what is sent and the INVITE in work alone.
LEMMA QuietSend ==
  ASSUME BroadcastInv, BroadcastTypes', UNCHANGED <<entry, ssrc, handler>>,
         sending' \subseteq sending, lost \subseteq lost',
         loop' = loop \/ loop'.at \in {"idle", "start", "stop"}
           \/ loop.at \in {"mic", "notify", "await"}
  PROVE  BroadcastInv'
<1>1. NotYet'
  BY DEF BroadcastInv, NotYet
<1>2. InWork'
  BY DEF BroadcastInv, InWork
<1>3. NoSilentSend'
  BY DEF BroadcastInv, NoSilentSend, Sent
<1> QED
  BY <1>1, <1>2, <1>3 DEF BroadcastInv

\* The entry is dropped: what it had sent is ended or known to be lost.
LEMMA DropSend ==
  ASSUME BroadcastInv, BroadcastTypes', entry # 0, Drop(entry), UNCHANGED <<ssrc, handler>>
  PROVE  BroadcastInv'
<1> USE DEF BroadcastInv
<1>1. entry' = 0 /\ entry \in Commands /\ 0 \notin Commands
  BY DEF Drop, BroadcastTypes, Commands
<1>2. NotYet'
  BY <1>1 DEF NotYet
<1>3. lost \subseteq lost' /\ (handler.entry = entry => <<handler.entry, handler.call>> \in lost')
  BY DEF Drop
<1>4. InWork'
  BY <1>1, <1>3 DEF InWork
<1>5. \A s \in sending' : s \in sending /\ (s \in lost' \/ s # Sent(entry))
  BY DEF Drop
<1>6. NoSilentSend'
  BY <1>3, <1>5 DEF NoSilentSend
<1> QED
  BY <1>2, <1>4, <1>6

\* Steps of the web, of the camera and of the registration.
LEMMA OutsideSend ==
  ASSUME BroadcastInv,
         \/ AskBroadcast \/ AskStop \/ BroadcastResponse \/ Silence \/ CameraInvites
         \/ Unregister \/ RegisterAgain
         \/ \E i \in Commands : ClearResult(i) \/ WaitResult(i) \/ MicOff(i)
  PROVE  BroadcastInv'
<1>1. UNCHANGED <<loop, entry, ssrc, handler, lost>> /\ sending' \subseteq sending
  BY DEF AskBroadcast, AskStop, BroadcastResponse, Silence, CameraInvites, Unregister,
         RegisterAgain, ClearResult, WaitResult, MicOff, sipVars, history
<1>4. wire' \subseteq Nat /\ calls' \in Nat
  <2>1. \/ UNCHANGED <<wire, calls>>
        \/ calls' = calls + 1 /\ wire' = wire \cup {calls + 1}
    BY DEF AskBroadcast, AskStop, BroadcastResponse, Silence, CameraInvites, Unregister,
           RegisterAgain, ClearResult, WaitResult, MicOff, cameraVars
  <2>2. wire \subseteq Nat /\ calls \in Nat
    BY DEF BroadcastInv, BroadcastTypes
  <2>3. calls + 1 \in Nat
    BY <2>2
  <2> QED
    BY <2>1, <2>2, <2>3
<1>2. queue' \in Seq(Orders)
  <2>1. UNCHANGED queue \/ \E i \in Commands, op \in {"start", "stop"} : EnqueueCmd(i, op)
    BY DEF AskBroadcast, AskStop, BroadcastResponse, Silence, CameraInvites, Unregister,
           RegisterAgain, ClearResult, WaitResult, MicOff, webVars
  <2>2. queue \in Seq(Orders)
    BY DEF BroadcastInv, BroadcastTypes
  <2>3. ASSUME NEW i \in Commands, NEW op \in {"start", "stop"}, EnqueueCmd(i, op)
        PROVE  queue' \in Seq(Orders)
    <3>1. [id |-> i, op |-> op] \in Orders
      BY DEF Orders
    <3> QED
      BY <2>2, <2>3, <3>1 DEF EnqueueCmd
  <2> QED
    BY <2>1, <2>2, <2>3
<1>3. BroadcastTypes'
  BY <1>1, <1>2, <1>4 DEF BroadcastInv, BroadcastTypes
<1> QED
  BY <1>1, <1>3, QuietSend

\* The command loop, but for what drops the entry or sets it.
LEMMA LoopSend ==
  ASSUME BroadcastInv, Take \/ WaitAppStream \/ Notify
  PROVE  BroadcastInv'
<1> USE DEF BroadcastInv
<1>1. UNCHANGED <<entry, ssrc, handler, sending, lost, wire, calls>>
  BY DEF Take, WaitAppStream, Notify, Reply, webVars, cameraVars, history
<1>2. CASE Take
  <2>1. Head(queue) \in Orders /\ Tail(queue) \in Seq(Orders)
    BY <1>2 DEF Take, BroadcastTypes
  <2>2. /\ loop' = [at |-> Head(queue).op, id |-> Head(queue).id, op |-> Head(queue).op, target |-> 1]
        /\ queue' = Tail(queue)
    BY <1>2 DEF Take
  <2>3. BroadcastTypes'
    BY <1>1, <2>1, <2>2 DEF BroadcastTypes, Commands, Orders
  <2>4. loop'.at \in {"start", "stop"}
    BY <2>1, <2>2 DEF Orders
  <2> QED
    BY <1>1, <2>3, <2>4, QuietSend
<1>3. CASE WaitAppStream \/ Notify
  <2>1. loop.at \in {"mic", "notify"} /\ UNCHANGED queue
    BY <1>3 DEF WaitAppStream, Notify, webVars
  <2>2. loop' = NoCommand \/ \E l \in {"notify", "await"} : loop' = [loop EXCEPT !.at = l]
    BY <1>3 DEF WaitAppStream, Notify, Reply
  <2>3. BroadcastTypes'
    BY <1>1, <2>1, <2>2 DEF BroadcastTypes, NoCommand
  <2> QED
    BY <1>1, <2>1, <2>3, QuietSend
<1> QED
  BY <1>2, <1>3

LEMMA StopSend == ASSUME BroadcastInv, StopBroadcast PROVE BroadcastInv'
<1> USE DEF BroadcastInv
<1>1. /\ loop' = NoCommand /\ UNCHANGED <<queue, ssrc, handler, wire, calls>>
      /\ IF entry = 0 THEN UNCHANGED <<entry, sending, lost>> ELSE Drop(entry)
  BY DEF StopBroadcast, Reply
<1>2. sending' \subseteq sending /\ entry' \in {entry, 0}
  BY <1>1 DEF Drop
<1>3. BroadcastTypes'
  BY <1>1, <1>2 DEF BroadcastTypes, NoCommand
<1>4. CASE entry = 0
  BY <1>1, <1>3, <1>4, QuietSend DEF NoCommand
<1> QED
  BY <1>1, <1>3, <1>4, DropSend

LEMMA StartSend == ASSUME BroadcastInv, StartBroadcast PROVE BroadcastInv'
<1> USE DEF BroadcastInv
<1>1. /\ loop.at = "start" /\ UNCHANGED <<queue, ssrc, handler, wire, calls>>
      /\ \/ loop' = NoCommand /\ UNCHANGED <<entry, sending, lost>>
         \/ /\ loop' = [loop EXCEPT !.at = "mic"]
            /\ IF entry = 0 THEN UNCHANGED <<entry, sending, lost>> ELSE Drop(entry)
  BY DEF StartBroadcast, Reply
<1>2. sending' \subseteq sending /\ entry' \in {entry, 0}
  BY <1>1 DEF Drop
<1>3. BroadcastTypes'
  BY <1>1, <1>2 DEF BroadcastTypes, NoCommand
<1>4. CASE loop' = NoCommand /\ UNCHANGED <<entry, sending, lost>>
  BY <1>1, <1>3, <1>4, QuietSend DEF NoCommand
<1>5. CASE entry # 0 /\ Drop(entry)
  BY <1>1, <1>3, <1>5, DropSend
<1>6. CASE entry = 0 /\ UNCHANGED <<entry, sending, lost>>
  BY <1>1, <1>3, <1>6 DEF NotYet, InWork, NoSilentSend, Sent
<1> QED
  BY <1>1, <1>4, <1>5, <1>6

\* Before the entry is set there is none: all that is sent is lost already.
LEMMA AwaitSend == ASSUME BroadcastInv, Await PROVE BroadcastInv'
<1> USE DEF BroadcastInv
<1>1. /\ loop.at = "await" /\ entry = 0 /\ loop.id \in Commands /\ 0 \notin Commands
      /\ UNCHANGED <<queue, ssrc, handler, sending, lost, wire, calls>>
      /\ \/ loop' = NoCommand /\ entry' \in {0, loop.id}
         \/ loop' = [loop EXCEPT !.at = "notify", !.target = @ + 1] /\ entry' = 0
  <2>1. loop.at = "await" /\ UNCHANGED <<queue, ssrc, handler, sending, lost, wire, calls>>
    BY DEF Await, cameraVars
  <2>2. entry = 0 /\ loop.id \in Commands /\ 0 \notin Commands
    BY <2>1 DEF NotYet, BroadcastTypes, Commands
  <2>3. \/ loop' = NoCommand /\ entry' \in {0, loop.id}
        \/ loop' = [loop EXCEPT !.at = "notify", !.target = @ + 1] /\ entry' = 0
    BY <2>2 DEF Await, Reply
  <2> QED
    BY <2>1, <2>2, <2>3
<1>2. BroadcastTypes'
  <2>1. /\ loop' \in [at : {"idle", "start", "stop", "mic", "notify", "await"}, id : Nat,
                      op : {"start", "stop"}, target : Nat]
        /\ loop'.at # "idle" => loop'.id \in Commands
    <3>1. loop.target + 1 \in Nat
      BY DEF BroadcastTypes
    <3>2. CASE loop' = NoCommand
      BY <3>2 DEF NoCommand
    <3>3. CASE loop' = [loop EXCEPT !.at = "notify", !.target = @ + 1]
      BY <1>1, <3>1, <3>3 DEF BroadcastTypes
    <3> QED
      BY <1>1, <3>2, <3>3
  <2> QED
    BY <1>1, <2>1 DEF BroadcastTypes
<1>3. NotYet'
  BY <1>1 DEF NotYet, NoCommand
<1>4. InWork'
  BY <1>1 DEF InWork, BroadcastTypes
<1>5. NoSilentSend'
  BY <1>1 DEF NoSilentSend, BroadcastTypes
<1> QED
  BY <1>2, <1>3, <1>4, <1>5

\* An INVITE gives the entry a new call: the call before counts as lost.
LEMMA InviteSend == ASSUME BroadcastInv, OnInvite PROVE BroadcastInv'
<1> USE DEF BroadcastInv
<1>1. PICK c \in wire :
        /\ wire' = wire \ {c}
        /\ IF entry = 0 THEN UNCHANGED <<handler, ssrc, lost>>
           ELSE /\ handler' = [entry |-> entry, call |-> c]
                /\ ssrc' = [ssrc EXCEPT ![entry] = c]
                /\ lost' = lost \cup {Sent(entry)}
  BY DEF OnInvite
<1>2. UNCHANGED <<queue, loop, entry, sending, calls>>
  BY DEF OnInvite, webVars
<1>3. BroadcastTypes'
  BY <1>1, <1>2 DEF BroadcastTypes
<1>4. CASE entry = 0
  BY <1>1, <1>2, <1>3, <1>4, QuietSend
<1>5. CASE entry # 0
  <2>1. /\ handler' = [entry |-> entry, call |-> c] /\ ssrc'[entry] = c
        /\ lost' = lost \cup {Sent(entry)}
    BY <1>1, <1>5 DEF BroadcastTypes
  <2>2. InWork'
    BY <1>2, <2>1 DEF InWork
  <2>3. NoSilentSend'
    BY <1>2, <2>1 DEF NoSilentSend
  <2>4. NotYet'
    BY <1>2 DEF NotYet
  <2> QED
    BY <1>3, <2>2, <2>3, <2>4
<1> QED
  BY <1>4, <1>5

LEMMA HandlerSend == ASSUME BroadcastInv, StartSendRtp PROVE BroadcastInv'
<1> USE DEF BroadcastInv
<1>1. /\ handler # NoInvite /\ handler' = NoInvite
      /\ sending' \subseteq sending \cup {<<handler.entry, handler.call>>}
      /\ UNCHANGED <<queue, loop, entry, ssrc, wire, calls, lost>>
  BY DEF StartSendRtp, StartsSending, webVars, history
<1>2. BroadcastTypes'
  BY <1>1 DEF BroadcastTypes
<1>3. NotYet' /\ InWork'
  BY <1>1 DEF NotYet, InWork
<1>4. NoSilentSend'
  BY <1>1 DEF InWork, NoSilentSend, Sent
<1> QED
  BY <1>2, <1>3, <1>4

LEMMA ByeSend == ASSUME BroadcastInv, OnBye PROVE BroadcastInv'
<1> USE DEF BroadcastInv
<1>1. /\ UNCHANGED <<queue, loop, ssrc, handler, wire, calls>>
      /\ UNCHANGED <<entry, sending, lost>> \/ (entry # 0 /\ Drop(entry))
  BY DEF OnBye, webVars
<1>2. sending' \subseteq sending /\ entry' \in {entry, 0}
  BY <1>1 DEF Drop
<1>3. BroadcastTypes'
  BY <1>1, <1>2 DEF BroadcastTypes
<1> QED
  BY <1>1, <1>3, QuietSend, DropSend

LEMMA CrashSend == ASSUME BroadcastInv, Crash PROVE BroadcastInv'
<1> USE DEF BroadcastInv
<1>1. /\ loop' = NoCommand /\ entry' = 0 /\ handler' = NoInvite /\ lost' = lost \cup sending
      /\ UNCHANGED <<queue, ssrc, sending, wire, calls>>
  BY DEF Crash, webVars, cameraVars
<1>2. BroadcastTypes'
  BY <1>1 DEF BroadcastTypes, NoCommand
<1> QED
  BY <1>1, <1>2 DEF NotYet, InWork, NoSilentSend

LEMMA BroadcastStep == BroadcastInv /\ [BroadcastNext]_broadcastVars => BroadcastInv'
<1> SUFFICES ASSUME BroadcastInv, [BroadcastNext]_broadcastVars PROVE BroadcastInv'
  OBVIOUS
<1>1. CASE UNCHANGED broadcastVars
  BY <1>1 DEF broadcastVars, BroadcastInv, BroadcastTypes, NotYet, InWork, NoSilentSend, Sent
<1> QED
  BY <1>1, OutsideSend, LoopSend, StopSend, StartSend, AwaitSend, InviteSend, HandlerSend,
     ByeSend, CrashSend DEF BroadcastNext

(* Whatever the media server sends to the camera belongs to the entry that  *)
(* a stop and a BYE look up, or is one of the sendings that got lost for a  *)
(* known reason: for commands, answers, INVITEs and BYEs in every order.    *)
THEOREM NothingSentSilently == BroadcastSpec => []NoSilentSend
<1>1. BroadcastInv => NoSilentSend
  BY DEF BroadcastInv
<1> QED
  BY <1>1, BroadcastStarts, BroadcastStep, PTL DEF BroadcastSpec

-----------------------------------------------------------------------------
(* Talk.  A socket is a thread's or a session's, and of one of them only; a *)
(* thread on its way to a session has an id that no session and no other    *)
(* such thread has.                                                         *)
Places == Asking \cup {"idle", "cleaning", "close", "closeStale", "connect", "supported",
                       "describeAnew", "detach", "failed", "dropOld", "expire"}
Threads == [at : Places, cam : Cameras \cup {Free.cam}, id : Nat, sock : Sockets \cup {0},
            digest : BOOLEAN, stale : SUBSET Nat, probing : BOOLEAN]

TalkTypes ==
  /\ thread \in [Requests -> Threads] /\ byStream \in [Cameras -> Nat]
  /\ DOMAIN sessions \subseteq 1..starts /\ open \subseteq Sockets /\ starts \in Nat

\* What a thread's record says of its socket and of its purpose.
Consistent(r) ==
  /\ r.sock # 0 => r.at \in Asking \cup {"supported", "detach", "failed", "close", "closeStale"}
  /\ r.at \in Asking \cup {"detach"} => r.sock # 0
  /\ r.at \in {"setup", "setupPlain", "play", "detach"} => ~r.probing
  /\ r.at \notin {"idle", "close", "expire"} => r.cam \in Cameras

Opens(r) == ~r.probing /\ r.at \in Asking \cup {"connect", "describeAnew", "detach"}

Owned ==
  \A t \in Requests :
    /\ Consistent(thread[t])
    /\ thread[t].sock # 0 =>
         /\ thread[t].sock \in open
         /\ \A u \in Requests \ {t} : thread[u].sock # thread[t].sock
         /\ \A i \in DOMAIN sessions : sessions[i].sock # thread[t].sock

Numbered ==
  \A t \in Requests : Opens(thread[t]) =>
    /\ thread[t].id \in 1..starts /\ thread[t].id \notin DOMAIN sessions
    /\ \A u \in Requests \ {t} : Opens(thread[u]) => thread[u].id # thread[t].id

TalkInv == TalkTypes /\ Owned /\ Numbered /\ NothingOrphaned

TalkSpec == TalkInit /\ [][TalkNext]_talkVars

\* The least socket that is free is one of them.
LEMMA MinIn == ASSUME NEW S \in SUBSET Nat, S # {} PROVE Min(S) \in S
BY LeastOf DEF Min

LEMMA FreeThread == Free \in Threads /\ Consistent(Free) /\ ~Opens(Free) /\ Free.sock = 0
BY DEF Free, Threads, Places, Asking, Consistent, Opens

LEMMA TalkStarts == TalkInit => TalkInv
<1> SUFFICES ASSUME TalkInit PROVE TalkInv
  OBVIOUS
<1> USE DEF TalkInit
<1>1. DOMAIN sessions = {}
  OBVIOUS
<1>2. TalkTypes
  BY <1>1, FreeThread DEF TalkTypes
<1>3. Owned /\ Numbered
  BY FreeThread DEF Owned, Numbered
<1>4. NothingOrphaned
  BY <1>1 DEF NothingOrphaned
<1> QED
  BY <1>2, <1>3, <1>4 DEF TalkInv

\* A thread goes on, perhaps with another socket; the tables stay.
LEMMA MoveTalk ==
  ASSUME TalkInv, NEW t \in Requests, NEW r \in Threads, Become(t, r),
         UNCHANGED <<sessions, byStream, starts>>,
         open' \subseteq Sockets, open \ {thread[t].sock} \subseteq open',
         open' \subseteq (open \ {thread[t].sock}) \cup {r.sock},
         r.sock = thread[t].sock \/ r.sock = 0 \/ r.sock \notin open \ {thread[t].sock},
         r.sock # 0 => r.sock \in open',
         Consistent(r), Opens(r) => Opens(thread[t]) /\ r.id = thread[t].id
  PROVE  TalkInv'
<1> USE DEF TalkInv
<1>1. thread'[t] = r /\ \A u \in Requests \ {t} : thread'[u] = thread[u]
  BY DEF Become, TalkTypes
<1>2. TalkTypes'
  BY DEF Become, TalkTypes
<1>3. \A u \in Requests \ {t} : thread[u].sock # 0 => thread[u].sock \in open \ {thread[t].sock}
  BY DEF Owned
<1>4. r.sock # 0 => /\ \A u \in Requests \ {t} : thread[u].sock # r.sock
                    /\ \A i \in DOMAIN sessions : sessions[i].sock # r.sock
  <2>1. CASE r.sock = thread[t].sock
    BY <2>1 DEF Owned
  <2>2. CASE r.sock # thread[t].sock /\ r.sock # 0
    <3>1. r.sock \notin open
      BY <2>2
    <3> QED
      BY <1>3, <2>2, <3>1 DEF NothingOrphaned
  <2> QED
    BY <2>1, <2>2
<1>5. Owned'
  <2>1. ASSUME NEW u \in Requests
        PROVE  /\ Consistent(thread'[u])
               /\ thread'[u].sock # 0 =>
                    /\ thread'[u].sock \in open'
                    /\ \A v \in Requests \ {u} : thread'[v].sock # thread'[u].sock
                    /\ \A i \in DOMAIN sessions : sessions[i].sock # thread'[u].sock
    <3>1. CASE u = t
      BY <1>1, <1>4, <3>1
    <3>2. CASE u # t
      <4>1. thread'[u] = thread[u] /\ Consistent(thread[u])
        BY <1>1, <3>2 DEF Owned
      <4>2. thread[u].sock # 0 => /\ thread[u].sock \in open'
                                  /\ \A v \in Requests \ {u} : thread'[v].sock # thread[u].sock
                                  /\ \A i \in DOMAIN sessions : sessions[i].sock # thread[u].sock
        BY <1>1, <1>3, <1>4, <3>2 DEF Owned
      <4> QED
        BY <4>1, <4>2
    <3> QED
      BY <3>1, <3>2
  <2> QED
    BY <2>1 DEF Owned
<1>6. Numbered'
  BY <1>1 DEF Numbered
<1>7. NothingOrphaned'
  <2>1. open' \subseteq {sessions[i].sock : i \in DOMAIN sessions} \cup {thread'[u].sock : u \in Requests}
    <3>1. ASSUME NEW s \in open', s # r.sock
          PROVE  s \in {sessions[i].sock : i \in DOMAIN sessions} \cup {thread'[u].sock : u \in Requests}
      <4>1. s \in open /\ s # thread[t].sock
        BY <3>1
      <4>2. CASE s \in {sessions[i].sock : i \in DOMAIN sessions}
        BY <4>2
      <4>3. ASSUME NEW u \in Requests, s = thread[u].sock PROVE s \in {thread'[v].sock : v \in Requests}
        <5>1. thread'[u].sock = s
          BY <1>1, <4>1, <4>3
        <5> QED
          BY <5>1
      <4> QED
        BY <4>1, <4>2, <4>3 DEF NothingOrphaned
    <3>2. r.sock \in {thread'[u].sock : u \in Requests}
      BY <1>1
    <3> QED
      BY <3>1, <3>2
  <2>2. \A i \in DOMAIN sessions : sessions[i].sock \in open'
    <3>1. ASSUME NEW i \in DOMAIN sessions PROVE sessions[i].sock # thread[t].sock
      <4>1. sessions[i].sock # 0
        BY DEF NothingOrphaned, TalkTypes
      <4> QED
        BY <4>1 DEF Owned
    <3> QED
      BY <3>1 DEF NothingOrphaned
  <2> QED
    BY <2>1, <2>2 DEF NothingOrphaned
<1> QED
  BY <1>2, <1>5, <1>6, <1>7

\* A session is taken out of the tables, and its socket is the thread's now.
LEMMA TakeOutTalk ==
  ASSUME TalkInv, NEW t \in Requests, NEW i \in DOMAIN sessions, NEW r \in Threads, Become(t, r),
         sessions' = Without(sessions, i),
         byStream' = [byStream EXCEPT ![sessions[i].cam] = 0],
         UNCHANGED <<open, starts>>,
         thread[t].sock = 0, r.sock = sessions[i].sock, Consistent(r), r.at \in {"close", "closeStale"}
  PROVE  TalkInv'
<1> USE DEF TalkInv
<1>1. thread'[t] = r /\ \A u \in Requests \ {t} : thread'[u] = thread[u]
  BY DEF Become, TalkTypes
<1>2. DOMAIN sessions' = DOMAIN sessions \ {i} /\ \A j \in DOMAIN sessions' : sessions'[j] = sessions[j]
  BY DEF Without
<1>3. \A c \in Cameras : byStream'[c] = IF c = sessions[i].cam THEN 0 ELSE byStream[c]
  BY DEF TalkTypes
<1>4. TalkTypes'
  BY <1>2 DEF Become, TalkTypes
<1>5. Consistent(r) /\ ~Opens(r)
  BY DEF Opens, Asking
<1>6. r.sock \in open /\ r.sock # 0
  BY DEF NothingOrphaned, TalkTypes
<1>7. \A u \in Requests \ {t} : thread[u].sock # r.sock
  <2>1. ASSUME NEW u \in Requests \ {t}, thread[u].sock = r.sock PROVE FALSE
    BY <1>6, <2>1 DEF Owned
  <2> QED
    BY <2>1
<1>8. \A j \in DOMAIN sessions' : sessions'[j].sock # r.sock
  BY <1>2 DEF NothingOrphaned
<1>9. Owned'
  <2>1. ASSUME NEW u \in Requests
        PROVE  /\ Consistent(thread'[u])
               /\ thread'[u].sock # 0 =>
                    /\ thread'[u].sock \in open
                    /\ \A v \in Requests \ {u} : thread'[v].sock # thread'[u].sock
                    /\ \A j \in DOMAIN sessions' : sessions'[j].sock # thread'[u].sock
    <3>1. CASE u = t
      BY <1>1, <1>5, <1>6, <1>7, <1>8, <3>1
    <3>2. CASE u # t
      <4>1. thread'[u] = thread[u] /\ Consistent(thread[u])
        BY <1>1, <3>2 DEF Owned
      <4> QED
        BY <1>1, <1>2, <1>7, <3>2, <4>1 DEF Owned
    <3> QED
      BY <3>1, <3>2
  <2> QED
    BY <2>1 DEF Owned
<1>10. Numbered'
  BY <1>1, <1>2, <1>5 DEF Numbered
<1>11. NothingOrphaned'
  <2>1. open \subseteq {sessions'[j].sock : j \in DOMAIN sessions'} \cup {thread'[u].sock : u \in Requests}
    <3>1. ASSUME NEW s \in open
          PROVE  s \in {sessions'[j].sock : j \in DOMAIN sessions'} \cup {thread'[u].sock : u \in Requests}
      <4>1. ASSUME NEW j \in DOMAIN sessions, s = sessions[j].sock, j # i
            PROVE  s \in {sessions'[k].sock : k \in DOMAIN sessions'}
        BY <1>2, <4>1
      <4>2. CASE s = r.sock
        BY <1>1, <4>2
      <4>3. ASSUME NEW u \in Requests, s = thread[u].sock PROVE s \in {thread'[v].sock : v \in Requests}
        <5>1. s # 0
          BY DEF TalkTypes
        <5>2. thread'[u].sock = s
          BY <1>1, <4>3, <5>1
        <5> QED
          BY <5>2
      <4> QED
        BY <4>1, <4>2, <4>3 DEF NothingOrphaned
    <3> QED
      BY <3>1
  <2>2. /\ \A j \in DOMAIN sessions' : sessions'[j].sock \in open
        /\ \A j, k \in DOMAIN sessions' : j # k => sessions'[j].sock # sessions'[k].sock
    BY <1>2 DEF NothingOrphaned
  <2>3. \A c \in Cameras : byStream'[c] # 0 =>
          byStream'[c] \in DOMAIN sessions' /\ sessions'[byStream'[c]].cam = c
    BY <1>2, <1>3 DEF NothingOrphaned
  <2> QED
    BY <2>1, <2>2, <2>3 DEF NothingOrphaned
<1> QED
  BY <1>4, <1>9, <1>10, <1>11

\* The session a camera has is closed for the one that is to be opened.
LEMMA DropOldTalk == ASSUME TalkInv, NEW t \in Requests, DropOld(t) PROVE TalkInv'
<1> USE DEF TalkInv
<1> DEFINE r == [thread[t] EXCEPT !.at = "connect", !.id = starts + 1, !.digest = FALSE]
           c == thread[t].cam
           old == byStream[c]
<1>1. /\ thread[t].at = "dropOld" /\ Become(t, r) /\ starts' = starts + 1
      /\ IF old \in DOMAIN sessions
         THEN /\ open' = open \ {sessions[old].sock}
              /\ sessions' = Without(sessions, old)
              /\ byStream' = [byStream EXCEPT ![c] = 0]
         ELSE UNCHANGED <<open, sessions, byStream>>
  BY DEF DropOld, Same
<1>2. /\ thread[t].sock = 0 /\ c \in Cameras /\ thread[t] \in Threads
      /\ starts \in Nat /\ starts + 1 \in Nat /\ starts + 1 \notin DOMAIN sessions
  BY <1>1 DEF Owned, Consistent, TalkTypes, Asking
<1>3. /\ r \in Threads /\ r.sock = 0 /\ r.at = "connect" /\ r.id = starts + 1 /\ r.cam = c
      /\ r.probing = thread[t].probing
  BY <1>2 DEF Threads, Places
<1>4. Consistent(r)
  BY <1>2, <1>3 DEF Consistent, Asking
<1> HIDE DEF r, old
<1>5. thread'[t] = r /\ \A u \in Requests \ {t} : thread'[u] = thread[u]
  BY <1>1 DEF Become, TalkTypes
<1>6. /\ DOMAIN sessions' \subseteq DOMAIN sessions
      /\ \A j \in DOMAIN sessions' : sessions'[j] = sessions[j]
      /\ DOMAIN sessions' \subseteq 1..starts /\ starts + 1 \notin DOMAIN sessions'
  <2>1. CASE old \in DOMAIN sessions
    BY <1>1, <1>2, <2>1 DEF Without, TalkTypes
  <2>2. CASE old \notin DOMAIN sessions
    BY <1>1, <1>2, <2>2 DEF TalkTypes
  <2> QED
    BY <2>1, <2>2
<1>7. TalkTypes'
  <2>1. thread' \in [Requests -> Threads]
    BY <1>1, <1>3 DEF Become, TalkTypes
  <2>2. byStream' \in [Cameras -> Nat] /\ open' \subseteq Sockets
    <3>1. CASE old \in DOMAIN sessions
      <4>1. open' \subseteq Sockets
        BY <1>1, <3>1 DEF TalkTypes
      <4>2. byStream' = [byStream EXCEPT ![c] = 0] /\ byStream \in [Cameras -> Nat]
        BY <1>1, <3>1 DEF TalkTypes
      <4> QED
        BY <1>2, <4>1, <4>2
    <3>2. CASE old \notin DOMAIN sessions
      BY <1>1, <3>2 DEF TalkTypes
    <3> QED
      BY <3>1, <3>2
  <2>3. DOMAIN sessions' \subseteq 1..starts'
    BY <1>1, <1>2, <1>6
  <2> QED
    BY <1>1, <1>2, <2>1, <2>2, <2>3 DEF TalkTypes
<1>8. ASSUME NEW u \in Requests, thread[u].sock # 0
      PROVE  thread[u].sock \in open'
  BY <1>1, <1>8 DEF Owned
<1>9. Owned'
  <2>1. ASSUME NEW u \in Requests
        PROVE  /\ Consistent(thread'[u])
               /\ thread'[u].sock # 0 =>
                    /\ thread'[u].sock \in open'
                    /\ \A v \in Requests \ {u} : thread'[v].sock # thread'[u].sock
                    /\ \A j \in DOMAIN sessions' : sessions'[j].sock # thread'[u].sock
    <3>1. CASE u = t
      BY <1>3, <1>4, <1>5, <3>1
    <3>2. CASE u # t
      <4>1. thread'[u] = thread[u] /\ Consistent(thread[u])
        BY <1>5, <3>2 DEF Owned
      <4>2. \A v \in Requests \ {u} : thread[u].sock # 0 => thread'[v].sock # thread[u].sock
        BY <1>3, <1>5 DEF Owned
      <4> QED
        BY <1>6, <1>8, <4>1, <4>2 DEF Owned
    <3> QED
      BY <3>1, <3>2
  <2> QED
    BY <2>1 DEF Owned
<1>10. Numbered'
  <2>1. \A u \in Requests \ {t} : Opens(thread[u]) => thread[u].id \in 1..starts /\ thread[u].id # starts + 1
    BY <1>2 DEF Numbered
  <2>2. ASSUME NEW u \in Requests, Opens(thread'[u])
        PROVE  /\ thread'[u].id \in 1..starts' /\ thread'[u].id \notin DOMAIN sessions'
               /\ \A v \in Requests \ {u} : Opens(thread'[v]) => thread'[v].id # thread'[u].id
    <3>1. CASE u = t
      <4>1. thread'[u].id = starts + 1
        BY <1>3, <1>5, <3>1
      <4>2. starts + 1 \in 1..starts'
        BY <1>1, <1>2
      <4>3. \A v \in Requests \ {u} : Opens(thread'[v]) => thread'[v].id # starts + 1
        BY <1>5, <2>1, <3>1
      <4> QED
        BY <1>6, <4>1, <4>2, <4>3
    <3>2. CASE u # t
      <4>1. thread'[u] = thread[u] /\ Opens(thread[u])
        BY <1>5, <2>2, <3>2
      <4>2. thread[u].id \in 1..starts' /\ thread[u].id # starts + 1 /\ thread[u].id \notin DOMAIN sessions
        BY <1>1, <1>2, <2>1, <3>2, <4>1 DEF Numbered
      <4>3. \A v \in Requests \ {u} : Opens(thread'[v]) => thread'[v].id # thread[u].id
        BY <1>3, <1>5, <4>1, <4>2 DEF Numbered
      <4> QED
        BY <1>6, <4>1, <4>2, <4>3
    <3> QED
      BY <3>1, <3>2
  <2> QED
    BY <2>2 DEF Numbered
<1>11. NothingOrphaned'
  <2>1. ASSUME NEW s \in open'
        PROVE  s \in {sessions'[j].sock : j \in DOMAIN sessions'} \cup {thread'[u].sock : u \in Requests}
    <3>1. ASSUME NEW u \in Requests, s = thread[u].sock PROVE s \in {thread'[v].sock : v \in Requests}
      <4>1. s # 0
        BY <1>7 DEF TalkTypes
      <4>2. thread'[u].sock = s
        BY <1>2, <1>5, <3>1, <4>1
      <4> QED
        BY <4>2
    <3>2. ASSUME NEW j \in DOMAIN sessions, s = sessions[j].sock
          PROVE  s \in {sessions'[k].sock : k \in DOMAIN sessions'}
      <4>1. j \in DOMAIN sessions'
        BY <1>1, <3>2 DEF Without
      <4> QED
        BY <1>6, <3>2, <4>1
    <3>3. s \in open
      BY <1>1
    <3> QED
      BY <3>1, <3>2, <3>3 DEF NothingOrphaned
  <2>2. \A j \in DOMAIN sessions' : sessions'[j].sock \in open'
    <3>1. CASE old \in DOMAIN sessions
      BY <1>1, <1>6, <3>1 DEF NothingOrphaned, Without
    <3>2. CASE old \notin DOMAIN sessions
      BY <1>1, <3>2 DEF NothingOrphaned
    <3> QED
      BY <3>1, <3>2
  <2>3. \A j, k \in DOMAIN sessions' : j # k => sessions'[j].sock # sessions'[k].sock
    BY <1>6 DEF NothingOrphaned
  <2>4. ASSUME NEW d \in Cameras, byStream'[d] # 0
        PROVE  byStream'[d] \in DOMAIN sessions' /\ sessions'[byStream'[d]].cam = d
    <3>1. CASE old \in DOMAIN sessions
      <4>1. d # c /\ byStream'[d] = byStream[d]
        BY <1>1, <1>2, <2>4, <3>1 DEF TalkTypes
      <4>2. old # 0 /\ sessions[old].cam = c
        BY <1>2, <3>1 DEF NothingOrphaned, TalkTypes, old
      <4>3. byStream[d] \in DOMAIN sessions /\ sessions[byStream[d]].cam = d
        BY <2>4, <4>1 DEF NothingOrphaned
      <4>4. byStream[d] \in DOMAIN sessions'
        BY <1>1, <3>1, <4>1, <4>2, <4>3 DEF Without
      <4> QED
        BY <1>6, <4>1, <4>3, <4>4
    <3>2. CASE old \notin DOMAIN sessions
      BY <1>1, <2>4, <3>2 DEF NothingOrphaned
    <3> QED
      BY <3>1, <3>2
  <2> QED
    BY <2>1, <2>2, <2>3, <2>4 DEF NothingOrphaned
<1> QED
  BY <1>7, <1>9, <1>10, <1>11

\* The socket goes from the thread to the session it has opened.
LEMMA RegisterTalk == ASSUME TalkInv, NEW t \in Requests, Register(t) PROVE TalkInv'
<1> USE DEF TalkInv
<1>1. PICK r \in Threads : r = thread[t]
  BY DEF TalkTypes
<1>2. /\ r.at = "detach" /\ Become(t, Free) /\ UNCHANGED <<open, starts>>
      /\ sessions' = [i \in DOMAIN sessions \cup {r.id} |->
                        IF i = r.id THEN [cam |-> r.cam, sock |-> r.sock] ELSE sessions[i]]
      /\ byStream' = [byStream EXCEPT ![r.cam] = r.id]
  BY <1>1 DEF Register, Same
<1>3. /\ r.sock # 0 /\ r.sock \in open /\ Opens(r) /\ r.id \in 1..starts /\ r.id \notin DOMAIN sessions
      /\ r.cam \in Cameras /\ \A i \in DOMAIN sessions : sessions[i].sock # r.sock
  BY <1>1, <1>2 DEF Owned, Consistent, Opens, Numbered, TalkTypes, Asking
<1>4. thread'[t] = Free /\ \A u \in Requests \ {t} : thread'[u] = thread[u]
  BY <1>2 DEF Become, TalkTypes
<1>5. /\ DOMAIN sessions' = DOMAIN sessions \cup {r.id}
      /\ sessions'[r.id] = [cam |-> r.cam, sock |-> r.sock]
      /\ \A i \in DOMAIN sessions : sessions'[i] = sessions[i]
  BY <1>2, <1>3
<1>6. TalkTypes'
  <2>1. thread' \in [Requests -> Threads]
    BY <1>2, FreeThread DEF Become, TalkTypes
  <2>2. byStream' \in [Cameras -> Nat]
    BY <1>2, <1>3 DEF TalkTypes
  <2> QED
    BY <1>2, <1>3, <1>5, <2>1, <2>2 DEF TalkTypes
<1>7. Owned'
  <2>1. ASSUME NEW u \in Requests
        PROVE  /\ Consistent(thread'[u])
               /\ thread'[u].sock # 0 =>
                    /\ thread'[u].sock \in open
                    /\ \A v \in Requests \ {u} : thread'[v].sock # thread'[u].sock
                    /\ \A j \in DOMAIN sessions' : sessions'[j].sock # thread'[u].sock
    <3>1. CASE u = t
      BY <1>4, <3>1, FreeThread
    <3>2. CASE u # t
      <4>1. thread'[u] = thread[u] /\ Consistent(thread[u])
        BY <1>4, <3>2 DEF Owned
      <4>2. ASSUME thread[u].sock # 0
            PROVE  /\ thread[u].sock \in open
                   /\ \A v \in Requests \ {u} : thread'[v].sock # thread[u].sock
                   /\ \A j \in DOMAIN sessions' : sessions'[j].sock # thread[u].sock
        <5>1. thread[u].sock # r.sock /\ thread[u].sock \in open
          BY <1>1, <1>3, <3>2, <4>2 DEF Owned
        <5>2. \A v \in Requests \ {u} : thread'[v].sock # thread[u].sock
          BY <1>4, <4>2, FreeThread DEF Owned
        <5>3. \A j \in DOMAIN sessions' : sessions'[j].sock # thread[u].sock
          BY <1>5, <4>2, <5>1 DEF Owned
        <5> QED
          BY <5>1, <5>2, <5>3
      <4> QED
        BY <4>1, <4>2
    <3> QED
      BY <3>1, <3>2
  <2> QED
    BY <1>2, <2>1 DEF Owned
<1>8. Numbered'
  <2>1. ASSUME NEW u \in Requests, Opens(thread'[u])
        PROVE  /\ thread'[u].id \in 1..starts /\ thread'[u].id \notin DOMAIN sessions'
               /\ \A v \in Requests \ {u} : Opens(thread'[v]) => thread'[v].id # thread'[u].id
    <3>1. u # t /\ thread'[u] = thread[u]
      BY <1>4, <2>1, FreeThread
    <3>2. thread[u].id # r.id
      BY <1>1, <1>3, <2>1, <3>1 DEF Numbered
    <3> QED
      BY <1>4, <1>5, <2>1, <3>1, <3>2, FreeThread DEF Numbered
  <2> QED
    BY <1>2, <2>1 DEF Numbered
<1>9. NothingOrphaned'
  <2>1. ASSUME NEW s \in open
        PROVE  s \in {sessions'[j].sock : j \in DOMAIN sessions'} \cup {thread'[u].sock : u \in Requests}
    <3>1. ASSUME NEW u \in Requests, s = thread[u].sock, u # t PROVE s \in {thread'[v].sock : v \in Requests}
      BY <1>4, <3>1
    <3>2. CASE s = r.sock
      BY <1>5, <3>2
    <3>3. ASSUME NEW j \in DOMAIN sessions, s = sessions[j].sock
          PROVE  s \in {sessions'[k].sock : k \in DOMAIN sessions'}
      BY <1>5, <3>3
    <3> QED
      BY <1>1, <3>1, <3>2, <3>3 DEF NothingOrphaned
  <2>2. \A j \in DOMAIN sessions' : sessions'[j].sock \in open
    BY <1>3, <1>5 DEF NothingOrphaned
  <2>3. \A j, k \in DOMAIN sessions' : j # k => sessions'[j].sock # sessions'[k].sock
    BY <1>3, <1>5 DEF NothingOrphaned
  <2>4. ASSUME NEW d \in Cameras, byStream'[d] # 0
        PROVE  byStream'[d] \in DOMAIN sessions' /\ sessions'[byStream'[d]].cam = d
    <3>1. CASE d = r.cam
      BY <1>2, <1>5, <3>1 DEF TalkTypes
    <3>2. CASE d # r.cam
      <4>1. byStream'[d] = byStream[d]
        BY <1>2, <3>2 DEF TalkTypes
      <4> QED
        BY <1>5, <2>4, <4>1 DEF NothingOrphaned
    <3> QED
      BY <3>1, <3>2
  <2> QED
    BY <1>2, <2>1, <2>2, <2>3, <2>4 DEF NothingOrphaned
<1> QED
  BY <1>6, <1>7, <1>8, <1>9

\* Three ways to go on: with the same socket, without one, with another.
LEMMA StayTalk ==
  ASSUME TalkInv, NEW t \in Requests, NEW r \in Threads, Become(t, r),
         UNCHANGED <<sessions, byStream, open, starts>>,
         r.sock = thread[t].sock, Consistent(r), Opens(r) => Opens(thread[t]) /\ r.id = thread[t].id
  PROVE  TalkInv'
<1>1. /\ open' \subseteq Sockets /\ open \ {thread[t].sock} \subseteq open'
      /\ r.sock # 0 => r.sock \in open'
      /\ open' \subseteq (open \ {thread[t].sock}) \cup {r.sock}
  BY DEF TalkInv, TalkTypes, Owned
<1> QED
  BY <1>1, MoveTalk

LEMMA CloseTalk ==
  ASSUME TalkInv, NEW t \in Requests, NEW r \in Threads, Become(t, r),
         UNCHANGED <<sessions, byStream, starts>>, open' = open \ {thread[t].sock},
         r.sock = 0, Consistent(r), Opens(r) => Opens(thread[t]) /\ r.id = thread[t].id
  PROVE  TalkInv'
BY MoveTalk DEF TalkInv, TalkTypes

LEMMA OpenTalk ==
  ASSUME TalkInv, NEW t \in Requests, NEW r \in Threads, Become(t, r),
         UNCHANGED <<sessions, byStream, starts>>,
         NEW s \in Sockets \ (open \ {thread[t].sock}), open' = (open \ {thread[t].sock}) \cup {s},
         r.sock = s, Consistent(r), Opens(r) => Opens(thread[t]) /\ r.id = thread[t].id
  PROVE  TalkInv'
<1>1. open' \subseteq Sockets
  BY DEF TalkInv, TalkTypes
<1> QED
  BY <1>1, MoveTalk

LEMMA MinSocket ==
  ASSUME NEW S, Sockets \ S # {}
  PROVE  Min(Sockets \ S) \in Sockets \ S
<1>1. Sockets \ S \in SUBSET Nat
  OBVIOUS
<1> QED
  BY <1>1, MinIn

\* Requests begin and choose what they are about.
LEMMA BeginTalk ==
  ASSUME TalkInv, NEW t \in Requests,
         \/ \E c \in Cameras : CleanupStale(t, c) \/ ProbeOnly(t, c)
         \/ CleanedUp(t) \/ PushAudio(t)
  PROVE  TalkInv'
<1> USE DEF TalkInv
<1>1. thread[t] \in Threads /\ Consistent(thread[t]) /\ (thread[t].at \in {"idle", "cleaning"} => thread[t].sock = 0)
  BY DEF TalkTypes, Owned, Consistent, Asking
<1>2. DOMAIN sessions \subseteq Nat
  BY DEF TalkTypes
<1>3. ASSUME NEW c \in Cameras, CleanupStale(t, c) PROVE TalkInv'
  <2> DEFINE r == [Free EXCEPT !.at = "cleaning", !.cam = c, !.stale = past \cap DOMAIN sessions]
  <2>1. r \in Threads /\ r.sock = 0 /\ Consistent(r) /\ ~Opens(r)
    BY <1>2 DEF Free, Threads, Places, Consistent, Opens, Asking
  <2>2. thread[t].at = "idle" /\ Become(t, r) /\ UNCHANGED <<sessions, byStream, open, starts>>
    BY <1>3 DEF CleanupStale, Same
  <2> QED
    BY <1>1, <2>1, <2>2, StayTalk
<1>4. ASSUME NEW c \in Cameras, ProbeOnly(t, c) PROVE TalkInv'
  <2> DEFINE r == [Free EXCEPT !.at = "connect", !.cam = c, !.probing = TRUE]
  <2>1. r \in Threads /\ r.sock = 0 /\ Consistent(r) /\ ~Opens(r)
    BY DEF Free, Threads, Places, Consistent, Opens, Asking
  <2>2. thread[t].at = "idle" /\ Become(t, r) /\ UNCHANGED <<sessions, byStream, open, starts>>
    BY <1>4 DEF ProbeOnly, Same
  <2> QED
    BY <1>1, <2>1, <2>2, StayTalk
<1>5. CASE CleanedUp(t)
  <2> DEFINE r == [thread[t] EXCEPT !.at = "connect", !.probing = TRUE]
  <2>1. thread[t].at = "cleaning" /\ Become(t, r) /\ UNCHANGED <<sessions, byStream, open, starts>>
    BY <1>5 DEF CleanedUp, Same
  <2>2. r \in Threads /\ r.sock = thread[t].sock /\ r.at = "connect" /\ r.probing /\ r.cam = thread[t].cam
    BY <1>1 DEF Threads, Places
  <2>3. Consistent(r) /\ ~Opens(r)
    BY <1>1, <2>1, <2>2 DEF Consistent, Opens, Asking
  <2> QED
    BY <2>1, <2>2, <2>3, StayTalk
<1>6. ASSUME NEW i \in DOMAIN sessions, Become(t, [Free EXCEPT !.at = "expire", !.id = i]), PushAudio(t)
      PROVE  TalkInv'
  <2> DEFINE r == [Free EXCEPT !.at = "expire", !.id = i]
  <2>1. r \in Threads /\ r.sock = 0 /\ Consistent(r) /\ ~Opens(r)
    BY <1>2 DEF Free, Threads, Places, Consistent, Opens, Asking
  <2>2. thread[t].at = "idle" /\ UNCHANGED <<sessions, byStream, open, starts>>
    BY <1>6 DEF PushAudio, Same
  <2> QED
    BY <1>1, <1>6, <2>1, <2>2, StayTalk
<1> QED
  BY <1>3, <1>4, <1>5, <1>6 DEF PushAudio

\* stop_talk, called for three reasons.
LEMMA StopTalkTalk ==
  ASSUME TalkInv, NEW t \in Requests, StopStale(t) \/ Stop(t) \/ Expire(t)
  PROVE  TalkInv'
<1> USE DEF TalkInv
<1>1. /\ thread[t] \in Threads /\ Consistent(thread[t])
      /\ thread[t].at \in {"idle", "cleaning", "expire"} => thread[t].sock = 0
  BY DEF TalkTypes, Owned, Consistent, Asking
<1>2. DOMAIN sessions \subseteq Nat /\ UNCHANGED <<open, starts>>
  <2>1. DOMAIN sessions \subseteq Nat
    BY DEF TalkTypes
  <2>2. UNCHANGED <<open, starts>>
    BY DEF StopStale, Stop, Expire, Same
  <2> QED
    BY <2>1, <2>2
<1>3. ASSUME NEW i, NEW next \in Threads, StopTalk(t, i, next), thread[t].sock = 0,
             next.at \in {"close", "closeStale"}, next.sock = 0, Consistent(next),
             i \in DOMAIN sessions
      PROVE  TalkInv'
  <2> DEFINE r == [next EXCEPT !.sock = sessions[i].sock, !.id = i]
  <2>1. /\ byStream' = [byStream EXCEPT ![sessions[i].cam] = 0]
        /\ Become(t, r) /\ sessions' = Without(sessions, i)
    BY <1>3 DEF StopTalk
  <2>2. sessions[i].sock \in Sockets
    BY <1>3 DEF NothingOrphaned, TalkTypes
  <2>3. /\ r \in Threads /\ r.sock = sessions[i].sock /\ r.at = next.at /\ r.cam = next.cam
    BY <1>2, <1>3, <2>2 DEF Threads
  <2>4. Consistent(r)
    BY <1>3, <2>3 DEF Consistent, Asking
  <2> HIDE DEF r
  <2> QED
    BY <1>2, <1>3, <2>1, <2>3, <2>4, TakeOutTalk
<1>4. ASSUME NEW i, NEW next \in Threads, StopTalk(t, i, next), thread[t].sock = 0,
             next.stale = {}, next.sock = 0, i \notin DOMAIN sessions
      PROVE  TalkInv'
  <2> DEFINE r == [next EXCEPT !.at = "idle"]
  <2>1. Become(t, r) /\ UNCHANGED <<sessions, byStream>>
    BY <1>4 DEF StopTalk, Same
  <2>2. r \in Threads /\ r.sock = 0 /\ r.at = "idle"
    BY <1>4 DEF Threads, Places
  <2>3. Consistent(r) /\ ~Opens(r)
    BY <2>2 DEF Consistent, Opens, Asking
  <2> HIDE DEF r
  <2> QED
    BY <1>2, <1>4, <2>1, <2>2, <2>3, StayTalk
<1>5. ASSUME StopStale(t) PROVE TalkInv'
  <2>1. thread[t].at = "cleaning" /\ thread[t].sock = 0 /\ thread[t].cam \in Cameras
    BY <1>1, <1>5 DEF StopStale, Consistent
  <2>2. PICK i \in thread[t].stale :
          IF i \in DOMAIN sessions
          THEN StopTalk(t, i, [thread[t] EXCEPT !.at = "closeStale", !.stale = @ \ {i}])
          ELSE Become(t, [thread[t] EXCEPT !.stale = @ \ {i}]) /\ Same(<<sessions, byStream>>)
    BY <1>5 DEF StopStale
  <2>3. CASE i \in DOMAIN sessions
    <3> DEFINE n == [thread[t] EXCEPT !.at = "closeStale", !.stale = @ \ {i}]
    <3>1. n \in Threads /\ n.at = "closeStale" /\ n.sock = 0 /\ n.cam \in Cameras
      BY <1>1, <2>1 DEF Threads, Places
    <3>2. Consistent(n)
      BY <3>1 DEF Consistent, Asking
    <3>3. StopTalk(t, i, n)
      BY <2>2, <2>3
    <3> HIDE DEF n
    <3> QED
      BY <1>3, <2>1, <2>3, <3>1, <3>2, <3>3
  <2>4. CASE i \notin DOMAIN sessions
    <3> DEFINE r == [thread[t] EXCEPT !.stale = @ \ {i}]
    <3>1. r \in Threads /\ r.sock = thread[t].sock /\ r.at = "cleaning" /\ r.cam = thread[t].cam
      BY <1>1, <2>1 DEF Threads
    <3>2. Consistent(r) /\ ~Opens(r)
      BY <2>1, <3>1 DEF Consistent, Opens, Asking
    <3>3. Become(t, r) /\ UNCHANGED <<sessions, byStream>>
      BY <2>2, <2>4 DEF Same
    <3> HIDE DEF r
    <3> QED
      BY <1>2, <3>1, <3>2, <3>3, StayTalk
  <2> QED
    BY <2>3, <2>4
<1> DEFINE n == [Free EXCEPT !.at = "close"]
<1>6. n \in Threads /\ n.at = "close" /\ n.sock = 0 /\ n.stale = {} /\ Consistent(n)
  BY DEF Free, Threads, Places, Consistent, Asking
<1>7. ASSUME NEW i, StopTalk(t, i, n), thread[t].sock = 0 PROVE TalkInv'
  <2> HIDE DEF n
  <2> QED
    BY <1>3, <1>4, <1>6, <1>7
<1>8. ASSUME Stop(t) PROVE TalkInv'
  BY <1>1, <1>7, <1>8 DEF Stop
<1>9. ASSUME Expire(t) PROVE TalkInv'
  BY <1>1, <1>7, <1>9 DEF Expire
<1> QED
  BY <1>5, <1>8, <1>9

\* Ends: of a session that was stopped, of a probe, of an attempt.
LEMMA EndTalk ==
  ASSUME TalkInv, NEW t \in Requests, Close(t) \/ Failed(t) \/ Supported(t)
  PROVE  TalkInv'
<1> USE DEF TalkInv
<1>1. /\ thread[t] \in Threads /\ Consistent(thread[t])
      /\ open' = open \ {thread[t].sock} /\ UNCHANGED <<sessions, byStream, starts>>
  BY DEF TalkTypes, Owned, Close, Failed, Supported, Same
<1>2. CASE Become(t, Free)
  BY <1>1, <1>2, FreeThread, CloseTalk
<1>3. CASE Close(t)
  <2> DEFINE r == [thread[t] EXCEPT !.sock = 0, !.id = 0, !.at = IF @ = "close" THEN "idle" ELSE "cleaning"]
  <2>1. thread[t].at \in {"close", "closeStale"} /\ Become(t, r)
    BY <1>3 DEF Close
  <2>2. /\ r \in Threads /\ r.sock = 0 /\ r.cam = thread[t].cam
        /\ r.at = IF thread[t].at = "close" THEN "idle" ELSE "cleaning"
    BY <1>1 DEF Threads, Places
  <2>3. Consistent(r) /\ ~Opens(r)
    BY <1>1, <2>1, <2>2 DEF Consistent, Opens, Asking
  <2> HIDE DEF r
  <2> QED
    BY <1>1, <2>1, <2>2, <2>3, CloseTalk
<1>4. ASSUME thread[t].at = "supported",
             Become(t, [thread[t] EXCEPT !.at = "dropOld", !.sock = 0, !.probing = FALSE])
      PROVE  TalkInv'
  <2> DEFINE r == [thread[t] EXCEPT !.at = "dropOld", !.sock = 0, !.probing = FALSE]
  <2>2. r \in Threads /\ r.sock = 0 /\ r.cam = thread[t].cam /\ r.at = "dropOld"
    BY <1>1 DEF Threads, Places
  <2>3. Consistent(r) /\ ~Opens(r)
    BY <1>1, <1>4, <2>2 DEF Consistent, Opens, Asking
  <2>4. Become(t, r)
    BY <1>4
  <2> HIDE DEF r
  <2> QED
    BY <1>1, <2>2, <2>3, <2>4, CloseTalk
<1> QED
  BY <1>2, <1>3, <1>4 DEF Failed, Supported

\* A request to the camera goes on: with its connection, without, or with a
\* new one.
LEMMA WalkTalk ==
  ASSUME TalkInv, NEW t \in Requests, NEW r \in Threads, Become(t, r),
         UNCHANGED <<sessions, byStream, starts>>,
         thread[t].at \in Asking \cup {"connect", "describeAnew"},
         r.at \in Asking \cup {"supported", "describeAnew", "detach", "failed"},
         r.id = thread[t].id, r.cam = thread[t].cam, r.probing = thread[t].probing,
         \/ r.sock = thread[t].sock /\ UNCHANGED open
         \/ r.sock = 0 /\ open' = open \ {thread[t].sock}
         \/ r.sock \in Sockets \ (open \ {thread[t].sock})
              /\ open' = (open \ {thread[t].sock}) \cup {r.sock},
         r.at \in Asking \cup {"detach"} => r.sock # 0,
         r.at = "describeAnew" => r.sock = 0,
         r.at \in {"setup", "setupPlain", "play", "detach"} => ~r.probing
  PROVE  TalkInv'
<1>1. Consistent(thread[t]) /\ thread[t].cam \in Cameras
  BY DEF TalkInv, Owned, Consistent, Asking
<1>2. Consistent(r)
  BY <1>1 DEF Consistent
<1>3. Opens(r) => Opens(thread[t])
  BY DEF Opens
<1> QED
  BY <1>2, <1>3, StayTalk, CloseTalk, OpenTalk

\* The first connection, and the one after a connection that was closed.
LEMMA ConnectTalk ==
  ASSUME TalkInv, NEW t \in Requests, Connect(t) \/ Reconnect(t) PROVE TalkInv'
<1>1. /\ thread[t] \in Threads /\ Consistent(thread[t])
      /\ thread[t].at \in {"connect", "describeAnew"}
      /\ UNCHANGED <<sessions, byStream, starts>>
  BY DEF TalkInv, TalkTypes, Owned, Connect, Reconnect, Same
<1>2. thread[t].sock = 0 /\ open \ {thread[t].sock} = open
  BY <1>1 DEF Consistent, Asking, TalkInv, TalkTypes
<1>3. ASSUME Goes(t, "failed"), UNCHANGED open PROVE TalkInv'
  <2> DEFINE r == [thread[t] EXCEPT !.at = "failed", !.digest = FALSE]
  <2>1. /\ r \in Threads /\ r.sock = thread[t].sock /\ r.at = "failed" /\ r.id = thread[t].id
        /\ r.cam = thread[t].cam /\ r.probing = thread[t].probing
    BY <1>1 DEF Threads, Places
  <2>2. Become(t, r)
    BY <1>3 DEF Goes
  <2> HIDE DEF r
  <2> QED
    BY <1>1, <1>3, <2>1, <2>2, WalkTalk DEF Asking
<1>4. ASSUME NEW s \in Sockets \ open, open' = open \cup {s}, NEW r \in Threads, Become(t, r),
             r.sock = s, r.at \in {"options", "describe"}, r.id = thread[t].id,
             r.cam = thread[t].cam, r.probing = thread[t].probing
      PROVE  TalkInv'
  BY <1>1, <1>2, <1>4, WalkTalk DEF Asking
<1>5. CASE Connect(t) /\ ~(Goes(t, "failed") /\ UNCHANGED open)
  <2> DEFINE s == Min(Sockets \ open)
             r == [thread[t] EXCEPT !.sock = s, !.digest = FALSE,
                   !.at = IF thread[t].probing THEN "options" ELSE "describe"]
  <2>1. Sockets \ open # {} /\ open' = open \cup {s} /\ Become(t, r)
    BY <1>5 DEF Connect, Same
  <2>2. s \in Sockets \ open
    BY <2>1, MinSocket
  <2>3. /\ r \in Threads /\ r.sock = s /\ r.at \in {"options", "describe"} /\ r.id = thread[t].id
        /\ r.cam = thread[t].cam /\ r.probing = thread[t].probing
    <3> HIDE DEF s
    <3> QED
      BY <1>1, <2>2 DEF Threads, Places, Asking
  <2> HIDE DEF r, s
  <2> QED
    BY <1>4, <2>1, <2>2, <2>3
<1>6. CASE Reconnect(t) /\ ~(Goes(t, "failed") /\ UNCHANGED open)
  <2> DEFINE s == Min(Sockets \ open)
             r == [thread[t] EXCEPT !.sock = s, !.at = "describe"]
  <2>1. Sockets \ open # {} /\ open' = open \cup {s} /\ Become(t, r)
    BY <1>6 DEF Reconnect, Same
  <2>2. s \in Sockets \ open
    BY <2>1, MinSocket
  <2>3. /\ r \in Threads /\ r.sock = s /\ r.at \in {"options", "describe"} /\ r.id = thread[t].id
        /\ r.cam = thread[t].cam /\ r.probing = thread[t].probing
    <3> HIDE DEF s
    <3> QED
      BY <1>1, <2>2 DEF Threads, Places, Asking
  <2> HIDE DEF r, s
  <2> QED
    BY <1>4, <2>1, <2>2, <2>3
<1> QED
  BY <1>3, <1>5, <1>6

\* An answer of the camera, of any kind.
LEMMA AnsweredTalk == ASSUME TalkInv, NEW t \in Requests, Answered(t) PROVE TalkInv'
<1>1. /\ thread[t] \in Threads /\ Consistent(thread[t]) /\ thread[t].at \in Asking
      /\ UNCHANGED <<sessions, byStream, open, starts>>
  BY DEF TalkInv, TalkTypes, Owned, Answered, Same
<1>2. thread[t].sock # 0
  BY <1>1 DEF Consistent
<1>3. ASSUME NEW at \in Asking \cup {"supported", "detach", "failed"}, Goes(t, at),
             at \in {"setup", "setupPlain", "play", "detach"} => ~thread[t].probing
      PROVE  TalkInv'
  <2> DEFINE r == [thread[t] EXCEPT !.at = at, !.digest = FALSE]
  <2>1. /\ r \in Threads /\ r.sock = thread[t].sock /\ r.at = at /\ r.id = thread[t].id
        /\ r.cam = thread[t].cam /\ r.probing = thread[t].probing
    BY <1>1 DEF Threads, Places
  <2>2. Become(t, r)
    BY <1>3 DEF Goes
  <2> HIDE DEF r
  <2> QED
    BY <1>1, <1>2, <1>3, <2>1, <2>2, WalkTalk DEF Asking
<1>4. CASE Goes(t, OnOk(thread[t]))
  <2>1. /\ OnOk(thread[t]) \in Asking \cup {"supported", "detach", "failed"}
        /\ OnOk(thread[t]) \in {"setup", "setupPlain", "play", "detach"} => ~thread[t].probing
    BY <1>1 DEF OnOk, Asking, Consistent, Threads
  <2> QED
    BY <1>3, <1>4, <2>1
<1>5. CASE Goes(t, OnRefusal(thread[t]))
  <2>1. /\ OnRefusal(thread[t]) \in Asking \cup {"supported", "detach", "failed"}
        /\ OnRefusal(thread[t]) \in {"setup", "setupPlain", "play", "detach"} => ~thread[t].probing
    BY <1>1 DEF OnRefusal, Asking, Consistent, Threads
  <2> QED
    BY <1>3, <1>5, <2>1
<1>6. CASE Goes(t, "failed")
  BY <1>3, <1>6
<1>7. CASE Become(t, [thread[t] EXCEPT !.digest = TRUE])
  <2> DEFINE r == [thread[t] EXCEPT !.digest = TRUE]
  <2>1. /\ r \in Threads /\ r.sock = thread[t].sock /\ r.at = thread[t].at /\ r.id = thread[t].id
        /\ r.cam = thread[t].cam /\ r.probing = thread[t].probing
    BY <1>1 DEF Threads
  <2>2. Consistent(r) /\ (Opens(r) => Opens(thread[t]))
    BY <1>1, <2>1 DEF Consistent, Opens
  <2>3. Become(t, r)
    BY <1>7
  <2> HIDE DEF r
  <2> QED
    BY <1>1, <2>1, <2>2, <2>3, StayTalk
<1> QED
  BY <1>4, <1>5, <1>6, <1>7 DEF Answered

\* The camera breaks the connection, and may accept another.
LEMMA DroppedTalk == ASSUME TalkInv, NEW t \in Requests, Dropped(t) PROVE TalkInv'
<1>1. /\ thread[t] \in Threads /\ Consistent(thread[t]) /\ thread[t].at \in Asking
      /\ UNCHANGED <<sessions, byStream, starts>>
  BY DEF TalkInv, TalkTypes, Owned, Dropped, Same
<1> DEFINE rest == open \ {thread[t].sock}
<1>2. CASE open' = rest /\ Become(t, [thread[t] EXCEPT !.sock = 0,
                             !.at = IF @ = "options" THEN "describeAnew" ELSE "failed"])
  <2> DEFINE r == [thread[t] EXCEPT !.sock = 0, !.at = IF @ = "options" THEN "describeAnew" ELSE "failed"]
  <2>1. /\ r \in Threads /\ r.sock = 0 /\ r.at \in {"describeAnew", "failed"} /\ r.id = thread[t].id
        /\ r.cam = thread[t].cam /\ r.probing = thread[t].probing
    BY <1>1 DEF Threads, Places
  <2>2. Become(t, r)
    BY <1>2
  <2> HIDE DEF r
  <2> QED
    BY <1>1, <1>2, <2>1, <2>2, WalkTalk DEF Asking
<1>3. CASE ~(open' = rest /\ Become(t, [thread[t] EXCEPT !.sock = 0,
                               !.at = IF @ = "options" THEN "describeAnew" ELSE "failed"]))
  <2> DEFINE s == Min(Sockets \ rest)
             r == [thread[t] EXCEPT !.sock = s, !.digest = FALSE,
                   !.at = IF ~thread[t].digest THEN @
                          ELSE IF @ = "options" THEN "describe" ELSE "failed"]
  <2>1. Sockets \ rest # {} /\ open' = rest \cup {s} /\ Become(t, r)
    BY <1>3 DEF Dropped, Same
  <2>2. s \in Sockets \ rest /\ s # 0
    <3> HIDE DEF rest
    <3> QED
      BY <2>1, MinSocket
  <2>3. /\ r \in Threads /\ r.sock = s /\ r.at \in {thread[t].at, "describe", "failed"} /\ r.id = thread[t].id
        /\ r.cam = thread[t].cam /\ r.probing = thread[t].probing
    <3> HIDE DEF s
    <3> QED
      BY <1>1, <2>2 DEF Threads, Places, Asking
  <2> HIDE DEF r, s
  <2>4. r.at \in {"setup", "setupPlain", "play", "detach"} => ~r.probing
    BY <1>1, <2>3 DEF Consistent
  <2>5. r.at \in Asking \cup {"failed"}
    BY <1>1, <2>3 DEF Asking
  <2> QED
    BY <1>1, <2>1, <2>2, <2>3, <2>4, <2>5, WalkTalk DEF Asking
<1> QED
  BY <1>2, <1>3

LEMMA TalkStep == TalkInv /\ [TalkNext]_talkVars => TalkInv'
<1> SUFFICES ASSUME TalkInv, [TalkNext]_talkVars PROVE TalkInv'
  OBVIOUS
<1>1. CASE UNCHANGED <<thread, sessions, byStream, open, starts>>
  BY <1>1 DEF TalkInv, TalkTypes, Owned, Numbered, NothingOrphaned
<1>2. ASSUME NEW t \in Requests,
             \/ \E c \in Cameras : CleanupStale(t, c) \/ ProbeOnly(t, c)
             \/ CleanedUp(t) \/ StopStale(t) \/ Stop(t) \/ Close(t)
             \/ Connect(t) \/ Answered(t) \/ Dropped(t) \/ Reconnect(t)
             \/ Failed(t) \/ Supported(t) \/ DropOld(t) \/ Register(t)
             \/ PushAudio(t) \/ Expire(t)
      PROVE  TalkInv'
  BY <1>2, BeginTalk, StopTalkTalk, EndTalk, ConnectTalk, AnsweredTalk, DroppedTalk, DropOldTalk, RegisterTalk
<1>3. CASE Age
  BY <1>1, <1>3 DEF Age, Same
<1>4. CASE UNCHANGED talkVars
  BY <1>1, <1>4 DEF talkVars
<1> QED
  BY <1>2, <1>3, <1>4 DEF TalkNext

(* A socket that is open belongs to a session that can still be stopped or  *)
(* to a request at work, and a session's socket is its own: for requests of *)
(* any number that start, stop, expire and replace sessions of the same     *)
(* camera in every order, and answers and broken connections at every step. *)
THEOREM NoSocketOrphaned == TalkSpec => []NothingOrphaned
<1>1. TalkInv => NothingOrphaned
  BY DEF TalkInv
<1> QED
  BY <1>1, TalkStarts, TalkStep, PTL DEF TalkSpec

=============================================================================
