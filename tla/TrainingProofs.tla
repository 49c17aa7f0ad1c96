--------------------------- MODULE TrainingProofs ---------------------------
(***************************************************************************)
(* Proofs about the training laboratory and the models it serves. About    *)
(* Validation, for any number of requests and loops: validation loops can  *)
(* be stopped and deleted projects stay deleted. About TrainingLab, for    *)
(* any numbers of samples, jobs and changes: a split has the sizes the gate *)
(* promises, weights and thresholds are judged on images the weights did   *)
(* not learn, and a person's labels stay.                                  *)
(* About ModelServing, for any processes and faults: what a process notes  *)
(* as loaded is loaded, and the active version is kept.                    *)
(***************************************************************************)
EXTENDS Validation, TrainingLab, ModelServing, FiniteSetTheorems,
        WellFoundedInduction, TLAPS

Places == {"none", "ready", "begin", "check", "infer", "wait", "over"}
Kinds == {"none", "start", "once", "stop", "delete"}
Steps == {"idle", "infer", "rmtree", "pop", "set", "join", "enter", "go"}
Held == Loops \cup {NoLoop}

FileType == dir \in {"there", "gone", "back"} /\ excused \in BOOLEAN
LoopType == at \in [Loops -> Places] /\ told \subseteq Loops
CallType ==
  /\ doing \in [Callers -> Kinds] /\ step \in [Callers -> Steps]
  /\ hand \in [Callers -> Held] /\ calls \in Nat
  /\ \A c \in Callers : step[c] \in {"set", "join", "go"} => hand[c] \in Loops
TableType ==
  /\ session \in Held /\ entered \in 0..MaxLoops
  /\ meanwhile \in [Callers -> SUBSET Loops] /\ lost \subseteq Loops
TypeInv == FileType /\ LoopType /\ CallType /\ TableType

\* A request that looks for a loop to stop has seen the table empty: what is in
\* it now was entered since.
Entered ==
  \A c \in Callers : step[c] \in Looking => session = NoLoop \/ session \in meanwhile[c]

\* A loop about to be started waits for the request that entered it, for no other.
Awaited ==
  /\ \A c \in Callers : step[c] = "go" => at[hand[c]] = "ready" /\ hand[c] <= entered
  /\ \A c, d \in Callers : step[c] = "go" /\ step[d] = "go" /\ c # d => hand[c] # hand[d]

OwnInv == TypeInv /\ Entered /\ Awaited /\ LoopsAreOwned

\* Where nobody is to be excused and the directory was removed, nobody is left
\* who would save a picture.
Quiet ==
  ~excused /\ dir # "there" =>
    /\ dir = "gone"
    /\ \A l \in Loops : at[l] \notin InPass
    /\ \A c \in Callers : step[c] # "infer"

DirInv == TypeInv /\ Quiet

-----------------------------------------------------------------------------
LEMMA LoopFacts == NoLoop \notin Loops /\ Loops \subseteq Nat
BY ValidationBounds DEF NoLoop, Loops

LEMMA TypeInit == ValidationInit => TypeInv
<1> SUFFICES ASSUME ValidationInit PROVE TypeInv
  OBVIOUS
<1>1. FileType /\ LoopType
  BY DEF ValidationInit, FileType, LoopType, Places
<1>2. CallType
  BY DEF ValidationInit, CallType, Kinds, Steps, Held
<1>3. TableType
  <2>1. 0 \in 0..MaxLoops
    BY ValidationBounds
  <2> QED
    BY <2>1 DEF ValidationInit, TableType, Held
<1> QED
  BY <1>1, <1>2, <1>3 DEF TypeInv

LEMMA TypeStep == TypeInv /\ [ValidationNext]_validationVars => TypeInv'
<1> SUFFICES ASSUME TypeInv, [ValidationNext]_validationVars PROVE TypeInv'
  OBVIOUS
<1> USE LoopFacts
<1>1. ASSUME NEW c \in Callers, Start(c) \/ RunOnce(c) \/ Stop(c) \/ Delete(c) PROVE TypeInv'
  <2>1. FileType' /\ LoopType' /\ TableType'
    BY <1>1 DEF Start, RunOnce, Stop, Delete, Request, TypeInv, FileType, LoopType, TableType,
                fileVars, loopVars, tableVars
  <2>2. PICK kind \in Kinds, s \in {"pop", "infer", "rmtree"} : Request(c, kind, s)
    BY <1>1 DEF Start, RunOnce, Stop, Delete, Kinds
  <2>3. CallType'
    BY <2>2 DEF Request, Goto, TypeInv, CallType, Steps
  <2> QED
    BY <2>1, <2>3 DEF TypeInv
<1>2. ASSUME NEW c \in Callers, Upload(c) \/ InferOnce(c) \/ RemoveTree(c) PROVE TypeInv'
  <2>1. LoopType' /\ TableType'
    BY <1>2 DEF Upload, InferOnce, RemoveTree, TypeInv, LoopType, TableType, loopVars, tableVars
  <2>2. FileType'
    BY <1>2 DEF Upload, InferOnce, RemoveTree, MakesDir, TypeInv, FileType, Saving, fileVars
  <2>3. CallType'
    <3>1. CASE Upload(c)
      BY <3>1 DEF Upload, TypeInv, CallType
    <3>2. CASE InferOnce(c) \/ RemoveTree(c)
      BY <3>2 DEF InferOnce, RemoveTree, Goto, TypeInv, CallType, Steps
    <3> QED
      BY <1>2, <3>1, <3>2
  <2> QED
    BY <2>1, <2>2, <2>3 DEF TypeInv
<1>3. ASSUME NEW c \in Callers, Pop(c) PROVE TypeInv'
  <2>1. TableType' /\ FileType' /\ LoopType'
    BY <1>3 DEF Pop, TypeInv, FileType, LoopType, TableType, Held, fileVars, loopVars
  <2>2. CallType'
    BY <1>3 DEF Pop, Goto, AfterStop, TypeInv, CallType, TableType, Steps, Held
  <2> QED
    BY <2>1, <2>2 DEF TypeInv
<1>4. ASSUME NEW c \in Callers, SetEvent(c) \/ Join(c) PROVE TypeInv'
  BY <1>4 DEF SetEvent, Join, Goto, AfterStop, TypeInv, FileType, LoopType, CallType,
              TableType, Steps, Held, fileVars, loopVars, tableVars
<1>5. ASSUME NEW c \in Callers, Enter(c) PROVE TypeInv'
  <2>1. entered + 1 \in Loops /\ entered + 1 \in 0..MaxLoops
    BY <1>5, ValidationBounds DEF Enter, TypeInv, TableType, Loops
  <2>2. TableType' /\ FileType' /\ LoopType'
    BY <1>5, <2>1 DEF Enter, TypeInv, FileType, LoopType, TableType, Places, Held, fileVars
  <2>3. CallType'
    BY <1>5, <2>1 DEF Enter, Goto, TypeInv, CallType, Steps, Held
  <2> QED
    BY <2>2, <2>3 DEF TypeInv
<1>6. ASSUME NEW c \in Callers, Go(c) PROVE TypeInv'
  BY <1>6 DEF Go, Goto, TypeInv, FileType, LoopType, CallType, TableType, Places, Steps, Held,
              fileVars, tableVars
<1>7. ASSUME NEW l \in Loops, LoopStep(l) PROVE TypeInv'
  BY <1>7 DEF LoopStep, Begins, Checks, Infers, Waits, MakesDir, Moves, LoopFrame, TypeInv, FileType,
              LoopType, CallType, TableType, Places, callVars, tableVars
<1>8. CASE UNCHANGED validationVars
  BY <1>8 DEF TypeInv, FileType, LoopType, CallType, TableType, validationVars, fileVars, loopVars,
              callVars, tableVars
<1> QED
  BY <1>1, <1>2, <1>3, <1>4, <1>5, <1>6, <1>7, <1>8 DEF ValidationNext, CallStep

-----------------------------------------------------------------------------
LEMMA OwnInit == ValidationInit => OwnInv
BY TypeInit DEF ValidationInit, OwnInv, Entered, Awaited, LoopsAreOwned, Looking

LEMMA OwnStep == OwnInv /\ [ValidationNext]_validationVars => OwnInv'
<1> SUFFICES ASSUME OwnInv, [ValidationNext]_validationVars PROVE Entered' /\ Awaited' /\ LoopsAreOwned'
  BY TypeStep DEF OwnInv
<1> USE LoopFacts DEF OwnInv
\* A request begins, uploads, infers or removes the directory: no loop is concerned.
<1>1. ASSUME NEW c \in Callers,
             Start(c) \/ RunOnce(c) \/ Stop(c) \/ Delete(c) \/ Upload(c) \/ InferOnce(c) \/ RemoveTree(c)
      PROVE Entered' /\ Awaited' /\ LoopsAreOwned'
  <2>1. UNCHANGED <<at, told, hand, session, entered, meanwhile, lost>>
    BY <1>1 DEF Start, RunOnce, Stop, Delete, Request, Upload, InferOnce, RemoveTree, loopVars, tableVars
  <2>2. \A d \in Callers : step'[d] \in {"set", "join", "enter", "go"} => step'[d] = step[d]
    BY <1>1 DEF Start, RunOnce, Stop, Delete, Request, Upload, InferOnce, RemoveTree, Goto, TypeInv, CallType
  <2>3. \A d \in Callers : step[d] = "set" => step'[d] = "set"
    BY <1>1 DEF Start, RunOnce, Stop, Delete, Request, Upload, InferOnce, RemoveTree, Goto, TypeInv, CallType
  <2> QED
    BY <2>1, <2>2, <2>3 DEF Entered, Awaited, LoopsAreOwned, Looking
\* The loop of the table passes into the hand of the request.
<1>2. ASSUME NEW c \in Callers, Pop(c) PROVE Entered' /\ Awaited' /\ LoopsAreOwned'
  <2>1. Entered'
    BY <1>2 DEF Pop, Entered
  <2>2. Awaited'
    BY <1>2 DEF Pop, Goto, AfterStop, Awaited, TypeInv, CallType, loopVars
  <2>3. LoopsAreOwned'
    <3> SUFFICES ASSUME NEW l \in Loops, at'[l] \notin {"none", "over"}
                 PROVE l \in told' \/ session' = l \/ l \in lost'
                       \/ \E d \in Callers : step'[d] = "set" /\ hand'[d] = l
      BY DEF LoopsAreOwned
    <3>1. l \in told \/ session = l \/ l \in lost \/ \E d \in Callers : step[d] = "set" /\ hand[d] = l
      BY <1>2 DEF Pop, loopVars, LoopsAreOwned
    <3>2. CASE session = l
      BY <1>2, <3>2 DEF Pop, Goto, TypeInv, CallType
    <3>3. ASSUME NEW d \in Callers, step[d] = "set", hand[d] = l
          PROVE step'[d] = "set" /\ hand'[d] = l
      BY <1>2, <3>3 DEF Pop, Goto, TypeInv, CallType
    <3> QED
      BY <1>2, <3>1, <3>2, <3>3 DEF Pop, loopVars
  <2> QED
    BY <2>1, <2>2, <2>3
<1>3. ASSUME NEW c \in Callers, SetEvent(c) PROVE Entered' /\ Awaited' /\ LoopsAreOwned'
  <2>1. Entered' /\ Awaited'
    BY <1>3 DEF SetEvent, Goto, Entered, Awaited, Looking, TypeInv, CallType, tableVars
  <2>2. LoopsAreOwned'
    BY <1>3 DEF SetEvent, Goto, LoopsAreOwned, TypeInv, CallType, tableVars
  <2> QED
    BY <2>1, <2>2
<1>4. ASSUME NEW c \in Callers, Join(c) PROVE Entered' /\ Awaited' /\ LoopsAreOwned'
  <2>1. Entered' /\ Awaited'
    BY <1>4 DEF Join, Goto, AfterStop, Entered, Awaited, Looking, TypeInv, CallType, loopVars, tableVars
  <2>2. LoopsAreOwned'
    BY <1>4 DEF Join, Goto, AfterStop, LoopsAreOwned, TypeInv, CallType, loopVars, tableVars
  <2> QED
    BY <2>1, <2>2
\* Whoever is put out of the table was entered since this request looked.
<1>5. ASSUME NEW c \in Callers, Enter(c) PROVE Entered' /\ Awaited' /\ LoopsAreOwned'
  <2>1. entered + 1 \in Loops /\ entered \in Nat
    BY <1>5, ValidationBounds DEF Enter, TypeInv, TableType, Loops
  <2>2. Entered'
    BY <1>5, <2>1 DEF Enter, Goto, Entered, Looking, TypeInv, CallType, TableType
  <2>3. Awaited'
    <3>1. \A d \in Callers : step[d] = "go" => hand[d] # entered + 1
      BY <2>1 DEF Awaited, TypeInv, CallType
    <3>2. at'[entered + 1] = "ready" /\ \A l \in Loops : l # entered + 1 => at'[l] = at[l]
      BY <1>5, <2>1 DEF Enter, TypeInv, LoopType
    <3>3. step'[c] = "go" /\ hand'[c] = entered + 1 /\ entered' = entered + 1
      BY <1>5 DEF Enter, Goto, TypeInv, CallType
    <3>4. \A d \in Callers : d # c => step'[d] = step[d] /\ hand'[d] = hand[d]
      BY <1>5 DEF Enter, Goto, TypeInv, CallType
    <3>5. ASSUME NEW d \in Callers, step'[d] = "go", d # c
          PROVE /\ step[d] = "go" /\ hand'[d] = hand[d] /\ hand'[d] # entered + 1
                /\ at'[hand'[d]] = "ready" /\ hand'[d] <= entered
      <4>1. step[d] = "go" /\ hand'[d] = hand[d]
        BY <3>4, <3>5
      <4>2. hand[d] \in Loops /\ at[hand[d]] = "ready" /\ hand[d] <= entered
        BY <4>1 DEF Awaited, TypeInv, CallType
      <4>3. hand[d] # entered + 1
        BY <3>1, <4>1
      <4> QED
        BY <3>2, <4>1, <4>2, <4>3
    <3>6. ASSUME NEW d \in Callers, step'[d] = "go"
          PROVE at'[hand'[d]] = "ready" /\ hand'[d] <= entered'
      <4>1. CASE d = c
        BY <4>1, <2>1, <3>2, <3>3
      <4>2. CASE d # c
        <5>1. hand'[d] \in Nat /\ hand'[d] <= entered
          BY <3>5, <3>6, <4>2 DEF TypeInv, CallType
        <5> QED
          BY <5>1, <2>1, <3>3, <3>5, <3>6, <4>2
      <4> QED
        BY <4>1, <4>2
    <3>7. ASSUME NEW d \in Callers, NEW e \in Callers, step'[d] = "go", step'[e] = "go", d # e
          PROVE hand'[d] # hand'[e]
      <4>1. CASE d = c
        BY <4>1, <3>3, <3>5, <3>7
      <4>2. CASE e = c
        BY <4>2, <3>3, <3>5, <3>7
      <4>3. CASE d # c /\ e # c
        BY <4>3, <3>5, <3>7 DEF Awaited
      <4> QED
        BY <4>1, <4>2, <4>3
    <3> QED
      BY <3>6, <3>7 DEF Awaited
  <2>4. LoopsAreOwned'
    <3> SUFFICES ASSUME NEW l \in Loops, at'[l] \notin {"none", "over"}, l # entered + 1
                 PROVE l \in told' \/ session' = l \/ l \in lost'
                       \/ \E d \in Callers : step'[d] = "set" /\ hand'[d] = l
      BY <1>5 DEF Enter, LoopsAreOwned
    <3>1. l \in told \/ session = l \/ l \in lost \/ \E d \in Callers : step[d] = "set" /\ hand[d] = l
      BY <1>5, <2>1 DEF Enter, LoopsAreOwned, TypeInv, LoopType
    <3>2. session = l => l \in lost'
      BY <1>5 DEF Enter, Entered, Looking
    <3>3. ASSUME NEW d \in Callers, step[d] = "set", hand[d] = l
          PROVE step'[d] = "set" /\ hand'[d] = l
      BY <1>5, <3>3 DEF Enter, Goto, TypeInv, CallType
    <3> QED
      BY <1>5, <3>1, <3>2, <3>3 DEF Enter
  <2> QED
    BY <2>2, <2>3, <2>4
\* What is started now was entered, and is owned by whoever it is owned by.
<1>6. ASSUME NEW c \in Callers, Go(c) PROVE Entered' /\ Awaited' /\ LoopsAreOwned'
  <2>1. hand[c] \in Loops /\ at[hand[c]] = "ready"
    BY <1>6 DEF Go, Awaited, TypeInv, CallType
  <2>2. Entered'
    BY <1>6 DEF Go, Goto, Entered, Looking, TypeInv, CallType, tableVars
  <2>3. Awaited'
    BY <1>6, <2>1 DEF Go, Goto, Awaited, TypeInv, CallType, LoopType, tableVars
  <2>4. LoopsAreOwned'
    <3> SUFFICES ASSUME NEW l \in Loops, at'[l] \notin {"none", "over"}
                 PROVE l \in told' \/ session' = l \/ l \in lost'
                       \/ \E d \in Callers : step'[d] = "set" /\ hand'[d] = l
      BY DEF LoopsAreOwned
    <3>1. at[l] \notin {"none", "over"}
      BY <1>6, <2>1 DEF Go, TypeInv, LoopType
    <3>2. l \in told \/ session = l \/ l \in lost \/ \E d \in Callers : step[d] = "set" /\ hand[d] = l
      BY <3>1 DEF LoopsAreOwned
    <3>3. ASSUME NEW d \in Callers, step[d] = "set", hand[d] = l
          PROVE step'[d] = "set" /\ hand'[d] = l
      BY <1>6, <3>3 DEF Go, Goto, TypeInv, CallType
    <3> QED
      BY <1>6, <3>2, <3>3 DEF Go, tableVars
  <2> QED
    BY <2>2, <2>3, <2>4
\* A pass of the loop: it was there before, and is not one about to be started.
<1>7. ASSUME NEW l \in Loops, LoopStep(l) PROVE Entered' /\ Awaited' /\ LoopsAreOwned'
  <2>1. UNCHANGED <<told, doing, step, hand, session, entered, meanwhile, lost>>
    BY <1>7 DEF LoopStep, Begins, Checks, Infers, Waits, LoopFrame, callVars, tableVars
  <2>2. at[l] \notin {"none", "ready", "over"} /\ \A k \in Loops : k # l => at'[k] = at[k]
    BY <1>7 DEF LoopStep, Begins, Checks, Infers, Waits, Moves, TypeInv, LoopType
  <2>3. Entered'
    BY <2>1 DEF Entered
  <2>4. Awaited'
    <3>1. \A c \in Callers : step[c] = "go" => at'[hand[c]] = "ready"
      BY <2>2 DEF Awaited, TypeInv, CallType
    <3> QED
      BY <2>1, <3>1 DEF Awaited
  <2>5. LoopsAreOwned'
    <3>1. \A k \in Loops : at'[k] \notin {"none", "over"} => at[k] \notin {"none", "over"}
      BY <2>2
    <3> QED
      BY <2>1, <3>1 DEF LoopsAreOwned
  <2> QED
    BY <2>3, <2>4, <2>5
<1>8. CASE UNCHANGED validationVars
  BY <1>8 DEF Entered, Awaited, LoopsAreOwned, validationVars, fileVars, loopVars, callVars, tableVars
<1> QED
  BY <1>1, <1>2, <1>3, <1>4, <1>5, <1>6, <1>7, <1>8 DEF ValidationNext, CallStep

(* Every loop that is not over can be stopped, but those that an            *)
(* overlapping start put out of the table (training_validate_start).        *)
THEOREM LoopsCanBeStopped == ValidationSpec => []LoopsAreOwned
<1>1. OwnInv => LoopsAreOwned
  BY DEF OwnInv
<1> QED
  BY OwnInit, OwnStep, <1>1, PTL DEF ValidationSpec

-----------------------------------------------------------------------------
LEMMA DirInit == ValidationInit => DirInv
BY TypeInit DEF ValidationInit, DirInv, Quiet

LEMMA DirStep == DirInv /\ [ValidationNext]_validationVars => DirInv'
<1> SUFFICES ASSUME DirInv, [ValidationNext]_validationVars, ~excused', dir' # "there"
             PROVE /\ dir' = "gone"
                   /\ \A l \in Loops : at'[l] \notin InPass
                   /\ \A c \in Callers : step'[c] # "infer"
  BY TypeStep DEF DirInv, Quiet
<1> USE DEF DirInv
<1>1. ASSUME NEW c \in Callers, Start(c) \/ RunOnce(c) PROVE FALSE
  BY <1>1 DEF Start, RunOnce, fileVars
<1>2. ASSUME NEW c \in Callers, Stop(c) \/ Delete(c) PROVE Quiet'
  BY <1>2 DEF Stop, Delete, Request, Goto, Quiet, TypeInv, CallType, fileVars, loopVars
<1>3. ASSUME NEW c \in Callers, Upload(c) PROVE Quiet'
  BY <1>3 DEF Upload, MakesDir, Quiet, TypeInv, FileType, loopVars
<1>4. ASSUME NEW c \in Callers, InferOnce(c) PROVE FALSE
  BY <1>4 DEF InferOnce, MakesDir, Quiet
\* Nobody was there to be excused when the directory went.
<1>5. ASSUME NEW c \in Callers, RemoveTree(c) PROVE Quiet'
  BY <1>5 DEF RemoveTree, Saving, InPass, Goto, Quiet, TypeInv, CallType, fileVars, loopVars
<1>6. ASSUME NEW c \in Callers, Pop(c) \/ SetEvent(c) \/ Join(c) PROVE Quiet'
  BY <1>6 DEF Pop, SetEvent, Join, Goto, AfterStop, Quiet, TypeInv, CallType, fileVars, loopVars
<1>7. ASSUME NEW c \in Callers, Enter(c) \/ Go(c) PROVE Quiet'
  BY <1>7 DEF Enter, Go, Goto, Quiet, InPass, TypeInv, CallType, LoopType, fileVars
\* A loop that begins finds no project.
<1>8. ASSUME NEW l \in Loops, LoopStep(l) PROVE Quiet'
  BY <1>8 DEF LoopStep, Begins, Checks, Infers, Waits, MakesDir, Moves, LoopFrame, Quiet, InPass,
              TypeInv, LoopType, callVars
<1>9. CASE UNCHANGED validationVars
  BY <1>9 DEF Quiet, validationVars, fileVars, loopVars, callVars
<1> QED
  BY <1>1, <1>2, <1>3, <1>4, <1>5, <1>6, <1>7, <1>8, <1>9 DEF ValidationNext, CallStep, Quiet

(* A deleted project comes back only by an upload or an inference that was  *)
(* under way when its directory was removed (training_projects_delete).     *)
THEOREM DeletedProjectsStayDeleted == ValidationSpec => []DeletedStaysDeleted
<1>1. DirInv => DeletedStaysDeleted
  BY DEF DirInv, Quiet, DeletedStaysDeleted, TypeInv, FileType
<1> QED
  BY DirInit, DirStep, <1>1, PTL DEF ValidationSpec

-----------------------------------------------------------------------------
\* The split.

\* A set of samples is a list, in the order of its numbers.
Rank(R, s) == Cardinality({x \in R : x <= s})

LEMMA Ranks ==
  ASSUME NEW R \in SUBSET Samples
  PROVE  /\ Cardinality(R) \in 0..N
         /\ \A s \in R : Rank(R, s) \in 1..Cardinality(R)
         /\ \A s, t \in R : Rank(R, s) = Rank(R, t) => s = t
         /\ \A i \in 1..Cardinality(R) : \E s \in R : Rank(R, s) = i
<1> DEFINE n == Cardinality(R)
           Upto(s) == {x \in R : x <= s}
<1>1. IsFiniteSet(R) /\ n \in 0..N
  <2>1. IsFiniteSet(Samples) /\ Cardinality(Samples) = N
    <3>1. N \in Nat /\ 1 \in Int /\ N \in Int
      BY Minima
    <3>2. IsFiniteSet(1..N) /\ Cardinality(1..N) = IF 1 > N THEN 0 ELSE N - 1 + 1
      BY <3>1, FS_Interval
    <3> QED
      BY <3>1, <3>2 DEF Samples
  <2> QED
    BY <2>1, FS_Subset, FS_CardinalityType, Minima
<1>2. ASSUME NEW s \in R PROVE Rank(R, s) \in 1..n
  <2>1. Upto(s) \in SUBSET R /\ s \in Upto(s)
    BY DEF Samples
  <2>2. IsFiniteSet(Upto(s)) /\ Cardinality(Upto(s)) <= n /\ Cardinality(Upto(s)) \in Nat
    BY <1>1, <2>1, FS_Subset, FS_CardinalityType
  <2>3. Cardinality(Upto(s)) # 0
    BY <2>1, <2>2, FS_EmptySet
  <2> QED
    BY <1>1, <2>2, <2>3 DEF Rank
<1>3. ASSUME NEW s \in R, NEW t \in R, s < t PROVE Rank(R, s) # Rank(R, t)
  <2>1. \A x \in R : x \in Int
    BY DEF Samples
  <2>2. t \in Upto(t) /\ t \notin Upto(s) /\ \A x \in Upto(s) : x \in Upto(t)
    BY <1>3, <2>1
  <2>3. Upto(s) \in SUBSET Upto(t) /\ Upto(s) # Upto(t)
    BY <2>2
  <2>4. IsFiniteSet(Upto(t))
    BY <1>1, FS_Subset
  <2> QED
    BY <2>3, <2>4, FS_Subset DEF Rank
<1>4. \A s, t \in R : Rank(R, s) = Rank(R, t) => s = t
  BY <1>3 DEF Samples
<1>5. \A i \in 1..n : \E s \in R : Rank(R, s) = i
  <2> DEFINE f == [s \in R |-> Rank(R, s)]
  <2>1. f \in Injection(R, 1..n)
    BY <1>2, <1>4 DEF Injection, IsInjective
  <2>2. IsFiniteSet(1..n) /\ Cardinality(1..n) = n
    BY <1>1, FS_Interval
  <2>3. f \in Surjection(R, 1..n)
    BY <2>1, <2>2, FS_Injection
  <2> QED
    BY <2>3 DEF Surjection
<1> QED
  BY <1>1, <1>2, <1>4, <1>5

-----------------------------------------------------------------------------
\* The sizes of a split: the loop that shrinks test and val.

LEMMA LeastOf == ASSUME NEW S \in SUBSET Nat, S # {} PROVE \E x \in S : \A y \in S : x <= y
<1> DEFINE Less == {ss \in Nat \X Nat : ss[1] < ss[2]}
<1>1. IsWellFoundedOn(Less, Nat)
  BY NatLessThanWellFounded DEF OpToRel
<1>2. \A x, y \in Nat : y < x => <<y, x>> \in Less
  OBVIOUS
<1> HIDE DEF Less
<1>3. PICK x \in S : \A y \in S : <<y, x>> \notin Less
  BY <1>1, WFMin
<1>4. ASSUME NEW y \in S, y < x PROVE FALSE
  <2>1. <<y, x>> \in Less
    BY <1>2, <1>4
  <2> QED
    BY <1>3, <1>4, <2>1
<1>5. \A y \in S : y \in Nat /\ x \in Nat
  OBVIOUS
<1> QED
  BY <1>4, <1>5

LEMMA CountUp ==
  ASSUME NEW K \in Nat, NEW S, 0 \in S, \A k \in 1..K : k - 1 \in S => k \in S
  PROVE  0..K \subseteq S
<1> SUFFICES ASSUME ~(0..K \subseteq S) PROVE FALSE
  OBVIOUS
<1> DEFINE T == {k \in 0..K : k \notin S}
<1>1. T \in SUBSET Nat /\ T # {}
  OBVIOUS
<1>2. PICK k \in T : \A i \in T : k <= i
  BY <1>1, LeastOf
<1>3. k \in 1..K
  BY <1>2
<1>4. k - 1 \in S
  BY <1>2, <1>3
<1> QED
  BY <1>2, <1>3, <1>4

\* What a loop has come to after k turns, each of which makes turn[x] of x.
Looped(f, K, A, a, turn) ==
  f \in [0..K -> A] /\ f[0] = a /\ \A k \in 1..K : f[k] = turn[f[k - 1]]
LEMMA LoopRuns ==
  ASSUME NEW K \in Nat, NEW A, NEW a \in A, NEW turn, \A x \in A : turn[x] \in A
  PROVE  \E f : Looped(f, K, A, a, turn)
<1> DEFINE S == {m \in 0..K : \E f : Looped(f, m, A, a, turn)}
<1>1. 0 \in S
  <2>1. Looped([k \in 0..0 |-> a], 0, A, a, turn)
    BY DEF Looped
  <2> QED
    BY <2>1
<1>2. ASSUME NEW m \in 1..K, m - 1 \in S PROVE m \in S
  <2>1. PICK f : Looped(f, m - 1, A, a, turn)
    BY <1>2
  <2> DEFINE g == [k \in 0..m |-> IF k = m THEN turn[f[m - 1]] ELSE f[k]]
  <2>2. f[m - 1] \in A /\ turn[f[m - 1]] \in A
    BY <2>1 DEF Looped
  <2>3. g \in [0..m -> A] /\ g[0] = a
    BY <2>1, <2>2 DEF Looped
  <2>4. ASSUME NEW k \in 1..m PROVE g[k] = turn[g[k - 1]]
    <3>1. g[k - 1] = f[k - 1]
      OBVIOUS
    <3>2. CASE k = m
      <4>1. g[m] = turn[f[m - 1]]
        OBVIOUS
      <4> HIDE DEF g
      <4> QED
        BY <3>1, <3>2, <4>1
    <3>3. CASE k # m
      <4>1. g[k] = f[k] /\ k \in 1..(m - 1)
        BY <3>3
      <4> HIDE DEF g
      <4> QED
        BY <2>1, <3>1, <4>1 DEF Looped
    <3> QED
      BY <3>2, <3>3
  <2> HIDE DEF g
  <2>5. Looped(g, m, A, a, turn)
    BY <2>3, <2>4 DEF Looped
  <2> QED
    BY <2>5
<1> HIDE DEF S
<1>3. 0..K \subseteq S
  BY <1>1, <1>2, CountUp
<1>4. K \in S
  BY <1>3
<1> QED
  BY <1>4 DEF S

\* A turn leaves something for test and val, and gives one image back as long as
\* images are wanting and there is one to give.
Pairs(c) == (1..c[1]) \X (1..c[2])
LEMMA OneTurn ==
  ASSUME NEW t0 \in Nat, NEW v0 \in Nat, NEW room \in Int, NEW c \in Pairs(<<t0, v0>>)
  PROVE  /\ Shrunk(c, room) \in Pairs(<<t0, v0>>)
         /\ c[1] + c[2] <= room => Shrunk(c, room) = c
         /\ c[1] + c[2] > room /\ (c[1] > 1 \/ c[2] > 1)
              => Shrunk(c, room)[1] + Shrunk(c, room)[2] = c[1] + c[2] - 1
<1>1. PICK t \in 1..t0, v \in 1..v0 : c = <<t, v>>
  BY DEF Pairs
<1>2. c[1] = t /\ c[2] = v /\ Pairs(<<t0, v0>>) = (1..t0) \X (1..v0)
  BY <1>1 DEF Pairs
<1>3. CASE t + v <= room
  BY <1>1, <1>2, <1>3 DEF Shrunk
<1>4. CASE t + v > room /\ t >= v /\ t > 1
  <2>1. Shrunk(c, room) = <<t - 1, v>> /\ t - 1 \in 1..t0
    BY <1>1, <1>2, <1>4 DEF Shrunk
  <2> QED
    BY <1>1, <1>2, <1>4, <2>1
<1>5. CASE t + v > room /\ ~(t >= v /\ t > 1) /\ v > 1
  <2>1. Shrunk(c, room) = <<t, v - 1>> /\ v - 1 \in 1..v0
    BY <1>1, <1>2, <1>5 DEF Shrunk
  <2> QED
    BY <1>1, <1>2, <1>5, <2>1
<1>6. CASE t + v > room /\ ~(t >= v /\ t > 1) /\ v <= 1
  <2>1. Shrunk(c, room) = c /\ ~(t > 1 \/ v > 1)
    BY <1>1, <1>2, <1>6 DEF Shrunk
  <2> QED
    BY <1>1, <1>2, <1>6, <2>1
<1> QED
  BY <1>1, <1>2, <1>3, <1>4, <1>5, <1>6

\* Where the loop begins with as much for test as for val, it keeps them level,
\* and takes neither below m while there is room for both.
Level(c, m) == c[1] >= m /\ c[2] >= m /\ (c[1] = c[2] \/ c[1] = c[2] - 1)
LEMMA LevelTurn ==
  ASSUME NEW t0 \in Nat, NEW v0 \in Nat, NEW room \in Int, NEW c \in Pairs(<<t0, v0>>),
         NEW m \in Nat, m > 0, 2 * m <= room, Level(c, m)
  PROVE  /\ Level(Shrunk(c, room), m)
         /\ c[1] + c[2] > room => c[1] > 1 \/ c[2] > 1
<1>1. PICK t \in 1..t0, v \in 1..v0 : c = <<t, v>>
  BY DEF Pairs
<1>2. t >= m /\ v >= m /\ (t = v \/ t = v - 1) /\ c[1] = t /\ c[2] = v
  BY <1>1 DEF Level
<1>3. CASE t + v <= room
  BY <1>2, <1>3 DEF Shrunk
<1>4. CASE t + v > room /\ t = v
  <2>1. Shrunk(c, room) = <<t - 1, v>> /\ t - 1 >= m /\ t > 1
    BY <1>1, <1>2, <1>4 DEF Shrunk
  <2> QED
    BY <1>1, <1>2, <1>4, <2>1 DEF Level
<1>5. CASE t + v > room /\ t = v - 1
  <2>1. Shrunk(c, room) = <<t, v - 1>> /\ v - 1 >= m /\ v > 1
    BY <1>1, <1>2, <1>5 DEF Shrunk
  <2> QED
    BY <1>1, <1>2, <1>5, <2>1 DEF Level
<1> QED
  BY <1>1, <1>2, <1>3, <1>4, <1>5

\* What the loop leaves of test and val; from a level start, it ends with room.
LEMMA Shrinks ==
  ASSUME NEW t0 \in Nat, NEW v0 \in Nat, t0 > 0, v0 > 0, NEW room \in Int
  PROVE  LET c == Shrink(<<t0, v0>>, room) IN
         /\ c \in Pairs(<<t0, v0>>)
         /\ \A m \in Nat : m > 0 /\ 2 * m <= room /\ Level(<<t0, v0>>, m)
              => Level(c, m) /\ c[1] + c[2] <= room
<1> DEFINE c0 == <<t0, v0>>
           K == t0 + v0 - room
           A == Pairs(c0)
           Rec(f) == f = [k \in 0..K |-> IF k = 0 THEN c0 ELSE Shrunk(f[k - 1], room)]
           after == CHOOSE f : Rec(f)
<1>1. K \in Int /\ c0[1] = t0 /\ c0[2] = v0 /\ c0 \in A
  BY DEF Pairs
<1>2. CASE K <= 0
  <2>1. Shrink(c0, room) = c0
    BY <1>1, <1>2 DEF Shrink
  <2> QED
    BY <1>1, <1>2, <2>1
<1>3. CASE K > 0
  <2>1. Shrink(c0, room) = after[K]
    BY <1>1, <1>3 DEF Shrink
  <2> DEFINE turn == [x \in A |-> Shrunk(x, room)]
  <2>2. \A x \in A : turn[x] = Shrunk(x, room) /\ turn[x] \in A
    BY OneTurn
  <2>3. K \in Nat /\ A = Pairs(c0) /\ A = (1..t0) \X (1..v0)
    BY <1>1, <1>3 DEF Pairs
  <2> HIDE DEF A, turn, K
  <2>4. PICK f : Looped(f, K, A, c0, turn)
    BY <1>1, <2>2, <2>3, LoopRuns
  <2> HIDE DEF c0
  <2>5. Rec(f)
    <3>1. \A k \in 0..K : f[k] = IF k = 0 THEN c0 ELSE Shrunk(f[k - 1], room)
      <4> SUFFICES ASSUME NEW k \in 0..K, k # 0 PROVE f[k] = Shrunk(f[k - 1], room)
        BY <2>4 DEF Looped
      <4>1. k \in 1..K /\ f[k - 1] \in A
        BY <2>3, <2>4 DEF Looped
      <4> QED
        BY <2>2, <2>4, <4>1 DEF Looped
    <3> QED
      BY <2>4, <3>1 DEF Looped
  <2>6. Rec(after)
    BY <2>5
  <2> HIDE DEF after
  <2>7. after[0] = c0 /\ \A k \in 1..K : after[k] = Shrunk(after[k - 1], room)
    <3>1. \A k \in 0..K : after[k] = IF k = 0 THEN c0 ELSE Shrunk(after[k - 1], room)
      BY <2>6, Zenon
    <3>2. 0 \in 0..K /\ \A k \in 1..K : k \in 0..K /\ k # 0
      BY <2>3
    <3> QED
      BY <3>1, <3>2
  <2> DEFINE S == {k \in 0..K : after[k] \in A}
  <2>8. 0 \in S
    BY <1>1, <2>3, <2>7
  <2>9. ASSUME NEW k \in 1..K, k - 1 \in S PROVE k \in S
    BY <2>2, <2>3, <2>7, <2>9
  <2> HIDE DEF S
  <2>10. 0..K \subseteq S
    BY <2>3, <2>8, <2>9, CountUp
  <2>11. \A k \in 0..K : after[k] \in A
    BY <2>10 DEF S
  <2>12. ASSUME NEW m \in Nat, m > 0, 2 * m <= room, Level(c0, m)
         PROVE  Level(after[K], m) /\ after[K][1] + after[K][2] <= room
    <3> DEFINE Sum(k) == after[k][1] + after[k][2]
               L == {k \in 0..K : Level(after[k], m) /\ (Sum(k) <= room \/ Sum(k) = t0 + v0 - k)}
    <3>1. 0 \in L
      BY <1>1, <2>3, <2>7, <2>12
    <3>2. ASSUME NEW k \in 1..K, k - 1 \in L PROVE k \in L
      <4>1. k \in 0..K /\ k - 1 \in 0..K
        BY <2>3
      <4> DEFINE x == after[k - 1]
                 y == after[k]
      <4>2. y = Shrunk(x, room) /\ x \in A /\ Level(x, m) /\ k \in Nat
        BY <2>7, <2>11, <2>3, <3>2, <4>1
      <4>3. x[1] + x[2] <= room \/ x[1] + x[2] = t0 + v0 - (k - 1)
        BY <3>2
      <4> HIDE DEF L, x, y
      <4>4. x \in Pairs(<<t0, v0>>) /\ x[1] \in Int /\ x[2] \in Int
        BY <2>3, <4>2 DEF c0
      <4>5. Level(y, m) /\ (x[1] + x[2] > room => x[1] > 1 \/ x[2] > 1)
        BY <2>12, <4>2, <4>4, LevelTurn
      <4>6. y = x \/ y[1] + y[2] = x[1] + x[2] - 1
        BY <4>2, <4>4, <4>5, OneTurn
      <4>7. y[1] + y[2] <= room \/ y[1] + y[2] = t0 + v0 - k
        <5>1. CASE x[1] + x[2] <= room
          BY <4>2, <4>4, <5>1, OneTurn
        <5>2. CASE x[1] + x[2] > room
          <6>1. y[1] + y[2] = x[1] + x[2] - 1
            BY <4>2, <4>4, <4>5, <5>2, OneTurn
          <6> QED
            BY <4>2, <4>3, <4>4, <5>2, <6>1
        <5> QED
          BY <4>4, <5>1, <5>2
      <4> QED
        BY <4>1, <4>5, <4>7 DEF L, y
    <3> HIDE DEF L
    <3>3. 0..K \subseteq L
      BY <2>3, <3>1, <3>2, CountUp
    <3>4. K \in L
      BY <2>3, <3>3
    <3>5. Level(after[K], m) /\ (Sum(K) <= room \/ Sum(K) = t0 + v0 - K)
      BY <3>4 DEF L
    <3> QED
      BY <3>5 DEF K
  <2> QED
    BY <2>1, <2>3, <2>11, <2>12 DEF c0
<1> QED
  BY <1>1, <1>2, <1>3

\* Where estimating begins.
LEMMA Shares == ASSUME NEW n \in Nat PROVE Share(n, 15) \in Nat
<1> DEFINE q == (n * 15) \div 100
<1>1. q \in Nat
  OBVIOUS
<1> HIDE DEF q
<1>2. Share(n, 15) = q \/ Share(n, 15) = q + 1
  BY DEF Share, q
<1> QED
  BY <1>1, <1>2

\* What estimating comes to: the loop's numbers, if they leave one for training.
LEMMA Estimated ==
  ASSUME NEW n \in Nat, NEW a \in Nat, NEW b \in Nat, NEW d \in Nat, a > 0, b > 0, d > 0
  PROVE  \E t0, v0 \in Nat \ {0} :
           /\ t0 = AtLeast(d, Share(n, 15)) /\ v0 = AtLeast(b, Share(n, 15))
           /\ t0 >= d /\ v0 >= b
           /\ n > 2 => LET c == Shrink(<<t0, v0>>, n - a) IN
                Estimate(n, a, b, d) =
                  IF c[1] + c[2] < n THEN [train |-> n - c[1] - c[2], val |-> c[2], test |-> c[1]]
                  ELSE [train |-> 1, val |-> n - 1 - (n - 1) \div 2, test |-> (n - 1) \div 2]
<1> DEFINE t0 == AtLeast(d, Share(n, 15))
           v0 == AtLeast(b, Share(n, 15))
<1>1. t0 \in Nat \ {0} /\ v0 \in Nat \ {0} /\ t0 >= d /\ v0 >= b
  BY Shares DEF AtLeast
<1>2. ASSUME n > 2
      PROVE  LET c == Shrink(<<t0, v0>>, n - a) IN
             Estimate(n, a, b, d) =
               IF c[1] + c[2] < n THEN [train |-> n - c[1] - c[2], val |-> c[2], test |-> c[1]]
               ELSE [train |-> 1, val |-> n - 1 - (n - 1) \div 2, test |-> (n - 1) \div 2]
  <2>1. ~(n <= 0) /\ n # 1 /\ n # 2
    BY <1>2
  <2> QED
    BY <2>1 DEF Estimate
<1> QED
  BY <1>1, <1>2

\* The parts of a split are no more than there is, whatever the minima.
LEMMA EstimateFits ==
  ASSUME NEW n \in Nat, NEW a \in Nat, NEW b \in Nat, NEW d \in Nat, a > 0, b > 0, d > 0
  PROVE  LET e == Estimate(n, a, b, d) IN
         e.train \in Nat /\ e.test \in Nat /\ e.val \in Nat /\ e.train + e.test + e.val = n
<1>1. CASE n <= 2
  <2>1. n = 0 \/ n = 1 \/ n = 2
    BY <1>1
  <2>2. CASE n = 0
    BY <2>2 DEF Estimate
  <2>3. CASE n = 1
    BY <2>3 DEF Estimate
  <2>4. CASE n = 2
    BY <2>4 DEF Estimate
  <2> QED
    BY <2>1, <2>2, <2>3, <2>4
<1>2. CASE n > 2
  <2>1. PICK t0, v0 \in Nat \ {0} :
          LET c == Shrink(<<t0, v0>>, n - a) IN
          Estimate(n, a, b, d) =
            IF c[1] + c[2] < n THEN [train |-> n - c[1] - c[2], val |-> c[2], test |-> c[1]]
            ELSE [train |-> 1, val |-> n - 1 - (n - 1) \div 2, test |-> (n - 1) \div 2]
    BY <1>2, Estimated
  <2> DEFINE c == Shrink(<<t0, v0>>, n - a)
  <2>2. c \in Pairs(<<t0, v0>>)
    <3>1. t0 \in Nat /\ v0 \in Nat /\ t0 > 0 /\ v0 > 0 /\ n - a \in Int
      OBVIOUS
    <3> QED
      BY <3>1, Shrinks
  <2>3. c[1] \in Nat /\ c[2] \in Nat
    BY <2>2 DEF Pairs
  <2>4. PICK h \in Nat : h = (n - 1) \div 2 /\ h <= n - 1
    BY <1>2
  <2> HIDE DEF c
  <2>5. Estimate(n, a, b, d) =
          IF c[1] + c[2] < n THEN [train |-> n - c[1] - c[2], val |-> c[2], test |-> c[1]]
          ELSE [train |-> 1, val |-> n - 1 - h, test |-> h]
    BY <2>1, <2>4 DEF c
  <2> QED
    BY <1>2, <2>3, <2>4, <2>5
<1> QED
  BY <1>1, <1>2

LEMMA AllSizesFit == SizesFit
<1>1. N \in Nat /\ \A n \in 0..N : n \in Nat
  BY Minima
<1>2. ASSUME NEW n \in 0..N,
             NEW e \in {Estimate(n, 1, 1, 1), Estimate(n, MinTrain, MinVal, MinTest)}
      PROVE  e.test \in Nat /\ e.val \in Nat /\ e.test + e.val <= n
  <2>1. PICK a, b, d \in Nat : a > 0 /\ b > 0 /\ d > 0 /\ e = Estimate(n, a, b, d)
    BY Minima
  <2>2. e.train \in Nat /\ e.test \in Nat /\ e.val \in Nat /\ e.train + e.test + e.val = n
    BY <1>1, <2>1, EstimateFits
  <2> QED
    BY <1>1, <2>2
<1> QED
  BY <1>2 DEF SizesFit

(* Where test and val have the same minimum, every data set with as many    *)
(* images as the minima want is split into parts of at least the minimum    *)
(* sizes, and no image is left out (_estimate_split_counts).                *)
THEOREM EstimateMeets ==
  ASSUME NEW n \in Nat, NEW a \in Nat, NEW m \in Nat, a > 0, m > 0, n >= a + 2 * m
  PROVE  LET e == Estimate(n, a, m, m) IN
         e.train >= a /\ e.val >= m /\ e.test >= m /\ e.train + e.val + e.test = n
<1>1. PICK t0, v0 \in Nat \ {0} :
        /\ t0 = AtLeast(m, Share(n, 15)) /\ v0 = AtLeast(m, Share(n, 15))
        /\ t0 >= m /\ v0 >= m
        /\ n > 2 => LET c == Shrink(<<t0, v0>>, n - a) IN
           Estimate(n, a, m, m) =
             IF c[1] + c[2] < n THEN [train |-> n - c[1] - c[2], val |-> c[2], test |-> c[1]]
             ELSE [train |-> 1, val |-> n - 1 - (n - 1) \div 2, test |-> (n - 1) \div 2]
  BY Estimated, Zenon
<1> DEFINE c == Shrink(<<t0, v0>>, n - a)
<1>2. Level(<<t0, v0>>, m) /\ n > 2
  BY <1>1 DEF Level
<1>3. c \in Pairs(<<t0, v0>>) /\ Level(c, m) /\ c[1] + c[2] <= n - a
  <2>1. t0 \in Nat /\ v0 \in Nat /\ t0 > 0 /\ v0 > 0 /\ n - a \in Int /\ 2 * m <= n - a
    OBVIOUS
  <2> QED
    BY <1>2, <2>1, Shrinks
<1>4. c[1] \in Nat /\ c[2] \in Nat /\ c[1] >= m /\ c[2] >= m
  BY <1>3 DEF Pairs, Level
<1>5. Estimate(n, a, m, m) =
        IF c[1] + c[2] < n THEN [train |-> n - c[1] - c[2], val |-> c[2], test |-> c[1]]
        ELSE [train |-> 1, val |-> n - 1 - (n - 1) \div 2, test |-> (n - 1) \div 2]
  BY <1>1, <1>2
<1> HIDE DEF c
<1>6. c[1] + c[2] < n
  BY <1>3, <1>4
<1>7. Estimate(n, a, m, m) = [train |-> n - c[1] - c[2], val |-> c[2], test |-> c[1]]
  BY <1>5, <1>6
<1> QED
  BY <1>3, <1>4, <1>7

(* A split that passes the gate has the minimum sizes the gate promises,    *)
(* and no split has larger parts than there are images                      *)
(* (_estimate_split_counts, TRAIN_GATE_HARD).                               *)
THEOREM MeetsGate == LabSpec => []SplitMeetsGate
<1>1. MinimaMet
  <2> SUFFICES ASSUME NEW n \in 50..200
               PROVE  LET e == Estimate(n, 30, 10, 10)
                      IN e.train + e.val + e.test = n /\ e.train >= 30 /\ e.val >= 10 /\ e.test >= 10
    BY DEF MinimaMet
  <2>1. n \in Nat /\ 30 \in Nat /\ 10 \in Nat /\ n >= 30 + 2 * 10 /\ 30 > 0 /\ 10 > 0
    OBVIOUS
  <2> QED
    BY <2>1, EstimateMeets
<1>2. SplitMeetsGate
  BY <1>1, AllSizesFit DEF SplitMeetsGate
<1> QED
  BY <1>2, PTL

LEMMA Parts ==
  ASSUME NEW R \in SUBSET Samples, NEW c \in BOOLEAN
  PROVE  LET sp == SplitOf(R, c) IN
         /\ sp.train \cap sp.val = {} /\ sp.train \cap sp.test = {} /\ sp.val \cap sp.test = {}
         /\ Whole(sp) = R
<1> DEFINE n      == Cardinality(R)
           Nth(i) == CHOOSE s \in R : Cardinality({x \in R : x <= s}) = i
           list   == [i \in 1..n |-> Nth(Shuffle[n][i])]
           e      == IF c THEN Estimate(n, 1, 1, 1) ELSE Estimate(n, MinTrain, MinVal, MinTest)
           Piece(from, to) == {list[i] : i \in from..to}
<1>1. n \in 0..N /\ n \in Nat
  BY Ranks, Minima
<1>2. ASSUME NEW i \in 1..n PROVE Nth(i) \in R /\ Rank(R, Nth(i)) = i
  <2>1. PICK s \in R : Cardinality({x \in R : x <= s}) = i
    BY Ranks DEF Rank
  <2>2. Nth(i) \in R /\ Cardinality({x \in R : x <= Nth(i)}) = i
    BY <2>1, Zenon
  <2> QED
    BY <2>2 DEF Rank
<1>3. ASSUME NEW s \in R PROVE \E i \in 1..n : Nth(i) = s
  <2>1. Rank(R, s) \in 1..n
    BY Ranks
  <2>2. Nth(Rank(R, s)) \in R /\ Rank(R, Nth(Rank(R, s))) = Rank(R, s)
    BY <1>2, <2>1
  <2>3. Nth(Rank(R, s)) = s
    BY <2>2, Ranks
  <2> HIDE DEF Nth
  <2> QED
    BY <2>1, <2>3
<1> HIDE DEF Nth
<1>4. Shuffle[n] \in [1..n -> 1..n] /\ \A i \in 1..n : \E k \in 1..n : Shuffle[n][k] = i
  BY <1>1, Permutes
<1>5. \A i, k \in 1..n : Shuffle[n][i] = Shuffle[n][k] => i = k
  <2>1. Shuffle[n] \in Surjection(1..n, 1..n)
    BY <1>4 DEF Surjection
  <2>2. IsFiniteSet(1..n)
    BY <1>1, FS_Interval
  <2>3. Shuffle[n] \in Injection(1..n, 1..n)
    BY <2>1, <2>2, FS_SurjSameCardinalityImpliesInj
  <2> QED
    BY <2>3 DEF Injection, IsInjective
<1>6. /\ \A i \in 1..n : list[i] \in R
      /\ \A i, k \in 1..n : list[i] = list[k] => i = k
      /\ \A s \in R : \E i \in 1..n : list[i] = s
  <2>1. \A i \in 1..n : list[i] \in R
    BY <1>2, <1>4
  <2>2. ASSUME NEW i \in 1..n, NEW k \in 1..n, list[i] = list[k] PROVE i = k
    <3>1. Nth(Shuffle[n][i]) = Nth(Shuffle[n][k]) /\ Shuffle[n][i] \in 1..n /\ Shuffle[n][k] \in 1..n
      BY <1>4, <2>2
    <3> QED
      BY <1>2, <1>5, <3>1
  <2>3. ASSUME NEW s \in R PROVE \E i \in 1..n : list[i] = s
    <3>1. PICK i \in 1..n : Nth(i) = s
      BY <1>3
    <3>2. PICK k \in 1..n : Shuffle[n][k] = i
      BY <1>4
    <3> QED
      BY <3>1, <3>2
  <2> QED
    BY <2>1, <2>2, <2>3
<1>7. e.test \in Nat /\ e.val \in Nat /\ e.test + e.val <= n
  BY <1>1, AllSizesFit DEF SizesFit
<1> DEFINE sp == [test  |-> Piece(1, e.test), val |-> Piece(e.test + 1, e.test + e.val),
                  train |-> Piece(e.test + e.val + 1, n), yaml |-> FALSE]
<1>8. SplitOf(R, c) = sp
  BY DEF SplitOf, Nth
<1> HIDE DEF list, e, n
<1>9. /\ 1..e.test \subseteq 1..n /\ (e.test + 1)..(e.test + e.val) \subseteq 1..n
      /\ (e.test + e.val + 1)..n \subseteq 1..n
      /\ 1..n \subseteq 1..e.test \cup (e.test + 1)..(e.test + e.val) \cup (e.test + e.val + 1)..n
  BY <1>1, <1>7
<1>10. sp.train \cap sp.val = {} /\ sp.train \cap sp.test = {} /\ sp.val \cap sp.test = {}
  BY <1>1, <1>6, <1>7, <1>9
<1>11. Whole(sp) = R
  BY <1>6, <1>9 DEF Whole
<1> QED
  BY <1>8, <1>10, <1>11

\* What a split is: its parts have no sample in common and leave none out.
Partition ==
  \A R \in SUBSET Samples, c \in BOOLEAN :
    LET sp == Split[R][c] IN
    /\ sp.train \cap sp.val = {} /\ sp.train \cap sp.test = {} /\ sp.val \cap sp.test = {}
    /\ Whole(sp) = R

LEMMA Partitions == Partition
BY Parts DEF Partition, Split

-----------------------------------------------------------------------------
\* The laboratory.

Working == {"copy", "train", "evaluate"}
PlainSplits == {Nothing} \cup {Split[R][FALSE] : R \in SUBSET Samples}
Splits == PlainSplits \cup {Split[R][TRUE] : R \in SUBSET Samples}
Stages == [train : SUBSET Samples, val : SUBSET Samples, test : SUBSET Samples, yaml : BOOLEAN]
Jobbing == [st : {"none", "running", "failed", "completed"},
            at : {"none", "begin", "over", "dead"} \cup Working, split : Splits,
            trained : SUBSET Samples, tested : SUBSET Samples, ready : BOOLEAN, mixed : BOOLEAN]

SampleTypes ==
  /\ images \subseteq Samples /\ negatives \subseteq Samples /\ calib \in BOOLEAN
  /\ labels \in [Samples -> {"none", "hand", "model", "empty"}]
StageTypes ==
  /\ staging \in {None} \cup Stages /\ job \in [Jobs -> Jobbing]
  /\ suggest \in {None} \cup [at : {"copy", "sweep"}, split : Splits, of : {None} \cup Jobs]
  /\ deployed \in {None} \cup Jobs

Unlearned(learned, sp) == learned \cap (sp.val \cup sp.test) = {}

\* What the document of a job may claim, and what a job that nobody disturbed
\* finds in the directory.
Documented(j) ==
  LET m == job[j] IN
  /\ m.st = "completed" => m.at = "over"
  /\ m.ready => m.st = "completed" /\ m.tested # {}
  /\ ~calib => m.split \in PlainSplits
Alone(j) ==
  LET m == job[j] IN
  ~m.mixed =>
    /\ m.at \in Working => ~Copying(j)
    /\ m.at = "copy" => staging = Nothing
    /\ m.at = "train" => Unlearned(staging.train, m.split)
    /\ m.at \in {"train", "evaluate"} => staging.test \subseteq m.split.test
    /\ m.at = "evaluate" \/ m.st = "completed" => Unlearned(m.trained, m.split)
    /\ m.st = "completed" => m.tested \subseteq m.split.test

\* A search that promises something goes by the split of its job.
Searching ==
  suggest # None /\ suggest.of # None =>
    LET m == job[suggest.of] IN
    /\ m.st = "completed" /\ ~m.mixed
    /\ \A j \in Jobs : job[j].at # "copy"
    /\ suggest.at = "copy" => staging = Nothing /\ suggest.split = m.split
    /\ suggest.at = "sweep" /\ staging # None => staging.val \cap m.trained = {}

LabInv ==
  /\ SampleTypes /\ StageTypes /\ Searching
  /\ \A j \in Jobs : Documented(j) /\ Alone(j)
  /\ deployed # None => job[deployed].ready

-----------------------------------------------------------------------------

LEMMA SplitParts ==
  ASSUME Partition, NEW sp \in Splits
  PROVE  /\ sp.train \subseteq Samples /\ sp.val \subseteq Samples /\ sp.test \subseteq Samples
         /\ sp.train \cap sp.val = {} /\ sp.train \cap sp.test = {} /\ sp.val \cap sp.test = {}
<1>1. CASE sp = Nothing
  BY <1>1 DEF Nothing
<1>2. ASSUME NEW R \in SUBSET Samples, NEW c \in BOOLEAN, sp = Split[R][c]
      PROVE  /\ sp.train \cap sp.val = {} /\ sp.train \cap sp.test = {} /\ sp.val \cap sp.test = {}
             /\ Whole(sp) = R
  BY <1>2 DEF Partition
<1> QED
  BY <1>1, <1>2 DEF Splits, PlainSplits, Whole

\* Where no calibration allows for less, a split is told by its samples.
LEMMA SameSplit ==
  ASSUME Partition, NEW sp \in PlainSplits, NEW R \in SUBSET Samples,
         Usable(Split[R][FALSE]), Whole(sp) = Whole(Split[R][FALSE])
  PROVE  sp = Split[R][FALSE]
<1>1. \A S \in SUBSET Samples : Whole(Split[S][FALSE]) = S
  BY DEF Partition
<1>2. R # {}
  BY <1>1 DEF Usable, Whole
<1>3. Whole(Nothing) = {}
  BY DEF Whole, Nothing
<1>4. sp # Nothing
  BY <1>1, <1>2, <1>3
<1>5. PICK S \in SUBSET Samples : sp = Split[S][FALSE]
  BY <1>4 DEF PlainSplits
<1>6. Whole(sp) = S /\ Whole(sp) = R
  BY <1>1, <1>5
<1> QED
  BY <1>5, <1>6

LEMMA SplitHere ==
  ASSUME SampleTypes
  PROVE  /\ Reviewed \in SUBSET Samples
         /\ Split[Reviewed][calib] \in Splits /\ Split[Reviewed][FALSE] \in PlainSplits
         /\ ~calib => Split[Reviewed][calib] \in PlainSplits
<1>1. Reviewed \in SUBSET Samples
  BY DEF Reviewed, SampleTypes
<1>2. \A R \in SUBSET Samples : Split[R][FALSE] \in PlainSplits /\ Split[R][TRUE] \in Splits
  BY DEF Splits, PlainSplits
<1>3. CASE calib = TRUE
  BY <1>1, <1>2, <1>3
<1>4. CASE calib = FALSE
  BY <1>1, <1>2, <1>4 DEF Splits
<1> QED
  BY <1>1, <1>2, <1>3, <1>4 DEF SampleTypes

\* A directory that was empty holds of each part what the split has in it, and
\* backgrounds that are in no part.
LEMMA FilledParts ==
  ASSUME Partition, SampleTypes, NEW sp \in Splits, staging \in Stages
  PROVE  /\ Filled(sp) \in Stages
         /\ staging = Nothing => /\ Unlearned(Filled(sp).train, sp)
                                 /\ Filled(sp).test \subseteq sp.test /\ Filled(sp).val \subseteq sp.val
<1>1. /\ sp.train \subseteq Samples /\ sp.val \subseteq Samples /\ sp.test \subseteq Samples
      /\ sp.train \cap sp.val = {} /\ sp.train \cap sp.test = {} /\ sp.val \cap sp.test = {}
  BY SplitParts
<1>2. Filled(sp) \in Stages
  BY <1>1 DEF Filled, Stages, SampleTypes, Backgrounds
<1>3. ASSUME staging = Nothing
      PROVE  /\ Filled(sp).train = (sp.train \cap images) \cup (Backgrounds \ (sp.train \cup sp.val \cup sp.test))
             /\ Filled(sp).test = sp.test \cap images /\ Filled(sp).val = sp.val \cap images
  BY <1>3 DEF Filled, Nothing
<1> QED
  BY <1>1, <1>2, <1>3 DEF Unlearned

\* The jobs that were disturbed.
LEMMA DisturbedJobs ==
  ASSUME StageTypes, NEW except
  PROVE  /\ Disturbed(except) \in [Jobs -> Jobbing]
         /\ \A k \in Jobs : LET n == Disturbed(except)[k] m == job[k] IN
              /\ n.st = m.st /\ n.at = m.at /\ n.split = m.split /\ n.trained = m.trained
              /\ n.tested = m.tested /\ n.ready = m.ready
              /\ k = except => n.mixed = m.mixed
              /\ k # except => (n.mixed <=> m.mixed \/ m.at \in Working)
<1>1. ASSUME NEW k \in Jobs
      PROVE  LET n == Disturbed(except)[k] m == job[k] IN
             /\ n \in Jobbing
             /\ n.st = m.st /\ n.at = m.at /\ n.split = m.split /\ n.trained = m.trained
             /\ n.tested = m.tested /\ n.ready = m.ready
             /\ k = except => n.mixed = m.mixed
             /\ k # except => (n.mixed <=> m.mixed \/ m.at \in Working)
  <2> DEFINE m == job[k]
             n == Disturbed(except)[k]
  <2>1. m \in Jobbing
    BY DEF StageTypes
  <2>2. n = IF k # except /\ m.at \in Working THEN [m EXCEPT !.mixed = TRUE] ELSE m
    BY DEF Disturbed, Working
  <2> HIDE DEF m, n
  <2>3. /\ n \in Jobbing
        /\ n.st = m.st /\ n.at = m.at /\ n.split = m.split /\ n.trained = m.trained
        /\ n.tested = m.tested /\ n.ready = m.ready
        /\ n.mixed = IF k # except /\ m.at \in Working THEN TRUE ELSE m.mixed
    BY <2>1, <2>2 DEF Jobbing
  <2> QED
    BY <2>3 DEF m, n
<1> QED
  BY <1>1 DEF Disturbed

-----------------------------------------------------------------------------
\* A job that a step leaves alone, or only disturbs.
SameJob(n, m) ==
  /\ n.st = m.st /\ n.at = m.at /\ n.split = m.split /\ n.trained = m.trained
  /\ n.tested = m.tested /\ n.ready = m.ready /\ (m.mixed => n.mixed)

LEMMA OtherJob ==
  ASSUME NEW k \in Jobs, Documented(k), Alone(k), SameJob(job'[k], job[k]), calib => calib',
         ~job'[k].mixed /\ job[k].at \in Working => staging' = staging /\ (Copying(k)' => Copying(k))
  PROVE  Documented(k)' /\ Alone(k)'
<1> DEFINE n == job'[k]
           m == job[k]
<1>1. /\ n.st = m.st /\ n.at = m.at /\ n.split = m.split /\ n.trained = m.trained
      /\ n.tested = m.tested /\ n.ready = m.ready /\ (m.mixed => n.mixed)
  BY DEF SameJob
<1>2. Documented(k)'
  BY <1>1 DEF Documented
<1>3. Alone(k)'
  <2> SUFFICES ASSUME ~n.mixed
               PROVE  /\ n.at \in Working => ~Copying(k)'
                      /\ n.at = "copy" => staging' = Nothing
                      /\ n.at = "train" => Unlearned(staging'.train, n.split)
                      /\ n.at \in {"train", "evaluate"} => staging'.test \subseteq n.split.test
                      /\ n.at = "evaluate" \/ n.st = "completed" => Unlearned(n.trained, n.split)
                      /\ n.st = "completed" => n.tested \subseteq n.split.test
    BY DEF Alone
  <2>1. m.at \in Working => staging' = staging /\ (Copying(k)' => Copying(k))
    OBVIOUS
  <2>2. ~m.mixed
    BY <1>1
  <2> HIDE DEF n
  <2> QED
    BY <1>1, <2>1, <2>2 DEF Alone, Working
<1> QED
  BY <1>2, <1>3

\* A step that changes samples and labels at most.
LEMMA SampleChange ==
  ASSUME LabInv, SampleTypes', calib => calib', UNCHANGED <<staging, job, suggest, deployed>>
  PROVE  LabInv'
<1>1. StageTypes' /\ Searching' /\ (deployed # None => job[deployed].ready)'
  BY DEF LabInv, StageTypes, Searching
<1>2. \A j \in Jobs : Documented(j)' /\ Alone(j)'
  BY DEF LabInv, Documented, Alone, Copying
<1> QED
  BY <1>1, <1>2 DEF LabInv

\* All jobs that need the directory are disturbed.
DisturbsAll ==
  /\ job' \in [Jobs -> Jobbing]
  /\ \A k \in Jobs : SameJob(job'[k], job[k]) /\ (job[k].at \in Working => job'[k].mixed)

LEMMA AllDisturbed ==
  ASSUME StageTypes, job' = Disturbed(None)
  PROVE  DisturbsAll
<1>1. \A k \in Jobs : k # None
  BY Minima DEF Jobs
<1> QED
  BY <1>1, DisturbedJobs DEF DisturbsAll, SameJob

LEMMA SearchDisturbed ==
  ASSUME StageTypes, SuggestDisturbed
  PROVE  /\ suggest' \in {None} \cup [at : {"copy", "sweep"}, split : Splits, of : {None} \cup Jobs]
         /\ suggest' # None => suggest'.of = None
  BY DEF StageTypes, SuggestDisturbed

\* What follows for the jobs is the same whatever was done to the directory.
LEMMA AfterDisturbance ==
  ASSUME LabInv, SampleTypes', StageTypes', DisturbsAll, calib => calib', deployed' = deployed,
         Searching'
  PROVE  LabInv'
<1>1. ASSUME NEW k \in Jobs PROVE Documented(k)' /\ Alone(k)'
  <2>1. Documented(k) /\ Alone(k) /\ SameJob(job'[k], job[k]) /\ (job[k].at \in Working => job'[k].mixed)
    BY DEF LabInv, DisturbsAll
  <2> QED
    BY <2>1, OtherJob
<1>2. (deployed # None => job[deployed].ready)'
  BY DEF LabInv, StageTypes, DisturbsAll, SameJob
<1> QED
  BY <1>1, <1>2 DEF LabInv

LEMMA LabInitially == LabInit => LabInv
<1> SUFFICES ASSUME LabInit PROVE LabInv
  OBVIOUS
<1>1. SampleTypes
  BY DEF LabInit, SampleTypes
<1>2. NoJob \in Jobbing
  BY DEF NoJob, Jobbing, Splits, PlainSplits, Nothing
<1>3. StageTypes /\ Searching /\ deployed = None
  BY <1>2 DEF LabInit, StageTypes, Searching
<1>4. ASSUME NEW j \in Jobs PROVE Documented(j) /\ Alone(j)
  BY DEF LabInit, Documented, Alone, NoJob, Splits, PlainSplits, Working
<1> QED
  BY <1>1, <1>3, <1>4 DEF LabInv

LEMMA EditKeeps == LabInv /\ (EditStep \/ HelperStep) => LabInv'
<1> SUFFICES ASSUME LabInv, EditStep \/ HelperStep PROVE LabInv'
  OBVIOUS
<1>1. SampleTypes /\ StageTypes
  BY DEF LabInv
<1>2. ASSUME NEW s \in Samples,
             Capture(s) \/ ImportFalseAlarm(s) \/ ImportRight(s) \/ DeleteSample(s) \/ SaveLabel(s) \/ Approve(s)
      PROVE  LabInv'
  <2>1. UNCHANGED <<staging, job, suggest, deployed>> /\ (calib => calib')
    BY <1>2 DEF Capture, ImportFalseAlarm, ImportRight, DeleteSample, SaveLabel, Approve, EditFrame
  <2>2. images' \subseteq Samples /\ negatives' \subseteq Samples /\ calib' \in BOOLEAN
    BY <1>1, <1>2 DEF Capture, ImportFalseAlarm, ImportRight, DeleteSample, SaveLabel, Approve, SampleTypes
  <2>3. labels' \in [Samples -> {"none", "hand", "model", "empty"}]
    BY <1>1, <1>2 DEF Capture, ImportFalseAlarm, ImportRight, DeleteSample, SaveLabel, Approve, SampleTypes
  <2> QED
    BY <2>1, <2>2, <2>3, SampleChange DEF SampleTypes
<1>3. CASE HelperStep \/ \E only \in BOOLEAN : Prelabel(only)
  <2>1. UNCHANGED <<staging, job, suggest, deployed, images, negatives, calib>>
    BY <1>3 DEF HelperStep, AutoLabel, PrelabelWrites, Prelabel, EditFrame, samples
  <2>2. labels' \in [Samples -> {"none", "hand", "model", "empty"}]
    BY <1>1, <1>3 DEF HelperStep, AutoLabel, PrelabelWrites, Prelabel, samples, SampleTypes
  <2> QED
    BY <1>1, <2>1, <2>2, SampleChange DEF SampleTypes
<1>4. CASE DeleteProject
  <2> DEFINE J == Disturbed(None)
  <2>1. /\ job' = J /\ SuggestDisturbed /\ staging' = None /\ UNCHANGED <<calib, deployed>>
        /\ SampleTypes'
    BY <1>1, <1>4 DEF DeleteProject, SampleTypes
  <2>2. DisturbsAll
    BY <1>1, <2>1, AllDisturbed
  <2>3. StageTypes'
    BY <1>1, <2>1, <2>2, SearchDisturbed DEF StageTypes, DisturbsAll
  <2> QED
    BY <1>1, <2>1, <2>2, <2>3, SearchDisturbed, AfterDisturbance DEF LabInv, Searching
<1> QED
  BY <1>2, <1>3, <1>4 DEF EditStep

\* One job goes on to n, nobody else's fields change.
LEMMA OneJob ==
  ASSUME StageTypes, NEW j \in Jobs, NEW n \in Jobbing, job' = [job EXCEPT ![j] = n]
  PROVE  job' \in [Jobs -> Jobbing] /\ job'[j] = n /\ \A k \in Jobs \ {j} : job'[k] = job[k]
  BY DEF StageTypes

\* A job that goes on and is not copying then, where directory and search stay.
LEMMA JobGoesOn ==
  ASSUME LabInv, NEW j \in Jobs, NEW n \in Jobbing, job' = [job EXCEPT ![j] = n], n.at # "copy",
         UNCHANGED <<staging, suggest, deployed, images, labels, negatives, calib>>,
         job[j].st # "completed", n.split = job[j].split,
         n.st = "completed" => n.at = "over", n.ready => n.st = "completed" /\ n.tested # {},
         Alone(j)'
  PROVE  LabInv'
<1>1. SampleTypes' /\ StageTypes'
  BY OneJob DEF LabInv, SampleTypes, StageTypes
<1>2. job'[j] = n /\ \A k \in Jobs \ {j} : job'[k] = job[k]
  BY OneJob DEF LabInv
<1>3. Documented(j)'
  BY <1>2 DEF LabInv, Documented
<1>4. ASSUME NEW k \in Jobs \ {j} PROVE Documented(k)' /\ Alone(k)'
  <2>1. SameJob(job'[k], job[k]) /\ (Copying(k)' => Copying(k))
    BY <1>2 DEF SameJob, Copying
  <2> QED
    BY <2>1, OtherJob DEF LabInv
<1>5. Searching'
  <2>1. suggest # None /\ suggest.of # None => suggest.of \in Jobs
    BY DEF LabInv, StageTypes
  <2> QED
    BY <1>2, <2>1 DEF LabInv, Searching
<1>6. (deployed # None => job[deployed].ready)'
  <2>1. deployed # None => deployed \in Jobs \ {j}
    BY DEF LabInv, StageTypes, Documented
  <2> QED
    BY <1>2, <2>1 DEF LabInv
<1> QED
  BY <1>1, <1>3, <1>4, <1>5, <1>6 DEF LabInv

\* A job that ends without success.
LEMMA JobFailed ==
  ASSUME LabInv, NEW j \in Jobs, job[j].at \in {"begin"} \cup Working, JobFails(j, job),
         UNCHANGED <<staging, suggest, deployed, images, labels, negatives, calib>>
  PROVE  LabInv'
<1> DEFINE m == job[j]
           n == [m EXCEPT !.st = "failed", !.at = "over"]
<1>1. m \in Jobbing /\ job' = [job EXCEPT ![j] = n] /\ m.at \in {"begin"} \cup Working
  BY DEF JobFails, LabInv, StageTypes
<1>2. m.st # "completed" /\ ~m.ready
  BY <1>1 DEF LabInv, Documented, Working
<1> HIDE DEF m
<1>3. /\ n \in Jobbing /\ n.st = "failed" /\ n.at = "over" /\ n.split = m.split /\ n.ready = m.ready
  BY <1>1 DEF Jobbing
<1> HIDE DEF n
<1>4. job'[j] = n
  BY <1>1, <1>3, OneJob DEF LabInv
<1>5. Alone(j)'
  BY <1>3, <1>4 DEF Alone, Working
<1> QED
  BY <1>1, <1>2, <1>3, <1>5, JobGoesOn DEF m

LEMMA StartKeeps == ASSUME LabInv, NEW j \in Jobs, StartTrain(j) PROVE LabInv'
<1> DEFINE m == job[j]
           n == [m EXCEPT !.st = "running", !.at = "begin"]
<1>1. /\ m \in Jobbing /\ m.st = "none" /\ job' = [job EXCEPT ![j] = n]
      /\ UNCHANGED <<staging, suggest, deployed, images, labels, negatives, calib>>
  BY DEF StartTrain, JobFrame, samples, LabInv, StageTypes
<1>2. ~m.ready
  BY <1>1 DEF LabInv, Documented
<1> HIDE DEF m
<1>3. /\ n \in Jobbing /\ n.st = "running" /\ n.at = "begin" /\ n.split = m.split /\ n.ready = m.ready
  BY <1>1 DEF Jobbing
<1> HIDE DEF n
<1>4. job'[j] = n
  BY <1>1, <1>3, OneJob DEF LabInv
<1>5. Alone(j)'
  BY <1>3, <1>4 DEF Alone, Working
<1> QED
  BY <1>1, <1>2, <1>3, <1>5, JobGoesOn DEF m

\* The directory is made anew: whoever needs it is disturbed.
LEMMA SplitsKeeps == ASSUME Partition, LabInv, NEW j \in Jobs, JobSplits(j) PROVE LabInv'
<1> DEFINE sp == Split[Reviewed][calib]
           D == Disturbed(j)
<1>1. SampleTypes /\ StageTypes /\ job[j].at = "begin"
  BY DEF LabInv, JobSplits
<1>2. UNCHANGED <<deployed, images, labels, negatives, calib>>
  BY DEF JobSplits, JobFrame, samples
<1>3. CASE JobFails(j, job) /\ UNCHANGED <<staging, suggest>>
  BY <1>1, <1>2, <1>3, JobFailed
<1>4. CASE /\ staging' = Nothing /\ SuggestDisturbed
           /\ \/ /\ Usable(sp)
                 /\ job' = [D EXCEPT ![j].split = sp, ![j].at = "copy", ![j].mixed = Copying(j)]
              \/ JobFails(j, D)
  <2> DEFINE m == D[j]
             c == [m EXCEPT !.split = sp, !.at = "copy", !.mixed = Copying(j)]
             f == [m EXCEPT !.st = "failed", !.at = "over"]
  <2>1. /\ m \in Jobbing /\ m.st = job[j].st /\ m.at = "begin" /\ m.ready = job[j].ready
        /\ m.split = job[j].split /\ D \in [Jobs -> Jobbing]
        /\ \A k \in Jobs \ {j} : SameJob(D[k], job[k]) /\ (job[k].at \in Working => D[k].mixed)
    BY <1>1, DisturbedJobs DEF SameJob
  <2>2. sp \in Splits /\ (~calib => sp \in PlainSplits)
    BY <1>1, SplitHere
  <2>3. job' = [D EXCEPT ![j] = c] \/ job' = [D EXCEPT ![j] = f]
    BY <1>4 DEF JobFails
  <2>4. job[j].st # "completed" /\ ~job[j].ready /\ (~calib => job[j].split \in PlainSplits)
    BY <1>1 DEF LabInv, Documented
  <2> HIDE DEF m, D, sp
  <2>5. Copying(j) \in BOOLEAN
    BY DEF Copying
  <2>6. /\ c \in Jobbing /\ c.st = m.st /\ c.at = "copy" /\ c.split = sp /\ c.ready = m.ready
        /\ c.mixed = Copying(j)
    BY <2>1, <2>2, <2>5 DEF Jobbing, Working
  <2>7. f \in Jobbing /\ f.st = "failed" /\ f.at = "over" /\ f.split = m.split /\ f.ready = m.ready
    BY <2>1 DEF Jobbing
  <2> HIDE DEF c, f
  <2>8. /\ job' \in [Jobs -> Jobbing] /\ (job'[j] = c \/ job'[j] = f)
        /\ \A k \in Jobs \ {j} : job'[k] = D[k]
    BY <2>1, <2>3, <2>6, <2>7
  <2>9. SampleTypes' /\ StageTypes' /\ Searching'
    <3>1. Nothing \in Stages
      BY DEF Nothing, Stages
    <3> QED
      BY <1>1, <1>2, <1>4, <2>8, <3>1, SearchDisturbed DEF SampleTypes, StageTypes, Searching
  <2>10. Documented(j)'
    BY <1>2, <2>1, <2>2, <2>4, <2>6, <2>7, <2>8 DEF Documented
  <2>11. Alone(j)'
    <3>1. CASE job'[j] = f
      BY <2>7, <3>1 DEF Alone, Working
    <3>2. CASE job'[j] = c
      <4>1. Copying(j)' => Copying(j)
        <5>1. \A k \in Jobs \ {j} : job'[k].at = job[k].at
          BY <2>1, <2>8 DEF SameJob
        <5>2. suggest' # None => suggest # None /\ suggest'.at = suggest.at
          BY <1>1, <1>4 DEF SuggestDisturbed, StageTypes
        <5> QED
          BY <5>1, <5>2 DEF Copying
      <4> QED
        BY <1>4, <2>1, <2>4, <2>6, <3>2, <4>1 DEF Alone
    <3> QED
      BY <2>8, <3>1, <3>2
  <2>12. ASSUME NEW k \in Jobs \ {j} PROVE Documented(k)' /\ Alone(k)'
    <3>1. SameJob(job'[k], job[k]) /\ (job[k].at \in Working => job'[k].mixed)
      BY <2>1, <2>8
    <3> QED
      BY <1>2, <3>1, OtherJob DEF LabInv
  <2>13. (deployed # None => job[deployed].ready)'
    <3>1. deployed # None => deployed \in Jobs \ {j}
      BY <1>1, <2>4 DEF LabInv, StageTypes
    <3> QED
      BY <1>2, <2>1, <2>8, <3>1 DEF LabInv, SameJob
  <2> QED
    BY <2>9, <2>10, <2>11, <2>12, <2>13 DEF LabInv
<1> QED
  BY <1>3, <1>4 DEF JobSplits

\* Who copies disturbs, and whoever is not disturbed has the directory alone: the
\* copies of jobs and searches go to nobody else's directory.
LEMMA CopyKeeps ==
  ASSUME LabInv, NEW k \in Jobs, Copying(k), SameJob(job'[k], job[k]), calib' = calib
  PROVE  Documented(k)' /\ Alone(k)'
<1>1. ~job'[k].mixed => job[k].at \notin Working
  BY DEF LabInv, Alone, SameJob
<1> QED
  BY <1>1, OtherJob DEF LabInv

LEMMA CopiesKeeps == ASSUME Partition, LabInv, NEW j \in Jobs, JobCopies(j) PROVE LabInv'
<1> DEFINE m == job[j]
           n == [m EXCEPT !.at = "train"]
           d == [m EXCEPT !.at = "dead"]
<1>1. SampleTypes /\ StageTypes /\ m \in Jobbing /\ m.at = "copy"
  BY DEF LabInv, StageTypes, JobCopies
<1>2. UNCHANGED <<suggest, deployed, images, labels, negatives, calib>>
  BY DEF JobCopies, JobFrame, samples
<1>3. \/ staging # None /\ staging' = Filled(m.split) /\ job' = [job EXCEPT ![j] = n]
      \/ m.mixed /\ job' = [job EXCEPT ![j] = d] /\ staging' = staging
  BY DEF JobCopies
<1>4. m.st # "completed" /\ ~m.ready
  BY <1>1 DEF LabInv, Documented
<1>5. Alone(j) /\ Documented(j)
  BY DEF LabInv
<1>6. m.split \in Splits
  BY <1>1 DEF Jobbing
<1>7. /\ n \in Jobbing /\ n.at = "train" /\ n.st = m.st /\ n.split = m.split /\ n.ready = m.ready
      /\ n.mixed = m.mixed
      /\ d \in Jobbing /\ d.at = "dead" /\ d.st = m.st /\ d.split = m.split /\ d.ready = m.ready
      /\ d.mixed = m.mixed
  <2>1. m \in Jobbing
    BY <1>1
  <2> HIDE DEF m
  <2> QED
    BY <2>1 DEF Jobbing, Working
<1> HIDE DEF n, d
<1>8. /\ job' \in [Jobs -> Jobbing] /\ \A k \in Jobs \ {j} : job'[k] = job[k]
      /\ \/ staging # None /\ staging' = Filled(m.split) /\ job'[j] = n
         \/ m.mixed /\ job'[j] = d /\ staging' = staging
  BY <1>1, <1>3, <1>7, OneJob
<1>9. staging # None =>
        /\ Filled(m.split) \in Stages
        /\ staging = Nothing => /\ Unlearned(Filled(m.split).train, m.split)
                                /\ Filled(m.split).test \subseteq m.split.test
  BY <1>1, <1>6, FilledParts DEF StageTypes
<1>10. SampleTypes' /\ StageTypes'
  BY <1>1, <1>2, <1>8, <1>9 DEF SampleTypes, StageTypes
<1>11. suggest # None => suggest.of = None
  BY <1>1 DEF LabInv, Searching
<1>12. Documented(j)'
  BY <1>2, <1>4, <1>5, <1>7, <1>8 DEF Documented
<1>13. Alone(j)'
  <2>1. Copying(j)' => Copying(j)
    BY <1>2, <1>8 DEF Copying
  <2> HIDE DEF m
  <2>2. ~m.mixed => ~Copying(j) /\ staging = Nothing
    BY <1>1, <1>5 DEF Alone, Working, m
  <2>3. CASE job'[j] = d
    BY <1>4, <1>7, <1>8, <2>3 DEF Alone, Working
  <2>4. CASE job'[j] = n /\ staging # None /\ staging' = Filled(m.split)
    BY <1>4, <1>7, <1>9, <2>1, <2>2, <2>4 DEF Alone, Working
  <2> QED
    BY <1>8, <2>3, <2>4
<1>14. ASSUME NEW k \in Jobs \ {j} PROVE Documented(k)' /\ Alone(k)'
  <2>1. SameJob(job'[k], job[k]) /\ Copying(k)
    BY <1>1, <1>8 DEF SameJob, Copying
  <2> QED
    BY <1>2, <2>1, CopyKeeps
<1>15. Searching'
  BY <1>2, <1>11 DEF Searching
<1>16. (deployed # None => job[deployed].ready)'
  <2>1. deployed # None => deployed \in Jobs \ {j}
    BY <1>1, <1>4 DEF LabInv, StageTypes
  <2> QED
    BY <1>2, <1>8, <2>1 DEF LabInv
<1> QED
  BY <1>10, <1>12, <1>13, <1>14, <1>15, <1>16 DEF LabInv

LEMMA TrainsKeeps == ASSUME LabInv, NEW j \in Jobs, JobTrains(j) PROVE LabInv'
<1> DEFINE m == job[j]
           n == [m EXCEPT !.at = "evaluate", !.trained = staging.train]
<1>1. StageTypes /\ m \in Jobbing /\ m.at = "train" /\ Alone(j)
  BY DEF LabInv, StageTypes, JobTrains
<1>2. UNCHANGED <<staging, suggest, deployed, images, labels, negatives, calib>>
  BY DEF JobTrains, JobFrame, samples
<1>3. m.st # "completed" /\ ~m.ready
  BY <1>1 DEF LabInv, Documented
<1>4. CASE JobFails(j, job)
  BY <1>1, <1>2, <1>4, JobFailed DEF Working
<1>5. CASE staging # None /\ job' = [job EXCEPT ![j] = n]
  <2>1. staging.train \subseteq Samples
    BY <1>1, <1>5 DEF StageTypes, Stages
  <2>2. /\ n \in Jobbing /\ n.at = "evaluate" /\ n.st = m.st /\ n.split = m.split /\ n.ready = m.ready
        /\ n.mixed = m.mixed /\ n.trained = staging.train
    <3>1. m \in Jobbing
      BY <1>1
    <3> HIDE DEF m
    <3> QED
      BY <2>1, <3>1 DEF Jobbing, Working
  <2> HIDE DEF n
  <2>3. job'[j] = n /\ \A k \in Jobs \ {j} : job'[k] = job[k]
    BY <1>1, <1>5, <2>2, OneJob
  <2>4. Copying(j)' => Copying(j)
    BY <1>2, <2>3 DEF Copying
  <2>5. Alone(j)'
    BY <1>1, <1>2, <1>3, <2>2, <2>3, <2>4 DEF Alone, Working
  <2> QED
    BY <1>2, <1>3, <1>5, <2>2, <2>5, JobGoesOn
<1> QED
  BY <1>4, <1>5 DEF JobTrains

LEMMA EvaluatesKeeps == ASSUME LabInv, NEW j \in Jobs, JobEvaluates(j) PROVE LabInv'
<1> DEFINE m == job[j]
           t == IF staging # None /\ staging.yaml THEN staging.test ELSE {}
<1>1. StageTypes /\ m \in Jobbing /\ m.at = "evaluate" /\ Alone(j)
  BY DEF LabInv, StageTypes, JobEvaluates
<1>2. UNCHANGED <<staging, suggest, deployed, images, labels, negatives, calib>>
  BY DEF JobEvaluates, JobFrame, samples
<1>3. m.st # "completed" /\ ~m.ready
  BY <1>1 DEF LabInv, Documented
<1>4. CASE JobFails(j, job)
  BY <1>1, <1>2, <1>4, JobFailed DEF Working
<1>5. ASSUME NEW e \in Evaluations(t),
             job' = [job EXCEPT ![j].st = "completed", ![j].at = "over", ![j].tested = t,
                                ![j].ready = Gate(e)]
      PROVE  LabInv'
  <2> DEFINE n == [m EXCEPT !.st = "completed", !.at = "over", !.tested = t, !.ready = Gate(e)]
  <2>1. t \subseteq Samples /\ (~m.mixed => t \subseteq m.split.test)
    BY <1>1 DEF StageTypes, Stages, Alone
  <2>2. Gate(e) \in BOOLEAN /\ (Gate(e) => t # {})
    BY DEF Evaluations, Gate
  <2>3. job' = [job EXCEPT ![j] = n]
    BY <1>5
  <2> HIDE DEF t
  <2>4. /\ n \in Jobbing /\ n.at = "over" /\ n.st = "completed" /\ n.split = m.split /\ n.tested = t
        /\ n.mixed = m.mixed /\ n.trained = m.trained /\ (n.ready => t # {})
    <3>1. m \in Jobbing
      BY <1>1
    <3> HIDE DEF m
    <3> QED
      BY <2>1, <2>2, <3>1 DEF Jobbing
  <2> HIDE DEF n
  <2>5. job'[j] = n
    BY <1>1, <2>3, <2>4, OneJob
  <2>6. Alone(j)'
    BY <1>1, <2>1, <2>4, <2>5 DEF Alone, Working
  <2> QED
    BY <1>2, <1>3, <2>3, <2>4, <2>6, JobGoesOn
<1> QED
  BY <1>4, <1>5 DEF JobEvaluates

\* A search that is not excused has found the split of a job that nobody disturbed.
LEMMA NotExcused ==
  ASSUME Partition, LabInv, NEW of \in Jobs, job[of].st = "completed",
         Usable(Split[Reviewed][FALSE]), ~Excused(of, Split[Reviewed][FALSE])
  PROVE  /\ ~job[of].mixed /\ job[of].at = "over" /\ Split[Reviewed][FALSE] = job[of].split
         /\ \A k \in Jobs : job[k].at # "copy"
<1>1. Documented(of) /\ SampleTypes
  BY DEF LabInv
<1>2. /\ ~calib /\ ~job[of].mixed /\ Whole(Split[Reviewed][FALSE]) = Whole(job[of].split)
      /\ ~Copying(None)
  BY DEF Excused
<1>3. job[of].at = "over" /\ job[of].split \in PlainSplits
  BY <1>1, <1>2 DEF Documented
<1>4. \A k \in Jobs : job[k].at # "copy"
  <2>1. Jobs \ {None} = Jobs
    BY Minima DEF Jobs
  <2> QED
    BY <1>2, <2>1 DEF Copying
<1>5. Split[Reviewed][FALSE] = job[of].split
  BY <1>1, <1>2, <1>3, SameSplit, SplitHere
<1> QED
  BY <1>2, <1>3, <1>4, <1>5

LEMMA SuggestKeeps == ASSUME Partition, LabInv, SuggestSplits PROVE LabInv'
<1> DEFINE sp == Split[Reviewed][FALSE]
           Found(of) == [at |-> "copy", split |-> sp, of |-> IF Excused(of, sp) THEN None ELSE of]
<1>1. SampleTypes /\ StageTypes
  BY DEF LabInv
<1>2. /\ staging' = Nothing /\ job' = Disturbed(None)
      /\ UNCHANGED <<deployed, images, labels, negatives, calib>>
  BY DEF SuggestSplits, SuggestStarts, JobFrame, samples
<1>3. PICK of \in {None} \cup {j \in Jobs : job[j].st = "completed"} :
        suggest' = IF Usable(sp) THEN Found(of) ELSE None
  BY DEF SuggestSplits, SuggestStarts
<1>4. DisturbsAll
  BY <1>1, <1>2, AllDisturbed
<1>5. SampleTypes'
  BY <1>1, <1>2 DEF SampleTypes
<1>6. sp \in Splits /\ Nothing \in Stages
  BY <1>1, SplitHere DEF Splits, Nothing, Stages
<1>7. StageTypes'
  <2>1. job' \in [Jobs -> Jobbing]
    BY <1>4 DEF DisturbsAll
  <2>2. suggest' \in {None} \cup [at : {"copy", "sweep"}, split : Splits, of : {None} \cup Jobs]
    <3> HIDE DEF sp
    <3> QED
      BY <1>3, <1>6
  <2> QED
    BY <1>1, <1>2, <1>6, <2>1, <2>2 DEF StageTypes
<1>8. Searching'
  <2> SUFFICES ASSUME suggest' # None, suggest'.of # None
               PROVE  /\ job'[suggest'.of].st = "completed" /\ ~job'[suggest'.of].mixed
                      /\ \A j \in Jobs : job'[j].at # "copy"
                      /\ suggest'.at = "copy" => staging' = Nothing /\ suggest'.split = job'[suggest'.of].split
                      /\ suggest'.at # "sweep"
    BY DEF Searching
  <2>1. Usable(sp) /\ ~Excused(of, sp) /\ of # None /\ suggest' = [at |-> "copy", split |-> sp, of |-> of]
    BY <1>3
  <2>2. of \in Jobs /\ job[of].st = "completed"
    BY <1>3, <2>1
  <2>3. /\ ~job[of].mixed /\ job[of].at = "over" /\ sp = job[of].split
        /\ \A k \in Jobs : job[k].at # "copy"
    BY <2>1, <2>2, NotExcused
  <2>4. /\ job'[of].st = "completed" /\ ~job'[of].mixed /\ job'[of].split = job[of].split
        /\ \A k \in Jobs : job'[k].at = job[k].at
    BY <1>1, <1>2, <2>2, <2>3, DisturbedJobs DEF Working
  <2> HIDE DEF sp
  <2> QED
    BY <1>2, <2>1, <2>3, <2>4
<1> QED
  BY <1>2, <1>4, <1>5, <1>7, <1>8, AfterDisturbance

LEMMA SearchCopies == ASSUME Partition, LabInv, SuggestCopies PROVE LabInv'
<1>1. /\ SampleTypes /\ StageTypes /\ Searching /\ suggest # None /\ suggest.at = "copy" /\ suggest.split \in Splits
  BY DEF LabInv, StageTypes, SuggestCopies
<1>2. UNCHANGED <<job, deployed, images, labels, negatives, calib>>
  BY DEF SuggestCopies, JobFrame, samples
<1>3. ASSUME NEW k \in Jobs PROVE Documented(k)' /\ Alone(k)'
  <2>1. SameJob(job'[k], job[k]) /\ Copying(k)
    BY <1>1, <1>2 DEF SameJob, Copying
  <2> QED
    BY <1>2, <2>1, CopyKeeps
<1>4. (deployed # None => job[deployed].ready)'
  BY <1>2 DEF LabInv
<1>5. CASE staging = None
  <2>1. suggest' = None /\ staging' = staging
    BY <1>5 DEF SuggestCopies
  <2> QED
    BY <1>1, <1>2, <1>3, <1>4, <2>1 DEF LabInv, SampleTypes, StageTypes, Searching
<1>6. CASE staging # None
  <2> DEFINE s == [suggest EXCEPT !.at = "sweep", !.split = Nothing]
  <2>1. suggest' = s /\ staging' = Filled(suggest.split)
    BY <1>6 DEF SuggestCopies
  <2>2. /\ Filled(suggest.split) \in Stages
        /\ staging = Nothing => Filled(suggest.split).val \subseteq suggest.split.val
    BY <1>1, <1>6, FilledParts DEF StageTypes
  <2>3. /\ s \in [at : {"copy", "sweep"}, split : Splits, of : {None} \cup Jobs]
        /\ s.at = "sweep" /\ s.of = suggest.of
    BY <1>1 DEF StageTypes, Splits, PlainSplits
  <2> HIDE DEF s
  <2>4. StageTypes' /\ SampleTypes'
    BY <1>1, <1>2, <2>1, <2>2, <2>3 DEF StageTypes, SampleTypes
  <2>5. Searching'
    <3> SUFFICES ASSUME suggest.of # None PROVE Searching'
      BY <2>1, <2>3 DEF Searching
    <3> DEFINE m == job[suggest.of]
    <3>1. /\ suggest.of \in Jobs /\ m.st = "completed" /\ ~m.mixed /\ staging = Nothing
          /\ suggest.split = m.split /\ \A j \in Jobs : job[j].at # "copy"
      BY <1>1 DEF Searching, StageTypes
    <3>2. Unlearned(m.trained, m.split)
      BY <3>1 DEF LabInv, Alone
    <3>3. staging'.val \subseteq m.split.val
      BY <2>1, <2>2, <3>1
    <3>4. staging'.val \cap m.trained = {}
      BY <3>2, <3>3 DEF Unlearned
    <3> QED
      BY <1>2, <2>1, <2>3, <3>1, <3>4 DEF Searching
  <2> QED
    BY <1>3, <1>4, <2>4, <2>5 DEF LabInv
<1> QED
  BY <1>5, <1>6

LEMMA LeavingKeeps ==
  LabInv /\ (SuggestSweeps \/ (\E j \in Jobs : Deploy(j)) \/ Restart \/ UNCHANGED labVars) => LabInv'
<1> SUFFICES ASSUME LabInv, SuggestSweeps \/ (\E j \in Jobs : Deploy(j)) \/ Restart \/ UNCHANGED labVars
             PROVE  LabInv'
  OBVIOUS
<1>1. SampleTypes /\ StageTypes
  BY DEF LabInv
<1>2. CASE SuggestSweeps
  <2>1. suggest' = None /\ UNCHANGED <<staging, job, deployed, images, labels, negatives, calib>>
    BY <1>2 DEF SuggestSweeps, JobFrame, samples
  <2>2. SampleTypes' /\ StageTypes' /\ Searching'
    BY <1>1, <2>1 DEF SampleTypes, StageTypes, Searching
  <2>3. ASSUME NEW k \in Jobs PROVE Documented(k)' /\ Alone(k)'
    <3>1. SameJob(job'[k], job[k]) /\ (Copying(k)' => Copying(k))
      BY <2>1 DEF SameJob, Copying
    <3> QED
      BY <2>1, <3>1, OtherJob DEF LabInv
  <2> QED
    BY <2>1, <2>2, <2>3 DEF LabInv
<1>3. ASSUME NEW j \in Jobs, Deploy(j) PROVE LabInv'
  <2>1. deployed' = j /\ job[j].ready /\ UNCHANGED <<staging, job, suggest, images, labels, negatives, calib>>
    BY <1>3 DEF Deploy, JobFrame, samples
  <2>2. SampleTypes' /\ StageTypes' /\ Searching' /\ job'[deployed'].ready
    BY <1>1, <2>1 DEF LabInv, SampleTypes, StageTypes, Searching
  <2>3. \A k \in Jobs : Documented(k)' /\ Alone(k)'
    BY <2>1 DEF LabInv, Documented, Alone, Copying
  <2> QED
    BY <2>2, <2>3 DEF LabInv
<1>4. CASE Restart
  <2>1. /\ suggest' = None /\ UNCHANGED <<staging, deployed, images, labels, negatives, calib>>
        /\ job' = [j \in Jobs |-> IF job[j].st = "running" THEN [job[j] EXCEPT !.at = "dead"] ELSE job[j]]
    BY <1>4 DEF Restart, samples
  <2>2. ASSUME NEW k \in Jobs
        PROVE  LET n == job'[k] m == job[k] IN
               /\ n \in Jobbing /\ n.st = m.st /\ n.split = m.split /\ n.trained = m.trained
               /\ n.tested = m.tested /\ n.ready = m.ready /\ n.mixed = m.mixed
               /\ n.at = IF m.st = "running" THEN "dead" ELSE m.at
    <3> DEFINE m == job[k]
               n == job'[k]
    <3>1. m \in Jobbing /\ n = IF m.st = "running" THEN [m EXCEPT !.at = "dead"] ELSE m
      BY <1>1, <2>1 DEF StageTypes
    <3> HIDE DEF m, n
    <3>2. /\ n \in Jobbing /\ n.st = m.st /\ n.split = m.split /\ n.trained = m.trained
          /\ n.tested = m.tested /\ n.ready = m.ready /\ n.mixed = m.mixed
          /\ n.at = IF m.st = "running" THEN "dead" ELSE m.at
      BY <3>1 DEF Jobbing
    <3> QED
      BY <3>2 DEF m, n
  <2>3. SampleTypes' /\ StageTypes' /\ Searching'
    <3>1. job' \in [Jobs -> Jobbing]
      BY <2>1, <2>2
    <3> QED
      BY <1>1, <2>1, <3>1 DEF SampleTypes, StageTypes, Searching
  <2>4. ASSUME NEW k \in Jobs PROVE Documented(k)' /\ Alone(k)'
    <3>1. CASE job[k].st = "running"
      BY <2>1, <2>2, <3>1 DEF LabInv, Documented, Alone, Working
    <3>2. CASE job[k].st # "running"
      <4>1. Copying(k)' => Copying(k)
        BY <2>1, <2>2 DEF Copying
      <4>2. SameJob(job'[k], job[k])
        BY <2>2, <3>2 DEF SameJob
      <4> QED
        BY <2>1, <4>1, <4>2, OtherJob DEF LabInv
    <3> QED
      BY <3>1, <3>2
  <2>5. (deployed # None => job[deployed].ready)'
    BY <1>1, <2>1, <2>2 DEF LabInv, StageTypes
  <2> QED
    BY <2>3, <2>4, <2>5 DEF LabInv
<1>5. CASE UNCHANGED labVars
  <2>1. UNCHANGED <<staging, job, suggest, deployed, images, labels, negatives, calib>>
    BY <1>5 DEF labVars
  <2> QED
    BY <1>1, <2>1, SampleChange DEF SampleTypes
<1> QED
  BY <1>2, <1>3, <1>4, <1>5

LEMMA LabStep == ASSUME Partition PROVE LabInv /\ [LabNext]_labVars => LabInv'
<1> SUFFICES ASSUME LabInv, [LabNext]_labVars PROVE LabInv'
  OBVIOUS
<1>1. ASSUME NEW j \in Jobs, StartTrain(j) \/ JobStep(j) PROVE LabInv'
  BY <1>1, StartKeeps, SplitsKeeps, CopiesKeeps, TrainsKeeps, EvaluatesKeeps DEF JobStep
<1>2. CASE EditStep \/ HelperStep
  BY <1>2, EditKeeps
<1>3. CASE SuggestSplits \/ SuggestCopies
  BY <1>3, SuggestKeeps, SearchCopies
<1>4. CASE SuggestSweeps \/ (\E j \in Jobs : Deploy(j)) \/ Restart \/ UNCHANGED labVars
  BY <1>4, LeavingKeeps
<1> QED
  BY <1>1, <1>2, <1>3, <1>4 DEF LabNext

(* The laboratory keeps LabInv, whatever the minima, the shuffle and the    *)
(* numbers of samples, jobs and changes (_run_training_job,                 *)
(* training_threshold_suggest).                                             *)
THEOREM LabKeeps == LabSpec => []LabInv
<1>1. LabInv /\ [LabNext]_labVars => LabInv'
  BY LabStep, Partitions
<1> QED
  BY <1>1, LabInitially, PTL DEF LabSpec

(* Deployed weights were judged on images they were not trained on, unless  *)
(* the staging directory was rebuilt under the job                          *)
(* (materialize_yolo_split, _run_training_job, training_deploy).            *)
THEOREM GateHonest == LabSpec => []GateIsHonest
<1>1. ASSUME LabInv PROVE GateIsHonest
  <2> SUFFICES ASSUME deployed # None, ~job[deployed].mixed
               PROVE  job[deployed].tested # {} /\ job[deployed].tested \cap job[deployed].trained = {}
    BY DEF GateIsHonest
  <2>1. deployed \in Jobs /\ job[deployed].ready
    BY <1>1 DEF LabInv, StageTypes
  <2>2. job[deployed].st = "completed" /\ job[deployed].tested # {}
    BY <1>1, <2>1 DEF LabInv, Documented
  <2>3. /\ Unlearned(job[deployed].trained, job[deployed].split)
        /\ job[deployed].tested \subseteq job[deployed].split.test
    BY <1>1, <2>1, <2>2 DEF LabInv, Alone
  <2> QED
    BY <2>2, <2>3 DEF Unlearned
<1> QED
  BY <1>1, LabKeeps, PTL

(* A threshold is suggested from images the weights did not learn from,     *)
(* where the search is not excused (training_threshold_suggest).            *)
THEOREM AdviceHonest == LabSpec => []AdviceIsHonest
<1>1. LabInv => AdviceIsHonest
  BY DEF LabInv, Searching, AdviceIsHonest
<1> QED
  BY <1>1, LabKeeps, PTL

(* What a person drew is replaced by a model's boxes only by an automatic   *)
(* labelling that had begun before it was drawn (approve_draft_labels,      *)
(* autolabel_images_with_weights).                                          *)
THEOREM HandStays == LabSpec => HandLabelsStay
<1> DEFINE Labelled == labels \in [Samples -> {"none", "hand", "model", "empty"}]
           Stays == \A s \in Samples : labels[s] = "hand" /\ labels'[s] = "model"
                      => auto # None /\ auto.s = s /\ s \notin auto.reviewed
<1>1. LabInit => Labelled
  BY DEF LabInit
<1>2. ASSUME Labelled, [LabNext]_labVars PROVE Labelled' /\ Stays
  <2>1. CASE UNCHANGED labels
    BY <1>2, <2>1
  <2>2. ASSUME NEW s \in Samples,
               \/ Capture(s) \/ ImportFalseAlarm(s) \/ ImportRight(s) \/ DeleteSample(s) \/ SaveLabel(s)
               \/ Approve(s)
        PROVE  Labelled' /\ Stays
    <3>1. \/ UNCHANGED labels
          \/ \E l \in {"none", "hand", "empty"} : labels' = [labels EXCEPT ![s] = l]
          \/ labels[s] # "hand" /\ labels' = [labels EXCEPT ![s] = "model"]
      BY <2>2 DEF Capture, ImportFalseAlarm, ImportRight, DeleteSample, SaveLabel, Approve
    <3> QED
      BY <1>2, <3>1
  <2>3. CASE AutoLabel
    BY <1>2, <2>3 DEF AutoLabel
  <2>4. CASE DeleteProject
    BY <1>2, <2>4 DEF DeleteProject
  <2>5. ASSUME NEW j \in Jobs, StartTrain(j) \/ JobStep(j) \/ Deploy(j) PROVE UNCHANGED labels
    BY <2>5 DEF StartTrain, JobStep, JobSplits, JobCopies, JobTrains, JobEvaluates, Deploy, JobFrame, samples
  <2>6. CASE SuggestSplits \/ SuggestCopies \/ SuggestSweeps \/ Restart
    BY <2>1, <2>6 DEF SuggestSplits, SuggestStarts, SuggestCopies, SuggestSweeps, Restart, JobFrame, samples
  <2>7. CASE PrelabelWrites \/ (\E only \in BOOLEAN : Prelabel(only)) \/ UNCHANGED labVars
    BY <2>1, <2>7 DEF PrelabelWrites, Prelabel, samples, labVars
  <2> QED
    BY <1>2, <2>1, <2>2, <2>3, <2>4, <2>5, <2>6, <2>7 DEF LabNext, EditStep, HelperStep
<1>3. Labelled /\ [LabNext]_labVars => Labelled' /\ [Stays]_labVars
  BY <1>2
<1> QED
  BY <1>1, <1>3, PTL DEF LabSpec, HandLabelsStay

-----------------------------------------------------------------------------
\* Serving.

Copies == [w : Weights, t : Int]
Refs == [id : Nat, legacy : BOOLEAN]
Versions == [id : Nat, w : Weights, t : Int, ext : Ext, legacy : BOOLEAN]
WebPlaces == {"none", "meta", "drop", "discard", "unload", "reload", "stamp", "done", "torn"}
RoundPlaces == {"idle", "stamp", "infer", "export", "load", "open", "call"}

DiskTypes ==
  /\ now \in Nat /\ file \in [Ext -> {Absent} \cup Copies] /\ versions \subseteq Versions
  /\ meta \in {Absent} \cup [ext : Ext, active : {Absent} \cup Refs, t : Int]
OpTypes ==
  op \in [kind : {"none", "deploy", "activate", "delete"}, at : WebPlaces, ext : Ext,
          ver : {Absent} \cup Refs, w : {Absent} \cup Weights, again : BOOLEAN]
RoundTypes ==
  /\ plugins \in [Procs -> {Absent} \cup [of : {Absent} \cup Refs, path : Ext]]
  /\ phase \in [Procs -> [at : RoundPlaces, w : {Absent} \cup Weights]]
NotedTypes ==
  /\ loaded \in [Procs -> BOOLEAN] /\ opened \in [Procs -> BOOLEAN] /\ outdated \subseteq Procs
  /\ hub \in {Absent} \cup Weights /\ sessions \in BOOLEAN
ServingTypes == DiskTypes /\ OpTypes /\ RoundTypes /\ NotedTypes

\* What a round is about to do rests on what it found.
InRound ==
  \A p \in Procs : /\ phase[p].at \in {"export", "load"} => phase[p].w \in Weights
                   /\ phase[p].at = "open" => loaded[p]

\* Between the discard and the daemon's answer the web process has no record,
\* unless a load of its own made one again.
Discarded == op.at = "unload" /\ ~op.again => ~loaded[Web] /\ ~opened[Web]

\* What a request copied is there until it has been made ready.
Copied == op.at \in {"meta", "drop"} => file[op.ext] \in Copies

NotedInv == ServingTypes /\ Copied /\ InRound /\ Discarded /\ RecordsAreTrue

LEMMA NotedInit == Init => NotedInv
<1> SUFFICES ASSUME Init PROVE NotedInv
  OBVIOUS
<1>1. DiskTypes /\ OpTypes
  BY DEF Init, DiskTypes, OpTypes, NoRequest, WebPlaces, Ext
<1>2. RoundTypes /\ NotedTypes
  BY DEF Init, RoundTypes, NotedTypes, Idle, RoundPlaces
<1>3. Copied /\ InRound /\ Discarded /\ RecordsAreTrue
  BY WebIsAProcess DEF Init, Copied, InRound, Discarded, RecordsAreTrue, Idle, NoRequest
<1> QED
  BY <1>1, <1>2, <1>3 DEF NotedInv, ServingTypes

LEMMA DiskPluginType == ServingTypes => DiskPlugin \in {Absent} \cup [of : {Absent} \cup Refs, path : Ext]
<1> SUFFICES ASSUME ServingTypes, meta # Absent PROVE DiskPlugin \in [of : {Absent} \cup Refs, path : Ext]
  BY DEF DiskPlugin
<1>1. Path \in Ext
  BY DEF Path, ServingTypes, DiskTypes
<1> QED
  BY <1>1 DEF DiskPlugin, ServingTypes, DiskTypes

\* Steps of the web process that leave the records alone.
LEMMA DeployTypes ==
  ASSUME ServingTypes, NEW w \in Weights, NEW u \in BOOLEAN, NEW e \in Ext, DeployCopy(w, u, e)
  PROVE  DiskTypes' /\ OpTypes' /\ op'.at = "meta" /\ Copied'
<1> DEFINE source == File(w, IF u THEN now + 1 ELSE 0)
           prev   == IF file[e] = Absent THEN {}
                     ELSE {[Snapshot(now + 1, file[e], e) EXCEPT !.legacy = l] : l \in BOOLEAN}
           new    == Snapshot(now + 2, source, e)
<1>1. source \in Copies
  BY DEF File, Copies, ServingTypes, DiskTypes
<1>2. new \in Versions /\ new.id = now + 2 /\ Ref(new) \in Refs
  BY <1>1 DEF Snapshot, Versions, Copies, Ref, Refs, ServingTypes, DiskTypes
<1>3. prev \subseteq Versions
  <2>1. file[e] # Absent => file[e] \in Copies
    BY DEF ServingTypes, DiskTypes
  <2> QED
    BY <2>1 DEF Snapshot, Versions, Copies, ServingTypes, DiskTypes
<1>4. versions' \subseteq Versions
  <2>1. versions' \subseteq versions \cup prev \cup {new}
    BY DEF DeployCopy, Prune
  <2> QED
    BY <1>2, <1>3, <2>1 DEF ServingTypes, DiskTypes
<1>5. /\ file' = [file EXCEPT ![e] = source] /\ now' = now + 2 /\ meta' = meta
      /\ op' = [kind |-> "deploy", at |-> "meta", ext |-> e, ver |-> Ref(new), w |-> w, again |-> FALSE]
  BY DEF DeployCopy
<1> HIDE DEF source, new
<1>6. DiskTypes'
  BY <1>1, <1>4, <1>5 DEF ServingTypes, DiskTypes
<1>7. OpTypes' /\ op'.at = "meta"
  BY <1>2, <1>5 DEF OpTypes, WebPlaces
<1>8. Copied'
  BY <1>1, <1>5 DEF Copied, ServingTypes, DiskTypes
<1> QED
  BY <1>6, <1>7, <1>8

LEMMA NotedKept ==
  ASSUME NotedInv, DiskTypes', OpTypes', RoundTypes', Copied', UNCHANGED <<loaded, opened, outdated, hub, sessions>>,
         \A p \in Procs : /\ phase'[p].at \in {"export", "load"} => phase'[p].w \in Weights
                          /\ phase'[p].at = "open" => loaded[p],
         op'.at = "unload" => op.at = "unload" /\ op'.again = op.again
  PROVE  NotedInv'
<1>1. ServingTypes' /\ InRound' /\ Discarded' /\ RecordsAreTrue'
  BY DEF NotedInv, ServingTypes, NotedTypes, InRound, Discarded, RecordsAreTrue, Answer
<1> QED
  BY <1>1 DEF NotedInv

LEMMA RequestNotes == ASSUME NotedInv, WebRequest PROVE NotedInv'
<1>1. ServingTypes
  BY DEF NotedInv
<1>2. ASSUME NEW w \in Weights, NEW e \in Ext, DeployTrained(w) \/ ImportSpecialist(w, e)
      PROVE  NotedInv'
  <2>1. DiskTypes' /\ OpTypes' /\ op'.at = "meta" /\ Copied'
    BY <1>1, <1>2, DeployTypes DEF DeployTrained, ImportSpecialist, Ext
  <2>2. UNCHANGED <<plugins, phase, loaded, opened, outdated, hub, sessions>>
    BY <1>2 DEF DeployTrained, ImportSpecialist, DeployCopy, clients, records, daemon
  <2> QED
    BY <1>1, <2>1, <2>2, NotedKept DEF NotedInv, ServingTypes, RoundTypes, InRound
<1>3. ASSUME NEW v \in versions, ActivateCopy(v) PROVE NotedInv'
  <2>1. v \in Versions
    BY <1>1 DEF ServingTypes, DiskTypes
  <2>2. DiskTypes' /\ OpTypes' /\ op'.at = "meta" /\ Copied'
    BY <1>1, <1>3, <2>1 DEF ActivateCopy, Copied, ServingTypes, DiskTypes, OpTypes, Versions, Copies, File, Ref, Refs, WebPlaces
  <2>3. UNCHANGED <<plugins, phase, loaded, opened, outdated, hub, sessions>>
    BY <1>3 DEF ActivateCopy, clients, records, daemon
  <2> QED
    BY <1>1, <2>2, <2>3, NotedKept DEF NotedInv, ServingTypes, RoundTypes, InRound
<1>4. CASE DeleteSpecialist
  <2>1. DiskTypes' /\ OpTypes' /\ op'.at = "reload" /\ Copied'
    BY <1>1, <1>4 DEF DeleteSpecialist, Copied, ServingTypes, DiskTypes, OpTypes, WebPlaces, Ext
  <2>2. UNCHANGED <<plugins, phase, loaded, opened, outdated, hub, sessions>>
    BY <1>4 DEF DeleteSpecialist, clients, records, daemon
  <2> QED
    BY <1>1, <2>1, <2>2, NotedKept DEF NotedInv, ServingTypes, RoundTypes, InRound
<1> QED
  <2>1. \/ \E w \in Weights : \E e \in Ext : DeployTrained(w) \/ ImportSpecialist(w, e)
        \/ (\E v \in versions : ActivateCopy(v)) \/ DeleteSpecialist
    BY DEF WebRequest, Ext
  <2> QED
    BY <1>2, <1>3, <1>4, <2>1

LEMMA WebNotes == ASSUME NotedInv, WebStep PROVE NotedInv'
<1>1. ServingTypes /\ Copied
  BY DEF NotedInv
<1>2. CASE SaveMeta
  <2>1. DiskTypes'
    BY <1>1, <1>2 DEF SaveMeta, Metadata, ServingTypes, DiskTypes, OpTypes
  <2>2. OpTypes' /\ op'.at # "unload" /\ Copied'
    BY <1>1, <1>2 DEF SaveMeta, Copied, ServingTypes, OpTypes, WebPlaces
  <2>3. UNCHANGED <<plugins, phase, loaded, opened, outdated, hub, sessions>>
    BY <1>2 DEF SaveMeta, clients, records, daemon
  <2> QED
    BY <1>1, <2>1, <2>2, <2>3, NotedKept DEF NotedInv, ServingTypes, RoundTypes, InRound
<1>3. CASE DropPrepare
  <2>1. \/ UNCHANGED <<now, file>>
        \/ now' = now + 1 /\ \E f \in Copies : file' = [file EXCEPT !["onnx"] = f]
    <3>1. op.ext \in Ext /\ op.at = "drop"
      BY <1>1, <1>3 DEF DropPrepare, ServingTypes, OpTypes
    <3>2. op.ext # "onnx" => file["pt"] \in Copies /\ now + 1 \in Int
      BY <1>1, <3>1 DEF Copied, Ext, ServingTypes, DiskTypes
    <3>3. op.ext # "onnx" => File(file["pt"].w, now + 1) \in Copies
      BY <3>2 DEF File, Copies
    <3> QED
      BY <1>3, <3>3 DEF DropPrepare
  <2>2. DiskTypes'
    BY <1>1, <1>3, <2>1 DEF DropPrepare, ServingTypes, DiskTypes
  <2>3. OpTypes' /\ op'.at \in {"discard", "reload"}
    BY <1>1, <1>3 DEF DropPrepare, ServingTypes, OpTypes, WebPlaces
  <2>4. UNCHANGED <<plugins, phase, loaded, opened, outdated, hub, sessions>>
    BY <1>3 DEF DropPrepare, clients, records, daemon
  <2> QED
    BY <1>1, <2>2, <2>3, <2>4, NotedKept DEF NotedInv, ServingTypes, RoundTypes, InRound, Copied
<1>4. CASE DropDiscard
  <2>1. UNCHANGED <<now, file, versions, meta, plugins, phase, hub, sessions>>
    BY <1>4 DEF DropDiscard, disk, clients, daemon
  <2>2. /\ loaded' = [loaded EXCEPT ![Web] = FALSE] /\ opened' = [opened EXCEPT ![Web] = FALSE]
        /\ outdated' = outdated \ {Web} /\ phase[Web].at \notin {"load", "open"}
    BY <1>4 DEF DropDiscard
  <2>3. OpTypes' /\ op'.at = "unload"
    BY <1>1, <1>4 DEF DropDiscard, ServingTypes, OpTypes, WebPlaces
  <2>4. ServingTypes'
    BY <1>1, <2>1, <2>2, <2>3 DEF ServingTypes, DiskTypes, RoundTypes, NotedTypes
  <2>5. InRound'
    BY <1>1, <2>1, <2>2 DEF NotedInv, InRound, ServingTypes, NotedTypes
  <2>6. Copied' /\ Discarded' /\ RecordsAreTrue'
    BY <1>1, <2>1, <2>2, <2>3, WebIsAProcess
       DEF NotedInv, Copied, Discarded, RecordsAreTrue, Answer, ServingTypes, NotedTypes
  <2> QED
    BY <2>4, <2>5, <2>6 DEF NotedInv
<1>5. CASE DropUnload
  <2>1. UNCHANGED <<now, file, versions, meta, plugins, phase, loaded, opened, sessions>> /\ hub' = Absent
    BY <1>5 DEF DropUnload, Forget, disk, clients
  <2>2. outdated' = outdated \cup ({p \in Procs : loaded[p]} \ (IF op.again THEN {} ELSE {Web}))
    BY <1>5 DEF DropUnload
  <2>3. OpTypes' /\ op'.at = "reload" /\ op.at = "unload"
    BY <1>1, <1>5 DEF DropUnload, ServingTypes, OpTypes, WebPlaces
  <2>4. ServingTypes'
    BY <1>1, <2>1, <2>2, <2>3 DEF ServingTypes, DiskTypes, RoundTypes, NotedTypes
  <2>5. InRound' /\ Copied' /\ Discarded'
    BY <2>1, <2>3 DEF NotedInv, InRound, Copied, Discarded
  <2>6. ASSUME NEW p \in Procs, p \notin outdated' PROVE ~loaded[p] /\ ~opened[p]
    <3>1. p \notin outdated
      BY <2>2, <2>6
    <3>2. ~loaded[p]
      BY <2>2, <2>3, <2>6 DEF NotedInv, Discarded
    <3> QED
      BY <3>1, <3>2 DEF NotedInv, RecordsAreTrue
  <2>7. RecordsAreTrue'
    BY <2>1, <2>6 DEF RecordsAreTrue
  <2> QED
    BY <2>4, <2>5, <2>7 DEF NotedInv
<1>6. CASE WebReload \/ WebStamp
  <2>1. DiskPlugin \in {Absent} \cup [of : {Absent} \cup Refs, path : Ext]
    BY <1>1, DiskPluginType
  <2>2. UNCHANGED <<now, file, versions, meta, phase, loaded, opened, outdated, hub, sessions>>
    BY <1>6 DEF WebReload, WebStamp, disk, records, daemon
  <2>3. RoundTypes'
    BY <1>1, <1>6, <2>1, <2>2 DEF WebReload, WebStamp, ServingTypes, RoundTypes
  <2>4. OpTypes' /\ op'.at \in {"stamp", "done"}
    BY <1>1, <1>6 DEF WebReload, WebStamp, ServingTypes, OpTypes, WebPlaces
  <2> QED
    BY <1>1, <2>2, <2>3, <2>4, NotedKept DEF NotedInv, ServingTypes, DiskTypes, InRound, Copied
<1> QED
  BY <1>2, <1>3, <1>4, <1>5, <1>6 DEF WebStep

\* One round goes on.
LEMMA Goes ==
  ASSUME ServingTypes, NEW p \in Procs, NEW n \in [at : RoundPlaces, w : {Absent} \cup Weights],
         phase' = [phase EXCEPT ![p] = n]
  PROVE  /\ phase' \in [Procs -> [at : RoundPlaces, w : {Absent} \cup Weights]]
         /\ phase'[p] = n /\ \A q \in Procs \ {p} : phase'[q] = phase[q]
  BY DEF ServingTypes, RoundTypes

LEMMA GoneOn ==
  ASSUME ServingTypes, NEW p \in Procs, NEW place \in RoundPlaces
  PROVE  /\ Idle \in [at : RoundPlaces, w : {Absent} \cup Weights]
         /\ LET n == [phase[p] EXCEPT !.at = place] IN
            /\ n \in [at : RoundPlaces, w : {Absent} \cup Weights] /\ n.at = place /\ n.w = phase[p].w
            /\ GoOn(p, place) => phase' = [phase EXCEPT ![p] = n]
  BY DEF ServingTypes, RoundTypes, Idle, RoundPlaces, GoOn

\* A round that goes on and leaves record and daemon alone.
LEMMA RoundKept ==
  ASSUME NotedInv, NEW p \in Procs, NEW n \in [at : RoundPlaces, w : {Absent} \cup Weights],
         phase' = [phase EXCEPT ![p] = n],
         n.at \in {"export", "load"} => n.w \in Weights, n.at = "open" => loaded[p],
         DiskTypes', Copied',
         plugins' \in [Procs -> {Absent} \cup [of : {Absent} \cup Refs, path : Ext]],
         UNCHANGED <<op, loaded, opened, outdated, hub, sessions>>
  PROVE  NotedInv'
<1>1. ServingTypes
  BY DEF NotedInv
<1>2. /\ phase' \in [Procs -> [at : RoundPlaces, w : {Absent} \cup Weights]]
      /\ phase'[p] = n /\ \A q \in Procs \ {p} : phase'[q] = phase[q]
  BY <1>1, Goes
<1>3. RoundTypes' /\ OpTypes'
  BY <1>1, <1>2 DEF ServingTypes, RoundTypes, OpTypes
<1>4. \A q \in Procs : /\ phase'[q].at \in {"export", "load"} => phase'[q].w \in Weights
                       /\ phase'[q].at = "open" => loaded[q]
  BY <1>2 DEF NotedInv, InRound
<1> QED
  BY <1>3, <1>4, NotedKept

\* What infer_boxes decides.
LEMMA Decided ==
  ASSUME NotedInv, NEW p \in Procs, NEW w \in Weights, Decide(p, w)
  PROVE  \E n \in [at : RoundPlaces, w : {Absent} \cup Weights] :
           /\ phase' = [phase EXCEPT ![p] = n] /\ n.at \in {"call", "open", "load"}
           /\ n.at = "load" => n.w \in Weights
           /\ n.at = "open" => loaded[p]
<1>1. ServingTypes
  BY DEF NotedInv
<1>2. ASSUME NEW place \in {"call", "open"}, GoOn(p, place), place = "open" => loaded[p]
      PROVE  \E n \in [at : RoundPlaces, w : {Absent} \cup Weights] :
               /\ phase' = [phase EXCEPT ![p] = n] /\ n.at \in {"call", "open", "load"}
               /\ n.at = "load" => n.w \in Weights
               /\ n.at = "open" => loaded[p]
  <2> DEFINE n == [phase[p] EXCEPT !.at = place]
  <2>1. place \in RoundPlaces
    BY DEF RoundPlaces
  <2>2. n \in [at : RoundPlaces, w : {Absent} \cup Weights] /\ n.at = place /\ phase' = [phase EXCEPT ![p] = n]
    BY <1>1, <1>2, <2>1, GoneOn
  <2> HIDE DEF n
  <2> QED
    BY <1>2, <2>2
<1>3. CASE phase' = [phase EXCEPT ![p].at = "load", ![p].w = w]
  <2> DEFINE n == [phase[p] EXCEPT !.at = "load", !.w = w]
  <2>1. n \in [at : RoundPlaces, w : {Absent} \cup Weights] /\ n.at = "load" /\ n.w = w
    BY <1>1 DEF ServingTypes, RoundTypes, RoundPlaces
  <2>2. phase' = [phase EXCEPT ![p] = n]
    BY <1>3
  <2> HIDE DEF n
  <2> QED
    BY <2>1, <2>2
<1> QED
  BY <1>2, <1>3 DEF Decide

LEMMA RoundNotes == ASSUME NotedInv, NEW p \in Procs, Infer(p) PROVE NotedInv'
<1> DEFINE Phases == [at : RoundPlaces, w : {Absent} \cup Weights]
<1>1. ServingTypes /\ Idle \in Phases /\ Idle.at = "idle" /\ Copied
  BY GoneOn DEF NotedInv, Idle, RoundPlaces
<1>2. DiskPlugin \in {Absent} \cup [of : {Absent} \cup Refs, path : Ext]
  BY <1>1, DiskPluginType
<1>3. CASE Round(p)
  <2> DEFINE n == [at |-> IF Stamp > stamp[p] THEN "stamp" ELSE "infer", w |-> Absent]
  <2>1. n \in Phases /\ n.at \in {"stamp", "infer"} /\ phase' = [phase EXCEPT ![p] = n]
    BY <1>3 DEF Round, RoundPlaces
  <2>2. plugins' \in [Procs -> {Absent} \cup [of : {Absent} \cup Refs, path : Ext]]
    BY <1>1, <1>2, <1>3 DEF Round, ServingTypes, RoundTypes
  <2>3. UNCHANGED <<now, file, versions, meta, op, loaded, opened, outdated, hub, sessions>>
    BY <1>3 DEF Round, disk, web, records, daemon
  <2> HIDE DEF n
  <2> QED
    BY <1>1, <2>1, <2>2, <2>3, RoundKept DEF ServingTypes, DiskTypes, Copied
<1>4. CASE TakeStamp(p)
  <2>1. GoOn(p, "infer") /\ "infer" \in RoundPlaces
    BY <1>4 DEF TakeStamp, RoundPlaces
  <2>2. PICK n \in Phases : phase' = [phase EXCEPT ![p] = n] /\ n.at = "infer"
    BY <1>1, <2>1, GoneOn
  <2>3. UNCHANGED <<now, file, versions, meta, op, plugins, loaded, opened, outdated, hub, sessions>>
    BY <1>4 DEF TakeStamp, disk, web, records, daemon
  <2> QED
    BY <1>1, <2>2, <2>3, RoundKept DEF ServingTypes, DiskTypes, RoundTypes, Copied
<1>5. CASE Prepare(p)
  <2>1. UNCHANGED <<now, file, versions, meta, op, plugins, loaded, opened, outdated, hub, sessions>>
    BY <1>5 DEF Prepare, disk, web, records, daemon
  <2>2. \E n \in Phases : /\ phase' = [phase EXCEPT ![p] = n]
                          /\ n.at \in {"export", "load"} => n.w \in Weights
                          /\ n.at = "open" => loaded[p]
    <3>1. CASE Ends(p)
      BY <1>1, <3>1 DEF Ends
    <3>2. CASE ~Ends(p)
      <4>1. plugins[p].path \in Ext /\ file[plugins[p].path] \in Copies
        BY <1>1, <1>5, <3>2 DEF Prepare, ServingTypes, RoundTypes, DiskTypes
      <4>2. CASE plugins[p].path = "onnx" \/ UpToDate
        <5>1. file["onnx"].w \in Weights
          BY <1>1, <4>1, <4>2 DEF UpToDate, Copies, ServingTypes, DiskTypes, Ext
        <5>2. Decide(p, file["onnx"].w)
          BY <1>5, <3>2, <4>2 DEF Prepare
        <5> QED
          BY <5>1, <5>2, Decided
      <4>3. CASE ~(plugins[p].path = "onnx" \/ UpToDate)
        <5> DEFINE n == [phase[p] EXCEPT !.at = "export", !.w = file["pt"].w]
        <5>1. file["pt"].w \in Weights
          BY <4>1, <4>3 DEF Ext, Copies
        <5>2. n \in Phases /\ n.at = "export" /\ n.w = file["pt"].w
          BY <1>1, <5>1 DEF ServingTypes, RoundTypes, RoundPlaces
        <5>3. phase' = [phase EXCEPT ![p] = n]
          BY <1>5, <3>2, <4>3 DEF Prepare
        <5> HIDE DEF n
        <5> QED
          BY <5>1, <5>2, <5>3
      <4> QED
        BY <4>2, <4>3
    <3> QED
      BY <3>1, <3>2
  <2> QED
    BY <1>1, <2>1, <2>2, RoundKept DEF ServingTypes, DiskTypes, RoundTypes, Copied
<1>6. CASE Export(p)
  <2>1. UNCHANGED <<versions, meta, op, plugins, loaded, opened, outdated, hub, sessions>> /\ phase[p].at = "export"
    BY <1>6 DEF Export, web, records, daemon
  <2>2. phase[p].w \in Weights
    BY <2>1 DEF NotedInv, InRound
  <2>3. CASE Ends(p) /\ UNCHANGED <<file, now>>
    BY <1>1, <2>1, <2>3, RoundKept DEF Ends, ServingTypes, DiskTypes, RoundTypes, Copied
  <2>4. CASE /\ file' = [file EXCEPT !["onnx"] = File(phase[p].w, now + 1)]
             /\ now' = now + 1 /\ Decide(p, phase[p].w)
    <3>1. File(phase[p].w, now + 1) \in Copies
      BY <1>1, <2>2 DEF File, Copies, ServingTypes, DiskTypes
    <3>2. DiskTypes'
      <4>1. now' \in Nat /\ file' \in [Ext -> {Absent} \cup Copies]
        <5> DEFINE f == File(phase[p].w, now + 1)
        <5>1. file \in [Ext -> {Absent} \cup Copies] /\ now \in Nat
          BY <1>1 DEF ServingTypes, DiskTypes
        <5>2. file' = [file EXCEPT !["onnx"] = f] /\ f \in Copies /\ now' = now + 1
          BY <2>4, <3>1
        <5> HIDE DEF f
        <5>3. now' \in Nat
          BY <5>1, <5>2
        <5>4. file' \in [Ext -> {Absent} \cup Copies]
          BY <5>1, <5>2, Zenon
        <5> QED
          BY <5>3, <5>4
      <4> QED
        BY <1>1, <2>1, <4>1 DEF ServingTypes, DiskTypes
    <3>3. Copied'
      BY <1>1, <2>1, <2>4, <3>1 DEF Copied, ServingTypes, DiskTypes
    <3> QED
      BY <1>1, <2>1, <2>2, <2>4, <3>2, <3>3, Decided, RoundKept DEF ServingTypes, RoundTypes
  <2> QED
    BY <1>6, <2>3, <2>4 DEF Export
<1>7. CASE Call(p)
  <2>1. UNCHANGED <<now, file, versions, meta, op, plugins, loaded, opened, outdated, hub, sessions>> /\ Ends(p)
    BY <1>7 DEF Call, disk, web, records, daemon
  <2> QED
    BY <1>1, <2>1, RoundKept DEF Ends, ServingTypes, DiskTypes, RoundTypes, Copied
<1>8. CASE Open(p)
  <2>1. UNCHANGED <<now, file, versions, meta, op, plugins, loaded, outdated, hub>> /\ phase[p].at = "open"
    BY <1>8 DEF Open, disk, web
  <2>2. CASE Ends(p) /\ UNCHANGED <<sessions, opened>>
    BY <1>1, <2>1, <2>2, RoundKept DEF Ends, ServingTypes, DiskTypes, RoundTypes, Copied
  <2>3. CASE sessions' = TRUE /\ opened' = [opened EXCEPT ![p] = TRUE] /\ GoOn(p, "call") /\ hub # Absent
    <3>1. loaded[p]
      BY <2>1 DEF NotedInv, InRound
    <3>2. "call" \in RoundPlaces
      BY DEF RoundPlaces
    <3>3. PICK n \in Phases : phase' = [phase EXCEPT ![p] = n] /\ n.at = "call"
      BY <1>1, <2>3, <3>2, GoneOn
    <3>4. phase' \in [Procs -> Phases] /\ phase'[p] = n /\ \A q \in Procs \ {p} : phase'[q] = phase[q]
      BY <1>1, <3>3, Goes
    <3>5. ServingTypes'
      BY <1>1, <2>1, <2>3, <3>4 DEF ServingTypes, DiskTypes, OpTypes, RoundTypes, NotedTypes
    <3>6. InRound' /\ Copied'
      BY <2>1, <3>3, <3>4 DEF NotedInv, InRound, Copied
    <3>7. Discarded' /\ RecordsAreTrue'
      BY <1>1, <2>1, <2>3, <3>1 DEF NotedInv, Discarded, RecordsAreTrue, Answer, ServingTypes, NotedTypes
    <3> QED
      BY <3>5, <3>6, <3>7 DEF NotedInv
  <2> QED
    BY <1>8, <2>2, <2>3 DEF Open, OpenAllowed, Upsert
<1>9. CASE Load(p)
  <2>1. UNCHANGED <<now, file, versions, meta, plugins, opened, outdated, sessions>> /\ phase[p].at = "load"
    BY <1>9 DEF Load, disk
  <2>2. CASE Ends(p) /\ UNCHANGED <<hub, loaded, op>>
    BY <1>1, <2>1, <2>2, RoundKept DEF Ends, ServingTypes, DiskTypes, RoundTypes, Copied
  <2>3. CASE /\ hub' = phase[p].w /\ loaded' = [loaded EXCEPT ![p] = TRUE]
             /\ op' = IF p = Web THEN [op EXCEPT !.again = op.at = "unload"] ELSE op
             /\ GoOn(p, IF opened[p] THEN "call" ELSE "open")
    <3>1. hub' \in Weights /\ hub' # Absent
      BY <2>1, <2>3, WebIsAProcess DEF NotedInv, InRound
    <3>2. OpTypes' /\ op'.at = op.at /\ op'.ext = op.ext /\ (op.at = "unload" /\ p = Web => op'.again)
          /\ (p # Web => op'.again = op.again)
      BY <1>1, <2>3 DEF ServingTypes, OpTypes
    <3>3. (IF opened[p] THEN "call" ELSE "open") \in RoundPlaces
      BY DEF RoundPlaces
    <3> DEFINE place == IF opened[p] THEN "call" ELSE "open"
               n == [phase[p] EXCEPT !.at = place]
    <3>4. n \in Phases /\ n.at = place /\ phase' = [phase EXCEPT ![p] = n]
      BY <1>1, <2>3, <3>3, GoneOn
    <3>10. n.at \in {"call", "open"}
      BY <3>4
    <3> HIDE DEF n, place
    <3>5. phase' \in [Procs -> Phases] /\ phase'[p] = n /\ \A q \in Procs \ {p} : phase'[q] = phase[q]
      BY <1>1, <3>4, Goes
    <3>6. ServingTypes'
      BY <1>1, <2>1, <2>3, <3>1, <3>2, <3>5 DEF ServingTypes, DiskTypes, RoundTypes, NotedTypes
    <3>7. InRound'
      BY <1>1, <2>1, <2>3, <3>10, <3>5 DEF NotedInv, InRound, ServingTypes, NotedTypes
    <3>8. Copied'
      BY <2>1, <3>2 DEF NotedInv, Copied
    <3>9. Discarded'
      BY <1>1, <2>1, <2>3, <3>2 DEF NotedInv, Discarded, ServingTypes, NotedTypes
    <3>11. RecordsAreTrue'
      <4> DEFINE A == Answer
      <4>0. RecordsAreTrue
        BY DEF NotedInv
      <4>1. ASSUME NEW q \in Procs \ outdated PROVE opened[q] => loaded[q] /\ Answer # Absent
        BY <4>0 DEF RecordsAreTrue
      <4>2. A # Absent => A' # Absent
        BY <2>1, <3>1 DEF Answer
      <4>3. \A q \in Procs : loaded[q] => loaded'[q]
        BY <1>1, <2>3 DEF ServingTypes, NotedTypes
      <4> QED
        BY <2>1, <3>1, <4>1, <4>2, <4>3 DEF RecordsAreTrue
    <3> QED
      BY <3>6, <3>7, <3>8, <3>9, <3>11 DEF NotedInv
  <2> QED
    BY <1>9, <2>2, <2>3 DEF Load, Publish
<1> QED
  BY <1>3, <1>4, <1>5, <1>6, <1>7, <1>8, <1>9 DEF Infer

LEMMA RestartNotes ==
  ASSUME NotedInv, (\E p \in Procs : ProcessRestart(p)) \/ DaemonRestart PROVE NotedInv'
<1>1. ServingTypes /\ Copied
  BY DEF NotedInv
<1>2. ASSUME NEW p \in Procs, ProcessRestart(p) PROVE NotedInv'
  <2>1. /\ phase' = [phase EXCEPT ![p] = Idle] /\ loaded' = [loaded EXCEPT ![p] = FALSE]
        /\ opened' = [opened EXCEPT ![p] = FALSE] /\ outdated' = outdated \ {p}
        /\ plugins' = [plugins EXCEPT ![p] = DiskPlugin]
        /\ UNCHANGED <<now, file, versions, meta, hub, sessions>>
    BY <1>2 DEF ProcessRestart, disk, daemon
  <2>2. OpTypes' /\ (op'.at \in {"meta", "drop", "unload"} => op' = op)
    BY <1>1, <1>2 DEF ProcessRestart, Free, ServingTypes, OpTypes, NoRequest, WebPlaces, Ext
  <2>3. ServingTypes'
    <3>1. RoundTypes'
      BY <1>1, <2>1, DiskPluginType, GoneOn DEF ServingTypes, RoundTypes, Idle, RoundPlaces
    <3> QED
      BY <1>1, <2>1, <2>2, <3>1 DEF ServingTypes, DiskTypes, NotedTypes
  <2>4. InRound'
    BY <1>1, <2>1 DEF NotedInv, InRound, Idle, ServingTypes, RoundTypes, NotedTypes
  <2>5. Copied' /\ Discarded' /\ RecordsAreTrue'
    BY <1>1, <2>1, <2>2, WebIsAProcess
       DEF NotedInv, Copied, Discarded, RecordsAreTrue, Answer, ServingTypes, NotedTypes
  <2> QED
    BY <2>3, <2>4, <2>5 DEF NotedInv
<1>3. CASE DaemonRestart
  <2>1. /\ hub' = Absent /\ outdated' = outdated \cup {p \in Procs : loaded[p]} /\ sessions' = FALSE
        /\ phase' = [p \in Procs |-> IF phase[p].at \in {"load", "open", "call"} THEN Idle ELSE phase[p]]
        /\ UNCHANGED <<now, file, versions, meta, op, plugins, loaded, opened>>
    BY <1>3 DEF DaemonRestart, disk, web
  <2>2. ServingTypes'
    BY <1>1, <2>1 DEF ServingTypes, DiskTypes, OpTypes, RoundTypes, NotedTypes, Idle, RoundPlaces
  <2>3. InRound'
    BY <2>1 DEF NotedInv, InRound, Idle
  <2>4. Copied' /\ Discarded'
    BY <2>1 DEF NotedInv, Copied, Discarded
  <2>5. RecordsAreTrue'
    BY <2>1 DEF NotedInv, RecordsAreTrue
  <2> QED
    BY <2>2, <2>3, <2>4, <2>5 DEF NotedInv
<1> QED
  BY <1>2, <1>3

LEMMA NotedStep == NotedInv /\ [Next]_vars => NotedInv'
<1> SUFFICES ASSUME NotedInv, [Next]_vars PROVE NotedInv'
  OBVIOUS
<1>1. CASE WebRequest \/ WebStep
  BY <1>1, RequestNotes, WebNotes
<1>2. CASE \E p \in Analysts : Infer(p)
  BY <1>2, RoundNotes, WebIsAProcess
<1>3. CASE (\E p \in Procs : ProcessRestart(p)) \/ DaemonRestart
  BY <1>3, RestartNotes
<1>4. CASE UNCHANGED vars
  <2>1. UNCHANGED <<now, file, versions, meta, op, plugins, phase, loaded, opened, outdated, hub, sessions>>
    BY <1>4 DEF vars
  <2> QED
    BY <2>1, NotedKept DEF NotedInv, ServingTypes, DiskTypes, OpTypes, RoundTypes, InRound, Copied
<1> QED
  BY <1>1, <1>2, <1>3, <1>4 DEF Next

(* What a process has noted as loaded, the daemon holds, with the session   *)
(* it noted, unless the daemon was restarted or another thread's            *)
(* UnloadModel took it away (cpp_yolo._loaded, dedicated_yolo.drop_model).  *)
THEOREM RecordsStayTrue == Spec => []RecordsAreTrue
<1>1. NotedInv => RecordsAreTrue
  BY DEF NotedInv
<1> QED
  BY NotedInit, NotedStep, <1>1, PTL DEF Spec

-----------------------------------------------------------------------------
\* Pruning.

\* Of a finite set with ids, as many as wanted are those with the least ids.
LEMMA Oldest ==
  ASSUME NEW E, IsFiniteSet(E), \A v \in E : v.id \in Int, \A u, v \in E : u.id = v.id => u = v,
         NEW k \in 0..Cardinality(E)
  PROVE  LET Old == {v \in E : Cardinality({u \in E : u.id < v.id}) < k} IN
         IsFiniteSet(Old) /\ Cardinality(Old) = k
<1> DEFINE n == Cardinality(E)
           Older(v) == {u \in E : u.id < v.id}
           Old == {v \in E : Cardinality(Older(v)) < k}
           f == [v \in E |-> Cardinality(Older(v))]
<1>1. n \in Nat
  BY FS_CardinalityType
<1>2. ASSUME NEW v \in E PROVE /\ IsFiniteSet(Older(v)) /\ Cardinality(Older(v)) \in 0..(n - 1)
  <2>1. Older(v) \in SUBSET E /\ Older(v) # E
    BY DEF Older
  <2>2. IsFiniteSet(Older(v)) /\ Cardinality(Older(v)) <= n /\ (n = Cardinality(Older(v)) => E = Older(v))
    BY <2>1, FS_Subset
  <2>3. Cardinality(Older(v)) \in Nat
    BY <2>2, FS_CardinalityType
  <2> HIDE DEF Older
  <2> QED
    BY <1>1, <2>1, <2>2, <2>3
<1>3. ASSUME NEW u \in E, NEW v \in E, u.id < v.id PROVE Cardinality(Older(u)) # Cardinality(Older(v))
  <2>1. u \in Older(v) /\ u \notin Older(u) /\ \A x \in Older(u) : x \in Older(v)
    BY <1>3
  <2>2. Older(u) \in SUBSET Older(v) /\ Older(u) # Older(v)
    BY <2>1
  <2> HIDE DEF Older
  <2> QED
    BY <1>2, <2>2, FS_Subset
<1> HIDE DEF Older
<1>4. \A u, v \in E : Cardinality(Older(u)) = Cardinality(Older(v)) => u = v
  BY <1>3
<1>5. \A i \in 0..(n - 1) : \E v \in E : Cardinality(Older(v)) = i
  <2>1. f \in Injection(E, 0..(n - 1))
    BY <1>2, <1>4 DEF Injection, IsInjective
  <2>2. IsFiniteSet(0..(n - 1)) /\ Cardinality(0..(n - 1)) = n
    <3>1. 0 \in Int /\ n - 1 \in Int /\ n \in Nat
      BY <1>1
    <3> HIDE DEF n
    <3>2. IsFiniteSet(0..(n - 1)) /\ Cardinality(0..(n - 1)) = IF 0 > n - 1 THEN 0 ELSE n - 1 - 0 + 1
      BY <3>1, FS_Interval
    <3> QED
      BY <3>1, <3>2
  <2>3. f \in Surjection(E, 0..(n - 1))
    BY <2>1, <2>2, FS_Injection
  <2> QED
    BY <2>3 DEF Surjection
<1>6. IsFiniteSet(Old)
  BY FS_Subset
<1>7. Cardinality(Old) = k
  <2> DEFINE g == [v \in Old |-> Cardinality(Older(v))]
  <2>1. g \in Injection(Old, 0..(k - 1))
    <3>1. g \in [Old -> 0..(k - 1)]
      BY <1>1, <1>2
    <3> QED
      BY <1>4, <3>1 DEF Injection, IsInjective
  <2>2. IsFiniteSet(0..(k - 1)) /\ Cardinality(0..(k - 1)) = k
    <3>1. 0 \in Int /\ k - 1 \in Int /\ k \in Nat
      BY <1>1
    <3>2. IsFiniteSet(0..(k - 1)) /\ Cardinality(0..(k - 1)) = IF 0 > k - 1 THEN 0 ELSE k - 1 - 0 + 1
      BY <3>1, FS_Interval
    <3> QED
      BY <3>1, <3>2
  <2>3. \A i \in 0..(k - 1) : \E v \in Old : g[v] = i
    <3> SUFFICES ASSUME NEW i \in 0..(k - 1) PROVE \E v \in Old : g[v] = i
      OBVIOUS
    <3>1. PICK v \in E : Cardinality(Older(v)) = i
      BY <1>1, <1>5
    <3> QED
      BY <3>1
  <2>4. g \in Surjection(Old, 0..(k - 1))
    <3>1. g \in [Old -> 0..(k - 1)]
      BY <2>1 DEF Injection
    <3> HIDE DEF g
    <3> QED
      BY <2>3, <3>1 DEF Surjection
  <2> HIDE DEF g, Old
  <2> QED
    BY <2>1, <2>2, <2>4, FS_Injection
<1> QED
  BY <1>6, <1>7 DEF Older

Dirs(vs) == {v \in vs : ~v.legacy}
IdsDiffer(vs) == \A u, v \in Dirs(vs) : u.id = v.id => u = v

LEMMA Pruned ==
  ASSUME NEW vs \in SUBSET Versions, IsFiniteSet(vs), IdsDiffer(vs), NEW a \in Nat, NEW b \in Nat
  PROVE  LET kept == Prune(vs, {a, b}) IN
         /\ kept \subseteq vs /\ \A v \in vs : v.id \in {a, b} => v \in kept
         /\ Cardinality(Dirs(kept)) <= MaxVersions
<1> DEFINE dirs  == {v \in vs : ~v.legacy}
           extra == {v \in dirs : v.id \notin {a, b}}
           Older(v) == {u \in extra : u.id < v.id}
           gone  == {v \in extra : Cardinality(Older(v)) < Cardinality(dirs) - MaxVersions}
           kept  == Prune(vs, {a, b})
           d     == Cardinality(dirs)
           x     == Cardinality(extra)
<1>1. kept = vs \ gone
  BY DEF Prune
<1>2. kept \subseteq vs /\ \A v \in vs : v.id \in {a, b} => v \in kept
  BY <1>1
<1>3. Dirs(kept) = dirs \ gone
  BY <1>1 DEF Dirs
<1>4. /\ IsFiniteSet(dirs) /\ IsFiniteSet(extra) /\ d \in Nat /\ x \in Nat /\ extra \subseteq dirs
  <2>1. dirs \in SUBSET vs /\ extra \in SUBSET dirs
    OBVIOUS
  <2> HIDE DEF dirs, extra
  <2> QED
    BY <2>1, FS_Subset, FS_CardinalityType
<1>5. /\ \A v \in extra : v.id \in Int
      /\ \A u, v \in dirs : u.id = v.id => u = v
  BY DEF IdsDiffer, Dirs, Versions
<1>6. d <= x + 2
  <2> DEFINE rest == dirs \ extra
             f == [v \in rest |-> v.id]
  <2>1. f \in Injection(rest, {a, b})
    <3>1. \A v \in rest : v \in dirs /\ v.id \in {a, b}
      OBVIOUS
    <3> HIDE DEF dirs, rest
    <3>2. f \in [rest -> {a, b}]
      BY <3>1
    <3>3. \A u, v \in rest : f[u] = f[v] => u = v
      BY <1>5, <3>1
    <3> HIDE DEF f
    <3> QED
      BY <3>2, <3>3 DEF Injection, IsInjective
  <2>2. IsFiniteSet({a, b}) /\ Cardinality({a, b}) <= 2
    <3>1. IsFiniteSet({a}) /\ Cardinality({a}) = 1
      BY FS_Singleton
    <3>2. {a, b} = {a} \cup {b}
      OBVIOUS
    <3> QED
      BY <3>1, <3>2, FS_AddElement
  <2>3. IsFiniteSet(rest) /\ Cardinality(rest) <= Cardinality({a, b})
    BY <2>1, <2>2, FS_Injection
  <2>4. Cardinality(rest) = d - Cardinality(dirs \cap extra)
    BY <1>4, FS_Difference
  <2>5. dirs \cap extra = extra
    BY <1>4
  <2>6. Cardinality(rest) \in Nat /\ Cardinality({a, b}) \in Nat
    BY <2>2, <2>3, FS_CardinalityType
  <2>7. Cardinality(rest) = d - x
    BY <2>4, <2>5
  <2> HIDE DEF rest, d, x
  <2> QED
    BY <1>4, <2>2, <2>3, <2>6, <2>7
<1>7. Cardinality(dirs \ gone) <= MaxVersions
  <2>1. CASE d <= MaxVersions
    <3>1. dirs \ gone \in SUBSET dirs
      OBVIOUS
    <3>2. Cardinality(dirs \ gone) <= d /\ IsFiniteSet(dirs \ gone)
      BY <1>4, <3>1, FS_Subset
    <3>3. Cardinality(dirs \ gone) \in Nat
      BY <3>2, FS_CardinalityType
    <3> HIDE DEF dirs, gone
    <3> QED
      BY <1>4, <2>1, <3>2, <3>3, RoomForVersions
  <2>2. CASE d > MaxVersions
    <3> DEFINE k == d - MaxVersions
    <3>1. k \in 0..x
      BY <1>4, <1>6, <2>2, RoomForVersions
    <3>2. IsFiniteSet(gone) /\ Cardinality(gone) = k
      <4>1. \A u, v \in extra : u.id = v.id => u = v
        BY <1>4, <1>5
      <4> HIDE DEF k, d, dirs, extra
      <4> QED
        BY <1>4, <1>5, <3>1, <4>1, Oldest DEF k, d
    <3>3. dirs \cap gone = gone
      OBVIOUS
    <3>4. Cardinality(dirs \ gone) = d - Cardinality(dirs \cap gone)
      BY <1>4, FS_Difference
    <3> HIDE DEF dirs, gone, extra
    <3> QED
      BY <1>4, <3>2, <3>3, <3>4, RoomForVersions
  <2> QED
    BY <1>4, <2>1, <2>2, RoomForVersions
<1> QED
  BY <1>2, <1>3, <1>7

\* The versions of a specialist: ids are their times, and the request that
\* copied one has it in the directory.
VersionsKept ==
  /\ IsFiniteSet(versions) /\ IdsDiffer(versions) /\ Cardinality(Dirs(versions)) <= MaxVersions
  /\ \A v \in versions : v.id <= now
  /\ op.at = "meta" => \E v \in versions : Ref(v) = op.ver /\ v.ext = op.ext
ActiveThere ==
  meta # Absent /\ op.at \notin {"meta", "torn"}
    => \E v \in versions : Ref(v) = meta.active /\ v.ext = meta.ext
VersionInv == NotedInv /\ VersionsKept /\ ActiveThere

\* A step that leaves the versions alone.
LEMMA VersionsStay ==
  ASSUME VersionInv, NotedInv', versions' = versions, meta' = meta, now' >= now,
         op'.at = "meta" => op.at = "meta" /\ op'.ver = op.ver /\ op'.ext = op.ext,
         op'.at \notin {"meta", "torn"} => op.at \notin {"meta", "torn"}
  PROVE  VersionInv'
<1>1. now \in Nat /\ now' \in Nat /\ \A v \in versions : v.id \in Nat
  BY DEF VersionInv, NotedInv, ServingTypes, DiskTypes, Versions
<1>2. VersionsKept'
  BY <1>1 DEF VersionInv, VersionsKept, IdsDiffer, Dirs
<1>3. ActiveThere'
  BY DEF VersionInv, ActiveThere
<1> QED
  BY <1>2, <1>3 DEF VersionInv

LEMMA DeployVersions ==
  ASSUME VersionInv, NotedInv', NEW w \in Weights, NEW u \in BOOLEAN, NEW e \in Ext, DeployCopy(w, u, e)
  PROVE  VersionInv'
<1> DEFINE source == File(w, IF u THEN now + 1 ELSE 0)
           Old(l) == [Snapshot(now + 1, file[e], e) EXCEPT !.legacy = l]
           prev   == IF file[e] = Absent THEN {} ELSE {Old(l) : l \in BOOLEAN}
           new    == Snapshot(now + 2, source, e)
           all    == versions \cup prev \cup {new}
<1>1. DiskTypes /\ now \in Nat /\ now + 1 \in Nat /\ now + 2 \in Nat
  BY DEF VersionInv, NotedInv, ServingTypes, DiskTypes
<1>2. /\ versions' = Prune(all, {now + 1, now + 2}) /\ now' = now + 2
      /\ op'.at = "meta" /\ op'.ver = Ref(new) /\ op'.ext = e
  BY DEF DeployCopy
<1>3. new \in Versions /\ new.id = now + 2 /\ new.ext = e /\ ~new.legacy
  BY <1>1 DEF Snapshot, Versions, File, DiskTypes
<1>4. /\ prev \subseteq Versions /\ \A v \in prev : v.id = now + 1
      /\ \A v, x \in prev : ~v.legacy /\ ~x.legacy => v = x
      /\ IsFiniteSet(prev)
  <2>1. CASE file[e] = Absent
    BY <2>1, FS_EmptySet
  <2>2. CASE file[e] # Absent
    <3>1. file[e] \in Copies
      BY <1>1, <2>2 DEF DiskTypes
    <3>2. /\ Old(TRUE) \in Versions /\ Old(TRUE).id = now + 1 /\ Old(TRUE).legacy = TRUE
          /\ Old(FALSE) \in Versions /\ Old(FALSE).id = now + 1 /\ Old(FALSE).legacy = FALSE
      BY <1>1, <3>1 DEF Snapshot, Versions, Copies
    <3>3. prev = {Old(TRUE)} \cup {Old(FALSE)}
      BY <2>2
    <3> HIDE DEF Old, prev
    <3>4. IsFiniteSet(prev)
      <4>1. IsFiniteSet({Old(TRUE)})
        BY FS_Singleton
      <4> QED
        BY <3>3, <4>1, FS_AddElement
    <3> QED
      BY <3>2, <3>3, <3>4
  <2> QED
    BY <2>1, <2>2
<1> HIDE DEF prev, new
<1>5. all \in SUBSET Versions
  BY <1>1, <1>3, <1>4 DEF DiskTypes
<1>6. IsFiniteSet(all)
  <2>1. IsFiniteSet(versions \cup prev)
    BY <1>4, FS_Union DEF VersionInv, VersionsKept
  <2> QED
    BY <2>1, FS_AddElement
<1>7. IdsDiffer(all)
  <2>1. \A v \in versions : v.id <= now /\ v.id \in Nat
    BY <1>1 DEF VersionInv, VersionsKept, DiskTypes, Versions
  <2>2. \A v, x \in versions : ~v.legacy /\ ~x.legacy /\ v.id = x.id => v = x
    BY DEF VersionInv, VersionsKept, IdsDiffer, Dirs
  <2> SUFFICES ASSUME NEW v \in all, NEW x \in all, ~v.legacy, ~x.legacy, v.id = x.id PROVE v = x
    BY DEF IdsDiffer, Dirs
  <2>3. CASE v \in versions
    BY <1>1, <1>3, <1>4, <2>1, <2>2, <2>3
  <2>4. CASE v \in prev
    BY <1>1, <1>3, <1>4, <2>1, <2>4
  <2>5. CASE v = new
    BY <1>1, <1>3, <1>4, <2>1, <2>5
  <2> QED
    BY <2>3, <2>4, <2>5
<1>8. /\ versions' \subseteq all /\ new \in versions' /\ Cardinality(Dirs(versions')) <= MaxVersions
  <2> HIDE DEF all
  <2>1. LET kept == Prune(all, {now + 1, now + 2}) IN
        /\ kept \subseteq all /\ \A v \in all : v.id \in {now + 1, now + 2} => v \in kept
        /\ Cardinality(Dirs(kept)) <= MaxVersions
    BY <1>1, <1>5, <1>6, <1>7, Pruned
  <2>2. new \in all
    BY DEF all
  <2> QED
    BY <1>2, <1>3, <2>1, <2>2
<1>9. \A v \in all : v.id <= now + 2
  BY <1>1, <1>3, <1>4 DEF VersionInv, VersionsKept, DiskTypes, Versions
<1>10. IsFiniteSet(versions') /\ IdsDiffer(versions') /\ \A v \in versions' : v.id <= now'
  <2>1. IsFiniteSet(versions')
    BY <1>6, <1>8, FS_Subset
  <2> QED
    BY <1>2, <1>7, <1>8, <1>9, <2>1 DEF IdsDiffer, Dirs
<1>11. VersionsKept'
  BY <1>2, <1>3, <1>8, <1>10 DEF VersionsKept, IdsDiffer, Dirs
<1> QED
  BY <1>2, <1>11 DEF VersionInv, ActiveThere

LEMMA VersionStep == VersionInv /\ [Next]_vars => VersionInv'
<1> SUFFICES ASSUME VersionInv, [Next]_vars PROVE VersionInv'
  OBVIOUS
<1>1. NotedInv /\ NotedInv' /\ ServingTypes /\ DiskTypes /\ OpTypes
  BY NotedStep DEF VersionInv, NotedInv, ServingTypes
<1>2. now \in Nat
  BY <1>1 DEF DiskTypes
<1>3. ASSUME NEW w \in Weights, NEW e \in Ext, DeployTrained(w) \/ ImportSpecialist(w, e) PROVE VersionInv'
  BY <1>1, <1>3, DeployVersions DEF DeployTrained, ImportSpecialist, Ext
<1>4. ASSUME NEW v \in versions, ActivateCopy(v) PROVE VersionInv'
  <2>1. UNCHANGED <<now, versions, meta>> /\ op'.at = "meta" /\ op'.ver = Ref(v) /\ op'.ext = v.ext
    BY <1>4 DEF ActivateCopy
  <2> QED
    BY <1>1, <2>1 DEF VersionInv, VersionsKept, ActiveThere, IdsDiffer, Dirs
<1>5. CASE DeleteSpecialist
  <2>1. versions' = {} /\ meta' = Absent /\ op'.at = "reload"
    BY <1>5 DEF DeleteSpecialist
  <2>2. Dirs({}) = {}
    BY DEF Dirs
  <2>3. IsFiniteSet({}) /\ Cardinality({}) <= MaxVersions
    BY FS_EmptySet, RoomForVersions
  <2>4. VersionsKept' /\ ActiveThere'
    BY <2>1, <2>2, <2>3 DEF VersionsKept, ActiveThere, IdsDiffer
  <2> QED
    BY <1>1, <2>4 DEF VersionInv
<1>6. CASE SaveMeta
  <2>1. /\ meta'.active = op.ver /\ meta'.ext = op.ext /\ op.at = "meta" /\ versions' = versions /\ now' = now + 1
        /\ op'.at \in {"reload", "drop"}
    BY <1>1, <1>6 DEF SaveMeta, Metadata, OpTypes
  <2>2. PICK v \in versions : Ref(v) = op.ver /\ v.ext = op.ext
    BY <2>1 DEF VersionInv, VersionsKept
  <2>3. VersionsKept'
    <3>1. \A x \in versions : x.id <= now /\ x.id \in Nat
      BY <1>1 DEF VersionInv, VersionsKept, DiskTypes, Versions
    <3>2. \A x \in versions' : x.id <= now'
      BY <1>2, <2>1, <3>1
    <3> QED
      BY <2>1, <3>2 DEF VersionInv, VersionsKept, IdsDiffer, Dirs
  <2>4. ActiveThere'
    BY <2>1, <2>2 DEF ActiveThere
  <2> QED
    BY <1>1, <2>3, <2>4 DEF VersionInv
<1>7. CASE DropPrepare \/ DropDiscard \/ DropUnload \/ WebReload \/ WebStamp
  <2>1. versions' = versions /\ meta' = meta /\ now' >= now
    BY <1>2, <1>7 DEF DropPrepare, DropDiscard, DropUnload, WebReload, WebStamp, disk
  <2>2. op.at \notin {"meta", "torn"} /\ op'.at \notin {"meta", "torn"}
    BY <1>1, <1>7 DEF DropPrepare, DropDiscard, DropUnload, WebReload, WebStamp, OpTypes
  <2> QED
    BY <1>1, <2>1, <2>2, VersionsStay
<1>8. ASSUME NEW p \in Analysts, Infer(p) PROVE VersionInv'
  <2>1. versions' = versions /\ meta' = meta /\ now' >= now
    BY <1>2, <1>8 DEF Infer, Round, TakeStamp, Prepare, Export, Load, Open, Call, disk
  <2>2. op'.at = op.at /\ op'.ver = op.ver /\ op'.ext = op.ext
    <3>1. op' = op \/ op' = [op EXCEPT !.again = op.at = "unload"]
      BY <1>8 DEF Infer, Round, TakeStamp, Prepare, Export, Load, Open, Call, web
    <3> QED
      BY <1>1, <3>1 DEF OpTypes
  <2> QED
    BY <1>1, <2>1, <2>2, VersionsStay
<1>9. CASE (\E p \in Procs : ProcessRestart(p)) \/ DaemonRestart \/ UNCHANGED vars
  <2>1. UNCHANGED <<versions, meta, now>>
    BY <1>9 DEF ProcessRestart, DaemonRestart, disk, vars
  <2>2. \/ op' = op
        \/ op.at = "meta" /\ op'.at = "torn"
        \/ op.at \notin {"meta", "torn"} /\ op'.at = "none"
    <3>1. CASE DaemonRestart \/ UNCHANGED vars
      BY <3>1 DEF DaemonRestart, web, vars
    <3>2. ASSUME NEW p \in Procs, ProcessRestart(p)
          PROVE  \/ op' = op
                 \/ op.at = "meta" /\ op'.at = "torn"
                 \/ op.at \notin {"meta", "torn"} /\ op'.at = "none"
      <4>1. \/ op' = op
            \/ op.at = "meta" /\ op' = [op EXCEPT !.at = "torn"]
            \/ op.at \notin {"none", "done", "torn", "meta"} /\ op' = NoRequest
        BY <3>2 DEF ProcessRestart, Free
      <4>2. NoRequest.at = "none"
        BY DEF NoRequest
      <4>3. op.at = "meta" /\ op' = [op EXCEPT !.at = "torn"] => op'.at = "torn"
        BY <1>1 DEF OpTypes
      <4> QED
        BY <4>1, <4>2, <4>3
    <3> QED
      BY <1>9, <3>1, <3>2
  <2> QED
    BY <1>1, <1>2, <2>1, <2>2, VersionsStay
<1> QED
  <2>1. \/ \E w \in Weights : \E e \in Ext : DeployTrained(w) \/ ImportSpecialist(w, e)
        \/ \E v \in versions : ActivateCopy(v)
        \/ DeleteSpecialist \/ WebStep \/ (\E p \in Analysts : Infer(p))
        \/ (\E p \in Procs : ProcessRestart(p)) \/ DaemonRestart \/ UNCHANGED vars
    BY DEF Next, WebRequest, Ext
  <2> QED
    BY <1>3, <1>4, <1>5, <1>6, <1>7, <1>8, <1>9, <2>1 DEF WebStep

LEMMA VersionInit == Init => VersionInv
<1> SUFFICES ASSUME Init PROVE VersionInv
  OBVIOUS
<1>1. versions = {} /\ meta = Absent /\ op.at = "none"
  BY DEF Init, NoRequest
<1>2. IsFiniteSet({}) /\ Cardinality({}) <= MaxVersions /\ Dirs({}) = {}
  BY FS_EmptySet, RoomForVersions DEF Dirs
<1> QED
  BY <1>1, <1>2, NotedInit DEF VersionInv, VersionsKept, ActiveThere, IdsDiffer

(* Pruning never takes the version the metadata calls active, and leaves no *)
(* more than MaxVersions; only a crash between the copy and the metadata    *)
(* excuses (specialists.deploy_specialist, _prune_versions).                *)
THEOREM ActiveVersionStays == Spec => []ActiveVersionIsKept
<1>1. VersionInv => ActiveVersionIsKept
  BY DEF VersionInv, VersionsKept, ActiveThere, ActiveVersionIsKept, Dirs
<1> QED
  BY VersionInit, VersionStep, <1>1, PTL DEF Spec
=============================================================================
