----------------------------- MODULE TrainingLab -----------------------------
(***************************************************************************)
(* One project of the training laboratory: its samples and their labels,   *)
(* the split that training jobs and the threshold search put into the      *)
(* shared directory _yolo_staging, the jobs, and deployment through the    *)
(* quality gate. Requests interleave with job threads, with a running      *)
(* prelabelling and with a running automatic labelling.                    *)
(***************************************************************************)
EXTENDS Integers, FiniteSets

CONSTANTS N,            \* samples are 1..N
          MaxJobs,      \* bound: jobs are 1..MaxJobs, in the order they start
          Shuffle,      \* Shuffle[n]: what random.Random(seed) makes of 1..n
          MinLabeled, MinTrain, MinVal, MinTest,  \* TRAIN_GATE_HARD
          CalibMin,     \* CALIB_MIN_REVIEWED
          MaxEdits,     \* bound: changes to samples and labels but approvals, restarts
          None

ASSUME Minima == /\ N \in Nat /\ MaxJobs \in Nat /\ {MinLabeled, MinTrain, MinVal, MinTest, CalibMin} \subseteq Nat
                 /\ MinTrain > 0 /\ MinVal > 0 /\ MinTest > 0 /\ None \notin 1..MaxJobs

\* A shuffle loses nothing.
ASSUME Permutes ==
  \A n \in 0..N : Shuffle[n] \in [1..n -> 1..n] /\ \A i \in 1..n : \E k \in 1..n : Shuffle[n][k] = i

VARIABLES alive,      \* the project's directory exists
          images, labels, drafts, negatives,
          calib,      \* meta.json names the specialist to calibrate
          staging,    \* _yolo_staging, or None
          job,        \* job documents with their threads
          suggest,    \* a threshold search in progress, or None; of: the job
                      \* whose weights it must not judge by what they learned
          pre, auto,  \* prelabelling and automatic labelling in progress, or None
          edits,
          deployed    \* the job whose weights were deployed last, or None

labVars == <<alive, images, labels, drafts, negatives, calib, staging, job,
             suggest, pre, auto, edits, deployed>>
samples == <<images, labels, drafts, negatives>>
helpers == <<pre, auto>>

Samples == 1..N
Jobs == 1..MaxJobs
Nothing == [train |-> {}, val |-> {}, test |-> {}, yaml |-> FALSE]
NoJob == [st |-> "none", at |-> "none", split |-> Nothing, trained |-> {},
          tested |-> {}, ready |-> FALSE, mixed |-> FALSE]

\* A project with samples and with the weights of an earlier job.
LabInit ==
  /\ alive = TRUE /\ images = Samples \ {N}
  /\ labels \in {l \in [Samples -> {"none", "hand"}] : l[N] = "none"}
  /\ drafts = {} /\ negatives = {} /\ calib = FALSE
  /\ staging = None /\ job = [j \in Jobs |-> NoJob] /\ suggest = None
  /\ pre = None /\ auto = None /\ edits = 0 /\ deployed = None

-----------------------------------------------------------------------------
\* The split.

Reviewed == {s \in images : labels[s] \in {"hand", "model"}}
Backgrounds == negatives \cap images

\* The percentage p of n, rounded, a half to the even side.
Share(n, p) ==
  LET q == (n * p) \div 100
      r == (n * p) % 100
  IN IF r > 50 \/ (r = 50 /\ q % 2 = 1) THEN q + 1 ELSE q
AtLeast(a, b) == IF a >= b THEN a ELSE b

EstimateNoFloor(n, minTrain, minVal, minTest) ==
  LET t == Share(n, 15) IN [train |-> n - 2 * t, val |-> t, test |-> t]

\* A turn of the loop that shrinks c, test and val, to leave room for training:
\* the larger first, and neither to nothing.
Shrunk(c, room) ==
  LET test == c[1]
      val  == c[2]
  IN IF test + val <= room THEN c
     ELSE IF test >= val /\ test > 1 THEN <<test - 1, val>>
     ELSE IF val > 1 THEN <<test, val - 1>> ELSE c
\* A turn gives one image back: there are no more turns than images are wanting.
Shrink(c, room) ==
  LET wanting == c[1] + c[2] - room
      after[k \in 0..wanting] == IF k = 0 THEN c ELSE Shrunk(after[k - 1], room)
  IN IF wanting <= 0 THEN c ELSE after[wanting]

\* _estimate_split_counts: at least one image stays for training.
Estimate(n, minTrain, minVal, minTest) ==
  LET wanted == <<AtLeast(minTest, Share(n, 15)), AtLeast(minVal, Share(n, 15))>>
      c      == Shrink(wanted, n - minTrain)
      Sizes(train, val, test) == [train |-> train, val |-> val, test |-> test]
  IN CASE n <= 0 -> Sizes(0, 0, 0)
       [] n = 1  -> Sizes(1, 0, 0)
       [] n = 2  -> Sizes(1, 1, 0)
       [] OTHER  -> IF c[1] + c[2] < n THEN Sizes(n - c[1] - c[2], c[2], c[1])
                    ELSE Sizes(1, n - 1 - (n - 1) \div 2, (n - 1) \div 2)

\* Test and val are no more than there is.
SizesFit ==
  \A n \in 0..N :
    \A e \in {Estimate(n, 1, 1, 1), Estimate(n, MinTrain, MinVal, MinTest)} :
      e.test \in Nat /\ e.val \in Nat /\ e.test + e.val <= n

\* materialize_yolo_split: test, val and train are consecutive pieces of the
\* shuffled list of reviewed samples.
SplitOf(R, c) ==
  LET n      == Cardinality(R)
      Nth(i) == CHOOSE s \in R : Cardinality({x \in R : x <= s}) = i
      list   == [i \in 1..n |-> Nth(Shuffle[n][i])]
      e      == IF c THEN Estimate(n, 1, 1, 1) ELSE Estimate(n, MinTrain, MinVal, MinTest)
      Piece(from, to) == {list[i] : i \in from..to}
  IN [test  |-> Piece(1, e.test),
      val   |-> Piece(e.test + 1, e.test + e.val),
      train |-> Piece(e.test + e.val + 1, n),
      yaml  |-> FALSE]

\* The splits of all sets of reviewed samples.
Split == [R \in SUBSET Samples |-> [c \in BOOLEAN |-> SplitOf(R, c)]]

Whole(sp) == sp.train \cup sp.val \cup sp.test

Usable(sp) == sp.test # {} /\ sp.val # {} /\ sp.train # {}

\* Whoever rebuilds the staging directory disturbs the jobs that still need it.
Disturbed(except) ==
  [j \in Jobs |-> IF j # except /\ job[j].at \in {"copy", "train", "evaluate"}
                  THEN [job[j] EXCEPT !.mixed = TRUE] ELSE job[j]]

Copying(except) == \/ suggest # None /\ suggest.at = "copy"
                   \/ \E j \in Jobs \ {except} : job[j].at = "copy"

\* ... and a search that goes on may judge by anything.
SuggestDisturbed ==
  suggest' = IF suggest = None THEN None ELSE [suggest EXCEPT !.of = None]

FilledTwice(sp) ==
  [train |-> staging.train \cup (sp.train \cap images) \cup Backgrounds,
   val   |-> staging.val \cup (sp.val \cap images),
   test  |-> staging.test \cup (sp.test \cap images),
   yaml  |-> TRUE]

\* The copy: what is in the directory stays, images that went are left out, and
\* negatives go to train unless the split has them.
Filled(sp) ==
  [train |-> staging.train \cup (sp.train \cap images)
               \cup (Backgrounds \ (sp.train \cup sp.val \cup sp.test)),
   val   |-> staging.val \cup (sp.val \cap images),
   test  |-> staging.test \cup (sp.test \cap images),
   yaml  |-> TRUE]

-----------------------------------------------------------------------------
\* Samples and labels.

Edit == alive /\ edits < MaxEdits /\ edits' = edits + 1
EditFrame == UNCHANGED <<alive, staging, job, suggest, deployed>>

\* training_capture, import_snapshots_to_project without a verdict.
Capture(s) ==
  /\ Edit /\ s \notin images \cup negatives
  /\ images' = images \cup {s}
  /\ UNCHANGED <<labels, drafts, negatives, calib, helpers>> /\ EditFrame

\* A snapshot judged a false alarm: an empty label, a background sample.
ImportFalseAlarm(s) ==
  /\ Edit /\ s \notin images \cup negatives
  /\ images' = images \cup {s}
  /\ labels' = [labels EXCEPT ![s] = "empty"]
  /\ negatives' = negatives \cup {s}
  /\ UNCHANGED <<drafts, calib, helpers>> /\ EditFrame

\* A snapshot judged right, for a deployed specialist: the project becomes a
\* calibration, and the specialist's weights label what is not reviewed now.
ImportRight(s) ==
  /\ Edit /\ s \notin images \cup negatives /\ auto = None
  /\ images' = images \cup {s}
  /\ calib' = TRUE
  /\ auto' = [reviewed |-> Reviewed, s |-> s]
  /\ UNCHANGED <<labels, drafts, negatives, pre>> /\ EditFrame

\* autolabel_images_with_weights: found boxes are written to labels/ directly.
AutoLabel ==
  /\ auto # None
  /\ auto' = None
  /\ labels' \in {labels} \cup
       (IF alive /\ auto.s \in images \ auto.reviewed
        THEN {[labels EXCEPT ![auto.s] = "model"]} ELSE {})
  /\ UNCHANGED <<alive, images, drafts, negatives, calib, staging, job, suggest, pre, edits, deployed>>

DeleteSample(s) ==
  /\ Edit /\ s \in images
  /\ images' = images \ {s}
  /\ labels' = [labels EXCEPT ![s] = "none"]
  /\ drafts' = drafts \ {s}
  /\ UNCHANGED <<negatives, calib, helpers>> /\ EditFrame

\* Saving counts as review and clears the draft; it may leave no box.
SaveLabel(s) ==
  /\ Edit /\ s \in images
  /\ \E l \in {"hand", "empty"} : labels' = [labels EXCEPT ![s] = l]
  /\ drafts' = drafts \ {s}
  /\ UNCHANGED <<images, negatives, calib, helpers>> /\ EditFrame

ApproveAny(s) ==
  /\ alive /\ s \in drafts
  /\ labels' = [labels EXCEPT ![s] = "model"]
  /\ drafts' = drafts \ {s}
  /\ UNCHANGED <<images, negatives, calib, helpers, edits>> /\ EditFrame

\* approve_draft_labels: a label that is there is not replaced.
Approve(s) ==
  /\ alive /\ s \in drafts /\ labels[s] \notin {"hand", "model"}
  /\ labels' = [labels EXCEPT ![s] = "model"]
  /\ drafts' = drafts \ {s}
  /\ UNCHANGED <<images, negatives, calib, helpers, edits>> /\ EditFrame

\* prelabel_project_images: what to skip is read once, drafts are written later.
Prelabel(onlyUnlabeled) ==
  /\ Edit /\ pre = None
  /\ pre' = images \ (Reviewed \cup (IF onlyUnlabeled THEN drafts ELSE {}))
  /\ UNCHANGED <<samples, calib, auto>> /\ EditFrame

PrelabelWrites ==
  /\ pre # None
  /\ IF pre = {} \/ ~alive THEN pre' = None /\ UNCHANGED drafts
     ELSE LET s == CHOOSE x \in pre : \A y \in pre : x <= y IN
          IF s \notin images THEN pre' = None /\ UNCHANGED drafts
          ELSE /\ pre' = pre \ {s}
               /\ drafts' \in {drafts \cup {s}, drafts \ {s}}
  /\ UNCHANGED <<alive, images, labels, negatives, calib, staging, job, suggest, auto, edits, deployed>>

DeleteProject ==
  /\ Edit
  /\ alive' = FALSE /\ images' = {} /\ labels' = [s \in Samples |-> "none"]
  /\ drafts' = {} /\ negatives' = {} /\ staging' = None
  /\ job' = Disturbed(None) /\ SuggestDisturbed
  /\ UNCHANGED <<calib, helpers, deployed>>

EditStep ==
  \/ \E s \in Samples : \/ Capture(s)
                        \/ ImportFalseAlarm(s)
                        \/ ImportRight(s)
                        \/ DeleteSample(s)
                        \/ SaveLabel(s)
                        \/ Approve(s)
  \/ \E only \in BOOLEAN : Prelabel(only)
  \/ DeleteProject

HelperStep == AutoLabel \/ PrelabelWrites

-----------------------------------------------------------------------------
\* Jobs.

JobFrame == UNCHANGED <<alive, samples, calib, helpers, edits>>

\* check_dataset_health; a calibration only needs CalibMin reviewed samples.
CanTrain ==
  LET n == Cardinality(Reviewed)
      e == Estimate(n, MinTrain, MinVal, MinTest)
  IN \/ n >= MinLabeled /\ e.train >= MinTrain /\ e.val >= MinVal /\ e.test >= MinTest
     \/ calib /\ n >= CalibMin

StartTrain(j) ==
  /\ job[j].st = "none" /\ alive /\ CanTrain
  /\ \A i \in Jobs : i < j => job[i].st # "none"
  /\ job' = [job EXCEPT ![j].st = "running", ![j].at = "begin"]
  /\ JobFrame /\ UNCHANGED <<staging, suggest, deployed>>

JobFailsSilently(j, jobs) == job' = [jobs EXCEPT ![j].at = "over"]

\* The document says failed: a refused split, a failed training run.
JobFails(j, jobs) == job' = [jobs EXCEPT ![j].st = "failed", ![j].at = "over"]

\* materialize_yolo_split up to the copy: the old directory goes first, whatever
\* the checks that follow say.
JobSplits(j) ==
  /\ job[j].at = "begin"
  /\ LET sp == Split[Reviewed][calib] IN
     IF Reviewed = {} THEN JobFails(j, job) /\ UNCHANGED <<staging, suggest>>
     ELSE /\ staging' = Nothing /\ SuggestDisturbed
          /\ IF Usable(sp)
             THEN job' = [Disturbed(j) EXCEPT ![j].split = sp, ![j].at = "copy",
                                              ![j].mixed = Copying(j)]
             ELSE JobFails(j, Disturbed(j))
  /\ JobFrame /\ UNCHANGED deployed

\* The copy fails with an error no handler expects when the directory is taken
\* away under it: the thread dies and the document stays.
JobCopies(j) ==
  /\ job[j].at = "copy"
  /\ \/ /\ staging # None
        /\ staging' = Filled(job[j].split)
        /\ job' = [job EXCEPT ![j].at = "train"]
     \/ /\ job[j].mixed
        /\ job' = [job EXCEPT ![j].at = "dead"]
        /\ UNCHANGED staging
  /\ JobFrame /\ UNCHANGED <<suggest, deployed>>

\* train.py reads the data set, if it is there, and may fail by itself.
JobTrains(j) ==
  /\ job[j].at = "train"
  /\ \/ /\ staging # None /\ staging.yaml
        /\ job' = [job EXCEPT ![j].at = "evaluate", ![j].trained = staging.train]
     \/ JobFails(j, job)
  /\ JobFrame /\ UNCHANGED <<staging, suggest, deployed>>

\* run_evaluate_subprocess: no data, no metrics; low: what is below its minimum
\* (map50 stands for precision and recall too).
Evaluations(images0) ==
  {m \in [ok : BOOLEAN, low : SUBSET {"map50"}] : m.ok => images0 # {}}

\* check_deploy_quality_gate.
Gate(m) == m.ok /\ m.low = {}

\* best.pt is there: evaluate on what the directory calls test, judge by
\* check_deploy_quality_gate and write the document.
JobEvaluates(j) ==
  /\ job[j].at = "evaluate"
  /\ \/ /\ alive
        /\ LET t == IF staging # None /\ staging.yaml THEN staging.test ELSE {} IN
           \E m \in Evaluations(t) :
             job' = [job EXCEPT ![j].st = "completed", ![j].at = "over", ![j].tested = t,
                                ![j].ready = Gate(m)]
     \/ JobFails(j, job)
  /\ JobFrame /\ UNCHANGED <<staging, suggest, deployed>>

JobStep(j) == JobSplits(j) \/ JobCopies(j) \/ JobTrains(j) \/ JobEvaluates(j)

\* When a threshold search promises nothing: for weights of no job here, in a
\* calibration, or after samples were reviewed or taken back since the job split.
Excused(of, sp) ==
  of = None \/ calib \/ job[of].mixed \/ Whole(sp) # Whole(job[of].split) \/ Copying(None)

SuggestStarts(sp) ==
  /\ suggest = None /\ alive /\ Reviewed # {}
  /\ staging' = Nothing /\ job' = Disturbed(None)
  /\ \E of \in {None} \cup {j \in Jobs : job[j].st = "completed"} :
       suggest' = IF Usable(sp) THEN [at |-> "copy", split |-> sp,
                                      of |-> IF Excused(of, sp) THEN None ELSE of]
                  ELSE None
  /\ JobFrame /\ UNCHANGED deployed

\* The shuffle of the search does not take the job's seed.
SuggestSplitsUnseeded ==
  LET n == Cardinality(Reviewed)
      Nth(i) == CHOOSE s \in Reviewed : Cardinality({x \in Reviewed : x <= s}) = i
  IN n >= 3 /\ SuggestStarts([test |-> {Nth(1)}, val |-> {Nth(2)},
                              train |-> Reviewed \ {Nth(1), Nth(2)}, yaml |-> FALSE])

\* threshold-suggest splits again, without the allowance for calibrations, for
\* weights of the project.
SuggestSplits == SuggestStarts(Split[Reviewed][FALSE])

SuggestCopies ==
  /\ suggest # None /\ suggest.at = "copy"
  /\ suggest' = IF staging = None THEN None
                ELSE [suggest EXCEPT !.at = "sweep", !.split = Nothing]
  /\ IF staging = None THEN UNCHANGED staging ELSE staging' = Filled(suggest.split)
  /\ JobFrame /\ UNCHANGED <<job, deployed>>

\* suggest_thresholds_from_val: the images that are in val now, one threshold
\* after the other; none there, no result.
SuggestSweeps ==
  /\ suggest # None /\ suggest.at = "sweep"
  /\ suggest' = None
  /\ JobFrame /\ UNCHANGED <<staging, job, deployed>>

\* deploy_as_specialist, with the metrics of the job's document.
Deploy(j) ==
  /\ alive /\ job[j].ready /\ deployed # j
  /\ deployed' = j
  /\ JobFrame /\ UNCHANGED <<staging, job, suggest>>

\* The web process ends: its threads are gone, documents stay as they are.
Restart ==
  /\ job' = [j \in Jobs |-> IF job[j].st = "running" THEN [job[j] EXCEPT !.at = "dead"] ELSE job[j]]
  /\ suggest' = None /\ pre' = None /\ auto' = None
  /\ edits < MaxEdits /\ edits' = edits + 1
  /\ UNCHANGED <<alive, samples, calib, staging, deployed>>

LabNext ==
  \/ EditStep
  \/ HelperStep
  \/ \E j \in Jobs : StartTrain(j) \/ JobStep(j) \/ Deploy(j)
  \/ SuggestSplits
  \/ SuggestCopies
  \/ SuggestSweeps
  \/ Restart

LabSpec == LabInit /\ [][LabNext]_labVars

-----------------------------------------------------------------------------
\* Properties.

\* The production minima, met for every data set they admit up to 200 images.
MinimaMet ==
  \A n \in 50..200 :
    LET e == Estimate(n, 30, 10, 10)
    IN e.train + e.val + e.test = n /\ e.train >= 30 /\ e.val >= 10 /\ e.test >= 10

\* A split that passes the gate has the minimum sizes the gate promises, for the
\* production minima and every data set they admit; no split has larger parts
\* than there are images.
\* (_estimate_split_counts, TRAIN_GATE_HARD)
SplitMeetsGate ==
  edits = 0 /\ job = [j \in Jobs |-> NoJob] =>   \* no state in it: seen once is enough
    SizesFit /\ MinimaMet

\* Deployed weights were judged on images they were not trained on, also where
\* an image is a negative and reviewed, unless the staging directory was rebuilt
\* under the job. (materialize_yolo_split, _run_training_job, training_deploy)
GateIsHonest ==
  deployed # None =>
    \/ job[deployed].mixed
    \/ /\ job[deployed].tested # {}
       /\ job[deployed].tested \cap job[deployed].trained = {}

\* A threshold is suggested from images the weights did not learn from: the search
\* splits anew and must come to the job's split where nothing was reviewed or
\* taken back since, unless the staging directory was rebuilt under it.
\* (materialize_yolo_split, training_threshold_suggest)
AdviceIsHonest ==
  suggest # None /\ suggest.at = "sweep" /\ suggest.of # None /\ staging # None
    => staging.val \cap job[suggest.of].trained = {}

\* What a person drew is replaced by a model's boxes only by an automatic
\* labelling that had begun before it was drawn. (approve_draft_labels,
\* autolabel_images_with_weights, prelabel_project_images)
HandLabelsStay ==
  [][\A s \in Samples : labels[s] = "hand" /\ labels'[s] = "model"
       => auto # None /\ auto.s = s /\ s \notin auto.reviewed]_labVars

\* A started job ends in its document, unless its thread died: with the process,
\* or by an error in a copy that was disturbed. (_run_training_job)
JobsEnd ==
  \A j \in Jobs : job[j].st = "running" ~> (job[j].st # "running" \/ job[j].at = "dead")
=============================================================================
