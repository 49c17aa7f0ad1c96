----------------------------- MODULE Validation -----------------------------
(***************************************************************************)
(* Trying out trained weights on a camera (web/training_routes.py): the    *)
(* loop that takes a frame from time to time and infers, one per project,  *)
(* and the requests that start it, stop it, infer once, upload a picture   *)
(* and delete the project.  Requests are threads of the web process.  What *)
(* a pass finds and logs is left out; it saves a picture in the project's  *)
(* directory, which it makes if it is not there.                           *)
(*                                                                         *)
(* Bounds: MaxLoops and MaxCalls.                                          *)
(***************************************************************************)
EXTENDS Integers

CONSTANTS Callers,    \* request threads
          MaxLoops,   \* loops are 1..MaxLoops, in the order they are entered
          MaxCalls

ASSUME ValidationBounds == MaxLoops \in Nat /\ MaxCalls \in Nat

VARIABLES
  dir,        \* the project's directory: "there", "gone", or "back" without its weights
  session,    \* _validate_sessions of the project: its loop, or NoLoop
  at,         \* where each loop is
  told,       \* loops whose stop event is set
  entered, calls,
  doing,      \* what each request is for
  step,       \* where each request is
  hand,       \* the loop a request has taken out, or is about to start
  meanwhile,  \* history: loops entered since a request looked for one to stop
  lost,       \* history: loops another start put out of the table
  excused     \* history: whoever may bring a deleted directory back

fileVars == <<dir, excused>>
loopVars == <<at, told>>
callVars == <<doing, step, hand, calls>>
tableVars == <<session, entered, meanwhile, lost>>
validationVars == <<fileVars, loopVars, callVars, tableVars>>

Loops == 1..MaxLoops
NoLoop == 0
InPass == {"check", "infer", "wait"}
Looking == {"set", "join", "enter"}
AfterStop(kind) == IF kind = "start" THEN "enter" ELSE "idle"

ValidationInit ==
  /\ dir = "there" /\ excused = FALSE
  /\ at = [l \in Loops |-> "none"] /\ told = {}
  /\ doing = [c \in Callers |-> "none"] /\ step = [c \in Callers |-> "idle"]
  /\ hand = [c \in Callers |-> NoLoop] /\ calls = 0
  /\ session = NoLoop /\ entered = 0
  /\ meanwhile = [c \in Callers |-> {}] /\ lost = {}

-----------------------------------------------------------------------------
\* Requests.

Goto(c, s) == step' = [step EXCEPT ![c] = s]
Request(c, kind, s) ==
  /\ step[c] = "idle" /\ calls < MaxCalls
  /\ calls' = calls + 1
  /\ doing' = [doing EXCEPT ![c] = kind]
  /\ Goto(c, s)
  /\ UNCHANGED <<hand, loopVars, tableVars>>

\* Mutant: a start that does not stop the loop there is.
StartBesides(c) == dir = "there" /\ Request(c, "start", "enter") /\ UNCHANGED fileVars

\* training_validate_start, training_validate_run_once: weights of the project.
Start(c) == dir = "there" /\ Request(c, "start", "pop") /\ UNCHANGED fileVars
RunOnce(c) == dir = "there" /\ Request(c, "once", "infer") /\ UNCHANGED fileVars

\* training_validate_stop, training_projects_delete.
Stop(c) == Request(c, "stop", "pop") /\ UNCHANGED fileVars
Delete(c) == dir # "gone" /\ Request(c, "delete", "rmtree") /\ UNCHANGED fileVars

\* What saves a picture makes the directories above it.
MakesDir == dir' = IF dir = "gone" THEN "back" ELSE dir

\* training_validate_upload: nobody asks whether the project is there.
Upload(c) ==
  /\ step[c] = "idle" /\ calls < MaxCalls
  /\ calls' = calls + 1
  /\ MakesDir /\ excused' = (excused \/ dir = "gone")
  /\ UNCHANGED <<doing, step, hand, loopVars, tableVars>>

\* The inference of run-once: no frame or an error, or a picture is saved.
InferOnce(c) ==
  /\ step[c] = "infer"
  /\ MakesDir \/ UNCHANGED dir
  /\ Goto(c, "idle")
  /\ UNCHANGED <<excused, doing, hand, calls, loopVars, tableVars>>

\* Somebody is about to save a picture.
Saving == (\E l \in Loops : at[l] = "infer") \/ (\E c \in Callers : step[c] = "infer")

\* The directory goes first, the loop is stopped afterwards.  Where a picture is
\* saved meanwhile the deletion may fail, and the loop goes on.
RemoveTree(c) ==
  /\ step[c] = "rmtree"
  /\ \/ /\ dir # "gone"
        /\ dir' = "gone"
        /\ excused' = (Saving \/ \E l \in Loops : at[l] \in InPass)
        /\ Goto(c, "pop")
     \/ (dir = "gone" \/ Saving) /\ Goto(c, "idle") /\ UNCHANGED fileVars
  /\ UNCHANGED <<doing, hand, calls, loopVars, tableVars>>

\* _validate_stop_session: out of the table, under the lock; ...
Pop(c) ==
  /\ step[c] = "pop"
  /\ session' = NoLoop
  /\ hand' = [hand EXCEPT ![c] = session]
  /\ meanwhile' = [meanwhile EXCEPT ![c] = {}]
  /\ Goto(c, IF session = NoLoop THEN AfterStop(doing[c]) ELSE "set")
  /\ UNCHANGED <<fileVars, doing, calls, loopVars, entered, lost>>

\* ... its event is set ...
SetEvent(c) ==
  /\ step[c] = "set"
  /\ told' = told \cup {hand[c]}
  /\ Goto(c, "join")
  /\ UNCHANGED <<fileVars, at, doing, hand, calls, tableVars>>

\* ... and it is waited for, five seconds: a frame may take longer.
Join(c) ==
  /\ step[c] = "join"
  /\ at[hand[c]] \notin {"check", "wait"}
  /\ hand' = [hand EXCEPT ![c] = NoLoop]
  /\ Goto(c, AfterStop(doing[c]))
  /\ UNCHANGED <<fileVars, doing, calls, loopVars, tableVars>>

\* training_validate_start: the new loop is entered in the table ...
Enter(c) ==
  /\ step[c] = "enter" /\ entered < MaxLoops
  /\ entered' = entered + 1
  /\ session' = entered + 1
  /\ lost' = lost \cup ({session} \cap meanwhile[c])
  /\ meanwhile' = [d \in Callers |-> IF step[d] \in Looking THEN meanwhile[d] \cup {entered + 1}
                                     ELSE meanwhile[d]]
  /\ hand' = [hand EXCEPT ![c] = entered + 1]
  /\ at' = [at EXCEPT ![entered + 1] = "ready"]
  /\ Goto(c, "go")
  /\ UNCHANGED <<fileVars, told, doing, calls>>

\* ... and started.
Go(c) ==
  /\ step[c] = "go"
  /\ at' = [at EXCEPT ![hand[c]] = "begin"]
  /\ hand' = [hand EXCEPT ![c] = NoLoop]
  /\ Goto(c, "idle")
  /\ UNCHANGED <<fileVars, told, doing, calls, tableVars>>

-----------------------------------------------------------------------------
\* The loop, _validate_rtsp_worker.

LoopFrame == UNCHANGED <<told, excused, callVars, tableVars>>
Moves(l, s) == at' = [at EXCEPT ![l] = s]

\* Mutant: the loop does not look whether the project is there.
BeginsAnyhow(l) ==
  /\ at[l] = "begin"
  /\ Moves(l, "check")
  /\ LoopFrame /\ UNCHANGED dir

Begins(l) ==
  /\ at[l] = "begin"
  /\ Moves(l, IF dir = "gone" THEN "over" ELSE "check")
  /\ LoopFrame /\ UNCHANGED dir

Checks(l) ==
  /\ at[l] = "check"
  /\ Moves(l, IF l \in told THEN "over" ELSE "infer")
  /\ LoopFrame /\ UNCHANGED dir

\* A frame or none, an error or a picture.
Infers(l) ==
  /\ at[l] = "infer"
  /\ Moves(l, "wait")
  /\ MakesDir \/ UNCHANGED dir
  /\ LoopFrame

\* The event, or the interval.
Waits(l) ==
  /\ at[l] = "wait"
  /\ Moves(l, IF l \in told THEN "over" ELSE "check")
  /\ LoopFrame /\ UNCHANGED dir

CallStep(c) ==
  \/ Start(c) \/ RunOnce(c) \/ Stop(c) \/ Delete(c) \/ Upload(c)
  \/ InferOnce(c) \/ RemoveTree(c)
  \/ Pop(c) \/ SetEvent(c) \/ Join(c) \/ Enter(c) \/ Go(c)
LoopStep(l) == Begins(l) \/ Checks(l) \/ Infers(l) \/ Waits(l)
ValidationNext == (\E c \in Callers : CallStep(c)) \/ (\E l \in Loops : LoopStep(l))
ValidationSpec == ValidationInit /\ [][ValidationNext]_validationVars

-----------------------------------------------------------------------------
\* Every loop that is not over can be stopped: it has been told, is in the table
\* or in the hand of a request that is stopping it.  Only of two starts that run
\* at the same time one puts the other's loop out of the table, for good.
\* (_validate_stop_session, training_validate_start)
LoopsAreOwned ==
  \A l \in Loops :
    at[l] \notin {"none", "over"} =>
      \/ l \in told \/ session = l \/ l \in lost
      \/ \E c \in Callers : step[c] = "set" /\ hand[c] = l

\* A deleted project comes back only through an upload, or through an inference
\* that was going on, or waiting for its turn, when the directory was removed: no
\* loop that begins later brings it back. (training_projects_delete,
\* _validate_rtsp_worker)
DeletedStaysDeleted == dir = "back" => excused
=============================================================================
