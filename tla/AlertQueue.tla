----------------------------- MODULE AlertQueue -----------------------------
(***************************************************************************)
(* The way of an alert from the detection thread that raises it to its     *)
(* record (visionai/core/detector.py, core/alert_queue.py,                 *)
(* workers/alert_worker.py and save_detection of core/redis_manager.py).   *)
(* A detection thread writes a picture and perhaps a clip, and puts a job  *)
(* into a Redis list; when that fails it does the job itself.  An alert    *)
(* worker takes jobs off the list.  The job: move picture and clip to the  *)
(* object store, write the record, send mail and webhooks.  A person       *)
(* deletes records on the page, and with each its picture and clip.        *)
(*                                                                         *)
(* One step is one access to what others see: the list, the store with the *)
(* local file, the hash of records.                                        *)
(*                                                                         *)
(* Bounds: the set Alerts, MaxFaults, MaxDeletions, and the limits of the  *)
(* two lists.                                                              *)
(***************************************************************************)
EXTENDS Integers, Sequences, FiniteSets

CONSTANTS
  Alerts,
  Detectors,    \* detection threads
  Workers,      \* alert_worker processes
  Pages,        \* requests that delete records
  NoAlert,
  MaxLen,       \* ALERT_QUEUE_MAX_LEN
  MaxDead,      \* the limit of the dead-letter list
  MaxAttempts,  \* max_attempts
  KeepLocal,    \* OBJECT_STORAGE_KEEP_LOCAL
  Faults,       \* what may go wrong, see Fault
  MaxFaults,
  MaxDeletions  \* records a person asks to delete

ASSUME AlertQueueAssumption ==
  /\ NoAlert \notin Alerts
  /\ Detectors \cap Workers = {}
  /\ MaxLen \in Nat \ {0} /\ MaxDead \in Nat \ {0} /\ MaxAttempts \in Nat \ {0}
  /\ KeepLocal \in BOOLEAN
  /\ MaxFaults \in Nat /\ MaxDeletions \in Nat

VARIABLES
  raised,    \* the alerts raised so far
  made,      \* picture and clip written for an alert
  files,     \* ... those still on the local disk
  objects,   \* ... those in the object store
  queue,     \* the list alert_queue
  dead,      \* the list alert_queue:dead
  records,   \* the hashes of detection records
  notified,
  at, job, suffix,
  stored,    \* what a process has put into the store for its job
  faults,
  retries,   \* history: how often a job of the alert was put back
  deleting,  \* the record a request has read, and what it does with it
  asked,     \* deletions so far
  removed,   \* history: how often a record of the alert was deleted
  discarded, \* history: what was deleted with a record
  refused    \* history: what the store would not delete

worldVars == <<raised, made, files, objects>>
procVars  == <<at, job, suffix, stored>>
removalVars == <<deleting, asked, removed, discarded, refused>>
vars == <<worldVars, queue, dead, records, notified, procVars, faults, retries, removalVars>>

Media     == {"image", "clip"}
Processes == Detectors \cup Workers
Jobs      == [alert : Alerts, attempts : 0..MaxAttempts]
NoJob     == [alert |-> NoAlert, attempts |-> 0]
Idle      == [step |-> "idle"]
RecordsOf(a) == {r \in records : r.alert = a}

Init ==
  /\ raised = {} /\ made = [a \in Alerts |-> {}]
  /\ files = [a \in Alerts |-> {}] /\ objects = [a \in Alerts |-> {}]
  /\ queue = <<>> /\ dead = <<>> /\ records = {} /\ notified = {}
  /\ at = [p \in Processes |-> "idle"] /\ job = [p \in Processes |-> NoJob]
  /\ suffix = [p \in Processes |-> 0] /\ stored = [p \in Processes |-> {}]
  /\ faults = 0 /\ retries = [a \in Alerts |-> 0]
  /\ deleting = [u \in Pages |-> Idle] /\ asked = 0
  /\ removed = [a \in Alerts |-> 0] /\ discarded = [a \in Alerts |-> {}]
  /\ refused = [a \in Alerts |-> {}]

At(p, where) == at[p] = where
Goto(p, where) == at' = [at EXCEPT ![p] = where]

\* The process drops its job.
Drop(p) ==
  /\ Goto(p, "idle")
  /\ job' = [job EXCEPT ![p] = NoJob]
  /\ suffix' = [suffix EXCEPT ![p] = 0]
  /\ stored' = [stored EXCEPT ![p] = {}]

(* "down": Redis does not take the call; "reply": it does, but the answer   *)
(* is lost; "upload": the object store refuses; "save": Redis fails in      *)
(* save_detection; "notify": the thread that would send does not start;     *)
(* "undelete": the store does not delete an object; "crash": the process    *)
(* ends.                                                                    *)
Fault(kind) == kind \in Faults /\ faults < MaxFaults /\ faults' = faults + 1

\* LTRIM key -n -1 after RPUSH.
PushTrim(list, j, n) ==
  LET l == Append(list, j) IN
  IF Len(l) > n THEN SubSeq(l, Len(l) - n + 1, Len(l)) ELSE l

-----------------------------------------------------------------------------
\* save_snapshot: the picture, and the clip if there is one, are on the disk.
Raise(d, a) ==
  /\ At(d, "idle") /\ a \notin raised
  /\ raised' = raised \cup {a}
  /\ \E m \in {{"image"}, Media} :
       made' = [made EXCEPT ![a] = m] /\ files' = [files EXCEPT ![a] = m]
  /\ job' = [job EXCEPT ![d] = [alert |-> a, attempts |-> 0]]
  /\ Goto(d, "enqueue")
  /\ UNCHANGED <<objects, queue, dead, records, notified, suffix, stored, faults, retries>>

\* Mutant: the detection thread does the job although it is queued.
EnqueueAndFallBack(d) ==
  /\ At(d, "enqueue")
  /\ queue' = PushTrim(queue, job[d], MaxLen)
  /\ Goto(d, "store")
  /\ UNCHANGED <<worldVars, dead, records, notified, job, suffix, stored, faults, retries>>

\* enqueue_alert_job; False sends the thread into the synchronous way.
Enqueue(d) ==
  /\ At(d, "enqueue")
  /\ \/ queue' = PushTrim(queue, job[d], MaxLen) /\ Drop(d) /\ UNCHANGED faults
     \/ Fault("down") /\ Goto(d, "store") /\ UNCHANGED <<queue, job, suffix, stored>>
     \/ /\ Fault("reply")
        /\ queue' = PushTrim(queue, job[d], MaxLen)
        /\ Goto(d, "store") /\ UNCHANGED <<job, suffix, stored>>
  /\ UNCHANGED <<worldVars, dead, records, notified, retries>>

\* brpop_alert_job: from here on the job is nowhere but in this process.
Pop(w) ==
  /\ At(w, "idle") /\ queue # <<>>
  /\ job' = [job EXCEPT ![w] = Head(queue)]
  /\ queue' = Tail(queue)
  /\ Goto(w, "store")
  /\ UNCHANGED <<worldVars, dead, records, notified, suffix, stored, faults, retries>>

-----------------------------------------------------------------------------
\* Mutant: the local file goes whether or not the upload went through.
StoreUnlinksAlways(p) ==
  LET a == job[p].alert IN
  /\ At(p, "store")
  /\ \E up \in SUBSET files[a] :
       /\ \/ up = files[a] /\ UNCHANGED faults
          \/ up # files[a] /\ Fault("upload")
       /\ objects' = [objects EXCEPT ![a] = @ \cup up]
       /\ stored' = [stored EXCEPT ![p] = up]
  /\ files' = [files EXCEPT ![a] = IF KeepLocal THEN @ ELSE {}]
  /\ Goto(p, "save")
  /\ UNCHANGED <<raised, made, queue, dead, records, notified, job, suffix, retries>>

\* Mutant: the names of the objects are not kept for the record.
StoreForgetsKey(p) ==
  LET a == job[p].alert IN
  /\ At(p, "store")
  /\ \E up \in SUBSET files[a] :
       /\ \/ up = files[a] /\ UNCHANGED faults
          \/ up # files[a] /\ Fault("upload")
       /\ objects' = [objects EXCEPT ![a] = @ \cup up]
       /\ files' = [files EXCEPT ![a] = IF KeepLocal THEN @ ELSE @ \ up]
  /\ Goto(p, "save")
  /\ UNCHANGED <<raised, made, queue, dead, records, notified, job, suffix, stored, retries>>

\* Picture and clip are uploaded, each on its own, and the local file of what
\* was uploaded is deleted.  A failed upload is logged, no more.
Store(p) ==
  LET a == job[p].alert IN
  /\ At(p, "store")
  /\ \E up \in SUBSET files[a] :
       /\ \/ up = files[a] /\ UNCHANGED faults
          \/ up # files[a] /\ Fault("upload")
       /\ objects' = [objects EXCEPT ![a] = @ \cup up]
       /\ files' = [files EXCEPT ![a] = IF KeepLocal THEN @ ELSE @ \ up]
       /\ stored' = [stored EXCEPT ![p] = up]
  /\ Goto(p, "save")
  /\ UNCHANGED <<raised, made, queue, dead, records, notified, job, suffix, retries>>

\* Mutant: a record that could not be written is announced all the same.
SaveUnchecked(p) ==
  LET used == {r.suffix : r \in RecordsOf(job[p].alert)} IN
  /\ At(p, "save")
  /\ \/ /\ suffix' = [suffix EXCEPT ![p] = Cardinality(used)]
        /\ Goto(p, "hset") /\ UNCHANGED faults
     \/ Fault("save") /\ Goto(p, "notify") /\ UNCHANGED suffix
  /\ UNCHANGED <<worldVars, queue, dead, records, notified, job, stored, retries>>

\* save_detection: HEXISTS until an id is free.  A Redis error is caught there
\* and comes back as "no record", which nobody takes for a failure of the job.
Save(p) ==
  LET used == {r.suffix : r \in RecordsOf(job[p].alert)} IN
  /\ At(p, "save")
  /\ \/ /\ \E n \in 0..Cardinality(used) :
             /\ n \notin used /\ \A k \in 0..(n - 1) : k \in used
             /\ suffix' = [suffix EXCEPT ![p] = n]
        /\ Goto(p, "hset") /\ UNCHANGED <<faults, job, stored>>
     \/ Fault("save") /\ Drop(p)
  /\ UNCHANGED <<worldVars, queue, dead, records, notified, retries>>

\* ... then HSET, which overwrites.
Hset(p) ==
  LET a == job[p].alert IN
  /\ At(p, "hset")
  /\ records' = {r \in records : r.alert # a \/ r.suffix # suffix[p]}
       \cup {[alert |-> a, suffix |-> suffix[p], objects |-> stored[p],
              paths |-> IF KeepLocal THEN made[a] ELSE made[a] \ stored[p]]}
  /\ Goto(p, "notify")
  /\ UNCHANGED <<worldVars, queue, dead, notified, job, suffix, stored, faults, retries>>

\* Mail and webhooks.  An exception reaches alert_worker, or is logged by the
\* detection thread.
Notify(p) ==
  /\ At(p, "notify")
  /\ \/ /\ notified' = notified \cup {job[p].alert}
        /\ Drop(p) /\ UNCHANGED faults
     \/ /\ Fault("notify") /\ UNCHANGED notified
        /\ IF p \in Workers THEN Goto(p, "failed") /\ UNCHANGED <<job, suffix, stored>>
                            ELSE Drop(p)
  /\ UNCHANGED <<worldVars, queue, dead, records, retries>>

\* Mutant: the worker leaves its loop after a job that failed.
RequeueAndStop(w) ==
  LET j == [job[w] EXCEPT !.attempts = @ + 1] IN
  /\ At(w, "failed")
  /\ queue' = Append(queue, j)
  /\ retries' = [retries EXCEPT ![j.alert] = @ + 1]
  /\ Goto(w, "enqueue")
  /\ job' = [job EXCEPT ![w] = NoJob]
  /\ UNCHANGED <<worldVars, dead, records, notified, suffix, stored, faults>>

\* requeue_or_dead: to the end of the list, which is not trimmed here.
Requeue(w) ==
  LET j == [job[w] EXCEPT !.attempts = @ + 1] IN
  /\ At(w, "failed")
  /\ \/ Fault("down") /\ UNCHANGED <<queue, dead, retries>>
     \/ /\ UNCHANGED faults
        /\ IF j.attempts >= MaxAttempts
           THEN dead' = PushTrim(dead, j, MaxDead) /\ UNCHANGED queue
           ELSE queue' = Append(queue, j) /\ UNCHANGED dead
        /\ retries' = [retries EXCEPT ![j.alert] = @ + 1]
  /\ Drop(w)
  /\ UNCHANGED <<worldVars, records, notified>>

\* The process ends (a restart from the page is os._exit) and is started anew.
Crash(p) ==
  /\ at[p] # "idle"
  /\ Fault("crash")
  /\ Drop(p)
  /\ UNCHANGED <<worldVars, queue, dead, records, notified, retries>>

-----------------------------------------------------------------------------
AtPage(u, step) == deleting[u].step = step
SetPage(u, d) == deleting' = [deleting EXCEPT ![u] = d]
pipelineVars == <<raised, made, queue, dead, notified, procVars, retries>>

\* delete_detection_by_id: HGET of the record.
ReadRecord(u, r) ==
  /\ AtPage(u, "idle") /\ asked < MaxDeletions
  /\ asked' = asked + 1
  /\ SetPage(u, [step |-> "discard", record |-> r])
  /\ UNCHANGED <<pipelineVars, files, objects, records, faults, removed, discarded, refused>>

\* Mutant: the record goes first, its picture and clip afterwards, or never.
HdelFirst(u) ==
  LET r == deleting[u].record  same == {x \in RecordsOf(r.alert) : x.suffix = r.suffix} IN
  /\ AtPage(u, "discard")
  /\ records' = records \ same
  /\ removed' = [removed EXCEPT ![r.alert] = @ + Cardinality(same)]
  /\ SetPage(u, Idle)
  /\ UNCHANGED <<pipelineVars, files, objects, faults, asked, discarded, refused>>

\* _discard_detection_files: the objects and the files the record names.  An
\* object the store does not delete is logged, no more.
Discard(u) ==
  LET r == deleting[u].record  a == r.alert IN
  /\ AtPage(u, "discard")
  /\ \E stay \in SUBSET r.objects :
       /\ \/ stay = {} /\ UNCHANGED faults
          \/ stay # {} /\ Fault("undelete")
       /\ objects' = [objects EXCEPT ![a] = @ \ (r.objects \ stay)]
       /\ refused' = [refused EXCEPT ![a] = @ \cup stay]
  /\ files' = [files EXCEPT ![a] = @ \ r.paths]
  /\ discarded' = [discarded EXCEPT ![a] = @ \cup r.objects \cup r.paths]
  /\ SetPage(u, [deleting[u] EXCEPT !.step = "hdel"])
  /\ UNCHANGED <<pipelineVars, records, asked, removed>>

\* ... then HDEL, of whatever has the record's id by now.  When Redis fails the
\* record stays, without its picture and clip.
Hdel(u) ==
  LET r == deleting[u].record  same == {x \in RecordsOf(r.alert) : x.suffix = r.suffix} IN
  /\ AtPage(u, "hdel")
  /\ \/ /\ records' = records \ same
        /\ removed' = [removed EXCEPT ![r.alert] = @ + Cardinality(same)]
        /\ UNCHANGED faults
     \/ Fault("down") /\ UNCHANGED <<records, removed>>
  /\ SetPage(u, Idle)
  /\ UNCHANGED <<pipelineVars, files, objects, asked, discarded, refused>>

\* The web process is restarted.
PageCrash(u) ==
  /\ deleting[u] # Idle
  /\ Fault("crash")
  /\ SetPage(u, Idle)
  /\ UNCHANGED <<pipelineVars, files, objects, records, asked, removed, discarded, refused>>

-----------------------------------------------------------------------------
JobStep(p) == Store(p) \/ Save(p) \/ Hset(p) \/ Notify(p)
\* Deletions are asked for one record or for several, which is one by one.
PageStep(u) ==
  \/ \E r \in records : ReadRecord(u, r)
  \/ Discard(u) \/ Hdel(u) \/ PageCrash(u)
WorkerStep(w)   == (Pop(w) \/ JobStep(w) \/ Requeue(w)) /\ UNCHANGED removalVars
DetectorStep(d) == (Enqueue(d) \/ JobStep(d)) /\ UNCHANGED removalVars

Next ==
  \/ \E d \in Detectors :
       \/ DetectorStep(d)
       \/ \E a \in Alerts : Raise(d, a) /\ UNCHANGED removalVars
  \/ \E w \in Workers : WorkerStep(w)
  \/ \E p \in Processes : Crash(p) /\ UNCHANGED removalVars
  \/ \E u \in Pages : PageStep(u)

Spec == Init /\ [][Next]_vars

\* The processes run on; a blocking pop returns when the list holds a job.
FairSpec ==
  /\ Spec
  /\ \A d \in Detectors : WF_vars(DetectorStep(d))
  /\ \A w \in Workers : WF_vars(WorkerStep(w))

-----------------------------------------------------------------------------
(* Picture and clip of an alert are not deleted before they are in the      *)
(* object store, whoever works on the alert and wherever it fails, unless a *)
(* person deleted a record that names them.                                 *)
MediaKept ==
  \A a \in Alerts :
    /\ made[a] \ discarded[a] \subseteq files[a] \cup objects[a]
    /\ files[a] \cup objects[a] \subseteq made[a]

(* An alert is recorded once, and once more for each time its job was put   *)
(* back after the record had been written; a record a person deleted does   *)
(* not come back otherwise.                                                 *)
OneRecordPerAttempt ==
  \A a \in Alerts : Cardinality(RecordsOf(a)) + removed[a] <= 1 + retries[a]

(* A record shows picture and clip where they are, unless the job was put   *)
(* back: a second pass moves them away under the first record.              *)
RecordShowsMedia ==
  \A r \in records :
    retries[r.alert] = 0 => /\ r.objects \subseteq objects[r.alert] \cup discarded[r.alert]
                            /\ r.paths \subseteq files[r.alert] \cup discarded[r.alert]
                            /\ r.objects \cup r.paths = made[r.alert]

(* When the record of an alert was deleted, nothing of its picture and clip *)
(* stays where no record leads to it, wherever the deletion was interrupted *)
(* and whatever else was going on: only what the store refused to delete,   *)
(* or what a second pass of a job that was put back has stored.             *)
DeletedLeavesNothing ==
  \A a \in Alerts :
    removed[a] > 0 /\ retries[a] = 0 => files[a] = {} /\ objects[a] \subseteq refused[a]

Carried(a) ==
  \/ \E i \in 1..Len(queue) : queue[i].alert = a
  \/ \E p \in Processes : job[p].alert = a
Buried(a) == \E i \in 1..Len(dead) : dead[i].alert = a

fate == [a \in Alerts |->
  IF a \notin raised THEN "none"
  ELSE IF RecordsOf(a) # {} THEN "recorded"
  ELSE IF removed[a] > 0 THEN "removed"
  ELSE IF Carried(a) THEN "pending"
  ELSE IF Buried(a) THEN "dead" ELSE "lost"]

Log == INSTANCE AlertLog WITH Alerts <- Alerts, fate <- fate, notified <- notified

(* The pipeline implements AlertLog: a record stays until a person deletes  *)
(* it, nothing comes back from the lost, and nobody is told of an alert     *)
(* that was never recorded.                                                 *)
ImplementsLog == Log!Spec

(* No alert stays on its way for good.                                      *)
EverySettles == \A a \in Alerts : (fate[a] = "pending") ~> (fate[a] # "pending")
=============================================================================
