--------------------------- MODULE AlertQueueProofs ---------------------------
(***************************************************************************)
(* Proofs about AlertQueue, for every set of alerts, detection threads,    *)
(* workers and requests and all limits.                                    *)
(*                                                                         *)
(* The invariants build on each other.  WorldInv ties what is on the disk  *)
(* and in the store to what was raised, recorded and deleted; it holds     *)
(* whatever fails, and with it the pipeline implements AlertLog step by    *)
(* step.  When no answer of Redis is lost (AnswersArrive), an alert has    *)
(* one carrier, the list or one process; then what was recorded is counted *)
(* by the passes (Counted), and for an alert whose job had one pass        *)
(* PlaceInv says where picture and clip are at each step of that pass and  *)
(* of the requests that delete its record.                                 *)
(*                                                                         *)
(* Each step of the code has an Effect lemma, which says what it does to   *)
(* the variables; the proofs of the invariants use only these.             *)
(***************************************************************************)
EXTENDS AlertQueue, SequenceTheorems, FiniteSetTheorems, TLAPS

USE AlertQueueAssumption

AnyJobs == [alert : Alerts, attempts : Nat]
Records == [alert : Alerts, suffix : Nat, objects : SUBSET Media, paths : SUBSET Media]
Steps == {"idle", "enqueue", "store", "save", "hset", "notify", "failed"}
Deletions == {Idle} \cup [step : {"discard", "hdel"}, record : Records]

\* What the variables hold; a process at work has a job.
TypeOK ==
  /\ raised \subseteq Alerts /\ made \in [Alerts -> SUBSET Media]
  /\ files \in [Alerts -> SUBSET Media] /\ objects \in [Alerts -> SUBSET Media]
  /\ queue \in Seq(AnyJobs) /\ dead \in Seq(AnyJobs)
  /\ records \subseteq Records /\ IsFiniteSet(records) /\ notified \subseteq Alerts
  /\ at \in [Processes -> Steps]
  /\ job \in [Processes -> AnyJobs \cup {NoJob}]
  /\ \A p \in Processes : IF at[p] = "idle" THEN job[p] = NoJob ELSE job[p] \in AnyJobs
  /\ suffix \in [Processes -> Nat] /\ stored \in [Processes -> SUBSET Media]
  /\ faults \in Nat /\ retries \in [Alerts -> Nat]
  /\ deleting \in [Pages -> Deletions] /\ asked \in Nat /\ removed \in [Alerts -> Nat]
  /\ discarded \in [Alerts -> SUBSET Media] /\ refused \in [Alerts -> SUBSET Media]

-----------------------------------------------------------------------------
\* A list that lost entries at its front.
Behind(new, old) ==
  \E k \in Nat : /\ Len(new) = Len(old) - k
                 /\ \A i \in 1..Len(new) : new[i] = old[i + k]

\* RPUSH and LTRIM: the list with the new job, behind whatever was dropped.
LEMMA PushTrimBehind ==
  ASSUME NEW list \in Seq(AnyJobs), NEW j \in AnyJobs, NEW n \in Nat \ {0}
  PROVE  /\ PushTrim(list, j, n) \in Seq(AnyJobs)
         /\ Behind(PushTrim(list, j, n), Append(list, j))
<1> DEFINE l == Append(list, j)
           cut == SubSeq(l, Len(l) - n + 1, Len(l))
<1>1. l \in Seq(AnyJobs) /\ Len(l) \in Nat
  BY AppendProperties, LenProperties
<1>2. CASE Len(l) > n
  <2>1. PushTrim(list, j, n) = cut
    BY <1>2 DEF PushTrim
  <2>2. \A i \in (Len(l) - n + 1)..Len(l) : l[i] \in AnyJobs
    BY <1>1, <1>2, ElementOfSeq
  <2> HIDE DEF l
  <2>3. /\ cut \in Seq(AnyJobs) /\ Len(cut) = n
        /\ \A i \in 1..n : cut[i] = l[i + (Len(l) - n)]
    <3>1. /\ Len(l) - n + 1 \in Int /\ Len(l) \in Int
          /\ Len(l) - n + 1 <= Len(l) /\ Len(l) - (Len(l) - n + 1) + 1 = n
          /\ \A i \in 1..n : (Len(l) - n + 1) + i - 1 = i + (Len(l) - n)
      BY <1>1, <1>2
    <3> QED
      BY <2>2, <3>1, SubSeqProperties
  <2>4. Len(l) - n \in Nat /\ Len(cut) = Len(l) - (Len(l) - n)
    BY <1>1, <1>2, <2>3
  <2>5. Behind(cut, l)
    BY <2>3, <2>4 DEF Behind
  <2> QED
    BY <2>1, <2>3, <2>5 DEF l
<1>3. CASE ~(Len(l) > n)
  <2>1. PushTrim(list, j, n) = l
    BY <1>3 DEF PushTrim
  <2>2. Behind(l, l)
    BY <1>1 DEF Behind
  <2> QED
    BY <1>1, <2>1, <2>2
<1> QED
  BY <1>2, <1>3

\* BRPOP: the list without its oldest job.
LEMMA TailBehind ==
  ASSUME NEW list \in Seq(AnyJobs), list # <<>>
  PROVE  /\ Head(list) = list[1] /\ 1 \in 1..Len(list) /\ Head(list) \in AnyJobs
         /\ Tail(list) \in Seq(AnyJobs) /\ Len(Tail(list)) = Len(list) - 1
         /\ \A i \in 1..Len(Tail(list)) : Tail(list)[i] = list[i + 1]
         /\ Behind(Tail(list), list)
<1>1. /\ Head(list) \in AnyJobs /\ Tail(list) \in Seq(AnyJobs)
      /\ Len(Tail(list)) = Len(list) - 1
      /\ \A i \in 1..Len(Tail(list)) : Tail(list)[i] = list[i + 1]
  BY HeadTailProperties
<1>2. Head(list) = list[1] /\ 1 \in 1..Len(list)
  BY EmptySeq, LenProperties
<1>3. Behind(Tail(list), list)
  BY <1>1 DEF Behind
<1> QED
  BY <1>1, <1>2, <1>3

\* Where a list holds jobs of an alert, and that it holds one at most.
Holds(list, a) == \E i \in 1..Len(list) : list[i].alert = a
Once(list) == \A i, k \in 1..Len(list) : list[i].alert = list[k].alert => i = k

\* A list that lost entries holds no alert it did not hold, and none twice.
LEMMA BehindHolds ==
  ASSUME NEW old \in Seq(AnyJobs), NEW new \in Seq(AnyJobs), Behind(new, old)
  PROVE  /\ \A a : Holds(new, a) => Holds(old, a)
         /\ Once(old) => Once(new)
<1>1. PICK k \in Nat : /\ Len(new) = Len(old) - k
                       /\ \A i \in 1..Len(new) : new[i] = old[i + k]
  BY DEF Behind
<1>2. Len(new) \in Nat /\ Len(old) \in Nat
  BY LenProperties
<1>3. \A i \in 1..Len(new) : i + k \in 1..Len(old)
  BY <1>1, <1>2
<1>4. \A a : Holds(new, a) => Holds(old, a)
  BY <1>1, <1>3 DEF Holds
<1>5. ASSUME Once(old), NEW i \in 1..Len(new), NEW m \in 1..Len(new), new[i].alert = new[m].alert
      PROVE  i = m
  <2>1. i + k = m + k
    BY <1>1, <1>3, <1>5 DEF Once
  <2> QED
    BY <2>1, <1>2
<1> QED
  BY <1>4, <1>5 DEF Once

\* RPUSH of an alert that is not in the list.
LEMMA AppendHolds ==
  ASSUME NEW list \in Seq(AnyJobs), NEW j \in AnyJobs
  PROVE  /\ Append(list, j) \in Seq(AnyJobs)
         /\ \A a : Holds(Append(list, j), a) => Holds(list, a) \/ a = j.alert
         /\ \A a : Holds(list, a) => Holds(Append(list, j), a)
         /\ Holds(Append(list, j), j.alert)
         /\ Once(list) /\ ~Holds(list, j.alert) => Once(Append(list, j))
<1> DEFINE l == Append(list, j)
<1>1. /\ l \in Seq(AnyJobs) /\ Len(list) \in Nat /\ Len(l) = Len(list) + 1
      /\ \A i \in 1..Len(list) : l[i] = list[i]
      /\ l[Len(list) + 1] = j
  BY AppendProperties, LenProperties
<1> HIDE DEF l
<1>2. \A i \in 1..Len(l) : i \in 1..Len(list) \/ i = Len(list) + 1
  BY <1>1
<1>3. 1..Len(list) \subseteq 1..Len(l) /\ Len(list) + 1 \in 1..Len(l)
  BY <1>1
<1>4. \A a : Holds(l, a) => Holds(list, a) \/ a = j.alert
  BY <1>1, <1>2 DEF Holds
<1>5. \A a : Holds(list, a) => Holds(l, a)
  BY <1>1, <1>3 DEF Holds
<1>6. Holds(l, j.alert)
  BY <1>1, <1>3 DEF Holds
<1>7. ASSUME Once(list), ~Holds(list, j.alert), NEW i \in 1..Len(l), NEW k \in 1..Len(l),
             l[i].alert = l[k].alert
      PROVE  i = k
  BY <1>1, <1>2, <1>7 DEF Once, Holds
<1> QED
  BY <1>1, <1>4, <1>5, <1>6, <1>7 DEF Once, l

\* What Enqueue and Requeue do to a list.
LEMMA PushTrimHolds ==
  ASSUME NEW list \in Seq(AnyJobs), NEW j \in AnyJobs, NEW n \in Nat \ {0}
  PROVE  /\ PushTrim(list, j, n) \in Seq(AnyJobs)
         /\ \A a : Holds(PushTrim(list, j, n), a) => Holds(list, a) \/ a = j.alert
         /\ Once(list) /\ ~Holds(list, j.alert) => Once(PushTrim(list, j, n))
<1>1. /\ PushTrim(list, j, n) \in Seq(AnyJobs)
      /\ Behind(PushTrim(list, j, n), Append(list, j))
  BY PushTrimBehind
<1>2. Append(list, j) \in Seq(AnyJobs)
  BY AppendHolds
<1>3. /\ \A a : Holds(PushTrim(list, j, n), a) => Holds(Append(list, j), a)
      /\ Once(Append(list, j)) => Once(PushTrim(list, j, n))
  BY <1>1, <1>2, BehindHolds
<1> QED
  BY <1>1, <1>3, AppendHolds

\* What Pop does to the list.
LEMMA TailHolds ==
  ASSUME NEW list \in Seq(AnyJobs), list # <<>>
  PROVE  /\ Head(list) \in AnyJobs /\ Tail(list) \in Seq(AnyJobs)
         /\ Holds(list, Head(list).alert)
         /\ \A a : Holds(Tail(list), a) => Holds(list, a)
         /\ \A a : Holds(list, a) => Holds(Tail(list), a) \/ a = Head(list).alert
         /\ Once(list) => Once(Tail(list)) /\ ~Holds(Tail(list), Head(list).alert)
<1>1. /\ Head(list) = list[1] /\ 1 \in 1..Len(list) /\ Head(list) \in AnyJobs
      /\ Tail(list) \in Seq(AnyJobs) /\ Len(Tail(list)) = Len(list) - 1
      /\ \A i \in 1..Len(Tail(list)) : Tail(list)[i] = list[i + 1]
      /\ Behind(Tail(list), list)
  BY TailBehind
<1>2. Len(list) \in Nat
  BY LenProperties
<1>3. /\ \A a : Holds(Tail(list), a) => Holds(list, a)
      /\ Once(list) => Once(Tail(list))
  BY <1>1, BehindHolds
<1>4. ASSUME NEW a, Holds(list, a) PROVE Holds(Tail(list), a) \/ a = Head(list).alert
  <2>1. PICK i \in 1..Len(list) : list[i].alert = a
    BY <1>4 DEF Holds
  <2>2. CASE i = 1
    BY <1>1, <2>1, <2>2
  <2>3. CASE i # 1
    <3>1. i - 1 \in 1..Len(Tail(list)) /\ (i - 1) + 1 = i
      BY <1>1, <1>2, <2>3
    <3> QED
      BY <1>1, <2>1, <3>1 DEF Holds
  <2> QED
    BY <2>2, <2>3
<1>5. ASSUME Once(list), Holds(Tail(list), Head(list).alert) PROVE FALSE
  <2>1. PICK i \in 1..Len(Tail(list)) : Tail(list)[i].alert = Head(list).alert
    BY <1>5 DEF Holds
  <2>2. i + 1 \in 1..Len(list) /\ i + 1 # 1
    BY <1>1, <1>2
  <2> QED
    BY <1>1, <1>5, <2>1, <2>2 DEF Once
<1> QED
  BY <1>1, <1>3, <1>4, <1>5 DEF Holds

-----------------------------------------------------------------------------
\* The types hold in every step, action by action.
LEMMA TypeInit == Init => TypeOK
<1>1. NoJob \in {NoJob} /\ <<>> \in Seq(AnyJobs) /\ IsFiniteSet({})
  BY EmptySeq, FS_EmptySet
<1> QED
  BY <1>1 DEF Init, TypeOK, Steps, Deletions, Media

\* The part of the types that is about the processes.
ProcTyped ==
  /\ at \in [Processes -> Steps]
  /\ job \in [Processes -> AnyJobs \cup {NoJob}]
  /\ \A p \in Processes : IF at[p] = "idle" THEN job[p] = NoJob ELSE job[p] \in AnyJobs
  /\ suffix \in [Processes -> Nat] /\ stored \in [Processes -> SUBSET Media]

LEMMA DropTyped ==
  ASSUME TypeOK, NEW p \in Processes, Drop(p)
  PROVE  ProcTyped'
BY DEF TypeOK, ProcTyped, Drop, Goto, Steps

LEMMA GotoTyped ==
  ASSUME TypeOK, NEW p \in Processes, NEW where \in Steps \ {"idle"}, at[p] # "idle",
         Goto(p, where), UNCHANGED job,
         suffix' \in [Processes -> Nat], stored' \in [Processes -> SUBSET Media]
  PROVE  ProcTyped'
BY DEF TypeOK, ProcTyped, Goto

LEMMA TakeTyped ==
  ASSUME TypeOK, NEW p \in Processes, NEW where \in Steps \ {"idle"}, NEW j \in AnyJobs,
         job' = [job EXCEPT ![p] = j], Goto(p, where), UNCHANGED <<suffix, stored>>
  PROVE  ProcTyped'
BY DEF TypeOK, ProcTyped, Goto

LEMMA FaultTyped ==
  ASSUME TypeOK, NEW kind, Fault(kind) \/ UNCHANGED faults
  PROVE  faults' \in Nat
BY DEF TypeOK, Fault

\* A process at work has a job of an alert.
LEMMA Working ==
  ASSUME TypeOK, NEW p \in Processes, at[p] # "idle"
  PROVE  job[p] \in AnyJobs /\ job[p].alert \in Alerts
BY DEF TypeOK, AnyJobs

LEMMA RaiseTyped ==
  ASSUME TypeOK, NEW d \in Detectors, NEW a \in Alerts, Raise(d, a), UNCHANGED removalVars
  PROVE  TypeOK'
<1>1. [alert |-> a, attempts |-> 0] \in AnyJobs /\ d \in Processes
  BY DEF AnyJobs, Processes
<1>2. ProcTyped'
  <2>1. "enqueue" \in Steps \ {"idle"}
    BY DEF Steps
  <2> QED
    BY <1>1, <2>1, TakeTyped DEF Raise
<1>3. \A m \in {{"image"}, Media} : m \in SUBSET Media
  BY DEF Media
<1>4. raised' \subseteq Alerts /\ made' \in [Alerts -> SUBSET Media] /\ files' \in [Alerts -> SUBSET Media]
  BY <1>3 DEF TypeOK, Raise
<1> QED
  BY <1>2, <1>4 DEF TypeOK, ProcTyped, Raise, removalVars

LEMMA EnqueueTyped ==
  ASSUME TypeOK, NEW d \in Detectors, Enqueue(d), UNCHANGED removalVars
  PROVE  TypeOK'
<1>1. d \in Processes /\ at[d] = "enqueue" /\ job[d] \in AnyJobs
  BY Working DEF Enqueue, At, Processes
<1>2. queue' \in Seq(AnyJobs)
  <2>1. PushTrim(queue, job[d], MaxLen) \in Seq(AnyJobs)
    BY <1>1, PushTrimHolds DEF TypeOK
  <2> QED
    BY <2>1 DEF Enqueue, TypeOK
<1>3. ProcTyped'
  <2>1. "store" \in Steps \ {"idle"} /\ suffix \in [Processes -> Nat] /\ stored \in [Processes -> SUBSET Media]
    BY DEF Steps, TypeOK
  <2>2. CASE Drop(d)
    BY <1>1, <2>2, DropTyped
  <2>3. CASE Goto(d, "store") /\ UNCHANGED <<job, suffix, stored>>
    BY <1>1, <2>1, <2>3, GotoTyped
  <2> QED
    BY <2>2, <2>3 DEF Enqueue
<1>4. faults' \in Nat
  BY FaultTyped DEF Enqueue
<1> QED
  BY <1>2, <1>3, <1>4 DEF TypeOK, ProcTyped, Enqueue, worldVars, removalVars

LEMMA PopTyped ==
  ASSUME TypeOK, NEW w \in Workers, Pop(w), UNCHANGED removalVars
  PROVE  TypeOK'
<1>1. w \in Processes /\ Head(queue) \in AnyJobs /\ queue' \in Seq(AnyJobs)
  BY TailHolds DEF Pop, TypeOK, Processes
<1>2. ProcTyped'
  <2>1. "store" \in Steps \ {"idle"}
    BY DEF Steps
  <2> QED
    BY <1>1, <2>1, TakeTyped DEF Pop
<1> QED
  BY <1>1, <1>2 DEF TypeOK, ProcTyped, Pop, worldVars, removalVars

LEMMA StoreTyped ==
  ASSUME TypeOK, NEW p \in Processes, Store(p), UNCHANGED removalVars
  PROVE  TypeOK'
<1>1. job[p].alert \in Alerts /\ at[p] # "idle"
  BY Working DEF Store, At
<1>2. PICK up \in SUBSET files[job[p].alert] :
        /\ UNCHANGED faults \/ Fault("upload")
        /\ objects' = [objects EXCEPT ![job[p].alert] = @ \cup up]
        /\ files' = [files EXCEPT ![job[p].alert] = IF KeepLocal THEN @ ELSE @ \ up]
        /\ stored' = [stored EXCEPT ![p] = up]
  BY DEF Store
<1>3. up \subseteq Media
  BY <1>1 DEF TypeOK
<1>4. /\ files' \in [Alerts -> SUBSET Media] /\ objects' \in [Alerts -> SUBSET Media]
      /\ stored' \in [Processes -> SUBSET Media]
  BY <1>1, <1>2, <1>3 DEF TypeOK
<1>5. ProcTyped'
  <2>1. "save" \in Steps \ {"idle"} /\ suffix' \in [Processes -> Nat]
    BY DEF Steps, TypeOK, Store
  <2> QED
    BY <1>1, <1>4, <2>1, GotoTyped DEF Store
<1>6. faults' \in Nat
  BY <1>2, FaultTyped
<1> QED
  BY <1>4, <1>5, <1>6 DEF TypeOK, ProcTyped, Store, removalVars

\* The ids that are taken can be counted.
LEMMA UsedFinite ==
  ASSUME TypeOK, NEW a
  PROVE  LET used == {r.suffix : r \in RecordsOf(a)} IN
         /\ IsFiniteSet(RecordsOf(a)) /\ IsFiniteSet(used) /\ Cardinality(used) \in Nat
<1> DEFINE used == {r.suffix : r \in RecordsOf(a)}
           id == [r \in RecordsOf(a) |-> r.suffix]
<1>1. IsFiniteSet(RecordsOf(a))
  BY FS_Subset DEF RecordsOf, TypeOK
<1>2. id \in Surjection(RecordsOf(a), used)
  BY DEF Surjection
<1> QED
  BY <1>1, <1>2, FS_Surjection, FS_CardinalityType

LEMMA SaveTyped ==
  ASSUME TypeOK, NEW p \in Processes, Save(p), UNCHANGED removalVars
  PROVE  TypeOK'
<1>1. at[p] # "idle"
  BY DEF Save, At
<1>2. ProcTyped'
  <2>1. CASE Drop(p)
    BY <2>1, DropTyped
  <2>2. CASE Goto(p, "hset") /\ UNCHANGED <<job, stored>> /\ \E n \in Nat : suffix' = [suffix EXCEPT ![p] = n]
    <3>1. /\ "hset" \in Steps \ {"idle"} /\ suffix' \in [Processes -> Nat]
          /\ stored' \in [Processes -> SUBSET Media]
      BY <2>2 DEF Steps, TypeOK
    <3> QED
      BY <1>1, <2>2, <3>1, GotoTyped
  <2> DEFINE used == {r.suffix : r \in RecordsOf(job[p].alert)}
  <2>3. 0..Cardinality(used) \subseteq Nat
    BY UsedFinite
  <2>4. \/ Drop(p)
        \/ /\ Goto(p, "hset") /\ UNCHANGED <<job, stored>>
           /\ \E n \in 0..Cardinality(used) : suffix' = [suffix EXCEPT ![p] = n]
    BY DEF Save
  <2> HIDE DEF used
  <2> QED
    BY <2>1, <2>2, <2>3, <2>4
<1>3. faults' \in Nat
  BY FaultTyped DEF Save
<1> QED
  BY <1>2, <1>3 DEF TypeOK, ProcTyped, Save, worldVars, removalVars

LEMMA HsetTyped ==
  ASSUME TypeOK, NEW p \in Processes, Hset(p), UNCHANGED removalVars
  PROVE  TypeOK'
<1>1. job[p].alert \in Alerts /\ at[p] # "idle"
  BY Working DEF Hset, At
<1> DEFINE a == job[p].alert
           old == {r \in records : r.alert # a \/ r.suffix # suffix[p]}
           new == [alert |-> a, suffix |-> suffix[p], objects |-> stored[p],
                   paths |-> IF KeepLocal THEN made[a] ELSE made[a] \ stored[p]]
<1>2. new \in Records
  BY <1>1 DEF TypeOK, Records
<1>3. old \subseteq records /\ records' = old \cup {new}
  BY DEF Hset
<1> HIDE DEF old, new, a
<1>4. IsFiniteSet(records') /\ records' \subseteq Records
  <2>1. IsFiniteSet(old)
    BY <1>3, FS_Subset DEF TypeOK
  <2> QED
    BY <1>2, <1>3, <2>1, FS_AddElement DEF TypeOK
<1>5. ProcTyped'
  <2>1. /\ "notify" \in Steps \ {"idle"} /\ suffix' \in [Processes -> Nat]
        /\ stored' \in [Processes -> SUBSET Media]
    BY DEF Steps, TypeOK, Hset
  <2> QED
    BY <1>1, <2>1, GotoTyped DEF Hset
<1> QED
  BY <1>4, <1>5 DEF TypeOK, ProcTyped, Hset, worldVars, removalVars

LEMMA NotifyTyped ==
  ASSUME TypeOK, NEW p \in Processes, Notify(p), UNCHANGED removalVars
  PROVE  TypeOK'
<1>1. job[p].alert \in Alerts /\ at[p] # "idle"
  BY Working DEF Notify, At
<1>2. ProcTyped'
  <2>1. CASE Drop(p)
    BY <2>1, DropTyped
  <2>2. CASE Goto(p, "failed") /\ UNCHANGED <<job, suffix, stored>>
    <3>1. /\ "failed" \in Steps \ {"idle"} /\ suffix' \in [Processes -> Nat]
          /\ stored' \in [Processes -> SUBSET Media]
      BY <2>2 DEF Steps, TypeOK
    <3> QED
      BY <1>1, <2>2, <3>1, GotoTyped
  <2> QED
    BY <2>1, <2>2 DEF Notify
<1>3. notified' \subseteq Alerts
  BY <1>1 DEF Notify, TypeOK
<1>4. faults' \in Nat
  BY FaultTyped DEF Notify
<1> QED
  BY <1>2, <1>3, <1>4 DEF TypeOK, ProcTyped, Notify, worldVars, removalVars

\* The job as it is put back.
LEMMA RetryTyped ==
  ASSUME TypeOK, NEW w \in Workers, At(w, "failed")
  PROVE  /\ w \in Processes /\ [job[w] EXCEPT !.attempts = @ + 1] \in AnyJobs
         /\ [job[w] EXCEPT !.attempts = @ + 1].alert = job[w].alert
         /\ job[w].alert \in Alerts
<1>1. w \in Processes /\ at[w] # "idle"
  BY DEF At, Processes
<1> QED
  BY <1>1, Working DEF AnyJobs

LEMMA RequeueTyped ==
  ASSUME TypeOK, NEW w \in Workers, Requeue(w), UNCHANGED removalVars
  PROVE  TypeOK'
<1> DEFINE j == [job[w] EXCEPT !.attempts = @ + 1]
<1>1. w \in Processes /\ j \in AnyJobs /\ j.alert = job[w].alert /\ j.alert \in Alerts
  BY RetryTyped DEF Requeue
<1>2. \/ UNCHANGED <<queue, dead, retries>>
      \/ /\ retries' = [retries EXCEPT ![j.alert] = @ + 1]
         /\ \/ dead' = PushTrim(dead, j, MaxDead) /\ UNCHANGED queue
            \/ queue' = Append(queue, j) /\ UNCHANGED dead
  BY DEF Requeue
<1> HIDE DEF j
<1>3. PushTrim(dead, j, MaxDead) \in Seq(AnyJobs) /\ Append(queue, j) \in Seq(AnyJobs)
  BY <1>1, PushTrimHolds, AppendHolds DEF TypeOK
<1>4. queue' \in Seq(AnyJobs) /\ dead' \in Seq(AnyJobs)
  BY <1>1, <1>2, <1>3 DEF TypeOK
<1>7. retries' \in [Alerts -> Nat]
  <2>1. retries[j.alert] + 1 \in Nat
    BY <1>1 DEF TypeOK
  <2> QED
    BY <1>1, <1>2, <2>1 DEF TypeOK
<1>5. ProcTyped'
  BY <1>1, DropTyped DEF Requeue
<1>6. faults' \in Nat
  BY FaultTyped DEF Requeue
<1> QED
  BY <1>4, <1>5, <1>6, <1>7 DEF TypeOK, ProcTyped, Requeue, worldVars, removalVars

LEMMA CrashTyped ==
  ASSUME TypeOK, NEW p \in Processes, Crash(p), UNCHANGED removalVars
  PROVE  TypeOK'
<1>1. ProcTyped' /\ faults' \in Nat
  BY DropTyped, FaultTyped DEF Crash
<1> QED
  BY <1>1 DEF TypeOK, ProcTyped, Crash, worldVars, removalVars

\* A request that deletes has read a record.
LEMMA Reading ==
  ASSUME TypeOK, NEW u \in Pages, deleting[u].step \in {"discard", "hdel"} \/ deleting[u] # Idle
  PROVE  /\ deleting[u] \in [step : {"discard", "hdel"}, record : Records]
         /\ deleting[u] # Idle /\ deleting[u].record \in Records
         /\ deleting[u].record.alert \in Alerts
         /\ deleting[u].record.objects \subseteq Media /\ deleting[u].record.paths \subseteq Media
<1>1. deleting[u] \in Deletions
  BY DEF TypeOK
<1>2. deleting[u] \in [step : {"discard", "hdel"}, record : Records]
  BY <1>1 DEF Deletions, Idle
<1> QED
  BY <1>2 DEF Records, Idle

LEMMA PageTyped ==
  ASSUME TypeOK, NEW u \in Pages, PageStep(u)
  PROVE  TypeOK'
<1>1. UNCHANGED <<raised, made, queue, dead, notified, at, job, suffix, stored, retries>>
  BY DEF PageStep, ReadRecord, Discard, Hdel, PageCrash, pipelineVars, procVars
<1>2. ASSUME NEW r \in records, ReadRecord(u, r) PROVE TypeOK'
  <2>1. [step |-> "discard", record |-> r] \in Deletions
    BY DEF TypeOK, Deletions
  <2>2. deleting' \in [Pages -> Deletions] /\ asked' \in Nat
    BY <1>2, <2>1 DEF ReadRecord, SetPage, TypeOK
  <2> QED
    BY <1>1, <1>2, <2>2 DEF ReadRecord, TypeOK
<1>3. CASE Discard(u)
  <2>1. /\ deleting[u] \in [step : {"discard", "hdel"}, record : Records]
        /\ deleting[u].record.alert \in Alerts
        /\ deleting[u].record.objects \subseteq Media /\ deleting[u].record.paths \subseteq Media
    BY <1>3, Reading DEF Discard, AtPage
  <2>2. deleting' \in [Pages -> Deletions]
    <3>1. [deleting[u] EXCEPT !.step = "hdel"] \in Deletions
      BY <2>1 DEF Deletions
    <3> QED
      BY <1>3, <3>1 DEF Discard, SetPage, TypeOK
  <2>3. objects' \in [Alerts -> SUBSET Media] /\ refused' \in [Alerts -> SUBSET Media] /\ faults' \in Nat
    <3>1. PICK stay \in SUBSET deleting[u].record.objects :
            /\ UNCHANGED faults \/ Fault("undelete")
            /\ objects' = [objects EXCEPT ![deleting[u].record.alert] = @ \ (deleting[u].record.objects \ stay)]
            /\ refused' = [refused EXCEPT ![deleting[u].record.alert] = @ \cup stay]
      BY <1>3 DEF Discard
    <3> QED
      BY <2>1, <3>1, FaultTyped DEF TypeOK
  <2>4. files' \in [Alerts -> SUBSET Media] /\ discarded' \in [Alerts -> SUBSET Media]
    BY <1>3, <2>1 DEF Discard, TypeOK
  <2> QED
    BY <1>1, <1>3, <2>2, <2>3, <2>4 DEF Discard, TypeOK
<1>4. CASE Hdel(u)
  <2> DEFINE r == deleting[u].record
             same == {x \in RecordsOf(r.alert) : x.suffix = r.suffix}
  <2>1. r.alert \in Alerts
    BY <1>4, Reading DEF Hdel, AtPage
  <2>2. same \subseteq records
    BY DEF RecordsOf
  <2>3. /\ \/ records' = records \ same /\ removed' = [removed EXCEPT ![r.alert] = @ + Cardinality(same)]
           \/ UNCHANGED <<records, removed>>
        /\ UNCHANGED faults \/ Fault("down")
        /\ deleting' = [deleting EXCEPT ![u] = Idle]
    BY <1>4 DEF Hdel, SetPage
  <2> HIDE DEF same, r
  <2>4. IsFiniteSet(same) /\ Cardinality(same) \in Nat
    BY <2>2, FS_Subset, FS_CardinalityType DEF TypeOK
  <2>5. records' \subseteq Records /\ IsFiniteSet(records')
    BY <2>3, FS_Subset DEF TypeOK
  <2>6. removed' \in [Alerts -> Nat]
    <3>1. removed[r.alert] + Cardinality(same) \in Nat
      BY <2>1, <2>4 DEF TypeOK
    <3> QED
      BY <2>1, <2>3, <3>1 DEF TypeOK
  <2>8. faults' \in Nat
    BY <2>3, FaultTyped
  <2>7. deleting' \in [Pages -> Deletions]
    BY <2>3 DEF TypeOK, Deletions
  <2> QED
    BY <1>1, <1>4, <2>5, <2>6, <2>7, <2>8 DEF Hdel, TypeOK
<1>5. CASE PageCrash(u)
  <2>1. deleting' \in [Pages -> Deletions] /\ faults' \in Nat
    BY <1>5, FaultTyped DEF PageCrash, SetPage, TypeOK, Deletions
  <2> QED
    BY <1>1, <1>5, <2>1 DEF PageCrash, TypeOK
<1> QED
  BY <1>2, <1>3, <1>4, <1>5 DEF PageStep

\* The steps of the pipeline, one disjunct for each.
LEMMA StepCases ==
  ASSUME [Next]_vars
  PROVE  \/ UNCHANGED vars
         \/ \E u \in Pages : PageStep(u)
         \/ /\ UNCHANGED removalVars
            /\ \/ \E d \in Detectors, a \in Alerts : Raise(d, a)
               \/ \E d \in Detectors : Enqueue(d)
               \/ \E w \in Workers : Pop(w) \/ Requeue(w)
               \/ \E p \in Processes : Store(p) \/ Save(p) \/ Hset(p) \/ Notify(p) \/ Crash(p)
BY DEF Next, DetectorStep, WorkerStep, JobStep, Processes

LEMMA TypeStep == TypeOK /\ [Next]_vars => TypeOK'
<1> SUFFICES ASSUME TypeOK, [Next]_vars PROVE TypeOK'
  OBVIOUS
<1>1. CASE UNCHANGED vars
  BY <1>1 DEF vars, worldVars, procVars, removalVars, TypeOK
<1> QED
  BY <1>1, StepCases, PageTyped, RaiseTyped, EnqueueTyped, PopTyped, RequeueTyped,
     StoreTyped, SaveTyped, HsetTyped, NotifyTyped, CrashTyped

-----------------------------------------------------------------------------
\* The alert has a record, or had one that a person deleted.
Seen(a) == RecordsOf(a) # {} \/ removed[a] > 0

\* Nobody announces, deletes or has discarded what was never recorded.
Recorded ==
  /\ \A p \in Processes : at[p] \in {"notify", "failed"} => Seen(job[p].alert)
  /\ \A u \in Pages : deleting[u] # Idle => Seen(deleting[u].record.alert)
  /\ \A a \in Alerts : discarded[a] # {} => Seen(a)

Unraised ==
  \A a \in Alerts \ raised :
    /\ made[a] = {} /\ files[a] = {} /\ objects[a] = {}
    /\ ~Seen(a) /\ ~Carried(a)

WorldInv == Recorded /\ Unraised /\ MediaKept

\* Carried, in the words of these proofs.
LEMMA CarriedHolds ==
  \A a : Carried(a) <=> Holds(queue, a) \/ \E p \in Processes : job[p].alert = a
BY DEF Carried, Holds

\* Where process p is after a step, and that the others are where they were.
Now(p, where, j) ==
  /\ at'[p] = where /\ job'[p] = j
  /\ \A q \in Processes \ {p} : at'[q] = at[q] /\ job'[q] = job[q] /\ stored'[q] = stored[q]

\* What dropping a job and going on with it mean for the other processes.
LEMMA DropNow ==
  ASSUME TypeOK, NEW p \in Processes, Drop(p)
  PROVE  Now(p, "idle", NoJob) /\ NoJob.alert \notin Alerts
BY DEF TypeOK, Drop, Goto, Now, NoJob

LEMMA GotoNow ==
  ASSUME TypeOK, NEW p \in Processes, NEW where, Goto(p, where), UNCHANGED job,
         \A q \in Processes \ {p} : stored'[q] = stored[q]
  PROVE  Now(p, where, job[p])
BY DEF TypeOK, Goto, Now

\* The effects of the steps.
LEMMA RaiseEffect ==
  ASSUME TypeOK, NEW d \in Detectors, NEW a \in Alerts, Raise(d, a)
  PROVE  /\ d \in Processes /\ a \notin raised /\ at[d] = "idle"
         /\ Now(d, "enqueue", [alert |-> a, attempts |-> 0])
         /\ raised' = raised \cup {a}
         /\ \E m \in SUBSET Media : /\ made' = [made EXCEPT ![a] = m]
                                    /\ files' = [files EXCEPT ![a] = m]
         /\ UNCHANGED <<objects, queue, dead, records, notified, retries>>
<1>1. d \in Processes
  BY DEF Processes
<1> QED
  BY <1>1 DEF Raise, At, Goto, Now, TypeOK, Media

LEMMA EnqueueEffect ==
  ASSUME TypeOK, NEW d \in Detectors, Enqueue(d)
  PROVE  /\ d \in Processes /\ at[d] = "enqueue" /\ job[d] \in AnyJobs /\ job[d].alert \in Alerts
         /\ \/ Now(d, "idle", NoJob) /\ queue' = PushTrim(queue, job[d], MaxLen)
            \/ Now(d, "store", job[d]) /\ UNCHANGED queue
            \/ /\ Now(d, "store", job[d]) /\ "reply" \in Faults
               /\ queue' = PushTrim(queue, job[d], MaxLen)
         /\ UNCHANGED <<worldVars, dead, records, notified, retries>>
<1>1. d \in Processes /\ at[d] = "enqueue"
  BY DEF Enqueue, At, Processes
<1>2. job[d] \in AnyJobs /\ job[d].alert \in Alerts
  BY <1>1, Working
<1>3. ASSUME Goto(d, "store"), UNCHANGED <<job, suffix, stored>> PROVE Now(d, "store", job[d])
  BY <1>1, <1>3, GotoNow
<1> QED
  BY <1>1, <1>2, <1>3, DropNow DEF Enqueue, Fault

LEMMA PopEffect ==
  ASSUME TypeOK, NEW w \in Workers, Pop(w)
  PROVE  /\ w \in Processes /\ at[w] = "idle" /\ queue # <<>>
         /\ Now(w, "store", Head(queue)) /\ queue' = Tail(queue)
         /\ UNCHANGED <<worldVars, dead, records, notified, retries>>
<1>1. w \in Processes
  BY DEF Processes
<1> QED
  BY <1>1 DEF Pop, At, Goto, Now, TypeOK

LEMMA StoreEffect ==
  ASSUME TypeOK, NEW p \in Processes, Store(p)
  PROVE  /\ at[p] = "store" /\ job[p].alert \in Alerts
         /\ Now(p, "save", job[p])
         /\ \E up \in SUBSET files[job[p].alert] :
              /\ objects' = [objects EXCEPT ![job[p].alert] = @ \cup up]
              /\ files' = [files EXCEPT ![job[p].alert] = IF KeepLocal THEN @ ELSE @ \ up]
              /\ stored'[p] = up
         /\ UNCHANGED <<raised, made, queue, dead, records, notified, retries>>
<1>1. at[p] = "store" /\ job[p].alert \in Alerts
  BY Working DEF Store, At
<1>2. PICK up \in SUBSET files[job[p].alert] :
        /\ objects' = [objects EXCEPT ![job[p].alert] = @ \cup up]
        /\ files' = [files EXCEPT ![job[p].alert] = IF KeepLocal THEN @ ELSE @ \ up]
        /\ stored' = [stored EXCEPT ![p] = up]
  BY DEF Store
<1>3. stored'[p] = up /\ \A q \in Processes \ {p} : stored'[q] = stored[q]
  BY <1>2 DEF TypeOK
<1>4. Now(p, "save", job[p])
  BY <1>3, GotoNow DEF Store
<1> QED
  BY <1>1, <1>2, <1>3, <1>4 DEF Store

LEMMA SaveEffect ==
  ASSUME TypeOK, NEW p \in Processes, Save(p)
  PROVE  /\ at[p] = "save" /\ job[p].alert \in Alerts
         /\ \/ Now(p, "hset", job[p]) /\ UNCHANGED stored
            \/ Now(p, "idle", NoJob)
         /\ UNCHANGED <<worldVars, queue, dead, records, notified, retries>>
<1>1. at[p] = "save" /\ job[p].alert \in Alerts
  BY Working DEF Save, At
<1>2. ASSUME Goto(p, "hset"), UNCHANGED <<job, stored>> PROVE Now(p, "hset", job[p])
  BY <1>2, GotoNow
<1> QED
  BY <1>1, <1>2, DropNow DEF Save

NewRecord(p) ==
  [alert |-> job[p].alert, suffix |-> suffix[p], objects |-> stored[p],
   paths |-> IF KeepLocal THEN made[job[p].alert] ELSE made[job[p].alert] \ stored[p]]

LEMMA HsetEffect ==
  ASSUME TypeOK, NEW p \in Processes, Hset(p)
  PROVE  /\ at[p] = "hset" /\ job[p].alert \in Alerts
         /\ Now(p, "notify", job[p])
         /\ NewRecord(p) \in records' /\ NewRecord(p).alert = job[p].alert
         /\ records' \subseteq records \cup {NewRecord(p)}
         /\ \A r \in records : r.alert # job[p].alert => r \in records'
         /\ UNCHANGED <<worldVars, queue, dead, notified, stored, retries>>
<1>1. at[p] = "hset" /\ job[p].alert \in Alerts
  BY Working DEF Hset, At
<1>2. Now(p, "notify", job[p])
  BY GotoNow DEF Hset
<1>3. records' = {r \in records : r.alert # job[p].alert \/ r.suffix # suffix[p]} \cup {NewRecord(p)}
  BY DEF Hset, NewRecord
<1>4. NewRecord(p).alert = job[p].alert
  BY DEF NewRecord
<1> QED
  BY <1>1, <1>2, <1>3, <1>4 DEF Hset

LEMMA NotifyEffect ==
  ASSUME TypeOK, NEW p \in Processes, Notify(p)
  PROVE  /\ at[p] = "notify" /\ job[p].alert \in Alerts
         /\ \/ Now(p, "idle", NoJob) /\ notified' = notified \cup {job[p].alert}
            \/ Now(p, "idle", NoJob) /\ UNCHANGED notified
            \/ p \in Workers /\ Now(p, "failed", job[p]) /\ UNCHANGED notified
         /\ UNCHANGED <<worldVars, queue, dead, records, retries>>
<1>1. at[p] = "notify" /\ job[p].alert \in Alerts
  BY Working DEF Notify, At
<1>2. ASSUME Goto(p, "failed"), UNCHANGED <<job, suffix, stored>> PROVE Now(p, "failed", job[p])
  BY <1>2, GotoNow
<1> QED
  BY <1>1, <1>2, DropNow DEF Notify

LEMMA RequeueEffect ==
  ASSUME TypeOK, NEW w \in Workers, Requeue(w)
  PROVE  /\ w \in Processes /\ at[w] = "failed" /\ job[w].alert \in Alerts
         /\ Now(w, "idle", NoJob)
         /\ \/ UNCHANGED <<queue, dead, retries>>
            \/ /\ retries' = [retries EXCEPT ![job[w].alert] = @ + 1]
               /\ \E j \in AnyJobs :
                    /\ j.alert = job[w].alert
                    /\ \/ dead' = PushTrim(dead, j, MaxDead) /\ UNCHANGED queue
                       \/ queue' = Append(queue, j) /\ UNCHANGED dead
         /\ UNCHANGED <<worldVars, records, notified>>
<1>1. w \in Processes /\ at[w] = "failed"
  BY DEF Requeue, At, Processes
<1> DEFINE j == [job[w] EXCEPT !.attempts = @ + 1]
<1>2. j \in AnyJobs /\ j.alert = job[w].alert /\ job[w].alert \in Alerts
  BY RetryTyped DEF Requeue
<1>3. Now(w, "idle", NoJob)
  BY <1>1, DropNow DEF Requeue
<1>4. \/ UNCHANGED <<queue, dead, retries>>
      \/ /\ retries' = [retries EXCEPT ![j.alert] = @ + 1]
         /\ \/ dead' = PushTrim(dead, j, MaxDead) /\ UNCHANGED queue
            \/ queue' = Append(queue, j) /\ UNCHANGED dead
  BY DEF Requeue
<1> HIDE DEF j
<1> QED
  BY <1>1, <1>2, <1>3, <1>4 DEF Requeue

LEMMA CrashEffect ==
  ASSUME TypeOK, NEW p \in Processes, Crash(p)
  PROVE  /\ Now(p, "idle", NoJob)
         /\ UNCHANGED <<worldVars, queue, dead, records, notified, retries>>
BY DropNow DEF Crash

LEMMA DiscardEffect ==
  ASSUME TypeOK, NEW u \in Pages, Discard(u)
  PROVE  LET r == deleting[u].record IN
         /\ deleting[u] # Idle /\ r.alert \in Alerts
         /\ deleting'[u].record = r /\ deleting'[u].step = "hdel"
         /\ \A v \in Pages \ {u} : deleting'[v] = deleting[v]
         /\ \E stay \in SUBSET r.objects :
              /\ objects' = [objects EXCEPT ![r.alert] = @ \ (r.objects \ stay)]
              /\ refused' = [refused EXCEPT ![r.alert] = @ \cup stay]
         /\ files' = [files EXCEPT ![r.alert] = @ \ r.paths]
         /\ discarded' = [discarded EXCEPT ![r.alert] = @ \cup r.objects \cup r.paths]
         /\ UNCHANGED <<pipelineVars, records, removed>>
<1> DEFINE r == deleting[u].record
<1>1. /\ deleting[u] \in [step : {"discard", "hdel"}, record : Records]
      /\ deleting[u] # Idle /\ r.alert \in Alerts
  BY Reading DEF Discard, AtPage
<1>2. /\ deleting'[u].record = r /\ deleting'[u].step = "hdel"
      /\ \A v \in Pages \ {u} : deleting'[v] = deleting[v]
  BY <1>1 DEF Discard, SetPage, TypeOK
<1>3. \E stay \in SUBSET r.objects :
        /\ objects' = [objects EXCEPT ![r.alert] = @ \ (r.objects \ stay)]
        /\ refused' = [refused EXCEPT ![r.alert] = @ \cup stay]
  BY DEF Discard
<1>4. /\ files' = [files EXCEPT ![r.alert] = @ \ r.paths]
      /\ discarded' = [discarded EXCEPT ![r.alert] = @ \cup r.objects \cup r.paths]
      /\ UNCHANGED <<pipelineVars, records, removed>>
  BY DEF Discard
<1> QED
  BY <1>1, <1>2, <1>3, <1>4

LEMMA HdelEffect ==
  ASSUME TypeOK, NEW u \in Pages, Hdel(u)
  PROVE  LET r == deleting[u].record IN
         /\ deleting[u] # Idle /\ deleting[u].step = "hdel" /\ r.alert \in Alerts
         /\ deleting'[u] = Idle /\ \A v \in Pages \ {u} : deleting'[v] = deleting[v]
         /\ \/ UNCHANGED <<records, removed>>
            \/ \E same \in SUBSET RecordsOf(r.alert) :
                 /\ records' = records \ same
                 /\ removed' = [removed EXCEPT ![r.alert] = @ + Cardinality(same)]
         /\ UNCHANGED <<pipelineVars, files, objects, discarded, refused>>
<1> DEFINE r == deleting[u].record
           same == {x \in RecordsOf(r.alert) : x.suffix = r.suffix}
<1>1. deleting[u] # Idle /\ deleting[u].step = "hdel" /\ r.alert \in Alerts
  BY Reading DEF Hdel, AtPage
<1>2. deleting'[u] = Idle /\ \A v \in Pages \ {u} : deleting'[v] = deleting[v]
  BY DEF Hdel, SetPage, TypeOK
<1>3. \/ UNCHANGED <<records, removed>>
      \/ /\ records' = records \ same
         /\ removed' = [removed EXCEPT ![r.alert] = @ + Cardinality(same)]
  BY DEF Hdel
<1>4. same \in SUBSET RecordsOf(r.alert)
  OBVIOUS
<1>5. UNCHANGED <<pipelineVars, files, objects, discarded, refused>>
  BY DEF Hdel
<1> HIDE DEF same
<1> QED
  BY <1>1, <1>2, <1>3, <1>4, <1>5

-----------------------------------------------------------------------------
\* A record that goes leaves its mark in removed.
LEMMA SeenSame ==
  ASSUME UNCHANGED <<records, removed>>, NEW a
  PROVE  Seen(a)' <=> Seen(a)
BY DEF Seen, RecordsOf

\* An alert is seen for good: records are written, and deletions counted.
LEMMA HsetSeen ==
  ASSUME TypeOK, NEW p \in Processes, Hset(p), UNCHANGED removalVars, NEW a \in Alerts
  PROVE  /\ a = job[p].alert => Seen(a)'
         /\ a # job[p].alert => (Seen(a)' <=> Seen(a))
<1>1. /\ NewRecord(p) \in records' /\ NewRecord(p).alert = job[p].alert
      /\ records' \subseteq records \cup {NewRecord(p)}
      /\ \A r \in records : r.alert # job[p].alert => r \in records'
      /\ UNCHANGED removed
  BY HsetEffect DEF removalVars
<1>2. a = job[p].alert => RecordsOf(a)' # {}
  BY <1>1 DEF RecordsOf
<1>3. a # job[p].alert => RecordsOf(a)' = RecordsOf(a)
  BY <1>1 DEF RecordsOf
<1> QED
  BY <1>1, <1>2, <1>3 DEF Seen

LEMMA HdelSeen ==
  ASSUME TypeOK, NEW u \in Pages, Hdel(u), NEW a \in Alerts
  PROVE  /\ Seen(a) => Seen(a)'
         /\ a # deleting[u].record.alert => (Seen(a)' => Seen(a))
<1>1. PICK b \in Alerts : b = deleting[u].record.alert
  BY HdelEffect
<1>2. CASE UNCHANGED <<records, removed>>
  BY <1>2, SeenSame
<1>3. ASSUME NEW same \in SUBSET RecordsOf(b), records' = records \ same,
             removed' = [removed EXCEPT ![b] = @ + Cardinality(same)]
      PROVE  (Seen(a) => Seen(a)') /\ (a # b => (Seen(a)' => Seen(a)))
  <2>1. IsFiniteSet(same) /\ Cardinality(same) \in Nat /\ (Cardinality(same) = 0 => same = {})
    BY UsedFinite, FS_Subset, FS_CardinalityType, FS_EmptySet
  <2>2. removed[b] \in Nat /\ removed'[b] = removed[b] + Cardinality(same)
    BY <1>3 DEF TypeOK
  <2>3. CASE a # b
    <3>1. RecordsOf(a)' = RecordsOf(a) /\ removed'[a] = removed[a]
      BY <1>3, <2>3 DEF RecordsOf, TypeOK
    <3> QED
      BY <3>1, <2>3 DEF Seen
  <2>4. CASE a = b /\ same = {}
    BY <1>3, <2>1, <2>2, <2>4 DEF Seen, RecordsOf
  <2>5. CASE a = b /\ same # {}
    BY <2>1, <2>2, <2>5 DEF Seen
  <2> QED
    BY <2>3, <2>4, <2>5
<1> QED
  BY <1>1, <1>2, <1>3, HdelEffect

\* A step of a process that moves no picture and writes no record.
LEMMA QuietStep ==
  ASSUME TypeOK, WorldInv, UNCHANGED <<worldVars, records, removalVars>>,
         \A a \in Alerts : Carried(a)' => Carried(a),
         \A p \in Processes : at'[p] \in {"notify", "failed"} =>
                                at[p] \in {"notify", "failed"} /\ job'[p] = job[p]
  PROVE  WorldInv'
<1>1. \A a : Seen(a)' <=> Seen(a)
  BY SeenSame DEF removalVars
<1>2. Recorded'
  <2>1. \A p \in Processes : at'[p] \in {"notify", "failed"} => Seen(job'[p].alert)
    BY DEF WorldInv, Recorded
  <2> QED
    BY <1>1, <2>1 DEF WorldInv, Recorded, removalVars, Seen, RecordsOf
<1>3. Unraised'
  BY <1>1 DEF WorldInv, Unraised, worldVars
<1>4. MediaKept'
  BY DEF WorldInv, MediaKept, worldVars, removalVars
<1> QED
  BY <1>2, <1>3, <1>4 DEF WorldInv

\* Carried is about the list and the jobs.
LEMMA CarriedNow ==
  ASSUME TypeOK, NEW p \in Processes, NEW where, NEW j, Now(p, where, j),
         NEW a \in Alerts, Carried(a)'
  PROVE  j.alert = a \/ Holds(queue', a) \/ Carried(a)
BY CarriedHolds DEF Carried, Holds, Now

LEMMA CarriedQueue ==
  \A a : Holds(queue, a) => Carried(a)
BY DEF Carried, Holds

LEMMA CarriedJob ==
  \A p \in Processes : Carried(job[p].alert)
BY DEF Carried

\* What the page leaves alone.
LEMMA PageFrame ==
  ASSUME NEW u \in Pages, PageStep(u)
  PROVE  UNCHANGED <<raised, made, queue, dead, notified, at, job, suffix, stored, retries>>
BY DEF PageStep, ReadRecord, Discard, Hdel, PageCrash, pipelineVars, procVars

\* Only Raise puts an alert on its way.
LEMMA CarriedStep ==
  ASSUME TypeOK,
         \/ \E d \in Detectors : Enqueue(d)
         \/ \E w \in Workers : Pop(w) \/ Requeue(w)
         \/ \E p \in Processes : Store(p) \/ Save(p) \/ Hset(p) \/ Notify(p) \/ Crash(p)
         \/ \E u \in Pages : PageStep(u),
         NEW a \in Alerts, Carried(a)'
  PROVE  Carried(a)
<1>1. NoJob.alert \notin Alerts
  BY DEF NoJob
<1>2. ASSUME NEW d \in Detectors, Enqueue(d) PROVE Carried(a)
  <2>1. /\ d \in Processes /\ job[d] \in AnyJobs
        /\ Now(d, "idle", NoJob) \/ Now(d, "store", job[d])
        /\ queue' = PushTrim(queue, job[d], MaxLen) \/ UNCHANGED queue
    BY <1>2, EnqueueEffect
  <2>2. Holds(queue', a) => Carried(a)
    <3>1. Holds(PushTrim(queue, job[d], MaxLen), a) => Holds(queue, a) \/ a = job[d].alert
      BY <2>1, PushTrimHolds DEF TypeOK
    <3> QED
      BY <2>1, <3>1, CarriedQueue, CarriedJob
  <2> QED
    BY <1>1, <2>1, <2>2, CarriedNow, CarriedJob
<1>3. ASSUME NEW w \in Workers, Pop(w) PROVE Carried(a)
  <2>1. w \in Processes /\ queue # <<>> /\ Now(w, "store", Head(queue)) /\ queue' = Tail(queue)
    BY <1>3, PopEffect
  <2>2. Holds(queue', a) \/ Head(queue).alert = a => Carried(a)
    BY <2>1, TailHolds, CarriedQueue DEF TypeOK
  <2> QED
    BY <2>1, <2>2, CarriedNow
<1>4. ASSUME NEW w \in Workers, Requeue(w) PROVE Carried(a)
  <2>1. /\ w \in Processes /\ Now(w, "idle", NoJob)
        /\ UNCHANGED queue \/ \E i \in AnyJobs : i.alert = job[w].alert /\ queue' = Append(queue, i)
    BY <1>4, RequeueEffect
  <2>2. queue \in Seq(AnyJobs) /\ Carried(job[w].alert)
    BY <2>1, CarriedJob DEF TypeOK
  <2>3. Holds(queue', a) => Carried(a)
    <3>1. ASSUME NEW i \in AnyJobs, i.alert = job[w].alert, queue' = Append(queue, i)
          PROVE  Holds(queue', a) => Holds(queue, a) \/ a = job[w].alert
      BY <2>2, <3>1, AppendHolds
    <3> QED
      BY <2>1, <2>2, <3>1, CarriedQueue
  <2> QED
    BY <1>1, <2>1, <2>3, CarriedNow
<1>5. ASSUME NEW p \in Processes, Store(p) \/ Save(p) \/ Hset(p) \/ Notify(p) \/ Crash(p)
      PROVE  Carried(a)
  <2>1. /\ Now(p, "idle", NoJob) \/ \E where : Now(p, where, job[p])
        /\ UNCHANGED queue
    BY <1>5, StoreEffect, SaveEffect, HsetEffect, NotifyEffect, CrashEffect
  <2> QED
    BY <1>1, <2>1, CarriedNow, CarriedJob, CarriedQueue
<1>6. ASSUME NEW u \in Pages, PageStep(u) PROVE Carried(a)
  BY <1>6, PageFrame DEF Carried
<1> QED
  BY <1>2, <1>3, <1>4, <1>5, <1>6

\* WorldInv, step by step.
LEMMA QuietWorld ==
  ASSUME TypeOK, WorldInv, UNCHANGED removalVars,
         \/ \E d \in Detectors : Enqueue(d)
         \/ \E w \in Workers : Pop(w) \/ Requeue(w)
         \/ \E p \in Processes : Save(p) \/ Notify(p) \/ Crash(p)
  PROVE  WorldInv'
<1>1. \A a \in Alerts : Carried(a)' => Carried(a)
  BY CarriedStep
<1>2. UNCHANGED <<worldVars, records>>
  BY EnqueueEffect, PopEffect, RequeueEffect, SaveEffect, NotifyEffect, CrashEffect
<1>3. \A p \in Processes : at'[p] \in {"notify", "failed"} =>
                             at[p] \in {"notify", "failed"} /\ job'[p] = job[p]
  <2>1. \E p \in Processes :
          \/ \E j : Now(p, "idle", j) \/ Now(p, "store", j) \/ Now(p, "hset", j)
          \/ at[p] = "notify" /\ Now(p, "failed", job[p])
    BY EnqueueEffect, PopEffect, RequeueEffect, SaveEffect, NotifyEffect, CrashEffect
  <2> QED
    BY <2>1 DEF Now
<1> QED
  BY <1>1, <1>2, <1>3, QuietStep

LEMMA RaiseWorld ==
  ASSUME TypeOK, WorldInv, UNCHANGED removalVars,
         NEW d \in Detectors, NEW a \in Alerts, Raise(d, a)
  PROVE  WorldInv'
<1>1. /\ d \in Processes /\ a \notin raised /\ at[d] = "idle"
      /\ Now(d, "enqueue", [alert |-> a, attempts |-> 0])
      /\ raised' = raised \cup {a}
      /\ UNCHANGED <<objects, queue, dead, records, notified, retries>>
  BY RaiseEffect
<1>2. PICK m \in SUBSET Media : made' = [made EXCEPT ![a] = m] /\ files' = [files EXCEPT ![a] = m]
  BY RaiseEffect
<1>3. \A b : Seen(b)' <=> Seen(b)
  BY <1>1, SeenSame DEF removalVars
<1>4. Recorded'
  <2>1. \A p \in Processes : at'[p] \in {"notify", "failed"} => Seen(job'[p].alert)
    BY <1>1 DEF WorldInv, Recorded, Now
  <2> QED
    BY <1>1, <1>3, <2>1 DEF WorldInv, Recorded, removalVars, Seen, RecordsOf
<1>5. Unraised'
  <2>1. \A b \in Alerts \ raised' : Carried(b)' => Carried(b)
    BY <1>1, CarriedNow, CarriedQueue
  <2>2. \A b \in Alerts \ raised' : made'[b] = made[b] /\ files'[b] = files[b]
    BY <1>1, <1>2 DEF TypeOK
  <2> QED
    BY <1>1, <1>3, <2>1, <2>2 DEF WorldInv, Unraised
<1>6. MediaKept'
  BY <1>1, <1>2 DEF WorldInv, MediaKept, TypeOK, removalVars, Unraised
<1> QED
  BY <1>4, <1>5, <1>6 DEF WorldInv

LEMMA StoreWorld ==
  ASSUME TypeOK, WorldInv, UNCHANGED removalVars, NEW p \in Processes, Store(p)
  PROVE  WorldInv'
<1>1. /\ at[p] = "store" /\ job[p].alert \in Alerts /\ Now(p, "save", job[p])
      /\ UNCHANGED <<raised, made, queue, dead, records, notified, retries>>
  BY StoreEffect
<1>2. PICK up \in SUBSET files[job[p].alert] :
        /\ objects' = [objects EXCEPT ![job[p].alert] = @ \cup up]
        /\ files' = [files EXCEPT ![job[p].alert] = IF KeepLocal THEN @ ELSE @ \ up]
  BY StoreEffect
<1>3. \A b : Seen(b)' <=> Seen(b)
  BY <1>1, SeenSame DEF removalVars
<1>4. Recorded'
  <2>1. \A q \in Processes : at'[q] \in {"notify", "failed"} => Seen(job'[q].alert)
    BY <1>1 DEF WorldInv, Recorded, Now
  <2> QED
    BY <1>1, <1>3, <2>1 DEF WorldInv, Recorded, removalVars, Seen, RecordsOf
<1>5. Unraised'
  <2>1. \A b \in Alerts : Carried(b)' => Carried(b)
    BY CarriedStep
  <2>2. job[p].alert \in raised
    BY <1>1, CarriedJob DEF WorldInv, Unraised
  <2>3. \A b \in Alerts \ raised : objects'[b] = objects[b] /\ files'[b] = files[b]
    BY <1>2, <2>2 DEF TypeOK
  <2> QED
    BY <1>1, <1>3, <2>1, <2>3 DEF WorldInv, Unraised
<1>6. MediaKept'
  BY <1>1, <1>2 DEF WorldInv, MediaKept, TypeOK, removalVars
<1> QED
  BY <1>4, <1>5, <1>6 DEF WorldInv

LEMMA HsetWorld ==
  ASSUME TypeOK, WorldInv, UNCHANGED removalVars, NEW p \in Processes, Hset(p)
  PROVE  WorldInv'
<1>1. /\ at[p] = "hset" /\ job[p].alert \in Alerts /\ Now(p, "notify", job[p])
      /\ UNCHANGED <<worldVars, queue, dead, notified, stored, retries>>
  BY HsetEffect
<1>2. \A a \in Alerts : (a = job[p].alert => Seen(a)') /\ (a # job[p].alert => (Seen(a)' <=> Seen(a)))
  BY HsetSeen
<1>3. \A q \in Processes : at[q] # "idle" => job[q].alert \in Alerts
  BY Working
<1>4. Recorded'
  <2>1. ASSUME NEW q \in Processes, at'[q] \in {"notify", "failed"} PROVE Seen(job[q].alert)'
    <3>1. PICK b \in Alerts : b = job'[q].alert /\ Seen(b)'
      <4>1. CASE q = p
        BY <1>1, <1>2, <4>1 DEF Now
      <4>2. CASE q # p
        BY <1>1, <1>2, <1>3, <2>1, <4>2 DEF Now, WorldInv, Recorded
      <4> QED
        BY <4>1, <4>2
    <3> QED
      BY <3>1
  <2>2. ASSUME NEW u \in Pages, deleting'[u] # Idle PROVE Seen(deleting[u].record.alert)'
    <3>1. deleting[u].record.alert \in Alerts /\ Seen(deleting[u].record.alert)
      BY <2>2, Reading DEF removalVars, WorldInv, Recorded
    <3>2. PICK b \in Alerts : b = deleting'[u].record.alert /\ Seen(b)'
      BY <1>2, <3>1 DEF removalVars
    <3> QED
      BY <3>2
  <2>3. \A a \in Alerts : discarded'[a] # {} => Seen(a)'
    BY <1>2 DEF removalVars, WorldInv, Recorded
  <2> QED
    BY <2>1, <2>2, <2>3 DEF Recorded
<1>5. Unraised'
  <2>1. \A b \in Alerts : Carried(b)' => Carried(b)
    BY CarriedStep
  <2>2. job[p].alert \in raised
    BY <1>1, CarriedJob DEF WorldInv, Unraised
  <2> QED
    BY <1>1, <1>2, <2>1, <2>2 DEF WorldInv, Unraised, worldVars
<1>6. MediaKept'
  BY <1>1 DEF WorldInv, MediaKept, worldVars, removalVars
<1> QED
  BY <1>4, <1>5, <1>6 DEF WorldInv

\* A request reads a record or ends.
LEMMA ReadWorld ==
  ASSUME TypeOK, WorldInv, NEW u \in Pages,
         (\E r \in records : ReadRecord(u, r)) \/ PageCrash(u)
  PROVE  WorldInv'
<1>1. UNCHANGED <<worldVars, queue, records, removed, discarded, at, job>>
  BY DEF ReadRecord, PageCrash, pipelineVars, procVars, worldVars
<1>2. /\ \A v \in Pages \ {u} : deleting'[v] = deleting[v]
      /\ deleting'[u] = Idle \/ deleting'[u].record \in records
  BY DEF ReadRecord, PageCrash, SetPage, TypeOK
<1>3. \A a : Seen(a)' <=> Seen(a)
  BY <1>1, SeenSame
<1>4. \A r \in records : Seen(r.alert)
  BY DEF Seen, RecordsOf
<1>5. Recorded'
  <2>1. \A p \in Processes : at'[p] \in {"notify", "failed"} => Seen(job'[p].alert)
    BY <1>1 DEF WorldInv, Recorded
  <2>2. \A v \in Pages : deleting'[v] # Idle => Seen(deleting'[v].record.alert)
    BY <1>2, <1>4 DEF WorldInv, Recorded
  <2> QED
    BY <1>1, <1>3, <2>1, <2>2 DEF WorldInv, Recorded, Seen, RecordsOf
<1>6. Unraised'
  BY <1>1, <1>3 DEF WorldInv, Unraised, worldVars, Carried
<1>7. MediaKept'
  BY <1>1 DEF WorldInv, MediaKept, worldVars
<1> QED
  BY <1>5, <1>6, <1>7 DEF WorldInv

LEMMA DiscardWorld ==
  ASSUME TypeOK, WorldInv, NEW u \in Pages, Discard(u)
  PROVE  WorldInv'
<1>1. PICK r : r = deleting[u].record
  OBVIOUS
<1>2. /\ deleting[u] # Idle /\ r.alert \in Alerts
      /\ deleting'[u].record = r
      /\ \A v \in Pages \ {u} : deleting'[v] = deleting[v]
      /\ files' = [files EXCEPT ![r.alert] = @ \ r.paths]
      /\ discarded' = [discarded EXCEPT ![r.alert] = @ \cup r.objects \cup r.paths]
      /\ UNCHANGED <<raised, made, queue, at, job, records, removed>>
  BY <1>1, DiscardEffect DEF pipelineVars, procVars
<1>3. PICK stay \in SUBSET r.objects :
        objects' = [objects EXCEPT ![r.alert] = @ \ (r.objects \ stay)]
  BY <1>1, DiscardEffect
<1>4. \A a : Seen(a)' <=> Seen(a)
  BY <1>2, SeenSame
<1>5. Seen(r.alert)
  BY <1>1, <1>2 DEF WorldInv, Recorded
<1>6. Recorded'
  <2>1. \A p \in Processes : at'[p] \in {"notify", "failed"} => Seen(job'[p].alert)
    BY <1>2 DEF WorldInv, Recorded
  <2>2. \A v \in Pages : deleting'[v] # Idle => Seen(deleting'[v].record.alert)
    BY <1>2, <1>5 DEF WorldInv, Recorded
  <2>3. \A a \in Alerts : discarded'[a] # {} => Seen(a)
    BY <1>2, <1>5 DEF WorldInv, Recorded, TypeOK
  <2> QED
    BY <1>2, <1>4, <2>1, <2>2, <2>3 DEF Recorded, Seen, RecordsOf
<1>7. Unraised'
  <2>1. \A a \in Alerts \ raised : files'[a] = files[a] /\ objects'[a] = objects[a]
    BY <1>2, <1>3, <1>5 DEF WorldInv, Unraised, TypeOK
  <2> QED
    BY <1>2, <1>4, <2>1 DEF WorldInv, Unraised, Carried
<1>8. MediaKept'
  BY <1>2, <1>3 DEF WorldInv, MediaKept, TypeOK
<1> QED
  BY <1>6, <1>7, <1>8 DEF WorldInv

LEMMA HdelWorld ==
  ASSUME TypeOK, WorldInv, NEW u \in Pages, Hdel(u)
  PROVE  WorldInv'
<1>1. PICK b \in Alerts : b = deleting[u].record.alert
  BY HdelEffect
<1>2. /\ deleting[u] # Idle /\ deleting'[u] = Idle
      /\ \A v \in Pages \ {u} : deleting'[v] = deleting[v]
      /\ UNCHANGED <<raised, made, files, objects, discarded, queue, at, job>>
  BY HdelEffect DEF pipelineVars, procVars
<1>3. \A a \in Alerts : (Seen(a) => Seen(a)') /\ (a # b => (Seen(a)' => Seen(a)))
  BY <1>1, HdelSeen
<1>4. Seen(b)
  BY <1>1, <1>2 DEF WorldInv, Recorded
<1>5. Recorded'
  <2>1. ASSUME NEW p \in Processes, at'[p] \in {"notify", "failed"} PROVE Seen(job[p].alert)'
    <3>1. job[p].alert \in Alerts /\ Seen(job[p].alert)
      BY <1>2, <2>1, Working DEF WorldInv, Recorded
    <3>2. PICK c \in Alerts : c = job'[p].alert /\ Seen(c)'
      BY <1>2, <1>3, <3>1
    <3> QED
      BY <3>2
  <2>2. ASSUME NEW v \in Pages, deleting'[v] # Idle PROVE Seen(deleting[v].record.alert)'
    <3>1. v # u /\ deleting[v].record.alert \in Alerts /\ Seen(deleting[v].record.alert)
      BY <1>2, <2>2, Reading DEF WorldInv, Recorded
    <3>2. PICK c \in Alerts : c = deleting'[v].record.alert /\ Seen(c)'
      BY <1>2, <1>3, <3>1
    <3> QED
      BY <3>2
  <2>3. \A a \in Alerts : discarded'[a] # {} => Seen(a)'
    BY <1>2, <1>3 DEF WorldInv, Recorded
  <2> QED
    BY <2>1, <2>2, <2>3 DEF Recorded
<1>6. Unraised'
  BY <1>2, <1>3, <1>4 DEF WorldInv, Unraised, Carried
<1>7. MediaKept'
  BY <1>2 DEF WorldInv, MediaKept
<1> QED
  BY <1>5, <1>6, <1>7 DEF WorldInv

LEMMA WorldInit == Init => WorldInv
<1> SUFFICES ASSUME Init PROVE WorldInv
  OBVIOUS
<1>1. ~ \E i \in 1..Len(queue) : TRUE
  BY DEF Init
<1>2. \A a \in Alerts : ~Seen(a) /\ ~Carried(a)
  BY <1>1 DEF Init, Seen, RecordsOf, Carried, NoJob
<1> QED
  BY <1>2 DEF Init, WorldInv, Recorded, Unraised, MediaKept

LEMMA WorldStep == TypeOK /\ WorldInv /\ [Next]_vars => WorldInv'
<1> SUFFICES ASSUME TypeOK, WorldInv, [Next]_vars PROVE WorldInv'
  OBVIOUS
<1>1. CASE UNCHANGED vars
  <2>1. UNCHANGED <<raised, made, files, objects, queue, records, removed, discarded, at, job, deleting>>
    BY <1>1 DEF vars, worldVars, procVars, removalVars
  <2> QED
    BY <2>1 DEF WorldInv, Recorded, Unraised, MediaKept, Seen, RecordsOf, Carried
<1>2. ASSUME NEW u \in Pages, PageStep(u) PROVE WorldInv'
  BY <1>2, ReadWorld, DiscardWorld, HdelWorld DEF PageStep
<1> QED
  BY <1>1, <1>2, StepCases, QuietWorld, RaiseWorld, StoreWorld, HsetWorld

(* The variables hold what the code keeps in them: a process at work has a  *)
(* job for an alert, counters are numbers, a request holds a record.        *)
THEOREM Typed == Spec => []TypeOK
<1> QED
  BY TypeInit, TypeStep, PTL DEF Spec

\* The invariants that hold whatever fails.
LEMMA World == Spec => [](TypeOK /\ WorldInv)
<1> QED
  BY TypeInit, TypeStep, WorldInit, WorldStep, PTL DEF Spec

(* Picture and clip of an alert are on the disk or in the store until a     *)
(* request discards them with a record that names them: uploads that fail,  *)
(* jobs that two processes do, processes that die between upload and        *)
(* unlink, and deletions in between do not change that.                     *)
THEOREM MediaIsKept == Spec => []MediaKept
<1>1. WorldInv => MediaKept
  BY DEF WorldInv
<1> QED
  BY <1>1, World, PTL

-----------------------------------------------------------------------------
(* The refinement.  What a step may do to one alert: a record that goes is  *)
(* remembered, a first record comes from who carries the alert, nothing is  *)
(* carried or buried that was not.                                          *)
Orderly(a) ==
  /\ a \in raised => a \in raised'
  /\ a \notin raised /\ a \in raised' => ~Seen(a)' /\ Carried(a)'
  /\ removed[a] > 0 => removed'[a] > 0
  /\ Seen(a) => Seen(a)'
  /\ ~Seen(a) /\ Seen(a)' => Carried(a) /\ ~(removed'[a] > 0)
  /\ a \in raised /\ Carried(a)' => Carried(a)
  /\ Buried(a)' => Carried(a) \/ Buried(a)

\* An orderly step moves the fate of the alert as AlertLog allows.
LEMMA OrderlyMoves ==
  ASSUME NEW a \in Alerts, Orderly(a)
  PROVE  fate'[a] = fate[a] \/ <<fate[a], fate'[a]>> \in Log!Moves
<1> DEFINE Rec == RecordsOf(a) # {}
           Rem == removed[a] > 0
<1>1. fate[a] = IF a \notin raised THEN "none"
                ELSE IF Rec THEN "recorded" ELSE IF Rem THEN "removed"
                ELSE IF Carried(a) THEN "pending" ELSE IF Buried(a) THEN "dead" ELSE "lost"
  BY DEF fate
<1>2. fate'[a] = IF a \notin raised' THEN "none"
                 ELSE IF Rec' THEN "recorded" ELSE IF Rem' THEN "removed"
                 ELSE IF Carried(a)' THEN "pending" ELSE IF Buried(a)' THEN "dead" ELSE "lost"
  BY DEF fate
<1>3. (Seen(a) <=> Rec \/ Rem) /\ (Seen(a)' <=> Rec' \/ Rem')
  BY DEF Seen
<1>4. Rem' <=> removed'[a] > 0
  OBVIOUS
<1> HIDE DEF Rec, Rem
<1> QED
  BY <1>1, <1>2, <1>3, <1>4 DEF Orderly, Log!Moves

\* ... and the step is then one of AlertLog.
LEMMA MoveRefines ==
  ASSUME \A a \in Alerts : Orderly(a), UNCHANGED notified
  PROVE  Log!Next
<1>1. \A a \in Alerts : fate'[a] = fate[a] \/ <<fate[a], fate'[a]>> \in Log!Moves
  BY OrderlyMoves
<1>2. fate' \in [Alerts -> Log!Fates]
  BY DEF fate, Log!Fates
<1> QED
  BY <1>1, <1>2 DEF Log!Next, Log!Move

\* Steps that neither raise an alert nor touch a record.
LEMMA QuietOrderly ==
  ASSUME TypeOK, WorldInv, UNCHANGED <<raised, records, removed>>,
         \/ \E d \in Detectors : Enqueue(d)
         \/ \E w \in Workers : Pop(w) \/ Requeue(w)
         \/ \E p \in Processes : Store(p) \/ Save(p) \/ Notify(p) \/ Crash(p)
         \/ \E u \in Pages : PageStep(u),
         NEW a \in Alerts
  PROVE  Orderly(a)
<1>1. Carried(a)' => Carried(a)
  BY CarriedStep
<1>2. Seen(a)' <=> Seen(a)
  BY SeenSame
<1>3. Buried(a)' => Carried(a) \/ Buried(a)
  <2>1. CASE UNCHANGED dead
    BY <2>1 DEF Buried
  <2>2. ASSUME NEW w \in Workers, Requeue(w), NEW j \in AnyJobs, j.alert = job[w].alert,
               dead' = PushTrim(dead, j, MaxDead), Buried(a)'
        PROVE  Carried(a) \/ Buried(a)
    <3>1. Holds(dead', a) /\ dead \in Seq(AnyJobs)
      BY <2>2 DEF Buried, Holds, TypeOK
    <3>2. Holds(dead, a) \/ a = job[w].alert
      BY <2>2, <3>1, PushTrimHolds
    <3>3. Carried(job[w].alert)
      BY <2>2, RequeueEffect, CarriedJob
    <3> QED
      BY <3>2, <3>3 DEF Holds, Buried
  <2>3. UNCHANGED dead \/ \E w \in Workers : Requeue(w) /\ \E j \in AnyJobs :
          j.alert = job[w].alert /\ dead' = PushTrim(dead, j, MaxDead)
    BY EnqueueEffect, PopEffect, RequeueEffect, StoreEffect, SaveEffect, NotifyEffect, CrashEffect, PageFrame
  <2> QED
    BY <2>1, <2>2, <2>3
<1> QED
  BY <1>1, <1>2, <1>3 DEF Orderly

\* The steps that are not quiet.
LEMMA RaiseOrderly ==
  ASSUME TypeOK, WorldInv, UNCHANGED removalVars,
         NEW d \in Detectors, NEW b \in Alerts, Raise(d, b), NEW a \in Alerts
  PROVE  Orderly(a)
<1>1. /\ d \in Processes /\ b \notin raised /\ raised' = raised \cup {b}
      /\ Now(d, "enqueue", [alert |-> b, attempts |-> 0])
      /\ UNCHANGED <<queue, dead, records>>
  BY RaiseEffect
<1>2. Seen(a)' <=> Seen(a)
  BY <1>1, SeenSame DEF removalVars
<1>3. a \in raised /\ Carried(a)' => Carried(a)
  BY <1>1, CarriedNow, CarriedQueue
<1>4. Carried(b)'
  BY <1>1 DEF Carried, Now
<1>5. a \notin raised => ~Seen(a)
  BY DEF WorldInv, Unraised
<1> QED
  BY <1>1, <1>2, <1>3, <1>4, <1>5 DEF Orderly, Buried, removalVars

LEMMA HsetOrderly ==
  ASSUME TypeOK, WorldInv, UNCHANGED removalVars, NEW p \in Processes, Hset(p), NEW a \in Alerts
  PROVE  Orderly(a)
<1>1. Carried(a)' => Carried(a)
  BY CarriedStep
<1>2. (a = job[p].alert => Seen(a)') /\ (a # job[p].alert => (Seen(a)' <=> Seen(a)))
  BY HsetSeen
<1>3. Carried(job[p].alert) /\ UNCHANGED <<raised, dead, removed>>
  BY CarriedJob, HsetEffect DEF worldVars, removalVars
<1>4. ~Seen(a) => ~(removed[a] > 0)
  BY DEF Seen
<1>5. Seen(a) => Seen(a)'
  BY <1>2
<1> QED
  BY <1>1, <1>2, <1>3, <1>4, <1>5 DEF Orderly, Buried

LEMMA HdelOrderly ==
  ASSUME TypeOK, WorldInv, NEW u \in Pages, Hdel(u), NEW a \in Alerts
  PROVE  Orderly(a)
<1>1. PICK b \in Alerts : b = deleting[u].record.alert /\ Seen(b)
  BY HdelEffect DEF WorldInv, Recorded
<1>2. (Seen(a) => Seen(a)') /\ (a # b => (Seen(a)' => Seen(a)))
  BY <1>1, HdelSeen
<1>3. UNCHANGED <<raised, queue, dead, job>>
  BY HdelEffect DEF pipelineVars, procVars
<1>4. removed[a] > 0 => removed'[a] > 0
  <2>1. CASE UNCHANGED removed
    BY <2>1
  <2>2. ASSUME NEW same \in SUBSET RecordsOf(b), removed' = [removed EXCEPT ![b] = @ + Cardinality(same)]
        PROVE  removed[a] > 0 => removed'[a] > 0
    <3>1. Cardinality(same) \in Nat
      BY UsedFinite, FS_Subset, FS_CardinalityType
    <3> QED
      BY <2>2, <3>1 DEF TypeOK
  <2> QED
    BY <1>1, <2>1, <2>2, HdelEffect
<1> QED
  BY <1>1, <1>2, <1>3, <1>4 DEF Orderly, Carried, Buried

\* Mail goes out for an alert that has, or had, its record.
LEMMA NotifyRefines ==
  ASSUME TypeOK, WorldInv, UNCHANGED removalVars, NEW p \in Processes, Notify(p)
  PROVE  Log!Next
<1>1. PICK b \in Alerts : b = job[p].alert
  BY NotifyEffect
<1>2. UNCHANGED <<raised, queue, dead, records, removed>> /\ at[p] = "notify"
  BY NotifyEffect DEF worldVars, removalVars
<1>3. CASE UNCHANGED notified
  <2>1. \A a \in Alerts : Orderly(a)
    BY <1>2, QuietOrderly
  <2> QED
    BY <1>3, <2>1, MoveRefines
<1>4. CASE Now(p, "idle", NoJob) /\ notified' = notified \cup {b}
  <2>1. Seen(b) /\ b \in raised
    BY <1>1, <1>2, CarriedJob DEF WorldInv, Recorded, Unraised
  <2>2. fate[b] \in {"recorded", "removed"}
    BY <2>1 DEF fate, Seen
  <2>3. ASSUME NEW a \in Alerts PROVE fate'[a] = fate[a]
    <3>1. CASE a = b
      BY <1>2, <2>1, <3>1 DEF fate, Seen, RecordsOf
    <3>2. CASE a # b
      <4>1. Carried(a)' <=> Carried(a)
        BY <1>1, <1>2, <1>4, <3>2 DEF Carried, Now, NoJob
      <4> QED
        BY <1>2, <4>1 DEF fate, RecordsOf, Buried
    <3> QED
      BY <3>1, <3>2
  <2>4. UNCHANGED fate
    BY <2>3 DEF fate
  <2> QED
    BY <1>4, <2>2, <2>4 DEF Log!Next, Log!Notify
<1> QED
  BY <1>1, <1>3, <1>4, NotifyEffect

\* A step of the pipeline is one of AlertLog.
LEMMA LogStep ==
  ASSUME TypeOK, WorldInv, [Next]_vars
  PROVE  [Log!Next]_<<fate, notified>>
<1>1. CASE UNCHANGED vars
  BY <1>1 DEF vars, worldVars, procVars, removalVars, fate, RecordsOf, Carried, Buried
<1>2. ASSUME NEW u \in Pages, PageStep(u) PROVE Log!Next
  <2>1. UNCHANGED <<raised, notified>>
    BY <1>2, PageFrame
  <2>2. CASE Hdel(u)
    BY <2>1, <2>2, HdelOrderly, MoveRefines
  <2>3. CASE UNCHANGED <<records, removed>>
    <3>1. \A a \in Alerts : Orderly(a)
      BY <1>2, <2>1, <2>3, QuietOrderly
    <3> QED
      BY <2>1, <3>1, MoveRefines
  <2> QED
    BY <1>2, <2>2, <2>3 DEF PageStep, ReadRecord, Discard, PageCrash
<1>3. ASSUME UNCHANGED removalVars, NEW d \in Detectors, NEW a \in Alerts, Raise(d, a) PROVE Log!Next
  BY <1>3, RaiseOrderly, MoveRefines, RaiseEffect
<1>4. ASSUME UNCHANGED removalVars, NEW p \in Processes, Hset(p) PROVE Log!Next
  BY <1>4, HsetOrderly, MoveRefines, HsetEffect
<1>5. ASSUME UNCHANGED removalVars, NEW p \in Processes, Notify(p) PROVE Log!Next
  BY <1>5, NotifyRefines
<1>6. ASSUME UNCHANGED removalVars,
             \/ \E d \in Detectors : Enqueue(d)
             \/ \E w \in Workers : Pop(w) \/ Requeue(w)
             \/ \E p \in Processes : Store(p) \/ Save(p) \/ Crash(p)
      PROVE  Log!Next
  <2>1. UNCHANGED <<raised, records, removed, notified>>
    BY <1>6, EnqueueEffect, PopEffect, RequeueEffect, StoreEffect, SaveEffect, CrashEffect
       DEF worldVars, removalVars
  <2>2. \A a \in Alerts : Orderly(a)
    BY <1>6, <2>1, QuietOrderly
  <2> QED
    BY <2>1, <2>2, MoveRefines
<1> QED
  BY <1>1, <1>2, <1>3, <1>4, <1>5, <1>6, StepCases

(* Every step of the pipeline is a step of AlertLog or a stutter: the fate  *)
(* of an alert moves forward only, and nobody is told of an alert that was  *)
(* never recorded, even when an answer of Redis is lost and two processes   *)
(* do the same job.                                                         *)
THEOREM Implements == Spec => ImplementsLog
<1>1. Init => Log!Init
  BY DEF Init, fate, Log!Init
<1>2. TypeOK /\ WorldInv /\ [Next]_vars => [Log!Next]_<<fate, notified>>
  BY LogStep
<1> QED
  BY <1>1, <1>2, World, PTL DEF Spec, ImplementsLog, Log!Spec

-----------------------------------------------------------------------------
(* From here on Redis answers what it has done: when the answer to RPUSH is *)
(* lost the thread does the job as well, and the alert is on two ways.      *)
AnswersArrive == "reply" \notin Faults

\* An alert is on one way at most.
OneCarrier ==
  /\ Once(queue)
  /\ \A p \in Processes : at[p] # "idle" => ~Holds(queue, job[p].alert)
  /\ \A p, q \in Processes :
       at[p] # "idle" /\ at[q] # "idle" /\ job[p].alert = job[q].alert => p = q

\* One carrier, at first and after each step.
LEMMA CarrierInit == Init => OneCarrier
BY DEF Init, OneCarrier, Once

\* A process takes, keeps or drops its job.
LEMMA CarrierNow ==
  ASSUME TypeOK, OneCarrier, NEW p \in Processes, NEW where, NEW j, Now(p, where, j),
         Once(queue'),
         where # "idle" => ~Holds(queue', j.alert),
         \A q \in Processes \ {p} : at[q] # "idle" =>
           ~Holds(queue', job[q].alert) /\ (where # "idle" => job[q].alert # j.alert)
  PROVE  OneCarrier'
<1>1. \A q \in Processes : at'[q] # "idle" => ~Holds(queue', job'[q].alert)
  BY DEF Now
<1>2. ASSUME NEW q \in Processes, NEW r \in Processes,
             at'[q] # "idle", at'[r] # "idle", job'[q].alert = job'[r].alert
      PROVE  q = r
  <2>1. CASE q = p \/ r = p
    BY <1>2, <2>1 DEF Now
  <2>2. CASE q # p /\ r # p
    BY <1>2, <2>2 DEF Now, OneCarrier
  <2> QED
    BY <2>1, <2>2
<1> QED
  BY <1>1, <1>2 DEF OneCarrier, Once, Holds

LEMMA CarrierStep ==
  ASSUME AnswersArrive, TypeOK, WorldInv, OneCarrier, [Next]_vars
  PROVE  OneCarrier'
<1>1. CASE UNCHANGED vars
  BY <1>1 DEF vars, procVars, OneCarrier, Once, Holds
<1>2. ASSUME NEW u \in Pages, PageStep(u) PROVE OneCarrier'
  BY <1>2, PageFrame DEF OneCarrier, Once, Holds
<1>3. ASSUME NEW d \in Detectors, NEW a \in Alerts, Raise(d, a) PROVE OneCarrier'
  <2>1. /\ d \in Processes /\ a \notin raised /\ UNCHANGED queue
        /\ Now(d, "enqueue", [alert |-> a, attempts |-> 0])
    BY <1>3, RaiseEffect
  <2>2. ~Carried(a)
    BY <2>1 DEF WorldInv, Unraised
  <2>3. ~Holds(queue, a) /\ \A q \in Processes : job[q].alert # a
    BY <2>2, CarriedHolds
  <2> QED
    BY <2>1, <2>3, CarrierNow DEF OneCarrier
<1>4. ASSUME NEW d \in Detectors, Enqueue(d) PROVE OneCarrier'
  <2>1. /\ d \in Processes /\ at[d] = "enqueue" /\ job[d] \in AnyJobs
        /\ \/ Now(d, "idle", NoJob) /\ queue' = PushTrim(queue, job[d], MaxLen)
           \/ Now(d, "store", job[d]) /\ UNCHANGED queue
    BY <1>4, EnqueueEffect DEF AnswersArrive
  <2>2. CASE Now(d, "idle", NoJob) /\ queue' = PushTrim(queue, job[d], MaxLen)
    <3>1. /\ \A a : Holds(queue', a) => Holds(queue, a) \/ a = job[d].alert
          /\ Once(queue')
      BY <2>1, <2>2, PushTrimHolds DEF TypeOK, OneCarrier
    <3>2. \A q \in Processes \ {d} : at[q] # "idle" => ~Holds(queue', job[q].alert)
      BY <2>1, <3>1 DEF OneCarrier
    <3> QED
      BY <2>1, <2>2, <3>1, <3>2, CarrierNow
  <2>3. CASE Now(d, "store", job[d]) /\ UNCHANGED queue
    BY <2>1, <2>3, CarrierNow DEF OneCarrier
  <2> QED
    BY <2>1, <2>2, <2>3
<1>5. ASSUME NEW w \in Workers, Pop(w) PROVE OneCarrier'
  <2>1. /\ w \in Processes /\ queue # <<>> /\ Now(w, "store", Head(queue)) /\ queue' = Tail(queue)
    BY <1>5, PopEffect
  <2>2. /\ Holds(queue, Head(queue).alert) /\ Once(Tail(queue))
        /\ ~Holds(Tail(queue), Head(queue).alert)
        /\ \A a : Holds(Tail(queue), a) => Holds(queue, a)
    BY <2>1, TailHolds DEF TypeOK, OneCarrier
  <2>3. \A q \in Processes \ {w} : at[q] # "idle" =>
          ~Holds(Tail(queue), job[q].alert) /\ job[q].alert # Head(queue).alert
    BY <2>2 DEF OneCarrier
  <2> QED
    BY <2>1, <2>2, <2>3, CarrierNow
<1>6. ASSUME NEW w \in Workers, Requeue(w) PROVE OneCarrier'
  <2>1. /\ w \in Processes /\ at[w] = "failed" /\ Now(w, "idle", NoJob)
        /\ UNCHANGED queue \/ \E i \in AnyJobs : i.alert = job[w].alert /\ queue' = Append(queue, i)
    BY <1>6, RequeueEffect
  <2>2. CASE UNCHANGED queue
    BY <2>1, <2>2, CarrierNow DEF OneCarrier
  <2>3. ASSUME NEW i \in AnyJobs, i.alert = job[w].alert, queue' = Append(queue, i) PROVE OneCarrier'
    <3>1. /\ \A a : Holds(queue', a) => Holds(queue, a) \/ a = job[w].alert
          /\ Once(queue')
      BY <2>1, <2>3, AppendHolds DEF TypeOK, OneCarrier
    <3>2. \A q \in Processes \ {w} : at[q] # "idle" => ~Holds(queue', job[q].alert)
      BY <2>1, <3>1 DEF OneCarrier
    <3> QED
      BY <2>1, <3>1, <3>2, CarrierNow
  <2> QED
    BY <2>1, <2>2, <2>3
<1>7. ASSUME NEW p \in Processes, Store(p) \/ Save(p) \/ Hset(p) \/ Notify(p) \/ Crash(p)
      PROVE  OneCarrier'
  <2>1. /\ Now(p, "idle", NoJob) \/ (at[p] # "idle" /\ \E where : Now(p, where, job[p]))
        /\ UNCHANGED queue
    BY <1>7, StoreEffect, SaveEffect, HsetEffect, NotifyEffect, CrashEffect
  <2> QED
    BY <2>1, CarrierNow DEF OneCarrier
<1> QED
  BY <1>1, <1>2, <1>3, <1>4, <1>5, <1>6, <1>7, StepCases

-----------------------------------------------------------------------------
\* Records of an alert, deleted ones included, and whether one may yet come
\* from the pass that is under way.
Count(a) == Cardinality(RecordsOf(a)) + removed[a]
Ahead(a) ==
  \/ Holds(queue, a)
  \/ \E p \in Processes : at[p] \in {"enqueue", "store", "save", "hset"} /\ job[p].alert = a

Counted ==
  \A a \in Alerts : /\ Count(a) <= 1 + retries[a]
                    /\ Ahead(a) => Count(a) <= retries[a]

\* The count is a number, and 0 for an alert nobody has seen.
LEMMA CountType ==
  ASSUME TypeOK, NEW a \in Alerts
  PROVE  /\ Count(a) \in Nat /\ removed[a] \in Nat /\ retries[a] \in Nat
         /\ Count(a) = 0 <=> ~Seen(a)
<1>1. /\ IsFiniteSet(RecordsOf(a)) /\ Cardinality(RecordsOf(a)) \in Nat
      /\ Cardinality(RecordsOf(a)) = 0 <=> RecordsOf(a) = {}
  BY UsedFinite, FS_CardinalityType, FS_EmptySet
<1>2. removed[a] \in Nat /\ retries[a] \in Nat
  BY DEF TypeOK
<1> QED
  BY <1>1, <1>2 DEF Count, Seen

\* Before its record is written an alert whose job was not put back has none.
LEMMA AheadUnseen ==
  ASSUME TypeOK, Counted, NEW a \in Alerts, Ahead(a), retries[a] = 0
  PROVE  ~Seen(a)
BY CountType DEF Counted

\* Only a job that is put back comes from behind its record.
LEMMA AheadStep ==
  ASSUME TypeOK, WorldInv, NEW a \in Alerts, Ahead(a)',
         \/ \E d \in Detectors : Enqueue(d)
         \/ \E w \in Workers : Pop(w)
         \/ \E p \in Processes : Store(p) \/ Save(p) \/ Hset(p) \/ Notify(p) \/ Crash(p)
         \/ \E u \in Pages : PageStep(u)
  PROVE  Ahead(a)
<1> DEFINE Before == {"enqueue", "store", "save", "hset"}
<1>1. ASSUME NEW p \in Processes, NEW where, NEW j, Now(p, where, j),
             Holds(queue', a) => Ahead(a), where \in Before /\ j.alert = a => Ahead(a)
      PROVE  Ahead(a)
  BY <1>1 DEF Ahead, Now, Holds
<1>2. ASSUME NEW d \in Detectors, Enqueue(d) PROVE Ahead(a)
  <2>1. /\ d \in Processes /\ at[d] = "enqueue" /\ job[d] \in AnyJobs
        /\ Now(d, "idle", NoJob) \/ Now(d, "store", job[d])
        /\ queue' = PushTrim(queue, job[d], MaxLen) \/ UNCHANGED queue
    BY <1>2, EnqueueEffect
  <2>2. Holds(PushTrim(queue, job[d], MaxLen), a) => Holds(queue, a) \/ a = job[d].alert
    BY <2>1, PushTrimHolds DEF TypeOK
  <2>3. job[d].alert = a => Ahead(a)
    BY <2>1 DEF Ahead
  <2>4. Holds(queue', a) => Ahead(a)
    BY <2>1, <2>2, <2>3 DEF Ahead
  <2>5. "idle" \notin Before
    OBVIOUS
  <2> QED
    BY <1>1, <2>1, <2>3, <2>4, <2>5
<1>3. ASSUME NEW w \in Workers, Pop(w) PROVE Ahead(a)
  <2>1. w \in Processes /\ queue # <<>> /\ Now(w, "store", Head(queue)) /\ queue' = Tail(queue)
    BY <1>3, PopEffect
  <2>2. Holds(Tail(queue), a) \/ Head(queue).alert = a => Holds(queue, a)
    BY <2>1, TailHolds DEF TypeOK
  <2> QED
    BY <1>1, <2>1, <2>2 DEF Ahead
<1>4. ASSUME NEW p \in Processes, Store(p) \/ Save(p) \/ Hset(p) \/ Notify(p) \/ Crash(p)
      PROVE  Ahead(a)
  <2>1. /\ \/ \E j : \E where \in {"idle", "notify", "failed"} : Now(p, where, j)
           \/ at[p] \in Before /\ \E where : Now(p, where, job[p])
        /\ UNCHANGED queue
    BY <1>4, StoreEffect, SaveEffect, HsetEffect, NotifyEffect, CrashEffect
  <2>2. Holds(queue', a) => Ahead(a)
    BY <2>1 DEF Ahead
  <2>3. CASE \E j : \E where \in {"idle", "notify", "failed"} : Now(p, where, j)
    BY <1>1, <2>2, <2>3
  <2>4. CASE at[p] \in Before /\ \E where : Now(p, where, job[p])
    <3>1. job[p].alert = a => Ahead(a)
      BY <2>4 DEF Ahead
    <3> QED
      BY <1>1, <2>2, <2>4, <3>1
  <2> QED
    BY <2>1, <2>3, <2>4
<1>5. ASSUME NEW u \in Pages, PageStep(u) PROVE Ahead(a)
  BY <1>5, PageFrame DEF Ahead
<1> QED
  BY <1>2, <1>3, <1>4, <1>5

\* HSET records one alert at most once more; HDEL does not change the count.
LEMMA HsetCount ==
  ASSUME TypeOK, NEW p \in Processes, Hset(p), UNCHANGED removalVars, NEW a \in Alerts
  PROVE  /\ Count(a)' <= Count(a) + 1 /\ Count(a)' \in Nat
         /\ a # job[p].alert => Count(a)' = Count(a)
<1>1. /\ NewRecord(p).alert = job[p].alert /\ records' \subseteq records \cup {NewRecord(p)}
      /\ \A r \in records : r.alert # job[p].alert => r \in records'
      /\ UNCHANGED removed
  BY HsetEffect DEF removalVars
<1>7. IsFiniteSet(RecordsOf(a)) /\ Cardinality(RecordsOf(a)) \in Nat /\ removed[a] \in Nat
  BY UsedFinite, FS_CardinalityType DEF TypeOK
<1>8. /\ IsFiniteSet(RecordsOf(a) \cup {NewRecord(p)})
      /\ \/ Cardinality(RecordsOf(a) \cup {NewRecord(p)}) = Cardinality(RecordsOf(a))
         \/ Cardinality(RecordsOf(a) \cup {NewRecord(p)}) = Cardinality(RecordsOf(a)) + 1
  BY <1>7, FS_AddElement
<1>2. Cardinality(RecordsOf(a) \cup {NewRecord(p)}) <= Cardinality(RecordsOf(a)) + 1
  BY <1>7, <1>8
<1>3. RecordsOf(a)' \subseteq RecordsOf(a) \cup {NewRecord(p)}
  BY <1>1 DEF RecordsOf
<1>4. /\ Cardinality(RecordsOf(a)') <= Cardinality(RecordsOf(a) \cup {NewRecord(p)})
      /\ Cardinality(RecordsOf(a)') \in Nat
      /\ Cardinality(RecordsOf(a) \cup {NewRecord(p)}) \in Nat
  BY <1>3, <1>8, FS_Subset, FS_CardinalityType
<1>5. Cardinality(RecordsOf(a)') <= Cardinality(RecordsOf(a)) + 1
  BY <1>2, <1>4, <1>7
<1>6. a # job[p].alert => RecordsOf(a)' = RecordsOf(a)
  BY <1>1 DEF RecordsOf
<1> QED
  BY <1>1, <1>4, <1>5, <1>6, <1>7 DEF Count

LEMMA HdelCount ==
  ASSUME TypeOK, NEW u \in Pages, Hdel(u), NEW a \in Alerts
  PROVE  Count(a)' = Count(a)
<1>1. PICK b \in Alerts : b = deleting[u].record.alert
  BY HdelEffect
<1>2. CASE UNCHANGED <<records, removed>>
  BY <1>2 DEF Count, RecordsOf
<1>3. ASSUME NEW same \in SUBSET RecordsOf(b), records' = records \ same,
             removed' = [removed EXCEPT ![b] = @ + Cardinality(same)]
      PROVE  Count(a)' = Count(a)
  <2>1. CASE a = b
    <3>1. RecordsOf(a)' = RecordsOf(a) \ same
      BY <1>3 DEF RecordsOf
    <3>2. RecordsOf(a) \cap same = same
      BY <1>3, <2>1
    <3>3. /\ IsFiniteSet(RecordsOf(a)) /\ Cardinality(RecordsOf(a)) \in Nat
          /\ IsFiniteSet(same) /\ Cardinality(same) \in Nat
      BY <2>1, UsedFinite, FS_Subset, FS_CardinalityType
    <3>4. Cardinality(RecordsOf(a)') = Cardinality(RecordsOf(a)) - Cardinality(same)
      BY <3>1, <3>2, <3>3, FS_Difference
    <3>5. removed[a] \in Nat /\ removed'[a] = removed[a] + Cardinality(same)
      BY <1>3, <2>1 DEF TypeOK
    <3> QED
      BY <3>3, <3>4, <3>5 DEF Count
  <2>2. CASE a # b
    <3>1. RecordsOf(a)' = RecordsOf(a) /\ removed'[a] = removed[a]
      BY <1>3, <2>2 DEF RecordsOf, TypeOK
    <3> QED
      BY <3>1 DEF Count
  <2> QED
    BY <2>1, <2>2
<1> QED
  BY <1>1, <1>2, <1>3, HdelEffect

\* What was recorded never runs ahead of the passes.
LEMMA CountedInit == Init => Counted
<1> SUFFICES ASSUME Init, NEW a \in Alerts PROVE Count(a) = 0 /\ retries[a] = 0
  BY DEF Counted
<1>1. RecordsOf(a) = {} /\ removed[a] = 0 /\ retries[a] = 0
  BY DEF Init, RecordsOf
<1> QED
  BY <1>1, FS_EmptySet DEF Count

LEMMA CountedStep ==
  ASSUME TypeOK, WorldInv, OneCarrier, OneCarrier', Counted, [Next]_vars
  PROVE  Counted'
<1> SUFFICES ASSUME NEW a \in Alerts
             PROVE  Count(a)' <= 1 + retries'[a] /\ (Ahead(a)' => Count(a)' <= retries'[a])
  BY DEF Counted
<1>1. /\ Count(a) \in Nat /\ retries[a] \in Nat /\ (Count(a) = 0 <=> ~Seen(a))
      /\ Count(a) <= 1 + retries[a] /\ (Ahead(a) => Count(a) <= retries[a])
  BY CountType DEF Counted
<1> DEFINE Goal == Count(a)' <= 1 + retries'[a] /\ (Ahead(a)' => Count(a)' <= retries'[a])
<1>2. ASSUME Count(a)' = Count(a), retries'[a] = retries[a], Ahead(a)' => Ahead(a) PROVE Goal
  BY <1>1, <1>2
<1> HIDE DEF Goal
<1>3. UNCHANGED <<records, removed>> => Count(a)' = Count(a)
  BY DEF Count, RecordsOf
<1>4. CASE UNCHANGED vars
  <2>1. UNCHANGED <<records, removed, retries, queue, at, job>>
    BY <1>4 DEF vars, procVars, removalVars
  <2>2. Ahead(a)' => Ahead(a)
    BY <2>1 DEF Ahead, Holds
  <2>3. Count(a)' = Count(a)
    BY <1>3, <2>1
  <2>4. retries'[a] = retries[a]
    BY <2>1
  <2> QED
    BY <1>2, <2>2, <2>3, <2>4 DEF Goal
<1>5. ASSUME NEW u \in Pages, PageStep(u) PROVE Goal
  <2>1. Ahead(a)' => Ahead(a)
    BY <1>5, AheadStep
  <2>2. Count(a)' = Count(a)
    BY <1>3, <1>5, HdelCount DEF PageStep, ReadRecord, Discard, PageCrash
  <2> QED
    BY <1>2, <1>5, <2>1, <2>2, PageFrame
<1>6. ASSUME NEW d \in Detectors, NEW b \in Alerts, Raise(d, b), UNCHANGED removalVars PROVE Goal
  <2>1. /\ d \in Processes /\ b \notin raised /\ UNCHANGED <<queue, records, retries>>
        /\ Now(d, "enqueue", [alert |-> b, attempts |-> 0])
    BY <1>6, RaiseEffect
  <2>2. Count(a)' = Count(a) /\ retries'[a] = retries[a]
    BY <1>3, <1>6, <2>1 DEF removalVars
  <2>3. CASE a = b
    <3>1. Count(a) = 0
      BY <1>1, <2>1, <2>3 DEF WorldInv, Unraised
    <3> QED
      BY <1>1, <2>2, <3>1 DEF Goal
  <2>4. CASE a # b
    <3>1. Ahead(a)' => Ahead(a)
      BY <2>1, <2>4 DEF Ahead, Now, Holds
    <3> QED
      BY <1>2, <2>2, <3>1
  <2> QED
    BY <2>3, <2>4
<1>7. ASSUME NEW w \in Workers, Requeue(w), UNCHANGED removalVars PROVE Goal
  <2>1. /\ w \in Processes /\ Now(w, "idle", NoJob) /\ job[w].alert \in Alerts
        /\ UNCHANGED records
        /\ \/ UNCHANGED <<queue, retries>>
           \/ /\ retries' = [retries EXCEPT ![job[w].alert] = @ + 1]
              /\ \E j \in AnyJobs : j.alert = job[w].alert /\ (UNCHANGED queue \/ queue' = Append(queue, j))
    BY <1>7, RequeueEffect
  <2>2. Count(a)' = Count(a)
    BY <1>3, <1>7, <2>1 DEF removalVars
  <2>3. CASE UNCHANGED <<queue, retries>>
    <3>1. Ahead(a)' => Ahead(a)
      BY <2>1, <2>3 DEF Ahead, Now, Holds
    <3> QED
      BY <1>2, <2>2, <2>3, <3>1
  <2>4. ASSUME retries' = [retries EXCEPT ![job[w].alert] = @ + 1],
               NEW j \in AnyJobs, j.alert = job[w].alert, UNCHANGED queue \/ queue' = Append(queue, j)
        PROVE  Goal
    <3>1. CASE a = job[w].alert
      <4>1. retries'[a] = retries[a] + 1
        BY <2>4, <3>1 DEF TypeOK
      <4> QED
        BY <1>1, <2>2, <4>1 DEF Goal
    <3>2. CASE a # job[w].alert
      <4>1. retries'[a] = retries[a]
        BY <2>4, <3>2 DEF TypeOK
      <4>4. queue \in Seq(AnyJobs) /\ (Holds(Append(queue, j), a) => Holds(queue, a))
        BY <2>4, <3>2, AppendHolds DEF TypeOK
      <4>2. Holds(queue', a) => Holds(queue, a)
        BY <2>4, <4>4
      <4>3. Ahead(a)' => Ahead(a)
        BY <2>1, <4>2 DEF Ahead, Now, Holds
      <4> QED
        BY <1>2, <2>2, <4>1, <4>3
    <3> QED
      BY <3>1, <3>2
  <2> QED
    BY <2>1, <2>3, <2>4
<1>8. ASSUME NEW p \in Processes, Hset(p), UNCHANGED removalVars PROVE Goal
  <2>1. /\ at[p] = "hset" /\ Now(p, "notify", job[p]) /\ UNCHANGED <<queue, retries>>
    BY <1>8, HsetEffect
  <2>2. Count(a)' <= Count(a) + 1 /\ (a # job[p].alert => Count(a)' = Count(a))
    BY <1>8, HsetCount
  <2>3. CASE a = job[p].alert
    <3>1. Ahead(a)
      BY <2>1, <2>3 DEF Ahead
    <3>2. ~Ahead(a)'
      BY <2>1, <2>3 DEF Ahead, Now, OneCarrier, Holds
    <3>3. Count(a)' \in Nat
      BY <1>8, HsetCount
    <3> QED
      BY <1>1, <2>1, <2>2, <3>1, <3>2, <3>3 DEF Goal
  <2>4. CASE a # job[p].alert
    <3>1. Ahead(a)' => Ahead(a)
      BY <1>8, AheadStep
    <3> QED
      BY <1>2, <2>1, <2>2, <2>4, <3>1
  <2> QED
    BY <2>3, <2>4
<1>9. ASSUME UNCHANGED removalVars,
             \/ \E d \in Detectors : Enqueue(d)
             \/ \E w \in Workers : Pop(w)
             \/ \E p \in Processes : Store(p) \/ Save(p) \/ Notify(p) \/ Crash(p)
      PROVE  Goal
  <2>1. UNCHANGED <<records, retries>>
    BY <1>9, EnqueueEffect, PopEffect, StoreEffect, SaveEffect, NotifyEffect, CrashEffect
  <2>2. Ahead(a)' => Ahead(a)
    BY <1>9, AheadStep
  <2> QED
    BY <1>2, <1>3, <1>9, <2>1, <2>2 DEF removalVars
<1> QED
  BY <1>4, <1>5, <1>6, <1>7, <1>8, <1>9, StepCases DEF Goal

\* The counting invariant, with what it rests on.
LEMMA CountingInv == ASSUME AnswersArrive PROVE Spec => [](TypeOK /\ WorldInv /\ OneCarrier /\ Counted)
<1>1. Init => OneCarrier /\ Counted
  BY CarrierInit, CountedInit
<1>2. TypeOK /\ WorldInv /\ OneCarrier /\ Counted /\ [Next]_vars => OneCarrier' /\ Counted'
  BY CarrierStep, CountedStep
<1> QED
  BY <1>1, <1>2, World, PTL DEF Spec

(* An alert is recorded at most once for its first pass and once for each   *)
(* time its job was put back, deleted records included: no interleaving of  *)
(* detection thread, workers and requests, no crash and no failed call of   *)
(* Redis doubles a record.                                                  *)
THEOREM RecordedOncePerAttempt == ASSUME AnswersArrive PROVE Spec => []OneRecordPerAttempt
<1>1. Counted => OneRecordPerAttempt
  BY DEF Counted, Count, OneRecordPerAttempt
<1> QED
  BY <1>1, CountingInv, PTL

-----------------------------------------------------------------------------
(* Where picture and clip of an alert are, as long as its job was not put   *)
(* back: on the disk until its one pass stores them, in the store as that   *)
(* pass remembers, where its record shows them, and nowhere once a person   *)
(* has deleted them.                                                        *)
Untouched(a) ==
  \/ Holds(queue, a)
  \/ \E p \in Processes : at[p] \in {"enqueue", "store"} /\ job[p].alert = a

Waiting ==
  \A a \in Alerts : retries[a] = 0 /\ Untouched(a) => files[a] = made[a] /\ objects[a] = {}

Moved ==
  \A p \in Processes, a \in Alerts :
    at[p] \in {"save", "hset"} /\ job[p].alert = a /\ retries[a] = 0 =>
      /\ stored[p] = objects[a] /\ stored[p] \subseteq made[a]
      /\ files[a] = IF KeepLocal THEN made[a] ELSE made[a] \ stored[p]

\* A record, or one that a request has read.
Known(r) == r \in records \/ \E u \in Pages : deleting[u] # Idle /\ deleting[u].record = r

Shows(r) ==
  LET a == r.alert IN
  /\ r.objects \cup r.paths = made[a]
  /\ r.objects \subseteq objects[a] \cup discarded[a] /\ r.paths \subseteq files[a] \cup discarded[a]
  /\ objects[a] \subseteq r.objects /\ files[a] \subseteq r.paths

Shown == \A r \in Records : Known(r) /\ retries[r.alert] = 0 => Shows(r)

\* A request has discarded what the record of the alert names.
Cleared(a) ==
  \/ removed[a] > 0
  \/ \E u \in Pages : deleting[u] # Idle /\ deleting[u].step = "hdel" /\ deleting[u].record.alert = a

Gone ==
  \A a \in Alerts : Cleared(a) /\ retries[a] = 0 => files[a] = {} /\ objects[a] \subseteq refused[a]

PlaceInv == Waiting /\ Moved /\ Shown /\ Gone

\* Everything that the steps below rest on.
Base == TypeOK /\ WorldInv /\ OneCarrier /\ Counted

\* What a request has read or cleared was recorded.
LEMMA KnownSeen ==
  ASSUME Base, NEW r \in Records, Known(r)
  PROVE  r.alert \in Alerts /\ Seen(r.alert)
<1>1. r.alert \in Alerts
  BY DEF Records
<1>2. CASE r \in records
  BY <1>1, <1>2 DEF Seen, RecordsOf
<1>3. CASE r \notin records
  BY <1>1, <1>3 DEF Known, Base, WorldInv, Recorded
<1> QED
  BY <1>1, <1>2, <1>3

LEMMA ClearedSeen ==
  ASSUME Base, NEW a \in Alerts, Cleared(a)
  PROVE  Seen(a)
BY DEF Cleared, Seen, Base, WorldInv, Recorded

\* PlaceInv, at first and step by step.
LEMMA PlaceInit == Init => PlaceInv
<1> SUFFICES ASSUME Init PROVE PlaceInv
  OBVIOUS
<1>1. \A a \in Alerts : ~Untouched(a) /\ ~Cleared(a)
  BY DEF Init, Untouched, Cleared, Holds
<1>2. \A r : ~Known(r)
  BY DEF Init, Known
<1> QED
  BY <1>1, <1>2 DEF Init, PlaceInv, Waiting, Moved, Shown, Gone

\* Steps that move no picture, write no record and delete nothing.
LEMMA QuietPlace ==
  ASSUME PlaceInv, UNCHANGED <<worldVars, records, removalVars>>,
         \A a \in Alerts : retries'[a] = 0 => retries[a] = 0 /\ (Untouched(a)' => Untouched(a)),
         \A p \in Processes : at'[p] \in {"save", "hset"} =>
           at[p] \in {"save", "hset"} /\ job'[p] = job[p] /\ stored'[p] = stored[p]
  PROVE  PlaceInv'
<1> USE DEF PlaceInv, worldVars, removalVars
<1>1. Waiting'
  BY DEF Waiting
<1>2. Moved'
  <2>1. ASSUME NEW p \in Processes, NEW a \in Alerts,
               at'[p] \in {"save", "hset"}, job'[p].alert = a, retries'[a] = 0
        PROVE  /\ stored'[p] = objects'[a] /\ stored'[p] \subseteq made'[a]
               /\ files'[a] = IF KeepLocal THEN made'[a] ELSE made'[a] \ stored'[p]
    <3>1. at[p] \in {"save", "hset"} /\ job[p].alert = a /\ retries[a] = 0 /\ stored'[p] = stored[p]
      BY <2>1
    <3>2. objects' = objects /\ made' = made /\ files' = files
      OBVIOUS
    <3>3. /\ stored[p] = objects[a] /\ stored[p] \subseteq made[a]
          /\ files[a] = IF KeepLocal THEN made[a] ELSE made[a] \ stored[p]
      BY <3>1 DEF Moved
    <3> QED
      BY <3>1, <3>2, <3>3
  <2> QED
    BY <2>1 DEF Moved
<1>3. Shown'
  <2>1. \A r \in Records : r.alert \in Alerts
    BY DEF Records
  <2>2. \A r : (Known(r)' <=> Known(r)) /\ (Shows(r)' <=> Shows(r))
    BY DEF Known, Shows
  <2> QED
    BY <2>1, <2>2 DEF Shown
<1>4. Gone'
  BY DEF Gone, Cleared
<1> QED
  BY <1>1, <1>2, <1>3, <1>4

\* The steps that change nothing but who carries the alert.
LEMMA QuietStepPlace ==
  ASSUME Base, PlaceInv, UNCHANGED removalVars,
         \/ \E d \in Detectors : Enqueue(d)
         \/ \E w \in Workers : Pop(w) \/ Requeue(w)
         \/ \E p \in Processes : Save(p) \/ Notify(p) \/ Crash(p)
  PROVE  PlaceInv'
<1> USE DEF Base
<1>1. ASSUME NEW d \in Detectors, Enqueue(d) PROVE PlaceInv'
  <2>1. /\ d \in Processes /\ at[d] = "enqueue" /\ job[d] \in AnyJobs
        /\ Now(d, "idle", NoJob) \/ Now(d, "store", job[d])
        /\ queue' = PushTrim(queue, job[d], MaxLen) \/ UNCHANGED queue
        /\ UNCHANGED <<worldVars, records, retries>>
    BY <1>1, EnqueueEffect
  <2>2. \A a : Holds(PushTrim(queue, job[d], MaxLen), a) => Holds(queue, a) \/ a = job[d].alert
    BY <2>1, PushTrimHolds DEF TypeOK
  <2>4. Untouched(job[d].alert)
    BY <2>1 DEF Untouched
  <2>5. \A a : Holds(queue', a) => Untouched(a)
    BY <2>1, <2>2, <2>4 DEF Untouched
  <2>3. ASSUME NEW a, Untouched(a)' PROVE Untouched(a)
    <3>1. CASE Holds(queue, a)'
      BY <2>5, <3>1 DEF Holds
    <3>2. ASSUME NEW p \in Processes, at'[p] \in {"enqueue", "store"}, job'[p].alert = a
          PROVE  Untouched(a)
      BY <2>1, <2>4, <3>2 DEF Untouched, Now
    <3> QED
      BY <2>3, <3>1, <3>2 DEF Untouched
  <2> QED
    BY <2>1, <2>3, QuietPlace DEF Now
<1>2. ASSUME NEW w \in Workers, Pop(w) PROVE PlaceInv'
  <2>1. /\ w \in Processes /\ queue # <<>> /\ Now(w, "store", Head(queue)) /\ queue' = Tail(queue)
        /\ UNCHANGED <<worldVars, records, retries>>
    BY <1>2, PopEffect
  <2>2. \A a : Holds(Tail(queue), a) \/ Head(queue).alert = a => Holds(queue, a)
    BY <2>1, TailHolds DEF TypeOK
  <2>3. \A a : Untouched(a)' => Untouched(a)
    BY <2>1, <2>2 DEF Untouched, Now, Holds
  <2> QED
    BY <2>1, <2>3, QuietPlace DEF Now
<1>3. ASSUME NEW w \in Workers, Requeue(w) PROVE PlaceInv'
  <2>1. /\ w \in Processes /\ Now(w, "idle", NoJob) /\ UNCHANGED <<worldVars, records>>
        /\ \/ UNCHANGED <<queue, retries>>
           \/ /\ retries' = [retries EXCEPT ![job[w].alert] = @ + 1]
              /\ \E j \in AnyJobs : j.alert = job[w].alert /\ (UNCHANGED queue \/ queue' = Append(queue, j))
    BY <1>3, RequeueEffect
  <2>2. ASSUME NEW a \in Alerts, retries'[a] = 0
        PROVE  retries[a] = 0 /\ (Holds(queue', a) => Holds(queue, a))
    <3>1. CASE UNCHANGED <<queue, retries>>
      BY <2>2, <3>1
    <3>2. ASSUME retries' = [retries EXCEPT ![job[w].alert] = @ + 1],
                 NEW j \in AnyJobs, j.alert = job[w].alert, UNCHANGED queue \/ queue' = Append(queue, j)
          PROVE  retries[a] = 0 /\ (Holds(queue', a) => Holds(queue, a))
      <4>1. retries[a] = 0 /\ a # job[w].alert
        BY <2>2, <3>2 DEF TypeOK
      <4>2. queue \in Seq(AnyJobs) /\ (Holds(Append(queue, j), a) => Holds(queue, a))
        BY <3>2, <4>1, AppendHolds DEF TypeOK
      <4> QED
        BY <3>2, <4>1, <4>2
    <3> QED
      BY <2>1, <3>1, <3>2
  <2>3. \A a \in Alerts : retries'[a] = 0 => retries[a] = 0 /\ (Untouched(a)' => Untouched(a))
    BY <2>1, <2>2 DEF Untouched, Now, Holds
  <2> QED
    BY <2>1, <2>3, QuietPlace DEF Now
<1>4. ASSUME NEW p \in Processes, Save(p) \/ Notify(p) \/ Crash(p) PROVE PlaceInv'
  <2>1. /\ \/ Now(p, "idle", NoJob) \/ Now(p, "failed", job[p])
           \/ at[p] = "save" /\ Now(p, "hset", job[p]) /\ UNCHANGED stored
        /\ UNCHANGED <<worldVars, records, retries, queue>>
    BY <1>4, SaveEffect, NotifyEffect, CrashEffect
  <2>2. \A a : Untouched(a)' => Untouched(a)
    BY <2>1 DEF Untouched, Now, Holds
  <2> QED
    BY <2>1, <2>2, QuietPlace DEF Now
<1> QED
  BY <1>1, <1>2, <1>3, <1>4

\* Steps that change where the media of one alert is, which no record shows
\* and no request has cleared.
LEMMA OneAlert ==
  ASSUME Base, PlaceInv, NEW b \in Alerts, ~Seen(b),
         UNCHANGED <<records, removalVars, retries>>,
         \A a \in Alerts \ {b} : /\ made'[a] = made[a] /\ files'[a] = files[a] /\ objects'[a] = objects[a]
                                 /\ Untouched(a)' => Untouched(a),
         \A p \in Processes : at'[p] \in {"save", "hset"} /\ job'[p].alert # b =>
           at[p] \in {"save", "hset"} /\ job'[p] = job[p] /\ stored'[p] = stored[p],
         retries[b] = 0 /\ Untouched(b)' => files'[b] = made'[b] /\ objects'[b] = {},
         \A p \in Processes : at'[p] \in {"save", "hset"} /\ job'[p].alert = b /\ retries[b] = 0 =>
           /\ stored'[p] = objects'[b] /\ stored'[p] \subseteq made'[b]
           /\ files'[b] = IF KeepLocal THEN made'[b] ELSE made'[b] \ stored'[p]
  PROVE  PlaceInv'
<1>1. Waiting'
  BY DEF PlaceInv, Waiting
<1>2. Moved'
  <2>1. ASSUME NEW p \in Processes, NEW a \in Alerts,
               at'[p] \in {"save", "hset"}, job'[p].alert = a, retries'[a] = 0
        PROVE  /\ stored'[p] = objects'[a] /\ stored'[p] \subseteq made'[a]
               /\ files'[a] = IF KeepLocal THEN made'[a] ELSE made'[a] \ stored'[p]
    <3>1. CASE a = b
      BY <2>1, <3>1
    <3>2. CASE a # b
      <4>1. at[p] \in {"save", "hset"} /\ job[p].alert = a /\ retries[a] = 0 /\ stored'[p] = stored[p]
        BY <2>1, <3>2
      <4>2. /\ stored[p] = objects[a] /\ stored[p] \subseteq made[a]
            /\ files[a] = IF KeepLocal THEN made[a] ELSE made[a] \ stored[p]
        BY <4>1 DEF PlaceInv, Moved
      <4> QED
        BY <3>2, <4>1, <4>2
    <3> QED
      BY <3>1, <3>2
  <2> QED
    BY <2>1 DEF Moved
<1>3. Shown'
  <2>1. ASSUME NEW r \in Records, Known(r)', retries'[r.alert] = 0 PROVE Shows(r)'
    <3>1. Known(r) /\ retries[r.alert] = 0
      BY <2>1 DEF Known, removalVars
    <3>2. r.alert \in Alerts \ {b} /\ Shows(r)
      BY <3>1, KnownSeen DEF PlaceInv, Shown
    <3> QED
      BY <3>2 DEF Shows, removalVars
  <2> QED
    BY <2>1 DEF Shown
<1>4. Gone'
  <2>1. ASSUME NEW a \in Alerts, Cleared(a)', retries'[a] = 0
        PROVE  files'[a] = {} /\ objects'[a] \subseteq refused'[a]
    <3>1. Cleared(a) /\ retries[a] = 0
      BY <2>1 DEF Cleared, removalVars
    <3>2. a # b
      BY <3>1, ClearedSeen
    <3> QED
      BY <3>1, <3>2 DEF PlaceInv, Gone, removalVars
  <2> QED
    BY <2>1 DEF Gone
<1> QED
  BY <1>1, <1>2, <1>3, <1>4 DEF PlaceInv

\* Raise and Store move the media of one alert.
LEMMA RaisePlace ==
  ASSUME Base, PlaceInv, UNCHANGED removalVars, NEW d \in Detectors, NEW b \in Alerts, Raise(d, b)
  PROVE  PlaceInv'
<1> USE DEF Base
<1>1. /\ d \in Processes /\ b \notin raised /\ at[d] = "idle"
      /\ Now(d, "enqueue", [alert |-> b, attempts |-> 0])
      /\ UNCHANGED <<objects, queue, records, retries>>
  BY RaiseEffect
<1>2. PICK m \in SUBSET Media : made' = [made EXCEPT ![b] = m] /\ files' = [files EXCEPT ![b] = m]
  BY RaiseEffect
<1>3. ~Seen(b) /\ ~Carried(b) /\ objects[b] = {}
  BY <1>1 DEF WorldInv, Unraised
<1>4. ASSUME NEW a \in Alerts \ {b}
      PROVE  /\ made'[a] = made[a] /\ files'[a] = files[a] /\ objects'[a] = objects[a]
             /\ Untouched(a)' => Untouched(a)
  <2>1. made'[a] = made[a] /\ files'[a] = files[a] /\ objects'[a] = objects[a]
    BY <1>1, <1>2 DEF TypeOK
  <2>2. \A q \in Processes : job'[q].alert = a => at'[q] = at[q] /\ job'[q] = job[q]
    BY <1>1 DEF Now
  <2>3. Untouched(a)' => Untouched(a)
    BY <1>1, <2>2 DEF Untouched, Holds
  <2> QED
    BY <2>1, <2>3
<1>5. files'[b] = made'[b] /\ objects'[b] = {}
  BY <1>1, <1>2, <1>3 DEF TypeOK
<1>6. \A p \in Processes : at'[p] \in {"save", "hset"} =>
        at[p] \in {"save", "hset"} /\ job'[p] = job[p] /\ stored'[p] = stored[p] /\ job[p].alert # b
  BY <1>1, <1>3, CarriedHolds DEF Now
<1>7. \A p \in Processes : ~(at'[p] \in {"save", "hset"} /\ job'[p].alert = b)
  BY <1>6
<1> QED
  BY <1>1, <1>3, <1>4, <1>5, <1>6, <1>7, OneAlert

LEMMA StorePlace ==
  ASSUME Base, PlaceInv, UNCHANGED removalVars, NEW p \in Processes, Store(p)
  PROVE  PlaceInv'
<1> USE DEF Base
<1>1. PICK b \in Alerts : b = job[p].alert
  BY StoreEffect
<1>2. /\ at[p] = "store" /\ Now(p, "save", job[p])
      /\ UNCHANGED <<made, queue, records, retries>>
  BY StoreEffect
<1>3. PICK up \in SUBSET files[b] :
        /\ objects' = [objects EXCEPT ![b] = @ \cup up]
        /\ files' = [files EXCEPT ![b] = IF KeepLocal THEN @ ELSE @ \ up]
        /\ stored'[p] = up
  BY <1>1, StoreEffect
<1>4. Ahead(b) /\ Untouched(b)
  BY <1>1, <1>2 DEF Ahead, Untouched
<1>5. \A a \in Alerts \ {b} : /\ files'[a] = files[a] /\ objects'[a] = objects[a]
                              /\ Untouched(a)' => Untouched(a)
  BY <1>1, <1>2, <1>3 DEF TypeOK, Untouched, Now, Holds
<1>6. \A q \in Processes : at'[q] \in {"save", "hset"} /\ q # p =>
        /\ at[q] \in {"save", "hset"} /\ job'[q] = job[q] /\ stored'[q] = stored[q]
        /\ job[q].alert # b
  BY <1>1, <1>2 DEF Now, OneCarrier
<1>7. job'[p].alert = b
  BY <1>1, <1>2 DEF Now
<1>8. CASE retries[b] = 0
  <2>1. ~Seen(b) /\ files[b] = made[b] /\ objects[b] = {}
    BY <1>4, <1>8, AheadUnseen DEF PlaceInv, Waiting
  <2>2. ~Untouched(b)'
    BY <1>1, <1>2 DEF Untouched, Now, OneCarrier, Holds
  <2>3. /\ stored'[p] = objects'[b] /\ stored'[p] \subseteq made'[b]
        /\ files'[b] = IF KeepLocal THEN made'[b] ELSE made'[b] \ stored'[p]
    BY <1>2, <1>3, <2>1 DEF TypeOK
  <2>4. \A a \in Alerts \ {b} : /\ made'[a] = made[a] /\ files'[a] = files[a] /\ objects'[a] = objects[a]
                                /\ Untouched(a)' => Untouched(a)
    BY <1>2, <1>5
  <2>5. \A q \in Processes : at'[q] \in {"save", "hset"} /\ job'[q].alert # b =>
          at[q] \in {"save", "hset"} /\ job'[q] = job[q] /\ stored'[q] = stored[q]
    BY <1>6, <1>7
  <2>6. \A q \in Processes : at'[q] \in {"save", "hset"} /\ job'[q].alert = b /\ retries[b] = 0 =>
          /\ stored'[q] = objects'[b] /\ stored'[q] \subseteq made'[b]
          /\ files'[b] = IF KeepLocal THEN made'[b] ELSE made'[b] \ stored'[q]
    <3>1. \A q \in Processes : at'[q] \in {"save", "hset"} /\ job'[q].alert = b => q = p
      BY <1>6
    <3> QED
      BY <2>3, <3>1
  <2>7. UNCHANGED <<records, removalVars, retries>>
    BY <1>2
  <2> QED
    BY <2>1, <2>2, <2>4, <2>5, <2>6, <2>7, OneAlert
<1>9. CASE retries[b] # 0
  <2>1. Waiting'
    BY <1>2, <1>5, <1>9 DEF PlaceInv, Waiting
  <2>2. Moved'
    <3>1. ASSUME NEW q \in Processes, NEW a \in Alerts,
                 at'[q] \in {"save", "hset"}, job'[q].alert = a, retries'[a] = 0
          PROVE  /\ stored'[q] = objects'[a] /\ stored'[q] \subseteq made'[a]
                 /\ files'[a] = IF KeepLocal THEN made'[a] ELSE made'[a] \ stored'[q]
      <4>1. a # b /\ q # p
        BY <1>2, <1>7, <1>9, <3>1
      <4>2. at[q] \in {"save", "hset"} /\ job[q].alert = a /\ retries[a] = 0 /\ stored'[q] = stored[q]
        BY <1>2, <1>6, <3>1, <4>1
      <4>3. /\ stored[q] = objects[a] /\ stored[q] \subseteq made[a]
            /\ files[a] = IF KeepLocal THEN made[a] ELSE made[a] \ stored[q]
        BY <4>2 DEF PlaceInv, Moved
      <4> QED
        BY <1>2, <1>5, <4>1, <4>2, <4>3
    <3> QED
      BY <3>1 DEF Moved
  <2>3. Shown'
    <3>1. ASSUME NEW r \in Records, Known(r)', retries'[r.alert] = 0 PROVE Shows(r)'
      <4>1. Known(r) /\ retries[r.alert] = 0 /\ r.alert \in Alerts \ {b}
        BY <1>2, <1>9, <3>1 DEF Known, removalVars, Records
      <4>2. Shows(r)
        BY <4>1 DEF PlaceInv, Shown
      <4> QED
        BY <1>2, <1>5, <4>1, <4>2 DEF Shows, removalVars
    <3> QED
      BY <3>1 DEF Shown
  <2>4. Gone'
    BY <1>2, <1>5, <1>9 DEF PlaceInv, Gone, Cleared, removalVars
  <2> QED
    BY <2>1, <2>2, <2>3, <2>4 DEF PlaceInv
<1> QED
  BY <1>8, <1>9

\* The record that is written shows what the pass has stored.
LEMMA HsetPlace ==
  ASSUME Base, PlaceInv, UNCHANGED removalVars, NEW p \in Processes, Hset(p)
  PROVE  PlaceInv'
<1> USE DEF Base
<1>1. PICK b \in Alerts : b = job[p].alert
  BY HsetEffect
<1>2. /\ at[p] = "hset" /\ Now(p, "notify", job[p])
      /\ records' \subseteq records \cup {NewRecord(p)} /\ NewRecord(p).alert = b
      /\ UNCHANGED <<raised, made, files, objects, queue, stored, retries>>
  BY <1>1, HsetEffect DEF worldVars
<1>3. Waiting'
  <2>1. \A a : Untouched(a)' => Untouched(a)
    BY <1>2 DEF Untouched, Now, Holds
  <2> QED
    BY <1>2, <2>1 DEF PlaceInv, Waiting
<1>4. Moved'
  <2>1. \A q \in Processes : at'[q] \in {"save", "hset"} => at[q] \in {"save", "hset"} /\ job'[q] = job[q]
    BY <1>2 DEF Now
  <2> QED
    BY <1>2, <2>1 DEF PlaceInv, Moved
<1>5. Shown'
  <2>1. retries[b] = 0 => Shows(NewRecord(p))
    <3>1. retries[b] = 0 => /\ stored[p] = objects[b] /\ stored[p] \subseteq made[b]
                            /\ files[b] = IF KeepLocal THEN made[b] ELSE made[b] \ stored[p]
      BY <1>1, <1>2 DEF PlaceInv, Moved
    <3> QED
      BY <1>1, <3>1 DEF Shows, NewRecord
  <2>2. ASSUME NEW r \in Records, Known(r)', retries'[r.alert] = 0 PROVE Shows(r)
    <3>1. Known(r) \/ r = NewRecord(p)
      BY <1>2, <2>2 DEF Known, removalVars
    <3> QED
      BY <1>2, <2>1, <2>2, <3>1 DEF PlaceInv, Shown
  <2>3. \A r : Shows(r)' <=> Shows(r)
    BY <1>2 DEF Shows, removalVars
  <2> QED
    BY <2>2, <2>3 DEF Shown
<1>6. Gone'
  BY <1>2 DEF PlaceInv, Gone, Cleared, removalVars
<1> QED
  BY <1>3, <1>4, <1>5, <1>6 DEF PlaceInv

\* A request reads a record, or the web process is restarted under it.
LEMMA LookPlace ==
  ASSUME Base, PlaceInv, NEW u \in Pages,
         (\E r \in records : ReadRecord(u, r)) \/ PageCrash(u)
  PROVE  PlaceInv'
<1>1. UNCHANGED <<made, queue, at, job, stored, retries, files, objects, records, removed, discarded, refused>>
  BY DEF ReadRecord, PageCrash, pipelineVars, procVars
<1>2. \A v \in Pages : \/ deleting'[v] = deleting[v] \/ deleting'[v] = Idle
                       \/ deleting'[v].record \in records /\ deleting'[v].step = "discard"
  BY DEF ReadRecord, PageCrash, SetPage, Base, TypeOK
<1>3. Waiting' /\ Moved'
  <2>1. \A a : Untouched(a)' => Untouched(a)
    BY <1>1 DEF Untouched, Holds
  <2> QED
    BY <1>1, <2>1 DEF PlaceInv, Waiting, Moved
<1>4. Shown'
  <2>1. \A r : Known(r)' => Known(r)
    BY <1>1, <1>2 DEF Known
  <2>2. \A r : Shows(r)' <=> Shows(r)
    BY <1>1 DEF Shows
  <2> QED
    BY <1>1, <2>1, <2>2 DEF PlaceInv, Shown
<1>5. Gone'
  <2>1. \A a : Cleared(a)' => Cleared(a)
    BY <1>1, <1>2 DEF Cleared
  <2> QED
    BY <1>1, <2>1 DEF PlaceInv, Gone
<1> QED
  BY <1>3, <1>4, <1>5 DEF PlaceInv

\* What a request discards is all that there is of an alert with one pass.
LEMMA DiscardPlace ==
  ASSUME Base, PlaceInv, NEW u \in Pages, Discard(u)
  PROVE  PlaceInv'
<1> USE DEF Base
<1>1. PICK r \in Records : r = deleting[u].record
  BY Reading DEF Discard, AtPage
<1>2. PICK b \in Alerts : b = r.alert
  BY DEF Records
<1>3. /\ deleting[u] # Idle /\ deleting'[u].record = r
      /\ \A v \in Pages \ {u} : deleting'[v] = deleting[v]
      /\ UNCHANGED <<made, queue, at, job, stored, retries, records, removed>>
  BY <1>1, DiscardEffect DEF pipelineVars, procVars
<1>4. PICK stay \in SUBSET r.objects :
        /\ objects' = [objects EXCEPT ![b] = @ \ (r.objects \ stay)]
        /\ refused' = [refused EXCEPT ![b] = @ \cup stay]
  BY <1>1, <1>2, DiscardEffect
<1>5. /\ files' = [files EXCEPT ![b] = @ \ r.paths]
      /\ discarded' = [discarded EXCEPT ![b] = @ \cup r.objects \cup r.paths]
  BY <1>1, <1>2, DiscardEffect
<1>6. /\ objects'[b] = objects[b] \ (r.objects \ stay) /\ refused'[b] = refused[b] \cup stay
      /\ files'[b] = files[b] \ r.paths
      /\ discarded'[b] = discarded[b] \cup r.objects \cup r.paths
  BY <1>4, <1>5 DEF TypeOK
<1>7. ASSUME NEW a \in Alerts \ {b}
      PROVE  /\ objects'[a] = objects[a] /\ refused'[a] = refused[a]
             /\ files'[a] = files[a] /\ discarded'[a] = discarded[a]
  BY <1>4, <1>5 DEF TypeOK
<1>8. Seen(b) /\ Known(r)
  BY <1>1, <1>2, <1>3 DEF WorldInv, Recorded, Known
<1>9. retries[b] = 0 => ~Ahead(b)
  BY <1>8, AheadUnseen
<1>10. \A a : (Untouched(a)' => Untouched(a)) /\ (Untouched(a) => Ahead(a))
  BY <1>3 DEF Untouched, Ahead, Holds
<1>11. Waiting'
  <2>1. ASSUME NEW a \in Alerts, retries'[a] = 0, Untouched(a)'
        PROVE  files'[a] = made'[a] /\ objects'[a] = {}
    <3>1. a # b /\ Untouched(a) /\ retries[a] = 0
      BY <1>3, <1>9, <1>10, <2>1
    <3> QED
      BY <1>3, <1>7, <3>1 DEF PlaceInv, Waiting
  <2> QED
    BY <2>1 DEF Waiting
<1>12. Moved'
  <2>1. ASSUME NEW p \in Processes, NEW a \in Alerts,
               at'[p] \in {"save", "hset"}, job'[p].alert = a, retries'[a] = 0
        PROVE  /\ stored'[p] = objects'[a] /\ stored'[p] \subseteq made'[a]
               /\ files'[a] = IF KeepLocal THEN made'[a] ELSE made'[a] \ stored'[p]
    <3>1. at[p] \in {"save", "hset"} /\ job[p].alert = a /\ retries[a] = 0
      BY <1>3, <2>1
    <3>2. a # b
      BY <1>9, <3>1 DEF Ahead
    <3>3. /\ stored[p] = objects[a] /\ stored[p] \subseteq made[a]
          /\ files[a] = IF KeepLocal THEN made[a] ELSE made[a] \ stored[p]
      BY <3>1 DEF PlaceInv, Moved
    <3> QED
      BY <1>3, <1>7, <3>2, <3>3
  <2> QED
    BY <2>1 DEF Moved
<1>13. Shown'
  <2>1. ASSUME NEW x \in Records, Known(x)', retries'[x.alert] = 0 PROVE Shows(x)'
    <3>1. PICK a \in Alerts : a = x.alert
      BY DEF Records
    <3>2. Known(x) /\ retries[a] = 0
      BY <1>1, <1>3, <2>1, <3>1 DEF Known
    <3>3. Shows(x)
      BY <3>1, <3>2 DEF PlaceInv, Shown
    <3>4. CASE a # b
      BY <1>3, <1>7, <3>1, <3>3, <3>4 DEF Shows
    <3>5. CASE a = b
      BY <1>3, <1>6, <3>1, <3>3, <3>5 DEF Shows
    <3> QED
      BY <3>4, <3>5
  <2> QED
    BY <2>1 DEF Shown
<1>14. Gone'
  <2>1. ASSUME NEW a \in Alerts, Cleared(a)', retries'[a] = 0
        PROVE  files'[a] = {} /\ objects'[a] \subseteq refused'[a]
    <3>1. CASE a # b
      <4>1. Cleared(a) /\ retries[a] = 0
        BY <1>2, <1>3, <2>1, <3>1 DEF Cleared
      <4> QED
        BY <1>7, <3>1, <4>1 DEF PlaceInv, Gone
    <3>2. CASE a = b
      <4>1. Shows(r)
        BY <1>2, <1>3, <1>8, <2>1, <3>2 DEF PlaceInv, Shown
      <4>2. objects[b] \subseteq r.objects /\ files[b] \subseteq r.paths
        BY <1>2, <4>1 DEF Shows
      <4> QED
        BY <1>6, <3>2, <4>2
    <3> QED
      BY <3>1, <3>2
  <2> QED
    BY <2>1 DEF Gone
<1> QED
  BY <1>11, <1>12, <1>13, <1>14 DEF PlaceInv

\* HDEL only follows when everything the record names is discarded.
LEMMA HdelPlace ==
  ASSUME Base, PlaceInv, NEW u \in Pages, Hdel(u)
  PROVE  PlaceInv'
<1> USE DEF Base
<1>1. PICK b \in Alerts : b = deleting[u].record.alert
  BY HdelEffect
<1>2. /\ deleting[u] # Idle /\ deleting[u].step = "hdel"
      /\ deleting'[u] = Idle /\ \A v \in Pages \ {u} : deleting'[v] = deleting[v]
      /\ UNCHANGED <<made, queue, at, job, stored, retries, files, objects, discarded, refused>>
  BY HdelEffect DEF pipelineVars, procVars
<1>3. records' \subseteq records /\ \A a \in Alerts \ {b} : removed'[a] = removed[a]
  <2>1. CASE UNCHANGED <<records, removed>>
    BY <2>1
  <2>2. ASSUME NEW same, records' = records \ same, removed' = [removed EXCEPT ![b] = @ + Cardinality(same)]
        PROVE  records' \subseteq records /\ \A a \in Alerts \ {b} : removed'[a] = removed[a]
    BY <2>2 DEF TypeOK
  <2> QED
    BY <1>1, <2>1, <2>2, HdelEffect
<1>4. Cleared(b)
  BY <1>1, <1>2 DEF Cleared
<1>5. Waiting' /\ Moved'
  <2>1. \A a : Untouched(a)' => Untouched(a)
    BY <1>2 DEF Untouched, Holds
  <2>2. Waiting'
    BY <1>2, <2>1 DEF PlaceInv, Waiting
  <2>3. Moved'
    BY <1>2 DEF PlaceInv, Moved
  <2> QED
    BY <2>2, <2>3
<1>6. Shown'
  <2>1. \A r : Known(r)' => Known(r)
    BY <1>2, <1>3 DEF Known
  <2>2. \A r : Shows(r)' <=> Shows(r)
    BY <1>2 DEF Shows
  <2> QED
    BY <1>2, <2>1, <2>2 DEF PlaceInv, Shown
<1>7. Gone'
  <2>1. \A a \in Alerts : Cleared(a)' => Cleared(a)
    BY <1>2, <1>3, <1>4 DEF Cleared
  <2> QED
    BY <1>2, <2>1 DEF PlaceInv, Gone
<1> QED
  BY <1>5, <1>6, <1>7 DEF PlaceInv

\* Every step.
LEMMA PlaceStep ==
  ASSUME Base, PlaceInv, [Next]_vars
  PROVE  PlaceInv'
<1>1. CASE UNCHANGED vars
  <2>1. /\ UNCHANGED <<worldVars, records, removalVars>>
        /\ UNCHANGED <<queue, retries, at, job, stored>>
    BY <1>1 DEF vars, procVars
  <2>2. \A a : Untouched(a)' => Untouched(a)
    BY <2>1 DEF Untouched, Holds
  <2> QED
    BY <2>1, <2>2, QuietPlace
<1>2. ASSUME NEW u \in Pages, PageStep(u) PROVE PlaceInv'
  BY <1>2, LookPlace, DiscardPlace, HdelPlace DEF PageStep
<1> QED
  BY <1>1, <1>2, StepCases, QuietStepPlace, RaisePlace, StorePlace, HsetPlace

LEMMA Places == ASSUME AnswersArrive PROVE Spec => [](Base /\ PlaceInv)
<1>1. Init => PlaceInv
  BY PlaceInit
<1>2. Base /\ PlaceInv /\ [Next]_vars => PlaceInv'
  BY PlaceStep
<1>3. Spec => []Base
  BY CountingInv, PTL DEF Base
<1> QED
  BY <1>1, <1>2, <1>3, PTL DEF Spec

(* A record leads to the picture and the clip of its alert: in the object   *)
(* store those it names there, on the disk the others, whatever uploads     *)
(* failed and whatever deletions run, as long as the job had one pass.      *)
THEOREM RecordsShowMedia == ASSUME AnswersArrive PROVE Spec => []RecordShowsMedia
<1>1. Base /\ PlaceInv => RecordShowsMedia
  <2> SUFFICES ASSUME Base, PlaceInv, NEW r \in records, retries[r.alert] = 0
               PROVE  /\ r.objects \subseteq objects[r.alert] \cup discarded[r.alert]
                      /\ r.paths \subseteq files[r.alert] \cup discarded[r.alert]
                      /\ r.objects \cup r.paths = made[r.alert]
    BY DEF RecordShowsMedia
  <2>1. r \in Records /\ Known(r)
    BY DEF Base, TypeOK, Known
  <2>2. Shows(r)
    BY <2>1 DEF PlaceInv, Shown
  <2> QED
    BY <2>2 DEF Shows
<1> QED
  BY <1>1, Places, PTL

(* Deleting a record leaves nothing of the alert behind but what the store  *)
(* refused to delete, for any number of requests that delete the same       *)
(* record at once, fail half way or die, as long as the job had one pass.   *)
THEOREM DeletionLeavesNothing == ASSUME AnswersArrive PROVE Spec => []DeletedLeavesNothing
<1>1. PlaceInv => DeletedLeavesNothing
  BY DEF PlaceInv, Gone, Cleared, DeletedLeavesNothing
<1> QED
  BY <1>1, Places, PTL

=============================================================================
