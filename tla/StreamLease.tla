----------------------------- MODULE StreamLease -----------------------------
(***************************************************************************)
(* Several stream workers share the streams through leases in Redis        *)
(* (visionai/core/stream_lease.py, called by visionai/worker.py).  A lease *)
(* is a key with a time to live; the worker named in it may process the    *)
(* stream.  Workers look at their leases in the rounds of                  *)
(* check_offline_with_lease and nowhere else.  What a worker does with the *)
(* threads of one process is in StreamThreads, where the answer of the     *)
(* lease is left open.                                                     *)
(*                                                                         *)
(* Time passes in ticks, by timers that count down.  Only the wait between *)
(* two rounds and the probe of a stream take time; a call to Redis, and so *)
(* the GET and the EXPIRE that follow each other in try_acquire_lease,     *)
(* takes none.                                                             *)
(*                                                                         *)
(* Bounds: MaxFaults (failed Redis calls, failed probes), MaxCrashes, and  *)
(* TakeoverBound, at which the clock of an unprocessed stream stops.       *)
(***************************************************************************)
EXTENDS Integers, FiniteSets

CONSTANTS
  Workers, Streams,
  Nobody, Stranger,  \* no lease; a lease under an id no worker goes by any more
  TTL,               \* STREAM_LEASE_TTL_SEC
  Period,            \* the pause between two rounds
  MaxProbe,          \* how long the probe of one stream may take
  IdKinds,           \* what the ids of the workers may be: see resolve_worker_id
  MaxFaults, MaxCrashes

ASSUME StreamLeaseAssumption ==
  /\ TTL \in Nat \ {0} /\ Period \in Nat \ {0} /\ MaxProbe \in Nat
  /\ MaxFaults \in Nat /\ MaxCrashes \in Nat
  /\ Nobody \notin Workers /\ Stranger \notin Workers /\ Stranger # Nobody
  /\ IdKinds \subseteq {"fixed", "perStart", "perCall"}
  /\ IsFiniteSet(Streams)

VARIABLES
  ids,      \* how workers are named in this deployment
  lease,    \* the worker named in the key of the stream
  ttl,      \* ticks before the key expires
  threads,  \* the streams a worker processes
  at,       \* "down", "boot", "wait", "look", or "probe"
  todo,     \* the streams the worker has still to look at
  probing,  \* the stream it probes
  timer,    \* ticks before its wait or its probe ends
  faults, crashes,
  idle      \* ticks since a stream was last processed while some worker was up

vars == <<ids, lease, ttl, threads, at, todo, probing, timer, faults, crashes, idle>>

NoStream == Nobody

\* From a look at a stream that comes first in its round to the end of its
\* probe, when it comes last in the next; what a crash may cost, which leaves
\* a lease with its full time to live to somebody who just looked at it; and a
\* fault, after which a worker without a lasting id waits for its own lease.
Round == Period + Cardinality(Streams) * MaxProbe
Return == (Cardinality(Streams) - 1) * MaxProbe + Round
CrashCost == TTL - 1 + Return - MaxProbe
FaultCost == IF ids = "perCall" THEN CrashCost ELSE Round
TakeoverBound == (IF ids = "perCall" THEN TTL - 1 ELSE 0) + Return
                   + MaxFaults * FaultCost + MaxCrashes * CrashCost

Init ==
  /\ ids \in IdKinds
  /\ lease = [s \in Streams |-> Nobody] /\ ttl = [s \in Streams |-> 0]
  /\ threads = [w \in Workers |-> {}]
  /\ at = [w \in Workers |-> "boot"] /\ todo = [w \in Workers |-> Streams]
  /\ probing = [w \in Workers |-> NoStream] /\ timer = [w \in Workers |-> 0]
  /\ faults = 0 /\ crashes = 0
  /\ idle = [s \in Streams |-> 0]

-----------------------------------------------------------------------------
(* try_acquire_lease.  SET NX, else GET and, if the name is ours, EXPIRE.  *)
(* resolve_worker_id gives a new name to each call when WORKER_ID is not   *)
(* set, so such a worker never finds its own name.                         *)
IdOf(w) == IF ids = "perCall" THEN Stranger ELSE w

Grant(w, s) ==
  /\ lease[s] = Nobody \/ lease[s] = w
  /\ lease' = [lease EXCEPT ![s] = IF @ = Nobody THEN IdOf(w) ELSE @]
  /\ ttl' = [ttl EXCEPT ![s] = TTL]
  /\ UNCHANGED faults

Refuse(w, s) ==
  /\ UNCHANGED <<lease, ttl>>
  /\ \/ lease[s] \notin {Nobody, w} /\ UNCHANGED faults
     \/ faults < MaxFaults /\ faults' = faults + 1

\* Mutant: the lease of a stream that runs here is not renewed.
NoRenewal(w, s) == UNCHANGED <<lease, ttl, faults>>

\* The lease of a stream that runs here is asked for, and the answer ignored.
Renewal(w, s) == Grant(w, s) \/ Refuse(w, s)

-----------------------------------------------------------------------------
StartThread(w, s) ==
  /\ threads' = [threads EXCEPT ![w] = @ \cup {s}]
  /\ idle' = [idle EXCEPT ![s] = 0]

\* worker.main: the first threads.
BootStart(w) ==
  \E s \in todo[w] :
    /\ at[w] = "boot"
    /\ \/ Grant(w, s) /\ StartThread(w, s)
       \/ Refuse(w, s) /\ UNCHANGED <<threads, idle>>
    /\ todo' = [todo EXCEPT ![w] = @ \ {s}]
    /\ UNCHANGED <<ids, at, probing, timer, crashes>>

\* The first round follows at once, the others after a pause.
CheckRound(w) ==
  /\ \/ at[w] = "boot" /\ todo[w] = {}
     \/ at[w] = "wait" /\ timer[w] = 0
  /\ at' = [at EXCEPT ![w] = "look"]
  /\ todo' = [todo EXCEPT ![w] = Streams]
  /\ UNCHANGED <<ids, lease, ttl, threads, probing, timer, faults, crashes, idle>>

CheckLook(w) ==
  \E s \in todo[w] :
    /\ at[w] = "look"
    /\ todo' = [todo EXCEPT ![w] = @ \ {s}]
    /\ \/ /\ s \in threads[w]
          /\ Renewal(w, s)
          /\ UNCHANGED <<at, probing, timer>>
       \/ /\ s \notin threads[w]
          /\ Refuse(w, s)
          /\ UNCHANGED <<at, probing, timer>>
       \/ /\ s \notin threads[w]
          /\ Grant(w, s)
          /\ at' = [at EXCEPT ![w] = "probe"]
          /\ probing' = [probing EXCEPT ![w] = s]
          /\ \E d \in 0..MaxProbe : timer' = [timer EXCEPT ![w] = d]
    /\ UNCHANGED <<ids, threads, crashes, idle>>

\* The probe ends: a thread is started, or the camera does not answer.
CheckStart(w) ==
  /\ at[w] = "probe" /\ timer[w] = 0
  /\ at' = [at EXCEPT ![w] = "look"]
  /\ \/ StartThread(w, probing[w]) /\ UNCHANGED faults
     \/ /\ faults < MaxFaults /\ faults' = faults + 1
        /\ UNCHANGED <<threads, idle>>
  /\ probing' = [probing EXCEPT ![w] = NoStream]
  /\ UNCHANGED <<ids, lease, ttl, todo, timer, crashes>>

RoundEnds(w) ==
  /\ at[w] = "look" /\ todo[w] = {}
  /\ at' = [at EXCEPT ![w] = "wait"]
  /\ timer' = [timer EXCEPT ![w] = Period]
  /\ UNCHANGED <<ids, lease, ttl, threads, todo, probing, faults, crashes, idle>>

-----------------------------------------------------------------------------
\* A thread ends for a reason of its own.  release_lease is not called.
ThreadEnds(w, s) ==
  /\ s \in threads[w]
  /\ threads' = [threads EXCEPT ![w] = @ \ {s}]
  /\ UNCHANGED <<ids, lease, ttl, at, todo, probing, timer, faults, crashes, idle>>

Crash(w) ==
  /\ at[w] # "down" /\ crashes < MaxCrashes
  /\ crashes' = crashes + 1
  /\ at' = [at EXCEPT ![w] = "down"] /\ threads' = [threads EXCEPT ![w] = {}]
  /\ todo' = [todo EXCEPT ![w] = {}]
  /\ probing' = [probing EXCEPT ![w] = NoStream] /\ timer' = [timer EXCEPT ![w] = 0]
  /\ lease' = IF ids = "perStart"
              THEN [s \in Streams |-> IF lease[s] = w THEN Stranger ELSE lease[s]]
              ELSE lease
  /\ UNCHANGED <<ids, ttl, faults, idle>>

Restart(w) ==
  /\ at[w] = "down"
  /\ at' = [at EXCEPT ![w] = "boot"] /\ todo' = [todo EXCEPT ![w] = Streams]
  /\ UNCHANGED <<ids, lease, ttl, threads, probing, timer, faults, crashes, idle>>

-----------------------------------------------------------------------------
Processed(s) == \E w \in Workers : s \in threads[w]

\* Mutant: the key is written without a time to live.
TickNeverExpires ==
  /\ \A w \in Workers : at[w] = "down" \/ timer[w] > 0
  /\ timer' = [w \in Workers |-> IF timer[w] = 0 THEN 0 ELSE timer[w] - 1]
  /\ idle' = [s \in Streams |->
       IF Processed(s) \/ \A w \in Workers : at[w] = "down" THEN 0
       ELSE IF idle[s] > TakeoverBound THEN idle[s] ELSE idle[s] + 1]
  /\ UNCHANGED <<ids, lease, ttl, threads, at, todo, probing, faults, crashes>>

\* A tick passes when every worker is down or waits for its timer.
Tick ==
  /\ \A w \in Workers : at[w] = "down" \/ timer[w] > 0
  /\ ttl' = [s \in Streams |-> IF ttl[s] = 0 THEN 0 ELSE ttl[s] - 1]
  /\ lease' = [s \in Streams |-> IF ttl'[s] = 0 THEN Nobody ELSE lease[s]]
  /\ timer' = [w \in Workers |-> IF timer[w] = 0 THEN 0 ELSE timer[w] - 1]
  /\ idle' = [s \in Streams |->
       IF Processed(s) \/ \A w \in Workers : at[w] = "down" THEN 0
       ELSE IF idle[s] > TakeoverBound THEN idle[s] ELSE idle[s] + 1]
  /\ UNCHANGED <<ids, threads, at, todo, probing, faults, crashes>>

Next ==
  \/ Tick
  \/ \E w \in Workers :
       \/ BootStart(w) \/ CheckRound(w) \/ CheckLook(w) \/ CheckStart(w) \/ RoundEnds(w)
       \/ \E s \in Streams : ThreadEnds(w, s)
       \/ Crash(w) \/ Restart(w)

Spec == Init /\ [][Next]_vars

-----------------------------------------------------------------------------
(* docs/ha.md: a stream is processed by the worker that holds its lease     *)
(* alone, through crashes, restarts and lost renewals, as long as a worker  *)
(* goes by one id.                                                          *)
OneWorker ==
  ids # "perCall" =>
    \A s \in Streams : \A v, w \in Workers :
      s \in threads[v] /\ s \in threads[w] => v = w

(* When a worker is gone, another one processes the stream within a round   *)
(* and the rest of another one, and what the faults and the crashes cost: a *)
(* round for a fault, and the time to live and the rounds around its end    *)
(* for a crash.  A worker without a lasting id shuts itself out: each       *)
(* failed probe costs it the time to live again.                            *)
TakenOver == \A s \in Streams : idle[s] <= TakeoverBound
=============================================================================
