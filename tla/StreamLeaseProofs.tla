-------------------------- MODULE StreamLeaseProofs --------------------------
(***************************************************************************)
(* Leases keep a stream with one worker, for every set of workers and of   *)
(* streams, when the time to live outlasts what may lie between two        *)
(* renewals (Timely); the defaults of the program do not meet this.        *)
(*                                                                         *)
(* LeaseInv is inductive: a worker that processes a stream, or probes it   *)
(* to do so, has the lease, and the key lives for longer than it can take  *)
(* the worker to come back to the stream and to lose as many renewals as   *)
(* may yet fail.                                                           *)
(*                                                                         *)
(* Awaited is inductive with it: it relates the time a stream has waited,  *)
(* the time to live its key has left and the way of each worker to it to   *)
(* the bound of TakenOver.                                                 *)
(***************************************************************************)
EXTENDS StreamLease, FiniteSetTheorems, TLAPS

USE StreamLeaseAssumption

TypeOK ==
  /\ lease \in [Streams -> Workers \cup {Nobody, Stranger}] /\ ttl \in [Streams -> Nat]
  /\ threads \in [Workers -> SUBSET Streams]
  /\ at \in [Workers -> {"down", "boot", "wait", "look", "probe"}]
  /\ todo \in [Workers -> SUBSET Streams]
  /\ probing \in [Workers -> Streams \cup {NoStream}]
  /\ timer \in [Workers -> Nat] /\ faults \in 0..MaxFaults

\* The timer runs in a wait and in a probe only; a worker that is down
\* processes nothing; who probes has a stream for it.
Phases ==
  \A w \in Workers : /\ timer[w] > 0 => at[w] \in {"wait", "probe"}
                     /\ at[w] = "down" => threads[w] = {}
                     /\ at[w] = "probe" => probing[w] \in Streams

Probes(k) == k * MaxProbe

\* The longest way from one look at a stream to the next, were there nothing
\* left to probe in this round; and what the renewals cost that may yet fail.
Turn    == Period + Probes(Cardinality(Streams) - 1)
Lost(f) == (MaxFaults - f) * Turn

Timely == TTL > Turn + Probes(Cardinality(Streams)) + MaxFaults * Turn

\* The worker may come to the stream again as late as that.
Left(w, s) ==
  CASE at[w] = "boot" -> Probes(Cardinality(Streams) - 1)
    [] at[w] = "wait" -> timer[w] + Probes(Cardinality(Streams) - 1)
    [] OTHER -> timer[w] + Probes(Cardinality(todo[w] \ {s})) + IF s \in todo[w] THEN 0 ELSE Turn

Held(w, s) == s \in threads[w] \/ (at[w] = "probe" /\ probing[w] = s)

Safe(w, s) == lease[s] = w /\ ttl[s] > Left(w, s) + Lost(faults)

LeaseInv ==
  ids # "perCall" => \A w \in Workers, s \in Streams : Held(w, s) => Safe(w, s)

-----------------------------------------------------------------------------
\* Arithmetic.
LEMMA ProbesGrow ==
  /\ \A k \in Nat : Probes(k) \in Nat /\ Probes(k + 1) = Probes(k) + MaxProbe
  /\ \A i, k \in Nat : i <= k => Probes(i) <= Probes(k)
<1>1. \A k \in Nat : Probes(k) \in Nat /\ Probes(k + 1) = Probes(k) + MaxProbe
  BY DEF Probes
<1>2. ASSUME NEW i \in Nat, NEW k \in Nat, i <= k PROVE Probes(i) <= Probes(k)
  <2>1. PICK e \in Nat : k = i + e
    <3>1. k - i \in Nat /\ k = i + (k - i)
      BY <1>2
    <3> QED
      BY <3>1
  <2>2. Probes(k) = Probes(i) + Probes(e)
    BY <2>1 DEF Probes
  <2> QED
    BY <1>1, <2>2
<1> QED
  BY <1>1, <1>2

\* What matters where a stream exists.
LEMMA Sizes ==
  ASSUME NEW s \in Streams
  PROVE  /\ Cardinality(Streams) \in Nat \ {0} /\ Cardinality(Streams) - 1 \in Nat
         /\ Cardinality(Streams \ {s}) = Cardinality(Streams) - 1
         /\ Probes(Cardinality(Streams) - 1) \in Nat /\ Turn \in Nat
         /\ Probes(Cardinality(Streams)) = Probes(Cardinality(Streams) - 1) + MaxProbe
<1>1. Cardinality(Streams) \in Nat /\ Streams # {}
  BY FS_CardinalityType
<1>2. Cardinality(Streams) # 0
  BY <1>1, FS_EmptySet
<1>3. Cardinality(Streams \ {s}) = Cardinality(Streams) - 1
  BY FS_RemoveElement
<1>4. Cardinality(Streams) - 1 \in Nat /\ Cardinality(Streams) = (Cardinality(Streams) - 1) + 1
  BY <1>1, <1>2
<1>5. /\ Probes(Cardinality(Streams) - 1) \in Nat
      /\ Probes(Cardinality(Streams)) = Probes(Cardinality(Streams) - 1) + MaxProbe
  BY <1>4, ProbesGrow
<1> QED
  BY <1>1, <1>2, <1>3, <1>4, <1>5 DEF Turn

LEMMA TodoSizes ==
  ASSUME NEW S \in SUBSET Streams, NEW s \in Streams
  PROVE  /\ Probes(Cardinality(S)) \in Nat /\ Probes(Cardinality(S \ {s})) \in Nat
         /\ Probes(Cardinality(S \ {s})) <= Probes(Cardinality(S))
         /\ s \notin S => Probes(Cardinality(S)) <= Probes(Cardinality(Streams) - 1)
         /\ Probes(Cardinality(S \ {s})) <= Probes(Cardinality(Streams) - 1)
         /\ s \in S => Probes(Cardinality(S)) = Probes(Cardinality(S \ {s})) + MaxProbe
<1>1. IsFiniteSet(S) /\ Cardinality(S) \in Nat
  BY FS_Subset, FS_CardinalityType
<1>2. IsFiniteSet(S \ {s}) /\ Cardinality(S \ {s}) \in Nat
  BY <1>1, FS_Subset, FS_CardinalityType
<1>3. Cardinality(S \ {s}) <= Cardinality(S)
  BY <1>1, FS_Subset
<1>4. s \in S => Cardinality(S) = Cardinality(S \ {s}) + 1
  BY <1>1, <1>2, FS_RemoveElement
<1>5. IsFiniteSet(Streams \ {s}) /\ S \ {s} \subseteq Streams \ {s}
  BY FS_Subset
<1>6. Cardinality(S \ {s}) <= Cardinality(Streams \ {s})
  BY <1>5, FS_Subset
<1>7. Cardinality(S \ {s}) <= Cardinality(Streams) - 1
  BY <1>6, Sizes
<1>8. s \notin S => S \ {s} = S
  OBVIOUS
<1>9. Probes(Cardinality(S \ {s})) <= Probes(Cardinality(Streams) - 1)
  BY <1>2, <1>7, Sizes, ProbesGrow
<1> QED
  BY <1>1, <1>2, <1>3, <1>4, <1>8, <1>9, ProbesGrow

LEMMA LostShrinks ==
  ASSUME NEW s \in Streams, NEW f \in 0..MaxFaults
  PROVE  /\ Lost(f) \in Nat /\ Lost(f) <= MaxFaults * Turn
         /\ f < MaxFaults => Lost(f) = Lost(f + 1) + Turn /\ Lost(f + 1) \in Nat
<1>1. Turn \in Nat
  BY Sizes
<1>2. PICK T \in Nat : T = Turn
  BY <1>1
<1>3. /\ (MaxFaults - f) * T \in Nat /\ f * T \in Nat
      /\ (MaxFaults - f) * T + f * T = MaxFaults * T
      /\ f < MaxFaults => /\ (MaxFaults - f) * T = (MaxFaults - (f + 1)) * T + T
                          /\ (MaxFaults - (f + 1)) * T \in Nat
  <2>1. MaxFaults - f \in Nat /\ f \in Nat
    OBVIOUS
  <2>2. f < MaxFaults => MaxFaults - (f + 1) \in Nat
    OBVIOUS
  <2>3. \A x, y \in Nat : x * y \in Nat
    OBVIOUS
  <2>4. (MaxFaults - f) * T + f * T = MaxFaults * T
    OBVIOUS
  <2>5. (MaxFaults - f) * T = (MaxFaults - (f + 1)) * T + T
    OBVIOUS
  <2> QED
    BY <2>1, <2>2, <2>3, <2>4, <2>5
<1>4. (MaxFaults - f) * T <= MaxFaults * T
  <2>1. \A x, y, z \in Nat : x + y = z => x <= z
    OBVIOUS
  <2>2. MaxFaults * T \in Nat
    BY <1>3
  <2> QED
    BY <1>3, <2>1, <2>2
<1> QED
  BY <1>2, <1>3, <1>4 DEF Lost

-----------------------------------------------------------------------------
\* What the two answers to a call for a lease are.
LEMMA GrantTyped ==
  ASSUME TypeOK, NEW w \in Workers, NEW s \in Streams, Grant(w, s)
  PROVE  /\ lease' \in [Streams -> Workers \cup {Nobody, Stranger}] /\ ttl' \in [Streams -> Nat]
         /\ faults' \in 0..MaxFaults
<1>1. IdOf(w) \in Workers \cup {Nobody, Stranger}
  BY DEF IdOf
<1> QED
  BY <1>1 DEF Grant, TypeOK

LEMMA GrantEffect ==
  ASSUME TypeOK, ids # "perCall", NEW w \in Workers, NEW s \in Streams, Grant(w, s)
  PROVE  /\ lease[s] \in {Nobody, w} /\ lease'[s] = w /\ ttl'[s] = TTL
         /\ \A x \in Streams \ {s} : lease'[x] = lease[x] /\ ttl'[x] = ttl[x]
         /\ faults' = faults
BY DEF Grant, IdOf, TypeOK

LEMMA RefuseEffect ==
  ASSUME TypeOK, NEW w \in Workers, NEW s \in Streams, Refuse(w, s)
  PROVE  /\ UNCHANGED <<lease, ttl>>
         /\ faults' \in 0..MaxFaults
         /\ \/ faults' = faults /\ lease[s] # w
            \/ faults' = faults + 1 /\ faults < MaxFaults
BY DEF Refuse, TypeOK

LEMMA RefuseTyped ==
  ASSUME TypeOK, NEW w \in Workers, NEW s \in Streams, Refuse(w, s)
  PROVE  /\ lease' \in [Streams -> Workers \cup {Nobody, Stranger}] /\ ttl' \in [Streams -> Nat]
         /\ faults' \in 0..MaxFaults
BY RefuseEffect DEF TypeOK

-----------------------------------------------------------------------------
Sound == TypeOK /\ Phases

LEMMA SoundInit == Init => Sound
BY DEF Init, Sound, TypeOK, Phases, NoStream

LEMMA BootSound ==
  ASSUME Sound, NEW w \in Workers, BootStart(w)
  PROVE  Sound'
<1> USE DEF Sound
<1>1. PICK s \in todo[w] : /\ at[w] = "boot"
                           /\ \/ Grant(w, s) /\ StartThread(w, s)
                              \/ Refuse(w, s) /\ UNCHANGED <<threads, idle>>
                           /\ todo' = [todo EXCEPT ![w] = @ \ {s}]
                           /\ UNCHANGED <<ids, at, probing, timer, crashes>>
  BY DEF BootStart
<1>2. s \in Streams
  BY DEF TypeOK
<1>3. /\ lease' \in [Streams -> Workers \cup {Nobody, Stranger}] /\ ttl' \in [Streams -> Nat]
      /\ faults' \in 0..MaxFaults
  BY <1>1, <1>2, GrantTyped, RefuseTyped
<1>4. threads' \in [Workers -> SUBSET Streams] /\ \A v \in Workers \ {w} : threads'[v] = threads[v]
  BY <1>1, <1>2 DEF StartThread, TypeOK
<1>5. todo' \in [Workers -> SUBSET Streams]
  BY <1>1 DEF TypeOK
<1> QED
  BY <1>1, <1>3, <1>4, <1>5 DEF TypeOK, Phases

LEMMA LookSound ==
  ASSUME Sound, NEW w \in Workers, CheckLook(w)
  PROVE  Sound'
<1> USE DEF Sound
<1>1. PICK s \in todo[w] :
        /\ at[w] = "look"
        /\ todo' = [todo EXCEPT ![w] = @ \ {s}]
        /\ Grant(w, s) \/ Refuse(w, s)
        /\ \/ UNCHANGED <<at, probing, timer>>
           \/ /\ at' = [at EXCEPT ![w] = "probe"] /\ probing' = [probing EXCEPT ![w] = s]
              /\ \E d \in 0..MaxProbe : timer' = [timer EXCEPT ![w] = d]
        /\ UNCHANGED <<ids, threads, crashes, idle>>
  BY DEF CheckLook, Renewal
<1>2. s \in Streams
  BY DEF TypeOK
<1>3. /\ lease' \in [Streams -> Workers \cup {Nobody, Stranger}] /\ ttl' \in [Streams -> Nat]
      /\ faults' \in 0..MaxFaults
  BY <1>1, <1>2, GrantTyped, RefuseTyped
<1>4. todo' \in [Workers -> SUBSET Streams]
  BY <1>1 DEF TypeOK
<1>5. CASE UNCHANGED <<at, probing, timer>>
  BY <1>1, <1>3, <1>4, <1>5 DEF TypeOK, Phases
<1>6. ASSUME at' = [at EXCEPT ![w] = "probe"], probing' = [probing EXCEPT ![w] = s],
             NEW d \in 0..MaxProbe, timer' = [timer EXCEPT ![w] = d]
      PROVE  Sound'
  <2>1. /\ at' \in [Workers -> {"down", "boot", "wait", "look", "probe"}]
        /\ probing' \in [Workers -> Streams \cup {NoStream}] /\ timer' \in [Workers -> Nat]
    BY <1>2, <1>6 DEF TypeOK
  <2>2. TypeOK'
    BY <1>1, <1>3, <1>4, <2>1 DEF TypeOK
  <2>3. Phases'
    BY <1>1, <1>2, <1>6 DEF TypeOK, Phases
  <2> QED
    BY <2>2, <2>3
<1> QED
  BY <1>1, <1>5, <1>6

LEMMA StartSound ==
  ASSUME Sound, NEW w \in Workers, CheckStart(w)
  PROVE  Sound'
<1> USE DEF Sound
<1>1. /\ at[w] = "probe" /\ timer[w] = 0 /\ probing[w] \in Streams
      /\ at' = [at EXCEPT ![w] = "look"] /\ probing' = [probing EXCEPT ![w] = NoStream]
      /\ UNCHANGED <<ids, lease, ttl, todo, timer, crashes>>
  BY DEF CheckStart, Phases
<1>2. threads' \in [Workers -> SUBSET Streams] /\ \A v \in Workers \ {w} : threads'[v] = threads[v]
  BY <1>1 DEF CheckStart, StartThread, TypeOK
<1>3. faults' \in 0..MaxFaults
  BY DEF CheckStart, TypeOK
<1>4. /\ at' \in [Workers -> {"down", "boot", "wait", "look", "probe"}]
      /\ probing' \in [Workers -> Streams \cup {NoStream}]
  BY <1>1 DEF TypeOK
<1>5. TypeOK'
  BY <1>1, <1>2, <1>3, <1>4 DEF TypeOK
<1>6. Phases'
  BY <1>1, <1>2 DEF TypeOK, Phases
<1> QED
  BY <1>5, <1>6

LEMMA RoundSound ==
  ASSUME Sound, NEW w \in Workers,
         \/ CheckRound(w) \/ RoundEnds(w) \/ Restart(w)
         \/ \E s \in Streams : ThreadEnds(w, s)
  PROVE  Sound'
<1> USE DEF Sound
<1>1. CASE CheckRound(w)
  BY <1>1 DEF CheckRound, TypeOK, Phases
<1>2. CASE RoundEnds(w)
  BY <1>2 DEF RoundEnds, TypeOK, Phases
<1>3. CASE Restart(w)
  BY <1>3 DEF Restart, TypeOK, Phases
<1>4. ASSUME NEW s \in Streams, ThreadEnds(w, s) PROVE Sound'
  <2>1. /\ threads' = [threads EXCEPT ![w] = @ \ {s}]
        /\ UNCHANGED <<lease, ttl, at, todo, probing, timer, faults>>
    BY <1>4 DEF ThreadEnds
  <2>2. TypeOK'
    BY <2>1 DEF TypeOK
  <2>3. Phases'
    BY <2>1 DEF TypeOK, Phases
  <2> QED
    BY <2>2, <2>3
<1> QED
  BY <1>1, <1>2, <1>3, <1>4

LEMMA CrashSound ==
  ASSUME Sound, NEW w \in Workers, Crash(w)
  PROVE  Sound'
<1> USE DEF Sound
<1>1. lease' \in [Streams -> Workers \cup {Nobody, Stranger}]
  BY DEF Crash, TypeOK
<1>2. /\ at' = [at EXCEPT ![w] = "down"] /\ threads' = [threads EXCEPT ![w] = {}]
      /\ todo' = [todo EXCEPT ![w] = {}]
      /\ probing' = [probing EXCEPT ![w] = NoStream] /\ timer' = [timer EXCEPT ![w] = 0]
      /\ UNCHANGED <<ttl, faults>>
  BY DEF Crash
<1>3. TypeOK'
  BY <1>1, <1>2 DEF TypeOK
<1>4. Phases'
  BY <1>2 DEF TypeOK, Phases
<1> QED
  BY <1>3, <1>4

\* A tick, stream by stream and worker by worker.
LEMMA TickEffect ==
  ASSUME Sound, Tick
  PROVE  /\ ttl' \in [Streams -> Nat] /\ timer' \in [Workers -> Nat]
         /\ lease' \in [Streams -> Workers \cup {Nobody, Stranger}]
         /\ \A s \in Streams : ttl[s] > 1 => ttl'[s] = ttl[s] - 1 /\ lease'[s] = lease[s]
         /\ \A w \in Workers : IF at[w] \in {"wait", "probe"}
                               THEN timer[w] > 0 /\ timer'[w] = timer[w] - 1
                               ELSE at[w] = "down" /\ timer'[w] = 0
         /\ UNCHANGED <<ids, threads, at, todo, probing, faults>>
<1> USE DEF Sound
<1>1. ttl' \in [Streams -> Nat] /\ \A s \in Streams : ttl[s] > 1 => ttl'[s] = ttl[s] - 1 /\ ttl'[s] # 0
  BY DEF Tick, TypeOK
<1>2. /\ lease' \in [Streams -> Workers \cup {Nobody, Stranger}]
      /\ \A s \in Streams : ttl'[s] # 0 => lease'[s] = lease[s]
  BY DEF Tick, TypeOK
<1>3. timer' \in [Workers -> Nat]
  BY DEF Tick, TypeOK
<1>4. \A w \in Workers : IF at[w] \in {"wait", "probe"}
                         THEN timer[w] > 0 /\ timer'[w] = timer[w] - 1
                         ELSE at[w] = "down" /\ timer'[w] = 0
  BY DEF Tick, TypeOK, Phases
<1> QED
  BY <1>1, <1>2, <1>3, <1>4 DEF Tick

LEMMA TickSound == ASSUME Sound, Tick PROVE Sound'
<1>1. TypeOK'
  BY TickEffect DEF Sound, TypeOK
<1>2. Phases'
  BY TickEffect DEF Sound, Phases
<1> QED
  BY <1>1, <1>2 DEF Sound

LEMMA SoundStep == Sound /\ [Next]_vars => Sound'
<1> SUFFICES ASSUME Sound, [Next]_vars PROVE Sound'
  OBVIOUS
<1>1. CASE UNCHANGED vars
  BY <1>1 DEF vars, Sound, TypeOK, Phases
<1> QED
  BY <1>1, BootSound, LookSound, StartSound, RoundSound, CrashSound, TickSound DEF Next

-----------------------------------------------------------------------------
LEMMA LeftType == ASSUME Sound, NEW w \in Workers, NEW s \in Streams PROVE Left(w, s) \in Nat
<1>1. /\ Probes(Cardinality(Streams) - 1) \in Nat /\ Turn \in Nat
      /\ Probes(Cardinality(todo[w] \ {s})) \in Nat /\ timer[w] \in Nat
  BY Sizes, TodoSizes DEF Sound, TypeOK
<1> QED
  BY <1>1 DEF Left

\* A worker that holds a lease keeps it while its way to the stream does not
\* get longer, nobody touches the key, and a renewal fails at most elsewhere.
LEMMA StaysSafe ==
  ASSUME Sound, Sound', NEW w \in Workers, NEW s \in Streams,
         Safe(w, s), lease'[s] = lease[s], ttl'[s] = ttl[s], Left(w, s)' <= Left(w, s),
         Left(w, s)' \in Nat,
         faults' = faults \/ (faults' = faults + 1 /\ faults < MaxFaults)
  PROVE  Safe(w, s)'
<1>1. lease[s] = w /\ ttl[s] > Left(w, s) + Lost(faults)
  BY DEF Safe
<1>2. Lost(faults) \in Nat /\ Lost(faults') \in Nat /\ Lost(faults') <= Lost(faults)
  <2>1. faults \in 0..MaxFaults /\ Turn \in Nat
    BY Sizes DEF Sound, TypeOK
  <2> QED
    BY <2>1, LostShrinks
<1>3. Left(w, s) \in Nat /\ ttl[s] \in Nat
  BY LeftType DEF Sound, TypeOK
<1>4. ttl'[s] > Left(w, s)' + Lost(faults')
  BY <1>1, <1>2, <1>3
<1> QED
  BY <1>1, <1>4 DEF Safe

\* A call of one worker takes no lease from another.
LEMMA CallSpares ==
  ASSUME Sound, ids # "perCall", NEW w \in Workers, NEW x \in Streams,
         Grant(w, x) \/ Refuse(w, x),
         NEW v \in Workers \ {w}, NEW s \in Streams, Safe(v, s)
  PROVE  /\ lease'[s] = lease[s] /\ ttl'[s] = ttl[s]
         /\ faults' = faults \/ (faults' = faults + 1 /\ faults < MaxFaults)
<1>1. lease[s] = v
  BY DEF Safe
<1>2. CASE Grant(w, x)
  <2>1. s # x
    BY <1>1, <1>2, GrantEffect DEF Sound
  <2> QED
    BY <1>2, <2>1, GrantEffect DEF Sound
<1>3. CASE Refuse(w, x)
  BY <1>3, RefuseEffect DEF Sound
<1> QED
  BY <1>2, <1>3

\* ... and leaves its own other leases alone.
LEMMA CallKeeps ==
  ASSUME Sound, ids # "perCall", NEW w \in Workers, NEW x \in Streams,
         Grant(w, x) \/ Refuse(w, x), NEW s \in Streams \ {x}
  PROVE  /\ lease'[s] = lease[s] /\ ttl'[s] = ttl[s]
         /\ faults' = faults \/ (faults' = faults + 1 /\ faults < MaxFaults)
BY GrantEffect, RefuseEffect DEF Sound

\* A lease just taken or renewed lasts until the next look and beyond.
LEMMA FreshSafe ==
  ASSUME Timely, Sound, ids # "perCall", NEW w \in Workers, NEW s \in Streams, Grant(w, s),
         Left(w, s)' \in Nat, Left(w, s)' <= Turn + Probes(Cardinality(Streams))
  PROVE  Safe(w, s)'
<1>1. lease'[s] = w /\ ttl'[s] = TTL /\ faults' = faults
  BY GrantEffect DEF Sound
<1>2. Lost(faults) \in Nat /\ Lost(faults) <= MaxFaults * Turn /\ MaxFaults * Turn \in Nat
  <2>1. faults \in 0..MaxFaults /\ Turn \in Nat
    BY Sizes DEF Sound, TypeOK
  <2>2. MaxFaults * Turn \in Nat
    BY <2>1
  <2> QED
    BY <2>1, <2>2, LostShrinks
<1>3. PICK m \in Nat : m = MaxFaults * Turn
  BY <1>2
<1>4. Turn \in Nat /\ Probes(Cardinality(Streams)) \in Nat
  BY Sizes, ProbesGrow
<1>5. TTL > Turn + Probes(Cardinality(Streams)) + m
  BY <1>3 DEF Timely
<1>6. TTL > Left(w, s)' + Lost(faults)
  BY <1>2, <1>3, <1>4, <1>5
<1> QED
  BY <1>1, <1>6 DEF Safe

\* A renewal that fails makes the way longer by one turn, and there is one
\* failure less to come.
LEMMA MissedSafe ==
  ASSUME Sound, NEW w \in Workers, NEW s \in Streams,
         Safe(w, s), Refuse(w, s), Left(w, s)' \in Nat, Left(w, s)' <= Left(w, s) + Turn
  PROVE  Safe(w, s)'
<1>1. lease[s] = w /\ ttl[s] > Left(w, s) + Lost(faults)
  BY DEF Safe
<1>2. UNCHANGED <<lease, ttl>> /\ faults' = faults + 1 /\ faults < MaxFaults
  BY <1>1, RefuseEffect DEF Sound
<1>3. Lost(faults) = Lost(faults') + Turn /\ Lost(faults') \in Nat /\ Turn \in Nat
  <2>1. faults \in 0..MaxFaults /\ Turn \in Nat
    BY Sizes DEF Sound, TypeOK
  <2> QED
    BY <1>2, <2>1, LostShrinks
<1>4. Left(w, s) \in Nat /\ ttl[s] \in Nat
  BY LeftType DEF Sound, TypeOK
<1>5. ttl'[s] > Left(w, s)' + Lost(faults')
  BY <1>1, <1>2, <1>3, <1>4
<1> QED
  BY <1>1, <1>2, <1>5 DEF Safe

-----------------------------------------------------------------------------
\* A lease that is safe stays so, and one newly taken is, action by action.
Secured(v, s) == Safe(v, s) \/ (~Held(v, s) /\ Held(v, s)')

LEMMA BootLease ==
  ASSUME Timely, Sound, Sound', ids # "perCall", NEW w \in Workers, BootStart(w),
         NEW v \in Workers, NEW s \in Streams, Secured(v, s)
  PROVE  Safe(v, s)'
<1> USE DEF Sound
<1>1. PICK x \in todo[w] : /\ at[w] = "boot"
                           /\ \/ Grant(w, x) /\ StartThread(w, x)
                              \/ Refuse(w, x) /\ UNCHANGED <<threads, idle>>
                           /\ todo' = [todo EXCEPT ![w] = @ \ {x}]
                           /\ UNCHANGED <<ids, at, probing, timer, crashes>>
  BY DEF BootStart
<1>2. x \in Streams
  BY DEF TypeOK
<1>3. Left(v, s)' = Left(v, s) /\ Left(v, s) \in Nat
  <2>1. v # w => todo'[v] = todo[v]
    BY <1>1 DEF TypeOK
  <2>2. Left(v, s)' = Left(v, s)
    BY <1>1, <2>1 DEF Left
  <2> QED
    BY <2>2, LeftType
<1>4. ASSUME v # w \/ s # x PROVE Safe(v, s)
  BY <1>1, <1>2, <1>4 DEF Secured, Held, StartThread, TypeOK
<1>5. CASE v # w
  BY <1>1, <1>2, <1>3, <1>4, <1>5, CallSpares, StaysSafe
<1>6. CASE v = w /\ s # x
  BY <1>1, <1>2, <1>3, <1>4, <1>6, CallKeeps, StaysSafe
<1>8. /\ Turn \in Nat /\ Probes(Cardinality(Streams) - 1) \in Nat /\ MaxProbe \in Nat
      /\ Probes(Cardinality(Streams)) = Probes(Cardinality(Streams) - 1) + MaxProbe
  BY Sizes
<1>7. CASE v = w /\ s = x
  <2>1. Left(v, s) = Probes(Cardinality(Streams) - 1)
    BY <1>1, <1>7 DEF Left
  <2>2. CASE Grant(v, s)
    <3>1. Left(v, s)' <= Turn + Probes(Cardinality(Streams))
      BY <1>3, <1>8, <2>1
    <3> QED
      BY <1>3, <2>2, <3>1, FreshSafe
  <2>3. CASE Refuse(v, s) /\ UNCHANGED threads
    <3>1. Safe(v, s)
      BY <1>1, <2>3 DEF Secured, Held
    <3>2. Left(v, s)' <= Left(v, s) + Turn
      BY <1>3, <1>8
    <3> QED
      BY <1>3, <2>3, <3>1, <3>2, MissedSafe
  <2> QED
    BY <1>1, <1>7, <2>2, <2>3
<1> QED
  BY <1>5, <1>6, <1>7

LEMMA LookLease ==
  ASSUME Timely, Sound, Sound', ids # "perCall", NEW w \in Workers, CheckLook(w),
         NEW v \in Workers, NEW s \in Streams, Secured(v, s)
  PROVE  Safe(v, s)'
<1> USE DEF Sound
<1>1. PICK x \in todo[w] :
        /\ at[w] = "look"
        /\ todo' = [todo EXCEPT ![w] = @ \ {x}]
        /\ \/ /\ x \in threads[w] /\ (Grant(w, x) \/ Refuse(w, x))
              /\ UNCHANGED <<at, probing, timer>>
           \/ /\ Refuse(w, x)
              /\ x \notin threads[w] /\ UNCHANGED <<at, probing, timer>>
           \/ /\ Grant(w, x)
              /\ at' = [at EXCEPT ![w] = "probe"] /\ probing' = [probing EXCEPT ![w] = x]
              /\ \E d \in 0..MaxProbe : timer' = [timer EXCEPT ![w] = d]
        /\ UNCHANGED <<ids, threads, crashes, idle>>
  BY DEF CheckLook, Renewal
<1>2. x \in Streams /\ timer[w] = 0 /\ todo[w] \in SUBSET Streams
  BY <1>1 DEF TypeOK, Phases
<1>3. Left(v, s)' \in Nat /\ Left(v, s) \in Nat
  <2>1. /\ Probes(Cardinality(todo'[v] \ {s})) \in Nat /\ timer'[v] \in Nat
        /\ Probes(Cardinality(Streams) - 1) \in Nat /\ Turn \in Nat
    BY Sizes, TodoSizes DEF TypeOK
  <2>2. Left(v, s)' \in Nat
    BY <2>1 DEF Left
  <2> QED
    BY <2>2, LeftType
<1>4. /\ Turn \in Nat /\ Probes(Cardinality(Streams) - 1) \in Nat /\ MaxProbe \in Nat
      /\ Probes(Cardinality(Streams)) = Probes(Cardinality(Streams) - 1) + MaxProbe
  BY Sizes
<1>5. CASE v # w
  <2>1. /\ at'[v] = at[v] /\ todo'[v] = todo[v] /\ timer'[v] = timer[v] /\ probing'[v] = probing[v]
    BY <1>1, <1>5 DEF TypeOK
  <2>2. Left(v, s)' = Left(v, s)
    BY <2>1 DEF Left
  <2>3. Safe(v, s)
    BY <1>1, <2>1 DEF Secured, Held
  <2> QED
    BY <1>1, <1>2, <1>3, <1>5, <2>2, <2>3, CallSpares, StaysSafe
<1>6. ASSUME v = w
      PROVE  /\ todo'[v] = todo[v] \ {x} /\ at'[v] \in {"look", "probe"}
             /\ timer'[v] \in 0..MaxProbe /\ (at'[v] = "look" => timer'[v] = 0)
             /\ at'[v] = "probe" => probing'[v] = x /\ Grant(w, x)
             /\ Left(v, s) = Probes(Cardinality(todo[v] \ {s})) + IF s \in todo[v] THEN 0 ELSE Turn
             /\ Left(v, s)' = timer'[v] + Probes(Cardinality(todo'[v] \ {s}))
                              + IF s \in todo'[v] THEN 0 ELSE Turn
  <2>1. todo'[v] = todo[v] \ {x}
    BY <1>1, <1>6 DEF TypeOK
  <2>2. /\ at'[v] \in {"look", "probe"} /\ at[v] = "look"
        /\ at'[v] = "probe" => probing'[v] = x /\ Grant(w, x)
    BY <1>1, <1>6 DEF TypeOK
  <2>3. timer'[v] \in 0..MaxProbe /\ (at'[v] = "look" => timer'[v] = 0)
    BY <1>1, <1>2, <1>6 DEF TypeOK
  <2>4. Probes(Cardinality(todo[v] \ {s})) \in Nat
    BY TodoSizes DEF TypeOK
  <2>5. Left(v, s) = Probes(Cardinality(todo[v] \ {s})) + IF s \in todo[v] THEN 0 ELSE Turn
    BY <1>2, <1>4, <1>6, <2>2, <2>4 DEF Left
  <2>6. Left(v, s)' = timer'[v] + Probes(Cardinality(todo'[v] \ {s}))
                      + IF s \in todo'[v] THEN 0 ELSE Turn
    BY <2>2 DEF Left
  <2> QED
    BY <2>1, <2>2, <2>3, <2>5, <2>6
<1>7. CASE v = w /\ s # x
  <2>1. Safe(v, s)
    BY <1>1, <1>6, <1>7 DEF Secured, Held
  <2>2. /\ Probes(Cardinality(todo[v] \ {s})) = Probes(Cardinality(todo'[v] \ {s})) + MaxProbe
        /\ Probes(Cardinality(todo'[v] \ {s})) \in Nat
    <3>1. todo[v] \ {s} \in SUBSET Streams /\ x \in todo[v] \ {s}
      BY <1>1, <1>2, <1>7
    <3>2. (todo[v] \ {s}) \ {x} = todo'[v] \ {s}
      BY <1>6, <1>7
    <3> QED
      BY <1>2, <3>1, <3>2, TodoSizes
  <2>3. s \in todo'[v] <=> s \in todo[v]
    BY <1>6, <1>7
  <2>4. Left(v, s)' <= Left(v, s)
    BY <1>4, <1>6, <1>7, <2>2, <2>3
  <2> QED
    BY <1>1, <1>2, <1>3, <1>7, <2>1, <2>4, CallKeeps, StaysSafe
<1>8. CASE v = w /\ s = x
  <2>1. s \in todo[v] /\ s \notin todo'[v] /\ todo'[v] \ {s} = todo[v] \ {s}
    BY <1>1, <1>6, <1>8
  <2>2. /\ Probes(Cardinality(todo[v] \ {s})) \in Nat
        /\ Probes(Cardinality(todo[v] \ {s})) <= Probes(Cardinality(Streams) - 1)
    BY TodoSizes DEF TypeOK
  <2>3. Left(v, s)' = timer'[v] + Probes(Cardinality(todo[v] \ {s})) + Turn
    BY <1>6, <1>8, <2>1
  <2>4. CASE Grant(v, s)
    <3>1. Left(v, s)' <= Turn + Probes(Cardinality(Streams))
      BY <1>4, <1>6, <1>8, <2>2, <2>3
    <3> QED
      BY <1>3, <2>4, <3>1, FreshSafe
  <2>5. CASE Refuse(v, s) /\ ~Grant(v, s)
    <3>1. at'[v] = "look" /\ at[v] = "look"
      BY <1>1, <1>6, <1>8, <2>5
    <3>2. Safe(v, s)
      BY <1>1, <3>1 DEF Secured, Held
    <3>3. Left(v, s)' = Left(v, s) + Turn
      BY <1>4, <1>6, <1>8, <2>1, <2>2, <2>3, <3>1
    <3>4. Left(v, s)' <= Left(v, s) + Turn
      BY <1>3, <1>4, <3>3
    <3> QED
      BY <1>3, <2>5, <3>2, <3>4, MissedSafe
  <2> QED
    BY <1>1, <1>8, <2>4, <2>5
<1> QED
  BY <1>5, <1>7, <1>8

\* Steps without a call: keys and failures to come stay as they are, or a
\* probe has failed.
LEMMA ElseLease ==
  ASSUME Sound, Sound', NEW w \in Workers,
         \/ CheckRound(w) \/ CheckStart(w) \/ RoundEnds(w) \/ Crash(w) \/ Restart(w)
         \/ \E x \in Streams : ThreadEnds(w, x),
         NEW v \in Workers, NEW s \in Streams, at[v] # "down", at'[v] # "down", Secured(v, s)
  PROVE  Safe(v, s)'
<1> USE DEF Sound
<1>1. /\ faults' = faults \/ (faults' = faults + 1 /\ faults < MaxFaults)
      /\ ttl' = ttl
  BY DEF CheckRound, CheckStart, RoundEnds, Crash, Restart, ThreadEnds
<1>2. lease' = lease \/ Crash(w)
  BY DEF CheckRound, CheckStart, RoundEnds, Restart, ThreadEnds
<1>3. Left(v, s)' \in Nat
  <2>1. /\ Probes(Cardinality(todo'[v] \ {s})) \in Nat /\ timer'[v] \in Nat
        /\ Probes(Cardinality(Streams) - 1) \in Nat /\ Turn \in Nat
    BY Sizes, TodoSizes DEF TypeOK
  <2> QED
    BY <2>1 DEF Left
<1>4. /\ Turn \in Nat /\ Turn = Period + Probes(Cardinality(Streams) - 1)
      /\ Probes(Cardinality(Streams) - 1) \in Nat /\ MaxProbe \in Nat
      /\ Left(v, s) \in Nat
  BY Sizes, LeftType DEF Turn
<1>5. CASE v # w
  <2>1. at'[v] = at[v] /\ todo'[v] = todo[v] /\ timer'[v] = timer[v] /\ probing'[v] = probing[v]
    BY <1>5 DEF CheckRound, CheckStart, RoundEnds, Crash, Restart, ThreadEnds, TypeOK
  <2>2. threads'[v] = threads[v]
    BY <1>5 DEF CheckRound, CheckStart, StartThread, RoundEnds, Crash, Restart, ThreadEnds, TypeOK
  <2>3. Left(v, s)' = Left(v, s) /\ Safe(v, s)
    BY <2>1, <2>2 DEF Secured, Left, Held
  <2>4. lease[s] = v
    BY <2>3 DEF Safe
  <2>5. lease'[s] = lease[s]
    BY <1>2, <1>5, <2>4 DEF Crash
  <2> QED
    BY <1>1, <1>4, <2>3, <2>5, StaysSafe
<1>6. CASE v = w /\ CheckRound(w)
  <2>1. /\ Safe(v, s) /\ at'[v] = "look" /\ todo'[v] = Streams /\ timer'[v] = timer[v] /\ timer[v] = 0
        /\ at[v] \in {"boot", "wait"}
    BY <1>6 DEF CheckRound, Secured, Held, TypeOK, Phases
  <2>2. Left(v, s)' = timer'[v] + Probes(Cardinality(todo'[v] \ {s}))
                      + IF s \in todo'[v] THEN 0 ELSE Turn
    BY <2>1 DEF Left
  <2>3. Left(v, s)' = Probes(Cardinality(Streams) - 1)
    BY <1>4, <2>1, <2>2, Sizes
  <2>4. Left(v, s) = Probes(Cardinality(Streams) - 1)
    BY <1>4, <2>1 DEF Left
  <2>5. Left(v, s)' <= Left(v, s)
    BY <1>3, <2>3, <2>4
  <2> QED
    BY <1>1, <1>3, <1>6, <2>1, <2>5, StaysSafe DEF CheckRound
<1>7. CASE v = w /\ CheckStart(w)
  <2>1. at[v] = "probe" /\ at'[v] = "look" /\ todo'[v] = todo[v] /\ timer'[v] = timer[v]
    BY <1>7 DEF CheckStart, TypeOK
  <2>2. Safe(v, s)
    BY <1>7, <2>1 DEF CheckStart, StartThread, Secured, Held, TypeOK
  <2>3. Left(v, s)' = Left(v, s)
    BY <2>1 DEF Left
  <2> QED
    BY <1>1, <1>4, <1>7, <2>2, <2>3, StaysSafe DEF CheckStart
<1>8. CASE v = w /\ RoundEnds(w)
  <2>1. /\ Safe(v, s) /\ at[v] = "look" /\ todo[v] = {} /\ timer[v] = 0
        /\ at'[v] = "wait" /\ timer'[v] = Period
    BY <1>8 DEF RoundEnds, Secured, Held, TypeOK, Phases
  <2>2. Left(v, s)' = Period + Probes(Cardinality(Streams) - 1)
    BY <2>1 DEF Left
  <2>3. Left(v, s) = Probes(Cardinality(todo[v] \ {s})) + Turn
    <3>1. Probes(Cardinality(todo[v] \ {s})) \in Nat
      BY TodoSizes DEF TypeOK
    <3> QED
      BY <1>4, <2>1, <3>1 DEF Left
  <2>4. Left(v, s)' <= Left(v, s)
    <3>1. Probes(Cardinality(todo[v] \ {s})) \in Nat
      BY TodoSizes DEF TypeOK
    <3> QED
      BY <1>4, <2>2, <2>3, <3>1
  <2> QED
    BY <1>1, <1>3, <1>8, <2>1, <2>4, StaysSafe DEF RoundEnds
<1>9. CASE v = w /\ (Crash(w) \/ Restart(w))
  BY <1>9 DEF Crash, Restart, TypeOK
<1>10. ASSUME v = w, NEW x \in Streams, ThreadEnds(w, x) PROVE Safe(v, s)'
  <2>1. Safe(v, s) /\ lease' = lease
    BY <1>10 DEF ThreadEnds, Secured, Held, TypeOK
  <2>2. Left(v, s)' = Left(v, s)
    BY <1>10 DEF ThreadEnds, Left
  <2> QED
    BY <1>1, <1>4, <2>1, <2>2, StaysSafe
<1> QED
  BY <1>5, <1>6, <1>7, <1>8, <1>9, <1>10

LEMMA TickLease ==
  ASSUME Sound, Tick, NEW v \in Workers, NEW s \in Streams, at[v] # "down", Secured(v, s)
  PROVE  Safe(v, s)'
<1> USE DEF Sound
<1>1. UNCHANGED <<threads, at, todo, probing, faults>> /\ Safe(v, s)
  BY TickEffect DEF Secured, Held
<1>2. at[v] \in {"wait", "probe"} /\ timer[v] > 0 /\ timer'[v] = timer[v] - 1
  BY TickEffect
<1>3. /\ Probes(Cardinality(Streams) - 1) \in Nat /\ Turn \in Nat
      /\ Probes(Cardinality(todo[v] \ {s})) \in Nat /\ timer[v] \in Nat
  BY Sizes, TodoSizes DEF TypeOK
<1>4. Left(v, s) \in Nat /\ Left(v, s) > 0 /\ Left(v, s)' = Left(v, s) - 1
  <2>1. CASE at[v] = "wait"
    BY <1>1, <1>2, <1>3, <2>1 DEF Left
  <2>2. CASE at[v] = "probe"
    BY <1>1, <1>2, <1>3, <2>2 DEF Left
  <2> QED
    BY <1>2, <2>1, <2>2
<1>5. lease[s] = v /\ ttl[s] > Left(v, s) + Lost(faults)
  BY <1>1 DEF Safe
<1>6. Lost(faults) \in Nat /\ ttl[s] \in Nat
  BY LostShrinks DEF TypeOK
<1>7. ttl'[s] = ttl[s] - 1 /\ lease'[s] = lease[s]
  BY <1>4, <1>5, <1>6, TickEffect
<1>8. ttl'[s] > Left(v, s)' + Lost(faults)
  BY <1>4, <1>5, <1>6, <1>7
<1> QED
  BY <1>1, <1>5, <1>7, <1>8 DEF Safe

LEMMA SafeStep ==
  ASSUME Timely, Sound, Sound', ids # "perCall", [Next]_vars, NEW v \in Workers, NEW s \in Streams,
         at[v] # "down", at'[v] # "down", Secured(v, s)
  PROVE  Safe(v, s)'
<1>1. CASE UNCHANGED vars
  BY <1>1 DEF vars, Secured, Held, Safe, Left
<1> QED
  BY <1>1, BootLease, LookLease, ElseLease, TickLease DEF Next

LEMMA LeaseStep ==
  ASSUME Timely, Sound, Sound', ids' = ids, LeaseInv, [Next]_vars
  PROVE  LeaseInv'
<1>1. ASSUME ids # "perCall", NEW v \in Workers, NEW s \in Streams, Held(v, s)'
      PROVE  Safe(v, s)'
  <2>1. Secured(v, s)
    BY <1>1 DEF Secured, LeaseInv
  <2>2. at'[v] # "down"
    BY <1>1 DEF Sound, Phases, Held
  <2>3. at[v] # "down"
    <3>1. ASSUME at[v] = "down" PROVE FALSE
      <4>1. at'[v] = "boot" /\ threads'[v] = threads[v]
        BY <2>2, <3>1 DEF Next, vars, Tick, BootStart, StartThread, CheckRound, CheckLook, CheckStart,
                          RoundEnds, ThreadEnds, Crash, Restart, Sound, TypeOK
      <4> QED
        BY <1>1, <3>1, <4>1 DEF Held, Sound, Phases
    <3> QED
      BY <3>1
  <2> QED
    BY <1>1, <2>1, <2>2, <2>3, SafeStep
<1> QED
  BY <1>1 DEF LeaseInv

LEMMA IdsStay == [Next]_vars => ids' = ids
BY DEF Next, vars, Tick, BootStart, CheckRound, CheckLook, CheckStart, RoundEnds,
       ThreadEnds, Crash, Restart

(* A stream is processed by one worker at most, whatever crashes, restarts  *)
(* and failed calls do to the workers, when they go by one id and the time  *)
(* to live is longer than a pause, the probes of two rounds and the turns   *)
(* that lost renewals cost.                                                 *)
THEOREM OneWorkerAtATime == ASSUME Timely PROVE Spec => []OneWorker
<1>1. Init => Sound /\ LeaseInv
  <2>1. Init => LeaseInv
    BY DEF Init, LeaseInv, Held
  <2> QED
    BY <2>1, SoundInit
<1>2. Sound /\ LeaseInv /\ [Next]_vars => Sound' /\ LeaseInv'
  BY SoundStep, IdsStay, LeaseStep
<1>3. LeaseInv => OneWorker
  <2> SUFFICES ASSUME LeaseInv, ids # "perCall", NEW s \in Streams,
                      NEW v \in Workers, NEW w \in Workers, s \in threads[v], s \in threads[w]
               PROVE  v = w
    BY DEF OneWorker
  <2>1. lease[s] = v /\ lease[s] = w
    BY DEF LeaseInv, Held, Safe
  <2> QED
    BY <2>1
<1> QED
  BY <1>1, <1>2, <1>3, PTL DEF Spec

-----------------------------------------------------------------------------
(* How long a stream waits for another worker.                              *)
(*                                                                          *)
(* What a stream owes is the time it has waited and all that the faults and *)
(* crashes to come may cost it.  Within the bound, each worker that may     *)
(* take a free lease has time to come to the stream and to end its probe;   *)
(* so has the worker that holds the lease; and a lease in the name of       *)
(* nobody who is up leaves the time to live and the longest way.            *)

\* Timers, counters and keys.
Clocks ==
  /\ crashes \in 0..MaxCrashes /\ idle \in [Streams -> Nat]
  /\ \A s \in Streams : /\ lease[s] = Nobody <=> ttl[s] = 0
                        /\ ttl[s] <= TTL
                        /\ ids = "perCall" => lease[s] \in {Nobody, Stranger}
                        /\ Processed(s) => idle[s] = 0
  /\ \A w \in Workers : /\ at[w] = "wait" => timer[w] <= Period
                        /\ at[w] = "probe" => /\ timer[w] <= MaxProbe
                                              /\ probing[w] \notin todo[w]
                                              /\ TTL - ttl[probing[w]] + timer[w] <= MaxProbe

Prober(w, s)   == at[w] = "probe" /\ probing[w] = s
Starting(w, s) == at[w] = "boot" /\ s \in todo[w]

\* The latest end of the worker's next probe of the stream.
PathOf(a, t, rest, p, s) ==
  CASE a = "boot" -> Probes(Cardinality(Streams))
    [] a = "wait" -> t + Probes(Cardinality(Streams))
    [] OTHER -> t + Probes(Cardinality(rest))
                  + IF s \in rest \/ (a = "probe" /\ p = s) THEN 0 ELSE Round
Path(w, s) == PathOf(at[w], timer[w], todo[w], probing[w], s)

Rest(f, c) == (MaxFaults - f) * FaultCost + (MaxCrashes - c) * CrashCost
Owed(s)    == idle[s] + Rest(faults, crashes)

InTime(w, s) == Owed(s) + Path(w, s) <= TakeoverBound
Late(s)      == Owed(s) + ttl[s] - 1 + Return <= TakeoverBound
Probed(s)    == Owed(s) + MaxProbe - (TTL - ttl[s]) <= TakeoverBound

Free(s) ==
  lease[s] = Nobody =>
    /\ Owed(s) <= TakeoverBound
    /\ \A w \in Workers : at[w] # "down" /\ ~Starting(w, s) => InTime(w, s)

Kept(s) ==
  \A w \in Workers :
    ids # "perCall" /\ lease[s] = w /\ at[w] # "down" =>
      IF Starting(w, s) THEN Late(s)
      ELSE InTime(w, s) /\ (Late(s) \/ Safe(w, s)) /\ (Prober(w, s) => Probed(s))

Unattended(s) == \A w \in Workers : lease[s] = w => ids = "perCall" \/ at[w] = "down"

Gone(s) ==
  lease[s] # Nobody /\ Unattended(s) =>
    Late(s) \/ (ids = "perCall" /\ Probed(s) /\ \E w \in Workers : Prober(w, s))

Awaited(s) == Free(s) /\ Kept(s) /\ Gone(s)

\* The times, each a number, and how they add up.
LEMMA Spans ==
  ASSUME Timely, NEW s \in Streams
  PROVE  /\ Probes(Cardinality(Streams) - 1) \in Nat /\ Probes(Cardinality(Streams)) \in Nat
         /\ Probes(Cardinality(Streams)) = Probes(Cardinality(Streams) - 1) + MaxProbe
         /\ Round \in Nat /\ Round = Period + Probes(Cardinality(Streams))
         /\ Return \in Nat /\ Return = Probes(Cardinality(Streams) - 1) + Round
         /\ CrashCost \in Nat /\ CrashCost = TTL - 1 + Return - MaxProbe
         /\ FaultCost \in Nat /\ FaultCost >= Round /\ TTL > MaxProbe
         /\ ids = "perCall" => FaultCost = CrashCost
<1>1. /\ Probes(Cardinality(Streams) - 1) \in Nat /\ Turn \in Nat /\ MaxProbe \in Nat
      /\ Probes(Cardinality(Streams)) = Probes(Cardinality(Streams) - 1) + MaxProbe
  BY Sizes
<1>2. Round = Period + Probes(Cardinality(Streams)) /\ Return = Probes(Cardinality(Streams) - 1) + Round
  BY DEF Round, Return, Probes
<1>3. TTL > Probes(Cardinality(Streams))
  <2>1. MaxFaults * Turn \in Nat
    BY <1>1
  <2>2. PICK m \in Nat : m = MaxFaults * Turn
    BY <2>1
  <2>3. TTL > Turn + Probes(Cardinality(Streams)) + m
    BY <2>2 DEF Timely
  <2> QED
    BY <1>1, <2>3
<1>4. CrashCost = TTL - 1 + Return - MaxProbe
  BY DEF CrashCost
<1>5. CrashCost \in Nat /\ CrashCost >= Round
  BY <1>1, <1>2, <1>3, <1>4
<1> QED
  BY <1>1, <1>2, <1>3, <1>4, <1>5 DEF FaultCost

\* What is to come costs less with each fault and each crash.
LEMMA RestShrinks ==
  ASSUME Timely, NEW s \in Streams, NEW f \in 0..MaxFaults, NEW c \in 0..MaxCrashes
  PROVE  /\ Rest(f, c) \in Nat
         /\ Rest(f, c) + Return <= TakeoverBound
         /\ ids = "perCall" => Rest(f, c) + Return + TTL - 1 <= TakeoverBound
         /\ f < MaxFaults => Rest(f + 1, c) + FaultCost = Rest(f, c)
         /\ c < MaxCrashes => Rest(f, c + 1) + CrashCost = Rest(f, c)
<1>1. PICK F \in Nat : F = FaultCost
  BY Spans
<1>2. PICK C \in Nat : C = CrashCost
  BY Spans
<1>3. PICK R \in Nat : R = Return
  BY Spans
<1>4. /\ (MaxFaults - f) * F \in Nat /\ f * F \in Nat
      /\ (MaxFaults - f) * F + f * F = MaxFaults * F
      /\ f < MaxFaults => (MaxFaults - (f + 1)) * F + F = (MaxFaults - f) * F
  <2>1. MaxFaults - f \in Nat /\ f \in Nat
    OBVIOUS
  <2>2. \A x, y \in Nat : x * y \in Nat
    OBVIOUS
  <2>3. (MaxFaults - f) * F + f * F = MaxFaults * F
    OBVIOUS
  <2>4. (MaxFaults - (f + 1)) * F + F = (MaxFaults - f) * F
    OBVIOUS
  <2> QED
    BY <2>1, <2>2, <2>3, <2>4
<1>5. /\ (MaxCrashes - c) * C \in Nat /\ c * C \in Nat
      /\ (MaxCrashes - c) * C + c * C = MaxCrashes * C
      /\ c < MaxCrashes => (MaxCrashes - (c + 1)) * C + C = (MaxCrashes - c) * C
  <2>1. MaxCrashes - c \in Nat /\ c \in Nat
    OBVIOUS
  <2>2. \A x, y \in Nat : x * y \in Nat
    OBVIOUS
  <2>3. (MaxCrashes - c) * C + c * C = MaxCrashes * C
    OBVIOUS
  <2>4. (MaxCrashes - (c + 1)) * C + C = (MaxCrashes - c) * C
    OBVIOUS
  <2> QED
    BY <2>1, <2>2, <2>3, <2>4
<1>6. /\ Rest(f, c) = (MaxFaults - f) * F + (MaxCrashes - c) * C
      /\ Rest(f + 1, c) = (MaxFaults - (f + 1)) * F + (MaxCrashes - c) * C
      /\ Rest(f, c + 1) = (MaxFaults - f) * F + (MaxCrashes - (c + 1)) * C
      /\ TakeoverBound = (IF ids = "perCall" THEN TTL - 1 ELSE 0) + R + MaxFaults * F + MaxCrashes * C
  BY <1>1, <1>2, <1>3 DEF Rest, TakeoverBound
<1>7. PICK a \in Nat, b \in Nat, x \in Nat, y \in Nat :
        /\ a = (MaxFaults - f) * F /\ b = f * F
        /\ x = (MaxCrashes - c) * C /\ y = c * C
  BY <1>4, <1>5
<1>8. Rest(f, c) = a + x /\ TakeoverBound = (IF ids = "perCall" THEN TTL - 1 ELSE 0) + R + (a + b) + (x + y)
  BY <1>4, <1>5, <1>6, <1>7
<1>9. f < MaxFaults => Rest(f + 1, c) + F = Rest(f, c)
  <2> SUFFICES ASSUME f < MaxFaults PROVE Rest(f + 1, c) + F = Rest(f, c)
    OBVIOUS
  <2>1. PICK d \in Int : d = (MaxFaults - (f + 1)) * F
    OBVIOUS
  <2>2. d + F = a /\ Rest(f + 1, c) = d + x
    BY <1>4, <1>6, <1>7, <2>1
  <2> QED
    BY <1>8, <2>2
<1>10. c < MaxCrashes => Rest(f, c + 1) + C = Rest(f, c)
  <2> SUFFICES ASSUME c < MaxCrashes PROVE Rest(f, c + 1) + C = Rest(f, c)
    OBVIOUS
  <2>1. PICK d \in Int : d = (MaxCrashes - (c + 1)) * C
    OBVIOUS
  <2>2. d + C = x /\ Rest(f, c + 1) = a + d
    BY <1>5, <1>6, <1>7, <2>1
  <2> QED
    BY <1>8, <2>2
<1>11. Rest(f, c) \in Nat /\ Rest(f, c) + R <= TakeoverBound /\ (ids = "perCall" => Rest(f, c) + R + TTL - 1 <= TakeoverBound)
  BY <1>8
<1> QED
  BY <1>1, <1>2, <1>3, <1>9, <1>10, <1>11

\* No way is longer than Return; only a probe of the stream itself is shorter
\* than a probe.
Paced(a, t, rest, p) ==
  /\ a \in {"boot", "wait", "look", "probe"} /\ t \in Nat /\ rest \in SUBSET Streams
  /\ a \in {"boot", "look"} => t = 0
  /\ a = "wait" => t <= Period
  /\ a = "probe" => t <= MaxProbe /\ p \in Streams /\ p \notin rest

LEMMA PathBounds ==
  ASSUME Timely, NEW s \in Streams, NEW a, NEW t, NEW rest, NEW p, Paced(a, t, rest, p)
  PROVE  /\ PathOf(a, t, rest, p, s) \in Nat
         /\ PathOf(a, t, rest, p, s) <= Return
         /\ PathOf(a, t, rest, p, s) >= t
         /\ ~(a = "probe" /\ p = s) => PathOf(a, t, rest, p, s) >= MaxProbe
<1> DEFINE P == Probes(Cardinality(Streams) - 1)
           Q == Probes(Cardinality(Streams))
           K == Probes(Cardinality(rest))
<1>1. /\ P \in Nat /\ Q \in Nat /\ Q = P + MaxProbe /\ Round \in Nat /\ Round = Period + Q
      /\ Return = P + Round /\ MaxProbe \in Nat /\ Period \in Nat
  BY Spans
<1>2. K \in Nat /\ (s \in rest => K >= MaxProbe) /\ (s \notin rest => K <= P) /\ K <= Q
  <2>1. s \in rest => K = Probes(Cardinality(rest \ {s})) + MaxProbe
    BY TodoSizes DEF Paced
  <2>2. Probes(Cardinality(rest \ {s})) \in Nat /\ Probes(Cardinality(rest \ {s})) <= P
    BY TodoSizes DEF Paced
  <2>3. K \in Nat /\ (s \notin rest => K <= P)
    BY TodoSizes DEF Paced
  <2> QED
    BY <1>1, <2>1, <2>2, <2>3
<1>3. a = "probe" => K + MaxProbe <= Q /\ (p # s /\ s \notin rest => K + MaxProbe <= P)
  <2> SUFFICES ASSUME a = "probe" PROVE K + MaxProbe <= Q /\ (p # s /\ s \notin rest => K + MaxProbe <= P)
    OBVIOUS
  <2>1. p \in Streams /\ p \notin rest /\ rest \in SUBSET Streams
    BY DEF Paced
  <2>2. K <= P
    BY <2>1, TodoSizes
  <2>3. ASSUME p # s, s \notin rest PROVE K + MaxProbe <= P
    <3>1. rest \cup {p} \in SUBSET Streams /\ p \in rest \cup {p} /\ s \notin rest \cup {p}
      BY <2>1, <2>3
    <3>2. (rest \cup {p}) \ {p} = rest
      BY <2>1
    <3>3. Probes(Cardinality(rest \cup {p})) = K + MaxProbe
      BY <2>1, <3>1, <3>2, TodoSizes
    <3>4. Probes(Cardinality(rest \cup {p})) <= P
      BY <3>1, TodoSizes
    <3> QED
      BY <3>3, <3>4
  <2> QED
    BY <1>1, <1>2, <2>2, <2>3
<1>4. PathOf(a, t, rest, p, s) =
        CASE a = "boot" -> Q [] a = "wait" -> t + Q
          [] OTHER -> t + K + IF s \in rest \/ (a = "probe" /\ p = s) THEN 0 ELSE Round
  BY DEF PathOf
<1> HIDE DEF P, Q, K
<1>5. CASE a = "boot"
  BY <1>1, <1>4, <1>5 DEF Paced
<1>6. CASE a = "wait"
  BY <1>1, <1>4, <1>6 DEF Paced
<1>7. CASE a = "look"
  <2>1. t = 0 /\ PathOf(a, t, rest, p, s) = K + IF s \in rest THEN 0 ELSE Round
    BY <1>1, <1>2, <1>4, <1>7 DEF Paced
  <2> QED
    BY <1>1, <1>2, <2>1, <1>7
<1>8. CASE a = "probe"
  <2>1. /\ t \in Nat /\ t <= MaxProbe
        /\ PathOf(a, t, rest, p, s) = t + K + IF s \in rest \/ p = s THEN 0 ELSE Round
    BY <1>4, <1>8 DEF Paced
  <2> QED
    BY <1>1, <1>2, <1>3, <1>8, <2>1
<1> QED
  BY <1>5, <1>6, <1>7, <1>8 DEF Paced

LEMMA UpIsPaced ==
  ASSUME Sound, Clocks, NEW w \in Workers, at[w] # "down"
  PROVE  Paced(at[w], timer[w], todo[w], probing[w])
BY DEF Sound, TypeOK, Phases, Clocks, Paced

LEMMA PathShort ==
  ASSUME Timely, Sound, Clocks, NEW w \in Workers, at[w] # "down", NEW s \in Streams
  PROVE  /\ Path(w, s) \in Nat /\ Path(w, s) <= Return /\ Path(w, s) >= timer[w]
         /\ ~Prober(w, s) => Path(w, s) >= MaxProbe
BY UpIsPaced, PathBounds DEF Path, Prober

LEMMA NextPathShort ==
  ASSUME Timely, Sound', Clocks', NEW w \in Workers, at'[w] # "down", NEW s \in Streams
  PROVE  Path(w, s)' \in Nat /\ Path(w, s)' <= Return
<1>1. Paced(at'[w], timer'[w], todo'[w], probing'[w])
  BY DEF Sound, TypeOK, Phases, Clocks, Paced
<1> QED
  BY <1>1, PathBounds DEF Path

-----------------------------------------------------------------------------
\* The clocks, action by action.
LEMMA CallClocks ==
  ASSUME Sound, Clocks, NEW w \in Workers, NEW x \in Streams, Grant(w, x) \/ Refuse(w, x),
         ids' = ids, NEW s \in Streams
  PROVE  /\ lease'[s] = Nobody <=> ttl'[s] = 0
         /\ ttl'[s] <= TTL
         /\ ids' = "perCall" => lease'[s] \in {Nobody, Stranger}
         /\ ttl'[s] = ttl[s] \/ ttl'[s] = TTL
         /\ Grant(w, x) => ttl'[x] = TTL
<1>1. CASE Refuse(w, x)
  <2>1. UNCHANGED <<lease, ttl>>
    BY <1>1 DEF Refuse
  <2> QED
    BY <2>1 DEF Clocks, Grant, Sound, TypeOK
<1>2. CASE Grant(w, x)
  <2>1. lease'[x] = (IF lease[x] = Nobody THEN IdOf(w) ELSE lease[x]) /\ ttl'[x] = TTL
    BY <1>2 DEF Grant, Sound, TypeOK
  <2>2. \A y \in Streams \ {x} : lease'[y] = lease[y] /\ ttl'[y] = ttl[y]
    BY <1>2 DEF Grant, Sound, TypeOK
  <2>3. IdOf(w) # Nobody /\ (ids = "perCall" => IdOf(w) = Stranger)
    BY DEF IdOf
  <2> QED
    BY <2>1, <2>2, <2>3 DEF Clocks
<1> QED
  BY <1>1, <1>2

LEMMA BootClocks ==
  ASSUME Sound, Clocks, NEW w \in Workers, BootStart(w)
  PROVE  Clocks'
<1>1. PICK x \in todo[w] : /\ at[w] = "boot"
                           /\ \/ Grant(w, x) /\ StartThread(w, x)
                              \/ Refuse(w, x) /\ UNCHANGED <<threads, idle>>
                           /\ todo' = [todo EXCEPT ![w] = @ \ {x}]
                           /\ UNCHANGED <<ids, at, probing, timer, crashes>>
  BY DEF BootStart
<1>2. x \in Streams
  BY DEF Sound, TypeOK
<1>3. idle' \in [Streams -> Nat] /\ \A s \in Streams : Processed(s)' => idle'[s] = 0
  <2>1. CASE StartThread(w, x)
    <3>1. idle' = [idle EXCEPT ![x] = 0] /\ threads' = [threads EXCEPT ![w] = @ \cup {x}]
      BY <2>1 DEF StartThread
    <3>2. \A s \in Streams \ {x} : Processed(s)' => Processed(s)
      BY <3>1 DEF Processed, Sound, TypeOK
    <3> QED
      BY <3>1, <3>2, <1>2 DEF Clocks
  <2>2. CASE UNCHANGED <<threads, idle>>
    BY <2>2 DEF Clocks, Processed
  <2> QED
    BY <1>1, <2>1, <2>2
<1>4. \A s \in Streams : /\ lease'[s] = Nobody <=> ttl'[s] = 0
                         /\ ttl'[s] <= TTL /\ (ttl'[s] = ttl[s] \/ ttl'[s] = TTL)
                         /\ ids' = "perCall" => lease'[s] \in {Nobody, Stranger}
  BY <1>1, <1>2, CallClocks
<1>5. ASSUME NEW v \in Workers, at'[v] = "probe"
      PROVE  timer'[v] <= MaxProbe /\ probing'[v] \notin todo'[v] /\ TTL - ttl'[probing'[v]] + timer'[v] <= MaxProbe
  <2>1. at[v] = "probe" /\ todo'[v] = todo[v] /\ timer'[v] = timer[v] /\ probing'[v] = probing[v]
    BY <1>1, <1>5 DEF Sound, TypeOK
  <2>2. /\ timer[v] <= MaxProbe /\ timer[v] \in Nat /\ probing[v] \in Streams /\ ttl[probing[v]] \in Nat
        /\ probing[v] \notin todo[v] /\ TTL - ttl[probing[v]] + timer[v] <= MaxProbe
    BY <2>1 DEF Clocks, Sound, Phases, TypeOK
  <2> QED
    BY <1>4, <2>1, <2>2
<1> QED
  BY <1>1, <1>3, <1>4, <1>5 DEF Clocks

LEMMA LookClocks ==
  ASSUME Sound, Clocks, NEW w \in Workers, CheckLook(w)
  PROVE  Clocks'
<1>1. PICK x \in todo[w] :
        /\ at[w] = "look"
        /\ todo' = [todo EXCEPT ![w] = @ \ {x}]
        /\ Grant(w, x) \/ Refuse(w, x)
        /\ \/ UNCHANGED <<at, probing, timer>>
           \/ /\ Grant(w, x)
              /\ at' = [at EXCEPT ![w] = "probe"] /\ probing' = [probing EXCEPT ![w] = x]
              /\ \E d \in 0..MaxProbe : timer' = [timer EXCEPT ![w] = d]
        /\ UNCHANGED <<ids, threads, crashes, idle>>
  BY DEF CheckLook, Renewal
<1>2. x \in Streams
  BY DEF Sound, TypeOK
<1>3. idle' \in [Streams -> Nat] /\ \A s \in Streams : Processed(s)' => idle'[s] = 0
  BY <1>1 DEF Clocks, Processed
<1>4. \A s \in Streams : /\ lease'[s] = Nobody <=> ttl'[s] = 0
                         /\ ttl'[s] <= TTL /\ (ttl'[s] = ttl[s] \/ ttl'[s] = TTL)
                         /\ ids' = "perCall" => lease'[s] \in {Nobody, Stranger}
  BY <1>1, <1>2, CallClocks
<1>5. ASSUME NEW v \in Workers, at'[v] = "probe"
      PROVE  timer'[v] <= MaxProbe /\ probing'[v] \notin todo'[v] /\ TTL - ttl'[probing'[v]] + timer'[v] <= MaxProbe
  <2>1. CASE v # w
    <3>1. at[v] = "probe" /\ todo'[v] = todo[v] /\ timer'[v] = timer[v] /\ probing'[v] = probing[v]
      BY <1>1, <1>5, <2>1 DEF Sound, TypeOK
    <3>2. /\ timer[v] <= MaxProbe /\ timer[v] \in Nat /\ probing[v] \in Streams /\ ttl[probing[v]] \in Nat
          /\ probing[v] \notin todo[v] /\ TTL - ttl[probing[v]] + timer[v] <= MaxProbe
      BY <3>1 DEF Clocks, Sound, Phases, TypeOK
    <3> QED
      BY <1>4, <3>1, <3>2
  <2>2. CASE v = w
    <3>1. /\ Grant(w, x) /\ probing'[v] = x /\ timer'[v] \in 0..MaxProbe /\ todo'[v] = todo[v] \ {x}
      BY <1>1, <1>5, <2>2 DEF Sound, TypeOK
    <3>2. ttl'[x] = TTL
      BY <1>1, <1>2, <3>1, CallClocks
    <3> QED
      BY <3>1, <3>2
  <2> QED
    BY <2>1, <2>2
<1>6. ASSUME NEW v \in Workers, at'[v] = "wait" PROVE timer'[v] <= Period
  <2>1. v # w /\ at[v] = "wait" /\ timer'[v] = timer[v]
    BY <1>1, <1>6 DEF Sound, TypeOK
  <2> QED
    BY <2>1 DEF Clocks
<1> QED
  BY <1>1, <1>3, <1>4, <1>5, <1>6 DEF Clocks

\* Steps that touch no key.
LEMMA ElseClocks ==
  ASSUME Sound, Clocks, NEW w \in Workers,
         \/ CheckRound(w) \/ CheckStart(w) \/ RoundEnds(w) \/ Crash(w) \/ Restart(w)
         \/ \E x \in Streams : ThreadEnds(w, x)
  PROVE  Clocks'
<1>1. ids' = ids /\ ttl' = ttl /\ crashes' \in 0..MaxCrashes
  BY DEF CheckRound, CheckStart, RoundEnds, Crash, Restart, ThreadEnds, Clocks
<1>2. \A s \in Streams : lease'[s] = lease[s] \/ (lease[s] = w /\ lease'[s] = Stranger)
  BY DEF CheckRound, CheckStart, RoundEnds, Crash, Restart, ThreadEnds
<1>3. \A s \in Streams : /\ lease'[s] = Nobody <=> ttl'[s] = 0
                         /\ ttl'[s] <= TTL
                         /\ ids' = "perCall" => lease'[s] \in {Nobody, Stranger}
  BY <1>1, <1>2 DEF Clocks
<1>4. idle' \in [Streams -> Nat] /\ \A s \in Streams : Processed(s)' => idle'[s] = 0
  <2>1. CASE \E x \in Streams : StartThread(w, x)
    <3>1. PICK x \in Streams : idle' = [idle EXCEPT ![x] = 0] /\ threads' = [threads EXCEPT ![w] = @ \cup {x}]
      BY <2>1 DEF StartThread
    <3>2. \A s \in Streams \ {x} : Processed(s)' => Processed(s)
      BY <3>1 DEF Processed, Sound, TypeOK
    <3> QED
      BY <3>1, <3>2 DEF Clocks
  <2>2. CASE idle' = idle /\ \A v \in Workers : threads'[v] \subseteq threads[v]
    BY <2>2 DEF Clocks, Processed
  <2>3. CASE CheckStart(w)
    <3>1. probing[w] \in Streams
      BY <2>3 DEF CheckStart, Sound, Phases
    <3> QED
      BY <2>1, <2>2, <2>3, <3>1 DEF CheckStart
  <2>4. CASE Crash(w)
    BY <2>2, <2>4 DEF Crash, Sound, TypeOK
  <2>5. ASSUME NEW x \in Streams, ThreadEnds(w, x) PROVE idle' = idle /\ \A v \in Workers : threads'[v] \subseteq threads[v]
    BY <2>5 DEF ThreadEnds, Sound, TypeOK
  <2> QED
    BY <2>2, <2>3, <2>4, <2>5 DEF CheckRound, RoundEnds, Restart
<1>5. ASSUME NEW v \in Workers, at'[v] = "probe"
      PROVE  timer'[v] <= MaxProbe /\ probing'[v] \notin todo'[v] /\ TTL - ttl'[probing'[v]] + timer'[v] <= MaxProbe
  <2>1. at[v] = "probe" /\ todo'[v] = todo[v] /\ timer'[v] = timer[v] /\ probing'[v] = probing[v]
    BY <1>5 DEF CheckRound, CheckStart, RoundEnds, Crash, Restart, ThreadEnds, Sound, TypeOK
  <2> QED
    BY <1>1, <2>1 DEF Clocks
<1>6. ASSUME NEW v \in Workers, at'[v] = "wait" PROVE timer'[v] <= Period
  BY <1>6 DEF CheckRound, CheckStart, RoundEnds, Crash, Restart, ThreadEnds, Sound, TypeOK, Clocks
<1> QED
  BY <1>1, <1>3, <1>4, <1>5, <1>6 DEF Clocks

\* A tick, at one stream.
LEMMA TickAt ==
  ASSUME Sound, Clocks, Tick, NEW s \in Streams
  PROVE  /\ ttl'[s] = (IF ttl[s] = 0 THEN 0 ELSE ttl[s] - 1)
         /\ lease'[s] = (IF ttl'[s] = 0 THEN Nobody ELSE lease[s])
         /\ idle'[s] \in Nat /\ idle'[s] <= idle[s] + 1
         /\ (\A w \in Workers : at[w] = "down") => idle'[s] = 0
         /\ Processed(s)' => idle'[s] = 0
         /\ UNCHANGED <<ids, threads, at, todo, probing, faults, crashes>>
<1>1. idle[s] \in Nat
  BY DEF Clocks
<1>2. idle'[s] = IF Processed(s) \/ \A w \in Workers : at[w] = "down" THEN 0
                 ELSE IF idle[s] > TakeoverBound THEN idle[s] ELSE idle[s] + 1
  BY DEF Tick
<1>3. Processed(s)' => Processed(s)
  BY DEF Tick, Processed
<1>4. /\ ttl'[s] = (IF ttl[s] = 0 THEN 0 ELSE ttl[s] - 1)
      /\ lease'[s] = (IF ttl'[s] = 0 THEN Nobody ELSE lease[s])
      /\ UNCHANGED <<ids, threads, at, todo, probing, faults, crashes>>
  BY DEF Tick
<1> QED
  BY <1>1, <1>2, <1>3, <1>4

LEMMA TickClocks ==
  ASSUME Timely, Sound, Clocks, Tick
  PROVE  Clocks'
<1>1. idle' \in [Streams -> Nat]
  <2>1. idle' = [s \in Streams |-> idle'[s]]
    BY DEF Tick
  <2> QED
    BY <2>1, TickAt
<1>2. ASSUME NEW s \in Streams
      PROVE  /\ lease'[s] = Nobody <=> ttl'[s] = 0
             /\ ttl'[s] <= TTL
             /\ ids' = "perCall" => lease'[s] \in {Nobody, Stranger}
             /\ Processed(s)' => idle'[s] = 0
  <2>1. ttl[s] \in Nat /\ (lease[s] = Nobody <=> ttl[s] = 0) /\ ttl[s] <= TTL
    BY DEF Sound, TypeOK, Clocks
  <2> QED
    BY <2>1, TickAt DEF Clocks
<1>3. \A w \in Workers : at'[w] = "wait" => timer'[w] <= Period
  BY TickEffect DEF Clocks, Sound, TypeOK
<1>4. ASSUME NEW w \in Workers, at'[w] = "probe"
      PROVE  timer'[w] <= MaxProbe /\ probing'[w] \notin todo'[w] /\ TTL - ttl'[probing'[w]] + timer'[w] <= MaxProbe
  <2>1. /\ at[w] = "probe" /\ todo'[w] = todo[w] /\ probing'[w] = probing[w]
        /\ timer[w] \in Nat /\ timer[w] > 0 /\ timer'[w] = timer[w] - 1
    BY <1>4, TickEffect DEF Sound, TypeOK
  <2>2. probing[w] \in Streams /\ ttl[probing[w]] \in Nat
    BY <2>1 DEF Sound, TypeOK, Phases
  <2>3. timer[w] <= MaxProbe /\ probing[w] \notin todo[w] /\ TTL - ttl[probing[w]] + timer[w] <= MaxProbe
    BY <2>1 DEF Clocks
  <2>4. TTL > MaxProbe
    BY <2>2, Spans
  <2>5. ttl'[probing[w]] = ttl[probing[w]] - 1
    BY <2>1, <2>2, <2>3, <2>4, TickAt
  <2> QED
    BY <2>1, <2>2, <2>3, <2>5
<1> QED
  BY <1>1, <1>2, <1>3, <1>4, TickEffect DEF Clocks, Tick

LEMMA ClocksStep == ASSUME Timely, Sound, Clocks, [Next]_vars PROVE Clocks'
<1>1. CASE UNCHANGED vars
  BY <1>1 DEF vars, Clocks, Processed
<1> QED
  BY <1>1, BootClocks, LookClocks, ElseClocks, TickClocks DEF Next

-----------------------------------------------------------------------------
(* Awaited, action by action.  What a step leaves alone stays as it was.    *)

\* What a step owes to a stream: no more than before, when no time passes.
LEMMA OwedFalls ==
  ASSUME Timely, Sound, Sound', Clocks, Clocks', ids' = ids, NEW s \in Streams,
         idle'[s] = idle[s] \/ idle'[s] = 0,
         \/ faults' = faults /\ crashes' = crashes
         \/ faults' = faults + 1 /\ crashes' = crashes
         \/ faults' = faults /\ crashes' = crashes + 1
  PROVE  /\ Owed(s) \in Nat /\ Owed(s)' \in Nat /\ Owed(s)' <= Owed(s)
         /\ faults' = faults + 1 => Owed(s)' + FaultCost <= Owed(s)
         /\ crashes' = crashes + 1 => Owed(s)' + CrashCost <= Owed(s)
<1>1. /\ faults \in 0..MaxFaults /\ crashes \in 0..MaxCrashes
      /\ faults' \in 0..MaxFaults /\ crashes' \in 0..MaxCrashes
      /\ idle[s] \in Nat /\ idle'[s] \in Nat
  BY DEF Sound, TypeOK, Clocks
<1>2. FaultCost \in Nat /\ CrashCost \in Nat
  BY Spans
<1>3. Owed(s) = idle[s] + Rest(faults, crashes) /\ Owed(s)' = idle'[s] + Rest(faults', crashes')
  BY DEF Owed, Rest, FaultCost
<1>4. CASE faults' = faults /\ crashes' = crashes
  <2>1. Rest(faults, crashes) \in Nat
    BY <1>1, RestShrinks
  <2> QED
    BY <1>1, <1>2, <1>3, <1>4, <2>1
<1>5. CASE faults' = faults + 1 /\ crashes' = crashes
  <2>1. faults < MaxFaults
    BY <1>1, <1>5
  <2>2. /\ Rest(faults, crashes) \in Nat /\ Rest(faults', crashes') \in Nat
        /\ Rest(faults', crashes') + FaultCost = Rest(faults, crashes)
    BY <1>1, <1>5, <2>1, RestShrinks
  <2> QED
    BY <1>1, <1>2, <1>3, <1>5, <2>2
<1>6. CASE faults' = faults /\ crashes' = crashes + 1
  <2>1. crashes < MaxCrashes
    BY <1>1, <1>6
  <2>2. /\ Rest(faults, crashes) \in Nat /\ Rest(faults', crashes') \in Nat
        /\ Rest(faults', crashes') + CrashCost = Rest(faults, crashes)
    BY <1>1, <1>6, <2>1, RestShrinks
  <2> QED
    BY <1>1, <1>2, <1>3, <1>6, <2>2
<1> QED
  BY <1>4, <1>5, <1>6

\* The bound and the costs do not change.
LEMMA BoundStays ==
  ASSUME ids' = ids
  PROVE  /\ TakeoverBound' = TakeoverBound /\ FaultCost' = FaultCost
         /\ \A f, c : Rest(f, c)' = Rest(f, c)
BY DEF TakeoverBound, FaultCost, Rest

LEMMA BoundIsNumber == ASSUME Timely, NEW s \in Streams PROVE TakeoverBound \in Nat
<1>1. Return \in Nat /\ FaultCost \in Nat /\ CrashCost \in Nat
  BY Spans
<1>2. \A x, y \in Nat : x * y \in Nat
  OBVIOUS
<1>3. MaxFaults * FaultCost \in Nat /\ MaxCrashes * CrashCost \in Nat
  BY <1>1, <1>2
<1>4. PICK a \in Nat, b \in Nat : a = MaxFaults * FaultCost /\ b = MaxCrashes * CrashCost
  BY <1>3
<1>5. TakeoverBound = (IF ids = "perCall" THEN TTL - 1 ELSE 0) + Return + a + b
  BY <1>4 DEF TakeoverBound
<1> QED
  BY <1>1, <1>5

\* A stream that has just been processed can wait.
LEMMA FreshInTime ==
  ASSUME Timely, Sound', Clocks', ids' = ids, NEW s \in Streams, idle'[s] = 0
  PROVE  /\ Owed(s)' <= TakeoverBound'
         /\ \A w \in Workers : at'[w] # "down" => InTime(w, s)'
         /\ ids = "perCall" => Late(s)'
<1>1. Owed(s)' = Rest(faults', crashes') /\ TakeoverBound' = TakeoverBound
  <2>1. faults' \in 0..MaxFaults /\ crashes' \in 0..MaxCrashes
    BY DEF Sound, TypeOK, Clocks
  <2>2. Rest(faults', crashes') \in Nat
    BY <2>1, RestShrinks
  <2>3. Owed(s)' = 0 + Rest(faults', crashes')
    BY DEF Owed, Rest, FaultCost
  <2> QED
    BY <2>2, <2>3, BoundStays
<1>2. /\ Rest(faults', crashes') \in Nat /\ Rest(faults', crashes') + Return <= TakeoverBound
      /\ ids = "perCall" => Rest(faults', crashes') + Return + TTL - 1 <= TakeoverBound
  <2>1. faults' \in 0..MaxFaults /\ crashes' \in 0..MaxCrashes
    BY DEF Sound, TypeOK, Clocks
  <2> QED
    BY <2>1, RestShrinks
<1>3. Return \in Nat /\ TakeoverBound \in Int /\ ttl'[s] \in Nat /\ ttl'[s] <= TTL
  BY Spans, BoundIsNumber DEF Sound, TypeOK, Clocks
<1>4. \A w \in Workers : at'[w] # "down" => Path(w, s)' \in Nat /\ Path(w, s)' <= Return
  BY NextPathShort
<1>5. Owed(s)' <= TakeoverBound'
  BY <1>1, <1>2, <1>3
<1>6. ASSUME NEW w \in Workers, at'[w] # "down" PROVE InTime(w, s)'
  <2>1. Owed(s)' + Path(w, s)' <= TakeoverBound'
    BY <1>1, <1>2, <1>3, <1>4, <1>6
  <2> QED
    BY <2>1 DEF InTime
<1>7. ASSUME ids = "perCall" PROVE Late(s)'
  <2>1. Owed(s)' + ttl'[s] - 1 + Return <= TakeoverBound'
    BY <1>1, <1>2, <1>3, <1>7
  <2> QED
    BY <2>1 DEF Late, Return, Round
<1> QED
  BY <1>5, <1>6, <1>7

\* What holds on both sides of a step.
Between(s) ==
  /\ Sound /\ Sound' /\ Clocks /\ Clocks' /\ LeaseInv /\ ids' = ids
  /\ \A v \in Workers :
       ids # "perCall" /\ at[v] # "down" /\ at'[v] # "down" /\ Secured(v, s) => Safe(v, s)'

Cheaper(s) == Owed(s) \in Nat /\ Owed(s)' \in Nat /\ Owed(s)' <= Owed(s)

\* A worker goes on as it did, as far as the stream is concerned.
Alike(v, s) ==
  /\ at'[v] = "down" <=> at[v] = "down"
  /\ Prober(v, s)' <=> Prober(v, s)
  /\ Starting(v, s)' => Starting(v, s)
  /\ /\ at[v] # "down" /\ ~Starting(v, s)' /\ lease[s] \in {Nobody, v}
     /\ IF Starting(v, s) THEN Owed(s) <= TakeoverBound ELSE InTime(v, s)
     => InTime(v, s)'

LEMMA Undisturbed ==
  ASSUME Timely, NEW s \in Streams, Between(s), Awaited(s), Cheaper(s),
         lease'[s] = lease[s], ttl'[s] = ttl[s], \A v \in Workers : Alike(v, s)
  PROVE  Awaited(s)'
<1>1. /\ TakeoverBound' = TakeoverBound /\ ids' = ids /\ Return' = Return
      /\ ttl[s] \in Nat /\ ttl[s] <= TTL /\ (lease[s] = Nobody <=> ttl[s] = 0)
      /\ Owed(s) \in Nat /\ Owed(s)' \in Nat /\ Owed(s)' <= Owed(s)
      /\ Return \in Nat /\ TakeoverBound \in Int
  <2>1. Return' = Return
    BY DEF Return, Round
  <2> QED
    BY <2>1, Spans, BoundIsNumber, BoundStays DEF Between, Sound, TypeOK, Clocks, Cheaper
<1>2. Late(s) => Late(s)'
  BY <1>1 DEF Late
<1>3. Probed(s) => Probed(s)'
  BY <1>1 DEF Probed
<1>4. Late(s) /\ lease[s] # Nobody => Owed(s) <= TakeoverBound
  BY <1>1 DEF Late
<1>5. Free(s)'
  <2> SUFFICES ASSUME lease[s] = Nobody
               PROVE  /\ Owed(s)' <= TakeoverBound
                      /\ \A w \in Workers : at'[w] # "down" /\ ~Starting(w, s)' => InTime(w, s)'
    BY <1>1 DEF Free
  <2>1. Owed(s) <= TakeoverBound /\ \A w \in Workers : at[w] # "down" /\ ~Starting(w, s) => InTime(w, s)
    BY DEF Awaited, Free
  <2>2. Owed(s)' <= TakeoverBound
    BY <1>1, <2>1
  <2> QED
    BY <2>1, <2>2 DEF Alike
<1>6. Kept(s)'
  <2> SUFFICES ASSUME NEW w \in Workers, ids # "perCall", lease[s] = w, at'[w] # "down"
               PROVE  IF Starting(w, s)' THEN Late(s)'
                      ELSE InTime(w, s)' /\ (Late(s)' \/ Safe(w, s)') /\ (Prober(w, s)' => Probed(s)')
    BY <1>1 DEF Kept
  <2>1. at[w] # "down"
    BY DEF Alike
  <2>2. IF Starting(w, s) THEN Late(s)
        ELSE InTime(w, s) /\ (Late(s) \/ Safe(w, s)) /\ (Prober(w, s) => Probed(s))
    BY <2>1 DEF Awaited, Kept
  <2>3. Safe(w, s) => Safe(w, s)'
    BY <2>1 DEF Between, Secured
  <2>4. CASE Starting(w, s)
    <3>1. Owed(s) <= TakeoverBound
      BY <1>4, <2>2, <2>4
    <3>2. ~Prober(w, s)'
      BY <2>4 DEF Alike, Starting, Prober
    <3> QED
      BY <1>2, <2>1, <2>2, <2>4, <3>1, <3>2 DEF Alike
  <2>5. CASE ~Starting(w, s)
    BY <1>2, <1>3, <2>1, <2>2, <2>3, <2>5 DEF Alike
  <2> QED
    BY <2>4, <2>5
<1>7. Gone(s)'
  <2> SUFFICES ASSUME lease[s] # Nobody, Unattended(s)'
               PROVE  Late(s)' \/ (ids = "perCall" /\ Probed(s)' /\ \E w \in Workers : Prober(w, s)')
    BY <1>1 DEF Gone
  <2>1. Unattended(s)
    BY <1>1 DEF Unattended, Alike
  <2> QED
    BY <1>2, <1>3, <2>1 DEF Awaited, Gone, Alike
<1> QED
  BY <1>5, <1>6, <1>7 DEF Awaited

\* A worker that does not move goes on as it did.
LEMMA StillAlike ==
  ASSUME Timely, NEW s \in Streams, Between(s), Cheaper(s), NEW v \in Workers,
         at'[v] = at[v], timer'[v] = timer[v], todo'[v] = todo[v], probing'[v] = probing[v]
  PROVE  Alike(v, s)
<1>1. (Prober(v, s)' <=> Prober(v, s)) /\ (Starting(v, s)' <=> Starting(v, s))
  BY DEF Prober, Starting
<1>2. Path(v, s)' = Path(v, s)
  BY DEF Path, PathOf, Round
<1>3. at[v] # "down" => Path(v, s) \in Nat
  BY PathShort DEF Between
<1>4. at[v] # "down" /\ InTime(v, s) => InTime(v, s)'
  <2> SUFFICES ASSUME at[v] # "down", InTime(v, s) PROVE InTime(v, s)'
    OBVIOUS
  <2>1. PICK L : L = TakeoverBound /\ L = TakeoverBound' /\ L \in Int
    BY BoundIsNumber, BoundStays DEF Between
  <2> QED
    BY <1>2, <1>3, <2>1 DEF InTime, Cheaper
<1> QED
  BY <1>1, <1>4 DEF Alike

\* A worker whose way got no longer, but for what the stream now owes less.
LEMMA SoonerAlike ==
  ASSUME Timely, NEW s \in Streams, Between(s), Cheaper(s), NEW v \in Workers,
         at[v] # "down", at'[v] # "down", ~Starting(v, s), ~Starting(v, s)',
         Prober(v, s)' <=> Prober(v, s),
         Owed(s)' + Path(v, s)' <= Owed(s) + Path(v, s)
  PROVE  Alike(v, s)
<1>1. Path(v, s) \in Nat /\ Path(v, s)' \in Nat
  BY PathShort, NextPathShort DEF Between
<1>2. InTime(v, s) => InTime(v, s)'
  <2>1. PICK L : L = TakeoverBound /\ L = TakeoverBound' /\ L \in Int
    BY BoundIsNumber, BoundStays DEF Between
  <2> QED
    BY <1>1, <2>1 DEF InTime, Cheaper
<1> QED
  BY <1>2 DEF Alike

LEMMA PathParts ==
  ASSUME Timely, Sound, Clocks, NEW w \in Workers, NEW s \in Streams
  PROVE  /\ at[w] = "boot" => Path(w, s) = Probes(Cardinality(Streams))
         /\ at[w] = "wait" => Path(w, s) = timer[w] + Probes(Cardinality(Streams))
         /\ at[w] \in {"look", "probe"} =>
              Path(w, s) = timer[w] + Probes(Cardinality(todo[w]))
                             + IF s \in todo[w] \/ Prober(w, s) THEN 0 ELSE Round
         /\ timer[w] \in Nat /\ Probes(Cardinality(todo[w])) \in Nat
<1>1. timer[w] \in Nat /\ todo[w] \in SUBSET Streams
  BY DEF Sound, TypeOK
<1> QED
  BY <1>1, TodoSizes DEF Path, PathOf, Prober

LEMMA NextPathParts ==
  ASSUME Timely, Sound', Clocks', NEW w \in Workers, NEW s \in Streams
  PROVE  /\ at'[w] = "boot" => Path(w, s)' = Probes(Cardinality(Streams))
         /\ at'[w] = "wait" => Path(w, s)' = timer'[w] + Probes(Cardinality(Streams))
         /\ at'[w] \in {"look", "probe"} =>
              Path(w, s)' = timer'[w] + Probes(Cardinality(todo'[w]))
                             + IF s \in todo'[w] \/ Prober(w, s)' THEN 0 ELSE Round
         /\ timer'[w] \in Nat /\ Probes(Cardinality(todo'[w])) \in Nat
<1>1. timer'[w] \in Nat /\ todo'[w] \in SUBSET Streams
  BY DEF Sound, TypeOK
<1> QED
  BY <1>1, TodoSizes DEF Path, PathOf, Prober, Round

\* A look at another stream, and one that is refused.
LEMMA PassAwaited ==
  ASSUME Timely, NEW s \in Streams, Between(s), Awaited(s), NEW w \in Workers, NEW x \in todo[w],
         at[w] = "look", todo' = [todo EXCEPT ![w] = @ \ {x}],
         UNCHANGED <<threads, crashes, idle>>,
         \/ (Grant(w, x) \/ Refuse(w, x)) /\ UNCHANGED <<at, probing, timer>>
         \/ /\ Grant(w, x)
            /\ at' = [at EXCEPT ![w] = "probe"] /\ probing' = [probing EXCEPT ![w] = x]
            /\ \E d \in 0..MaxProbe : timer' = [timer EXCEPT ![w] = d],
         s # x \/ (Refuse(w, x) /\ UNCHANGED <<at, probing, timer>>)
  PROVE  Awaited(s)'
<1>1. /\ Sound /\ Sound' /\ Clocks /\ Clocks' /\ ids' = ids /\ x \in Streams /\ timer[w] = 0
      /\ todo[w] \in SUBSET Streams
  BY DEF Between, Sound, TypeOK, Phases
<1>2. faults' = faults \/ faults' = faults + 1
  BY DEF Grant, Refuse
<1>3. /\ Cheaper(s)
      /\ faults' = faults + 1 => Owed(s)' + FaultCost <= Owed(s)
  BY <1>1, <1>2, OwedFalls DEF Cheaper
<1>4. lease'[s] = lease[s] /\ ttl'[s] = ttl[s]
  BY <1>1 DEF Grant, Refuse, Sound, TypeOK
<1>5. ASSUME NEW v \in Workers, v # w PROVE Alike(v, s)
  <2>1. at'[v] = at[v] /\ timer'[v] = timer[v] /\ todo'[v] = todo[v] /\ probing'[v] = probing[v]
    BY <1>1, <1>5 DEF Sound, TypeOK
  <2> QED
    BY <1>3, <2>1, StillAlike
<1>6. /\ todo'[w] = todo[w] \ {x} /\ at'[w] \in {"look", "probe"}
      /\ Probes(Cardinality(todo[w])) = Probes(Cardinality(todo'[w])) + MaxProbe
      /\ timer'[w] \in 0..MaxProbe /\ (at'[w] = "probe" => probing'[w] = x)
      /\ (at'[w] = "look" => timer'[w] = 0)
  <2>1. todo'[w] = todo[w] \ {x}
    BY <1>1 DEF Sound, TypeOK
  <2>2. Probes(Cardinality(todo[w])) = Probes(Cardinality(todo[w] \ {x})) + MaxProbe
    BY <1>1, TodoSizes
  <2>3. /\ at'[w] \in {"look", "probe"} /\ timer'[w] \in 0..MaxProbe /\ (at'[w] = "probe" => probing'[w] = x)
        /\ (at'[w] = "look" => timer'[w] = 0)
    BY <1>1 DEF Sound, TypeOK
  <2> QED
    BY <2>1, <2>2, <2>3
<1>7. /\ Path(w, s) = 0 + Probes(Cardinality(todo[w])) + IF s \in todo[w] THEN 0 ELSE Round
      /\ Probes(Cardinality(todo'[w])) \in Nat /\ Round \in Nat /\ FaultCost \in Nat /\ FaultCost >= Round
  BY <1>1, PathParts, NextPathParts, Spans DEF Prober
<1>8. ~Starting(w, s) /\ ~Starting(w, s)' /\ ~Prober(w, s)
  BY <1>6 DEF Starting, Prober
<1>9. CASE s # x
  <2>1. ~Prober(w, s)' /\ (s \in todo'[w] <=> s \in todo[w])
    BY <1>6, <1>9 DEF Prober
  <2>2. Path(w, s)' = timer'[w] + Probes(Cardinality(todo'[w])) + IF s \in todo'[w] THEN 0 ELSE Round
    BY <1>1, <1>6, <2>1, NextPathParts
  <2>3. Path(w, s)' <= Path(w, s) /\ Path(w, s) \in Nat /\ Path(w, s)' \in Nat
    <3>1. PICK k \in Nat : k = Probes(Cardinality(todo'[w]))
      BY <1>7
    <3>2. PICK e \in Nat : e = IF s \in todo[w] THEN 0 ELSE Round
      BY <1>7
    <3>3. Path(w, s) = k + MaxProbe + e /\ Path(w, s)' = timer'[w] + k + e
      BY <1>6, <1>7, <2>1, <2>2, <3>1, <3>2
    <3>4. timer'[w] \in 0..MaxProbe
      BY <1>6
    <3> QED
      BY <3>3, <3>4
  <2>4. Owed(s)' + Path(w, s)' <= Owed(s) + Path(w, s)
    BY <1>3, <2>3 DEF Cheaper
  <2>5. Alike(w, s)
    BY <1>3, <1>6, <1>8, <2>1, <2>4, SoonerAlike
  <2> QED
    BY <1>3, <1>4, <1>5, <2>5, Undisturbed
<1>10. CASE s = x /\ Refuse(w, x) /\ UNCHANGED <<at, probing, timer>>
  <2>1. ~Prober(w, s)' /\ at'[w] = "look" /\ timer'[w] = 0
    BY <1>1, <1>10 DEF Prober
  <2>2. CASE lease[s] \notin {Nobody, w}
    <3>1. Alike(w, s)
      BY <1>8, <1>10, <2>1, <2>2 DEF Alike
    <3> QED
      BY <1>3, <1>4, <1>5, <3>1, Undisturbed
  <2>3. CASE faults' = faults + 1
    <3>1. Path(w, s)' = 0 + Probes(Cardinality(todo'[w])) + Round
      BY <1>1, <1>6, <1>10, <2>1, NextPathParts
    <3>2. Path(w, s) = Probes(Cardinality(todo'[w])) + MaxProbe
      BY <1>6, <1>7, <1>10
    <3>3. Owed(s)' + Path(w, s)' <= Owed(s) + Path(w, s)
      BY <1>3, <1>7, <2>3, <3>1, <3>2 DEF Cheaper
    <3>4. Alike(w, s)
      BY <1>3, <1>8, <2>1, <3>3, SoonerAlike
    <3> QED
      BY <1>3, <1>4, <1>5, <3>4, Undisturbed
  <2> QED
    BY <1>10, <2>2, <2>3 DEF Refuse
<1> QED
  BY <1>9, <1>10

\* A stream that is processed, or was until now.
LEMMA FreshAwaited ==
  ASSUME Timely, NEW s \in Streams, Between(s), NEW w \in Workers,
         at'[w] # "down", ~Starting(w, s)', ~Prober(w, s)', idle'[s] = 0,
         ids # "perCall" => lease'[s] = w /\ Safe(w, s)'
  PROVE  Awaited(s)'
<1>1. /\ Owed(s)' <= TakeoverBound'
      /\ \A v \in Workers : at'[v] # "down" => InTime(v, s)'
      /\ ids' = "perCall" => Late(s)'
  BY FreshInTime DEF Between
<1>2. ids' = ids
  BY DEF Between
<1>3. Free(s)'
  BY <1>1 DEF Free
<1>4. Kept(s)'
  BY <1>1, <1>2 DEF Kept
<1>5. Gone(s)'
  BY <1>1, <1>2 DEF Gone, Unattended
<1> QED
  BY <1>3, <1>4, <1>5 DEF Awaited

\* The lease of a stream is taken, or asked for again, to probe the stream.
LEMMA ProbeAwaited ==
  ASSUME Timely, NEW s \in Streams, Between(s), Awaited(s), NEW w \in Workers, s \in todo[w],
         at[w] = "look", todo' = [todo EXCEPT ![w] = @ \ {s}],
         UNCHANGED <<threads, crashes, idle>>, s \notin threads[w], Grant(w, s),
         at' = [at EXCEPT ![w] = "probe"], probing' = [probing EXCEPT ![w] = s],
         NEW d \in 0..MaxProbe, timer' = [timer EXCEPT ![w] = d]
  PROVE  Awaited(s)'
<1>1. /\ Sound /\ Sound' /\ Clocks /\ Clocks' /\ ids' = ids /\ timer[w] = 0 /\ TakeoverBound' = TakeoverBound
      /\ todo[w] \in SUBSET Streams
  BY BoundStays DEF Between, Sound, TypeOK, Phases
<1>2. faults' = faults /\ ttl'[s] = TTL /\ lease'[s] = IF lease[s] = Nobody THEN IdOf(w) ELSE w
  BY <1>1 DEF Grant, Sound, TypeOK
<1>3. Owed(s) \in Nat /\ Owed(s)' \in Nat /\ Owed(s)' <= Owed(s)
  BY <1>1, <1>2, OwedFalls
<1>4. InTime(w, s)
  <2>1. ~Starting(w, s)
    BY DEF Starting
  <2>2. CASE lease[s] = Nobody
    BY <2>1, <2>2 DEF Awaited, Free
  <2>3. CASE lease[s] = w
    <3>1. ids # "perCall"
      BY <1>1, <2>3 DEF Clocks
    <3> QED
      BY <2>1, <2>3, <3>1 DEF Awaited, Kept
  <2> QED
    BY <2>2, <2>3 DEF Grant
<1>5. PICK L \in Nat : L = TakeoverBound
  BY BoundIsNumber
<1>6. /\ at'[w] = "probe" /\ probing'[w] = s /\ timer'[w] = d /\ todo'[w] = todo[w] \ {s}
  BY <1>1 DEF Sound, TypeOK
<1>7. Prober(w, s)' /\ ~Starting(w, s)'
  BY <1>6 DEF Prober, Starting
<1>8. PICK k \in Nat : /\ k = Probes(Cardinality(todo'[w]))
                       /\ Path(w, s) = k + MaxProbe /\ Path(w, s)' = d + k
  <2>1. Probes(Cardinality(todo[w])) = Probes(Cardinality(todo'[w])) + MaxProbe
    BY <1>1, <1>6, TodoSizes
  <2>2. Probes(Cardinality(todo'[w])) \in Nat /\ Path(w, s)' = d + Probes(Cardinality(todo'[w])) + 0
    BY <1>1, <1>6, <1>7, NextPathParts
  <2>3. Path(w, s) = 0 + Probes(Cardinality(todo[w])) + 0
    BY <1>1, PathParts
  <2> QED
    BY <2>1, <2>2, <2>3
<1>9. Owed(s) + k + MaxProbe <= L
  BY <1>3, <1>4, <1>5, <1>8 DEF InTime
<1>10. InTime(w, s)'
  <2>1. Owed(s)' + Path(w, s)' <= L
    BY <1>3, <1>8, <1>9
  <2> QED
    BY <1>1, <1>5, <2>1 DEF InTime
<1>11. Probed(s)'
  <2>1. Owed(s)' + MaxProbe - (TTL - ttl'[s]) <= L
    BY <1>2, <1>3, <1>9
  <2> QED
    BY <1>1, <1>5, <2>1 DEF Probed
<1>12. CASE ids = "perCall"
  <2>1. lease[s] = Nobody /\ lease'[s] = Stranger
    BY <1>1, <1>2, <1>12 DEF Grant, IdOf, Clocks
  <2> QED
    BY <1>1, <1>7, <1>11, <1>12, <2>1 DEF Awaited, Free, Kept, Gone
<1>13. CASE ids # "perCall"
  <2>1. lease'[s] = w
    BY <1>2, <1>13 DEF IdOf
  <2>2. ~Held(w, s) /\ Held(w, s)'
    BY <1>6 DEF Held
  <2>3. Safe(w, s)'
    BY <1>6, <1>13, <2>2 DEF Between, Secured
  <2> QED
    BY <1>1, <1>6, <1>7, <1>10, <1>11, <1>13, <2>1, <2>3 DEF Awaited, Free, Kept, Gone, Unattended
<1> QED
  BY <1>12, <1>13

LEMMA LookAwaited ==
  ASSUME Timely, NEW s \in Streams, Between(s), Awaited(s), NEW w \in Workers, CheckLook(w)
  PROVE  Awaited(s)'
<1>1. PICK x \in todo[w] :
        /\ at[w] = "look"
        /\ todo' = [todo EXCEPT ![w] = @ \ {x}]
        /\ \/ /\ x \in threads[w] /\ (Grant(w, x) \/ Refuse(w, x))
              /\ UNCHANGED <<at, probing, timer>>
           \/ /\ Refuse(w, x)
              /\ x \notin threads[w] /\ UNCHANGED <<at, probing, timer>>
           \/ /\ Grant(w, x) /\ x \notin threads[w]
              /\ at' = [at EXCEPT ![w] = "probe"] /\ probing' = [probing EXCEPT ![w] = x]
              /\ \E d \in 0..MaxProbe : timer' = [timer EXCEPT ![w] = d]
        /\ UNCHANGED <<ids, threads, crashes, idle>>
  BY DEF CheckLook, Renewal
<1>2. CASE s # x
  BY <1>1, <1>2, PassAwaited
<1>3. CASE s = x /\ Refuse(w, x) /\ UNCHANGED <<at, probing, timer>>
  BY <1>1, <1>3, PassAwaited
<1>4. CASE s = x /\ x \notin threads[w] /\ Grant(w, x) /\ at' = [at EXCEPT ![w] = "probe"]
           /\ probing' = [probing EXCEPT ![w] = x] /\ \E d \in 0..MaxProbe : timer' = [timer EXCEPT ![w] = d]
  BY <1>1, <1>4, ProbeAwaited
<1>5. CASE s = x /\ x \in threads[w] /\ Grant(w, x) /\ UNCHANGED <<at, probing, timer>>
  <2>1. idle'[s] = 0
    BY <1>1, <1>5 DEF Between, Clocks, Processed
  <2>2. at'[w] = "look" /\ ~Starting(w, s)' /\ ~Prober(w, s)'
    BY <1>1, <1>5 DEF Starting, Prober
  <2>3. ids # "perCall" => Safe(w, s)'
    <3>1. Held(w, s)
      BY <1>5 DEF Held
    <3> QED
      BY <1>1, <2>2, <3>1 DEF Between, LeaseInv, Secured
  <2> QED
    BY <2>1, <2>2, <2>3, FreshAwaited DEF Safe
<1> QED
  BY <1>1, <1>2, <1>3, <1>4, <1>5

\* The first threads.
LEMMA BootAwaited ==
  ASSUME Timely, NEW s \in Streams, Between(s), Awaited(s), NEW w \in Workers, BootStart(w)
  PROVE  Awaited(s)'
<1>1. PICK x \in todo[w] : /\ at[w] = "boot"
                           /\ \/ Grant(w, x) /\ StartThread(w, x)
                              \/ Refuse(w, x) /\ UNCHANGED <<threads, idle>>
                           /\ todo' = [todo EXCEPT ![w] = @ \ {x}]
                           /\ UNCHANGED <<ids, at, probing, timer, crashes>>
  BY DEF BootStart
<1>2. /\ Sound /\ Sound' /\ Clocks /\ Clocks' /\ ids' = ids /\ x \in Streams
      /\ todo'[w] = todo[w] \ {x} /\ at'[w] = "boot"
  BY <1>1 DEF Between, Sound, TypeOK
<1>3. CASE s = x /\ Grant(w, x) /\ StartThread(w, x)
  <2>1. idle'[s] = 0 /\ s \in threads'[w]
    BY <1>2, <1>3 DEF StartThread, Clocks, Sound, TypeOK
  <2>2. ~Starting(w, s)' /\ ~Prober(w, s)'
    BY <1>2, <1>3 DEF Starting, Prober
  <2>3. ids # "perCall" => Safe(w, s)'
    <3>1. Held(w, s)'
      BY <2>1 DEF Held
    <3> QED
      BY <1>1, <1>2, <3>1 DEF Between, LeaseInv, Secured
  <2> QED
    BY <1>2, <2>1, <2>2, <2>3, FreshAwaited DEF Safe
<1>4. CASE s # x \/ (Refuse(w, x) /\ UNCHANGED <<threads, idle>>)
  <2>1. idle'[s] = idle[s]
    BY <1>1, <1>2, <1>4 DEF StartThread, Clocks
  <2>2. faults' = faults \/ faults' = faults + 1
    BY <1>1 DEF Grant, Refuse
  <2>3. Cheaper(s) /\ (faults' = faults + 1 => Owed(s)' + FaultCost <= Owed(s))
    BY <1>1, <1>2, <2>1, <2>2, OwedFalls DEF Cheaper
  <2>4. lease'[s] = lease[s] /\ ttl'[s] = ttl[s]
    BY <1>1, <1>2, <1>4 DEF Grant, Refuse, Sound, TypeOK
  <2>5. ASSUME NEW v \in Workers, v # w PROVE Alike(v, s)
    <3>1. at'[v] = at[v] /\ timer'[v] = timer[v] /\ todo'[v] = todo[v] /\ probing'[v] = probing[v]
      BY <1>1, <1>2, <2>5 DEF Sound, TypeOK
    <3> QED
      BY <2>3, <3>1, StillAlike
  <2>6. ~Prober(w, s) /\ ~Prober(w, s)'
    BY <1>1, <1>2 DEF Prober
  <2>7. Path(w, s)' = Probes(Cardinality(Streams)) /\ Path(w, s) = Probes(Cardinality(Streams))
    BY <1>1, <1>2, PathParts, NextPathParts
  <2>8. CASE s # x
    <3>1. Starting(w, s) <=> Starting(w, s)'
      BY <1>1, <1>2, <2>8 DEF Starting
    <3>2. Starting(w, s) => Alike(w, s)
      BY <1>1, <1>2, <2>6, <3>1 DEF Alike
    <3>3. ASSUME ~Starting(w, s) PROVE Alike(w, s)
      <4>1. Owed(s)' + Path(w, s)' <= Owed(s) + Path(w, s)
        BY <2>3, <2>7, Spans DEF Cheaper
      <4> QED
        BY <1>1, <1>2, <2>3, <2>6, <3>1, <3>3, <4>1, SoonerAlike
    <3>4. Alike(w, s)
      BY <3>2, <3>3
    <3> QED
      BY <2>3, <2>4, <2>5, <3>4, Undisturbed
  <2>9. CASE s = x
    <3>1. ~Starting(w, s)' /\ Starting(w, s) /\ Refuse(w, s)
      BY <1>1, <1>2, <1>4, <2>9 DEF Starting
    <3>2. CASE lease[s] \notin {Nobody, w}
      <4>1. Alike(w, s)
        BY <1>1, <1>2, <2>6, <3>1, <3>2 DEF Alike
      <4> QED
        BY <2>3, <2>4, <2>5, <4>1, Undisturbed
    <3>3. CASE faults' = faults + 1
      <4>1. PICK L \in Nat : L = TakeoverBound /\ L = TakeoverBound'
        BY <1>2, BoundIsNumber, BoundStays
      <4>2. Owed(s) <= L => Owed(s)' + Path(w, s)' <= L
        BY <2>3, <2>7, <3>3, <4>1, Spans DEF Cheaper
      <4>3. Alike(w, s)
        BY <1>1, <1>2, <2>6, <3>1, <4>1, <4>2 DEF Alike, InTime
      <4> QED
        BY <2>3, <2>4, <2>5, <4>3, Undisturbed
    <3> QED
      BY <3>1, <3>2, <3>3 DEF Refuse
  <2> QED
    BY <2>8, <2>9
<1> QED
  BY <1>1, <1>3, <1>4

\* The rounds, and threads that end.
LEMMA RoundAwaited ==
  ASSUME Timely, NEW s \in Streams, Between(s), Awaited(s), NEW w \in Workers,
         CheckRound(w) \/ RoundEnds(w) \/ \E x \in Streams : ThreadEnds(w, x)
  PROVE  Awaited(s)'
<1>1. /\ Sound /\ Sound' /\ Clocks /\ Clocks' /\ ids' = ids
      /\ UNCHANGED <<lease, ttl, probing, faults, crashes, idle>>
  BY DEF Between, CheckRound, RoundEnds, ThreadEnds
<1>2. Cheaper(s)
  BY <1>1, OwedFalls DEF Cheaper
<1>3. ASSUME NEW v \in Workers,
             at'[v] = at[v], timer'[v] = timer[v], todo'[v] = todo[v]
      PROVE  Alike(v, s)
  BY <1>1, <1>2, <1>3, StillAlike
<1>4. CASE \E x \in Streams : ThreadEnds(w, x)
  <2>1. UNCHANGED <<at, timer, todo>>
    BY <1>4 DEF ThreadEnds
  <2> QED
    BY <1>1, <1>2, <1>3, <2>1, Undisturbed
<1>5. ASSUME CheckRound(w) \/ RoundEnds(w) PROVE Awaited(s)'
  <2>1. \A v \in Workers \ {w} : at'[v] = at[v] /\ timer'[v] = timer[v] /\ todo'[v] = todo[v]
    BY <1>1, <1>5 DEF CheckRound, RoundEnds, Sound, TypeOK
  <2>2. /\ ~Starting(w, s) /\ ~Starting(w, s)' /\ ~Prober(w, s) /\ ~Prober(w, s)'
        /\ at[w] # "down" /\ at'[w] # "down"
    BY <1>1, <1>5 DEF CheckRound, RoundEnds, Starting, Prober, Sound, TypeOK
  <2>3. Path(w, s)' = Path(w, s) /\ Path(w, s) \in Nat
    <3>1. CASE CheckRound(w)
      <4>1. /\ at'[w] = "look" /\ todo'[w] = Streams /\ timer'[w] = 0 /\ timer[w] = 0
            /\ at[w] \in {"boot", "wait"}
        BY <1>1, <3>1 DEF CheckRound, Sound, TypeOK, Phases
      <4>2. Path(w, s)' = 0 + Probes(Cardinality(Streams)) + 0
        BY <1>1, <4>1, NextPathParts
      <4> QED
        BY <1>1, <4>1, <4>2, PathParts, Spans
    <3>2. CASE RoundEnds(w)
      <4>1. /\ at[w] = "look" /\ todo[w] = {} /\ timer[w] = 0 /\ at'[w] = "wait" /\ timer'[w] = Period
        BY <1>1, <3>2 DEF RoundEnds, Sound, TypeOK, Phases
      <4>2. Probes(Cardinality(todo[w])) = 0
        BY <4>1, FS_EmptySet DEF Probes
      <4>3. Path(w, s) = 0 + 0 + Round
        BY <1>1, <2>2, <4>1, <4>2, PathParts
      <4>4. Path(w, s)' = Period + Probes(Cardinality(Streams))
        BY <1>1, <4>1, NextPathParts
      <4> QED
        BY <4>3, <4>4, Spans
    <3> QED
      BY <1>5, <3>1, <3>2
  <2>4. Alike(w, s)
    <3>1. Owed(s)' + Path(w, s)' <= Owed(s) + Path(w, s)
      BY <1>2, <2>3 DEF Cheaper
    <3> QED
      BY <1>2, <2>2, <3>1, SoonerAlike
  <2> QED
    BY <1>1, <1>2, <1>3, <2>1, <2>4, Undisturbed
<1> QED
  BY <1>4, <1>5

\* A probe ends.
LEMMA StartAwaited ==
  ASSUME Timely, NEW s \in Streams, Between(s), Awaited(s), NEW w \in Workers, CheckStart(w)
  PROVE  Awaited(s)'
<1>1. /\ Sound /\ Sound' /\ Clocks /\ Clocks' /\ ids' = ids
      /\ UNCHANGED <<lease, ttl, todo, timer, crashes>>
      /\ at[w] = "probe" /\ timer[w] = 0 /\ at'[w] = "look" /\ probing'[w] = NoStream
      /\ \A v \in Workers \ {w} : at'[v] = at[v] /\ probing'[v] = probing[v]
      /\ \/ StartThread(w, probing[w]) /\ faults' = faults
         \/ faults' = faults + 1 /\ UNCHANGED <<threads, idle>>
  BY DEF Between, CheckStart, Sound, TypeOK
<1>2. idle'[s] = idle[s] \/ idle'[s] = 0
  BY <1>1 DEF StartThread, Clocks
<1>3. Cheaper(s) /\ (faults' = faults + 1 => Owed(s)' + FaultCost <= Owed(s))
  BY <1>1, <1>2, OwedFalls DEF Cheaper
<1>4. ASSUME NEW v \in Workers, v # w PROVE Alike(v, s)
  BY <1>1, <1>3, <1>4, StillAlike
<1>5. ~Starting(w, s) /\ ~Starting(w, s)' /\ ~Prober(w, s)' /\ at'[w] # "down"
  BY <1>1 DEF Starting, Prober
<1>6. PICK k \in Nat : /\ k = Probes(Cardinality(todo[w]))
                       /\ Path(w, s) = k + (IF s \in todo[w] \/ probing[w] = s THEN 0 ELSE Round)
                       /\ Path(w, s)' = k + (IF s \in todo[w] THEN 0 ELSE Round)
  <2>1. Prober(w, s) <=> probing[w] = s
    BY <1>1 DEF Prober
  <2>2. Probes(Cardinality(todo[w])) \in Nat
        /\ Path(w, s) = 0 + Probes(Cardinality(todo[w])) + (IF s \in todo[w] \/ probing[w] = s THEN 0 ELSE Round)
    BY <1>1, <2>1, PathParts
  <2>3. Path(w, s)' = 0 + Probes(Cardinality(todo[w])) + (IF s \in todo[w] THEN 0 ELSE Round)
    BY <1>1, <1>5, NextPathParts
  <2> QED
    BY <2>2, <2>3, Spans
<1>7. CASE probing[w] # s
  <2>1. ~Prober(w, s) /\ Path(w, s)' = Path(w, s) /\ Path(w, s) \in Nat
    BY <1>6, <1>7, Spans DEF Prober
  <2>2. Owed(s)' + Path(w, s)' <= Owed(s) + Path(w, s)
    BY <1>3, <2>1 DEF Cheaper
  <2>3. Alike(w, s)
    BY <1>1, <1>3, <1>5, <2>1, <2>2, SoonerAlike
  <2> QED
    BY <1>1, <1>3, <1>4, <2>3, Undisturbed
<1>8. ASSUME probing[w] = s PROVE Awaited(s)'
  <2>1. Prober(w, s) /\ Held(w, s)
    BY <1>1, <1>8 DEF Prober, Held
  <2>2. ids # "perCall" => Safe(w, s) /\ Safe(w, s)' /\ lease[s] = w
    BY <1>1, <1>5, <2>1 DEF Between, LeaseInv, Secured, Safe
  <2>3. CASE StartThread(w, probing[w])
    <3>1. idle'[s] = 0
      BY <1>8, <2>3 DEF StartThread, Clocks, Between
    <3> QED
      BY <1>1, <1>5, <2>2, <3>1, FreshAwaited
  <2>4. CASE faults' = faults + 1 /\ UNCHANGED <<threads, idle>>
    <3>1. /\ s \notin todo[w] /\ TTL - ttl[s] + 0 <= MaxProbe /\ ttl[s] \in Nat /\ TTL > MaxProbe
      BY <1>1, <1>8, Spans DEF Clocks, Sound, TypeOK
    <3>2. lease[s] # Nobody
      BY <1>1, <3>1 DEF Clocks
    <3>3. PICK L \in Nat : L = TakeoverBound /\ L = TakeoverBound'
      BY <1>1, BoundIsNumber, BoundStays
    <3>4. CASE ids # "perCall"
      <4>1. InTime(w, s)
        BY <1>1, <1>5, <2>2, <3>4 DEF Awaited, Kept
      <4>2. Owed(s)' + Path(w, s)' <= L
        BY <1>3, <1>6, <1>8, <2>4, <3>1, <3>3, <4>1, Spans DEF InTime, Cheaper
      <4>3. InTime(w, s)'
        BY <3>3, <4>2 DEF InTime
      <4> QED
        BY <1>1, <1>5, <2>2, <3>2, <3>4, <4>3 DEF Awaited, Free, Kept, Gone, Unattended
    <3>5. CASE ids = "perCall"
      <4>1. Late(s) \/ Probed(s)
        BY <1>1, <3>2, <3>5 DEF Awaited, Gone, Unattended
      <4>2. Owed(s)' + ttl[s] - 1 + Return <= L
        <5>1. /\ Owed(s)' + CrashCost <= Owed(s) /\ Owed(s) \in Nat /\ Owed(s)' \in Nat
              /\ CrashCost = TTL - 1 + Return - MaxProbe /\ Return \in Nat /\ CrashCost \in Nat
          BY <1>3, <2>4, <3>5, Spans DEF Cheaper
        <5>2. CASE Late(s)
          BY <3>1, <3>3, <5>1, <5>2 DEF Late
        <5>3. CASE Probed(s)
          BY <3>1, <3>3, <5>1, <5>3 DEF Probed
        <5> QED
          BY <4>1, <5>2, <5>3
      <4>3. Late(s)'
        BY <1>1, <3>3, <4>2 DEF Late, Return, Round
      <4> QED
        BY <1>1, <3>2, <3>5, <4>3 DEF Awaited, Free, Kept, Gone
    <3> QED
      BY <3>4, <3>5
  <2> QED
    BY <1>1, <2>3, <2>4
<1> QED
  BY <1>7, <1>8

\* A crash pays for the lease it leaves behind.
LEMMA CrashAwaited ==
  ASSUME Timely, NEW s \in Streams, Between(s), Awaited(s), NEW w \in Workers, Crash(w)
  PROVE  Awaited(s)'
<1>1. /\ Sound /\ Sound' /\ Clocks /\ Clocks' /\ ids' = ids
      /\ UNCHANGED <<ttl, faults, idle>> /\ crashes' = crashes + 1
      /\ at[w] # "down" /\ at'[w] = "down"
      /\ lease'[s] = lease[s] \/ (ids = "perStart" /\ lease[s] = w /\ lease'[s] = Stranger)
  BY DEF Between, Crash, Sound, TypeOK
<1>2. /\ Cheaper(s) /\ Owed(s)' + CrashCost <= Owed(s)
  BY <1>1, OwedFalls DEF Cheaper
<1>3. /\ ttl[s] \in Nat /\ ttl[s] <= TTL /\ (lease[s] = Nobody <=> ttl[s] = 0)
  BY <1>1 DEF Sound, TypeOK, Clocks
<1>4. PICK L \in Nat : L = TakeoverBound /\ L = TakeoverBound'
  BY <1>1, BoundIsNumber, BoundStays
<1>5. /\ CrashCost \in Nat /\ CrashCost = TTL - 1 + Return - MaxProbe /\ Return \in Nat
      /\ Owed(s) \in Nat /\ Owed(s)' \in Nat
  BY <1>2, Spans DEF Cheaper
<1>6. Late(s) \/ Probed(s) \/ Owed(s) + MaxProbe <= L => Late(s)'
  <2>1. Late(s) \/ Probed(s) \/ Owed(s) + MaxProbe <= L => Owed(s)' + ttl[s] - 1 + Return <= L
    BY <1>2, <1>3, <1>4, <1>5 DEF Late, Probed
  <2> QED
    BY <1>1, <1>4, <2>1 DEF Late, Return, Round
<1>7. ASSUME NEW v \in Workers, at'[v] # "down"
      PROVE  /\ v # w /\ at[v] # "down"
             /\ Prober(v, s)' <=> Prober(v, s)
             /\ Starting(v, s)' <=> Starting(v, s)
             /\ InTime(v, s) => InTime(v, s)'
  <2>1. /\ v # w /\ at'[v] = at[v] /\ timer'[v] = timer[v] /\ todo'[v] = todo[v] /\ probing'[v] = probing[v]
    BY <1>1, <1>7 DEF Crash, Sound, TypeOK
  <2>2. Alike(v, s)
    BY <1>2, <2>1, StillAlike
  <2>3. (Prober(v, s)' <=> Prober(v, s)) /\ (Starting(v, s)' <=> Starting(v, s))
    BY <2>1 DEF Prober, Starting
  <2>4. Path(v, s)' = Path(v, s) /\ Path(v, s) \in Nat
    BY <1>1, <1>7, <2>1, PathShort DEF Path, PathOf, Round
  <2>5. InTime(v, s) => InTime(v, s)'
    BY <1>2, <1>4, <1>5, <2>4 DEF InTime, Cheaper
  <2> QED
    BY <1>7, <2>1, <2>3, <2>5
<1>8. Free(s)'
  <2> SUFFICES ASSUME lease'[s] = Nobody
               PROVE  /\ Owed(s)' <= TakeoverBound'
                      /\ \A v \in Workers : at'[v] # "down" /\ ~Starting(v, s)' => InTime(v, s)'
    BY DEF Free
  <2>1. Owed(s) <= L /\ \A v \in Workers : at[v] # "down" /\ ~Starting(v, s) => InTime(v, s)
    BY <1>1, <1>4 DEF Awaited, Free
  <2>2. Owed(s)' <= L
    BY <1>2, <1>4, <2>1 DEF Cheaper
  <2> QED
    BY <1>4, <1>7, <2>1, <2>2
<1>9. Kept(s)'
  <2> SUFFICES ASSUME NEW v \in Workers, ids # "perCall", lease'[s] = v, at'[v] # "down"
               PROVE  IF Starting(v, s)' THEN Late(s)'
                      ELSE InTime(v, s)' /\ (Late(s)' \/ Safe(v, s)') /\ (Prober(v, s)' => Probed(s)')
    BY <1>1 DEF Kept
  <2>1. lease[s] = v /\ at[v] # "down" /\ v # w
    BY <1>1, <1>7
  <2>2. Safe(v, s) => Safe(v, s)'
    BY <2>1 DEF Between, Secured
  <2>3. Probed(s) => Late(s)'
    BY <1>6
  <2>4. Probed(s) => Probed(s)'
    BY <1>1, <1>2, <1>3, <1>4, <1>5 DEF Probed
  <2> QED
    BY <1>6, <1>7, <2>1, <2>2, <2>4 DEF Awaited, Kept
<1>10. Gone(s)'
  <2> SUFFICES ASSUME lease'[s] # Nobody, Unattended(s)' PROVE Late(s)'
    BY DEF Gone
  <2>1. lease[s] # Nobody
    BY <1>1
  <2>2. CASE Unattended(s)
    BY <1>6, <2>1, <2>2 DEF Awaited, Gone
  <2>3. CASE ~Unattended(s)
    <3>1. PICK v \in Workers : lease[s] = v /\ ids # "perCall" /\ at[v] # "down"
      BY <2>3 DEF Unattended
    <3>2. v = w
      <4>1. v # w => lease'[s] = v /\ at'[v] = at[v]
        BY <1>1, <3>1 DEF Crash, Sound, TypeOK
      <4> QED
        BY <1>1, <3>1, <4>1 DEF Unattended
    <3>3. IF Starting(w, s) THEN Late(s) ELSE InTime(w, s) /\ (Prober(w, s) => Probed(s))
      BY <3>1, <3>2 DEF Awaited, Kept
    <3>4. ~Prober(w, s) => Path(w, s) \in Nat /\ Path(w, s) >= MaxProbe
      BY <1>1, PathShort
    <3>5. InTime(w, s) /\ ~Prober(w, s) => Owed(s) + MaxProbe <= L
      BY <1>4, <1>5, <3>4 DEF InTime
    <3> QED
      BY <1>6, <3>3, <3>5
  <2> QED
    BY <2>2, <2>3
<1> QED
  BY <1>8, <1>9, <1>10 DEF Awaited

LEMMA RestartAwaited ==
  ASSUME Timely, NEW s \in Streams, Between(s), Awaited(s), NEW w \in Workers, Restart(w)
  PROVE  Awaited(s)'
<1>1. /\ Sound /\ Sound' /\ Clocks /\ Clocks' /\ ids' = ids
      /\ UNCHANGED <<lease, ttl, probing, timer, faults, crashes, idle>>
      /\ at[w] = "down" /\ at'[w] = "boot" /\ todo'[w] = Streams
      /\ \A v \in Workers \ {w} : at'[v] = at[v] /\ todo'[v] = todo[v]
  BY DEF Between, Restart, Sound, TypeOK
<1>2. Owed(s)' = Owed(s) /\ TakeoverBound' = TakeoverBound /\ Return' = Return
  BY <1>1, BoundStays DEF Owed, Return, Round
<1>3. (Late(s)' <=> Late(s)) /\ (Probed(s)' <=> Probed(s))
  BY <1>1, <1>2 DEF Late, Probed
<1>4. Starting(w, s)' /\ ~Prober(w, s) /\ ~Prober(w, s)'
  BY <1>1 DEF Starting, Prober
<1>5. ASSUME NEW v \in Workers, v # w
      PROVE  /\ at'[v] = at[v] /\ (Starting(v, s)' <=> Starting(v, s)) /\ (Prober(v, s)' <=> Prober(v, s))
             /\ InTime(v, s)' <=> InTime(v, s)
  <2>1. Path(v, s)' = Path(v, s)
    BY <1>1, <1>5 DEF Path, PathOf, Round
  <2> QED
    BY <1>1, <1>2, <1>5, <2>1 DEF Starting, Prober, InTime
<1>6. Free(s)'
  BY <1>1, <1>2, <1>4, <1>5 DEF Awaited, Free
<1>7. Kept(s)'
  <2> SUFFICES ASSUME NEW v \in Workers, ids # "perCall", lease[s] = v, at'[v] # "down"
               PROVE  IF Starting(v, s)' THEN Late(s)'
                      ELSE InTime(v, s)' /\ (Late(s)' \/ Safe(v, s)') /\ (Prober(v, s)' => Probed(s)')
    BY <1>1 DEF Kept
  <2>1. CASE v = w
    <3>1. lease[s] # Nobody /\ Unattended(s)
      BY <1>1, <2>1 DEF Unattended
    <3>2. Late(s)
      BY <3>1 DEF Awaited, Gone
    <3> QED
      BY <1>3, <1>4, <2>1, <3>2
  <2>2. CASE v # w
    <3>1. Safe(v, s) => Safe(v, s)'
      BY <1>5, <2>2 DEF Between, Secured
    <3> QED
      BY <1>3, <1>5, <2>2, <3>1 DEF Awaited, Kept
  <2> QED
    BY <2>1, <2>2
<1>8. Gone(s)'
  <2> SUFFICES ASSUME lease[s] # Nobody, Unattended(s)'
               PROVE  Late(s)' \/ (ids = "perCall" /\ Probed(s)' /\ \E v \in Workers : Prober(v, s)')
    BY <1>1 DEF Gone
  <2>1. Unattended(s)
    BY <1>1, <1>5 DEF Unattended
  <2> QED
    BY <1>3, <1>4, <1>5, <2>1 DEF Awaited, Gone
<1> QED
  BY <1>6, <1>7, <1>8 DEF Awaited

\* A tick brings each worker that is up nearer to the stream by as much as the
\* stream waits.
LEMMA TickAwaited ==
  ASSUME Timely, NEW s \in Streams, Between(s), Awaited(s), Tick
  PROVE  Awaited(s)'
<1>1. /\ Sound /\ Sound' /\ Clocks /\ Clocks' /\ ids' = ids
      /\ UNCHANGED <<at, todo, probing, faults, crashes>>
      /\ ttl'[s] = (IF ttl[s] = 0 THEN 0 ELSE ttl[s] - 1)
      /\ lease'[s] = (IF ttl'[s] = 0 THEN Nobody ELSE lease[s])
      /\ idle'[s] \in Nat /\ idle'[s] <= idle[s] + 1 /\ idle[s] \in Nat
      /\ (\A w \in Workers : at[w] = "down") => idle'[s] = 0
      /\ ttl[s] \in Nat /\ ttl[s] <= TTL /\ (lease[s] = Nobody <=> ttl[s] = 0)
  BY TickAt DEF Between, Sound, TypeOK, Clocks
<1>2. PICK L \in Nat : L = TakeoverBound /\ L = TakeoverBound'
  BY <1>1, BoundIsNumber, BoundStays
<1>3. PICK r \in Nat : /\ Owed(s) = idle[s] + r /\ Owed(s)' = idle'[s] + r
                       /\ r <= L
  <2>1. Rest(faults, crashes) \in Nat /\ Rest(faults, crashes) + Return <= TakeoverBound /\ Return \in Nat
    BY <1>1, RestShrinks, Spans DEF Sound, TypeOK, Clocks
  <2>2. Owed(s) = idle[s] + Rest(faults, crashes) /\ Owed(s)' = idle'[s] + Rest(faults, crashes)
    BY <1>1, BoundStays DEF Owed
  <2> QED
    BY <1>2, <2>1, <2>2
<1>4. Return' = Return /\ Return \in Nat
  BY Spans DEF Return, Round
<1>5. ASSUME NEW w \in Workers, at[w] # "down"
      PROVE  /\ Path(w, s) \in Nat /\ Path(w, s)' = Path(w, s) - 1 /\ Path(w, s) <= Return /\ Path(w, s) >= 1
             /\ ~Starting(w, s) /\ ~Starting(w, s)' /\ (Prober(w, s)' <=> Prober(w, s))
  <2>1. at[w] \in {"wait", "probe"} /\ timer[w] > 0 /\ timer'[w] = timer[w] - 1 /\ timer[w] \in Nat
    BY <1>1, <1>5, TickEffect DEF Sound, TypeOK
  <2>2. (Prober(w, s)' <=> Prober(w, s)) /\ ~Starting(w, s) /\ ~Starting(w, s)'
    BY <1>1, <2>1 DEF Prober, Starting
  <2>3. Path(w, s) \in Nat /\ Path(w, s) <= Return /\ Path(w, s) >= timer[w]
    BY <1>1, <1>5, PathShort
  <2>4. Path(w, s)' = Path(w, s) - 1
    <3>1. CASE at[w] = "wait"
      <4>1. Path(w, s) = timer[w] + Probes(Cardinality(Streams)) /\ Path(w, s)' = timer'[w] + Probes(Cardinality(Streams))
        BY <1>1, <3>1, PathParts, NextPathParts
      <4> QED
        BY <2>1, <4>1, Spans
    <3>2. CASE at[w] = "probe"
      <4>1. PICK k \in Nat : /\ k = Probes(Cardinality(todo[w]))
                             /\ Path(w, s) = timer[w] + k + IF s \in todo[w] \/ Prober(w, s) THEN 0 ELSE Round
                             /\ Path(w, s)' = timer'[w] + k + IF s \in todo[w] \/ Prober(w, s) THEN 0 ELSE Round
        BY <1>1, <2>2, <3>2, PathParts, NextPathParts
      <4> QED
        BY <2>1, <4>1, Spans
    <3> QED
      BY <2>1, <3>1, <3>2
  <2> QED
    BY <2>1, <2>2, <2>3, <2>4
<1>6. ASSUME NEW w \in Workers, at[w] # "down", InTime(w, s) PROVE InTime(w, s)'
  <2>1. Owed(s)' + Path(w, s)' <= L
    BY <1>1, <1>2, <1>3, <1>5, <1>6 DEF InTime
  <2> QED
    BY <1>2, <2>1 DEF InTime
<1>7. ttl[s] > 0 /\ Late(s) => Late(s)'
  <2>1. ttl[s] > 0 /\ Late(s) => Owed(s)' + ttl'[s] - 1 + Return <= L
    BY <1>1, <1>2, <1>3, <1>4 DEF Late
  <2> QED
    BY <1>2, <1>4, <2>1 DEF Late
<1>8. ttl[s] > 0 /\ Probed(s) => Probed(s)'
  <2>1. ttl[s] > 0 /\ Probed(s) => Owed(s)' + MaxProbe - (TTL - ttl'[s]) <= L
    BY <1>1, <1>2, <1>3 DEF Probed
  <2> QED
    BY <1>2, <2>1 DEF Probed
<1>9. ASSUME NEW w \in Workers, Prober(w, s) PROVE ttl[s] > 1
  <2>1. timer[w] > 0 /\ timer[w] \in Nat /\ TTL - ttl[s] + timer[w] <= MaxProbe
    BY <1>1, <1>9, TickEffect DEF Prober, Clocks, Sound, TypeOK
  <2> QED
    BY <1>1, <2>1, Spans
<1>10. ASSUME NEW w \in Workers, at[w] # "down", Safe(w, s) PROVE ttl[s] > 1
  <2>1. at[w] \in {"wait", "probe"} /\ timer[w] > 0 /\ timer[w] \in Nat
    BY <1>1, <1>10, TickEffect DEF Sound, TypeOK
  <2>2. ttl[s] > Left(w, s) + Lost(faults) /\ Lost(faults) \in Nat
    BY <1>1, <1>10, LostShrinks DEF Safe, Sound, TypeOK
  <2>3. Left(w, s) \in Nat /\ Left(w, s) >= timer[w]
    <3>1. /\ Probes(Cardinality(Streams) - 1) \in Nat /\ Turn \in Nat
          /\ Probes(Cardinality(todo[w] \ {s})) \in Nat
      BY <1>1, Sizes, TodoSizes DEF Sound, TypeOK
    <3> QED
      BY <2>1, <3>1 DEF Left
  <2> QED
    BY <1>1, <2>1, <2>2, <2>3
<1>11. Free(s)'
  <2> SUFFICES ASSUME lease'[s] = Nobody
               PROVE  /\ Owed(s)' <= TakeoverBound'
                      /\ \A w \in Workers : at'[w] # "down" => InTime(w, s)'
    BY DEF Free
  <2>1. ttl[s] <= 1
    BY <1>1
  <2>2. \A w \in Workers : at[w] # "down" => InTime(w, s)'
    <3> SUFFICES ASSUME NEW w \in Workers, at[w] # "down" PROVE InTime(w, s)'
      OBVIOUS
    <3>1. CASE lease[s] = Nobody
      <4>1. InTime(w, s)
        BY <1>5, <3>1 DEF Awaited, Free
      <4> QED
        BY <1>6, <4>1
    <3>2. CASE lease[s] # Nobody
      <4>1. Late(s) /\ ttl[s] = 1
        <5>1. ttl[s] = 1
          BY <1>1, <2>1, <3>2
        <5>2. CASE Unattended(s)
          BY <1>9, <2>1, <3>2, <5>1, <5>2 DEF Awaited, Gone
        <5>3. CASE ~Unattended(s)
          <6>1. PICK v \in Workers : lease[s] = v /\ ids # "perCall" /\ at[v] # "down"
            BY <5>3 DEF Unattended
          <6>2. Late(s) \/ Safe(v, s)
            BY <1>5, <6>1 DEF Awaited, Kept
          <6> QED
            BY <1>10, <5>1, <6>1, <6>2
        <5> QED
          BY <5>1, <5>2, <5>3
      <4>2. Owed(s)' + Path(w, s)' <= L
        BY <1>1, <1>2, <1>3, <1>4, <1>5, <4>1 DEF Late
      <4> QED
        BY <1>2, <4>2 DEF InTime
    <3> QED
      BY <3>1, <3>2
  <2>3. Owed(s)' <= L
    <3>1. CASE \A w \in Workers : at[w] = "down"
      BY <1>1, <1>3, <3>1
    <3>2. ASSUME NEW w \in Workers, at[w] # "down" PROVE Owed(s)' <= L
      <4>1. InTime(w, s)' /\ Path(w, s)' \in Nat
        BY <1>5, <2>2, <3>2
      <4> QED
        BY <1>2, <1>3, <1>1, <4>1 DEF InTime
    <3> QED
      BY <3>1, <3>2
  <2> QED
    BY <1>1, <1>2, <2>2, <2>3
<1>12. lease'[s] # Nobody => lease'[s] = lease[s] /\ ttl[s] > 0
  BY <1>1
<1>13. Kept(s)'
  <2> SUFFICES ASSUME NEW w \in Workers, ids # "perCall", lease'[s] = w, at[w] # "down"
               PROVE  InTime(w, s)' /\ (Late(s)' \/ Safe(w, s)') /\ (Prober(w, s)' => Probed(s)')
    BY <1>1, <1>5 DEF Kept
  <2>1. lease[s] = w /\ ttl[s] > 0
    BY <1>12
  <2>2. InTime(w, s) /\ (Late(s) \/ Safe(w, s)) /\ (Prober(w, s) => Probed(s))
    BY <1>5, <2>1 DEF Awaited, Kept
  <2>3. Safe(w, s) => Safe(w, s)'
    BY <1>1 DEF Between, Secured
  <2> QED
    BY <1>5, <1>6, <1>7, <1>8, <2>1, <2>2, <2>3
<1>14. Gone(s)'
  <2> SUFFICES ASSUME lease'[s] # Nobody, Unattended(s)'
               PROVE  Late(s)' \/ (ids = "perCall" /\ Probed(s)' /\ \E w \in Workers : Prober(w, s)')
    BY <1>1 DEF Gone
  <2>1. Unattended(s) /\ lease[s] # Nobody /\ ttl[s] > 0
    BY <1>1, <1>12 DEF Unattended
  <2>2. \A w \in Workers : Prober(w, s) => Prober(w, s)'
    BY <1>1 DEF Prober
  <2> QED
    BY <1>7, <1>8, <2>1, <2>2 DEF Awaited, Gone
<1> QED
  BY <1>11, <1>13, <1>14 DEF Awaited

LEMMA AwaitedStep ==
  ASSUME Timely, Sound, Clocks, LeaseInv, \A s \in Streams : Awaited(s), [Next]_vars
  PROVE  \A s \in Streams : Awaited(s)'
<1>1. Sound' /\ Clocks' /\ ids' = ids
  BY SoundStep, ClocksStep, IdsStay
<1>2. ASSUME NEW s \in Streams PROVE Awaited(s)'
  <2>1. Between(s)
    BY <1>1, SafeStep DEF Between
  <2>2. CASE UNCHANGED vars
    <3>1. Cheaper(s)
      BY <1>1, <2>2, OwedFalls DEF vars, Cheaper
    <3>2. \A v \in Workers : Alike(v, s)
      BY <2>1, <2>2, <3>1, StillAlike DEF vars
    <3> QED
      BY <2>1, <2>2, <3>1, <3>2, Undisturbed DEF vars
  <2> QED
    BY <2>1, <2>2, BootAwaited, LookAwaited, StartAwaited, RoundAwaited, CrashAwaited, RestartAwaited,
       TickAwaited DEF Next
<1> QED
  BY <1>2

LEMMA AwaitedInit == ASSUME Timely, Init PROVE Clocks /\ \A s \in Streams : Awaited(s)
<1>1. Clocks
  BY DEF Init, Clocks, Processed
<1>2. ASSUME NEW s \in Streams PROVE Awaited(s)
  <2>1. lease[s] = Nobody /\ idle[s] = 0 /\ \A w \in Workers : Starting(w, s)
    BY DEF Init, Starting
  <2>2. Rest(0, 0) \in Nat /\ Rest(0, 0) + Return <= TakeoverBound /\ Return \in Nat /\ TakeoverBound \in Nat
    BY RestShrinks, Spans, BoundIsNumber
  <2>3. Owed(s) <= TakeoverBound
    <3>1. Owed(s) = 0 + Rest(0, 0)
      BY <2>1 DEF Init, Owed
    <3> QED
      BY <2>2, <3>1
  <2> QED
    BY <2>1, <2>3 DEF Awaited, Free, Kept, Gone
<1> QED
  BY <1>1, <1>2

LEMMA NotTooLate ==
  ASSUME Timely, Sound, Clocks, \A s \in Streams : Awaited(s)
  PROVE  TakenOver
<1> SUFFICES ASSUME NEW s \in Streams PROVE idle[s] <= TakeoverBound
  BY DEF TakenOver
<1>1. Awaited(s)
  OBVIOUS
<1>2. PICK L \in Nat : L = TakeoverBound
  BY BoundIsNumber
<1>3. /\ idle[s] \in Nat /\ ttl[s] \in Nat /\ (lease[s] = Nobody <=> ttl[s] = 0)
      /\ Return \in Nat
  BY Spans DEF Sound, TypeOK, Clocks
<1>4. PICK r \in Nat : Owed(s) = idle[s] + r
  <2>1. Rest(faults, crashes) \in Nat
    BY RestShrinks DEF Sound, TypeOK, Clocks
  <2> QED
    BY <2>1 DEF Owed
<1>5. Late(s) /\ lease[s] # Nobody => idle[s] <= L
  BY <1>2, <1>3, <1>4 DEF Late
<1>6. ASSUME NEW w \in Workers, Prober(w, s), Probed(s) PROVE idle[s] <= L
  <2>1. timer[w] \in Nat /\ TTL - ttl[s] + timer[w] <= MaxProbe
    BY <1>6 DEF Prober, Clocks, Sound, TypeOK
  <2> QED
    BY <1>2, <1>3, <1>4, <1>6, <2>1 DEF Probed
<1>7. ASSUME NEW w \in Workers, at[w] # "down", InTime(w, s) PROVE idle[s] <= L
  <2>1. Path(w, s) \in Nat
    BY <1>7, PathShort
  <2> QED
    BY <1>2, <1>3, <1>4, <1>7, <2>1 DEF InTime
<1>8. CASE lease[s] = Nobody
  BY <1>1, <1>2, <1>3, <1>4, <1>8 DEF Awaited, Free
<1>9. CASE lease[s] # Nobody /\ Unattended(s)
  BY <1>1, <1>2, <1>5, <1>6, <1>9 DEF Awaited, Gone
<1>10. CASE lease[s] # Nobody /\ ~Unattended(s)
  <2>1. PICK v \in Workers : lease[s] = v /\ ids # "perCall" /\ at[v] # "down"
    BY <1>10 DEF Unattended
  <2>2. Late(s) \/ InTime(v, s)
    BY <1>1, <2>1 DEF Awaited, Kept
  <2> QED
    BY <1>2, <1>5, <1>7, <1>10, <2>1, <2>2
<1> QED
  BY <1>8, <1>9, <1>10

(* A stream that nobody processes is processed again, while some worker is  *)
(* up, within a round and the rest of another one, a round for each failed  *)
(* call or probe, and for each crash the time to live and the rounds around *)
(* its end: whatever the number of workers and streams, and in whichever    *)
(* order the rounds come due.  A worker without a lasting id pays the time  *)
(* to live for each failure too.                                            *)
THEOREM TakenOverInTime == ASSUME Timely PROVE Spec => []TakenOver
<1>1. Init => Sound /\ LeaseInv /\ Clocks /\ \A s \in Streams : Awaited(s)
  <2>1. Init => LeaseInv
    BY DEF Init, LeaseInv, Held
  <2> QED
    BY <2>1, SoundInit, AwaitedInit
<1>2. Sound /\ LeaseInv /\ Clocks /\ (\A s \in Streams : Awaited(s)) /\ [Next]_vars
        => Sound' /\ LeaseInv' /\ Clocks' /\ (\A s \in Streams : Awaited(s))'
  BY SoundStep, IdsStay, LeaseStep, ClocksStep, AwaitedStep
<1>3. Sound /\ Clocks /\ (\A s \in Streams : Awaited(s)) => TakenOver
  BY NotTooLate
<1> QED
  BY <1>1, <1>2, <1>3, PTL DEF Spec

=============================================================================
