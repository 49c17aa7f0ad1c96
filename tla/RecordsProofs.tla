---------------------------- MODULE RecordsProofs ----------------------------
(***************************************************************************)
(* The records kept in Redis: what a write destroys in the tables of       *)
(* streams and accounts, and which streams know of each other, for every   *)
(* number of processes, streams and channels; and the libraries: that rows *)
(* and memory agree, and that a photo shows the person of its row, for     *)
(* every number of persons, plates and requests.                           *)
(***************************************************************************)
EXTENDS GbStore, Libraries, FiniteSetTheorems, SequenceTheorems,
        WellFoundedInduction, TLAPS

USE Bounds

-----------------------------------------------------------------------------
(* Tables.  A process at work knows the commands it will give.  What it is  *)
(* about to write contains all changes of the row, unless somebody else has *)
(* changed that row since it was read.                                      *)
AllKeys == StreamKeys \cup DeviceKeys
Channels == UNION {[S -> Nat] : S \in SUBSET Serials}
StreamRows == [name : Nat, dev : Nat, ch : Nat, edits : SUBSET Nat, missed : SUBSET AllKeys]
DeviceRows == [chans : Channels, edits : SUBSET Nat, missed : SUBSET AllKeys]
Commands ==
  [do : {"put"}, key : StreamKeys, row : StreamRows]
    \cup [do : {"put"}, key : DeviceKeys, row : DeviceRows]
    \cup [do : {"del"}, key : AllKeys] \cup [do : {"wipe"}, gone : SUBSET StreamKeys]
    \cup [do : {"sync"}, dev : Serials, chans : Channels]
    \cup [do : {"dropchannel"}, dev : Serials, ch : Nat]

StoreTypes ==
  /\ DOMAIN db \subseteq AllKeys
  /\ \A k \in In(StreamKeys) : db[k] \in StreamRows
  /\ \A k \in In(DeviceKeys) : db[k] \in DeviceRows
  /\ todo \in [Procs -> Seq(Commands)] /\ missed \in [Procs -> SUBSET AllKeys]
  /\ ids \in 1..MaxStreams /\ ops \in Nat

Puts(s, i) == i \in 1..Len(s) /\ s[i].do = "put"

\* Commands s are up to date but for the keys of M.
Fresh(s, M) ==
  \A i \in 1..Len(s) : Puts(s, i) /\ s[i].key \in DOMAIN db \ M =>
    db[s[i].key].edits \subseteq s[i].row.edits
\* A list that is wiped is written again, as far as its writer knows it.
Rewrites(s, M) ==
  \A i \in 1..Len(s) : s[i].do = "wipe" =>
    /\ i = 1
    /\ \A k \in In(StreamKeys) \ (s[i].gone \cup M) : \E j \in 2..Len(s) : Puts(s, j) /\ s[j].key = k
\* No stream is written that was read before the names are; a row that is
\* written twice keeps what it had.
Ordered(s) ==
  \A i, j \in 1..Len(s) : i < j =>
    /\ s[i].do = "sync" /\ Puts(s, j) => s[j].key \in DeviceKeys
    /\ Puts(s, i) /\ Puts(s, j) /\ s[i].key = s[j].key => s[i].row.edits \subseteq s[j].row.edits

(* Streams of one channel know of each other, and each finds its account:   *)
(* in the table T, and with what is about to be written into it by one who  *)
(* has missed the changes of M.                                             *)
StreamsOf(T) == DOMAIN T \cap StreamKeys
Known(k, r, l, q) ==
  k # l /\ r.dev # 0 /\ q.dev = r.dev /\ q.ch = r.ch => k \in q.missed \/ l \in r.missed
Housed(T, k, r) ==
  r.dev # 0 => r.ch # 0 /\ (Device(r.dev) \in DOMAIN T \/ {k, Device(r.dev)} \cap r.missed # {})
Tidy(T) == \A k \in StreamsOf(T) : Housed(T, k, T[k]) /\ \A l \in StreamsOf(T) : Known(k, T[k], l, T[l])

\* A row as it will be written.
Marked(r, M) == [r EXCEPT !.missed = @ \cup M]
StreamPut(s, i) == Puts(s, i) /\ s[i].key \in StreamKeys
WritesTidily(T, s, M) ==
  \A i \in 1..Len(s) : StreamPut(s, i) =>
    /\ Housed(T, s[i].key, Marked(s[i].row, M))
    /\ \A l \in StreamsOf(T) : Known(s[i].key, Marked(s[i].row, M), l, T[l])
    /\ \A j \in 1..Len(s) : StreamPut(s, j) =>
         Known(s[i].key, Marked(s[i].row, M), s[j].key, Marked(s[j].row, M))
\* Who deletes an account has deleted its streams, but those that came later.
TakesAll(T, s, M) ==
  \A i \in 1..Len(s) : s[i].do = "del" /\ s[i].key \in DeviceKeys =>
    /\ \A j \in 1..Len(s) : s[j].do = "del"
    /\ \A x \in StreamsOf(T) : Device(T[x].dev) = s[i].key => x \in M \/ \E j \in 1..i-1 : s[j].key = x
Leaves(T, s, M) == WritesTidily(T, s, M) /\ TakesAll(T, s, M)

UpToDate(s, M) == Fresh(s, M) /\ Rewrites(s, M) /\ Ordered(s) /\ Leaves(db, s, M)

\* Stream ids that were given out, and the keys that are to be written.
Given == {Stream(i) : i \in 1..ids}
Written(s) == {s[i].key : i \in {j \in 1..Len(s) : Puts(s, j)}}

StoreInv ==
  /\ StoreTypes /\ In(StreamKeys) \subseteq Given /\ Tidy(db)
  /\ \A p \in Procs : UpToDate(todo[p], missed[p]) /\ Written(todo[p]) \subseteq Given \cup DeviceKeys

LEMMA KeysApart ==
  /\ StreamKeys \cap DeviceKeys = {} /\ IsFiniteSet(StreamKeys) /\ IsFiniteSet(DeviceKeys)
  /\ \A i \in 1..MaxStreams : Stream(i) \in StreamKeys
  /\ \A d \in Serials : Device(d) \in DeviceKeys
  /\ \A k \in DeviceKeys : k[2] \in Serials /\ Device(k[2]) = k
<1>1. IsFiniteSet(StreamKeys)
  <2> DEFINE f == [i \in 1..MaxStreams |-> Stream(i)]
  <2>1. f \in Surjection(1..MaxStreams, StreamKeys)
    BY DEF Surjection, StreamKeys
  <2> HIDE DEF f
  <2> QED
    BY <2>1, FS_Surjection, FS_Interval
<1>2. IsFiniteSet(DeviceKeys)
  <2> DEFINE f == [d \in Serials |-> Device(d)]
  <2>1. f \in Surjection(Serials, DeviceKeys)
    BY DEF Surjection, DeviceKeys
  <2> HIDE DEF f
  <2> QED
    BY <2>1, FS_Surjection
<1>3. StreamKeys \cap DeviceKeys = {}
  BY DEF StreamKeys, DeviceKeys, Stream, Device
<1>4. /\ \A i \in 1..MaxStreams : Stream(i) \in StreamKeys
      /\ \A d \in Serials : Device(d) \in DeviceKeys
      /\ \A k \in DeviceKeys : k[2] \in Serials /\ Device(k[2]) = k
  BY DEF StreamKeys, DeviceKeys, Stream, Device
<1> QED
  BY <1>1, <1>2, <1>3, <1>4

\* The elements of a finite set in an order, none left out.
LEMMA Listed ==
  ASSUME NEW S, IsFiniteSet(S)
  PROVE  /\ Cardinality(S) \in Nat /\ SetToSeq(S) \in [1..Cardinality(S) -> S]
         /\ SetToSeq(S) \in Seq(S) /\ Len(SetToSeq(S)) = Cardinality(S)
         /\ \A x \in S : \E i \in 1..Cardinality(S) : SetToSeq(S)[i] = x
<1> DEFINE n == Cardinality(S)
<1>1. n \in Nat /\ ExistsBijection(1..n, S)
  BY FS_CardinalityType
<1>2. PICK b \in Bijection(1..n, S) : TRUE
  BY <1>1 DEF ExistsBijection
<1>3. b \in [1..n -> S] /\ IsInjective(b)
  BY <1>2 DEF Bijection, Injection, IsInjective
<1>4. SetToSeq(S) \in [1..n -> S] /\ IsInjective(SetToSeq(S))
  BY <1>3 DEF SetToSeq
<1> DEFINE q == SetToSeq(S)
<1> HIDE DEF n, q
<1>5. q \in Seq(S) /\ Len(q) = n
  BY <1>1, <1>4 DEF q
<1>6. q \in Injection(1..n, S)
  BY <1>4 DEF Injection, IsInjective, q
<1>7. IsFiniteSet(1..n) /\ Cardinality(1..n) = n
  BY <1>1, FS_Interval
<1>8. q \in Surjection(1..n, S)
  BY <1>6, <1>7, FS_Injection DEF n
<1> QED
  BY <1>1, <1>4, <1>5, <1>8 DEF Surjection, q, n

LEMMA MarkedRow ==
  ASSUME NEW r \in StreamRows, NEW M
  PROVE  /\ Marked(r, M).dev = r.dev /\ Marked(r, M).ch = r.ch /\ Marked(r, M).missed = r.missed \cup M
         /\ r.dev \in Nat
BY DEF Marked, StreamRows

\* Commands that write no stream and delete no account.
Quiet(s) == \A i \in 1..Len(s) : ~StreamPut(s, i) /\ ~(s[i].do = "del" /\ s[i].key \in DeviceKeys)
LEMMA Harmless == ASSUME NEW T, NEW s, NEW M, Quiet(s) PROVE Leaves(T, s, M)
BY DEF Quiet, Leaves, WritesTidily, TakesAll

SameChannel(r, q) == r.dev = q.dev /\ r.ch = q.ch /\ r.missed = q.missed
\* Commands that write the streams of a tidy table where they were.
LEMMA Rewritten ==
  ASSUME NEW T, Tidy(T), NEW s, NEW M,
         \A i \in 1..Len(s) : ~(s[i].do = "del" /\ s[i].key \in DeviceKeys),
         \A i \in 1..Len(s) : StreamPut(s, i) =>
           /\ s[i].row \in StreamRows
           /\ s[i].row.dev # 0 => s[i].key \in StreamsOf(T) /\ SameChannel(s[i].row, T[s[i].key])
  PROVE  Leaves(T, s, M)
<1>1. TakesAll(T, s, M)
  BY DEF TakesAll
<1>2. ASSUME NEW i \in 1..Len(s), StreamPut(s, i), s[i].row.dev # 0
      PROVE  /\ Housed(T, s[i].key, Marked(s[i].row, M))
             /\ \A l \in StreamsOf(T) : Known(s[i].key, Marked(s[i].row, M), l, T[l])
             /\ \A j \in 1..Len(s) : StreamPut(s, j) =>
                  Known(s[i].key, Marked(s[i].row, M), s[j].key, Marked(s[j].row, M))
  <2> DEFINE k == s[i].key
             r == Marked(s[i].row, M)
  <2>1. /\ k \in StreamsOf(T) /\ r.dev = T[k].dev /\ r.ch = T[k].ch /\ T[k].missed \subseteq r.missed
    BY <1>2, MarkedRow DEF SameChannel
  <2>2. Housed(T, k, T[k]) /\ \A l \in StreamsOf(T) : Known(k, T[k], l, T[l])
    BY <2>1 DEF Tidy
  <2> HIDE DEF k, r
  <2>3. Housed(T, k, r) /\ \A l \in StreamsOf(T) : Known(k, r, l, T[l])
    BY <2>1, <2>2 DEF Housed, Known
  <2>4. ASSUME NEW j \in 1..Len(s), StreamPut(s, j)
        PROVE  Known(k, r, s[j].key, Marked(s[j].row, M))
    <3> DEFINE l == s[j].key
               q == Marked(s[j].row, M)
    <3>1. q.dev # 0 => /\ l \in StreamsOf(T) /\ q.dev = T[l].dev /\ q.ch = T[l].ch
                       /\ T[l].missed \subseteq q.missed
      BY <2>4, MarkedRow DEF SameChannel
    <3> HIDE DEF l, q
    <3>2. Known(k, r, l, q)
      BY <2>3, <3>1 DEF Known
    <3> QED
      BY <3>2 DEF l, q
  <2> QED
    BY <2>3, <2>4 DEF k, r
<1>3. ASSUME NEW i \in 1..Len(s), StreamPut(s, i), s[i].row.dev = 0
      PROVE  Marked(s[i].row, M).dev = 0
  BY <1>3, MarkedRow
<1>4. WritesTidily(T, s, M)
  BY <1>2, <1>3 DEF WritesTidily, Housed, Known
<1> QED
  BY <1>1, <1>4 DEF Leaves

\* What p has still to do leaves a table tidy in spite of what others, or its
\* own first command, have changed, if p counts it among what it has missed.
Keeps(T, U, x) ==
  x \in StreamsOf(T) /\ U[x].dev = T[x].dev /\ U[x].ch = T[x].ch /\ T[x].missed \subseteq U[x].missed
Writes(T, s, M, x) == StreamPut(s, 1) /\ x = s[1].key /\ T[x] = Marked(s[1].row, M)
\* The n first commands of s are done, u are the others, and T has become U.
GoneOn(T, s, M, U, u, N, n) ==
  /\ s \in Seq(Commands) /\ M \subseteq N /\ n \in {0, 1}
  /\ \A i \in 1..Len(u) : i + n \in 1..Len(s) /\ u[i] = s[i + n]
  /\ \A x \in StreamsOf(U) \ N : Keeps(T, U, x) \/ (n = 1 /\ Writes(U, s, M, x))
  /\ n = 1 /\ s[1].do = "del" => s[1].key \notin StreamsOf(U) \ N
  /\ \A d \in Nat : Device(d) \in DOMAIN T =>
       \/ Device(d) \in DOMAIN U \cup N
       \/ \E i \in 1..Len(s) : s[i].do = "del" /\ s[i].key \in DeviceKeys
LEMMA StillTidy ==
  ASSUME NEW T, NEW U, NEW s, NEW u, NEW M, NEW N, NEW n,
         Leaves(T, s, M), GoneOn(T, s, M, U, u, N, n)
  PROVE  Leaves(U, u, N)
<1> USE DEF GoneOn, Writes
<1>1. ASSUME NEW i \in 1..Len(s), StreamPut(s, i) PROVE s[i].row \in StreamRows
  BY <1>1, KeysApart DEF StreamPut, Puts, Commands
<1>2. ASSUME NEW i \in 1..Len(u), StreamPut(u, i)
      PROVE  /\ Housed(U, u[i].key, Marked(u[i].row, N))
             /\ \A l \in StreamsOf(U) : Known(u[i].key, Marked(u[i].row, N), l, U[l])
             /\ \A j \in 1..Len(u) : StreamPut(u, j) =>
                  Known(u[i].key, Marked(u[i].row, N), u[j].key, Marked(u[j].row, N))
  <2> DEFINE k == u[i].key
             r == Marked(u[i].row, M)
             q == Marked(u[i].row, N)
  <2>1. i + n \in 1..Len(s) /\ u[i] = s[i + n] /\ StreamPut(s, i + n) /\ s[i + n].do = "put"
    BY <1>2 DEF StreamPut, Puts
  <2>2. r.dev = q.dev /\ r.dev \in Nat /\ r.ch = q.ch /\ q.missed = r.missed \cup N
    BY <1>1, <2>1, MarkedRow
  <2>3. /\ Housed(T, k, r) /\ \A l \in StreamsOf(T) : Known(k, r, l, T[l])
        /\ \A j \in 1..Len(s) : StreamPut(s, j) => Known(k, r, s[j].key, Marked(s[j].row, M))
    BY <2>1 DEF Leaves, WritesTidily
  <2>4. \A j \in 1..Len(s) : ~(s[j].do = "del" /\ s[j].key \in DeviceKeys)
    BY <2>1 DEF Leaves, TakesAll
  <2> HIDE DEF k, r, q
  <2>5. Housed(U, k, q)
    BY <2>2, <2>3, <2>4 DEF Housed
  <2>6. ASSUME NEW l \in StreamsOf(U) PROVE Known(k, q, l, U[l])
    <3>1. CASE l \in N
      BY <2>2, <3>1 DEF Known
    <3>2. CASE Keeps(T, U, l)
      BY <2>2, <2>3, <3>2 DEF Known, Keeps
    <3>3. CASE StreamPut(s, 1) /\ l = s[1].key /\ U[l] = Marked(s[1].row, M)
      <4>1. 1 \in 1..Len(s)
        BY <3>3 DEF StreamPut, Puts
      <4>2. Known(k, r, l, U[l])
        BY <2>3, <3>3, <4>1
      <4> QED
        BY <2>2, <4>2 DEF Known
    <3> QED
      BY <3>1, <3>2, <3>3
  <2>7. ASSUME NEW j \in 1..Len(u), StreamPut(u, j)
        PROVE  Known(k, q, u[j].key, Marked(u[j].row, N))
    <3> DEFINE l == u[j].key
               v == Marked(u[j].row, M)
               w == Marked(u[j].row, N)
    <3>1. j + n \in 1..Len(s) /\ u[j] = s[j + n] /\ StreamPut(s, j + n)
      BY <2>7 DEF StreamPut, Puts
    <3>2. v.dev = w.dev /\ v.ch = w.ch /\ w.missed = v.missed \cup N /\ v.missed \subseteq w.missed
      BY <1>1, <3>1, MarkedRow
    <3>3. Known(k, r, l, v)
      BY <2>3, <3>1
    <3> HIDE DEF l, v, w
    <3>4. Known(k, q, l, w)
      BY <2>2, <3>2, <3>3 DEF Known
    <3> QED
      BY <3>4 DEF l, w
  <2> QED
    BY <2>5, <2>6, <2>7 DEF k, q
<1>3. ASSUME NEW i \in 1..Len(u), u[i].do = "del", u[i].key \in DeviceKeys
      PROVE  /\ \A j \in 1..Len(u) : u[j].do = "del"
             /\ \A x \in StreamsOf(U) : Device(U[x].dev) = u[i].key => x \in N \/ \E j \in 1..i-1 : u[j].key = x
  <2>1. i + n \in 1..Len(s) /\ u[i] = s[i + n] /\ \A j \in 1..Len(s) : s[j].do = "del"
    BY <1>3 DEF Leaves, TakesAll
  <2>2. ASSUME NEW x \in StreamsOf(U), Device(U[x].dev) = u[i].key, x \notin N
        PROVE  \E j \in 1..i-1 : u[j].key = x
    <3>1. Keeps(T, U, x)
      <4>1. 1 \in 1..Len(s) => ~StreamPut(s, 1)
        BY <2>1 DEF StreamPut, Puts
      <4> QED
        BY <2>2, <4>1 DEF StreamPut, Puts
    <3>2. PICK j \in 1..(i + n)-1 : s[j].key = x
      <4> DEFINE m == i + n
      <4>1. m \in 1..Len(s) /\ s[m].do = "del" /\ s[m].key \in DeviceKeys
        BY <1>3, <2>1
      <4>2. x \in StreamsOf(T) /\ Device(T[x].dev) = s[m].key /\ x \notin M
        BY <2>1, <2>2, <3>1 DEF Keeps
      <4> HIDE DEF m
      <4>3. \E j \in 1..m-1 : s[j].key = x
        BY <4>1, <4>2 DEF Leaves, TakesAll
      <4> QED
        BY <4>3 DEF m
    <3>3. j \in 1..Len(s)
      BY <2>1
    <3>4. n = 1 => j # 1
      BY <2>1, <2>2, <3>2, <3>3
    <3> DEFINE m == j - n
    <3>5. m \in 1..i-1 /\ m \in 1..Len(u) /\ m + n = j
      BY <3>2, <3>4
    <3> HIDE DEF m
    <3> QED
      BY <3>2, <3>5
  <2> QED
    BY <2>1, <2>2
<1> QED
  BY <1>2, <1>3 DEF Leaves, WritesTidily, TakesAll

LEMMA StoreStarts == StoreInit => StoreInv
<1> SUFFICES ASSUME StoreInit PROVE StoreInv
  OBVIOUS
<1> USE DEF StoreInit
<1>1. DOMAIN db = {Stream(1), Device(1)} /\ Stream(1) \in StreamKeys /\ Device(1) \in DeviceKeys
  BY KeysApart
<1>2. db[Stream(1)] = StreamRow(0, 1, 1, {}) /\ StreamRow(0, 1, 1, {}) \in StreamRows
  BY DEF StreamRow, StreamRows
<1>3. db[Device(1)] = DeviceRow([c \in {1, 2} |-> 0], {})
  BY <1>1, KeysApart
<1>4. DeviceRow([c \in {1, 2} |-> 0], {}) \in DeviceRows
  <2>1. [c \in {1, 2} |-> 0] \in Channels
    <3>1. [c \in {1, 2} |-> 0] \in [{1, 2} -> Nat] /\ {1, 2} \in SUBSET Serials
      OBVIOUS
    <3> QED
      BY <3>1 DEF Channels
  <2> QED
    BY <2>1 DEF DeviceRow, DeviceRows
<1>5. StoreTypes
  <2>1. DOMAIN db \subseteq AllKeys
    BY <1>1 DEF AllKeys
  <2>2. In(StreamKeys) = {Stream(1)} /\ In(DeviceKeys) = {Device(1)}
    BY <1>1, KeysApart DEF In
  <2>3. todo \in [Procs -> Seq(Commands)] /\ missed \in [Procs -> SUBSET AllKeys]
    OBVIOUS
  <2> QED
    BY <1>2, <1>3, <1>4, <2>1, <2>2, <2>3 DEF StoreTypes
<1>6. \A p \in Procs : UpToDate(todo[p], missed[p])
  BY Harmless DEF Quiet, UpToDate, Fresh, Rewrites, Ordered
<1>7. Tidy(db)
  <2>1. StreamsOf(db) = {Stream(1)} /\ Device(1) \in DOMAIN db
        /\ db[Stream(1)].dev = 1 /\ db[Stream(1)].ch = 1
    BY <1>1, <1>2, KeysApart DEF StreamsOf, StreamRow
  <2> QED
    BY <2>1 DEF Tidy, Housed, Known
<1>8. In(StreamKeys) \subseteq Given /\ \A p \in Procs : Written(todo[p]) \subseteq Given \cup DeviceKeys
  <2>1. In(StreamKeys) \subseteq {Stream(1)} /\ Stream(1) \in Given
    BY <1>1, KeysApart DEF In, Given
  <2>2. \A p \in Procs : Written(todo[p]) = {}
    BY DEF Written, Puts
  <2> QED
    BY <2>1, <2>2
<1> QED
  BY <1>5, <1>6, <1>7, <1>8 DEF StoreInv

\* An operation that begins with commands that are up to date.
LEMMA BeginStore ==
  ASSUME StoreInv, NEW p \in Procs, NEW s \in Seq(Commands), UpToDate(s, {}), Begin(p, s),
         ids' \in {ids, ids + 1}, ids' =< MaxStreams,
         Written(s) \subseteq DOMAIN db \cup DeviceKeys \cup {Stream(ids')}
  PROVE  StoreInv'
<1> USE DEF StoreInv
<1>1. /\ db' = db /\ ops' = ops + 1 /\ todo' = [todo EXCEPT ![p] = s]
      /\ missed' = [missed EXCEPT ![p] = {}]
  BY DEF Begin
<1>2. StoreTypes'
  BY <1>1 DEF StoreTypes, In
<1>3. Given \subseteq Given' /\ Stream(ids') \in Given'
  <2>1. ids \in Nat /\ ids \in 1..ids /\ ids' \in Nat /\ 1..ids \subseteq 1..ids' /\ ids' \in 1..ids'
    BY DEF StoreTypes
  <2> QED
    BY <2>1 DEF Given
<1>4. In(StreamKeys)' \subseteq Given'
  BY <1>1, <1>3 DEF In
<1>5. ASSUME NEW q \in Procs PROVE Written(todo[q])' \subseteq Given' \cup DeviceKeys
  <2>1. CASE q = p
    <3>1. todo'[q] = s
      BY <1>1, <2>1 DEF StoreTypes
    <3>2. DOMAIN db \subseteq Given \cup DeviceKeys
      BY DEF StoreTypes, In, AllKeys
    <3>3. Written(todo[q])' = Written(s)
      BY <3>1 DEF Written, Puts
    <3> QED
      BY <1>3, <3>2, <3>3
  <2>2. CASE q # p
    <3>1. todo'[q] = todo[q]
      BY <1>1, <2>2 DEF StoreTypes
    <3>2. Written(todo[q])' = Written(todo[q])
      BY <3>1 DEF Written, Puts
    <3> QED
      BY <1>3, <3>2
  <2> QED
    BY <2>1, <2>2
<1>6. ASSUME NEW q \in Procs PROVE UpToDate(todo[q], missed[q])'
  <2>1. CASE q = p
    <3>1. todo'[q] = s /\ missed'[q] = {}
      BY <1>1, <2>1 DEF StoreTypes
    <3>2. Fresh(todo[q], missed[q])'
      BY <1>1, <3>1 DEF UpToDate, Fresh, Puts
    <3>3. Rewrites(todo[q], missed[q])'
      BY <1>1, <3>1 DEF UpToDate, Rewrites, Puts, In
    <3>4. Ordered(todo[q])'
      BY <3>1 DEF UpToDate, Ordered, Puts
    <3>5. Leaves(db', todo'[q], missed'[q])
      BY <1>1, <3>1 DEF UpToDate
    <3> QED
      BY <3>2, <3>3, <3>4, <3>5 DEF UpToDate
  <2>2. CASE q # p
    <3>1. todo'[q] = todo[q] /\ missed'[q] = missed[q]
      BY <1>1, <2>2 DEF StoreTypes
    <3>2. UpToDate(todo[q], missed[q])
      OBVIOUS
    <3> QED
      BY <1>1, <3>1, <3>2 DEF UpToDate, Fresh, Rewrites, Ordered, Puts, In
  <2> QED
    BY <2>1, <2>2
<1>7. Tidy(db)'
  BY <1>1
<1> QED
  BY <1>2, <1>4, <1>5, <1>6, <1>7

\* Commands of each kind.
LEMMA CommandTypes ==
  /\ \A k \in StreamKeys, r \in StreamRows : Put(k, r) \in Commands
  /\ \A k \in DeviceKeys, r \in DeviceRows : Put(k, r) \in Commands
  /\ \A k, r : Put(k, r).do = "put" /\ Put(k, r).key = k /\ Put(k, r).row = r
  /\ \A k \in AllKeys : Del(k) \in Commands /\ Del(k).do = "del"
  /\ \A K \in SUBSET StreamKeys : Wipe(K) \in Commands /\ Wipe(K).do = "wipe" /\ Wipe(K).gone = K
  /\ \A d \in Serials, chans \in Channels : Sync(d, chans) \in Commands /\ Sync(d, chans).do = "sync"
  /\ \A d \in Serials, c \in Nat : DropChannel(d, c) \in Commands /\ DropChannel(d, c).do = "dropchannel"
BY DEF Put, Del, Wipe, Sync, DropChannel, Commands, AllKeys

LEMMA OnePut ==
  ASSUME NEW k, NEW r, Put(k, r) \in Commands, k \in DOMAIN db => db[k].edits \subseteq r.edits,
         Leaves(db, <<Put(k, r)>>, {})
  PROVE  /\ <<Put(k, r)>> \in Seq(Commands) /\ UpToDate(<<Put(k, r)>>, {})
         /\ <<Put(k, r)>> # <<>> /\ Written(<<Put(k, r)>>) = {k}
<1> DEFINE c == Put(k, r)
<1>1. c.do = "put" /\ c.key = k /\ c.row = r
  BY CommandTypes
<1> HIDE DEF c
<1> QED
  BY <1>1 DEF UpToDate, Fresh, Rewrites, Ordered, Puts, Written, c

\* A stream written as it is, or one that does not come from an account.
LEMMA OneStreamRow ==
  ASSUME Tidy(db), NEW k \in StreamKeys, NEW r \in StreamRows,
         r.dev # 0 => k \in StreamsOf(db) /\ SameChannel(r, db[k])
  PROVE  Leaves(db, <<Put(k, r)>>, {})
<1> DEFINE s == <<Put(k, r)>>
<1>1. Len(s) = 1 /\ s[1].do = "put" /\ s[1].key = k /\ s[1].row = r
  BY CommandTypes
<1> HIDE DEF s
<1>2. Leaves(db, s, {})
  <2>1. \A i \in 1..Len(s) : i = 1
    BY <1>1
  <2> QED
    BY <1>1, <2>1, Rewritten
<1> QED
  BY <1>2 DEF s

\* Commands none of which writes a row by itself.
LEMMA NoPuts ==
  ASSUME NEW s \in Seq(Commands), \A i \in 1..Len(s) : s[i].do \notin {"put", "wipe"}, NEW M,
         TakesAll(db, s, M)
  PROVE  UpToDate(s, M) /\ Written(s) = {}
BY DEF UpToDate, Fresh, Rewrites, Ordered, Puts, Written, Leaves, WritesTidily, StreamPut

LEMMA Weaker == ASSUME NEW s, UpToDate(s, {}), NEW M, Leaves(db, s, M) PROVE UpToDate(s, M)
BY DEF UpToDate, Fresh, Rewrites

\* A whole list, written with every row that is not meant to go.
LEMMA SavedStreams ==
  ASSUME StoreTypes, NEW K \in SUBSET StreamKeys, NEW gone \in SUBSET StreamKeys,
         NEW list, DOMAIN list = K, \A k \in K : list[k] \in StreamRows,
         In(StreamKeys) \subseteq K \cup gone,
         \A k \in In(K) : db[k].edits \subseteq list[k].edits,
         Tidy(db), \A k \in K : list[k].dev # 0 => k \in StreamsOf(db) /\ SameChannel(list[k], db[k])
  PROVE  /\ SaveStreams(list, gone) \in Seq(Commands) /\ UpToDate(SaveStreams(list, gone), {})
         /\ SaveStreams(list, gone) # <<>> /\ Written(SaveStreams(list, gone)) \subseteq K
<1> DEFINE n == Cardinality(K)
           q == SetToSeq(K)
           puts == [i \in 1..n |-> Put(q[i], list[q[i]])]
           s == SaveStreams(list, gone)
<1>1. /\ n \in Nat /\ q \in [1..n -> K] /\ \A k \in K : \E i \in 1..n : q[i] = k
  BY KeysApart, FS_Subset, Listed
<1>2. s = <<Wipe(gone)>> \o puts
  BY DEF SaveStreams
<1> HIDE DEF n, q
<1>3. puts \in Seq(Commands) /\ Len(puts) = n
  <2>1. \A i \in 1..n : Put(q[i], list[q[i]]) \in Commands
    BY <1>1, CommandTypes
  <2> QED
    BY <1>1, <2>1
<1>4. Wipe(gone) \in Commands /\ Wipe(gone).do = "wipe" /\ Wipe(gone).gone = gone
  BY CommandTypes
<1> HIDE DEF s
<1>5. /\ s \in Seq(Commands) /\ Len(s) = n + 1 /\ s[1] = Wipe(gone)
      /\ \A i \in 2..n+1 : s[i] = puts[i-1]
  <2> HIDE DEF puts
  <2> QED
    BY <1>1, <1>2, <1>3, <1>4
<1>6. \A i \in 2..n+1 : s[i].do = "put" /\ s[i].key = q[i-1] /\ s[i].row = list[q[i-1]] /\ q[i-1] \in K
  BY <1>1, <1>5, CommandTypes
<1>7. /\ s[1].do = "wipe" /\ s[1].gone = gone
      /\ \A i \in 1..Len(s) : i = 1 \/ i \in 2..n+1
      /\ \A i \in 2..n+1 : s[i].do # "wipe"
  <2>1. s[1].do = "wipe" /\ s[1].gone = gone
    BY <1>4, <1>5
  <2>2. \A i \in 1..Len(s) : i = 1 \/ i \in 2..n+1
    BY <1>1, <1>5
  <2>3. \A i \in 2..n+1 : s[i].do # "wipe"
    <3>1. \A i \in 2..n+1 : s[i].do = "put"
      BY <1>6
    <3> QED
      BY <3>1
  <2> QED
    BY <2>1, <2>2, <2>3
<1>8. Fresh(s, {})
  <2>1. ASSUME NEW i \in 1..Len(s), Puts(s, i), s[i].key \in DOMAIN db
        PROVE  db[s[i].key].edits \subseteq s[i].row.edits
    <3>1. i # 1
      BY <1>7, <2>1 DEF Puts
    <3>2. i \in 2..n+1
      BY <1>7, <3>1
    <3>3. PICK k \in K : k = s[i].key /\ list[k] = s[i].row
      BY <1>6, <3>2
    <3>4. k \in In(K)
      BY <2>1, <3>3 DEF In
    <3> QED
      BY <3>3, <3>4
  <2> QED
    BY <2>1 DEF Fresh
<1>9. Rewrites(s, {})
  <2>1. ASSUME NEW k \in In(StreamKeys) \ gone PROVE \E j \in 2..Len(s) : Puts(s, j) /\ s[j].key = k
    <3>1. PICK i \in 1..n : q[i] = k
      BY <1>1, <2>1
    <3>2. i + 1 \in 2..Len(s) /\ (i + 1) - 1 = i
      BY <1>1, <1>5
    <3>3. s[i+1].do = "put" /\ s[i+1].key = k
      BY <1>1, <1>5, <1>6, <3>1, <3>2
    <3> QED
      BY <1>1, <1>5, <3>2, <3>3 DEF Puts
  <2> QED
    BY <1>7, <2>1 DEF Rewrites
<1>10. Ordered(s)
  BY <1>6, <1>7 DEF Ordered, Puts
<1>11. Written(s) \subseteq K /\ s # <<>>
  BY <1>1, <1>5, <1>6, <1>7 DEF Written, Puts
<1>12. Leaves(db, s, {})
  <2>1. \A i \in 1..Len(s) : ~(s[i].do = "del" /\ s[i].key \in DeviceKeys)
    <3>1. \A i \in 2..n+1 : s[i].do = "put"
      BY <1>6
    <3> QED
      BY <1>7, <3>1
  <2>2. ASSUME NEW i \in 1..Len(s), StreamPut(s, i)
        PROVE  /\ s[i].row \in StreamRows
               /\ s[i].row.dev # 0 => s[i].key \in StreamsOf(db) /\ SameChannel(s[i].row, db[s[i].key])
    <3>1. i # 1
      BY <1>7, <2>2 DEF StreamPut, Puts
    <3>2. i \in 2..n+1
      BY <1>7, <3>1
    <3>3. PICK k \in K : k = s[i].key /\ list[k] = s[i].row
      BY <1>6, <3>2
    <3> QED
      BY <3>3
  <2> QED
    BY <2>1, <2>2, Rewritten
<1> QED
  BY <1>5, <1>8, <1>9, <1>10, <1>11, <1>12 DEF UpToDate, s

\* The row of an account, once or twice, and the names of its streams.
LEMMA Upserted ==
  ASSUME NEW d \in Serials, NEW row \in DeviceRows,
         Device(d) \in DOMAIN db => db[Device(d)].edits \subseteq row.edits,
         NEW s \in {<<>>, UpsertDevice(d, row), ReplaceChannels(d, row)}
  PROVE  /\ s \in Seq(Commands) /\ UpToDate(s, {}) /\ Written(s) \subseteq DeviceKeys /\ Quiet(s)
         /\ s \o s \in Seq(Commands) /\ UpToDate(s \o s, {}) /\ Written(s \o s) \subseteq DeviceKeys
<1> DEFINE c == Put(Device(d), row)
           y == Sync(d, row.chans)
<1>1. /\ c \in Commands /\ c.do = "put" /\ c.key = Device(d) /\ c.row = row
      /\ y \in Commands /\ y.do = "sync" /\ Device(d) \in DeviceKeys
  BY KeysApart, CommandTypes DEF DeviceRows
<1>2. s = <<>> \/ s = <<c, y>>
  BY DEF UpsertDevice, ReplaceChannels
<1> HIDE DEF c, y
<1>3. s \in Seq(Commands) /\ \A i \in 1..Len(s) : s[i] \in {c, y}
  <2>1. CASE s = <<>>
    BY <2>1
  <2>2. CASE s = <<c, y>>
    <3>1. s \in Seq({c, y})
      BY <2>2
    <3>2. s \in Seq(Commands)
      BY <1>1, <2>2
    <3> QED
      BY <3>1, <3>2, ElementOfSeq
  <2> QED
    BY <1>2, <2>1, <2>2
<1>4. s \o s \in Seq(Commands) /\ \A i \in 1..Len(s \o s) : (s \o s)[i] \in {c, y}
  BY <1>3, ConcatProperties
<1>5. ASSUME NEW q \in Seq(Commands), \A i \in 1..Len(q) : q[i] \in {c, y}
      PROVE  UpToDate(q, {}) /\ Written(q) \subseteq DeviceKeys /\ Quiet(q)
  <2>1. c.do # "wipe" /\ y.do \notin {"put", "wipe"}
    BY <1>1
  <2>2. \A i \in 1..Len(q) : q[i].do # "wipe" /\ (Puts(q, i) => q[i] = c)
    BY <1>5, <2>1 DEF Puts
  <2>3. Fresh(q, {}) /\ Rewrites(q, {}) /\ Ordered(q)
    BY <1>1, <2>2 DEF Fresh, Rewrites, Ordered
  <2>4. Written(q) \subseteq DeviceKeys
    BY <1>1, <2>2 DEF Written
  <2>5. Quiet(q)
    BY <1>1, <1>5, <2>2, KeysApart DEF Quiet, StreamPut
  <2>6. Leaves(db, q, {})
    BY <2>5, Harmless
  <2> QED
    BY <2>3, <2>4, <2>5, <2>6 DEF UpToDate
<1> QED
  BY <1>3, <1>4, <1>5

\* The row as read, with one edit more.
LEMMA EditedRow ==
  ASSUME StoreTypes
  PROVE  /\ \A k \in In(StreamKeys) : Edited(k) \in StreamRows /\ SameChannel(Edited(k), db[k])
         /\ \A k \in In(DeviceKeys) : Edited(k) \in DeviceRows /\ Edited(k).chans = db[k].chans
         /\ \A k \in DOMAIN db : db[k].edits \subseteq Edited(k).edits
         /\ DOMAIN db = In(StreamKeys) \cup In(DeviceKeys)
         /\ \A k \in DOMAIN db : db[k].edits \subseteq Nat
<1>1. ops + 1 \in Nat
  BY DEF StoreTypes
<1>2. DOMAIN db = In(StreamKeys) \cup In(DeviceKeys)
  BY DEF StoreTypes, In, AllKeys
<1>3. ASSUME NEW k \in In(StreamKeys)
      PROVE  /\ Edited(k) \in StreamRows /\ db[k].edits \subseteq Edited(k).edits /\ db[k].edits \subseteq Nat
             /\ SameChannel(Edited(k), db[k])
  <2>1. db[k] \in StreamRows
    BY DEF StoreTypes
  <2> QED
    BY <1>1, <2>1 DEF Edited, StreamRows, SameChannel
<1>4. ASSUME NEW k \in In(DeviceKeys)
      PROVE  /\ Edited(k) \in DeviceRows /\ db[k].edits \subseteq Edited(k).edits /\ db[k].edits \subseteq Nat
             /\ Edited(k).chans = db[k].chans
  <2>1. db[k] \in DeviceRows
    BY DEF StoreTypes
  <2> QED
    BY <1>1, <2>1 DEF Edited, DeviceRows
<1> QED
  BY <1>2, <1>3, <1>4

\* The id that is given out next has not been given out before.
LEMMA NewStream ==
  ASSUME StoreInv, ids < MaxStreams
  PROVE  Stream(ids + 1) \in StreamKeys /\ Stream(ids + 1) \notin DOMAIN db /\ ids + 1 =< MaxStreams
<1>1. ids \in 1..MaxStreams /\ ids + 1 \in 1..MaxStreams /\ ids + 1 \notin 1..ids
  BY DEF StoreInv, StoreTypes
<1>2. Stream(ids + 1) \in StreamKeys
  BY <1>1, KeysApart
<1>3. Stream(ids + 1) \notin Given
  BY <1>1 DEF Given, Stream
<1> QED
  BY <1>1, <1>2, <1>3 DEF StoreInv, In

\* Operations on the whole list of streams.
LEMMA ListStore ==
  ASSUME StoreInv, NEW p \in Procs,
         PageChanges(p) \/ PageAdds(p) \/ PageRemoves(p) \/ Scrub(p)
  PROVE  StoreInv'
<1> USE DEF StoreInv
<1>1. /\ ids \in Nat /\ ids =< MaxStreams /\ In(StreamKeys) \in SUBSET StreamKeys
      /\ {} \in SUBSET StreamKeys
  BY DEF StoreTypes, In
<1>2. DOMAIN Streams = In(StreamKeys) /\ \A k \in In(StreamKeys) : Streams[k] = db[k] /\ db[k] \in StreamRows
  BY DEF StoreTypes, Streams
<1>3. ASSUME NEW list, NEW gone \in SUBSET StreamKeys, NEW K \in SUBSET StreamKeys, DOMAIN list = K,
             Begin(p, SaveStreams(list, gone)),
             \A k \in K : list[k] \in StreamRows, In(StreamKeys) \subseteq K \cup gone,
             \A k \in In(K) : db[k].edits \subseteq list[k].edits,
             \A k \in K : list[k].dev # 0 => k \in StreamsOf(db) /\ SameChannel(list[k], db[k]),
             ids' \in {ids, ids + 1}, ids' =< MaxStreams, K \subseteq DOMAIN db \cup {Stream(ids')}
      PROVE  StoreInv'
  <2>1. /\ SaveStreams(list, gone) \in Seq(Commands) /\ UpToDate(SaveStreams(list, gone), {})
        /\ Written(SaveStreams(list, gone)) \subseteq K
    BY <1>3, SavedStreams
  <2> QED
    BY <1>3, <2>1, BeginStore
<1>4. ASSUME NEW K \in SUBSET In(StreamKeys), NEW list,
             list = [k \in In(StreamKeys) |-> IF k \in K THEN Edited(k) ELSE db[k]],
             Begin(p, SaveStreams(list, {})), UNCHANGED ids
      PROVE  StoreInv'
  <2>1. \A k \in In(StreamKeys) : /\ list[k] \in StreamRows /\ db[k].edits \subseteq list[k].edits
                                  /\ k \in StreamsOf(db) /\ SameChannel(list[k], db[k])
    BY <1>2, <1>4, EditedRow DEF SameChannel, StreamsOf, In
  <2>2. DOMAIN list = In(StreamKeys) /\ In(In(StreamKeys)) = In(StreamKeys)
    BY <1>4 DEF In
  <2>3. In(StreamKeys) \subseteq DOMAIN db
    BY DEF In
  <2> QED
    BY <1>1, <1>3, <1>4, <2>1, <2>2, <2>3
<1>5. CASE PageChanges(p)
  <2>1. PICK k \in In(StreamKeys) : Begin(p, SaveStreams([Streams EXCEPT ![k] = Edited(k)], {}))
    BY <1>5 DEF PageChanges
  <2>2. [Streams EXCEPT ![k] = Edited(k)] = [j \in In(StreamKeys) |-> IF j \in {k} THEN Edited(j) ELSE db[j]]
    BY <1>2
  <2> QED
    BY <1>4, <1>5, <2>1, <2>2 DEF PageChanges
<1>6. CASE Scrub(p)
  <2>1. PICK K \in SUBSET In(StreamKeys) :
          Begin(p, SaveStreams([k \in DOMAIN Streams |-> IF k \in K THEN Edited(k) ELSE Streams[k]], {}))
    BY <1>6 DEF Scrub
  <2>2. [k \in DOMAIN Streams |-> IF k \in K THEN Edited(k) ELSE Streams[k]]
          = [j \in In(StreamKeys) |-> IF j \in K THEN Edited(j) ELSE db[j]]
    BY <1>2
  <2> QED
    BY <1>4, <1>6, <2>1, <2>2 DEF Scrub
<1>7. CASE PageAdds(p)
  <2> DEFINE k == Stream(ids + 1)
             row == StreamRow(0, 0, 0, {ops + 1})
             list == With(Streams, k, row)
             K == In(StreamKeys) \cup {k}
  <2>1. ids < MaxStreams /\ ids' = ids + 1 /\ Begin(p, SaveStreams(list, {}))
    BY <1>7 DEF PageAdds
  <2>2. k \in StreamKeys /\ k \notin DOMAIN db
    BY <1>1, <2>1, NewStream
  <2>3. row \in StreamRows /\ row.dev = 0
    BY DEF StreamRow, StreamRows, StoreTypes
  <2> HIDE DEF row, k
  <2>4. DOMAIN list = K /\ list[k] = row /\ \A j \in In(StreamKeys) : list[j] = db[j]
    BY <1>2, <2>2 DEF With, In
  <2> HIDE DEF list
  <2>5. \A j \in K : /\ list[j] \in StreamRows
                     /\ list[j].dev # 0 => j \in StreamsOf(db) /\ SameChannel(list[j], db[j])
    BY <1>2, <2>3, <2>4 DEF SameChannel, StreamsOf, In
  <2>6. In(K) = In(StreamKeys) /\ K \subseteq DOMAIN db \cup {Stream(ids')} /\ K \in SUBSET StreamKeys
    BY <2>1, <2>2 DEF In, k
  <2> QED
    BY <1>1, <1>3, <2>1, <2>4, <2>5, <2>6
<1>8. CASE PageRemoves(p)
  <2>1. PICK k \in In(StreamKeys) : Begin(p, SaveStreams(Without(Streams, {k}), {k}))
    BY <1>8 DEF PageRemoves
  <2> DEFINE list == Without(Streams, {k})
             K == In(StreamKeys) \ {k}
  <2>2. DOMAIN list = K /\ \A j \in K : list[j] = db[j]
    BY <1>2 DEF Without
  <2>3. In(K) = K /\ K \subseteq DOMAIN db /\ K \in SUBSET StreamKeys /\ {k} \in SUBSET StreamKeys
    BY DEF In
  <2>4. UNCHANGED ids
    BY <1>8 DEF PageRemoves
  <2>5. \A j \in K : j \in StreamsOf(db) /\ SameChannel(list[j], db[j])
    BY <2>2 DEF SameChannel, StreamsOf, In
  <2> HIDE DEF list
  <2> QED
    BY <1>1, <1>2, <1>3, <2>1, <2>2, <2>3, <2>4, <2>5 DEF list
<1> QED
  BY <1>5, <1>6, <1>7, <1>8

\* An account's channels are serials.
LEMMA ChannelRows ==
  ASSUME StoreTypes, NEW k \in In(DeviceKeys)
  PROVE  /\ db[k].chans \in Channels /\ DOMAIN db[k].chans \subseteq Serials /\ Serials \subseteq Nat
         /\ \A c \in DOMAIN db[k].chans : db[k].chans[c] \in Nat
         /\ k[2] \in Serials /\ k = Device(k[2]) /\ k \in DOMAIN db
<1>1. db[k].chans \in Channels
  BY DEF StoreTypes, DeviceRows
<1>2. PICK S \in SUBSET Serials : db[k].chans \in [S -> Nat]
  BY <1>1 DEF Channels
<1>3. Serials \subseteq Nat
  BY FS_CardinalityType
<1>4. k[2] \in Serials /\ k = Device(k[2]) /\ k \in DOMAIN db
  BY KeysApart DEF In
<1> QED
  BY <1>1, <1>2, <1>3, <1>4

\* Operations on one row of the streams.
LEMMA RowStore ==
  ASSUME StoreInv, NEW p \in Procs,
         AddStream(p) \/ PatchStream(p) \/ RefreshStream(p) \/ Join(p) \/ PersistGbPlay(p)
  PROVE  StoreInv'
<1> USE DEF StoreInv
<1>1. ids \in Nat /\ ids =< MaxStreams
  BY DEF StoreTypes
<1>2. ASSUME NEW k \in In(StreamKeys), NEW row \in StreamRows, db[k].edits \subseteq row.edits,
             SameChannel(row, db[k]), Begin(p, <<Put(k, row)>>), UNCHANGED ids
      PROVE  StoreInv'
  <2>1. k \in DOMAIN db /\ k \in StreamKeys
    BY DEF In
  <2>2. Put(k, row) \in Commands
    BY <2>1, CommandTypes
  <2> DEFINE s == <<Put(k, row)>>
  <2>5. Leaves(db, s, {})
    <3>1. row.dev # 0 => k \in StreamsOf(db) /\ SameChannel(row, db[k])
      BY <1>2, <2>1 DEF StreamsOf
    <3> QED
      BY <2>1, <3>1, OneStreamRow
  <2>3. s \in Seq(Commands) /\ UpToDate(s, {}) /\ Written(s) = {k}
    BY <1>2, <2>2, <2>5, OnePut
  <2>4. Begin(p, s)
    BY <1>2
  <2> HIDE DEF s
  <2> QED
    BY <1>1, <1>2, <2>1, <2>3, <2>4, BeginStore
<1>3. ASSUME ids < MaxStreams, ids' = ids + 1, NEW row \in StreamRows, Begin(p, <<Put(Stream(ids + 1), row)>>),
             Leaves(db, <<Put(Stream(ids + 1), row)>>, {})
      PROVE  StoreInv'
  <2>1. Stream(ids + 1) \in StreamKeys /\ Stream(ids + 1) \notin DOMAIN db
    BY <1>3, NewStream
  <2>2. Put(Stream(ids + 1), row) \in Commands
    BY <2>1, CommandTypes
  <2> DEFINE s == <<Put(Stream(ids + 1), row)>>
  <2>3. s \in Seq(Commands) /\ UpToDate(s, {}) /\ Written(s) = {Stream(ids + 1)}
    BY <1>3, <2>1, <2>2, OnePut
  <2>4. Begin(p, s) /\ ids + 1 =< MaxStreams
    BY <1>1, <1>3
  <2> HIDE DEF s
  <2> QED
    BY <1>3, <2>3, <2>4, BeginStore
<1>4. CASE AddStream(p)
  <2> DEFINE row == StreamRow(0, 0, 0, {ops + 1})
  <2>1. row \in StreamRows /\ row.dev = 0
    BY DEF StreamRow, StreamRows, StoreTypes
  <2>2. Begin(p, <<Put(Stream(ids + 1), row)>>) /\ ids < MaxStreams /\ ids' = ids + 1
    BY <1>4 DEF AddStream
  <2> HIDE DEF row
  <2>3. Leaves(db, <<Put(Stream(ids + 1), row)>>, {})
    <3>1. Stream(ids + 1) \in StreamKeys
      BY <2>2, NewStream
    <3> QED
      BY <2>1, <3>1, OneStreamRow
  <2> QED
    BY <1>3, <2>1, <2>2, <2>3
<1>5. CASE Join(p)
  <2>1. PICK k \in In(DeviceKeys) : \E c \in DOMAIN db[k].chans :
          /\ ~FindStreamForChannel(k[2], c)
          /\ Begin(p, <<Put(Stream(ids + 1), StreamRow(db[k].chans[c], k[2], c, {}))>>)
    BY <1>5 DEF Join
  <2>2. PICK c \in DOMAIN db[k].chans :
          /\ ~FindStreamForChannel(k[2], c)
          /\ Begin(p, <<Put(Stream(ids + 1), StreamRow(db[k].chans[c], k[2], c, {}))>>)
    BY <2>1
  <2>3. db[k].chans[c] \in Nat /\ k[2] \in Nat /\ c \in Nat \ {0} /\ Device(k[2]) \in DOMAIN db
    <3>1. Serials \subseteq Nat \ {0}
      BY FS_CardinalityType
    <3> QED
      BY <3>1, ChannelRows
  <2> DEFINE row == StreamRow(db[k].chans[c], k[2], c, {})
             n == Stream(ids + 1)
  <2>4. row \in StreamRows /\ row.dev = k[2] /\ row.ch = c
    BY <2>3 DEF StreamRow, StreamRows
  <2>5. \A l \in StreamsOf(db) : row.dev # 0 => ~(db[l].dev = row.dev /\ db[l].ch = row.ch)
    BY <2>2, <2>4 DEF FindStreamForChannel, StreamsForGb, StreamsOf, In
  <2>6. Begin(p, <<Put(n, row)>>) /\ ids < MaxStreams /\ ids' = ids + 1
    BY <1>5, <2>2 DEF Join
  <2> HIDE DEF row
  <2>7. Leaves(db, <<Put(n, row)>>, {})
    <3> HIDE DEF n
    <3>1. Marked(row, {}) = row
      BY <2>4 DEF Marked, StreamRows
    <3>2. Housed(db, n, row) /\ \A l \in StreamsOf(db) : Known(n, row, l, db[l])
      BY <2>3, <2>4, <2>5 DEF Housed, Known
    <3>3. \A r, q : Known(n, r, n, q)
      BY DEF Known
    <3> QED
      BY <3>1, <3>2, <3>3 DEF Leaves, WritesTidily, TakesAll, StreamPut, Puts, Put
  <2> QED
    BY <1>3, <2>4, <2>6, <2>7 DEF n
<1>6. CASE PatchStream(p)
  <2>1. PICK k \in In(StreamKeys), name \in {TRUE, FALSE} :
          Begin(p, <<Put(k, IF name THEN [Edited(k) EXCEPT !.name = ops + 1] ELSE Edited(k))>>)
    BY <1>6 DEF PatchStream
  <2>2. /\ Edited(k) \in StreamRows /\ db[k].edits \subseteq Edited(k).edits /\ ops + 1 \in Nat
        /\ SameChannel(Edited(k), db[k])
    BY EditedRow DEF StoreTypes, In
  <2> DEFINE row == [Edited(k) EXCEPT !.name = ops + 1]
  <2>3. row \in StreamRows /\ row.edits = Edited(k).edits /\ SameChannel(row, db[k])
    BY <2>2 DEF StreamRows, SameChannel
  <2> HIDE DEF row
  <2>4. UNCHANGED ids
    BY <1>6 DEF PatchStream
  <2> QED
    BY <1>2, <2>1, <2>2, <2>3, <2>4 DEF row
<1>7. CASE RefreshStream(p) \/ PersistGbPlay(p)
  <2>1. PICK k \in In(StreamKeys) : Begin(p, <<Put(k, Edited(k))>>)
    BY <1>7 DEF RefreshStream, PersistGbPlay
  <2>2. Edited(k) \in StreamRows /\ db[k].edits \subseteq Edited(k).edits /\ SameChannel(Edited(k), db[k])
    BY EditedRow DEF In
  <2> QED
    BY <1>2, <1>7, <2>1, <2>2 DEF RefreshStream, PersistGbPlay
<1> QED
  BY <1>4, <1>5, <1>6, <1>7

\* The greatest of finitely many naturals.
LEMMA MaxIs ==
  ASSUME NEW S \in SUBSET Nat, NEW n \in Nat, \A x \in S : x =< n, S # {}
  PROVE  Max(S) \in S /\ \A x \in S : x =< Max(S)
<1> DEFINE Less == {ss \in Nat \X Nat : ss[1] < ss[2]}
           U == {u \in Nat : \A x \in S : x =< u}
<1>1. IsWellFoundedOn(Less, Nat)
  BY NatLessThanWellFounded DEF OpToRel
<1>2. \A x, y \in Nat : y < x => <<y, x>> \in Less
  OBVIOUS
<1>3. U \in SUBSET Nat /\ U # {} /\ \A u \in U, x \in S : x =< u
  OBVIOUS
<1> HIDE DEF Less
<1>4. PICK u \in U : \A y \in U : <<y, u>> \notin Less
  BY <1>1, <1>3, WFMin
<1>5. u \in S
  <2>1. SUFFICES ASSUME u \notin S PROVE FALSE
    OBVIOUS
  <2>2. u \in Nat /\ \A x \in S : x < u /\ x \in Nat
    BY <1>3, <2>1
  <2>3. u - 1 \in Nat /\ u - 1 < u /\ \A x \in S : x =< u - 1
    <3>1. PICK x \in S : TRUE
      OBVIOUS
    <3> QED
      BY <2>2, <3>1
  <2>4. u - 1 \in U
    BY <2>3
  <2> QED
    BY <1>2, <1>3, <1>4, <2>3, <2>4
<1>6. \E m \in S : \A y \in S : m >= y
  BY <1>3, <1>5
<1> QED
  BY <1>6 DEF Max

LEMMA NewAccount ==
  ASSUME StoreTypes
  PROVE  AllocateSipIds \notin {k[2] : k \in In(DeviceKeys)}
<1> DEFINE n == Cardinality(Serials)
           A == {k[2] : k \in In(DeviceKeys)} \cup {0}
           B == UNION {DOMAIN db[k].chans : k \in In(DeviceKeys)}
           C == {0} \cup B
           a == MaxAccount
           c == MaxChannel
<1>1. n \in Nat /\ Serials = 1..n
  BY FS_CardinalityType
<1>2. /\ A \in SUBSET Nat /\ A # {} /\ \A x \in A : x =< n
      /\ C \in SUBSET Nat /\ C # {} /\ \A x \in C : x =< n
  <2>1. \A x \in Serials : x \in Nat /\ x =< n
    BY <1>1
  <2> HIDE DEF n
  <2>2. A \subseteq Serials \cup {0} /\ C \subseteq Serials \cup {0} /\ 0 \in A /\ 0 \in C
    <3>1. \A k \in In(DeviceKeys) : k[2] \in Serials /\ DOMAIN db[k].chans \subseteq Serials
      BY ChannelRows
    <3>2. A \subseteq Serials \cup {0} /\ 0 \in A
      BY <3>1
    <3>3. \A x \in B : x \in Serials
      BY <3>1
    <3> HIDE DEF A, B
    <3> QED
      BY <3>2, <3>3
  <2> HIDE DEF A, C
  <2> QED
    BY <1>1, <2>1, <2>2
<1>3. a = Max(A) /\ c = Max(C)
  <2>1. a = Max(A)
    BY DEF MaxAccount
  <2>2. c = Max(C)
    BY DEF MaxChannel
  <2> QED
    BY <2>1, <2>2
<1> HIDE DEF A, B, C, n, a, c
<1>4. a \in Nat /\ c \in Nat /\ \A x \in A : x =< a
  BY <1>1, <1>2, <1>3, MaxIs
<1> DEFINE m == IF a >= c THEN a + 1 ELSE c + 1
           b == Max({a + 1, c + 1})
<1>5. {a + 1, c + 1} \in SUBSET Nat /\ m \in Nat /\ \A x \in {a + 1, c + 1} : x =< m
  BY <1>4
<1>6. b \in {a + 1, c + 1} /\ \A x \in {a + 1, c + 1} : x =< b
  <2> HIDE DEF m
  <2> QED
    BY <1>5, MaxIs
<1>7. b \in Nat /\ b > a
  BY <1>4, <1>6
<1>8. b \notin A
  BY <1>2, <1>4, <1>7
<1>9. AllocateSipIds = b
  BY DEF AllocateSipIds, a, c
<1> QED
  BY <1>8, <1>9 DEF A

\* Operations on the row of an account.
LEMMA AccountStore ==
  ASSUME StoreInv, NEW p \in Procs,
         CreateDevice(p) \/ PostDevice(p) \/ PatchDevice(p) \/ AddChannel(p) \/ PatchChannel(p)
           \/ MergeCatalog(p)
  PROVE  StoreInv'
<1> USE DEF StoreInv
<1>1. ids \in Nat /\ ids =< MaxStreams /\ ops + 1 \in Nat
  BY DEF StoreTypes
<1>2. ASSUME NEW d \in Serials, NEW row \in DeviceRows, UNCHANGED ids,
             Device(d) \in DOMAIN db => db[Device(d)].edits \subseteq row.edits,
             NEW s \in {<<>>, UpsertDevice(d, row), ReplaceChannels(d, row)},
             Begin(p, s) \/ Begin(p, s \o s)
      PROVE  StoreInv'
  <2>1. /\ s \in Seq(Commands) /\ UpToDate(s, {}) /\ Written(s) \subseteq DeviceKeys
        /\ s \o s \in Seq(Commands) /\ UpToDate(s \o s, {}) /\ Written(s \o s) \subseteq DeviceKeys
    BY <1>2, Upserted
  <2>2. CASE Begin(p, s)
    BY <1>1, <1>2, <2>1, <2>2, BeginStore
  <2>3. CASE Begin(p, s \o s)
    <3> DEFINE q == s \o s
    <3> HIDE DEF q
    <3>1. q \in Seq(Commands) /\ UpToDate(q, {}) /\ Written(q) \subseteq DeviceKeys /\ Begin(p, q)
      BY <2>1, <2>3 DEF q
    <3> QED
      BY <1>1, <1>2, <3>1, BeginStore
  <2> QED
    BY <1>2, <2>2, <2>3
<1>3. ASSUME NEW k \in In(DeviceKeys), NEW row \in DeviceRows, row.edits = Edited(k).edits, UNCHANGED ids,
             NEW s \in {<<>>, UpsertDevice(k[2], row), ReplaceChannels(k[2], row)},
             Begin(p, s) \/ Begin(p, s \o s)
      PROVE  StoreInv'
  <2>1. k[2] \in Serials /\ k = Device(k[2]) /\ k \in DOMAIN db
    BY ChannelRows
  <2>2. db[k].edits \subseteq Edited(k).edits
    BY <2>1, EditedRow
  <2> QED
    BY <1>2, <1>3, <2>1, <2>2
<1>4. ASSUME NEW k \in In(DeviceKeys), NEW chans \in Channels
      PROVE  /\ [Edited(k) EXCEPT !.chans = chans] \in DeviceRows
             /\ [Edited(k) EXCEPT !.chans = chans].edits = Edited(k).edits
  BY EditedRow DEF DeviceRows
<1>5. CASE CreateDevice(p)
  <2> DEFINE d == AllocateSipIds
             row == DeviceRow(<<>>, {ops + 1})
  <2>1. d \in Serials /\ Begin(p, UpsertDevice(d, row)) /\ UNCHANGED ids
    BY <1>5 DEF CreateDevice
  <2>2. <<>> \in Channels
    <3>1. <<>> \in [{} -> Nat] /\ {} \in SUBSET Serials
      OBVIOUS
    <3> QED
      BY <3>1 DEF Channels
  <2>3. row \in DeviceRows
    BY <1>1, <2>2 DEF DeviceRow, DeviceRows
  <2>4. Device(d) \notin DOMAIN db
    <3>1. Device(d) \in DeviceKeys /\ Device(d)[2] = d
      BY <2>1, KeysApart DEF Device
    <3> QED
      BY <3>1, NewAccount DEF In
  <2> HIDE DEF d, row
  <2> QED
    BY <1>2, <2>1, <2>3, <2>4
<1>6. CASE PostDevice(p)
  <2>1. PICK k \in In(DeviceKeys), channels \in BOOLEAN :
          Begin(p, UpsertDevice(k[2], IF channels THEN Edited(k) ELSE [Edited(k) EXCEPT !.chans = <<>>]))
    BY <1>6 DEF PostDevice
  <2> DEFINE row == IF channels THEN Edited(k) ELSE [Edited(k) EXCEPT !.chans = <<>>]
  <2>2. <<>> \in Channels
    <3>1. <<>> \in [{} -> Nat] /\ {} \in SUBSET Serials
      OBVIOUS
    <3> QED
      BY <3>1 DEF Channels
  <2>3. row \in DeviceRows /\ row.edits = Edited(k).edits
    BY <1>4, <2>2, EditedRow
  <2>4. UNCHANGED ids
    BY <1>6 DEF PostDevice
  <2> HIDE DEF row
  <2>5. Begin(p, UpsertDevice(k[2], row))
    BY <2>1 DEF row
  <2> QED
    BY <1>3, <2>3, <2>4, <2>5
<1>7. CASE PatchDevice(p)
  <2>1. PICK k \in In(DeviceKeys) : Begin(p, UpsertDevice(k[2], Edited(k)))
    BY <1>7 DEF PatchDevice
  <2>2. Edited(k) \in DeviceRows
    BY EditedRow
  <2> QED
    BY <1>3, <1>7, <2>1, <2>2 DEF PatchDevice
<1>8. CASE AddChannel(p)
  <2>1. PICK k \in In(DeviceKeys), c \in Serials \cup {AllocateChannelId} :
          /\ c \in Serials \ DOMAIN db[k].chans
          /\ Begin(p, ReplaceChannels(k[2], [Edited(k) EXCEPT !.chans = With(@, c, ops + 1)]))
    BY <1>8 DEF AddChannel
  <2> DEFINE chans == With(db[k].chans, c, ops + 1)
             row == [Edited(k) EXCEPT !.chans = chans]
  <2>2. chans \in Channels
    <3>1. chans \in [DOMAIN db[k].chans \cup {c} -> Nat]
      BY <1>1, ChannelRows DEF With
    <3>2. DOMAIN db[k].chans \cup {c} \in SUBSET Serials
      BY <2>1, ChannelRows
    <3> QED
      BY <3>1, <3>2 DEF Channels
  <2>3. row \in DeviceRows /\ row.edits = Edited(k).edits
    <3> HIDE DEF chans
    <3> QED
      BY <1>4, <2>2
  <2>4. UNCHANGED ids
    BY <1>8 DEF AddChannel
  <2>5. Begin(p, ReplaceChannels(k[2], row))
    <3>1. Edited(k).chans = db[k].chans
      BY EditedRow
    <3> QED
      BY <2>1, <3>1
  <2> HIDE DEF row
  <2> QED
    BY <1>3, <2>3, <2>4, <2>5
<1>9. CASE PatchChannel(p)
  <2>1. PICK k \in In(DeviceKeys) : \E c \in DOMAIN db[k].chans, new \in Serials :
          Begin(p, ReplaceChannels(k[2],
             [Edited(k) EXCEPT !.chans = With(Without(@, {c}), new, IF new = c THEN ops + 1 ELSE @[c])]))
    BY <1>9 DEF PatchChannel
  <2>2. PICK c \in DOMAIN db[k].chans, new \in Serials :
          Begin(p, ReplaceChannels(k[2],
             [Edited(k) EXCEPT !.chans = With(Without(@, {c}), new, IF new = c THEN ops + 1 ELSE @[c])]))
    BY <2>1
  <2> DEFINE old == db[k].chans
             v == IF new = c THEN ops + 1 ELSE old[c]
             chans == With(Without(old, {c}), new, v)
             row == [Edited(k) EXCEPT !.chans = chans]
  <2>3. DOMAIN old \subseteq Serials /\ (\A x \in DOMAIN old : old[x] \in Nat) /\ v \in Nat
    BY <1>1, ChannelRows
  <2>4. chans \in Channels
    <3> HIDE DEF v, old
    <3>1. chans \in [(DOMAIN old \ {c}) \cup {new} -> Nat]
      BY <2>3 DEF With, Without
    <3>2. (DOMAIN old \ {c}) \cup {new} \in SUBSET Serials
      BY <2>3
    <3> QED
      BY <3>1, <3>2 DEF Channels
  <2>5. row \in DeviceRows /\ row.edits = Edited(k).edits
    <3> HIDE DEF chans
    <3> QED
      BY <1>4, <2>4
  <2>6. UNCHANGED ids
    BY <1>9 DEF PatchChannel
  <2>7. Begin(p, ReplaceChannels(k[2], row))
    <3>1. Edited(k).chans = db[k].chans
      BY EditedRow
    <3> QED
      BY <2>2, <3>1
  <2> HIDE DEF row
  <2> QED
    BY <1>3, <2>5, <2>6, <2>7
<1>10. CASE MergeCatalog(p)
  <2>1. PICK k \in In(DeviceKeys), voice \in BOOLEAN : \E New \in SUBSET (Serials \ DOMAIN db[k].chans) :
          LET once == ReplaceChannels(k[2], [Edited(k) EXCEPT
                !.chans = [c \in DOMAIN @ \cup New |-> IF c \in New THEN 0 ELSE @[c]]])
          IN Begin(p, IF voice THEN once \o once ELSE once)
    BY <1>10 DEF MergeCatalog
  <2>2. PICK New \in SUBSET (Serials \ DOMAIN db[k].chans) :
          LET once == ReplaceChannels(k[2], [Edited(k) EXCEPT
                !.chans = [c \in DOMAIN @ \cup New |-> IF c \in New THEN 0 ELSE @[c]]])
          IN Begin(p, IF voice THEN once \o once ELSE once)
    BY <2>1
  <2> DEFINE old == db[k].chans
             chans == [c \in DOMAIN old \cup New |-> IF c \in New THEN 0 ELSE old[c]]
             row == [Edited(k) EXCEPT !.chans = chans]
             s == ReplaceChannels(k[2], row)
  <2>3. chans \in Channels
    <3>1. DOMAIN old \subseteq Serials /\ (\A x \in DOMAIN old : old[x] \in Nat)
      BY ChannelRows
    <3> HIDE DEF old
    <3>2. chans \in [DOMAIN old \cup New -> Nat]
      BY <3>1
    <3>3. DOMAIN old \cup New \in SUBSET Serials
      BY <3>1
    <3> QED
      BY <3>2, <3>3 DEF Channels
  <2>4. row \in DeviceRows /\ row.edits = Edited(k).edits
    <3> HIDE DEF chans
    <3> QED
      BY <1>4, <2>3
  <2>5. UNCHANGED ids
    BY <1>10 DEF MergeCatalog
  <2>6. Begin(p, s) \/ Begin(p, s \o s)
    <3>1. Edited(k).chans = db[k].chans
      BY EditedRow
    <3> QED
      BY <2>2, <3>1
  <2> HIDE DEF row
  <2> QED
    BY <1>3, <2>4, <2>5, <2>6
<1> QED
  BY <1>5, <1>6, <1>7, <1>8, <1>9, <1>10

\* Streams are taken out, or an account with its streams.
LEMMA DeletionStore ==
  ASSUME StoreInv, NEW p \in Procs,
         DeleteStream(p) \/ DeleteChannel(p) \/ DeleteDevice(p)
  PROVE  StoreInv'
<1> USE DEF StoreInv
<1>1. ids \in Nat /\ ids =< MaxStreams /\ UNCHANGED ids
  BY DEF StoreTypes, DeleteStream, DeleteChannel, DeleteDevice
<1>2. ASSUME NEW s \in Seq(Commands), \A i \in 1..Len(s) : s[i].do \notin {"put", "wipe"}, Begin(p, s),
             TakesAll(db, s, {})
      PROVE  StoreInv'
  <2>1. UpToDate(s, {}) /\ Written(s) = {}
    BY <1>2, NoPuts
  <2> QED
    BY <1>1, <1>2, <2>1, BeginStore
<1>3. ASSUME NEW d, NEW c, NEW last \in Commands, last.do \notin {"put", "wipe"},
             last.do = "del" /\ last.key \in DeviceKeys =>
               \A x \in StreamsOf(db) : Device(db[x].dev) = last.key => x \in StreamsForGb(d, c),
             Begin(p, Append(DropGbStreams(d, c), last))
      PROVE  StoreInv'
  <2> DEFINE q == SetToSeq(StreamsForGb(d, c))
             n == Cardinality(StreamsForGb(d, c))
             dels == DropGbStreams(d, c)
  <2>1. IsFiniteSet(StreamsForGb(d, c)) /\ StreamsForGb(d, c) \subseteq StreamKeys
    <3>1. StreamsForGb(d, c) \in SUBSET StreamKeys
      BY DEF StreamsForGb, In
    <3> QED
      BY <3>1, KeysApart, FS_Subset
  <2>2. /\ n \in Nat /\ Len(q) = n /\ \A i \in 1..n : q[i] \in StreamKeys
        /\ \A x \in StreamsForGb(d, c) : \E i \in 1..n : q[i] = x
    BY <2>1, Listed
  <2>3. dels = [i \in 1..n |-> Del(q[i])]
    BY <2>2 DEF DropGbStreams
  <2> HIDE DEF q, n, dels
  <2>4. \A i \in 1..n : Del(q[i]) \in Commands /\ Del(q[i]).do = "del" /\ Del(q[i]).key = q[i]
    BY <2>2, CommandTypes DEF AllKeys, Del
  <2>5. dels \in Seq(Commands) /\ Len(dels) = n /\ \A i \in 1..n : dels[i].do = "del" /\ dels[i].key = q[i]
    BY <2>2, <2>3, <2>4
  <2> DEFINE s == Append(dels, last)
  <2>6. /\ s \in Seq(Commands) /\ Len(s) = n + 1 /\ s[n + 1] = last
        /\ \A i \in 1..Len(s) : i \in 1..n \/ i = n + 1
        /\ \A i \in 1..n : s[i].do = "del" /\ s[i].key = q[i]
    BY <1>3, <2>2, <2>5
  <2>7. Begin(p, s)
    BY <1>3 DEF dels
  <2> HIDE DEF s
  <2>8. \A i \in 1..Len(s) : s[i].do \notin {"put", "wipe"}
    BY <1>3, <2>6
  <2>9. TakesAll(db, s, {})
    <3>1. ASSUME NEW i \in 1..Len(s), s[i].do = "del", s[i].key \in DeviceKeys
          PROVE  i = n + 1 /\ s[i] = last /\ last.do = "del" /\ last.key \in DeviceKeys
      BY <2>2, <2>6, <3>1, KeysApart
    <3>2. ASSUME last.do = "del" PROVE \A j \in 1..Len(s) : s[j].do = "del"
      BY <2>6, <3>2
    <3>3. ASSUME last.do = "del", last.key \in DeviceKeys, NEW x \in StreamsOf(db), Device(db[x].dev) = last.key
          PROVE  \E j \in 1..(n + 1)-1 : s[j].key = x
      <4>1. PICK j \in 1..n : q[j] = x
        BY <1>3, <2>2, <3>3
      <4> QED
        BY <2>2, <2>6, <4>1
    <3> QED
      BY <3>1, <3>2, <3>3 DEF TakesAll
  <2> QED
    BY <1>2, <2>6, <2>7, <2>8, <2>9
<1>4. CASE DeleteStream(p)
  <2>1. PICK k \in In(StreamKeys) : Begin(p, <<Del(k)>>)
    BY <1>4 DEF DeleteStream
  <2>2. Del(k) \in Commands /\ Del(k).do = "del" /\ Del(k).key \in StreamKeys
    BY CommandTypes DEF In, AllKeys, Del
  <2> DEFINE s == <<Del(k)>>
  <2>3. /\ s \in Seq(Commands) /\ \A i \in 1..Len(s) : s[i].do \notin {"put", "wipe"}
        /\ \A i \in 1..Len(s) : s[i].key \notin DeviceKeys
    BY <2>2, KeysApart
  <2> HIDE DEF s
  <2>4. Begin(p, s)
    BY <2>1 DEF s
  <2> QED
    BY <1>2, <2>3, <2>4 DEF TakesAll
<1>5. CASE DeleteChannel(p)
  <2>1. PICK k \in In(DeviceKeys) : \E c \in DOMAIN db[k].chans :
          Begin(p, Append(DropGbStreams(k[2], c), DropChannel(k[2], c)))
    BY <1>5 DEF DeleteChannel
  <2>2. PICK c \in DOMAIN db[k].chans : Begin(p, Append(DropGbStreams(k[2], c), DropChannel(k[2], c)))
    BY <2>1
  <2>3. k[2] \in Serials /\ c \in Nat
    BY ChannelRows
  <2>4. DropChannel(k[2], c) \in Commands /\ DropChannel(k[2], c).do = "dropchannel"
    BY <2>3, CommandTypes
  <2> QED
    BY <1>3, <2>2, <2>4
<1>6. CASE DeleteDevice(p)
  <2>1. PICK k \in In(DeviceKeys) : Begin(p, Append(DropGbStreams(k[2], 0), Del(k)))
    BY <1>6 DEF DeleteDevice
  <2>2. Del(k) \in Commands /\ Del(k).do = "del" /\ Del(k).key = k
    BY CommandTypes DEF In, AllKeys, Del
  <2>3. ASSUME NEW x \in StreamsOf(db), Device(db[x].dev) = k PROVE x \in StreamsForGb(k[2], 0)
    BY <2>3 DEF StreamsForGb, StreamsOf, In, Device
  <2> QED
    BY <1>3, <2>1, <2>2, <2>3
<1> QED
  BY <1>4, <1>5, <1>6

\* Every account is written, or the streams of every account are named.
LEMMA EveryAccountStore ==
  ASSUME StoreInv, NEW p \in Procs, GetStreams(p) \/ WriteRuntime(p) \/ RefreshStatuses(p)
  PROVE  StoreInv'
<1> USE DEF StoreInv
<1> DEFINE q == SetToSeq(In(DeviceKeys))
           n == Cardinality(In(DeviceKeys))
<1>1. ids \in Nat /\ ids =< MaxStreams /\ UNCHANGED ids
  BY DEF StoreTypes, GetStreams, WriteRuntime, RefreshStatuses
<1>2. /\ n \in Nat /\ Len(q) = n /\ \A i \in 1..n : q[i] \in In(DeviceKeys)
  <2>1. In(DeviceKeys) \in SUBSET DeviceKeys
    BY DEF In
  <2>2. IsFiniteSet(In(DeviceKeys))
    BY <2>1, KeysApart, FS_Subset
  <2> QED
    BY <2>2, Listed
<1>3. \A k \in In(DeviceKeys) :
        /\ k \in DeviceKeys /\ k \in DOMAIN db /\ k[2] \in Serials
        /\ db[k] \in DeviceRows /\ db[k].chans \in Channels
  <2>1. ASSUME NEW k \in In(DeviceKeys)
        PROVE  k[2] \in Serials /\ db[k] \in DeviceRows /\ db[k].chans \in Channels
    BY ChannelRows DEF StoreTypes
  <2> QED
    BY <2>1 DEF In
<1>4. CASE GetStreams(p)
  <2> DEFINE s == [i \in 1..Len(q) |-> Sync(q[i][2], db[q[i]].chans)]
  <2>1. Begin(p, s)
    BY <1>4 DEF GetStreams
  <2> HIDE DEF q, n
  <2>2. \A i \in 1..n : /\ Sync(q[i][2], db[q[i]].chans) \in Commands
                        /\ Sync(q[i][2], db[q[i]].chans).do = "sync"
    BY <1>2, <1>3, CommandTypes
  <2>3. s \in Seq(Commands) /\ \A i \in 1..Len(s) : s[i].do \notin {"put", "wipe", "del"}
    BY <1>2, <2>2
  <2> HIDE DEF s
  <2>4. UpToDate(s, {}) /\ Written(s) = {}
    BY <2>3, NoPuts DEF TakesAll
  <2> QED
    BY <1>1, <2>1, <2>3, <2>4, BeginStore
<1>5. CASE WriteRuntime(p)
  <2>1. PICK k \in In(DeviceKeys) : Begin(p, <<Put(k, db[k])>>)
    BY <1>5 DEF WriteRuntime
  <2>2. Put(k, db[k]) \in Commands
    BY <1>3, CommandTypes
  <2> DEFINE s == <<Put(k, db[k])>>
  <2>5. Leaves(db, s, {})
    <3>1. k \notin StreamKeys
      BY KeysApart DEF In
    <3>2. \A i \in 1..Len(s) : s[i].do = "put" /\ s[i].key = k
      BY CommandTypes
    <3> HIDE DEF s
    <3> QED
      BY <3>1, <3>2, Harmless DEF Quiet, StreamPut
  <2>3. s \in Seq(Commands) /\ UpToDate(s, {}) /\ Written(s) = {k}
    BY <2>2, <2>5, OnePut
  <2>4. Begin(p, s)
    BY <2>1
  <2> HIDE DEF s
  <2> QED
    BY <1>1, <1>3, <2>3, <2>4, BeginStore
<1>6. CASE RefreshStatuses(p)
  <2> DEFINE s == [i \in 1..Len(q) |-> Put(q[i], db[q[i]])]
  <2>1. Begin(p, s)
    BY <1>6 DEF RefreshStatuses
  <2> HIDE DEF q, n
  <2>2. \A i \in 1..n : /\ Put(q[i], db[q[i]]) \in Commands /\ Put(q[i], db[q[i]]).do = "put"
                        /\ Put(q[i], db[q[i]]).key = q[i] /\ Put(q[i], db[q[i]]).row = db[q[i]]
    BY <1>2, <1>3, CommandTypes
  <2>3. /\ s \in Seq(Commands) /\ Len(s) = n
        /\ \A i \in 1..n : s[i].do = "put" /\ s[i].key = q[i] /\ s[i].row = db[q[i]] /\ q[i] \in In(DeviceKeys)
    BY <1>2, <2>2
  <2> HIDE DEF s
  <2>4. UpToDate(s, {}) /\ Written(s) \subseteq DeviceKeys
    <3>1. Fresh(s, {}) /\ Ordered(s)
      BY <2>3 DEF Fresh, Ordered, Puts
    <3>2. Rewrites(s, {})
      <4>1. \A i \in 1..Len(s) : s[i].do # "wipe"
        BY <2>3
      <4> QED
        BY <4>1 DEF Rewrites
    <3>3. Written(s) \subseteq DeviceKeys
      BY <1>3, <2>3 DEF Written
    <3>4. Leaves(db, s, {})
      <4>1. \A i \in 1..Len(s) : s[i].do = "put" /\ s[i].key \notin StreamKeys
        BY <1>3, <2>3, KeysApart
      <4> QED
        BY <4>1, Harmless DEF Quiet, StreamPut
    <3> QED
      BY <3>1, <3>2, <3>3, <3>4 DEF UpToDate
  <2> QED
    BY <1>1, <2>1, <2>3, <2>4, BeginStore
<1> QED
  BY <1>4, <1>5, <1>6

\* A process has other commands, or knows more or less; the tables stay.
LEMMA RethinkStore ==
  ASSUME StoreInv, NEW p \in Procs, NEW s \in Seq(Commands), NEW M \in SUBSET AllKeys,
         UNCHANGED <<db, ops, ids>>, todo' = [todo EXCEPT ![p] = s], missed' = [missed EXCEPT ![p] = M],
         UpToDate(s, M), Written(s) \subseteq Given \cup DeviceKeys
  PROVE  StoreInv'
<1> USE DEF StoreInv
<1>1. StoreTypes'
  BY DEF StoreTypes, In
<1>2. In(StreamKeys)' = In(StreamKeys) /\ Given' = Given
  BY DEF In, Given
<1>3. ASSUME NEW q \in Procs, NEW t \in Seq(Commands), NEW N, todo'[q] = t, missed'[q] = N,
             UpToDate(t, N), Written(t) \subseteq Given \cup DeviceKeys
      PROVE  UpToDate(todo[q], missed[q])' /\ (Written(todo[q]) \subseteq Given \cup DeviceKeys)'
  <2>5. /\ db' = db /\ todo'[q] = t /\ missed'[q] = N
        /\ Fresh(t, N) /\ Rewrites(t, N) /\ Ordered(t)
    BY <1>3 DEF UpToDate
  <2>1. Fresh(todo[q], missed[q])'
    BY ONLY <2>5 DEF Fresh, Puts
  <2>2. Rewrites(todo[q], missed[q])'
    BY ONLY <2>5 DEF Rewrites, Puts, In
  <2>3. Ordered(todo[q])'
    BY ONLY <2>5 DEF Ordered, Puts
  <2>4. Written(todo[q])' = Written(t)
    BY <1>3 DEF Written, Puts
  <2> QED
    BY <1>2, <1>3, <2>1, <2>2, <2>3, <2>4 DEF UpToDate
<1>4. ASSUME NEW q \in Procs
      PROVE  UpToDate(todo[q], missed[q])' /\ (Written(todo[q]) \subseteq Given \cup DeviceKeys)'
  <2>1. CASE q = p
    <3>1. todo'[q] = s /\ missed'[q] = M
      BY <2>1 DEF StoreTypes
    <3> QED
      BY <1>3, <3>1
  <2>2. CASE q # p
    <3>1. todo'[q] = todo[q] /\ missed'[q] = missed[q] /\ todo[q] \in Seq(Commands)
      BY <2>2 DEF StoreTypes
    <3> QED
      BY <1>3, <3>1
  <2> QED
    BY <2>1, <2>2
<1> QED
  BY <1>1, <1>2, <1>4

\* The commands after the first one.
LEMMA TheRest ==
  ASSUME NEW s \in Seq(Commands), s # <<>>, NEW M, UpToDate(s, M)
  PROVE  /\ s[1] \in Commands /\ Head(s) = s[1] /\ 1 \in 1..Len(s)
         /\ Tail(s) \in Seq(Commands) /\ Len(Tail(s)) = Len(s) - 1 /\ Len(s) \in Nat
         /\ \A i \in 1..Len(Tail(s)) : i + 1 \in 2..Len(s) /\ Tail(s)[i] = s[i + 1]
         /\ \A i \in 1..Len(Tail(s)) : Tail(s)[i].do # "wipe"
         /\ Ordered(Tail(s)) /\ Written(Tail(s)) \subseteq Written(s)
<1>1. /\ s[1] \in Commands /\ Head(s) = s[1] /\ 1 \in 1..Len(s) /\ Len(s) \in Nat
      /\ Tail(s) \in Seq(Commands) /\ Len(Tail(s)) = Len(s) - 1
      /\ \A i \in 1..Len(Tail(s)) : i + 1 \in 2..Len(s) /\ Tail(s)[i] = s[i + 1]
  OBVIOUS
<1> DEFINE u == Tail(s)
<1> HIDE DEF u
<1>2. \A i \in 1..Len(u) : i + 1 \in 1..Len(s) /\ i + 1 # 1 /\ u[i] = s[i + 1]
  BY <1>1 DEF u
<1>3. \A i \in 1..Len(u) : u[i].do # "wipe"
  BY <1>2 DEF UpToDate, Rewrites
<1>4. Ordered(u)
  <2>1. ASSUME NEW i \in 1..Len(u), NEW j \in 1..Len(u), i < j
        PROVE  /\ u[i].do = "sync" /\ Puts(u, j) => u[j].key \in DeviceKeys
               /\ Puts(u, i) /\ Puts(u, j) /\ u[i].key = u[j].key => u[i].row.edits \subseteq u[j].row.edits
    <3>1. i + 1 < j + 1 /\ i + 1 \in 1..Len(s) /\ j + 1 \in 1..Len(s) /\ u[i] = s[i + 1] /\ u[j] = s[j + 1]
      BY <1>2, <2>1
    <3> QED
      BY <3>1 DEF UpToDate, Ordered, Puts
  <2> QED
    BY <2>1 DEF Ordered
<1>5. Written(u) \subseteq Written(s)
  BY <1>2 DEF Written, Puts
<1> QED
  BY <1>1, <1>3, <1>4, <1>5 DEF u

\* Redis has carried out p's next command, which changed rows of K.
LEMMA ExecuteStore ==
  ASSUME StoreInv, NEW p \in Procs, NEW K \in SUBSET AllKeys, todo[p] # <<>>,
         Executes(p, K, Tail(todo[p])),
         DOMAIN db' \subseteq AllKeys, In(StreamKeys)' \subseteq Given,
         \A k \in In(StreamKeys)' : db'[k] \in StreamRows,
         \A k \in In(DeviceKeys)' : db'[k] \in DeviceRows,
         \A k \in DOMAIN db' \ K : k \in DOMAIN db /\ db'[k].edits = db[k].edits,
         \A i \in 2..Len(todo[p]) : Puts(todo[p], i) /\ todo[p][i].key \in DOMAIN db' \ missed[p] =>
           db'[todo[p][i].key].edits \subseteq todo[p][i].row.edits,
         NEW T, T = db', Tidy(T),
         \A x \in StreamsOf(T) : Keeps(db, T, x) \/ (x \in K /\ Writes(T, todo[p], missed[p], x)),
         todo[p][1].do = "del" => todo[p][1].key \notin StreamsOf(T),
         \A d \in Nat : Device(d) \in DOMAIN db \ DOMAIN T =>
           Device(d) \in K /\ todo[p][1].do = "del" /\ todo[p][1].key \in DeviceKeys
  PROVE  StoreInv'
<1> USE DEF StoreInv
<1> DEFINE s == todo[p]
           u == Tail(s)
<1>1. /\ todo' = [todo EXCEPT ![p] = u] /\ UNCHANGED <<ops, ids>>
      /\ missed' = [q \in Procs |-> IF q = p THEN IF u = <<>> THEN {} ELSE missed[q]
                                    ELSE IF todo[q] = <<>> THEN {} ELSE missed[q] \cup K]
  BY DEF Executes
<1>2. /\ s \in Seq(Commands) /\ u \in Seq(Commands) /\ Len(u) \in Nat
      /\ \A i \in 1..Len(u) : i + 1 \in 2..Len(s) /\ u[i] = s[i + 1] /\ u[i].do # "wipe"
      /\ Ordered(u) /\ Written(u) \subseteq Written(s)
  <2>1. s \in Seq(Commands) /\ UpToDate(s, missed[p]) /\ s # <<>>
    BY DEF StoreTypes
  <2> HIDE DEF s
  <2> QED
    BY <2>1, TheRest
<1> HIDE DEF u
<1>3. StoreTypes'
  BY <1>1, <1>2 DEF StoreTypes
<1>4. Given' = Given
  BY <1>1 DEF Given
<1>5. todo'[p] = u /\ missed'[p] = (IF u = <<>> THEN {} ELSE missed[p])
  BY <1>1 DEF StoreTypes
<1>6. UpToDate(todo[p], missed[p])' /\ (Written(todo[p]) \subseteq Given \cup DeviceKeys)'
  <2>1. Fresh(todo[p], missed[p])'
    <3>1. ASSUME NEW i \in 1..Len(u), Puts(u, i), u[i].key \in DOMAIN db' \ missed'[p]
          PROVE  db'[u[i].key].edits \subseteq u[i].row.edits
      <4>1. i + 1 \in 2..Len(s) /\ u[i] = s[i + 1] /\ Puts(s, i + 1)
        BY <1>2, <3>1 DEF Puts
      <4>2. missed'[p] = missed[p]
        BY <1>2, <1>5, <3>1
      <4> QED
        BY <3>1, <4>1, <4>2
    <3> QED
      BY <1>5, <3>1 DEF Fresh, Puts
  <2>2. Rewrites(todo[p], missed[p])'
    BY <1>2, <1>5 DEF Rewrites
  <2>3. Ordered(todo[p])'
    BY <1>2, <1>5 DEF Ordered, Puts
  <2>4. Written(todo[p])' = Written(u)
    BY <1>5 DEF Written, Puts
  <2>5. Leaves(T, u, missed'[p])
    <3>1. CASE u = <<>>
      BY <3>1, Harmless DEF Quiet
    <3>2. CASE u # <<>>
      <4>1. missed'[p] = missed[p] /\ Leaves(db, s, missed[p]) /\ s[1] = todo[p][1] /\ 1 \in 1..Len(s)
        BY <1>2, <1>5, <3>2 DEF UpToDate
      <4>2. \A i \in 1..Len(u) : i + 1 \in 1..Len(s) /\ u[i] = s[i + 1]
        BY <1>2
      <4>3. \A d \in Nat : Device(d) \in DOMAIN db =>
              \/ Device(d) \in DOMAIN T
              \/ \E i \in 1..Len(s) : s[i].do = "del" /\ s[i].key \in DeviceKeys
        BY <4>1
      <4>4. GoneOn(db, s, missed[p], T, u, missed[p], 1)
        BY <1>2, <4>2, <4>3 DEF GoneOn
      <4> QED
        BY <4>1, <4>4, StillTidy
    <3> QED
      BY <3>1, <3>2
  <2> QED
    BY <1>2, <1>4, <1>5, <2>1, <2>2, <2>3, <2>4, <2>5 DEF UpToDate
<1>7. ASSUME NEW q \in Procs, q # p
      PROVE  UpToDate(todo[q], missed[q])' /\ (Written(todo[q]) \subseteq Given \cup DeviceKeys)'
  <2>1. todo'[q] = todo[q]
    BY <1>1, <1>7 DEF StoreTypes
  <2>2. Written(todo[q])' = Written(todo[q])
    BY <2>1 DEF Written, Puts
  <2>3. CASE todo[q] = <<>>
    <3>1. Leaves(T, todo'[q], missed'[q])
      BY <2>1, <2>3, Harmless DEF Quiet
    <3> QED
      BY <1>4, <2>1, <2>2, <2>3, <3>1 DEF UpToDate, Fresh, Rewrites, Ordered
  <2>4. CASE todo[q] # <<>>
    <3>1. missed'[q] = missed[q] \cup K
      BY <1>1, <1>7, <2>4
    <3>2. UpToDate(todo[q], missed[q])
      OBVIOUS
    <3>3. Fresh(todo[q], missed[q])'
      BY <2>1, <3>1, <3>2 DEF UpToDate, Fresh, Puts
    <3>4. Rewrites(todo[q], missed[q])'
      BY <2>1, <3>1, <3>2 DEF UpToDate, Rewrites, Puts, In
    <3>5. Ordered(todo[q])'
      BY <2>1, <3>2 DEF UpToDate, Ordered, Puts
    <3>6. Leaves(T, todo'[q], missed'[q])
      <4>1. todo[q] \in Seq(Commands) /\ Leaves(db, todo[q], missed[q])
        BY <3>2 DEF StoreTypes, UpToDate
      <4>2. \A i \in 1..Len(todo[q]) : i + 0 \in 1..Len(todo[q]) /\ todo[q][i] = todo[q][i + 0]
        BY <4>1
      <4>3. GoneOn(db, todo[q], missed[q], T, todo[q], missed[q] \cup K, 0)
        BY <4>1, <4>2 DEF GoneOn
      <4> QED
        BY <2>1, <3>1, <4>1, <4>3, StillTidy
    <3> QED
      BY <1>4, <2>2, <3>3, <3>4, <3>5, <3>6 DEF UpToDate
  <2> QED
    BY <2>3, <2>4
<1>8. Tidy(db)'
  OBVIOUS
<1> QED
  BY <1>3, <1>4, <1>6, <1>7, <1>8

\* What is known of p's next command.
LEMMA NextCommand ==
  ASSUME StoreInv, NEW p \in Procs, todo[p] # <<>>
  PROVE  /\ todo[p] \in Seq(Commands) /\ UpToDate(todo[p], missed[p])
         /\ todo[p][1] \in Commands /\ Head(todo[p]) = todo[p][1] /\ 1 \in 1..Len(todo[p])
         /\ Len(todo[p]) \in Nat
         /\ missed[p] \in SUBSET AllKeys /\ Written(todo[p]) \subseteq Given \cup DeviceKeys
         /\ DOMAIN db = In(StreamKeys) \cup In(DeviceKeys)
<1>1. todo[p] \in Seq(Commands) /\ UpToDate(todo[p], missed[p]) /\ missed[p] \in SUBSET AllKeys
  BY DEF StoreInv, StoreTypes
<1>2. DOMAIN db = In(StreamKeys) \cup In(DeviceKeys)
  BY EditedRow DEF StoreInv
<1> QED
  BY <1>1, <1>2, TheRest DEF StoreInv

LEMMA PutStore == ASSUME StoreInv, NEW p \in Procs, ExecPut(p) PROVE StoreInv'
<1> USE DEF StoreInv
<1> DEFINE c == todo[p][1]
           row == [c.row EXCEPT !.missed = @ \cup missed[p]]
<1>1. /\ todo[p] # <<>> /\ c.do = "put" /\ db' = With(db, c.key, row)
      /\ Executes(p, {c.key}, Tail(todo[p]))
  BY NextCommand DEF ExecPut, Next1
<1>2. /\ c \in Commands /\ 1 \in 1..Len(todo[p]) /\ Len(todo[p]) \in Nat /\ missed[p] \in SUBSET AllKeys
      /\ UpToDate(todo[p], missed[p]) /\ Written(todo[p]) \subseteq Given \cup DeviceKeys
  BY <1>1, NextCommand
<1> HIDE DEF c
<1>3. \/ c.key \in StreamKeys /\ c.row \in StreamRows
      \/ c.key \in DeviceKeys /\ c.row \in DeviceRows
  BY <1>1, <1>2 DEF Commands
<1>4. /\ c.key \in StreamKeys => row \in StreamRows
      /\ c.key \in DeviceKeys => row \in DeviceRows
      /\ row.edits = c.row.edits
      /\ row = Marked(c.row, missed[p])
  BY <1>2, <1>3, KeysApart DEF StreamRows, DeviceRows, Marked
<1> HIDE DEF row
<1>5. DOMAIN db' = DOMAIN db \cup {c.key} /\ \A k \in DOMAIN db' : db'[k] = IF k = c.key THEN row ELSE db[k]
  BY <1>1 DEF With
<1>6. c.key \in Given \cup DeviceKeys
  BY <1>1, <1>2 DEF Written, Puts, c
<1>7. DOMAIN db' \subseteq AllKeys /\ In(StreamKeys)' \subseteq Given
  BY <1>3, <1>5, <1>6, KeysApart DEF StoreTypes, In, AllKeys
<1>8. /\ \A k \in In(StreamKeys)' : db'[k] \in StreamRows
      /\ \A k \in In(DeviceKeys)' : db'[k] \in DeviceRows
  BY <1>4, <1>5 DEF StoreTypes, In
<1>9. ASSUME NEW i \in 2..Len(todo[p]), Puts(todo[p], i), todo[p][i].key \in DOMAIN db' \ missed[p]
      PROVE  db'[todo[p][i].key].edits \subseteq todo[p][i].row.edits
  <2>1. i \in 1..Len(todo[p]) /\ 1 < i
    BY <1>2, <1>9
  <2>2. CASE todo[p][i].key = c.key
    <3>1. c.row.edits \subseteq todo[p][i].row.edits
      BY <1>1, <1>2, <1>9, <2>1, <2>2 DEF UpToDate, Ordered, Puts, c
    <3> QED
      BY <1>4, <1>5, <1>9, <2>2, <3>1
  <2>3. CASE todo[p][i].key # c.key
    BY <1>2, <1>5, <1>9, <2>1, <2>3 DEF UpToDate, Fresh
  <2> QED
    BY <2>2, <2>3
<1>10. {c.key} \in SUBSET AllKeys /\ \A k \in DOMAIN db' \ {c.key} : k \in DOMAIN db /\ db'[k].edits = db[k].edits
  BY <1>3, <1>5 DEF AllKeys
<1>11. PICK T : T = db'
  OBVIOUS
<1>12. /\ DOMAIN T = DOMAIN db \cup {c.key} /\ \A k \in DOMAIN T : T[k] = IF k = c.key THEN row ELSE db[k]
       /\ \A k \in StreamsOf(T) : (k = c.key /\ c.key \in StreamKeys) \/ (k # c.key /\ k \in StreamsOf(db))
  <2>1. DOMAIN T = DOMAIN db \cup {c.key} /\ \A k \in DOMAIN T : T[k] = IF k = c.key THEN row ELSE db[k]
    BY <1>5, <1>11
  <2> QED
    BY <2>1 DEF StreamsOf
<1>13. ASSUME c.key \in StreamKeys
       PROVE  /\ StreamPut(todo[p], 1) /\ Housed(db, c.key, row)
              /\ \A l \in StreamsOf(db) : Known(c.key, row, l, db[l])
  <2>1. StreamPut(todo[p], 1)
    BY <1>1, <1>2, <1>13 DEF StreamPut, Puts, c
  <2> QED
    BY <1>2, <1>4, <2>1 DEF UpToDate, Leaves, WritesTidily, c
<1>14. Tidy(T)
  <2>1. ASSUME NEW k \in StreamsOf(T) PROVE Housed(T, k, T[k])
    BY <1>12, <1>13 DEF Housed, Tidy, StreamsOf
  <2>2. ASSUME NEW k \in StreamsOf(T), NEW l \in StreamsOf(T) PROVE Known(k, T[k], l, T[l])
    <3>1. CASE k # c.key /\ l # c.key
      BY <1>12, <3>1 DEF Tidy, StreamsOf
    <3>2. CASE k = l
      BY <3>2 DEF Known
    <3>3. CASE k # l /\ k = c.key
      BY <1>12, <1>13, <3>3 DEF StreamsOf
    <3>4. CASE k # l /\ l = c.key
      <4>1. Known(l, T[l], k, T[k])
        BY <1>12, <1>13, <3>4 DEF StreamsOf
      <4> QED
        BY <4>1 DEF Known
    <3> QED
      BY <3>1, <3>2, <3>3, <3>4
  <2> QED
    BY <2>1, <2>2 DEF Tidy
<1>15. \A x \in StreamsOf(T) : Keeps(db, T, x) \/ (x \in {c.key} /\ Writes(T, todo[p], missed[p], x))
  <2>1. ASSUME NEW x \in StreamsOf(T), x = c.key PROVE Writes(T, todo[p], missed[p], x)
    BY <1>4, <1>12, <1>13, <2>1 DEF Writes, StreamsOf, c
  <2>2. ASSUME NEW x \in StreamsOf(T), x # c.key PROVE Keeps(db, T, x)
    BY <1>12, <2>2 DEF Keeps, StreamsOf
  <2> QED
    BY <2>1, <2>2
<1>16. todo[p][1].do # "del" /\ \A d \in Nat : Device(d) \notin DOMAIN db \ DOMAIN T
  BY <1>1, <1>12 DEF c
<1> QED
  BY <1>1, <1>7, <1>8, <1>9, <1>10, <1>11, <1>14, <1>15, <1>16, ExecuteStore

\* A command that takes rows out, and changes of the others only the history.
LEMMA RemoveStore ==
  ASSUME StoreInv, NEW p \in Procs, NEW K \in SUBSET AllKeys, todo[p] # <<>>,
         Executes(p, K, Tail(todo[p])), DOMAIN db' = DOMAIN db \ K,
         \A k \in DOMAIN db' : db'[k] = db[k] \/ \E l \in AllKeys : db'[k] = [db[k] EXCEPT !.missed = @ \cup {l}],
         todo[p][1].do = "del" => todo[p][1].key \notin DOMAIN db',
         \A d \in Nat : Device(d) \in K =>
           /\ todo[p][1].do = "del" /\ todo[p][1].key \in DeviceKeys
           /\ \A x \in In(StreamKeys)' : Device(db[x].dev) = Device(d) => Device(d) \in db'[x].missed
  PROVE  StoreInv'
<1> USE DEF StoreInv
<1>1. \A k \in In(StreamKeys)' : db'[k] \in StreamRows /\ db'[k].edits = db[k].edits
  <2>1. ASSUME NEW k \in In(StreamKeys)' PROVE db'[k] \in StreamRows /\ db'[k].edits = db[k].edits
    <3>1. k \in DOMAIN db' /\ db[k] \in StreamRows
      BY DEF In, StoreTypes
    <3> QED
      BY <3>1 DEF StreamRows
  <2> QED
    BY <2>1
<1>2. \A k \in In(DeviceKeys)' : db'[k] \in DeviceRows /\ db'[k].edits = db[k].edits
  <2>1. ASSUME NEW k \in In(DeviceKeys)' PROVE db'[k] \in DeviceRows /\ db'[k].edits = db[k].edits
    <3>1. k \in DOMAIN db' /\ db[k] \in DeviceRows
      BY DEF In, StoreTypes
    <3> QED
      BY <3>1 DEF DeviceRows
  <2> QED
    BY <2>1
<1>3. DOMAIN db' \subseteq AllKeys /\ In(StreamKeys)' \subseteq Given
  BY DEF StoreTypes, In
<1>4. \A k \in DOMAIN db' : k \in DOMAIN db /\ db'[k].edits = db[k].edits
  BY <1>1, <1>2, <1>3 DEF In, AllKeys
<1>5. ASSUME NEW i \in 2..Len(todo[p]), Puts(todo[p], i), todo[p][i].key \in DOMAIN db' \ missed[p]
      PROVE  db'[todo[p][i].key].edits \subseteq todo[p][i].row.edits
  <2>1. i \in 1..Len(todo[p])
    BY <1>5, NextCommand
  <2> QED
    BY <1>4, <1>5, <2>1, NextCommand DEF UpToDate, Fresh
<1>6. PICK T : T = db'
  OBVIOUS
<1>7. ASSUME NEW k \in StreamsOf(T) PROVE Keeps(db, T, k) /\ db[k].dev \in Nat
  <2>1. k \in In(StreamKeys) /\ db[k] \in StreamRows /\ k \in DOMAIN db'
    BY <1>6 DEF StreamsOf, In, StoreTypes
  <2> QED
    BY <1>6, <2>1 DEF StreamsOf, Keeps, In, StreamRows
<1>8. Tidy(T)
  <2>1. ASSUME NEW k \in StreamsOf(T) PROVE Housed(T, k, T[k])
    <3> DEFINE d == db[k].dev
    <3>1. d \in Nat /\ Keeps(db, T, k) /\ Housed(db, k, db[k])
      BY <1>7 DEF Tidy, Keeps
    <3>2. CASE Device(d) \in K
      <4>1. k \in In(StreamKeys)'
        BY <1>6 DEF In, StreamsOf
      <4> HIDE DEF d
      <4>2. Device(d) \in T[k].missed
        BY <1>6, <3>1, <3>2, <4>1 DEF d
      <4> QED
        BY <3>1, <4>2 DEF Housed, Keeps, d
    <3>3. CASE Device(d) \notin K
      BY <1>6, <3>1, <3>3 DEF Housed, Keeps
    <3> QED
      BY <3>2, <3>3
  <2>2. ASSUME NEW k \in StreamsOf(T), NEW l \in StreamsOf(T) PROVE Known(k, T[k], l, T[l])
    <3>1. Keeps(db, T, k) /\ Keeps(db, T, l)
      BY <1>7
    <3>2. Known(k, db[k], l, db[l])
      BY <3>1 DEF Tidy, Keeps
    <3> QED
      BY <3>1, <3>2 DEF Known, Keeps
  <2> QED
    BY <2>1, <2>2 DEF Tidy
<1>9. /\ \A x \in StreamsOf(T) : Keeps(db, T, x) \/ (x \in K /\ Writes(T, todo[p], missed[p], x))
      /\ todo[p][1].do = "del" => todo[p][1].key \notin StreamsOf(T)
      /\ \A d \in Nat : Device(d) \in DOMAIN db \ DOMAIN T =>
           Device(d) \in K /\ todo[p][1].do = "del" /\ todo[p][1].key \in DeviceKeys
  BY <1>6, <1>7 DEF StreamsOf
<1> QED
  BY <1>1, <1>2, <1>3, <1>4, <1>5, <1>6, <1>8, <1>9, ExecuteStore

LEMMA DelStore == ASSUME StoreInv, NEW p \in Procs, ExecDel(p) \/ ExecWipe(p) PROVE StoreInv'
<1> USE DEF StoreInv
<1> DEFINE c == todo[p][1]
<1>1. todo[p] # <<>> /\ c \in Commands /\ Head(todo[p]) = c
  BY NextCommand DEF ExecDel, ExecWipe, Next1
<1> HIDE DEF c
<1>2. CASE ExecDel(p)
  <2> DEFINE k == c.key
  <2>1. /\ c.do = "del" /\ Executes(p, {k} \cap DOMAIN db, Tail(todo[p]))
        /\ db' = [x \in DOMAIN db \ {k} |->
                   IF x \in missed[p] THEN [db[x] EXCEPT !.missed = @ \cup {k}] ELSE db[x]]
    BY <1>1, <1>2 DEF ExecDel, Next1
  <2>2. k \in AllKeys
    BY <1>1, <2>1 DEF Commands
  <2> HIDE DEF k
  <2>3. {k} \cap DOMAIN db \in SUBSET AllKeys /\ DOMAIN db' = DOMAIN db \ ({k} \cap DOMAIN db)
    BY <2>1, <2>2
  <2>4. ASSUME NEW d \in Nat, Device(d) \in {k} \cap DOMAIN db
        PROVE  /\ k \in DeviceKeys
               /\ \A x \in In(StreamKeys)' : Device(db[x].dev) = Device(d) => Device(d) \in db'[x].missed
    <3>1. k = Device(d) /\ k \in DeviceKeys
      BY <2>2, <2>4 DEF AllKeys, StreamKeys, Stream, Device
    <3>2. todo[p][1].do = "del" /\ todo[p][1].key = k /\ 1 \in 1..Len(todo[p]) /\ UpToDate(todo[p], missed[p])
      BY <1>1, <2>1, NextCommand DEF k, c
    <3>3. ASSUME NEW x \in In(StreamKeys)', Device(db[x].dev) = k PROVE k \in db'[x].missed
      <4>1. x \in StreamsOf(db) /\ x \in DOMAIN db' /\ db[x] \in StreamRows
        BY <2>1 DEF StreamsOf, In, StoreTypes
      <4>2. x \in missed[p]
        BY <3>1, <3>2, <3>3, <4>1 DEF UpToDate, Leaves, TakesAll
      <4> QED
        BY <2>1, <4>1, <4>2 DEF StreamRows
    <3> QED
      BY <3>1, <3>3
  <2>5. todo[p][1].do = "del" /\ todo[p][1].key = k /\ k \notin DOMAIN db'
    BY <1>1, <2>1 DEF k, c
  <2> QED
    BY <1>1, <2>1, <2>2, <2>3, <2>4, <2>5, RemoveStore
<1>3. CASE ExecWipe(p)
  <2>1. db' = Without(db, StreamKeys) /\ Executes(p, In(StreamKeys), Tail(todo[p]))
    BY <1>3 DEF ExecWipe
  <2>2. In(StreamKeys) \in SUBSET AllKeys /\ DOMAIN db' = DOMAIN db \ In(StreamKeys)
    BY <2>1 DEF In, AllKeys, Without
  <2>3. \A k \in DOMAIN db' : db'[k] = db[k]
    BY <2>1 DEF Without
  <2>4. todo[p][1].do = "wipe"
    BY <1>1, <1>3 DEF ExecWipe, Next1, c
  <2>5. \A d \in Nat : Device(d) \notin In(StreamKeys)
    BY DEF In, StreamKeys, Stream, Device
  <2> QED
    BY <1>1, <2>1, <2>2, <2>3, <2>4, <2>5, RemoveStore
<1> QED
  BY <1>2, <1>3

\* Failures: nothing more of the operation, or all but one deletion.
LEMMA FailStore == ASSUME StoreInv, NEW p \in Procs, Fails(p) \/ DelFails(p) PROVE StoreInv'
<1> USE DEF StoreInv
<1>1. CASE Fails(p)
  <2>1. <<>> \in Seq(Commands) /\ UpToDate(<<>>, {}) /\ Written(<<>>) = {} /\ {} \in SUBSET AllKeys
    BY Harmless DEF Quiet, UpToDate, Fresh, Rewrites, Ordered, Written
  <2> DEFINE s == <<>>
  <2> HIDE DEF s
  <2>2. /\ s \in Seq(Commands) /\ UpToDate(s, {}) /\ Written(s) \subseteq Given \cup DeviceKeys
        /\ todo' = [todo EXCEPT ![p] = s] /\ missed' = [missed EXCEPT ![p] = {}]
        /\ UNCHANGED <<db, ops, ids>>
    BY <1>1, <2>1 DEF Fails, s
  <2> QED
    BY <2>1, <2>2, RethinkStore
<1>2. CASE DelFails(p)
  <2> DEFINE k == todo[p][1].key
             M == missed[p] \cup {k}
             u == Tail(todo[p])
  <2>1. todo[p] # <<>>
    BY <1>2 DEF DelFails, Next1
  <2>2. /\ k \in In(StreamKeys) /\ UNCHANGED <<db, ops, ids>>
        /\ todo' = [todo EXCEPT ![p] = u] /\ missed' = [missed EXCEPT ![p] = M]
    <3>1. Head(todo[p]) = todo[p][1]
      BY <2>1, NextCommand
    <3> QED
      BY <1>2, <3>1 DEF DelFails
  <2>3. M \in SUBSET AllKeys
    BY <2>1, <2>2, NextCommand DEF In, AllKeys
  <2> HIDE DEF M
  <2>4. /\ todo[p] \in Seq(Commands) /\ UpToDate(todo[p], missed[p])
        /\ Written(todo[p]) \subseteq Given \cup DeviceKeys
    BY <2>1, NextCommand
  <2>5. /\ u \in Seq(Commands) /\ Ordered(u) /\ Written(u) \subseteq Written(todo[p])
        /\ Len(u) \in Nat
        /\ \A i \in 1..Len(u) : u[i].do # "wipe" /\ u[i] = todo[p][i + 1] /\ i + 1 \in 1..Len(todo[p])
    <3> DEFINE s == todo[p]
    <3> HIDE DEF s
    <3>1. s \in Seq(Commands) /\ s # <<>> /\ UpToDate(s, missed[p])
      BY <2>1, <2>4 DEF s
    <3>2. /\ Tail(s) \in Seq(Commands) /\ Ordered(Tail(s)) /\ Written(Tail(s)) \subseteq Written(s)
          /\ Len(Tail(s)) \in Nat
          /\ \A i \in 1..Len(Tail(s)) : Tail(s)[i].do # "wipe" /\ Tail(s)[i] = s[i + 1] /\ i + 1 \in 1..Len(s)
      BY <3>1, TheRest
    <3> QED
      BY <3>2 DEF s
  <2> HIDE DEF u
  <2>6. UpToDate(u, M)
    <3>1. Fresh(u, M)
      BY <2>4, <2>5 DEF UpToDate, Fresh, Puts, M
    <3>2. Rewrites(u, M)
      BY <2>5 DEF Rewrites
    <3>3. Leaves(db, u, M)
      <4>1. Leaves(db, todo[p], missed[p])
        BY <2>4 DEF UpToDate
      <4>2. \A x \in StreamsOf(db) : Keeps(db, db, x)
        BY DEF Keeps
      <4>3. GoneOn(db, todo[p], missed[p], db, u, M, 1)
        BY <2>4, <2>5, <4>2 DEF GoneOn, M
      <4> QED
        BY <4>1, <4>3, StillTidy
    <3> QED
      BY <2>5, <3>1, <3>2, <3>3 DEF UpToDate
  <2> QED
    BY <2>2, <2>3, <2>4, <2>5, <2>6, RethinkStore
<1> QED
  BY <1>1, <1>2

\* The streams are read again and renamed where the aliases differ.
LEMMA SyncStore == ASSUME StoreInv, NEW p \in Procs, ExecSync(p) PROVE StoreInv'
<1> USE DEF StoreInv
<1> DEFINE c == Head(todo[p])
           first(ch) == CHOOSE k \in StreamsForGb(c.dev, ch) : TRUE
           C == {ch \in DOMAIN c.chans : StreamsForGb(c.dev, ch) # {} /\ c.chans[ch] # 0
                                         /\ db[first(ch)].name # c.chans[ch]}
           renamed == SetToSeq(C)
           n == Cardinality(C)
           puts == [i \in 1..Len(renamed) |->
                      Put(first(renamed[i]), [db[first(renamed[i])] EXCEPT !.name = c.chans[renamed[i]]])]
           u == Tail(todo[p])
           s == puts \o u
           M == IF s = <<>> THEN {} ELSE missed[p] \ StreamKeys
<1>1. todo[p] # <<>> /\ todo[p][1] = c /\ c \in Commands /\ c.do = "sync" /\ UNCHANGED <<db, ops, ids>>
  BY NextCommand DEF ExecSync, Next1
<1>2. todo' = [todo EXCEPT ![p] = s] /\ missed' = [missed EXCEPT ![p] = M]
  BY DEF ExecSync
<1>3. /\ todo[p] \in Seq(Commands) /\ UpToDate(todo[p], missed[p])
      /\ missed[p] \in SUBSET AllKeys /\ Written(todo[p]) \subseteq Given \cup DeviceKeys
      /\ 1 \in 1..Len(todo[p]) /\ Len(todo[p]) \in Nat
  BY <1>1, NextCommand
<1>4. /\ u \in Seq(Commands) /\ Ordered(u) /\ Written(u) \subseteq Written(todo[p]) /\ Len(u) \in Nat
      /\ \A i \in 1..Len(u) : u[i].do # "wipe" /\ u[i] = todo[p][i + 1] /\ i + 1 \in 2..Len(todo[p])
  <2> DEFINE t == todo[p]
  <2>1. t \in Seq(Commands) /\ t # <<>> /\ UpToDate(t, missed[p])
    BY <1>1, <1>3
  <2> HIDE DEF t
  <2>2. /\ Tail(t) \in Seq(Commands) /\ Ordered(Tail(t)) /\ Written(Tail(t)) \subseteq Written(t)
        /\ Len(Tail(t)) \in Nat
        /\ \A i \in 1..Len(Tail(t)) : Tail(t)[i].do # "wipe"
        /\ \A i \in 1..Len(Tail(t)) : i + 1 \in 2..Len(t) /\ Tail(t)[i] = t[i + 1]
    <3>1. PICK X : X = missed[p]
      OBVIOUS
    <3>2. UpToDate(t, X)
      BY <2>1, <3>1
    <3> QED
      BY <2>1, <3>2, TheRest
  <2> QED
    BY <2>2 DEF t
<1>5. c.chans \in Channels
  BY <1>1 DEF Commands
<1>6. /\ DOMAIN c.chans \subseteq Serials /\ \A ch \in DOMAIN c.chans : c.chans[ch] \in Nat
  <2>1. PICK S \in SUBSET Serials : c.chans \in [S -> Nat]
    BY <1>5 DEF Channels
  <2> QED
    BY <2>1
<1> HIDE DEF c
<1>7. n \in Nat /\ Len(renamed) = n /\ \A i \in 1..n : renamed[i] \in C
  <2>1. C \in SUBSET Serials
    BY <1>6
  <2> HIDE DEF C
  <2>2. IsFiniteSet(C)
    BY <2>1, FS_Subset
  <2> QED
    BY <2>2, Listed
<1> DEFINE k(i) == first(renamed[i])
           row(i) == [db[k(i)] EXCEPT !.name = c.chans[renamed[i]]]
<1>8. ASSUME NEW i \in 1..n
      PROVE  /\ k(i) \in In(StreamKeys) /\ c.chans[renamed[i]] \in Nat
  <2>1. renamed[i] \in C
    BY <1>7
  <2> DEFINE r == renamed[i]
  <2> HIDE DEF renamed, n, r
  <2>2. r \in DOMAIN c.chans /\ StreamsForGb(c.dev, r) # {}
    BY <2>1 DEF r
  <2>3. first(r) \in StreamsForGb(c.dev, r)
    BY <2>2
  <2> QED
    BY <1>6, <2>2, <2>3 DEF StreamsForGb, r
<1> HIDE DEF renamed, C, n, first
<1>9. ASSUME NEW i \in 1..n
      PROVE  row(i) \in StreamRows /\ row(i).edits = db[k(i)].edits /\ SameChannel(row(i), db[k(i)])
  <2>1. db[k(i)] \in StreamRows
    BY <1>8 DEF StoreTypes
  <2> QED
    BY <1>8, <2>1 DEF StreamRows, SameChannel
<1>10. /\ puts \in Seq(Commands) /\ Len(puts) = n
       /\ \A i \in 1..n : /\ puts[i].do = "put" /\ puts[i].key \in In(StreamKeys)
                          /\ puts[i].row.edits = db[puts[i].key].edits
                          /\ puts[i].row \in StreamRows /\ SameChannel(puts[i].row, db[puts[i].key])
  <2>1. puts = [i \in 1..n |-> Put(k(i), row(i))]
    BY <1>7
  <2> HIDE DEF puts, row, k
  <2>2. \A i \in 1..n : /\ Put(k(i), row(i)) \in Commands /\ Put(k(i), row(i)).do = "put"
                        /\ Put(k(i), row(i)).key = k(i) /\ Put(k(i), row(i)).row = row(i)
    <3>1. \A i \in 1..n : k(i) \in StreamKeys /\ row(i) \in StreamRows
      BY <1>8, <1>9 DEF In
    <3> QED
      BY <3>1, CommandTypes
  <2> QED
    BY <1>7, <1>8, <1>9, <2>1, <2>2
<1> HIDE DEF puts, u
<1>11. /\ s \in Seq(Commands) /\ Len(s) = n + Len(u)
       /\ \A i \in 1..Len(s) : IF i =< n THEN s[i] = puts[i] ELSE s[i] = u[i - n] /\ i - n \in 1..Len(u)
  <2>1. /\ s \in Seq(Commands) /\ Len(s) = Len(puts) + Len(u)
        /\ \A i \in 1..(Len(puts) + Len(u)) : s[i] = IF i =< Len(puts) THEN puts[i] ELSE u[i - Len(puts)]
    BY <1>4, <1>10, ConcatProperties
  <2> HIDE DEF s
  <2>2. \A i \in 1..(n + Len(u)) : i > n => i - n \in 1..Len(u)
    BY <1>4, <1>7
  <2> QED
    BY <1>10, <2>1, <2>2
<1> HIDE DEF s
<1>12. M \in SUBSET AllKeys /\ M \subseteq missed[p] \ StreamKeys
  BY <1>3
<1>13. \A i \in 1..Len(u) : Puts(u, i) => u[i].key \in DeviceKeys
  <2>1. ASSUME NEW i \in 1..Len(u), Puts(u, i) PROVE u[i].key \in DeviceKeys
    <3>1. i + 1 \in 2..Len(todo[p]) /\ u[i] = todo[p][i + 1]
      BY <1>4
    <3>2. Puts(todo[p], i + 1) /\ 1 < i + 1 /\ i + 1 \in 1..Len(todo[p])
      BY <1>3, <2>1, <3>1 DEF Puts
    <3> QED
      BY <1>1, <1>3, <3>1, <3>2 DEF UpToDate, Ordered
  <2> QED
    BY <2>1
<1>14. CASE s = <<>>
  <2>1. Len(s) = 0
    BY <1>14
  <2>2. UpToDate(s, M) /\ Written(s) = {}
    BY <2>1, Harmless DEF Quiet, UpToDate, Fresh, Rewrites, Ordered, Written
  <2> QED
    BY <1>1, <1>2, <1>11, <1>12, <2>2, RethinkStore
<1>15. CASE s # <<>>
  <2>1. M = missed[p] \ StreamKeys
    BY <1>15
  <2> HIDE DEF M
  <2>2. Fresh(s, M)
    <3>1. ASSUME NEW i \in 1..Len(s), Puts(s, i), s[i].key \in DOMAIN db \ M
          PROVE  db[s[i].key].edits \subseteq s[i].row.edits
      <4>1. CASE i =< n
        BY <1>7, <1>10, <1>11, <4>1
      <4>2. CASE ~(i =< n)
        <5> DEFINE j == i - n
        <5>1. j \in 1..Len(u) /\ s[i] = u[j] /\ Puts(u, j)
          BY <1>11, <3>1, <4>2 DEF Puts
        <5> HIDE DEF j
        <5>2. u[j].key \in DeviceKeys /\ u[j].key \notin missed[p]
          BY <1>13, <2>1, <3>1, <5>1, KeysApart
        <5>3. j + 1 \in 1..Len(todo[p]) /\ u[j] = todo[p][j + 1]
          BY <1>4, <5>1
        <5> QED
          BY <1>3, <3>1, <5>1, <5>2, <5>3 DEF UpToDate, Fresh, Puts
      <4> QED
        BY <4>1, <4>2
    <3> QED
      BY <3>1 DEF Fresh
  <2>3. Rewrites(s, M)
    <3>1. \A i \in 1..Len(s) : s[i].do # "wipe"
      <4>1. \A i \in 1..n : puts[i].do # "wipe"
        BY <1>10
      <4> QED
        <5>1. ASSUME NEW i \in 1..Len(s) PROVE s[i].do # "wipe"
          <6>1. CASE i =< n
            <7>1. i \in 1..n /\ s[i] = puts[i]
              BY <1>7, <1>11, <6>1
            <7> QED
              BY <4>1, <7>1
          <6>2. CASE ~(i =< n)
            BY <1>4, <1>11, <6>2
          <6> QED
            BY <6>1, <6>2
        <5> QED
          BY <5>1
    <3> QED
      BY <3>1 DEF Rewrites
  <2>4. Ordered(s)
    <3>1. ASSUME NEW i \in 1..Len(s), NEW j \in 1..Len(s), i < j, Puts(s, j)
          PROVE  /\ s[i].do = "sync" => s[j].key \in DeviceKeys
                 /\ Puts(s, i) /\ s[i].key = s[j].key => s[i].row.edits \subseteq s[j].row.edits
      <4>1. CASE j =< n
        <5>1. i =< n /\ i \in 1..n /\ j \in 1..n
          BY <1>7, <1>11, <3>1, <4>1
        <5>2. s[i] = puts[i] /\ s[j] = puts[j]
          BY <1>11, <4>1, <5>1
        <5>3. puts[i].do # "sync"
          BY <1>10, <5>1
        <5> QED
          BY <1>10, <5>1, <5>2, <5>3
      <4>2. CASE ~(j =< n) /\ i =< n
        <5> DEFINE m == j - n
        <5>1. i \in 1..n /\ s[i] = puts[i] /\ m \in 1..Len(u) /\ s[j] = u[m] /\ Puts(u, m)
          BY <1>7, <1>11, <3>1, <4>2 DEF Puts
        <5> HIDE DEF m
        <5>2. puts[i].key \in StreamKeys /\ u[m].key \in DeviceKeys /\ puts[i].do # "sync"
          BY <1>10, <1>13, <5>1 DEF In
        <5> QED
          BY <5>1, <5>2, KeysApart
      <4>3. CASE ~(j =< n) /\ ~(i =< n)
        <5> DEFINE m == j - n
                   l == i - n
        <5>1. m \in 1..Len(u) /\ s[j] = u[m] /\ l \in 1..Len(u) /\ s[i] = u[l]
          BY <1>11, <4>3
        <5>2. l < m
          BY <1>7, <3>1
        <5> HIDE DEF m, l
        <5> QED
          BY <1>4, <3>1, <5>1, <5>2 DEF Ordered, Puts
      <4> QED
        BY <4>1, <4>2, <4>3
    <3> QED
      BY <3>1 DEF Ordered
  <2>5. Written(s) \subseteq Given \cup DeviceKeys
    <3>1. ASSUME NEW i \in 1..Len(s), Puts(s, i) PROVE s[i].key \in Given \cup DeviceKeys
      <4>1. CASE i =< n
        BY <1>7, <1>10, <1>11, <4>1
      <4>2. CASE ~(i =< n)
        <5> DEFINE j == i - n
        <5>1. j \in 1..Len(u) /\ s[i] = u[j] /\ Puts(u, j)
          BY <1>11, <3>1, <4>2 DEF Puts
        <5> HIDE DEF j
        <5> QED
          BY <1>13, <5>1
      <4> QED
        BY <4>1, <4>2
    <3> QED
      BY <3>1 DEF Written
  <2>6. Leaves(db, s, M)
    <3>1. \A i \in 1..Len(u) : ~(u[i].do = "del" /\ u[i].key \in DeviceKeys)
      <4>1. todo[p][1].do # "del"
        BY <1>1
      <4> QED
        BY <1>3, <1>4, <4>1 DEF UpToDate, Leaves, TakesAll
    <3>2. \A i \in 1..Len(u) : ~StreamPut(u, i)
      BY <1>13, KeysApart DEF StreamPut
    <3>3. ASSUME NEW i \in 1..Len(s)
          PROVE  /\ ~(s[i].do = "del" /\ s[i].key \in DeviceKeys)
                 /\ StreamPut(s, i) =>
                      s[i].row \in StreamRows /\ s[i].key \in StreamsOf(db) /\ SameChannel(s[i].row, db[s[i].key])
      <4>1. CASE i =< n
        <5>1. i \in 1..n /\ s[i] = puts[i]
          BY <1>7, <1>11, <4>1
        <5> QED
          BY <1>10, <5>1 DEF StreamsOf, In
      <4>2. CASE ~(i =< n)
        <5> DEFINE j == i - n
        <5>1. j \in 1..Len(u) /\ s[i] = u[j]
          BY <1>11, <4>2
        <5> HIDE DEF j
        <5> QED
          BY <3>1, <3>2, <5>1 DEF StreamPut, Puts
      <4> QED
        BY <4>1, <4>2
    <3> QED
      BY <3>3, Rewritten
  <2> QED
    BY <1>1, <1>2, <1>11, <1>12, <2>2, <2>3, <2>4, <2>5, <2>6, RethinkStore DEF UpToDate
<1> QED
  BY <1>14, <1>15

\* The account is read again, and written without the channel.
LEMMA DropChannelStore == ASSUME StoreInv, NEW p \in Procs, ExecDropChannel(p) PROVE StoreInv'
<1> USE DEF StoreInv
<1> DEFINE c == Head(todo[p])
           k == Device(c.dev)
           row == [db[k] EXCEPT !.chans = Without(@, {c.ch})]
           s == IF k \in DOMAIN db /\ c.ch \in DOMAIN db[k].chans THEN ReplaceChannels(c.dev, row) ELSE <<>>
           M == IF s = <<>> THEN {} ELSE missed[p] \ DeviceKeys
<1>1. todo[p] # <<>> /\ c \in Commands /\ c.do = "dropchannel" /\ UNCHANGED <<db, ops, ids>>
  BY NextCommand DEF ExecDropChannel, Next1
<1>2. todo' = [todo EXCEPT ![p] = s] /\ missed' = [missed EXCEPT ![p] = M]
  BY DEF ExecDropChannel
<1>3. M \in SUBSET AllKeys
  BY <1>1, NextCommand
<1>4. c.dev \in Serials
  BY <1>1 DEF Commands
<1> HIDE DEF c
<1>5. s \in Seq(Commands) /\ UpToDate(s, {}) /\ Written(s) \subseteq DeviceKeys /\ Quiet(s)
  <2>1. CASE k \in DOMAIN db /\ c.ch \in DOMAIN db[k].chans
    <3>1. k \in In(DeviceKeys)
      BY <1>4, <2>1, KeysApart DEF In
    <3>2. /\ db[k] \in DeviceRows /\ DOMAIN db[k].chans \subseteq Serials
          /\ \A x \in DOMAIN db[k].chans : db[k].chans[x] \in Nat
      BY <3>1, ChannelRows DEF StoreTypes
    <3> DEFINE chans == Without(db[k].chans, {c.ch})
    <3>3. chans \in Channels
      <4>1. chans \in [DOMAIN db[k].chans \ {c.ch} -> Nat]
        BY <3>2 DEF Without
      <4>2. DOMAIN db[k].chans \ {c.ch} \in SUBSET Serials
        BY <3>2
      <4> QED
        BY <4>1, <4>2 DEF Channels
    <3>4. row \in DeviceRows /\ row.edits = db[k].edits
      <4>1. row = [db[k] EXCEPT !.chans = chans]
        OBVIOUS
      <4> HIDE DEF chans, row
      <4> QED
        BY <3>2, <3>3, <4>1 DEF DeviceRows
    <3> HIDE DEF row
    <3>5. s = ReplaceChannels(c.dev, row)
      BY <2>1
    <3> QED
      BY <1>4, <3>4, <3>5, Upserted
  <2>2. CASE ~(k \in DOMAIN db /\ c.ch \in DOMAIN db[k].chans)
    <3>1. s = <<>>
      BY <2>2
    <3>2. <<>> \in Seq(Commands) /\ UpToDate(<<>>, {}) /\ Written(<<>>) = {} /\ Quiet(<<>>)
      BY Harmless DEF Quiet, UpToDate, Fresh, Rewrites, Ordered, Written
    <3> HIDE DEF s
    <3> QED
      BY <3>1, <3>2
  <2> QED
    BY <2>1, <2>2
<1> HIDE DEF s, M
<1>6. UpToDate(s, M)
  BY <1>5, Weaker, Harmless
<1> QED
  BY <1>1, <1>2, <1>3, <1>5, <1>6, RethinkStore

LEMMA StoreStep == StoreInv /\ [StoreNext]_storeVars => StoreInv'
<1> SUFFICES ASSUME StoreInv, [StoreNext]_storeVars PROVE StoreInv'
  OBVIOUS
<1>1. CASE UNCHANGED storeVars
  BY <1>1 DEF storeVars, StoreInv, StoreTypes, In, Given, UpToDate, Fresh, Rewrites, Ordered, Written, Puts
<1>2. CASE StoreNext
  BY <1>2, ListStore, RowStore, DeletionStore, AccountStore, EveryAccountStore, PutStore, DelStore,
     SyncStore, DropChannelStore, FailStore DEF StoreNext
<1> QED
  BY <1>1, <1>2

\* A write that destroys something.
LEMMA WritesKeep ==
  ASSUME StoreInv, StoreNext, NEW p \in Procs, NEW k \in DOMAIN db,
         todo'[p] # todo[p], todo[p] # <<>>, Loses(k)
  PROVE  Meant(p, k) \/ k \in missed[p]
<1> USE DEF StoreInv
<1> DEFINE c == todo[p][1]
<1>1. /\ todo[p] \in Seq(Commands) /\ UpToDate(todo[p], missed[p]) /\ c \in Commands /\ Head(todo[p]) = c
      /\ 1 \in 1..Len(todo[p]) /\ missed[p] \in SUBSET AllKeys
      /\ DOMAIN db = In(StreamKeys) \cup In(DeviceKeys)
  BY NextCommand
<1>2. db' # db
  BY DEF Loses
<1>3. PICK q \in Procs : ExecPut(q) \/ ExecDel(q) \/ ExecWipe(q)
  <2>1. ASSUME NEW q \in Procs,
               PageChanges(q) \/ PageAdds(q) \/ PageRemoves(q) \/ Scrub(q) \/ AddStream(q)
        PROVE  db' = db
    BY <2>1 DEF PageChanges, PageAdds, PageRemoves, Scrub, AddStream, Begin
  <2>2. ASSUME NEW q \in Procs,
               PatchStream(q) \/ RefreshStream(q) \/ DeleteStream(q) \/ Join(q) \/ PersistGbPlay(q)
        PROVE  db' = db
    BY <2>2 DEF PatchStream, RefreshStream, DeleteStream, Join, PersistGbPlay, Begin
  <2>3. ASSUME NEW q \in Procs,
               CreateDevice(q) \/ PostDevice(q) \/ PatchDevice(q) \/ AddChannel(q) \/ PatchChannel(q)
        PROVE  db' = db
    BY <2>3 DEF CreateDevice, PostDevice, PatchDevice, AddChannel, PatchChannel, Begin
  <2>4. ASSUME NEW q \in Procs, DeleteChannel(q) \/ DeleteDevice(q) \/ MergeCatalog(q) \/ WriteRuntime(q)
        PROVE  db' = db
    BY <2>4 DEF DeleteChannel, DeleteDevice, MergeCatalog, WriteRuntime, Begin
  <2>5. ASSUME NEW q \in Procs, GetStreams(q) PROVE db' = db
    BY <2>5 DEF GetStreams, Begin
  <2>6. ASSUME NEW q \in Procs, RefreshStatuses(q) PROVE db' = db
    BY <2>6 DEF RefreshStatuses, Begin
  <2>7. ASSUME NEW q \in Procs, ExecSync(q) PROVE db' = db
    BY <2>7 DEF ExecSync
  <2>8. ASSUME NEW q \in Procs, ExecDropChannel(q) \/ Fails(q) \/ DelFails(q) PROVE db' = db
    BY <2>8 DEF ExecDropChannel, Fails, DelFails
  <2> QED
    BY <1>2, <2>1, <2>2, <2>3, <2>4, <2>5, <2>6, <2>7, <2>8 DEF StoreNext
<1>4. ExecPut(p) \/ ExecDel(p) \/ ExecWipe(p)
  <2>1. \E rest : todo' = [todo EXCEPT ![q] = rest]
    BY <1>3 DEF ExecPut, ExecDel, ExecWipe, Executes
  <2>2. q = p
    BY <2>1 DEF StoreTypes
  <2> QED
    BY <1>3, <2>2
<1>5. CASE ExecPut(p)
  <2> DEFINE row == [c.row EXCEPT !.missed = @ \cup missed[p]]
  <2>1. c.do = "put" /\ db' = With(db, c.key, row)
    BY <1>1, <1>5 DEF ExecPut, Next1
  <2>2. row.edits = c.row.edits
    BY <1>1, <2>1 DEF Commands, StreamRows, DeviceRows
  <2> HIDE DEF row
  <2>3. k = c.key /\ ~(db[k].edits \subseteq c.row.edits)
    BY <2>1, <2>2 DEF Loses, With
  <2>4. c.key \in DOMAIN db \ missed[p] => db[c.key].edits \subseteq c.row.edits
    BY <1>1, <2>1 DEF UpToDate, Fresh, Puts
  <2> QED
    BY <2>3, <2>4
<1>6. CASE ExecDel(p)
  <2>1. c.do = "del" /\ db' = [x \in DOMAIN db \ {c.key} |->
          IF x \in missed[p] THEN [db[x] EXCEPT !.missed = @ \cup {c.key}] ELSE db[x]]
    BY <1>1, <1>6 DEF ExecDel, Next1
  <2>2. db[k] \in StreamRows \/ db[k] \in DeviceRows
    BY <1>1 DEF StoreTypes
  <2>3. [db[k] EXCEPT !.missed = @ \cup {c.key}].edits = db[k].edits
    BY <2>2 DEF StreamRows, DeviceRows
  <2>4. k = c.key
    BY <2>1, <2>3 DEF Loses
  <2> QED
    BY <1>1, <2>1, <2>4 DEF Meant
<1>7. CASE ExecWipe(p)
  <2>1. c.do = "wipe" /\ db' = Without(db, StreamKeys)
    BY <1>1, <1>7 DEF ExecWipe, Next1
  <2>2. k \in In(StreamKeys)
    BY <2>1 DEF Loses, Without, In
  <2>3. k \in c.gone \/ k \in missed[p] \/ \E j \in 2..Len(todo[p]) : Puts(todo[p], j) /\ todo[p][j].key = k
    BY <1>1, <2>1, <2>2 DEF UpToDate, Rewrites
  <2>4. ASSUME NEW j \in 2..Len(todo[p]), Puts(todo[p], j), todo[p][j].key = k, k \notin missed[p]
        PROVE  db[k].edits \subseteq todo[p][j].row.edits
    BY <1>1, <2>4 DEF UpToDate, Fresh, Puts
  <2> QED
    BY <1>1, <2>1, <2>3, <2>4 DEF Meant
<1> QED
  BY <1>4, <1>5, <1>6, <1>7

(* What a write to the tables destroys without being asked to was changed   *)
(* by somebody else after the writer had read it: for every number of       *)
(* processes, and operations that interleave command by command, fail in    *)
(* the middle or lose one deletion.                                         *)
THEOREM OnlyStaleWritesLose == StoreSpec => FreshWritesKeep
<1>1. StoreInv /\ [StoreNext]_storeVars =>
        [\A p \in Procs : \A k \in DOMAIN db :
           todo'[p] # todo[p] /\ todo[p] # <<>> /\ Loses(k) => Meant(p, k) \/ k \in missed[p]]_storeVars
  BY WritesKeep
<1> QED
  BY <1>1, StoreStarts, StoreStep, PTL DEF StoreSpec, FreshWritesKeep


(* One stream analyses a channel, and an account takes its streams with it, *)
(* except where a row was written, or an account deleted, in ignorance of   *)
(* the other: for every number of processes, streams and accounts.          *)
THEOREM StreamsKnowEachOther == StoreSpec => []CleanRows
<1>1. StoreInv => CleanRows
  <2> SUFFICES ASSUME StoreInv, NEW k \in In(StreamKeys), db[k].dev # 0
               PROVE  /\ \A l \in StreamsForGb(db[k].dev, db[k].ch) \ {k} :
                           k \in db[l].missed \/ l \in db[k].missed
                      /\ \/ Device(db[k].dev) \in DOMAIN db
                         \/ {k, Device(db[k].dev)} \cap db[k].missed # {}
    BY DEF CleanRows
  <2>1. k \in StreamsOf(db) /\ Tidy(db)
    BY DEF StoreInv, StreamsOf, In
  <2>2. Device(db[k].dev) \in DOMAIN db \/ {k, Device(db[k].dev)} \cap db[k].missed # {}
    BY <2>1 DEF Tidy, Housed
  <2>3. ASSUME NEW l \in StreamsForGb(db[k].dev, db[k].ch) \ {k}
        PROVE  k \in db[l].missed \/ l \in db[k].missed
    <3>1. l \in StreamsOf(db) /\ db[l].dev = db[k].dev /\ l # k
      BY DEF StreamsForGb, StreamsOf, In
    <3>2. db[l].ch = db[k].ch
      BY <2>1 DEF Tidy, Housed, StreamsForGb
    <3> QED
      BY <2>1, <3>1, <3>2 DEF Tidy, Known
  <2> QED
    BY <2>2, <2>3
<1> QED
  BY <1>1, StoreStarts, StoreStep, PTL DEF StoreSpec

-----------------------------------------------------------------------------
(* Libraries.  A name that nothing has disturbed is in the hands of at most *)
(* one request; how far its row, its photo and the index are apart is known *)
(* from the place of that request (Phase), and without one they agree.      *)
FaceRows  == [feat : Nat, key : Keys, v : Nat]
PlateRows == [created : Nat, v : Nat]
Persons   == [Ids -> FaceRows \cup {None}]
Vehicles  == [Plates -> PlateRows \cup {None}]
FeatureSets == SUBSET (Ids \X Nat)

EnrollPcs == {"enroll upload", "enroll save", "enroll index"}
UpdatePcs == {"update upload", "update save", "update remove", "update clean", "update index"}
DeletePcs == {"delete photo", "delete row", "delete index"}
PlatePcs  == {"plate save", "plate index"}

EnrollReqs ==
  {m \in [pc : EnrollPcs, on : SUBSET Ids, id : Ids, new : Ids, row : FaceRows] :
     m.on = {m.id} /\ m.new = m.id}
UpdateReqs ==
  {m \in [pc : UpdatePcs, on : SUBSET Ids, id : Ids, new : Ids, row : FaceRows, old : Keys,
          photo : BOOLEAN, moved : BOOLEAN] :
     m.on = {m.id, m.new} /\ (m.pc = "update remove" => m.id # m.new)}
DeleteReqs == {m \in [pc : DeletePcs, on : SUBSET Ids, id : Ids, row : FaceRows] : m.on = {m.id}}
ReloadReqs == [pc : {"reload"}, on : {Ids}, rows : Persons]
PlateReqs  == {m \in [pc : PlatePcs, on : SUBSET Plates, id : Plates, row : PlateRows] : m.on = {m.id}}
PopReqs    == {m \in [pc : {"plate pop"}, on : SUBSET Plates, id : Plates] : m.on = {m.id}}
ReloadPlatesReqs == [pc : {"plates reload"}, on : {Plates}, rows : Vehicles]
AnyReq == {Idle} \cup EnrollReqs \cup UpdateReqs \cup DeleteReqs \cup ReloadReqs
                 \cup PlateReqs \cup PopReqs \cup ReloadPlatesReqs

LibraryTypes ==
  /\ rows \in Persons /\ index \in Persons /\ feats \in FeatureSets
  /\ objs \in [Keys -> Nat \cup {None}]
  /\ prows \in Vehicles /\ pindex \in Vehicles
  /\ req \in [Requests -> AnyReq] /\ begun \in Nat

\* The features that a person has in F.
FeatOf(F, id) == {f[2] : f \in {g \in F : g[1] = id}}

Agree(row, mem, fs) == mem = row /\ fs = IF row = None THEN {} ELSE {row.feat}

\* Request m is about person id, who has this row, this row in memory and
\* these features; and the same of a plate.
Phase(m, id, row, mem, fs) ==
  /\ m.pc \in {"enroll upload", "enroll save"} => Agree(row, mem, fs) /\ row = None
  /\ m.pc = "enroll index" => row = m.row /\ mem = None /\ fs = {}
  /\ m.pc \in {"update upload", "update save"} =>
       Agree(row, mem, fs) /\ (id # m.id => row = None) /\ (id = m.id => row # None)
  /\ m.pc = "update remove" => (id = m.new => row = m.row /\ fs = {})
  /\ m.pc \in {"update clean", "update index"} =>
       IF id = m.new THEN row = m.row /\ (m.new # m.id => fs = {}) ELSE row = None
  /\ m.pc = "delete index" => row = None
  /\ m.pc = "reload" => row = m.rows[id]
PlatePhase(m, x, row, mem) ==
  /\ m.pc = "plate save" => mem = row
  /\ m.pc = "plate index" => row = m.row
  /\ m.pc = "plate pop" => row = None
  /\ m.pc = "plates reload" => row = m.rows[x]

Busy(n) == \E r \in Requests : n \in req[r].on

Sole == \A q, r \in Requests : q # r => req[q].on \cap req[r].on \subseteq disturbed
FacesFit ==
  \A id \in Ids \ disturbed :
    /\ ~Busy(id) => Agree(rows[id], index[id], FeatOf(feats, id))
    /\ \A r \in Requests : id \in req[r].on => Phase(req[r], id, rows[id], index[id], FeatOf(feats, id))
PlatesFit ==
  \A x \in Plates \ disturbed :
    /\ ~Busy(x) => pindex[x] = prows[x]
    /\ \A r \in Requests : x \in req[r].on => PlatePhase(req[r], x, prows[x], pindex[x])

LibraryInv == LibraryTypes /\ Sole /\ FacesFit /\ PlatesFit

\* What FeatOf makes of the changes of the features.
LEMMA FeatureIn ==
  ASSUME NEW F \in FeatureSets, NEW id, NEW k
  PROVE  k \in FeatOf(F, id) <=> <<id, k>> \in F
<1>1. \A f \in F : f = <<f[1], f[2]>>
  BY DEF FeatureSets
<1> QED
  BY <1>1 DEF FeatOf

LEMMA FeatureAdded ==
  ASSUME NEW F \in FeatureSets, NEW x \in Ids, NEW n \in Nat, NEW G, G = F \cup {<<x, n>>}
  PROVE  /\ G \in FeatureSets /\ FeatOf(G, x) = FeatOf(F, x) \cup {n}
         /\ \A id \in Ids \ {x} : FeatOf(G, id) = FeatOf(F, id)
<1>1. G \in FeatureSets
  BY DEF FeatureSets
<1>2. ASSUME NEW id, NEW k
      PROVE  k \in FeatOf(G, id) <=> k \in FeatOf(F, id) \/ (id = x /\ k = n)
  <2>1. (k \in FeatOf(F, id) <=> <<id, k>> \in F) /\ (k \in FeatOf(G, id) <=> <<id, k>> \in G)
    BY FeatureIn, <1>1
  <2>2. <<id, k>> \in G <=> <<id, k>> \in F \/ (id = x /\ k = n)
    OBVIOUS
  <2> QED
    BY <2>1, <2>2
<1>3. FeatOf(G, x) = FeatOf(F, x) \cup {n}
  <2>1. \A k : k \in FeatOf(G, x) <=> k \in FeatOf(F, x) \cup {n}
    BY <1>2
  <2> QED
    BY <2>1
<1>4. ASSUME NEW id \in Ids \ {x} PROVE FeatOf(G, id) = FeatOf(F, id)
  <2>1. \A k : k \in FeatOf(G, id) <=> k \in FeatOf(F, id)
    BY <1>2
  <2> QED
    BY <2>1
<1> QED
  BY <1>1, <1>3, <1>4

LEMMA FeaturesGone ==
  ASSUME NEW F \in FeatureSets, NEW x \in Ids, NEW G, G = {f \in F : f[1] # x}
  PROVE  /\ G \in FeatureSets /\ FeatOf(G, x) = {}
         /\ \A id \in Ids \ {x} : FeatOf(G, id) = FeatOf(F, id)
<1>1. G \in FeatureSets
  BY DEF FeatureSets
<1>2. ASSUME NEW id, NEW k
      PROVE  k \in FeatOf(G, id) <=> k \in FeatOf(F, id) /\ id # x
  <2>1. (k \in FeatOf(F, id) <=> <<id, k>> \in F) /\ (k \in FeatOf(G, id) <=> <<id, k>> \in G)
    BY FeatureIn, <1>1
  <2>2. <<id, k>> \in G <=> <<id, k>> \in F /\ id # x
    OBVIOUS
  <2> QED
    BY <2>1, <2>2
<1>3. FeatOf(G, x) = {}
  <2>1. \A k : k \notin FeatOf(G, x)
    BY <1>2
  <2> QED
    BY <2>1
<1>4. ASSUME NEW id \in Ids \ {x} PROVE FeatOf(G, id) = FeatOf(F, id)
  <2>1. \A k : k \in FeatOf(G, id) <=> k \in FeatOf(F, id)
    BY <1>2
  <2> QED
    BY <2>1
<1> QED
  BY <1>1, <1>3, <1>4

LEMMA FeaturesOf ==
  ASSUME NEW R \in Persons
  PROVE  /\ Features(R) \in FeatureSets
         /\ \A id \in Ids : FeatOf(Features(R), id) = IF R[id] = None THEN {} ELSE {R[id].feat}
<1>1. \A id \in Ids : R[id] # None => R[id] \in FaceRows /\ R[id].feat \in Nat
  BY DEF Persons, FaceRows
<1>2. \A f : f \in Features(R) <=> \E id \in Ids : R[id] # None /\ f = <<id, R[id].feat>>
  BY DEF Features
<1>3. Features(R) \in FeatureSets
  BY <1>1, <1>2 DEF FeatureSets
<1>4. ASSUME NEW id \in Ids PROVE FeatOf(Features(R), id) = IF R[id] = None THEN {} ELSE {R[id].feat}
  <2>1. \A k : k \in FeatOf(Features(R), id) <=> R[id] # None /\ k = R[id].feat
    <3>1. \A k : k \in FeatOf(Features(R), id) <=> <<id, k>> \in Features(R)
      BY FeatureIn, <1>3
    <3>2. \A k : <<id, k>> \in Features(R) <=> R[id] # None /\ k = R[id].feat
      BY <1>2
    <3> QED
      BY <3>1, <3>2
  <2> QED
    BY <2>1
<1> QED
  BY <1>3, <1>4

\* The place of a request tells what it holds.
LEMMA Places ==
  ASSUME NEW m \in AnyReq
  PROVE  /\ m.pc = "idle" => m = Idle
         /\ m.pc \in EnrollPcs => m \in EnrollReqs
         /\ m.pc \in UpdatePcs => m \in UpdateReqs
         /\ m.pc \in DeletePcs => m \in DeleteReqs
         /\ m.pc = "reload" => m \in ReloadReqs
         /\ m.pc \in PlatePcs => m \in PlateReqs
         /\ m.pc = "plate pop" => m \in PopReqs
         /\ m.pc = "plates reload" => m \in ReloadPlatesReqs
<1>1. /\ m \in EnrollReqs => m.pc \in EnrollPcs
      /\ m \in UpdateReqs => m.pc \in UpdatePcs
      /\ m \in DeleteReqs => m.pc \in DeletePcs
      /\ m \in PlateReqs => m.pc \in PlatePcs
  BY DEF EnrollReqs, UpdateReqs, DeleteReqs, PlateReqs
<1>2. Idle.pc = "idle"
  BY DEF Idle
<1>3. /\ m \in ReloadReqs => m.pc = "reload"
      /\ m \in PopReqs => m.pc = "plate pop"
      /\ m \in ReloadPlatesReqs => m.pc = "plates reload"
  BY DEF ReloadReqs, PopReqs, ReloadPlatesReqs
<1> QED
  BY <1>1, <1>2, <1>3 DEF AnyReq, EnrollPcs, UpdatePcs, DeletePcs, PlatePcs

\* A request that goes on keeps what it holds.
LEMMA Going ==
  ASSUME LibraryTypes, NEW r \in Requests, NEW pc, req' = [req EXCEPT ![r].pc = pc]
  PROVE  /\ \A q \in Requests \ {r} : req'[q] = req[q]
         /\ req'[r] = [req[r] EXCEPT !.pc = pc]
         /\ req'[r] \in AnyReq => req' \in [Requests -> AnyReq]
BY DEF LibraryTypes

LEMMA EnrollKept ==
  ASSUME NEW m \in EnrollReqs, NEW pc \in EnrollPcs
  PROVE  LET n == [m EXCEPT !.pc = pc]
         IN /\ n \in EnrollReqs /\ n \in AnyReq /\ n # Idle /\ n.pc = pc
            /\ n.on = m.on /\ n.id = m.id /\ n.new = m.new /\ n.row = m.row
<1> DEFINE n == [m EXCEPT !.pc = pc]
<1>1. /\ n \in EnrollReqs /\ n.pc = pc
      /\ n.on = m.on /\ n.id = m.id /\ n.new = m.new /\ n.row = m.row
  BY DEF EnrollReqs
<1> HIDE DEF n
<1>2. Idle.pc = "idle" /\ n.pc # "idle"
  BY <1>1 DEF Idle, EnrollPcs
<1> QED
  BY <1>1, <1>2 DEF AnyReq, n

LEMMA UpdateKept ==
  ASSUME NEW m \in UpdateReqs, NEW pc \in UpdatePcs, pc = "update remove" => m.id # m.new
  PROVE  LET n == [m EXCEPT !.pc = pc]
         IN /\ n \in UpdateReqs /\ n \in AnyReq /\ n # Idle /\ n.pc = pc
            /\ n.on = m.on /\ n.id = m.id /\ n.new = m.new /\ n.row = m.row /\ n.old = m.old /\ n.photo = m.photo /\ n.moved = m.moved
<1> DEFINE n == [m EXCEPT !.pc = pc]
<1>1. /\ n \in UpdateReqs /\ n.pc = pc
      /\ n.on = m.on /\ n.id = m.id /\ n.new = m.new /\ n.row = m.row /\ n.old = m.old /\ n.photo = m.photo /\ n.moved = m.moved
  BY DEF UpdateReqs
<1> HIDE DEF n
<1>2. Idle.pc = "idle" /\ n.pc # "idle"
  BY <1>1 DEF Idle, UpdatePcs
<1> QED
  BY <1>1, <1>2 DEF AnyReq, n

LEMMA DeleteKept ==
  ASSUME NEW m \in DeleteReqs, NEW pc \in DeletePcs
  PROVE  LET n == [m EXCEPT !.pc = pc]
         IN /\ n \in DeleteReqs /\ n \in AnyReq /\ n # Idle /\ n.pc = pc
            /\ n.on = m.on /\ n.id = m.id /\ n.row = m.row
<1> DEFINE n == [m EXCEPT !.pc = pc]
<1>1. /\ n \in DeleteReqs /\ n.pc = pc
      /\ n.on = m.on /\ n.id = m.id /\ n.row = m.row
  BY DEF DeleteReqs
<1> HIDE DEF n
<1>2. Idle.pc = "idle" /\ n.pc # "idle"
  BY <1>1 DEF Idle, DeletePcs
<1> QED
  BY <1>1, <1>2 DEF AnyReq, n

LEMMA PlateKept ==
  ASSUME NEW m \in PlateReqs, NEW pc \in PlatePcs
  PROVE  LET n == [m EXCEPT !.pc = pc]
         IN /\ n \in PlateReqs /\ n \in AnyReq /\ n # Idle /\ n.pc = pc
            /\ n.on = m.on /\ n.id = m.id /\ n.row = m.row
<1> DEFINE n == [m EXCEPT !.pc = pc]
<1>1. /\ n \in PlateReqs /\ n.pc = pc
      /\ n.on = m.on /\ n.id = m.id /\ n.row = m.row
  BY DEF PlateReqs
<1> HIDE DEF n
<1>2. Idle.pc = "idle" /\ n.pc # "idle"
  BY <1>1 DEF Idle, PlatePcs
<1> QED
  BY <1>1, <1>2 DEF AnyReq, n

\* The step of one request: names it is not about stay as they are.
LEMMA StepKeeps ==
  ASSUME Sole, FacesFit, PlatesFit, NEW r \in Requests, disturbed \subseteq disturbed',
         \A q \in Requests \ {r} : req'[q] = req[q] /\ req[q].on \cap req'[r].on \subseteq disturbed',
         \A id \in Ids \ disturbed' :
           /\ id \in req'[r].on => Phase(req'[r], id, rows'[id], index'[id], FeatOf(feats', id))
           /\ id \in req[r].on \ req'[r].on => Agree(rows'[id], index'[id], FeatOf(feats', id))
           /\ id \notin req[r].on \cup req'[r].on =>
                rows'[id] = rows[id] /\ index'[id] = index[id] /\ FeatOf(feats', id) = FeatOf(feats, id),
         \A x \in Plates \ disturbed' :
           /\ x \in req'[r].on => PlatePhase(req'[r], x, prows'[x], pindex'[x])
           /\ x \in req[r].on \ req'[r].on => pindex'[x] = prows'[x]
           /\ x \notin req[r].on \cup req'[r].on => prows'[x] = prows[x] /\ pindex'[x] = pindex[x]
  PROVE  Sole' /\ FacesFit' /\ PlatesFit'
<1>1. Sole'
  BY DEF Sole
<1>2. \A n : Busy(n)' <=> n \in req'[r].on \/ \E q \in Requests \ {r} : n \in req[q].on
  BY DEF Busy
<1>3. \A n : Busy(n) <=> n \in req[r].on \/ \E q \in Requests \ {r} : n \in req[q].on
  BY DEF Busy
<1>4. FacesFit'
  <2> SUFFICES ASSUME NEW id \in Ids, id \notin disturbed'
               PROVE  /\ ~Busy(id)' => Agree(rows'[id], index'[id], FeatOf(feats', id))
                      /\ \A q \in Requests : id \in req'[q].on =>
                           Phase(req'[q], id, rows'[id], index'[id], FeatOf(feats', id))
    BY DEF FacesFit
  <2>1. CASE id \in req'[r].on
    BY <1>2, <2>1
  <2>2. CASE id \notin req'[r].on /\ id \in req[r].on
    <3>1. \A q \in Requests \ {r} : id \notin req[q].on
      BY <2>2 DEF Sole
    <3> QED
      BY <2>2, <3>1
  <2>3. CASE id \notin req'[r].on \cup req[r].on
    BY <1>2, <1>3, <2>3 DEF FacesFit
  <2> QED
    BY <2>1, <2>2, <2>3
<1>5. PlatesFit'
  <2> SUFFICES ASSUME NEW x \in Plates, x \notin disturbed'
               PROVE  /\ ~Busy(x)' => pindex'[x] = prows'[x]
                      /\ \A q \in Requests : x \in req'[q].on => PlatePhase(req'[q], x, prows'[x], pindex'[x])
    BY DEF PlatesFit
  <2>1. CASE x \in req'[r].on
    BY <1>2, <2>1
  <2>2. CASE x \notin req'[r].on /\ x \in req[r].on
    <3>1. \A q \in Requests \ {r} : x \notin req[q].on
      BY <2>2 DEF Sole
    <3> QED
      BY <2>2, <3>1
  <2>3. CASE x \notin req'[r].on \cup req[r].on
    BY <1>2, <1>3, <2>3 DEF PlatesFit
  <2> QED
    BY <2>1, <2>2, <2>3
<1> QED
  BY <1>1, <1>4, <1>5

LEMMA NothingThere == None \notin Nat /\ None \notin FaceRows /\ None \notin PlateRows
BY Sets DEF FaceRows, PlateRows

LEMMA Starting ==
  ASSUME LibraryTypes, NEW r \in Requests, NEW on, NEW rec, rec.on = on, Starts(r, on, rec)
  PROVE  /\ req[r] = Idle /\ req'[r] = rec
         /\ \A q \in Requests \ {r} : req'[q] = req[q] /\ req[q].on \cap on \subseteq disturbed'
         /\ disturbed \subseteq disturbed' /\ \A n \in on \ disturbed' : ~Busy(n)
         /\ begun' \in Nat /\ (rec \in AnyReq => req' \in [Requests -> AnyReq])
<1>1. req[r] = Idle
  BY Places DEF LibraryTypes, Starts
<1>2. Idle.on = {}
  BY DEF Idle
<1>3. req' = [req EXCEPT ![r] = rec] /\ begun' = begun + 1 /\ disturbed \subseteq disturbed'
  BY DEF Starts
<1>4. req'[r] = rec /\ \A q \in Requests \ {r} : req'[q] = req[q]
  BY <1>3 DEF LibraryTypes
<1>5. \A q \in Requests \ {r} : req[q].on \cap on \subseteq disturbed'
  BY DEF Starts
<1>6. \A n \in on \ disturbed' : ~Busy(n)
  BY <1>1, <1>2, <1>5 DEF Busy
<1>7. begun' \in Nat /\ (rec \in AnyReq => req' \in [Requests -> AnyReq])
  BY <1>3 DEF LibraryTypes
<1> QED
  BY <1>1, <1>3, <1>4, <1>5, <1>6, <1>7

\* A request begins, about names that agree.
LEMMA StartKeeps ==
  ASSUME LibraryInv, NEW r \in Requests, NEW on, NEW rec \in AnyReq, rec.on = on, Starts(r, on, rec),
         UNCHANGED <<faces, plates>>,
         \A id \in Ids : id \in on /\ Agree(rows[id], index[id], FeatOf(feats, id))
                           => Phase(rec, id, rows[id], index[id], FeatOf(feats, id)),
         \A x \in Plates : x \in on /\ pindex[x] = prows[x] => PlatePhase(rec, x, prows[x], pindex[x])
  PROVE  LibraryInv'
<1> USE DEF LibraryInv
<1>1. UNCHANGED <<rows, objs, index, feats, prows, pindex>>
  BY DEF faces, plates
<1>2. /\ req[r] = Idle /\ req'[r] = rec /\ disturbed \subseteq disturbed'
      /\ \A q \in Requests \ {r} : req'[q] = req[q] /\ req[q].on \cap on \subseteq disturbed'
      /\ \A n \in on \ disturbed' : ~Busy(n)
      /\ begun' \in Nat /\ req' \in [Requests -> AnyReq]
  BY Starting
<1>3. Idle.on = {}
  BY DEF Idle
<1>4. LibraryTypes'
  BY <1>1, <1>2 DEF LibraryTypes
<1>5. \A id \in Ids \ disturbed' :
        /\ id \in req'[r].on => Phase(req'[r], id, rows'[id], index'[id], FeatOf(feats', id))
        /\ id \in req[r].on \ req'[r].on => Agree(rows'[id], index'[id], FeatOf(feats', id))
        /\ id \notin req[r].on \cup req'[r].on =>
             rows'[id] = rows[id] /\ index'[id] = index[id] /\ FeatOf(feats', id) = FeatOf(feats, id)
  BY <1>1, <1>2, <1>3 DEF FacesFit
<1>6. \A x \in Plates \ disturbed' :
        /\ x \in req'[r].on => PlatePhase(req'[r], x, prows'[x], pindex'[x])
        /\ x \in req[r].on \ req'[r].on => pindex'[x] = prows'[x]
        /\ x \notin req[r].on \cup req'[r].on => prows'[x] = prows[x] /\ pindex'[x] = pindex[x]
  BY <1>1, <1>2, <1>3 DEF PlatesFit
<1>7. \A q \in Requests \ {r} : req'[q] = req[q] /\ req[q].on \cap req'[r].on \subseteq disturbed'
  BY <1>2
<1>8. Sole' /\ FacesFit' /\ PlatesFit'
  BY <1>2, <1>5, <1>6, <1>7, StepKeeps
<1> QED
  BY <1>4, <1>8

\* A request about persons takes a step, or its last one.
LEMMA FaceStep ==
  ASSUME LibraryInv, NEW r \in Requests, NEW n \in AnyReq, req' = [req EXCEPT ![r] = n],
         n = Idle \/ n.on = req[r].on, req[r].on \subseteq Ids,
         disturbed \subseteq disturbed', begun' = begun, UNCHANGED plates,
         rows' \in Persons, index' \in Persons, feats' \in FeatureSets, objs' \in [Keys -> Nat \cup {None}],
         \A id \in Ids : id \notin req[r].on =>
           rows'[id] = rows[id] /\ index'[id] = index[id] /\ FeatOf(feats', id) = FeatOf(feats, id),
         \A id \in Ids : 
           id \in req[r].on \ disturbed' /\ Phase(req[r], id, rows[id], index[id], FeatOf(feats, id)) =>
             IF n = Idle THEN Agree(rows'[id], index'[id], FeatOf(feats', id))
             ELSE Phase(n, id, rows'[id], index'[id], FeatOf(feats', id))
  PROVE  LibraryInv'
<1> USE DEF LibraryInv
<1>1. /\ req'[r] = n /\ \A q \in Requests \ {r} : req'[q] = req[q]
      /\ req' \in [Requests -> AnyReq] /\ UNCHANGED <<prows, pindex>>
  BY DEF LibraryTypes, plates
<1>2. Idle.on = {}
  BY DEF Idle
<1>3. LibraryTypes'
  BY <1>1 DEF LibraryTypes
<1>4. n.on \subseteq req[r].on /\ (n # Idle => n.on = req[r].on)
  BY <1>2
<1>5. \A id \in Ids \ disturbed' :
        /\ id \in req'[r].on => Phase(req'[r], id, rows'[id], index'[id], FeatOf(feats', id))
        /\ id \in req[r].on \ req'[r].on => Agree(rows'[id], index'[id], FeatOf(feats', id))
        /\ id \notin req[r].on \cup req'[r].on =>
             rows'[id] = rows[id] /\ index'[id] = index[id] /\ FeatOf(feats', id) = FeatOf(feats, id)
  <2> SUFFICES ASSUME NEW id \in Ids \ disturbed'
               PROVE  /\ id \in n.on => Phase(n, id, rows'[id], index'[id], FeatOf(feats', id))
                      /\ id \in req[r].on \ n.on => Agree(rows'[id], index'[id], FeatOf(feats', id))
                      /\ id \notin req[r].on \cup n.on =>
                           rows'[id] = rows[id] /\ index'[id] = index[id] /\ FeatOf(feats', id) = FeatOf(feats, id)
    BY <1>1
  <2>1. id \in req[r].on => Phase(req[r], id, rows[id], index[id], FeatOf(feats, id))
    BY DEF FacesFit
  <2> QED
    BY <1>2, <1>4, <2>1
<1>6. \A x \in Plates \ disturbed' :
        /\ x \in req'[r].on => PlatePhase(req'[r], x, prows'[x], pindex'[x])
        /\ x \in req[r].on \ req'[r].on => pindex'[x] = prows'[x]
        /\ x \notin req[r].on \cup req'[r].on => prows'[x] = prows[x] /\ pindex'[x] = pindex[x]
  BY <1>1, <1>4, Sets
<1>7. \A q \in Requests \ {r} : req'[q] = req[q] /\ req[q].on \cap req'[r].on \subseteq disturbed'
  BY <1>1, <1>4 DEF Sole
<1>8. Sole' /\ FacesFit' /\ PlatesFit'
  BY <1>5, <1>6, <1>7, StepKeeps
<1> QED
  BY <1>3, <1>8

LEMMA PlateStep ==
  ASSUME LibraryInv, NEW r \in Requests, NEW n \in AnyReq, req' = [req EXCEPT ![r] = n],
         n = Idle \/ n.on = req[r].on, req[r].on \subseteq Plates,
         UNCHANGED <<begun, faces>>, disturbed \subseteq disturbed',
         prows' \in Vehicles, pindex' \in Vehicles,
         \A x \in Plates : x \notin req[r].on => prows'[x] = prows[x] /\ pindex'[x] = pindex[x],
         \A x \in Plates :
           x \in req[r].on \ disturbed' /\ PlatePhase(req[r], x, prows[x], pindex[x]) =>
             IF n = Idle THEN pindex'[x] = prows'[x] ELSE PlatePhase(n, x, prows'[x], pindex'[x])
  PROVE  LibraryInv'
<1> USE DEF LibraryInv
<1>1. /\ req'[r] = n /\ \A q \in Requests \ {r} : req'[q] = req[q]
      /\ req' \in [Requests -> AnyReq] /\ UNCHANGED <<rows, objs, index, feats>>
  BY DEF LibraryTypes, faces
<1>2. Idle.on = {}
  BY DEF Idle
<1>3. LibraryTypes'
  BY <1>1 DEF LibraryTypes
<1>4. n.on \subseteq req[r].on /\ (n # Idle => n.on = req[r].on)
  BY <1>2
<1>5. \A id \in Ids \ disturbed' :
        /\ id \in req'[r].on => Phase(req'[r], id, rows'[id], index'[id], FeatOf(feats', id))
        /\ id \in req[r].on \ req'[r].on => Agree(rows'[id], index'[id], FeatOf(feats', id))
        /\ id \notin req[r].on \cup req'[r].on =>
             rows'[id] = rows[id] /\ index'[id] = index[id] /\ FeatOf(feats', id) = FeatOf(feats, id)
  BY <1>1, <1>4, Sets
<1>6. \A x \in Plates \ disturbed' :
        /\ x \in req'[r].on => PlatePhase(req'[r], x, prows'[x], pindex'[x])
        /\ x \in req[r].on \ req'[r].on => pindex'[x] = prows'[x]
        /\ x \notin req[r].on \cup req'[r].on => prows'[x] = prows[x] /\ pindex'[x] = pindex[x]
  <2> SUFFICES ASSUME NEW x \in Plates \ disturbed'
               PROVE  /\ x \in n.on => PlatePhase(n, x, prows'[x], pindex'[x])
                      /\ x \in req[r].on \ n.on => pindex'[x] = prows'[x]
                      /\ x \notin req[r].on \cup n.on => prows'[x] = prows[x] /\ pindex'[x] = pindex[x]
    BY <1>1
  <2>1. x \in req[r].on => PlatePhase(req[r], x, prows[x], pindex[x])
    BY DEF PlatesFit
  <2> QED
    BY <1>2, <1>4, <2>1
<1>7. \A q \in Requests \ {r} : req'[q] = req[q] /\ req[q].on \cap req'[r].on \subseteq disturbed'
  BY <1>1, <1>4 DEF Sole
<1>8. Sole' /\ FacesFit' /\ PlatesFit'
  BY <1>5, <1>6, <1>7, StepKeeps
<1> QED
  BY <1>3, <1>8

LEMMA LibraryStarts == LibraryInit => LibraryInv
<1> SUFFICES ASSUME LibraryInit PROVE LibraryInv
  OBVIOUS
<1>1. PICK known \in Ids :
        /\ rows = [id \in Ids |-> IF id = known THEN [feat |-> 0, key |-> KeyOf[id], v |-> 0] ELSE None]
        /\ objs = [k \in Keys |-> IF k = KeyOf[known] THEN 0 ELSE None]
        /\ index = rows /\ feats = Features(rows)
        /\ prows = [x \in Plates |-> None] /\ pindex = prows
        /\ req = [r \in Requests |-> Idle] /\ begun = 0 /\ faults = 0 /\ disturbed = {}
  BY DEF LibraryInit
<1>2. rows \in Persons
  <2>1. [feat |-> 0, key |-> KeyOf[known], v |-> 0] \in FaceRows
    BY Sets DEF FaceRows
  <2> QED
    BY <1>1, <2>1 DEF Persons
<1>3. prows \in Vehicles
  BY <1>1 DEF Vehicles
<1>4. Idle.on = {}
  BY DEF Idle
<1>5. LibraryTypes
  BY <1>1, <1>2, <1>3, FeaturesOf DEF LibraryTypes, AnyReq
<1>6. Sole /\ PlatesFit
  BY <1>1, <1>4 DEF Sole, PlatesFit
<1>7. FacesFit
  BY <1>1, <1>2, <1>4, FeaturesOf DEF FacesFit, Agree
<1> QED
  BY <1>5, <1>6, <1>7 DEF LibraryInv

\* Enrolment.
LEMMA EnrollKeeps ==
  ASSUME LibraryInv, NEW r \in Requests,
         (\E id \in Ids : Enroll(r, id)) \/ EnrollUpload(r) \/ EnrollSave(r) \/ EnrollSaveFails(r) \/ EnrollIndex(r)
  PROVE  LibraryInv'
<1> DEFINE m == req[r]
<1>1. LibraryTypes /\ m \in AnyReq
  BY DEF LibraryInv, LibraryTypes
<1>2. /\ rows \in Persons /\ index \in Persons /\ feats \in FeatureSets
      /\ objs \in [Keys -> Nat \cup {None}] /\ begun \in Nat
  BY <1>1 DEF LibraryTypes
<1>3. m.pc \in EnrollPcs =>
        /\ m \in EnrollReqs /\ m.on = {m.id} /\ m.id \in Ids /\ m.new = m.id /\ m.on \subseteq Ids
        /\ m.row \in FaceRows /\ m.row.feat \in Nat /\ m.row.key \in Keys
  BY <1>1, Places DEF EnrollReqs, FaceRows
<1> HIDE DEF m
<1>4. ASSUME m.pc \in EnrollPcs, NEW pc \in EnrollPcs
      PROVE  LET n == [m EXCEPT !.pc = pc]
             IN n \in AnyReq /\ n # Idle /\ n.pc = pc /\ n.on = m.on /\ n.id = m.id /\ n.row = m.row
  BY <1>3, <1>4, EnrollKept
<1>5. ASSUME NEW id \in Ids, Enroll(r, id) PROVE LibraryInv'
  <2> DEFINE row == [feat |-> begun + 1, key |-> KeyOf[id], v |-> begun + 1]
             rec == [pc |-> "enroll upload", on |-> {id}, id |-> id, new |-> id, row |-> row]
  <2>1. index[id] = None /\ Starts(r, {id}, rec) /\ UNCHANGED <<faces, plates>>
    BY <1>5 DEF Enroll
  <2>2. rec \in EnrollReqs /\ rec.on = {id} /\ rec.pc = "enroll upload"
    <3>1. row \in FaceRows
      BY <1>2, Sets DEF FaceRows
    <3> HIDE DEF row
    <3> QED
      BY <3>1 DEF EnrollReqs, EnrollPcs
  <2> HIDE DEF rec
  <2>3. rec \in AnyReq
    BY <2>2 DEF AnyReq
  <2>4. \A i \in Ids : i \in {id} /\ Agree(rows[i], index[i], FeatOf(feats, i))
                         => Phase(rec, i, rows[i], index[i], FeatOf(feats, i))
    BY <2>1, <2>2 DEF Phase, Agree
  <2>5. \A x \in Plates : x \notin {id}
    BY Sets
  <2> QED
    BY <2>1, <2>2, <2>3, <2>4, <2>5, StartKeeps
<1>6. CASE EnrollUpload(r)
  <2> DEFINE n == [m EXCEPT !.pc = "enroll save"]
  <2>1. /\ m.pc = "enroll upload" /\ req' = [req EXCEPT ![r] = n]
        /\ UNCHANGED <<rows, index, feats, plates, begun, disturbed>>
        /\ objs' = [objs EXCEPT ![m.row.key] = m.row.feat]
    BY <1>6 DEF EnrollUpload, At, Goes, m
  <2>2. n \in AnyReq /\ n # Idle /\ n.pc = "enroll save" /\ n.on = m.on
    BY <1>4, <2>1 DEF EnrollPcs
  <2> HIDE DEF n
  <2>3. objs' \in [Keys -> Nat \cup {None}]
    BY <1>2, <1>3, <2>1 DEF EnrollPcs
  <2>4. \A id \in Ids : Phase(m, id, rows[id], index[id], FeatOf(feats, id)) =>
          Phase(n, id, rows'[id], index'[id], FeatOf(feats', id))
    BY <2>1, <2>2 DEF Phase
  <2> QED
    BY <1>2, <1>3, <2>1, <2>2, <2>3, <2>4, FaceStep DEF m, EnrollPcs
<1>7. CASE EnrollSave(r)
  <2> DEFINE n == [m EXCEPT !.pc = "enroll index"]
  <2>1. /\ m.pc = "enroll save" /\ req' = [req EXCEPT ![r] = n]
        /\ UNCHANGED <<objs, index, feats, plates, begun, disturbed>>
        /\ rows' = [rows EXCEPT ![m.id] = m.row]
    BY <1>7 DEF EnrollSave, At, Goes, m
  <2>2. n \in AnyReq /\ n # Idle /\ n.pc = "enroll index" /\ n.on = m.on /\ n.row = m.row
    BY <1>4, <2>1 DEF EnrollPcs
  <2> HIDE DEF n
  <2>3. /\ rows' \in Persons /\ rows'[m.id] = m.row
        /\ \A id \in Ids : id # m.id => rows'[id] = rows[id]
    BY <1>2, <1>3, <2>1 DEF EnrollPcs, Persons
  <2>4. \A id \in Ids : id \in m.on /\ Phase(m, id, rows[id], index[id], FeatOf(feats, id)) =>
          Phase(n, id, rows'[id], index'[id], FeatOf(feats', id))
    BY <1>3, <2>1, <2>2, <2>3 DEF Phase, EnrollPcs, Agree
  <2> QED
    BY <1>2, <1>3, <2>1, <2>2, <2>3, <2>4, FaceStep DEF m, EnrollPcs
<1>8. CASE EnrollSaveFails(r)
  <2>1. /\ m.pc = "enroll save" /\ req' = [req EXCEPT ![r] = Idle]
        /\ UNCHANGED <<rows, index, feats, plates, begun>> /\ disturbed \subseteq disturbed'
        /\ objs' = [objs EXCEPT ![m.row.key] = None]
    BY <1>8 DEF EnrollSaveFails, At, FailsAndEnds, Fault, m
  <2>2. objs' \in [Keys -> Nat \cup {None}]
    BY <1>2, <1>3, <2>1 DEF EnrollPcs
  <2>3. \A id \in Ids : Phase(m, id, rows[id], index[id], FeatOf(feats, id)) =>
          Agree(rows'[id], index'[id], FeatOf(feats', id))
    BY <2>1 DEF Phase
  <2> QED
    BY <1>2, <1>3, <2>1, <2>2, <2>3, FaceStep DEF m, EnrollPcs, AnyReq
<1>9. CASE EnrollIndex(r)
  <2>1. /\ m.pc = "enroll index" /\ req' = [req EXCEPT ![r] = Idle]
        /\ UNCHANGED <<rows, plates, begun, disturbed>>
    BY <1>9 DEF EnrollIndex, At, Ends, m
  <2>2. CASE index[m.id] # None
    <3>1. UNCHANGED <<index, feats>> /\ objs' = [objs EXCEPT ![m.row.key] = None]
      BY <1>9, <2>2 DEF EnrollIndex, m
    <3>2. objs' \in [Keys -> Nat \cup {None}]
      BY <1>2, <1>3, <2>1, <3>1 DEF EnrollPcs
    <3>3. \A id \in Ids : ~(id \in m.on /\ Phase(m, id, rows[id], index[id], FeatOf(feats, id)))
      BY <1>3, <2>1, <2>2 DEF Phase, EnrollPcs
    <3> QED
      BY <1>2, <1>3, <2>1, <3>1, <3>2, <3>3, FaceStep DEF m, EnrollPcs, AnyReq
  <2>3. CASE index[m.id] = None
    <3>1. /\ index' = [index EXCEPT ![m.id] = m.row] /\ feats' = feats \cup {<<m.id, m.row.feat>>}
          /\ objs' = objs
      BY <1>9, <2>3 DEF EnrollIndex, m
    <3>2. /\ m \in EnrollReqs /\ m.on = {m.id} /\ m.id \in Ids /\ m.on \subseteq Ids
          /\ m.row \in FaceRows /\ m.row.feat \in Nat
      BY <1>3, <2>1 DEF EnrollPcs
    <3>3. /\ index' \in Persons /\ index'[m.id] = m.row
          /\ \A id \in Ids : id # m.id => index'[id] = index[id]
      BY <1>2, <3>1, <3>2 DEF Persons
    <3>4. /\ feats' \in FeatureSets /\ FeatOf(feats', m.id) = FeatOf(feats, m.id) \cup {m.row.feat}
          /\ \A id \in Ids \ {m.id} : FeatOf(feats', id) = FeatOf(feats, id)
      <4>1. PICK F \in FeatureSets, x \in Ids, n \in Nat : F = feats /\ x = m.id /\ n = m.row.feat
        BY <1>2, <3>2
      <4>2. PICK G : G = feats'
        OBVIOUS
      <4>3. G = F \cup {<<x, n>>}
        BY <3>1, <4>1, <4>2
      <4>4. F \in FeatureSets /\ x \in Ids /\ n \in Nat
        BY <4>1
      <4> HIDE DEF m
      <4>5. G \in FeatureSets /\ FeatOf(G, x) = FeatOf(F, x) \cup {n} /\ \A id \in Ids \ {x} : FeatOf(G, id) = FeatOf(F, id)
        BY ONLY <4>3, <4>4, FeatureAdded
      <4> QED
        BY <4>1, <4>2, <4>5
    <3>5. \A id \in Ids : id \in m.on /\ Phase(m, id, rows[id], index[id], FeatOf(feats, id)) =>
            Agree(rows'[id], index'[id], FeatOf(feats', id))
      BY <2>1, <3>2, <3>3, <3>4, NothingThere DEF Phase, Agree
    <3> QED
      BY <1>2, <2>1, <3>1, <3>2, <3>3, <3>4, <3>5, FaceStep DEF m, AnyReq
  <2> QED
    BY <2>2, <2>3
<1> QED
  BY <1>5, <1>6, <1>7, <1>8, <1>9

\* What an update and a removal hold, and what their threads turn into.
LEMMA UpdateHolds ==
  ASSUME LibraryInv, NEW r \in Requests, req[r].pc \in UpdatePcs
  PROVE  /\ req[r] \in UpdateReqs /\ req[r].on = {req[r].id, req[r].new} /\ req[r].on \subseteq Ids
         /\ req[r].id \in Ids /\ req[r].new \in Ids /\ req[r].row \in FaceRows /\ req[r].row.feat \in Nat
         /\ req[r].old \in Keys /\ (req[r].pc = "update remove" => req[r].id # req[r].new)
         /\ req[r].photo \in BOOLEAN /\ req[r].moved \in BOOLEAN /\ req[r].row.key \in Keys
         /\ rows \in Persons /\ index \in Persons /\ feats \in FeatureSets /\ objs \in [Keys -> Nat \cup {None}]
<1>1. LibraryTypes /\ req[r] \in AnyReq
  BY DEF LibraryInv, LibraryTypes
<1>2. req[r] \in UpdateReqs
  BY <1>1, Places
<1> QED
  BY <1>1, <1>2 DEF LibraryTypes, UpdateReqs, FaceRows

LEMMA Moved ==
  ASSUME NEW m \in UpdateReqs, NEW row \in FaceRows
  PROVE  LET n == [m EXCEPT !.pc = "update save", !.row = row, !.moved = TRUE]
         IN /\ n \in UpdateReqs /\ n \in AnyReq /\ n # Idle /\ n.pc = "update save"
            /\ n.on = m.on /\ n.id = m.id /\ n.new = m.new /\ n.row = row
            /\ n.old = m.old /\ n.photo = m.photo /\ n.moved = TRUE
<1> DEFINE n == [m EXCEPT !.pc = "update save", !.row = row, !.moved = TRUE]
<1>1. /\ n \in UpdateReqs /\ n.pc = "update save" /\ n.on = m.on /\ n.id = m.id /\ n.new = m.new
      /\ n.row = row /\ n.old = m.old /\ n.photo = m.photo /\ n.moved = TRUE
  BY DEF UpdateReqs, UpdatePcs
<1> HIDE DEF n
<1>2. Idle.pc = "idle" /\ n.pc # "idle"
  BY <1>1 DEF Idle
<1> QED
  BY <1>1, <1>2 DEF AnyReq, n

\* A change begins.
LEMMA UpdateStarts ==
  ASSUME LibraryInv, NEW r \in Requests, NEW id \in Ids, NEW new \in Ids, NEW photo \in BOOLEAN, Update(r, id, new, photo)
  PROVE  LibraryInv'
<1> DEFINE row == [index[id] EXCEPT !.v = begun + 1, !.feat = IF photo THEN begun + 1 ELSE @]
           rec == [pc |-> IF photo \/ new # id THEN "update upload" ELSE "update save",
                   on |-> {id, new}, id |-> id, new |-> new, row |-> row, old |-> row.key,
                   photo |-> photo, moved |-> FALSE]
<1>1. /\ index[id] # None /\ (new = id \/ index[new] = None)
      /\ Starts(r, {id, new}, rec) /\ UNCHANGED <<faces, plates>>
  BY DEF Update
<1>2. row \in FaceRows /\ row.key \in Keys
  <2>1. PICK old \in FaceRows, b \in Nat : old = index[id] /\ b = begun
    BY <1>1 DEF LibraryInv, LibraryTypes, Persons
  <2> DEFINE f == IF photo THEN b + 1 ELSE old.feat
  <2>2. f \in Nat
    BY <2>1 DEF FaceRows
  <2>3. row = [old EXCEPT !.v = b + 1, !.feat = f]
    BY <2>1 DEF FaceRows
  <2> DEFINE v == b + 1
  <2>4. v \in Nat /\ row = [old EXCEPT !.v = v, !.feat = f]
    BY <2>3
  <2> HIDE DEF f, row, v
  <2>5. row \in FaceRows
    BY <2>2, <2>4 DEF FaceRows
  <2> QED
    BY <2>5 DEF FaceRows
<1> HIDE DEF row
<1>3. /\ rec \in UpdateReqs /\ rec.on = {id, new} /\ rec.id = id /\ rec.new = new
      /\ rec.pc = "update upload" \/ rec.pc = "update save"
  <2>1. (IF photo \/ new # id THEN "update upload" ELSE "update save") \in {"update upload", "update save"}
    OBVIOUS
  <2> QED
    BY <1>2, <2>1 DEF UpdateReqs, UpdatePcs
<1> HIDE DEF rec
<1>4. rec \in AnyReq
  BY <1>3 DEF AnyReq
<1>5. \A i \in Ids : i \in {id, new} /\ Agree(rows[i], index[i], FeatOf(feats, i))
                       => Phase(rec, i, rows[i], index[i], FeatOf(feats, i))
  BY <1>1, <1>3 DEF Phase, Agree
<1>6. \A x \in Plates : x \notin {id, new}
  BY Sets
<1> QED
  BY <1>1, <1>3, <1>4, <1>5, <1>6, StartKeeps

LEMMA UploadKeeps ==
  ASSUME LibraryInv, NEW r \in Requests, UpdateUpload(r) \/ UploadFails(r)
  PROVE  LibraryInv'
<1> DEFINE m == req[r]
<1>1. LibraryTypes /\ m \in AnyReq /\ rows \in Persons /\ index \in Persons /\ feats \in FeatureSets
      /\ objs \in [Keys -> Nat \cup {None}]
  BY DEF LibraryInv, LibraryTypes
<1>2. CASE UpdateUpload(r)
  <2> DEFINE k == KeyOf[m.new]
             photo == IF m.photo THEN m.row.feat ELSE PhotoBytes(m.id)
             moved == [m EXCEPT !.pc = "update save", !.row.key = k, !.moved = TRUE]
             stays == [m EXCEPT !.pc = "update save"]
             n == IF photo # None THEN moved ELSE stays
  <2>1. /\ m.pc = "update upload" /\ req' = [req EXCEPT ![r] = n]
        /\ UNCHANGED <<rows, index, feats, plates, begun, disturbed>>
        /\ objs' = IF photo # None THEN [objs EXCEPT ![k] = photo] ELSE objs
    <3>1. CASE photo # None
      BY <1>2, <3>1 DEF UpdateUpload, At
    <3>2. CASE photo = None
      BY <1>2, <3>2 DEF UpdateUpload, At
    <3> QED
      BY <3>1, <3>2
  <2>2. m.pc \in UpdatePcs
    BY <2>1 DEF UpdatePcs
  <2>3. /\ m \in UpdateReqs /\ m.id \in Ids /\ m.new \in Ids /\ m.on \subseteq Ids /\ k \in Keys
        /\ m.row.feat \in Nat
    BY <2>2, UpdateHolds, Sets
  <2> HIDE DEF m, k
  <2>4. n \in AnyReq /\ n # Idle /\ n.pc = "update save" /\ n.on = m.on /\ n.id = m.id /\ n.new = m.new
    <3>1. /\ moved \in AnyReq /\ moved # Idle /\ moved.pc = "update save" /\ moved.on = m.on
          /\ moved.id = m.id /\ moved.new = m.new
      <4> DEFINE row == [m.row EXCEPT !.key = k]
      <4>1. row \in FaceRows
        BY <2>3 DEF UpdateReqs, FaceRows
      <4>2. moved = [m EXCEPT !.pc = "update save", !.row = row, !.moved = TRUE]
        BY <2>3 DEF UpdateReqs
      <4> HIDE DEF row, moved
      <4> QED
        BY <2>3, <4>1, <4>2, Moved
    <3>2. /\ stays \in AnyReq /\ stays # Idle /\ stays.pc = "update save" /\ stays.on = m.on
          /\ stays.id = m.id /\ stays.new = m.new
      BY <2>3, UpdateKept DEF UpdatePcs
    <3> HIDE DEF moved, stays
    <3> QED
      BY <3>1, <3>2
  <2>5. photo \in Nat \cup {None}
    BY <1>1, <2>3 DEF m, PhotoBytes, Persons, FaceRows
  <2> HIDE DEF photo, n
  <2>6. objs' \in [Keys -> Nat \cup {None}]
    BY <1>1, <2>1, <2>3, <2>5
  <2>7. \A id \in Ids : Phase(m, id, rows[id], index[id], FeatOf(feats, id)) =>
          Phase(n, id, rows'[id], index'[id], FeatOf(feats', id))
    BY <2>1, <2>4 DEF Phase
  <2> QED
    BY <1>1, <2>1, <2>3, <2>4, <2>6, <2>7, FaceStep DEF m
<1>3. CASE UploadFails(r)
  <2>1. /\ m.pc \in {"enroll upload", "update upload"} /\ req' = [req EXCEPT ![r] = Idle]
        /\ UNCHANGED <<rows, objs, index, feats, plates, begun>> /\ disturbed \subseteq disturbed'
    BY <1>3 DEF UploadFails, FailsAndEnds, Fault, faces
  <2>2. m.on \subseteq Ids
    <3>1. m.pc \in EnrollPcs \/ m.pc \in UpdatePcs
      BY <2>1 DEF EnrollPcs, UpdatePcs
    <3> QED
      BY <1>1, <3>1, Places DEF EnrollReqs, UpdateReqs
  <2> HIDE DEF m
  <2>3. \A id \in Ids : Phase(m, id, rows[id], index[id], FeatOf(feats, id)) =>
          Agree(rows'[id], index'[id], FeatOf(feats', id))
    BY <2>1 DEF Phase
  <2> QED
    BY <1>1, <2>1, <2>2, <2>3, FaceStep DEF m, AnyReq
<1> QED
  BY <1>2, <1>3

LEMMA UpdateKeeps ==
  ASSUME LibraryInv, NEW r \in Requests,
         UpdateSave(r) \/ UpdateSaveFails(r) \/ UpdateRemove(r) \/ UpdateClean(r) \/ UpdateIndex(r)
  PROVE  LibraryInv'
<1> DEFINE m == req[r]
<1>1. m.pc \in UpdatePcs
  BY DEF UpdateSave, UpdateSaveFails, UpdateRemove, UpdateClean, UpdateIndex, At, UpdatePcs
<1>2. /\ m \in UpdateReqs /\ m.on = {m.id, m.new} /\ m.on \subseteq Ids
      /\ m.id \in Ids /\ m.new \in Ids /\ m.row \in FaceRows /\ m.row.feat \in Nat /\ m.old \in Keys
      /\ (m.pc = "update remove" => m.id # m.new)
      /\ rows \in Persons /\ index \in Persons /\ feats \in FeatureSets /\ objs \in [Keys -> Nat \cup {None}]
  BY <1>1, UpdateHolds
<1> HIDE DEF m
<1>3. ASSUME NEW pc \in UpdatePcs, pc = "update remove" => m.id # m.new
      PROVE  LET n == [m EXCEPT !.pc = pc]
             IN /\ n \in AnyReq /\ n # Idle /\ n.pc = pc
                /\ n.on = m.on /\ n.id = m.id /\ n.new = m.new /\ n.row = m.row
  BY <1>2, <1>3, UpdateKept
<1>4. CASE UpdateSave(r)
  <2> DEFINE pc == IF m.new # m.id THEN "update remove" ELSE "update clean"
             n == [m EXCEPT !.pc = pc]
  <2>1. /\ m.pc = "update save" /\ req' = [req EXCEPT ![r] = n]
        /\ UNCHANGED <<objs, index, feats, plates, begun, disturbed>>
        /\ rows' = [rows EXCEPT ![m.new] = m.row]
    BY <1>4 DEF UpdateSave, At, Goes, m
  <2>2. pc \in UpdatePcs /\ (pc = "update remove" => m.id # m.new)
    BY DEF UpdatePcs
  <2>3. /\ pc = "update remove" \/ pc = "update clean"
        /\ pc = "update clean" => m.new = m.id
    OBVIOUS
  <2> HIDE DEF pc
  <2>4. n \in AnyReq /\ n # Idle /\ n.pc = pc /\ n.on = m.on /\ n.id = m.id /\ n.new = m.new /\ n.row = m.row
    BY <1>3, <2>2
  <2> HIDE DEF n
  <2>5. rows' \in Persons /\ rows'[m.new] = m.row /\ \A id \in Ids : id # m.new => rows'[id] = rows[id]
    BY <1>2, <2>1 DEF Persons
  <2>6. \A id \in Ids : id \in m.on /\ Phase(m, id, rows[id], index[id], FeatOf(feats, id)) =>
          Phase(n, id, rows'[id], index'[id], FeatOf(feats', id))
    BY <1>2, <2>1, <2>2, <2>3, <2>4, <2>5 DEF Phase, Agree
  <2> QED
    BY <1>2, <2>1, <2>4, <2>5, <2>6, FaceStep DEF m
<1>5. CASE UpdateSaveFails(r)
  <2>1. /\ req' = [req EXCEPT ![r] = Idle] /\ UNCHANGED <<rows, objs, index, feats, plates, begun>>
        /\ disturbed' = disturbed \cup m.on
    BY <1>5 DEF UpdateSaveFails, FailsAndEnds, Fault, faces, m
  <2> QED
    BY <1>2, <2>1, FaceStep DEF m, AnyReq
<1>6. CASE UpdateRemove(r)
  <2> DEFINE n == [m EXCEPT !.pc = "update clean"]
  <2>1. /\ m.pc = "update remove" /\ req' = [req EXCEPT ![r] = n]
        /\ UNCHANGED <<objs, index, feats, plates, begun, disturbed>>
        /\ rows' = [rows EXCEPT ![m.id] = None]
    BY <1>6 DEF UpdateRemove, At, Goes, m
  <2>2. n \in AnyReq /\ n # Idle /\ n.pc = "update clean" /\ n.on = m.on /\ n.id = m.id /\ n.new = m.new /\ n.row = m.row
    BY <1>3 DEF UpdatePcs
  <2> HIDE DEF n
  <2>3. rows' \in Persons /\ rows'[m.id] = None /\ \A id \in Ids : id # m.id => rows'[id] = rows[id]
    BY <1>2, <2>1 DEF Persons
  <2>4. \A id \in Ids : id \in m.on /\ Phase(m, id, rows[id], index[id], FeatOf(feats, id)) =>
          Phase(n, id, rows'[id], index'[id], FeatOf(feats', id))
    BY <1>2, <2>1, <2>2, <2>3 DEF Phase
  <2> QED
    BY <1>2, <2>1, <2>2, <2>3, <2>4, FaceStep DEF m
<1>7. CASE UpdateClean(r)
  <2> DEFINE n == [m EXCEPT !.pc = "update index"]
  <2>1. /\ m.pc = "update clean" /\ req' = [req EXCEPT ![r] = n]
        /\ UNCHANGED <<rows, index, feats, plates, begun, disturbed>>
        /\ objs' = objs \/ objs' = [objs EXCEPT ![m.old] = None]
    BY <1>7 DEF UpdateClean, At, Goes, m
  <2>2. n \in AnyReq /\ n # Idle /\ n.pc = "update index" /\ n.on = m.on /\ n.id = m.id /\ n.new = m.new /\ n.row = m.row
    BY <1>3 DEF UpdatePcs
  <2> HIDE DEF n
  <2>3. objs' \in [Keys -> Nat \cup {None}]
    BY <1>2, <2>1
  <2>4. \A id \in Ids : Phase(m, id, rows[id], index[id], FeatOf(feats, id)) =>
          Phase(n, id, rows'[id], index'[id], FeatOf(feats', id))
    BY <2>1, <2>2 DEF Phase
  <2> QED
    BY <1>2, <2>1, <2>2, <2>3, <2>4, FaceStep DEF m
<1>8. CASE UpdateIndex(r)
  <2>1. /\ m.pc = "update index" /\ req' = [req EXCEPT ![r] = Idle]
        /\ UNCHANGED <<rows, objs, plates, begun, disturbed>>
        /\ index' = [index EXCEPT ![m.id] = None, ![m.new] = m.row]
        /\ feats' = {f \in feats : f[1] # m.id} \cup {<<m.new, m.row.feat>>}
    BY <1>8 DEF UpdateIndex, At, Ends, m
  <2>2. /\ index' \in Persons /\ index'[m.new] = m.row /\ (m.id # m.new => index'[m.id] = None)
        /\ \A id \in Ids \ {m.id, m.new} : index'[id] = index[id]
    BY <1>2, <2>1 DEF Persons
  <2>3. /\ feats' \in FeatureSets
        /\ FeatOf(feats', m.new) = (IF m.new = m.id THEN {} ELSE FeatOf(feats, m.new)) \cup {m.row.feat}
        /\ m.id # m.new => FeatOf(feats', m.id) = {}
        /\ \A id \in Ids \ {m.id, m.new} : FeatOf(feats', id) = FeatOf(feats, id)
    <3>1. PICK F \in FeatureSets, x \in Ids, y \in Ids, k \in Nat :
            F = feats /\ x = m.id /\ y = m.new /\ k = m.row.feat
      BY <1>2
    <3>2. PICK G : G = {f \in F : f[1] # x}
      OBVIOUS
    <3>8. PICK H : H = feats'
      OBVIOUS
    <3>3. H = G \cup {<<y, k>>}
      BY <2>1, <3>1, <3>2, <3>8
    <3>4. G \in FeatureSets /\ FeatOf(G, x) = {} /\ \A id \in Ids \ {x} : FeatOf(G, id) = FeatOf(F, id)
      BY <3>1, <3>2, FeaturesGone
    <3>5. H \in FeatureSets /\ FeatOf(H, y) = FeatOf(G, y) \cup {k} /\ \A id \in Ids \ {y} : FeatOf(H, id) = FeatOf(G, id)
      BY <3>1, <3>3, <3>4, FeatureAdded
    <3>6. FeatOf(H, y) = (IF y = x THEN {} ELSE FeatOf(F, y)) \cup {k}
      BY <3>4, <3>5
    <3>7. (x # y => FeatOf(H, x) = {}) /\ \A id \in Ids \ {x, y} : FeatOf(H, id) = FeatOf(F, id)
      BY <3>4, <3>5
    <3> QED
      BY <3>1, <3>5, <3>6, <3>7, <3>8
  <2>4. ASSUME NEW id \in Ids, id \in m.on, Phase(m, id, rows[id], index[id], FeatOf(feats, id))
        PROVE  Agree(rows'[id], index'[id], FeatOf(feats', id))
    <3>1. IF id = m.new THEN rows[id] = m.row /\ (m.new # m.id => FeatOf(feats, id) = {}) ELSE rows[id] = None
      BY <2>1, <2>4 DEF Phase
    <3>2. CASE id = m.new
      <4>1. FeatOf(feats', id) = {m.row.feat}
        BY <2>3, <3>1, <3>2
      <4> QED
        BY <1>2, <2>1, <2>2, <3>1, <3>2, <4>1, NothingThere DEF Agree
    <3>3. CASE id # m.new
      BY <1>2, <2>1, <2>2, <2>3, <2>4, <3>1, <3>3 DEF Agree
    <3> QED
      BY <3>2, <3>3
  <2> QED
    BY <1>2, <2>1, <2>2, <2>3, <2>4, FaceStep DEF m, AnyReq
<1> QED
  BY <1>4, <1>5, <1>6, <1>7, <1>8

\* Removal.
LEMMA DeleteKeeps ==
  ASSUME LibraryInv, NEW r \in Requests,
         (\E id \in Ids : Delete(r, id)) \/ DeletePhoto(r) \/ DeleteRow(r) \/ DeleteIndex(r)
  PROVE  LibraryInv'
<1> DEFINE m == req[r]
<1>1. LibraryTypes /\ m \in AnyReq
  BY DEF LibraryInv, LibraryTypes
<1>2. /\ rows \in Persons /\ index \in Persons /\ feats \in FeatureSets
      /\ objs \in [Keys -> Nat \cup {None}]
  BY <1>1 DEF LibraryTypes
<1>3. m.pc \in DeletePcs => /\ m \in DeleteReqs /\ m.on = {m.id} /\ m.id \in Ids /\ m.on \subseteq Ids
                            /\ m.row \in FaceRows /\ m.row.key \in Keys
  BY <1>1, Places DEF DeleteReqs, FaceRows
<1> HIDE DEF m
<1>4. ASSUME m.pc \in DeletePcs, NEW pc \in DeletePcs
      PROVE  LET n == [m EXCEPT !.pc = pc]
             IN n \in AnyReq /\ n # Idle /\ n.pc = pc /\ n.on = m.on /\ n.id = m.id /\ n.row = m.row
  BY <1>3, <1>4, DeleteKept
<1>5. ASSUME NEW id \in Ids, Delete(r, id) PROVE LibraryInv'
  <2> DEFINE row == IF index[id] # None THEN index[id] ELSE rows[id]
             rec == [pc |-> "delete photo", on |-> {id}, id |-> id, row |-> row]
  <2>1. /\ index[id] # None \/ rows[id] # None
        /\ Starts(r, {id}, rec) /\ UNCHANGED <<faces, plates>>
    BY <1>5 DEF Delete
  <2>2. row \in FaceRows
    BY <1>2, <2>1 DEF Persons
  <2> HIDE DEF row
  <2>3. rec \in DeleteReqs /\ rec.on = {id} /\ rec.pc = "delete photo"
    BY <2>2 DEF DeleteReqs, DeletePcs
  <2> HIDE DEF rec
  <2>4. rec \in AnyReq
    BY <2>3 DEF AnyReq
  <2>5. \A i \in Ids : Phase(rec, i, rows[i], index[i], FeatOf(feats, i))
    BY <2>3 DEF Phase
  <2>6. \A x \in Plates : x \notin {id}
    BY Sets
  <2> QED
    BY <2>1, <2>3, <2>4, <2>5, <2>6, StartKeeps
<1>6. CASE DeletePhoto(r)
  <2> DEFINE n == [m EXCEPT !.pc = "delete row"]
  <2>1. /\ m.pc = "delete photo" /\ req' = [req EXCEPT ![r] = n]
        /\ UNCHANGED <<rows, index, feats, plates, begun, disturbed>>
        /\ objs' = [objs EXCEPT ![m.row.key] = None]
    BY <1>6 DEF DeletePhoto, At, Goes, m
  <2>2. m.pc \in DeletePcs /\ n \in AnyReq /\ n # Idle /\ n.pc = "delete row" /\ n.on = m.on
    BY <1>4, <2>1 DEF DeletePcs
  <2> HIDE DEF n
  <2>3. objs' \in [Keys -> Nat \cup {None}]
    BY <1>2, <1>3, <2>1, <2>2
  <2>4. \A id \in Ids : Phase(n, id, rows'[id], index'[id], FeatOf(feats', id))
    BY <2>2 DEF Phase
  <2> QED
    BY <1>2, <1>3, <2>1, <2>2, <2>3, <2>4, FaceStep DEF m
<1>7. CASE DeleteRow(r)
  <2> DEFINE n == [m EXCEPT !.pc = "delete index"]
  <2>1. /\ m.pc = "delete row" /\ req' = [req EXCEPT ![r] = n]
        /\ UNCHANGED <<objs, index, feats, plates, begun, disturbed>>
        /\ rows' = [rows EXCEPT ![m.id] = None]
    BY <1>7 DEF DeleteRow, At, Goes, m
  <2>2. m.pc \in DeletePcs /\ n \in AnyReq /\ n # Idle /\ n.pc = "delete index" /\ n.on = m.on
    BY <1>4, <2>1 DEF DeletePcs
  <2> HIDE DEF n
  <2>3. rows' \in Persons /\ rows'[m.id] = None /\ \A id \in Ids : id # m.id => rows'[id] = rows[id]
    BY <1>2, <1>3, <2>1, <2>2 DEF Persons
  <2>4. \A id \in Ids : id \in m.on => Phase(n, id, rows'[id], index'[id], FeatOf(feats', id))
    BY <1>3, <2>2, <2>3 DEF Phase
  <2> QED
    BY <1>2, <1>3, <2>1, <2>2, <2>3, <2>4, FaceStep DEF m
<1>8. CASE DeleteIndex(r)
  <2>1. /\ m.pc = "delete index" /\ req' = [req EXCEPT ![r] = Idle]
        /\ UNCHANGED <<rows, objs, plates, begun, disturbed>>
        /\ index' = [index EXCEPT ![m.id] = None]
        /\ feats' = {f \in feats : f[1] # m.id}
    BY <1>8 DEF DeleteIndex, At, Ends, m
  <2>2. /\ m \in DeleteReqs /\ m.on = {m.id} /\ m.id \in Ids /\ m.on \subseteq Ids
    BY <1>3, <2>1 DEF DeletePcs
  <2>3. index' \in Persons /\ index'[m.id] = None /\ \A id \in Ids \ {m.id} : index'[id] = index[id]
    BY <1>2, <2>1, <2>2 DEF Persons
  <2>4. /\ feats' \in FeatureSets /\ FeatOf(feats', m.id) = {}
        /\ \A id \in Ids \ {m.id} : FeatOf(feats', id) = FeatOf(feats, id)
    <3>1. PICK F \in FeatureSets, x \in Ids : F = feats /\ x = m.id
      BY <1>2, <2>2
    <3>2. PICK G : G = feats'
      OBVIOUS
    <3>3. G = {f \in F : f[1] # x}
      BY <2>1, <3>1, <3>2
    <3>4. G \in FeatureSets /\ FeatOf(G, x) = {} /\ \A id \in Ids \ {x} : FeatOf(G, id) = FeatOf(F, id)
      BY <3>1, <3>3, FeaturesGone
    <3> QED
      BY <3>1, <3>2, <3>4
  <2>5. \A id \in Ids : id \in m.on /\ Phase(m, id, rows[id], index[id], FeatOf(feats, id)) =>
          Agree(rows'[id], index'[id], FeatOf(feats', id))
    BY <2>1, <2>2, <2>3, <2>4 DEF Phase, Agree
  <2> QED
    BY <1>2, <2>1, <2>2, <2>3, <2>4, <2>5, FaceStep DEF m, AnyReq
<1> QED
  BY <1>5, <1>6, <1>7, <1>8

\* Whatever a failed deletion leaves behind, its names count as disturbed.
LEMMA DeletionFailsKeeps == ASSUME LibraryInv, NEW r \in Requests, DeletionFails(r) PROVE LibraryInv'
<1> DEFINE m == req[r]
<1>1. /\ LibraryTypes /\ m \in AnyReq /\ rows \in Persons /\ index \in Persons
      /\ feats \in FeatureSets /\ objs \in [Keys -> Nat \cup {None}]
  BY DEF LibraryInv, LibraryTypes
<1>2. UNCHANGED <<rows, objs, index, feats, plates, begun>> /\ disturbed' = disturbed \cup m.on
  BY DEF DeletionFails, FailsAndGoes, Fault, faces
<1>3. PICK pc : /\ req' = [req EXCEPT ![r] = [m EXCEPT !.pc = pc]]
                /\ \/ m.pc \in UpdatePcs /\ pc \in {"update clean", "update index"}
                   \/ m.pc \in DeletePcs /\ pc \in DeletePcs
  BY DEF DeletionFails, FailsAndGoes, At, UpdatePcs, DeletePcs
<1>4. /\ [m EXCEPT !.pc = pc] \in AnyReq /\ [m EXCEPT !.pc = pc].on = m.on /\ m.on \subseteq Ids
  <2>1. CASE m.pc \in UpdatePcs /\ pc \in {"update clean", "update index"}
    <3>1. m \in UpdateReqs /\ pc \in UpdatePcs /\ pc # "update remove" /\ m.on \subseteq Ids
      BY <1>1, <2>1, Places DEF UpdatePcs, UpdateReqs
    <3> HIDE DEF m
    <3> QED
      BY <3>1, UpdateKept
  <2>2. CASE m.pc \in DeletePcs /\ pc \in DeletePcs
    <3>1. m \in DeleteReqs /\ m.on \subseteq Ids
      BY <1>1, <2>2, Places DEF DeleteReqs
    <3> HIDE DEF m
    <3> QED
      BY <2>2, <3>1, DeleteKept
  <2> QED
    BY <1>3, <2>1, <2>2
<1>5. PICK n : n = [m EXCEPT !.pc = pc]
  OBVIOUS
<1>6. n \in AnyReq /\ n.on = m.on /\ m.on \subseteq Ids /\ req' = [req EXCEPT ![r] = n]
  BY <1>3, <1>4, <1>5
<1> QED
  BY <1>1, <1>2, <1>6, FaceStep

\* Reload and migration.
LEMMA Migrated ==
  ASSUME LibraryTypes
  PROVE  MigratedRows \in Persons /\ MigratedObjs \in [Keys -> Nat \cup {None}]
<1>1. \A id \in Ids : [feat |-> 0, key |-> KeyOf[id], v |-> 0] \in FaceRows
  BY Sets DEF FaceRows
<1>2. MigratedRows \in Persons
  BY <1>1 DEF MigratedRows, Persons, LibraryTypes
<1>3. MigratedObjs \in [Keys -> Nat \cup {None}]
  BY DEF MigratedObjs, LibraryTypes
<1> QED
  BY <1>2, <1>3

LEMMA ReloadKeeps ==
  ASSUME LibraryInv, NEW r \in Requests, Reload(r) \/ ReloadSwap(r) \/ ReloadDisconnected(r)
  PROVE  LibraryInv'
<1> DEFINE m == req[r]
<1>1. LibraryTypes /\ m \in AnyReq /\ Sole /\ FacesFit /\ PlatesFit
  BY DEF LibraryInv, LibraryTypes
<1>2. Idle.on = {}
  BY DEF Idle
<1>3. CASE Reload(r)
  <2> DEFINE rec == [pc |-> "reload", on |-> Ids, rows |-> MigratedRows]
  <2>1. /\ Starts(r, Ids, rec) /\ rows' = MigratedRows /\ objs' = MigratedObjs
        /\ UNCHANGED <<index, feats, prows, pindex>>
    BY <1>3 DEF Reload, plates
  <2>2. rec \in ReloadReqs /\ rec.on = Ids /\ rec.pc = "reload" /\ rec.rows = MigratedRows
    BY <1>1, Migrated DEF ReloadReqs
  <2> HIDE DEF rec
  <2>3. rec \in AnyReq
    BY <2>2 DEF AnyReq
  <2>4. /\ req[r] = Idle /\ req'[r] = rec /\ disturbed \subseteq disturbed'
        /\ \A q \in Requests \ {r} : req'[q] = req[q] /\ req[q].on \cap rec.on \subseteq disturbed'
        /\ begun' \in Nat /\ req' \in [Requests -> AnyReq]
    BY <1>1, <2>1, <2>2, <2>3, Starting
  <2>5. LibraryTypes'
    BY <1>1, <2>1, <2>4, Migrated DEF LibraryTypes
  <2>6. \A id \in Ids : Phase(rec, id, rows'[id], index'[id], FeatOf(feats', id))
    BY <2>1, <2>2 DEF Phase
  <2>7. \A x \in Plates : x \notin req[r].on \cup req'[r].on
    BY <1>2, <2>2, <2>4, Sets
  <2>8. \A id \in Ids : id \in req'[r].on
    BY <2>2, <2>4
  <2>9. \A q \in Requests \ {r} : req'[q] = req[q] /\ req[q].on \cap req'[r].on \subseteq disturbed'
    BY <2>4
  <2>10. Sole' /\ FacesFit' /\ PlatesFit'
    BY <1>1, <2>1, <2>4, <2>6, <2>7, <2>8, <2>9, StepKeeps
  <2> QED
    BY <2>5, <2>10 DEF LibraryInv
<1>4. CASE ReloadSwap(r)
  <2>1. /\ m.pc = "reload" /\ req' = [req EXCEPT ![r] = Idle]
        /\ UNCHANGED <<rows, objs, plates, begun, disturbed>>
        /\ index' = m.rows /\ feats' = Features(m.rows)
    BY <1>4 DEF ReloadSwap, At, Ends
  <2>2. m \in ReloadReqs /\ m.on = Ids /\ m.rows \in Persons
    BY <1>1, <2>1, Places DEF ReloadReqs
  <2> HIDE DEF m
  <2>3. PICK R \in Persons : R = m.rows
    BY <2>2
  <2>4. /\ feats' \in FeatureSets
        /\ \A id \in Ids : FeatOf(feats', id) = IF R[id] = None THEN {} ELSE {R[id].feat}
    BY <2>1, <2>3, FeaturesOf
  <2>5. \A id \in Ids : Phase(m, id, rows[id], index[id], FeatOf(feats, id)) =>
          Agree(rows'[id], index'[id], FeatOf(feats', id))
    BY <2>1, <2>3, <2>4 DEF Phase, Agree
  <2>6. rows \in Persons /\ objs \in [Keys -> Nat \cup {None}]
    BY <1>1 DEF LibraryTypes
  <2> QED
    BY <2>1, <2>2, <2>3, <2>4, <2>5, <2>6, FaceStep DEF m, AnyReq
<1>5. CASE ReloadDisconnected(r)
  <2>1. /\ m.pc = "idle" /\ req' = [req EXCEPT ![r] = Idle] /\ disturbed' = disturbed \cup Ids
        /\ UNCHANGED <<rows, objs, prows, pindex, begun>>
        /\ index' = [id \in Ids |-> None] /\ feats' = {}
    BY <1>5 DEF ReloadDisconnected, At, FailsAndEnds, Fault, plates
  <2>2. m = Idle
    BY <1>1, <2>1, Places
  <2>3. req' = req
    BY <1>1, <2>1, <2>2 DEF LibraryTypes
  <2>4. LibraryTypes'
    BY <1>1, <2>1, <2>3 DEF LibraryTypes, Persons, FeatureSets
  <2>5. Sole' /\ FacesFit'
    BY <1>1, <2>1, <2>3 DEF Sole, FacesFit
  <2>6. PlatesFit'
    BY <1>1, <2>1, <2>3 DEF PlatesFit, Busy
  <2> QED
    BY <2>4, <2>5, <2>6 DEF LibraryInv
<1> QED
  BY <1>3, <1>4, <1>5

\* Plates.
LEMMA PlatesKeep ==
  ASSUME LibraryInv, NEW r \in Requests,
         \/ \E x \in Plates : AddPlate(r, x) \/ UpdatePlate(r, x) \/ DeletePlate(r, x)
         \/ PlateSave(r) \/ PlateIndex(r) \/ PlatePop(r) \/ PlateFails(r)
         \/ ReloadPlates(r) \/ ReloadPlatesSwap(r)
  PROVE  LibraryInv'
<1> DEFINE m == req[r]
<1>1. /\ LibraryTypes /\ m \in AnyReq /\ Sole /\ FacesFit /\ PlatesFit
      /\ prows \in Vehicles /\ pindex \in Vehicles /\ begun \in Nat
  BY DEF LibraryInv, LibraryTypes
<1>2. Idle.on = {}
  BY DEF Idle
<1>3. m.pc \in PlatePcs => /\ m \in PlateReqs /\ m.on = {m.id} /\ m.id \in Plates /\ m.on \subseteq Plates
                           /\ m.row \in PlateRows
  BY <1>1, Places DEF PlateReqs
<1>4. \A x \in Plates : x \notin Ids
  BY Sets
<1> HIDE DEF m
<1>5. ASSUME NEW x \in Plates, NEW row \in PlateRows,
             Starts(r, {x}, [pc |-> "plate save", on |-> {x}, id |-> x, row |-> row]),
             UNCHANGED <<faces, plates>>
      PROVE  LibraryInv'
  <2> DEFINE rec == [pc |-> "plate save", on |-> {x}, id |-> x, row |-> row]
  <2>1. rec \in PlateReqs /\ rec.on = {x} /\ rec.pc = "plate save"
    BY DEF PlateReqs, PlatePcs
  <2>2. Starts(r, {x}, rec)
    BY <1>5
  <2> HIDE DEF rec
  <2>3. rec \in AnyReq
    BY <2>1 DEF AnyReq
  <2>4. \A y \in Plates : y \in {x} /\ pindex[y] = prows[y] => PlatePhase(rec, y, prows[y], pindex[y])
    BY <2>1 DEF PlatePhase
  <2>5. \A id \in Ids : id \notin {x}
    BY Sets
  <2> QED
    BY <1>5, <2>1, <2>2, <2>3, <2>4, <2>5, StartKeeps
<1>6. ASSUME NEW x \in Plates, AddPlate(r, x) PROVE LibraryInv'
  <2> DEFINE row == [created |-> IF pindex[x] # None THEN pindex[x].created ELSE begun + 1, v |-> begun + 1]
  <2>1. row \in PlateRows
    BY <1>1 DEF Vehicles, PlateRows
  <2>2. Starts(r, {x}, [pc |-> "plate save", on |-> {x}, id |-> x, row |-> row]) /\ UNCHANGED <<faces, plates>>
    BY <1>6 DEF AddPlate
  <2> HIDE DEF row
  <2> QED
    BY <1>5, <2>1, <2>2
<1>7. ASSUME NEW x \in Plates, UpdatePlate(r, x) PROVE LibraryInv'
  <2> DEFINE row == [pindex[x] EXCEPT !.v = begun + 1]
  <2>1. row \in PlateRows
    <3>1. pindex[x] \in PlateRows
      BY <1>1, <1>7 DEF UpdatePlate, Vehicles
    <3> QED
      BY <1>1, <3>1 DEF PlateRows
  <2>2. Starts(r, {x}, [pc |-> "plate save", on |-> {x}, id |-> x, row |-> row]) /\ UNCHANGED <<faces, plates>>
    BY <1>7 DEF UpdatePlate
  <2> HIDE DEF row
  <2> QED
    BY <1>5, <2>1, <2>2
<1>8. ASSUME NEW x \in Plates, DeletePlate(r, x) PROVE LibraryInv'
  <2> DEFINE rec == [pc |-> "plate pop", on |-> {x}, id |-> x]
  <2>1. /\ Starts(r, {x}, rec) /\ UNCHANGED <<rows, objs, index, feats, pindex>>
        /\ prows' = [prows EXCEPT ![x] = None]
    BY <1>8 DEF DeletePlate, faces
  <2>2. rec \in PopReqs /\ rec.on = {x} /\ rec.pc = "plate pop"
    BY DEF PopReqs
  <2> HIDE DEF rec
  <2>3. rec \in AnyReq
    BY <2>2 DEF AnyReq
  <2>4. /\ req[r] = Idle /\ req'[r] = rec /\ disturbed \subseteq disturbed'
        /\ \A q \in Requests \ {r} : req'[q] = req[q] /\ req[q].on \cap rec.on \subseteq disturbed'
        /\ begun' \in Nat /\ req' \in [Requests -> AnyReq]
    BY <1>1, <2>1, <2>2, <2>3, Starting
  <2>5. prows' \in Vehicles /\ prows'[x] = None /\ \A y \in Plates \ {x} : prows'[y] = prows[y]
    BY <1>1, <2>1 DEF Vehicles
  <2>6. LibraryTypes'
    BY <1>1, <2>1, <2>4, <2>5 DEF LibraryTypes
  <2>7. PlatePhase(rec, x, prows'[x], pindex'[x])
    BY <2>2, <2>5 DEF PlatePhase
  <2>8. \A y \in Plates \ disturbed' :
          /\ y \in req'[r].on => PlatePhase(req'[r], y, prows'[y], pindex'[y])
          /\ y \in req[r].on \ req'[r].on => pindex'[y] = prows'[y]
          /\ y \notin req[r].on \cup req'[r].on => prows'[y] = prows[y] /\ pindex'[y] = pindex[y]
    BY <1>2, <2>1, <2>2, <2>4, <2>5, <2>7
  <2>9. \A id \in Ids : id \notin req[r].on \cup req'[r].on
    BY <1>2, <1>4, <2>2, <2>4
  <2>10. \A q \in Requests \ {r} : req'[q] = req[q] /\ req[q].on \cap req'[r].on \subseteq disturbed'
    BY <2>4
  <2>11. Sole' /\ FacesFit' /\ PlatesFit'
    BY <1>1, <2>1, <2>4, <2>8, <2>9, <2>10, StepKeeps
  <2> QED
    BY <2>6, <2>11 DEF LibraryInv
<1>9. CASE PlateSave(r)
  <2> DEFINE n == [m EXCEPT !.pc = "plate index"]
  <2>1. /\ m.pc = "plate save" /\ req' = [req EXCEPT ![r] = n] /\ UNCHANGED <<faces, pindex, begun, disturbed>>
        /\ prows' = [prows EXCEPT ![m.id] = m.row]
    BY <1>9 DEF PlateSave, At, Goes, m
  <2>2. /\ m \in PlateReqs /\ m.on = {m.id} /\ m.id \in Plates /\ m.on \subseteq Plates /\ m.row \in PlateRows
    BY <1>3, <2>1 DEF PlatePcs
  <2>3. n \in AnyReq /\ n # Idle /\ n.pc = "plate index" /\ n.on = m.on /\ n.row = m.row
    BY <2>2, PlateKept DEF PlatePcs
  <2> HIDE DEF n
  <2>4. prows' \in Vehicles /\ prows'[m.id] = m.row /\ \A x \in Plates \ {m.id} : prows'[x] = prows[x]
    BY <1>1, <2>1, <2>2 DEF Vehicles
  <2>5. \A x \in Plates : x \in m.on => PlatePhase(n, x, prows'[x], pindex'[x])
    BY <2>2, <2>3, <2>4 DEF PlatePhase
  <2> QED
    BY <1>1, <2>1, <2>2, <2>3, <2>4, <2>5, PlateStep DEF m
<1>10. CASE PlateIndex(r)
  <2>1. /\ m.pc = "plate index" /\ req' = [req EXCEPT ![r] = Idle] /\ UNCHANGED <<faces, prows, begun, disturbed>>
        /\ pindex' = [pindex EXCEPT ![m.id] = m.row]
    BY <1>10 DEF PlateIndex, At, Ends, m
  <2>2. /\ m \in PlateReqs /\ m.on = {m.id} /\ m.id \in Plates /\ m.on \subseteq Plates /\ m.row \in PlateRows
    BY <1>3, <2>1 DEF PlatePcs
  <2>3. pindex' \in Vehicles /\ pindex'[m.id] = m.row /\ \A x \in Plates \ {m.id} : pindex'[x] = pindex[x]
    BY <1>1, <2>1, <2>2 DEF Vehicles
  <2>4. \A x \in Plates : x \in m.on /\ PlatePhase(m, x, prows[x], pindex[x]) => pindex'[x] = prows'[x]
    BY <2>1, <2>2, <2>3 DEF PlatePhase
  <2> QED
    BY <1>1, <2>1, <2>2, <2>3, <2>4, PlateStep DEF m, AnyReq
<1>11. CASE PlatePop(r)
  <2>1. /\ m.pc = "plate pop" /\ req' = [req EXCEPT ![r] = Idle] /\ UNCHANGED <<faces, prows, begun, disturbed>>
        /\ pindex' = [pindex EXCEPT ![m.id] = None]
    BY <1>11 DEF PlatePop, At, Ends, m
  <2>2. m \in PopReqs /\ m.on = {m.id} /\ m.id \in Plates /\ m.on \subseteq Plates
    BY <1>1, <2>1, Places DEF PopReqs, m
  <2>3. pindex' \in Vehicles /\ pindex'[m.id] = None /\ \A x \in Plates \ {m.id} : pindex'[x] = pindex[x]
    BY <1>1, <2>1, <2>2 DEF Vehicles
  <2>4. \A x \in Plates : x \in m.on /\ PlatePhase(m, x, prows[x], pindex[x]) => pindex'[x] = prows'[x]
    BY <2>1, <2>2, <2>3 DEF PlatePhase
  <2> QED
    BY <1>1, <2>1, <2>2, <2>3, <2>4, PlateStep DEF m, AnyReq
<1>12. CASE PlateFails(r)
  <2>1. /\ m.pc = "plate save" /\ req' = [req EXCEPT ![r] = Idle]
        /\ UNCHANGED <<faces, prows, pindex, begun>> /\ disturbed \subseteq disturbed'
    BY <1>12 DEF PlateFails, At, FailsAndEnds, Fault, plates, m
  <2>2. m.on \subseteq Plates
    BY <1>3, <2>1 DEF PlatePcs
  <2>3. \A x \in Plates : PlatePhase(m, x, prows[x], pindex[x]) => pindex'[x] = prows'[x]
    BY <2>1 DEF PlatePhase
  <2> QED
    BY <1>1, <2>1, <2>2, <2>3, PlateStep DEF m, AnyReq
<1>13. CASE ReloadPlates(r)
  <2> DEFINE rec == [pc |-> "plates reload", on |-> Plates, rows |-> prows]
  <2>1. Starts(r, Plates, rec) /\ UNCHANGED <<faces, plates>>
    BY <1>13 DEF ReloadPlates
  <2>2. rec \in ReloadPlatesReqs /\ rec.on = Plates /\ rec.pc = "plates reload" /\ rec.rows = prows
    BY <1>1 DEF ReloadPlatesReqs
  <2> HIDE DEF rec
  <2>3. rec \in AnyReq
    BY <2>2 DEF AnyReq
  <2>4. \A x \in Plates : PlatePhase(rec, x, prows[x], pindex[x])
    BY <2>2 DEF PlatePhase
  <2>5. \A id \in Ids : id \notin Plates
    BY Sets
  <2> QED
    BY <2>1, <2>2, <2>3, <2>4, <2>5, StartKeeps
<1>14. CASE ReloadPlatesSwap(r)
  <2>1. /\ m.pc = "plates reload" /\ req' = [req EXCEPT ![r] = Idle] /\ UNCHANGED <<faces, prows, begun, disturbed>>
        /\ pindex' = m.rows
    BY <1>14 DEF ReloadPlatesSwap, At, Ends, m
  <2>2. m.on = Plates /\ m.rows \in Vehicles
    BY <1>1, <2>1, Places DEF ReloadPlatesReqs, m
  <2>3. \A x \in Plates : PlatePhase(m, x, prows[x], pindex[x]) => pindex'[x] = prows'[x]
    BY <2>1 DEF PlatePhase
  <2> QED
    BY <1>1, <2>1, <2>2, <2>3, PlateStep DEF m, AnyReq
<1> QED
  BY <1>6, <1>7, <1>8, <1>9, <1>10, <1>11, <1>12, <1>13, <1>14

\* A restart loads both libraries.
LEMMA RestartKeeps == ASSUME LibraryInv, Restart PROVE LibraryInv'
<1>1. LibraryTypes
  BY DEF LibraryInv
<1>2. /\ req' = [r \in Requests |-> Idle] /\ rows' = MigratedRows /\ objs' = MigratedObjs
      /\ index' = rows' /\ feats' = Features(rows') /\ pindex' = prows /\ prows' = prows /\ begun' = begun
  BY DEF Restart, Fault
<1>3. Idle.on = {}
  BY DEF Idle
<1>4. PICK R \in Persons : R = MigratedRows
  BY <1>1, Migrated
<1>5. feats' = Features(R) /\ rows' = R /\ index' = R
  BY <1>2, <1>4
<1>6. /\ feats' \in FeatureSets
      /\ \A id \in Ids : FeatOf(feats', id) = IF R[id] = None THEN {} ELSE {R[id].feat}
  BY <1>5, FeaturesOf
<1>7. LibraryTypes'
  BY <1>1, <1>2, <1>5, <1>6, Migrated DEF LibraryTypes, AnyReq
<1>8. Sole' /\ PlatesFit'
  BY <1>2, <1>3 DEF Sole, PlatesFit
<1>9. FacesFit'
  BY <1>2, <1>3, <1>5, <1>6 DEF FacesFit, Agree
<1> QED
  BY <1>7, <1>8, <1>9 DEF LibraryInv

LEMMA LibraryStep == LibraryInv /\ [LibraryNext]_libraryVars => LibraryInv'
<1> SUFFICES ASSUME LibraryInv, [LibraryNext]_libraryVars PROVE LibraryInv'
  OBVIOUS
<1>1. CASE UNCHANGED libraryVars
  BY <1>1 DEF libraryVars, LibraryInv, LibraryTypes, Sole, FacesFit, PlatesFit, Busy
<1>2. CASE LibraryNext
  <2>1. ASSUME NEW r \in Requests, Steps(r) PROVE LibraryInv'
    BY <2>1, EnrollKeeps, UploadKeeps, UpdateKeeps, DeleteKeeps, DeletionFailsKeeps, ReloadKeeps, PlatesKeep
       DEF Steps
  <2> QED
    BY <1>2, <2>1, RestartKeeps, EnrollKeeps, DeleteKeeps, UpdateStarts, PlatesKeep DEF LibraryNext
<1> QED
  BY <1>1, <1>2

(* Whatever requests overlap, a library in memory agrees with Redis about   *)
(* every person and every plate that no request is about and that no race,  *)
(* no half-done request and no lost Redis connection has touched: the same  *)
(* rows, and the features of the row and no others, so that detection       *)
(* matches against what was enrolled.  For all persons, plates and requests.*)
THEOREM MemoryAgrees == LibrarySpec => []MemoryMatchesRedis
<1>1. LibraryInv => MemoryMatchesRedis
  <2> SUFFICES ASSUME LibraryInv PROVE MemoryMatchesRedis
    OBVIOUS
  <2>1. \A n : n \in Calm(Ids) => n \in Ids \ disturbed /\ ~Busy(n)
    BY DEF Calm, Busy
  <2>2. \A n : n \in Calm(Plates) => n \in Plates \ disturbed /\ ~Busy(n)
    BY DEF Calm, Busy
  <2>3. \A id \in Calm(Ids) : Agree(rows[id], index[id], FeatOf(feats, id))
    BY <2>1 DEF LibraryInv, FacesFit
  <2>4. \A x \in Calm(Plates) : pindex[x] = prows[x]
    BY <2>2 DEF LibraryInv, PlatesFit
  <2> QED
    BY <2>3, <2>4 DEF MemoryMatchesRedis, Agree, FeatOf
<1> QED
  BY <1>1, LibraryStarts, LibraryStep, PTL DEF LibrarySpec

(* Photos.  Where ids have object keys of their own, a row names the key of *)
(* its id, unless that was disturbed, and then the key of a disturbed id:   *)
(* so the photo of a name that nothing disturbed is its own.  A change of   *)
(* an id is disturbed under both names or under none (Whole).               *)
Distinct == \A i, j \in Ids : KeyOf[i] = KeyOf[j] => i = j

KeyIs(D, key, id) == key = KeyOf[id] \/ (id \in D /\ \E i \in D \cap Ids : key = KeyOf[i])
KeyedRows(D, R) == \A id \in Ids : R[id] # None => KeyIs(D, R[id].key, id)
KeyedReq(D, m) ==
  /\ m.pc \in EnrollPcs => m.row.key = KeyOf[m.id]
  /\ m.pc \in UpdatePcs => /\ KeyIs(D, m.old, m.id)
                           /\ KeyIs(D, m.row.key, IF m.pc = "update upload" THEN m.id ELSE m.new)
  /\ m.pc \in DeletePcs => KeyIs(D, m.row.key, m.id)
  /\ m.pc = "reload" => KeyedRows(D, m.rows)

Keyed ==
  /\ KeyedRows(disturbed, rows) /\ KeyedRows(disturbed, index)
  /\ \A r \in Requests : KeyedReq(disturbed, req[r])

Whole ==
  \A r \in Requests :
    req[r].pc \in UpdatePcs => req[r].on \subseteq disturbed \/ req[r].on \cap disturbed = {}

HasPhoto(row, ph) == ph = IF row = None THEN None ELSE row.feat
PhotoPhase(m, id, row, ph) ==
  /\ m.pc \in {"enroll upload", "reload"} => HasPhoto(row, ph)
  /\ m.pc \in {"enroll save", "enroll index"} => ph = m.row.feat
  /\ m.pc = "update upload" => HasPhoto(row, ph) /\ (id = m.id /\ ~m.photo => m.row.feat = row.feat)
  /\ m.pc \in {"update save", "update remove", "update clean", "update index"} =>
       (id = m.new => ph = m.row.feat) /\ (m.new # m.id => m.moved)
  /\ m.pc = "update index" => (id # m.new => ph = None)
  /\ m.pc \in {"delete row", "delete index"} => ph = None

PhotosFit ==
  \A id \in Ids \ disturbed :
    /\ ~Busy(id) => HasPhoto(rows[id], objs[KeyOf[id]])
    /\ \A r \in Requests : id \in req[r].on => PhotoPhase(req[r], id, rows[id], objs[KeyOf[id]])

PhotoInv == Whole /\ Keyed /\ PhotosFit

LEMMA OneKey ==
  ASSUME Distinct, NEW D, NEW i \in Ids, NEW k, KeyIs(D, k, i), NEW id \in Ids, id \notin D, k = KeyOf[id]
  PROVE  id = i
BY DEF Distinct, KeyIs

LEMMA StillKeyed ==
  ASSUME NEW D, NEW E, D \subseteq E
  PROVE  /\ \A k, id : KeyIs(D, k, id) => KeyIs(E, k, id)
         /\ \A R : KeyedRows(D, R) => KeyedRows(E, R)
         /\ \A m : KeyedReq(D, m) => KeyedReq(E, m)
<1>1. \A k, id : KeyIs(D, k, id) => KeyIs(E, k, id)
  BY DEF KeyIs
<1>2. \A R : KeyedRows(D, R) => KeyedRows(E, R)
  BY <1>1 DEF KeyedRows
<1>3. ASSUME NEW m, KeyedReq(D, m) PROVE KeyedReq(E, m)
  BY <1>1, <1>2, <1>3 DEF KeyedReq
<1> QED
  BY <1>1, <1>2, <1>3

\* What a name is disturbed by disturbs a change of an id as a whole.
LEMMA WholeStep ==
  ASSUME LibraryInv, Whole, NEW r \in Requests, NEW n, \A q \in Requests \ {r} : req'[q] = req[q], req'[r] = n,
         n.pc \in UpdatePcs => req[r].pc \in UpdatePcs /\ n.on = req[r].on,
         disturbed' = disturbed \/ disturbed' = disturbed \cup req[r].on
  PROVE  Whole'
<1>1. Sole
  BY DEF LibraryInv
<1>2. ASSUME NEW q \in Requests, q # r, req[q].pc \in UpdatePcs
      PROVE  req[q].on \subseteq disturbed' \/ req[q].on \cap disturbed' = {}
  BY <1>1, <1>2 DEF Whole, Sole
<1>3. n.pc \in UpdatePcs => n.on \subseteq disturbed' \/ n.on \cap disturbed' = {}
  BY DEF Whole
<1> QED
  BY <1>2, <1>3 DEF Whole

LEMMA WholeStart ==
  ASSUME LibraryInv, Whole, NEW r \in Requests, NEW on, NEW rec \in AnyReq, rec.on = on, Starts(r, on, rec)
  PROVE  Whole'
<1> DEFINE others == {q \in Requests \ {r} : req[q].on \cap on # {}}
           whole(m) == IF "id" \in DOMAIN m THEN m.on ELSE {}
           hit == on \cap (disturbed \cup UNION {req[q].on : q \in others})
           more == IF hit = {} THEN {} ELSE whole(rec) \cup UNION {whole(req[q]) : q \in others}
<1>1. /\ Sole /\ req \in [Requests -> AnyReq]
      /\ req'[r] = rec /\ \A q \in Requests \ {r} : req'[q] = req[q]
  BY Starting DEF LibraryInv, LibraryTypes
<1>2. disturbed' = disturbed \cup hit \cup more
  BY DEF Starts
<1>3. ASSUME NEW m \in AnyReq, m.pc \in UpdatePcs PROVE whole(m) = m.on
  <2>1. m \in UpdateReqs
    BY <1>3, Places
  <2> QED
    BY <2>1 DEF UpdateReqs
<1>4. \A m : whole(m) \subseteq m.on
  OBVIOUS
<1> HIDE DEF whole
<1>5. \A n : n \in hit => n \in on /\ (n \in disturbed \/ \E q \in others : n \in req[q].on)
  OBVIOUS
<1>6. \A n \in on : n \in disturbed => n \in hit
  OBVIOUS
<1>7. \A q \in others : req[q].on \cap on \subseteq hit
  OBVIOUS
<1>8. \A n : n \in more => hit # {} /\ (n \in whole(rec) \/ \E q \in others : n \in whole(req[q]))
  OBVIOUS
<1>9. hit # {} => whole(rec) \subseteq more /\ \A q \in others : whole(req[q]) \subseteq more
  OBVIOUS
<1>10. ASSUME rec.pc \in UpdatePcs PROVE on \subseteq disturbed' \/ on \cap disturbed' = {}
  <2>1. CASE hit = {}
    <3>1. disturbed' = disturbed
      BY <1>2, <2>1
    <3> QED
      BY <1>6, <2>1, <3>1
  <2>2. CASE hit # {}
    BY <1>2, <1>3, <1>9, <1>10, <2>2
  <2> QED
    BY <2>1, <2>2
<1>11. ASSUME NEW q \in Requests, q # r, req[q].pc \in UpdatePcs
       PROVE  req[q].on \subseteq disturbed' \/ req[q].on \cap disturbed' = {}
  <2>1. CASE q \in others
    <3>1. hit # {}
      BY <1>7, <2>1
    <3> QED
      BY <1>1, <1>2, <1>3, <1>9, <1>11, <2>1, <3>1
  <2>2. CASE q \notin others
    <3>1. req[q].on \cap on = {}
      BY <1>11, <2>2
    <3>2. \A n \in req[q].on : n \in disturbed' => n \in disturbed
      <4>1. \A p \in others : p # q /\ p \in Requests
        BY <2>2
      <4> QED
        BY <1>1, <1>2, <1>4, <1>5, <1>8, <3>1, <4>1 DEF Sole
    <3> QED
      BY <1>2, <1>11, <3>2 DEF Whole
  <2> QED
    BY <2>1, <2>2
<1> QED
  BY <1>1, <1>10, <1>11 DEF Whole

LEMMA KeyedStep ==
  ASSUME Keyed, NEW r \in Requests, \A q \in Requests \ {r} : req'[q] = req[q], disturbed \subseteq disturbed',
         KeyedRows(disturbed', rows'), KeyedRows(disturbed', index'), KeyedReq(disturbed', req'[r])
  PROVE  Keyed'
<1>1. PICK D, E : D = disturbed /\ E = disturbed'
  OBVIOUS
<1>2. \A m : KeyedReq(D, m) => KeyedReq(E, m)
  BY <1>1, StillKeyed
<1>3. \A q \in Requests \ {r} : KeyedReq(disturbed', req'[q])
  BY <1>1, <1>2 DEF Keyed
<1> QED
  BY <1>3 DEF Keyed

\* The step of one request, and its beginning.
LEMMA FitStep ==
  ASSUME Sole, PhotosFit, NEW r \in Requests, disturbed \subseteq disturbed',
         \A q \in Requests \ {r} : req'[q] = req[q] /\ req[q].on \cap req'[r].on \subseteq disturbed',
         \A id \in Ids \ disturbed' :
           /\ id \in req'[r].on => PhotoPhase(req'[r], id, rows'[id], objs'[KeyOf[id]])
           /\ id \in req[r].on \ req'[r].on => HasPhoto(rows'[id], objs'[KeyOf[id]])
           /\ id \notin req[r].on \cup req'[r].on => rows'[id] = rows[id] /\ objs'[KeyOf[id]] = objs[KeyOf[id]]
  PROVE  PhotosFit'
<1>1. \A n : Busy(n)' <=> n \in req'[r].on \/ \E q \in Requests \ {r} : n \in req[q].on
  BY DEF Busy
<1>2. \A n : Busy(n) <=> n \in req[r].on \/ \E q \in Requests \ {r} : n \in req[q].on
  BY DEF Busy
<1> SUFFICES ASSUME NEW id \in Ids, id \notin disturbed'
             PROVE  /\ ~Busy(id)' => HasPhoto(rows'[id], objs'[KeyOf[id]])
                    /\ \A q \in Requests : id \in req'[q].on => PhotoPhase(req'[q], id, rows'[id], objs'[KeyOf[id]])
  BY DEF PhotosFit
<1>3. CASE id \in req'[r].on
  BY <1>1, <1>3
<1>4. CASE id \notin req'[r].on /\ id \in req[r].on
  <2>1. \A q \in Requests \ {r} : id \notin req[q].on
    BY <1>4 DEF Sole
  <2> QED
    BY <1>4, <2>1
<1>5. CASE id \notin req'[r].on \cup req[r].on
  BY <1>1, <1>2, <1>5 DEF PhotosFit
<1> QED
  BY <1>3, <1>4, <1>5

LEMMA PhotoStep ==
  ASSUME LibraryInv, PhotoInv, NEW r \in Requests, NEW n, req' = [req EXCEPT ![r] = n],
         n = Idle \/ n.on = req[r].on, n.pc \in UpdatePcs => req[r].pc \in UpdatePcs,
         disturbed' = disturbed \/ disturbed' = disturbed \cup req[r].on,
         KeyedRows(disturbed', rows'), KeyedRows(disturbed', index'), KeyedReq(disturbed', n),
         \A id \in Ids \ disturbed' : id \notin req[r].on =>
           rows'[id] = rows[id] /\ objs'[KeyOf[id]] = objs[KeyOf[id]],
         \A id \in Ids \ disturbed' :
           id \in req[r].on /\ PhotoPhase(req[r], id, rows[id], objs[KeyOf[id]]) =>
             IF n = Idle THEN HasPhoto(rows'[id], objs'[KeyOf[id]])
             ELSE PhotoPhase(n, id, rows'[id], objs'[KeyOf[id]])
  PROVE  PhotoInv'
<1>1. /\ req'[r] = n /\ \A q \in Requests \ {r} : req'[q] = req[q]
      /\ disturbed \subseteq disturbed' /\ Sole /\ Whole /\ Keyed /\ PhotosFit
  BY DEF LibraryInv, LibraryTypes, PhotoInv
<1>2. Idle.on = {} /\ Idle.pc \notin UpdatePcs
  BY DEF Idle, UpdatePcs
<1>3. Whole'
  BY <1>1, <1>2, WholeStep
<1>4. Keyed'
  BY <1>1, KeyedStep
<1>5. n.on \subseteq req[r].on /\ (n # Idle => n.on = req[r].on)
  BY <1>2
<1>6. \A q \in Requests \ {r} : req'[q] = req[q] /\ req[q].on \cap req'[r].on \subseteq disturbed'
  BY <1>1, <1>5 DEF Sole
<1>7. ASSUME NEW id \in Ids \ disturbed'
      PROVE  /\ id \in n.on => PhotoPhase(n, id, rows'[id], objs'[KeyOf[id]])
             /\ id \in req[r].on \ n.on => HasPhoto(rows'[id], objs'[KeyOf[id]])
             /\ id \notin req[r].on \cup n.on => rows'[id] = rows[id] /\ objs'[KeyOf[id]] = objs[KeyOf[id]]
  <2>1. id \in req[r].on => PhotoPhase(req[r], id, rows[id], objs[KeyOf[id]])
    BY <1>1 DEF PhotosFit
  <2> QED
    BY <1>2, <1>5, <2>1
<1>8. PhotosFit'
  BY <1>1, <1>6, <1>7, FitStep
<1> QED
  BY <1>3, <1>4, <1>8 DEF PhotoInv

LEMMA PhotoStart ==
  ASSUME LibraryInv, PhotoInv, NEW r \in Requests, NEW on, NEW rec \in AnyReq, rec.on = on, Starts(r, on, rec),
         index' = index, KeyedRows(disturbed', rows'), KeyedReq(disturbed', rec),
         \A id \in Ids : id \notin on => rows'[id] = rows[id] /\ objs'[KeyOf[id]] = objs[KeyOf[id]],
         \A id \in Ids :
           id \in on /\ HasPhoto(rows[id], objs[KeyOf[id]]) /\ Agree(rows[id], index[id], FeatOf(feats, id))
             => PhotoPhase(rec, id, rows'[id], objs'[KeyOf[id]])
  PROVE  PhotoInv'
<1>1. LibraryTypes /\ Sole /\ FacesFit /\ Whole /\ Keyed /\ PhotosFit
  BY DEF LibraryInv, PhotoInv
<1>2. /\ req[r] = Idle /\ req'[r] = rec /\ disturbed \subseteq disturbed'
      /\ \A q \in Requests \ {r} : req'[q] = req[q] /\ req[q].on \cap on \subseteq disturbed'
      /\ \A n \in on \ disturbed' : ~Busy(n)
  BY <1>1, Starting
<1>3. Idle.on = {}
  BY DEF Idle
<1>4. Whole'
  BY <1>1, WholeStart
<1>5. KeyedRows(disturbed', index')
  <2>1. PICK D, E : D = disturbed /\ E = disturbed'
    OBVIOUS
  <2>2. \A R : KeyedRows(D, R) => KeyedRows(E, R)
    BY <1>2, <2>1, StillKeyed
  <2> QED
    BY <1>1, <2>1, <2>2 DEF Keyed
<1>6. Keyed'
  BY <1>1, <1>2, <1>5, KeyedStep
<1>7. \A q \in Requests \ {r} : req'[q] = req[q] /\ req[q].on \cap req'[r].on \subseteq disturbed'
  BY <1>2
<1>8. ASSUME NEW id \in Ids \ disturbed'
      PROVE  /\ id \in rec.on => PhotoPhase(rec, id, rows'[id], objs'[KeyOf[id]])
             /\ id \notin rec.on => rows'[id] = rows[id] /\ objs'[KeyOf[id]] = objs[KeyOf[id]]
  <2>1. id \in on => HasPhoto(rows[id], objs[KeyOf[id]]) /\ Agree(rows[id], index[id], FeatOf(feats, id))
    BY <1>1, <1>2 DEF PhotosFit, FacesFit
  <2> QED
    BY <2>1
<1>9. PhotosFit'
  BY <1>1, <1>2, <1>3, <1>7, <1>8, FitStep
<1> QED
  BY <1>4, <1>6, <1>9 DEF PhotoInv

LEMMA KeysStay ==
  ASSUME Keyed, disturbed \subseteq disturbed'
  PROVE  /\ KeyedRows(disturbed', rows) /\ KeyedRows(disturbed', index) /\ KeyedReq(disturbed', Idle)
         /\ \A r \in Requests : KeyedReq(disturbed', req[r])
<1>1. PICK D, E : D = disturbed /\ E = disturbed'
  OBVIOUS
<1>2. /\ \A R : KeyedRows(D, R) => KeyedRows(E, R)
      /\ \A m : KeyedReq(D, m) => KeyedReq(E, m)
  BY <1>1, StillKeyed
<1>3. KeyedReq(E, Idle)
  BY DEF KeyedReq, Idle, EnrollPcs, UpdatePcs, DeletePcs
<1> QED
  BY <1>1, <1>2, <1>3 DEF Keyed

LEMMA PhotosStart == ASSUME Distinct, LibraryInit PROVE PhotoInv
<1>1. PICK known \in Ids :
        /\ rows = [id \in Ids |-> IF id = known THEN [feat |-> 0, key |-> KeyOf[id], v |-> 0] ELSE None]
        /\ objs = [k \in Keys |-> IF k = KeyOf[known] THEN 0 ELSE None]
        /\ index = rows /\ req = [r \in Requests |-> Idle] /\ disturbed = {}
  BY DEF LibraryInit
<1>2. Idle.on = {} /\ Idle.pc = "idle"
  BY DEF Idle
<1>3. Whole
  BY <1>1, <1>2 DEF Whole
<1>4. \A id \in Ids : rows[id] # None => rows[id].key = KeyOf[id]
  BY <1>1
<1>5. Keyed
  BY <1>1, <1>2, <1>4 DEF Keyed, KeyedRows, KeyedReq, KeyIs, EnrollPcs, UpdatePcs, DeletePcs
<1>6. PhotosFit
  <2>1. ASSUME NEW id \in Ids PROVE HasPhoto(rows[id], objs[KeyOf[id]])
    <3>1. KeyOf[id] \in Keys /\ KeyOf[known] \in Keys
      BY Sets
    <3>2. CASE id = known
      <4>1. rows[id] \in FaceRows /\ rows[id].feat = 0
        BY <1>1, <3>1, <3>2 DEF FaceRows
      <4> QED
        BY <1>1, <3>1, <3>2, <4>1, NothingThere DEF HasPhoto
    <3>3. CASE id # known
      BY <1>1, <3>1, <3>3 DEF HasPhoto, Distinct
    <3> QED
      BY <3>2, <3>3
  <2> QED
    BY <1>1, <1>2, <2>1 DEF PhotosFit
<1> QED
  BY <1>3, <1>5, <1>6 DEF PhotoInv

\* One photo, or one row, is written or removed.
LEMMA OnePhoto ==
  ASSUME Distinct, objs \in [Keys -> Nat \cup {None}], NEW i \in Ids, NEW k \in Keys, KeyIs(disturbed, k, i),
         NEW x, objs' = [objs EXCEPT ![k] = x]
  PROVE  /\ \A id \in Ids \ disturbed : id # i => objs'[KeyOf[id]] = objs[KeyOf[id]]
         /\ i \notin disturbed => k = KeyOf[i] /\ objs'[KeyOf[i]] = x
<1>1. ASSUME NEW id \in Ids \ disturbed, id # i PROVE objs'[KeyOf[id]] = objs[KeyOf[id]]
  <2>1. KeyOf[id] # k
    BY <1>1, OneKey
  <2>2. KeyOf[id] \in Keys
    BY Sets
  <2> QED
    BY <2>1, <2>2
<1>2. ASSUME i \notin disturbed PROVE k = KeyOf[i] /\ objs'[KeyOf[i]] = x
  BY <1>2 DEF KeyIs
<1> QED
  BY <1>1, <1>2

LEMMA OneRow ==
  ASSUME NEW D, NEW R \in Persons, KeyedRows(D, R), NEW i \in Ids, NEW row, row # None => KeyIs(D, row.key, i),
         NEW S, S = [R EXCEPT ![i] = row]
  PROVE  KeyedRows(D, S)
<1>1. S[i] = row /\ \A id \in Ids : id # i => S[id] = R[id]
  BY DEF Persons
<1>2. ASSUME NEW id \in Ids, S[id] # None PROVE KeyIs(D, S[id].key, id)
  <2>1. CASE id = i
    BY <1>1, <1>2, <2>1
  <2>2. CASE id # i
    BY <1>1, <1>2, <2>2 DEF KeyedRows
  <2> QED
    BY <2>1, <2>2
<1> QED
  BY <1>2 DEF KeyedRows

LEMMA EnrollPhotos ==
  ASSUME Distinct, LibraryInv, PhotoInv, NEW r \in Requests,
         (\E id \in Ids : Enroll(r, id)) \/ EnrollUpload(r) \/ EnrollSave(r) \/ EnrollSaveFails(r) \/ EnrollIndex(r)
  PROVE  PhotoInv'
<1> DEFINE m == req[r]
<1>1. LibraryTypes /\ m \in AnyReq /\ FacesFit /\ Keyed
  BY DEF LibraryInv, LibraryTypes, PhotoInv
<1>2. /\ rows \in Persons /\ index \in Persons /\ objs \in [Keys -> Nat \cup {None}] /\ begun \in Nat
  BY <1>1 DEF LibraryTypes
<1>3. m.pc \in EnrollPcs =>
        /\ m \in EnrollReqs /\ m.on = {m.id} /\ m.id \in Ids /\ m.new = m.id /\ m.on \subseteq Ids
        /\ m.row \in FaceRows /\ m.row.feat \in Nat /\ m.row.key \in Keys /\ m.row.key = KeyOf[m.id]
  BY <1>1, Places DEF EnrollReqs, FaceRows, Keyed, KeyedReq
<1> HIDE DEF m
<1>4. ASSUME m.pc \in EnrollPcs, NEW pc \in EnrollPcs
      PROVE  LET n == [m EXCEPT !.pc = pc]
             IN n \in AnyReq /\ n # Idle /\ n.pc = pc /\ n.on = m.on /\ n.id = m.id /\ n.row = m.row
  BY <1>3, <1>4, EnrollKept
<1>5. KeyedRows(disturbed, rows) /\ KeyedRows(disturbed, index)
  BY <1>1 DEF Keyed
<1>6. ASSUME NEW i \in Ids, NEW x, objs' = [objs EXCEPT ![KeyOf[i]] = x]
       PROVE  /\ \A id \in Ids \ disturbed : id # i => objs'[KeyOf[id]] = objs[KeyOf[id]]
              /\ i \notin disturbed => objs'[KeyOf[i]] = x
  <2>1. PICK k \in Keys : k = KeyOf[i]
    BY Sets
  <2>2. objs' = [objs EXCEPT ![k] = x] /\ KeyIs(disturbed, k, i)
    BY <1>6, <2>1 DEF KeyIs
  <2> QED
    BY <1>2, <2>1, <2>2, OnePhoto
<1>7. ASSUME NEW id \in Ids, Enroll(r, id) PROVE PhotoInv'
  <2> DEFINE row == [feat |-> begun + 1, key |-> KeyOf[id], v |-> begun + 1]
             rec == [pc |-> "enroll upload", on |-> {id}, id |-> id, new |-> id, row |-> row]
  <2>1. /\ Starts(r, {id}, rec) /\ UNCHANGED <<rows, objs, index>>
    BY <1>7 DEF Enroll, faces
  <2>2. /\ rec \in EnrollReqs /\ rec.on = {id} /\ rec.pc = "enroll upload" /\ rec.id = id
        /\ rec.row.key = KeyOf[id]
    <3>1. row \in FaceRows /\ row.key = KeyOf[id]
      BY <1>2, Sets DEF FaceRows
    <3> HIDE DEF row
    <3> QED
      BY <3>1 DEF EnrollReqs, EnrollPcs
  <2> HIDE DEF rec
  <2>3. rec \in AnyReq
    BY <2>2 DEF AnyReq
  <2>4. disturbed \subseteq disturbed'
    BY <2>1 DEF Starts
  <2>5. KeyedRows(disturbed', rows') /\ KeyedReq(disturbed', rec)
    BY <1>1, <2>1, <2>2, <2>4, KeysStay DEF KeyedReq, UpdatePcs, DeletePcs
  <2>6. \A i \in Ids : HasPhoto(rows[i], objs[KeyOf[i]]) => PhotoPhase(rec, i, rows'[i], objs'[KeyOf[i]])
    BY <2>1, <2>2 DEF PhotoPhase
  <2> QED
    BY <2>1, <2>2, <2>3, <2>5, <2>6, PhotoStart
<1>8. CASE EnrollUpload(r)
  <2> DEFINE n == [m EXCEPT !.pc = "enroll save"]
  <2>1. /\ m.pc = "enroll upload" /\ req' = [req EXCEPT ![r] = n] /\ UNCHANGED <<rows, index, disturbed>>
        /\ objs' = [objs EXCEPT ![m.row.key] = m.row.feat]
    BY <1>8 DEF EnrollUpload, At, Goes, m
  <2>2. /\ n # Idle /\ n.pc = "enroll save" /\ n.on = m.on /\ n.id = m.id /\ n.row = m.row
        /\ m.on = {m.id} /\ m.id \in Ids /\ m.row.key = KeyOf[m.id] /\ m.row.key \in Keys
    BY <1>3, <1>4, <2>1 DEF EnrollPcs
  <2> HIDE DEF n
  <2>3. /\ \A id \in Ids \ disturbed : id \notin m.on => objs'[KeyOf[id]] = objs[KeyOf[id]]
        /\ m.id \notin disturbed => objs'[KeyOf[m.id]] = m.row.feat
    BY <1>2, <1>6, <2>1, <2>2
  <2>4. KeyedReq(disturbed', n)
    BY <2>2 DEF KeyedReq, UpdatePcs, DeletePcs
  <2>5. \A id \in Ids \ disturbed : id \in m.on => PhotoPhase(n, id, rows'[id], objs'[KeyOf[id]])
    BY <2>2, <2>3 DEF PhotoPhase
  <2> QED
    BY <1>5, <2>1, <2>2, <2>3, <2>4, <2>5, PhotoStep DEF m, UpdatePcs
<1>9. CASE EnrollSave(r)
  <2> DEFINE n == [m EXCEPT !.pc = "enroll index"]
  <2>1. /\ m.pc = "enroll save" /\ req' = [req EXCEPT ![r] = n] /\ UNCHANGED <<objs, index, disturbed>>
        /\ rows' = [rows EXCEPT ![m.id] = m.row]
    BY <1>9 DEF EnrollSave, At, Goes, m
  <2>2. /\ n # Idle /\ n.pc = "enroll index" /\ n.on = m.on /\ n.id = m.id /\ n.row = m.row
        /\ m.on = {m.id} /\ m.id \in Ids /\ m.row.key = KeyOf[m.id]
    BY <1>3, <1>4, <2>1 DEF EnrollPcs
  <2> HIDE DEF n
  <2>3. rows'[m.id] = m.row /\ \A id \in Ids : id # m.id => rows'[id] = rows[id]
    BY <1>2, <2>1, <2>2 DEF Persons
  <2>4. KeyedReq(disturbed', n) /\ KeyedRows(disturbed', rows')
    <3>1. KeyedReq(disturbed', n)
      BY <2>2 DEF KeyedReq, UpdatePcs, DeletePcs
    <3>2. PICK R \in Persons : R = rows
      BY <1>2
    <3>3. PICK D, S : D = disturbed /\ S = rows'
      OBVIOUS
    <3>4. KeyIs(D, m.row.key, m.id) /\ S = [R EXCEPT ![m.id] = m.row] /\ KeyedRows(D, R)
      BY <1>5, <2>1, <2>2, <3>2, <3>3 DEF KeyIs
    <3> QED
      BY <2>1, <2>2, <3>1, <3>2, <3>3, <3>4, OneRow
  <2>5. \A id \in Ids : PhotoPhase(m, id, rows[id], objs[KeyOf[id]]) => PhotoPhase(n, id, rows'[id], objs'[KeyOf[id]])
    BY <2>1, <2>2 DEF PhotoPhase
  <2> QED
    BY <1>5, <2>1, <2>2, <2>3, <2>4, <2>5, PhotoStep DEF m, UpdatePcs
<1>10. CASE EnrollSaveFails(r)
  <2>1. /\ m.pc = "enroll save" /\ req' = [req EXCEPT ![r] = Idle] /\ UNCHANGED <<rows, index>>
        /\ disturbed' = disturbed /\ objs' = [objs EXCEPT ![m.row.key] = None]
    BY <1>10 DEF EnrollSaveFails, At, FailsAndEnds, m
  <2>2. m.on = {m.id} /\ m.id \in Ids /\ m.row.key = KeyOf[m.id] /\ m.row.key \in Keys
    BY <1>3, <2>1 DEF EnrollPcs
  <2>3. /\ \A id \in Ids \ disturbed : id \notin m.on => objs'[KeyOf[id]] = objs[KeyOf[id]]
        /\ m.id \notin disturbed => objs'[KeyOf[m.id]] = None
    BY <1>2, <1>6, <2>1, <2>2
  <2>4. \A id \in Ids \ disturbed : id \in m.on => rows[id] = None
    BY <1>1, <2>1 DEF FacesFit, Phase, m
  <2>5. \A id \in Ids \ disturbed : id \in m.on => HasPhoto(rows'[id], objs'[KeyOf[id]])
    BY <2>1, <2>2, <2>3, <2>4 DEF HasPhoto
  <2>6. KeyedReq(disturbed', Idle) /\ Idle.pc = "idle"
    BY <1>1, <2>1, KeysStay DEF Idle
  <2> QED
    BY <1>5, <2>1, <2>3, <2>5, <2>6, PhotoStep DEF m, UpdatePcs
<1>11. CASE EnrollIndex(r)
  <2>1. /\ m.pc = "enroll index" /\ req' = [req EXCEPT ![r] = Idle] /\ UNCHANGED <<rows, disturbed>>
        /\ IF index[m.id] # None THEN objs' = [objs EXCEPT ![m.row.key] = None] /\ UNCHANGED index
           ELSE index' = [index EXCEPT ![m.id] = m.row] /\ objs' = objs
    BY <1>11 DEF EnrollIndex, At, Ends, m
  <2>2. m.on = {m.id} /\ m.id \in Ids /\ m.row.key = KeyOf[m.id] /\ m.row.key \in Keys /\ m.row \in FaceRows
    BY <1>3, <2>1 DEF EnrollPcs
  <2>3. KeyedRows(disturbed', index')
    <3>1. PICK R \in Persons : R = index
      BY <1>2
    <3>2. PICK D, S : D = disturbed /\ S = index'
      OBVIOUS
    <3>3. /\ KeyIs(D, m.row.key, m.id) /\ KeyedRows(D, R)
          /\ S = R \/ S = [R EXCEPT ![m.id] = m.row]
      BY <1>5, <2>1, <2>2, <3>1, <3>2 DEF KeyIs
    <3> QED
      BY <2>1, <2>2, <3>1, <3>2, <3>3, OneRow
  <2>4. \A id \in Ids \ disturbed : id \notin m.on => objs'[KeyOf[id]] = objs[KeyOf[id]]
    <3>1. CASE index[m.id] # None
      <4>1. objs' = [objs EXCEPT ![KeyOf[m.id]] = None]
        BY <2>1, <2>2, <3>1
      <4> QED
        BY <1>6, <2>2, <4>1
    <3> QED
      BY <2>1, <3>1
  <2>5. \A id \in Ids \ disturbed : id \in m.on => rows[id] = m.row /\ index[id] = None
    BY <1>1, <2>1 DEF FacesFit, Phase, m
  <2>6. \A id \in Ids \ disturbed : id \in m.on /\ PhotoPhase(m, id, rows[id], objs[KeyOf[id]])
          => HasPhoto(rows'[id], objs'[KeyOf[id]])
    BY <2>1, <2>2, <2>5, NothingThere DEF HasPhoto, PhotoPhase
  <2>7. KeyedReq(disturbed', Idle) /\ Idle.pc = "idle"
    BY <1>1, <2>1, KeysStay DEF Idle
  <2> QED
    BY <1>5, <2>1, <2>3, <2>4, <2>6, <2>7, PhotoStep DEF m, UpdatePcs
<1> QED
  BY <1>7, <1>8, <1>9, <1>10, <1>11

\* The change of a person begins.
LEMMA UpdatePhotoStarts ==
  ASSUME LibraryInv, PhotoInv, NEW r \in Requests, NEW id \in Ids, NEW new \in Ids, NEW photo \in BOOLEAN,
         Update(r, id, new, photo)
  PROVE  PhotoInv'
<1> DEFINE row == [index[id] EXCEPT !.v = begun + 1, !.feat = IF photo THEN begun + 1 ELSE @]
           rec == [pc |-> IF photo \/ new # id THEN "update upload" ELSE "update save",
                   on |-> {id, new}, id |-> id, new |-> new, row |-> row, old |-> row.key,
                   photo |-> photo, moved |-> FALSE]
<1>1. /\ index[id] # None /\ Starts(r, {id, new}, rec) /\ UNCHANGED <<rows, objs, index>>
  BY DEF Update, faces
<1>2. row \in FaceRows /\ row.key \in Keys /\ row.key = index[id].key /\ (~photo => row.feat = index[id].feat)
  <2>1. PICK old \in FaceRows, b \in Nat : old = index[id] /\ b = begun
    BY <1>1 DEF LibraryInv, LibraryTypes, Persons
  <2> DEFINE f == IF photo THEN b + 1 ELSE old.feat
  <2>2. f \in Nat /\ (~photo => f = old.feat)
    BY <2>1 DEF FaceRows
  <2>3. row = [old EXCEPT !.v = b + 1, !.feat = f]
    BY <2>1 DEF FaceRows
  <2> DEFINE v == b + 1
  <2>4. v \in Nat /\ row = [old EXCEPT !.v = v, !.feat = f]
    BY <2>3
  <2> HIDE DEF f, row, v
  <2>5. row \in FaceRows /\ row.key = old.key /\ row.feat = f
    BY <2>2, <2>4 DEF FaceRows
  <2> QED
    BY <2>1, <2>2, <2>5 DEF FaceRows
<1> HIDE DEF row
<1>3. /\ rec \in UpdateReqs /\ rec.on = {id, new} /\ rec.id = id /\ rec.new = new /\ rec.row = row
      /\ rec.old = row.key /\ rec.photo = photo
      /\ rec.pc = "update upload" \/ (rec.pc = "update save" /\ new = id /\ ~photo)
  <2>1. (IF photo \/ new # id THEN "update upload" ELSE "update save") \in {"update upload", "update save"}
    OBVIOUS
  <2> QED
    BY <1>2, <2>1 DEF UpdateReqs, UpdatePcs
<1> HIDE DEF rec
<1>4. rec \in AnyReq
  BY <1>3 DEF AnyReq
<1>5. disturbed \subseteq disturbed'
  BY <1>1 DEF Starts
<1>6. /\ KeyedRows(disturbed', rows') /\ KeyIs(disturbed', row.key, id)
  BY <1>1, <1>2, <1>5, KeysStay DEF PhotoInv, KeyedRows
<1>7. KeyedReq(disturbed', rec)
  BY <1>3, <1>6 DEF KeyedReq, EnrollPcs, DeletePcs
<1>8. \A i \in Ids : i \in {id, new} /\ HasPhoto(rows[i], objs[KeyOf[i]]) /\ Agree(rows[i], index[i], FeatOf(feats, i))
                       => PhotoPhase(rec, i, rows'[i], objs'[KeyOf[i]])
  BY <1>1, <1>2, <1>3 DEF PhotoPhase, HasPhoto, Agree
<1> QED
  BY <1>1, <1>3, <1>4, <1>6, <1>7, <1>8, PhotoStart

\* The photo that is uploaded is the one of the features, where nothing is disturbed.
LEMMA OwnPhoto ==
  ASSUME LibraryInv, PhotoInv, NEW r \in Requests, req[r].pc = "update upload", req[r].id \notin disturbed
  PROVE  /\ ~req[r].photo => PhotoBytes(req[r].id) = req[r].row.feat
         /\ req[r].row.feat # None
<1> DEFINE m == req[r]
<1>1. /\ m.on = {m.id, m.new} /\ m.id \in Ids /\ m.row.feat \in Nat
      /\ rows \in Persons /\ index \in Persons
  BY UpdateHolds DEF UpdatePcs
<1> HIDE DEF m
<1>2. /\ Agree(rows[m.id], index[m.id], FeatOf(feats, m.id)) /\ rows[m.id] # None
  BY <1>1 DEF LibraryInv, FacesFit, Phase, m
<1>3. HasPhoto(rows[m.id], objs[KeyOf[m.id]]) /\ (~m.photo => m.row.feat = rows[m.id].feat)
  BY <1>1 DEF PhotoInv, PhotosFit, PhotoPhase, m
<1>4. index[m.id] = rows[m.id] /\ index[m.id].key = KeyOf[m.id]
  BY <1>1, <1>2 DEF PhotoInv, Keyed, KeyedRows, KeyIs, Agree, m
<1> QED
  BY <1>1, <1>2, <1>3, <1>4, NothingThere DEF PhotoBytes, HasPhoto, m

LEMMA UploadPhotos ==
  ASSUME Distinct, LibraryInv, PhotoInv, NEW r \in Requests, UpdateUpload(r) \/ UploadFails(r)
  PROVE  PhotoInv'
<1> DEFINE m == req[r]
<1>1. LibraryTypes /\ m \in AnyReq /\ objs \in [Keys -> Nat \cup {None}] /\ Keyed /\ Whole
  BY DEF LibraryInv, LibraryTypes, PhotoInv
<1>2. CASE UpdateUpload(r)
  <2> DEFINE k == KeyOf[m.new]
             photo == IF m.photo THEN m.row.feat ELSE PhotoBytes(m.id)
             row == [m.row EXCEPT !.key = k]
             moved == [m EXCEPT !.pc = "update save", !.row = row, !.moved = TRUE]
             stays == [m EXCEPT !.pc = "update save"]
  <2>1. m.pc = "update upload" /\ m.pc \in UpdatePcs /\ UNCHANGED <<rows, index, disturbed>>
    BY <1>2 DEF UpdateUpload, At, UpdatePcs
  <2>2. /\ m \in UpdateReqs /\ m.on = {m.id, m.new} /\ m.id \in Ids /\ m.new \in Ids /\ k \in Keys
    BY <2>1, UpdateHolds, Sets
  <2>3. m.id \notin disturbed => photo = m.row.feat /\ photo # None
    BY <2>1, OwnPhoto
  <2>4. KeyIs(disturbed, m.old, m.id) /\ KeyIs(disturbed, m.row.key, m.id)
    BY <1>1, <2>1 DEF Keyed, KeyedReq
  <2>5. m.id \in disturbed \/ m.new \in disturbed => m.id \in disturbed /\ m.new \in disturbed
    BY <1>1, <2>1, <2>2 DEF Whole
  <2>6. row \in FaceRows /\ row.key = k /\ row.feat = m.row.feat
    BY <2>2 DEF UpdateReqs, FaceRows
  <2>7. KeyedRows(disturbed', rows') /\ KeyedRows(disturbed', index')
    BY <1>1, <2>1 DEF Keyed
  <2>8. photo # None => objs' = [objs EXCEPT ![k] = photo] /\ req' = [req EXCEPT ![r] = moved]
    BY <1>2, <2>2 DEF UpdateUpload, UpdateReqs
  <2>9. photo = None => objs' = objs /\ req' = [req EXCEPT ![r] = stays]
    BY <1>2 DEF UpdateUpload
  <2> HIDE DEF m, k, photo, row
  <2>10. CASE photo # None
    <3>1. /\ moved # Idle /\ moved.pc = "update save" /\ moved.on = m.on /\ moved.id = m.id /\ moved.new = m.new
          /\ moved.row = row /\ moved.old = m.old /\ moved.moved = TRUE
      BY <2>2, <2>6, Moved
    <3> HIDE DEF moved
    <3>2. KeyedReq(disturbed', moved)
      BY <2>1, <2>4, <2>6, <3>1 DEF KeyedReq, KeyIs, EnrollPcs, DeletePcs, k
    <3>3. /\ \A id \in Ids \ disturbed : id # m.new => objs'[KeyOf[id]] = objs[KeyOf[id]]
          /\ m.new \notin disturbed => objs'[KeyOf[m.new]] = photo
      <4>1. KeyIs(disturbed, k, m.new)
        BY DEF KeyIs, k
      <4> QED
        BY <1>1, <2>2, <2>8, <2>10, <4>1, OnePhoto
    <3>4. \A id \in Ids \ disturbed : id \in m.on => PhotoPhase(moved, id, rows'[id], objs'[KeyOf[id]])
      BY <2>2, <2>3, <2>5, <2>6, <3>1, <3>3 DEF PhotoPhase
    <3>5. \A id \in Ids \ disturbed : id \notin m.on => rows'[id] = rows[id] /\ objs'[KeyOf[id]] = objs[KeyOf[id]]
      BY <2>1, <2>2, <3>3
    <3> QED
      BY <2>1, <2>7, <2>8, <2>10, <3>1, <3>2, <3>4, <3>5, PhotoStep DEF m
  <2>11. CASE photo = None
    <3>1. /\ stays # Idle /\ stays.pc = "update save" /\ stays.on = m.on /\ stays.id = m.id /\ stays.new = m.new
          /\ stays.row = m.row /\ stays.old = m.old
      BY <2>2, UpdateKept DEF UpdatePcs
    <3> HIDE DEF stays
    <3>2. m.id \in disturbed /\ m.new \in disturbed
      BY <2>3, <2>5, <2>11
    <3>3. KeyedReq(disturbed', stays)
      BY <2>1, <2>2, <2>4, <3>1, <3>2 DEF KeyedReq, KeyIs, EnrollPcs, DeletePcs
    <3>4. \A id \in Ids \ disturbed : id \notin m.on
      BY <2>2, <3>2
    <3> QED
      BY <2>1, <2>7, <2>9, <2>11, <3>1, <3>3, <3>4, PhotoStep DEF m
  <2> QED
    BY <2>10, <2>11
<1>3. CASE UploadFails(r)
  <2>1. /\ m.pc \in {"enroll upload", "update upload"} /\ req' = [req EXCEPT ![r] = Idle]
        /\ UNCHANGED <<rows, objs, index, disturbed>>
    BY <1>3 DEF UploadFails, FailsAndEnds, faces
  <2> HIDE DEF m
  <2>2. KeyedRows(disturbed', rows') /\ KeyedRows(disturbed', index') /\ KeyedReq(disturbed', Idle)
    BY <1>1, <2>1, KeysStay
  <2>3. \A id \in Ids : PhotoPhase(m, id, rows[id], objs[KeyOf[id]]) => HasPhoto(rows'[id], objs'[KeyOf[id]])
    BY <2>1 DEF PhotoPhase
  <2>4. Idle.pc = "idle"
    BY DEF Idle
  <2> QED
    BY <2>1, <2>2, <2>3, <2>4, PhotoStep DEF m, UpdatePcs
<1> QED
  BY <1>2, <1>3

LEMMA UpdatePhotos ==
  ASSUME Distinct, LibraryInv, PhotoInv, NEW r \in Requests,
         UpdateSave(r) \/ UpdateSaveFails(r) \/ UpdateRemove(r) \/ UpdateClean(r) \/ UpdateIndex(r)
  PROVE  PhotoInv'
<1> DEFINE m == req[r]
<1>1. m.pc \in UpdatePcs
  BY DEF UpdateSave, UpdateSaveFails, UpdateRemove, UpdateClean, UpdateIndex, At, UpdatePcs
<1>2. /\ m \in UpdateReqs /\ m.on = {m.id, m.new} /\ m.id \in Ids /\ m.new \in Ids /\ m.row \in FaceRows
      /\ m.old \in Keys /\ (m.pc = "update remove" => m.id # m.new)
      /\ rows \in Persons /\ index \in Persons /\ objs \in [Keys -> Nat \cup {None}]
  BY <1>1, UpdateHolds
<1>3. /\ KeyedRows(disturbed, rows) /\ KeyedRows(disturbed, index)
      /\ KeyIs(disturbed, m.old, m.id) /\ (m.pc # "update upload" => KeyIs(disturbed, m.row.key, m.new))
  BY <1>1 DEF PhotoInv, Keyed, KeyedReq
<1>4. m.id \in disturbed \/ m.new \in disturbed => m.id \in disturbed /\ m.new \in disturbed
  BY <1>1, <1>2 DEF PhotoInv, Whole
<1> HIDE DEF m
<1>5. ASSUME NEW pc \in UpdatePcs, pc = "update remove" => m.id # m.new
      PROVE  LET n == [m EXCEPT !.pc = pc]
             IN /\ n # Idle /\ n.pc = pc /\ n.on = m.on /\ n.id = m.id /\ n.new = m.new
                /\ n.row = m.row /\ n.old = m.old /\ n.moved = m.moved
  BY <1>2, <1>5, UpdateKept
<1>6. ASSUME NEW n, n.pc \in UpdatePcs \ {"update upload"}, m.pc # "update upload", disturbed' = disturbed,
             n.id = m.id, n.new = m.new, n.row = m.row, n.old = m.old
      PROVE  KeyedReq(disturbed', n)
  BY <1>3, <1>6 DEF KeyedReq, EnrollPcs, UpdatePcs, DeletePcs
<1>7. Idle.pc = "idle"
  BY DEF Idle
<1>8. CASE UpdateSave(r)
  <2> DEFINE pc == IF m.new # m.id THEN "update remove" ELSE "update clean"
             n == [m EXCEPT !.pc = pc]
  <2>1. /\ m.pc = "update save" /\ req' = [req EXCEPT ![r] = n] /\ UNCHANGED <<objs, index, disturbed>>
        /\ rows' = [rows EXCEPT ![m.new] = m.row]
    BY <1>8 DEF UpdateSave, At, Goes, m
  <2>2. pc \in UpdatePcs \ {"update upload"} /\ (pc = "update remove" => m.id # m.new)
    BY DEF UpdatePcs
  <2>3. pc = "update remove" \/ pc = "update clean"
    OBVIOUS
  <2> HIDE DEF pc
  <2>4. /\ n # Idle /\ n.pc = pc /\ n.on = m.on /\ n.id = m.id /\ n.new = m.new
        /\ n.row = m.row /\ n.old = m.old /\ n.moved = m.moved
    BY <1>5, <2>2
  <2> HIDE DEF n
  <2>5. rows'[m.new] = m.row /\ \A id \in Ids : id # m.new => rows'[id] = rows[id]
    BY <1>2, <2>1 DEF Persons
  <2>6. KeyedReq(disturbed', n)
    BY <1>6, <2>1, <2>2, <2>4
  <2>7. KeyedRows(disturbed', rows')
    BY <1>3, <2>1, <2>5 DEF KeyedRows
  <2>8. \A id \in Ids : PhotoPhase(m, id, rows[id], objs[KeyOf[id]]) => PhotoPhase(n, id, rows'[id], objs'[KeyOf[id]])
    BY <2>1, <2>3, <2>4 DEF PhotoPhase
  <2>9. \A id \in Ids : id \notin m.on => rows'[id] = rows[id] /\ objs'[KeyOf[id]] = objs[KeyOf[id]]
    BY <1>2, <2>1, <2>5
  <2>10. KeyedRows(disturbed', index')
    BY <1>3, <2>1
  <2>11. (n = Idle \/ n.on = req[r].on) /\ (n.pc \in UpdatePcs => req[r].pc \in UpdatePcs)
    BY <2>1, <2>4 DEF m, UpdatePcs
  <2>12. /\ req' = [req EXCEPT ![r] = n] /\ LibraryInv /\ PhotoInv
         /\ (disturbed' = disturbed \/ disturbed' = disturbed \cup req[r].on)
    BY <1>1, <2>1 DEF m
  <2> QED
    BY <2>4, <2>6, <2>7, <2>8, <2>9, <2>10, <2>11, <2>12, PhotoStep DEF m
<1>9. CASE UpdateSaveFails(r)
  <2>1. /\ req' = [req EXCEPT ![r] = Idle] /\ UNCHANGED <<rows, objs, index>> /\ disturbed' = disturbed \cup m.on
    BY <1>9 DEF UpdateSaveFails, FailsAndEnds, faces, m
  <2>2. KeyedRows(disturbed', rows') /\ KeyedRows(disturbed', index') /\ KeyedReq(disturbed', Idle)
    BY <2>1, KeysStay DEF PhotoInv
  <2> QED
    BY <1>7, <2>1, <2>2, PhotoStep DEF m, UpdatePcs
<1>10. CASE UpdateRemove(r)
  <2> DEFINE n == [m EXCEPT !.pc = "update clean"]
  <2>1. /\ m.pc = "update remove" /\ req' = [req EXCEPT ![r] = n] /\ UNCHANGED <<objs, index, disturbed>>
        /\ rows' = [rows EXCEPT ![m.id] = None]
    BY <1>10 DEF UpdateRemove, At, Goes, m
  <2>2. /\ n # Idle /\ n.pc = "update clean" /\ n.on = m.on /\ n.id = m.id /\ n.new = m.new
        /\ n.row = m.row /\ n.old = m.old /\ n.moved = m.moved
    BY <1>5 DEF UpdatePcs
  <2> HIDE DEF n
  <2>3. rows'[m.id] = None /\ \A id \in Ids : id # m.id => rows'[id] = rows[id]
    BY <1>2, <2>1 DEF Persons
  <2>4. KeyedReq(disturbed', n)
    BY <1>6, <2>1, <2>2 DEF UpdatePcs
  <2>5. KeyedRows(disturbed', rows')
    BY <1>3, <2>1, <2>3 DEF KeyedRows
  <2>6. \A id \in Ids : PhotoPhase(m, id, rows[id], objs[KeyOf[id]]) => PhotoPhase(n, id, rows'[id], objs'[KeyOf[id]])
    BY <2>1, <2>2 DEF PhotoPhase
  <2>7. \A id \in Ids : id \notin m.on => rows'[id] = rows[id] /\ objs'[KeyOf[id]] = objs[KeyOf[id]]
    BY <1>2, <2>1, <2>3
  <2>8. KeyedRows(disturbed', index')
    BY <1>3, <2>1
  <2>9. (n = Idle \/ n.on = req[r].on) /\ (n.pc \in UpdatePcs => req[r].pc \in UpdatePcs)
    BY <2>1, <2>2 DEF m, UpdatePcs
  <2>10. /\ req' = [req EXCEPT ![r] = n] /\ LibraryInv /\ PhotoInv
         /\ (disturbed' = disturbed \/ disturbed' = disturbed \cup req[r].on)
    BY <1>1, <2>1 DEF m
  <2> QED
    BY <2>2, <2>4, <2>5, <2>6, <2>7, <2>8, <2>9, <2>10, PhotoStep DEF m
<1>11. CASE UpdateClean(r)
  <2> DEFINE n == [m EXCEPT !.pc = "update index"]
  <2>1. /\ m.pc = "update clean" /\ req' = [req EXCEPT ![r] = n] /\ UNCHANGED <<rows, index, disturbed>>
        /\ objs' = IF m.moved /\ m.old # m.row.key THEN [objs EXCEPT ![m.old] = None] ELSE objs
    BY <1>11 DEF UpdateClean, At, Goes, m
  <2>2. /\ n # Idle /\ n.pc = "update index" /\ n.on = m.on /\ n.id = m.id /\ n.new = m.new
        /\ n.row = m.row /\ n.old = m.old /\ n.moved = m.moved
    BY <1>5 DEF UpdatePcs
  <2> HIDE DEF n
  <2>3. KeyedReq(disturbed', n)
    BY <1>6, <2>1, <2>2 DEF UpdatePcs
  <2>4. m.moved /\ m.old # m.row.key =>
          /\ \A id \in Ids \ disturbed : id # m.id => objs'[KeyOf[id]] = objs[KeyOf[id]]
          /\ m.id \notin disturbed => m.old = KeyOf[m.id] /\ objs'[KeyOf[m.id]] = None
    BY <1>2, <1>3, <2>1, OnePhoto
  <2>5. m.id \notin disturbed => /\ m.old = KeyOf[m.id] /\ m.row.key = KeyOf[m.new]
                                 /\ (m.old = m.row.key <=> m.id = m.new)
    BY <1>2, <1>3, <1>4, <2>1 DEF KeyIs, Distinct
  <2>6. ASSUME NEW id \in Ids \ disturbed, id \in m.on, PhotoPhase(m, id, rows[id], objs[KeyOf[id]])
        PROVE  PhotoPhase(n, id, rows'[id], objs'[KeyOf[id]])
    <3>1. /\ id = m.new => objs[KeyOf[id]] = m.row.feat
          /\ m.new # m.id => m.moved
      BY <2>1, <2>6 DEF PhotoPhase
    <3>2. m.id \notin disturbed
      BY <1>2, <1>4, <2>6
    <3>3. id = m.new => objs'[KeyOf[id]] = m.row.feat
      BY <2>1, <2>4, <2>5, <3>1, <3>2
    <3>4. id # m.new => objs'[KeyOf[id]] = None
      BY <1>2, <2>4, <2>5, <2>6, <3>1, <3>2
    <3> QED
      BY <2>2, <3>1, <3>3, <3>4 DEF PhotoPhase
  <2>7. \A id \in Ids \ disturbed : id \notin m.on => rows'[id] = rows[id] /\ objs'[KeyOf[id]] = objs[KeyOf[id]]
    BY <1>2, <2>1, <2>4
  <2> QED
    BY <1>1, <1>3, <2>1, <2>2, <2>3, <2>6, <2>7, PhotoStep DEF m
<1>12. CASE UpdateIndex(r)
  <2>1. /\ m.pc = "update index" /\ req' = [req EXCEPT ![r] = Idle] /\ UNCHANGED <<rows, objs, disturbed>>
        /\ index' = [index EXCEPT ![m.id] = None, ![m.new] = m.row]
    BY <1>12 DEF UpdateIndex, At, Ends, m
  <2>2. /\ index'[m.new] = m.row /\ (m.id # m.new => index'[m.id] = None)
        /\ \A id \in Ids \ {m.id, m.new} : index'[id] = index[id]
    BY <1>2, <2>1 DEF Persons
  <2>3. KeyedRows(disturbed', index')
    BY <1>3, <2>1, <2>2 DEF KeyedRows
  <2>4. KeyedReq(disturbed', Idle)
    BY <2>1, KeysStay DEF PhotoInv
  <2>5. \A id \in Ids \ disturbed : id \in m.on => rows[id] = IF id = m.new THEN m.row ELSE None
    BY <1>1, <2>1 DEF LibraryInv, FacesFit, Phase, m
  <2>6. \A id \in Ids \ disturbed : id \in m.on /\ PhotoPhase(m, id, rows[id], objs[KeyOf[id]])
          => HasPhoto(rows'[id], objs'[KeyOf[id]])
    BY <1>2, <2>1, <2>5, NothingThere DEF HasPhoto, PhotoPhase
  <2> QED
    BY <1>3, <1>7, <2>1, <2>3, <2>4, <2>6, PhotoStep DEF m, UpdatePcs
<1> QED
  BY <1>8, <1>9, <1>10, <1>11, <1>12

LEMMA DeletePhotos ==
  ASSUME Distinct, LibraryInv, PhotoInv, NEW r \in Requests,
         (\E id \in Ids : Delete(r, id)) \/ DeletePhoto(r) \/ DeleteRow(r) \/ DeleteIndex(r)
  PROVE  PhotoInv'
<1> DEFINE m == req[r]
<1>1. LibraryTypes /\ m \in AnyReq /\ FacesFit
  BY DEF LibraryInv, LibraryTypes
<1>2. /\ rows \in Persons /\ index \in Persons /\ objs \in [Keys -> Nat \cup {None}]
  BY <1>1 DEF LibraryTypes
<1>3. m.pc \in DeletePcs => /\ m \in DeleteReqs /\ m.on = {m.id} /\ m.id \in Ids
                            /\ m.row.key \in Keys /\ KeyIs(disturbed, m.row.key, m.id)
  BY <1>1, Places DEF DeleteReqs, FaceRows, PhotoInv, Keyed, KeyedReq
<1>4. KeyedRows(disturbed, rows) /\ KeyedRows(disturbed, index)
  BY DEF PhotoInv, Keyed
<1> HIDE DEF m
<1>5. ASSUME m.pc \in DeletePcs, NEW pc \in DeletePcs, disturbed' = disturbed
      PROVE  LET n == [m EXCEPT !.pc = pc]
             IN n # Idle /\ n.pc = pc /\ n.on = m.on /\ n.id = m.id /\ KeyedReq(disturbed', n)
  <2> DEFINE n == [m EXCEPT !.pc = pc]
  <2>1. n # Idle /\ n.pc = pc /\ n.on = m.on /\ n.id = m.id /\ n.row = m.row
    BY <1>3, <1>5, DeleteKept
  <2> HIDE DEF n
  <2>2. KeyedReq(disturbed', n)
    BY <1>3, <1>5, <2>1 DEF KeyedReq, EnrollPcs, UpdatePcs, DeletePcs
  <2> QED
    BY <2>1, <2>2 DEF n
<1>6. ASSUME NEW id \in Ids, Delete(r, id) PROVE PhotoInv'
  <2> DEFINE row == IF index[id] # None THEN index[id] ELSE rows[id]
             rec == [pc |-> "delete photo", on |-> {id}, id |-> id, row |-> row]
  <2>1. /\ index[id] # None \/ rows[id] # None
        /\ Starts(r, {id}, rec) /\ UNCHANGED <<rows, objs, index>>
    BY <1>6 DEF Delete, faces
  <2>2. disturbed \subseteq disturbed'
    BY <2>1 DEF Starts
  <2>3. KeyedRows(disturbed', rows) /\ KeyedRows(disturbed', index)
    BY <2>2, KeysStay DEF PhotoInv
  <2>4. row \in FaceRows /\ KeyIs(disturbed', row.key, id)
    BY <1>2, <2>1, <2>3 DEF Persons, KeyedRows
  <2> HIDE DEF row
  <2>5. rec \in DeleteReqs /\ rec.on = {id} /\ rec.pc = "delete photo" /\ rec.id = id /\ rec.row = row
    BY <2>4 DEF DeleteReqs, DeletePcs
  <2> HIDE DEF rec
  <2>6. rec \in AnyReq
    BY <2>5 DEF AnyReq
  <2>7. KeyedReq(disturbed', rec)
    BY <2>4, <2>5 DEF KeyedReq, EnrollPcs, UpdatePcs
  <2>8. \A i \in Ids : PhotoPhase(rec, i, rows'[i], objs'[KeyOf[i]])
    BY <2>5 DEF PhotoPhase
  <2> QED
    BY <2>1, <2>3, <2>5, <2>6, <2>7, <2>8, PhotoStart
<1>7. CASE DeletePhoto(r)
  <2> DEFINE n == [m EXCEPT !.pc = "delete row"]
  <2>1. /\ m.pc = "delete photo" /\ req' = [req EXCEPT ![r] = n] /\ UNCHANGED <<rows, index, disturbed>>
        /\ objs' = [objs EXCEPT ![m.row.key] = None]
    BY <1>7 DEF DeletePhoto, At, Goes, m
  <2>2. m.pc \in DeletePcs /\ n # Idle /\ n.pc = "delete row" /\ n.on = m.on /\ KeyedReq(disturbed', n)
    BY <1>5, <2>1 DEF DeletePcs
  <2> HIDE DEF n
  <2>3. /\ \A id \in Ids \ disturbed : id # m.id => objs'[KeyOf[id]] = objs[KeyOf[id]]
        /\ m.id \notin disturbed => objs'[KeyOf[m.id]] = None
    BY <1>2, <1>3, <2>1, <2>2, OnePhoto
  <2>4. \A id \in Ids \ disturbed : id \in m.on => PhotoPhase(n, id, rows'[id], objs'[KeyOf[id]])
    BY <1>3, <2>2, <2>3 DEF PhotoPhase
  <2>5. \A id \in Ids \ disturbed : id \notin m.on => rows'[id] = rows[id] /\ objs'[KeyOf[id]] = objs[KeyOf[id]]
    BY <1>3, <2>1, <2>2, <2>3
  <2> QED
    BY <1>4, <2>1, <2>2, <2>4, <2>5, PhotoStep DEF m, UpdatePcs
<1>8. CASE DeleteRow(r)
  <2> DEFINE n == [m EXCEPT !.pc = "delete index"]
  <2>1. /\ m.pc = "delete row" /\ req' = [req EXCEPT ![r] = n] /\ UNCHANGED <<objs, index, disturbed>>
        /\ rows' = [rows EXCEPT ![m.id] = None]
    BY <1>8 DEF DeleteRow, At, Goes, m
  <2>2. m.pc \in DeletePcs /\ n # Idle /\ n.pc = "delete index" /\ n.on = m.on /\ KeyedReq(disturbed', n)
    BY <1>5, <2>1 DEF DeletePcs
  <2> HIDE DEF n
  <2>3. rows'[m.id] = None /\ \A id \in Ids : id # m.id => rows'[id] = rows[id]
    BY <1>2, <1>3, <2>1, <2>2 DEF Persons
  <2>4. KeyedRows(disturbed', rows')
    BY <1>4, <2>1, <2>3 DEF KeyedRows
  <2>5. \A id \in Ids : PhotoPhase(m, id, rows[id], objs[KeyOf[id]]) => PhotoPhase(n, id, rows'[id], objs'[KeyOf[id]])
    BY <2>1, <2>2 DEF PhotoPhase
  <2>6. \A id \in Ids : id \notin m.on => rows'[id] = rows[id] /\ objs'[KeyOf[id]] = objs[KeyOf[id]]
    BY <1>3, <2>1, <2>2, <2>3
  <2> QED
    BY <1>4, <2>1, <2>2, <2>4, <2>5, <2>6, PhotoStep DEF m, UpdatePcs
<1>9. CASE DeleteIndex(r)
  <2>1. /\ m.pc = "delete index" /\ req' = [req EXCEPT ![r] = Idle] /\ UNCHANGED <<rows, objs, disturbed>>
        /\ index' = [index EXCEPT ![m.id] = None]
    BY <1>9 DEF DeleteIndex, At, Ends, m
  <2>2. m.id \in Ids /\ m.on = {m.id}
    BY <1>3, <2>1 DEF DeletePcs
  <2>3. index'[m.id] = None /\ \A id \in Ids : id # m.id => index'[id] = index[id]
    BY <1>2, <2>1, <2>2 DEF Persons
  <2>4. KeyedRows(disturbed', index')
    BY <1>4, <2>1, <2>3 DEF KeyedRows
  <2>5. \A id \in Ids \ disturbed : id \in m.on => rows[id] = None
    BY <1>1, <2>1 DEF FacesFit, Phase, m
  <2>6. \A id \in Ids \ disturbed : id \in m.on /\ PhotoPhase(m, id, rows[id], objs[KeyOf[id]])
          => HasPhoto(rows'[id], objs'[KeyOf[id]])
    BY <2>1, <2>5 DEF HasPhoto, PhotoPhase
  <2>7. KeyedReq(disturbed', Idle) /\ Idle.pc = "idle"
    BY <2>1, KeysStay DEF PhotoInv, Idle
  <2> QED
    BY <1>4, <2>1, <2>4, <2>6, <2>7, PhotoStep DEF m, UpdatePcs
<1> QED
  BY <1>6, <1>7, <1>8, <1>9

LEMMA DeletionFailsPhotos == ASSUME LibraryInv, PhotoInv, NEW r \in Requests, DeletionFails(r) PROVE PhotoInv'
<1> DEFINE m == req[r]
<1>1. m \in AnyReq
  BY DEF LibraryInv, LibraryTypes
<1>2. UNCHANGED <<rows, objs, index>> /\ disturbed' = disturbed \cup m.on
  BY DEF DeletionFails, FailsAndGoes, faces
<1>3. PICK pc : /\ req' = [req EXCEPT ![r] = [m EXCEPT !.pc = pc]]
                /\ \/ m.pc \in UpdatePcs \ {"update upload"} /\ pc \in {"update clean", "update index"}
                   \/ m.pc \in DeletePcs /\ pc \in DeletePcs
  BY DEF DeletionFails, FailsAndGoes, At, UpdatePcs, DeletePcs
<1>4. PICK n : n = [m EXCEPT !.pc = pc]
  OBVIOUS
<1>5. /\ KeyedRows(disturbed', rows') /\ KeyedRows(disturbed', index') /\ KeyedReq(disturbed', m)
  BY <1>2, KeysStay DEF PhotoInv
<1>6. n.on = m.on /\ (n.pc \in UpdatePcs => m.pc \in UpdatePcs) /\ KeyedReq(disturbed', n)
  <2> HIDE DEF m
  <2>1. CASE m.pc \in UpdatePcs \ {"update upload"} /\ pc \in {"update clean", "update index"}
    <3>1. m \in UpdateReqs /\ pc \in UpdatePcs /\ pc # "update remove"
      BY <1>1, <2>1, Places DEF UpdatePcs
    <3>2. /\ n.pc = pc /\ n.on = m.on /\ n.id = m.id /\ n.new = m.new /\ n.row = m.row /\ n.old = m.old
      BY <1>4, <3>1, UpdateKept
    <3> QED
      BY <1>5, <2>1, <3>2 DEF KeyedReq, EnrollPcs, UpdatePcs, DeletePcs
  <2>2. CASE m.pc \in DeletePcs /\ pc \in DeletePcs
    <3>1. m \in DeleteReqs
      BY <1>1, <2>2, Places
    <3>2. n.pc = pc /\ n.on = m.on /\ n.id = m.id /\ n.row = m.row
      BY <1>4, <2>2, <3>1, DeleteKept
    <3> QED
      BY <1>5, <2>2, <3>2 DEF KeyedReq, EnrollPcs, UpdatePcs, DeletePcs
  <2> QED
    BY <1>3, <2>1, <2>2
<1> QED
  BY <1>2, <1>3, <1>4, <1>5, <1>6, PhotoStep

\* A migration gives a person of the old directory the row and the photo at once.
LEMMA MigratedPhotos ==
  ASSUME Distinct, LibraryTypes, KeyedRows(disturbed, rows)
  PROVE  /\ KeyedRows(disturbed, MigratedRows)
         /\ \A id \in Ids : HasPhoto(rows[id], objs[KeyOf[id]]) => HasPhoto(MigratedRows[id], MigratedObjs[KeyOf[id]])
<1>1. ASSUME NEW id \in Ids
      PROVE  MigratedRows[id] = IF Migrates /\ id \in Legacy THEN [feat |-> 0, key |-> KeyOf[id], v |-> 0] ELSE rows[id]
  BY DEF MigratedRows
<1>2. ASSUME NEW id \in Ids
      PROVE  MigratedObjs[KeyOf[id]] = IF Migrates /\ id \in Legacy THEN 0 ELSE objs[KeyOf[id]]
  <2>1. KeyOf[id] \in Keys /\ (KeyOf[id] \in {KeyOf[i] : i \in Legacy} <=> id \in Legacy)
    BY Sets DEF Distinct
  <2> QED
    BY <2>1 DEF MigratedObjs
<1>3. \A id \in Ids : [feat |-> 0, key |-> KeyOf[id], v |-> 0] # None
  <2>1. \A id \in Ids : [feat |-> 0, key |-> KeyOf[id], v |-> 0] \in FaceRows
    BY Sets DEF FaceRows
  <2> QED
    BY <2>1, NothingThere
<1>4. ASSUME NEW id \in Ids, MigratedRows[id] # None PROVE KeyIs(disturbed, MigratedRows[id].key, id)
  <2>1. CASE Migrates /\ id \in Legacy
    <3>1. MigratedRows[id] = [feat |-> 0, key |-> KeyOf[id], v |-> 0]
      BY <2>1 DEF MigratedRows
    <3>2. MigratedRows[id].key = KeyOf[id]
      BY <3>1
    <3> QED
      BY <3>2 DEF KeyIs
  <2>2. CASE ~(Migrates /\ id \in Legacy)
    <3>1. MigratedRows[id] = rows[id]
      BY <1>1, <2>2
    <3> QED
      BY <1>4, <3>1 DEF KeyedRows
  <2> QED
    BY <2>1, <2>2
<1>5. ASSUME NEW id \in Ids, HasPhoto(rows[id], objs[KeyOf[id]])
      PROVE  HasPhoto(MigratedRows[id], MigratedObjs[KeyOf[id]])
  <2>1. CASE Migrates /\ id \in Legacy
    <3>1. MigratedRows[id] = [feat |-> 0, key |-> KeyOf[id], v |-> 0]
      BY <2>1 DEF MigratedRows
    <3>2. MigratedRows[id] # None /\ MigratedRows[id].feat = 0
      BY <1>3, <3>1
    <3>3. MigratedObjs[KeyOf[id]] = 0
      BY <1>2, <2>1
    <3> QED
      BY <3>2, <3>3 DEF HasPhoto
  <2>2. CASE ~(Migrates /\ id \in Legacy)
    <3>1. MigratedRows[id] = rows[id] /\ MigratedObjs[KeyOf[id]] = objs[KeyOf[id]]
      BY <1>1, <1>2, <2>2
    <3> QED
      BY <1>5, <3>1
  <2> QED
    BY <2>1, <2>2
<1> QED
  BY <1>4, <1>5 DEF KeyedRows

LEMMA ReloadPhotos ==
  ASSUME Distinct, LibraryInv, PhotoInv, NEW r \in Requests, Reload(r) \/ ReloadSwap(r) \/ ReloadDisconnected(r)
  PROVE  PhotoInv'
<1> DEFINE m == req[r]
<1>1. LibraryTypes /\ m \in AnyReq /\ Whole /\ Keyed /\ PhotosFit
  BY DEF LibraryInv, LibraryTypes, PhotoInv
<1>2. CASE Reload(r)
  <2> DEFINE rec == [pc |-> "reload", on |-> Ids, rows |-> MigratedRows]
  <2>1. Starts(r, Ids, rec) /\ rows' = MigratedRows /\ objs' = MigratedObjs /\ index' = index
    BY <1>2 DEF Reload
  <2>2. disturbed \subseteq disturbed'
    BY <2>1 DEF Starts
  <2>3. rec \in ReloadReqs /\ rec.on = Ids /\ rec.pc = "reload" /\ rec.rows = MigratedRows
    BY <1>1, Migrated DEF ReloadReqs
  <2> HIDE DEF rec
  <2>4. rec \in AnyReq
    BY <2>3 DEF AnyReq
  <2>5. KeyedRows(disturbed, MigratedRows)
    BY <1>1, MigratedPhotos DEF Keyed
  <2>6. KeyedRows(disturbed', rows')
    <3>1. PICK D, E : D = disturbed /\ E = disturbed'
      OBVIOUS
    <3>2. \A R : KeyedRows(D, R) => KeyedRows(E, R)
      BY <2>2, <3>1, StillKeyed
    <3> QED
      BY <2>1, <2>5, <3>1, <3>2
  <2>7. KeyedReq(disturbed', rec)
    BY <2>1, <2>3, <2>6 DEF KeyedReq, EnrollPcs, UpdatePcs, DeletePcs
  <2>8. \A id \in Ids : HasPhoto(rows[id], objs[KeyOf[id]]) => PhotoPhase(rec, id, rows'[id], objs'[KeyOf[id]])
    BY <1>1, <2>1, <2>3, MigratedPhotos DEF PhotoPhase, Keyed
  <2> QED
    BY <2>1, <2>3, <2>4, <2>6, <2>7, <2>8, PhotoStart
<1>3. CASE ReloadSwap(r)
  <2>1. /\ m.pc = "reload" /\ req' = [req EXCEPT ![r] = Idle] /\ UNCHANGED <<rows, objs, disturbed>>
        /\ index' = m.rows
    BY <1>3 DEF ReloadSwap, At, Ends
  <2>2. KeyedRows(disturbed', index') /\ KeyedRows(disturbed', rows')
    BY <1>1, <2>1 DEF Keyed, KeyedReq
  <2> HIDE DEF m
  <2>3. \A id \in Ids : PhotoPhase(m, id, rows[id], objs[KeyOf[id]]) => HasPhoto(rows'[id], objs'[KeyOf[id]])
    BY <2>1 DEF PhotoPhase
  <2>4. KeyedReq(disturbed', Idle) /\ Idle.pc = "idle"
    BY <1>1, <2>1, KeysStay DEF Idle
  <2> QED
    BY <2>1, <2>2, <2>3, <2>4, PhotoStep DEF m, UpdatePcs
<1>4. CASE ReloadDisconnected(r)
  <2>1. /\ m.pc = "idle" /\ req' = [req EXCEPT ![r] = Idle] /\ disturbed' = disturbed \cup Ids
        /\ UNCHANGED <<rows, objs>> /\ index' = [id \in Ids |-> None]
    BY <1>4 DEF ReloadDisconnected, At, FailsAndEnds
  <2>2. m = Idle
    BY <1>1, <2>1, Places
  <2>3. req' = req
    BY <1>1, <2>1, <2>2 DEF LibraryTypes
  <2>4. KeyedRows(disturbed', rows') /\ \A q \in Requests : KeyedReq(disturbed', req[q])
    BY <1>1, <2>1, KeysStay
  <2>5. KeyedRows(disturbed', index')
    BY <2>1 DEF KeyedRows
  <2>6. ASSUME NEW q \in Requests, req[q].pc \in UpdatePcs PROVE req[q].on \subseteq disturbed'
    <3>1. req[q].on \subseteq Ids
      BY <2>6, UpdateHolds
    <3> QED
      BY <2>1, <3>1
  <2>7. Whole' /\ Keyed' /\ PhotosFit'
    BY <2>1, <2>3, <2>4, <2>5, <2>6 DEF Whole, Keyed, PhotosFit
  <2> QED
    BY <2>7 DEF PhotoInv
<1> QED
  BY <1>2, <1>3, <1>4

\* Plates have no photos.
LEMMA PlatePhotos ==
  ASSUME LibraryInv, PhotoInv, NEW r \in Requests,
         \/ \E x \in Plates : AddPlate(r, x) \/ UpdatePlate(r, x) \/ DeletePlate(r, x)
         \/ PlateSave(r) \/ PlateIndex(r) \/ PlatePop(r) \/ PlateFails(r)
         \/ ReloadPlates(r) \/ ReloadPlatesSwap(r)
  PROVE  PhotoInv'
<1> DEFINE m == req[r]
           PlatePlaces == PlatePcs \cup {"plate pop", "plates reload"}
<1>1. LibraryTypes /\ m \in AnyReq /\ Sole /\ Whole /\ Keyed /\ PhotosFit
  BY DEF LibraryInv, LibraryTypes, PhotoInv
<1>2. \A x \in Plates : x \notin Ids
  BY Sets
<1>3. UNCHANGED <<rows, objs, index>>
  BY DEF AddPlate, UpdatePlate, DeletePlate, PlateSave, PlateIndex, PlatePop, PlateFails, ReloadPlates,
         ReloadPlatesSwap, faces
<1>4. PlatePlaces \cap (EnrollPcs \cup UpdatePcs \cup DeletePcs \cup {"reload"}) = {}
  BY DEF PlatePcs, EnrollPcs, UpdatePcs, DeletePcs
<1>5. \A n : n.pc \in PlatePlaces => KeyedReq(disturbed', n)
  BY <1>4 DEF KeyedReq
<1>6. LibraryInv'
  BY PlatesKeep
<1>7. ASSUME NEW on, NEW rec, rec.on = on, rec.pc \in PlatePlaces, on \subseteq Plates, Starts(r, on, rec)
      PROVE  PhotoInv'
  <2>1. req'[r] = rec /\ disturbed \subseteq disturbed'
    BY <1>1, <1>7, Starting
  <2>2. rec \in AnyReq
    BY <1>6, <2>1 DEF LibraryInv, LibraryTypes
  <2>3. KeyedRows(disturbed', rows')
    BY <1>1, <1>3, <2>1, KeysStay
  <2>4. KeyedReq(disturbed', rec)
    BY <1>5, <1>7
  <2>5. \A id \in Ids : id \notin on
    BY <1>2, <1>7
  <2> HIDE DEF PlatePlaces
  <2> QED
    BY <1>3, <1>7, <2>2, <2>3, <2>4, <2>5, PhotoStart
<1>8. ASSUME NEW x \in Plates, AddPlate(r, x) \/ UpdatePlate(r, x) \/ DeletePlate(r, x) PROVE PhotoInv'
  <2>1. ASSUME NEW row, Starts(r, {x}, [pc |-> "plate save", on |-> {x}, id |-> x, row |-> row]) PROVE PhotoInv'
    <3> DEFINE rec == [pc |-> "plate save", on |-> {x}, id |-> x, row |-> row]
    <3>1. Starts(r, {x}, rec) /\ rec.on = {x} /\ rec.pc \in PlatePlaces
      BY <2>1 DEF PlatePcs
    <3> HIDE DEF rec
    <3> QED
      BY <1>7, <3>1
  <2>2. CASE AddPlate(r, x)
    BY <2>1, <2>2 DEF AddPlate
  <2>3. CASE UpdatePlate(r, x)
    BY <2>1, <2>3 DEF UpdatePlate
  <2>4. CASE DeletePlate(r, x)
    <3> DEFINE rec == [pc |-> "plate pop", on |-> {x}, id |-> x]
    <3>1. Starts(r, {x}, rec) /\ rec.on = {x} /\ rec.pc \in PlatePlaces
      BY <2>4 DEF DeletePlate
    <3> HIDE DEF rec
    <3> QED
      BY <1>7, <3>1
  <2> QED
    BY <1>8, <2>2, <2>3, <2>4
<1>9. CASE ReloadPlates(r)
  <2> DEFINE rec == [pc |-> "plates reload", on |-> Plates, rows |-> prows]
  <2>1. Starts(r, Plates, rec) /\ rec.on = Plates /\ rec.pc \in PlatePlaces
    BY <1>9 DEF ReloadPlates
  <2> HIDE DEF rec
  <2> QED
    BY <1>7, <2>1
<1>10. ASSUME NEW n, req' = [req EXCEPT ![r] = n], n = Idle \/ n.on = m.on, n.pc \in PlatePlaces \cup {"idle"},
              m.pc \in PlatePlaces, disturbed' = disturbed \/ disturbed' = disturbed \cup m.on
       PROVE  PhotoInv'
  <2>1. disturbed \subseteq disturbed'
    BY <1>10
  <2>2. m.on \subseteq Plates
    BY <1>1, <1>10, Places DEF PlatePcs, PlateReqs, PopReqs, ReloadPlatesReqs
  <2>3. KeyedRows(disturbed', rows') /\ KeyedRows(disturbed', index')
    BY <1>1, <1>3, <2>1, KeysStay
  <2>4. KeyedReq(disturbed', n)
    <3>1. n.pc = "idle" => KeyedReq(disturbed', n)
      BY DEF KeyedReq, EnrollPcs, UpdatePcs, DeletePcs
    <3> QED
      BY <1>5, <1>10, <3>1
  <2>5. n.pc \notin UpdatePcs
    BY <1>4, <1>10 DEF UpdatePcs
  <2>6. \A id \in Ids : id \notin m.on
    BY <1>2, <2>2
  <2> HIDE DEF PlatePlaces
  <2> QED
    BY <1>3, <1>10, <2>3, <2>4, <2>5, <2>6, PhotoStep DEF m
<1>11. CASE PlateSave(r)
  <2> DEFINE n == [m EXCEPT !.pc = "plate index"]
  <2>1. m.pc = "plate save" /\ req' = [req EXCEPT ![r] = n] /\ disturbed' = disturbed
    BY <1>11 DEF PlateSave, At, Goes
  <2>2. m \in PlateReqs
    BY <1>1, <2>1, Places DEF PlatePcs
  <2> HIDE DEF m
  <2>3. n.pc = "plate index" /\ n.on = m.on
    BY <2>2, PlateKept DEF PlatePcs
  <2> HIDE DEF n
  <2> QED
    BY <1>10, <2>1, <2>3 DEF PlatePcs
<1>12. CASE PlateIndex(r) \/ PlatePop(r) \/ PlateFails(r) \/ ReloadPlatesSwap(r)
  <2>1. m.pc \in PlatePlaces /\ req' = [req EXCEPT ![r] = Idle] /\ disturbed' = disturbed
    BY <1>12 DEF PlateIndex, PlatePop, PlateFails, ReloadPlatesSwap, At, Ends, FailsAndEnds, PlatePcs
  <2>2. Idle.pc = "idle"
    BY DEF Idle
  <2> QED
    BY <1>10, <2>1, <2>2
<1> QED
  BY <1>8, <1>9, <1>11, <1>12

\* A restart ends the requests; a reload among them changed nothing yet but what it migrated.
LEMMA RestartPhotos == ASSUME Distinct, LibraryInv, PhotoInv, Restart PROVE PhotoInv'
<1>1. LibraryTypes /\ Keyed /\ PhotosFit
  BY DEF LibraryInv, PhotoInv
<1>2. /\ req' = [r \in Requests |-> Idle] /\ rows' = MigratedRows /\ objs' = MigratedObjs /\ index' = MigratedRows
      /\ disturbed' = disturbed \cup UNION {req[r].on : r \in {q \in Requests : "id" \in DOMAIN req[q]}}
  BY DEF Restart
<1>3. Idle.on = {} /\ Idle.pc = "idle"
  BY DEF Idle
<1>4. disturbed \subseteq disturbed'
  BY <1>2
<1>5. KeyedRows(disturbed, MigratedRows)
  BY <1>1, MigratedPhotos DEF Keyed
<1>6. KeyedRows(disturbed', rows') /\ KeyedRows(disturbed', index')
  <2>1. PICK D, E : D = disturbed /\ E = disturbed'
    OBVIOUS
  <2>2. \A R : KeyedRows(D, R) => KeyedRows(E, R)
    BY <1>4, <2>1, StillKeyed
  <2> QED
    BY <1>2, <1>5, <2>1, <2>2
<1>7. Whole' /\ Keyed'
  BY <1>1, <1>2, <1>3, <1>4, <1>6, KeysStay DEF Whole, Keyed, UpdatePcs
<1>8. ASSUME NEW id \in Ids \ disturbed' PROVE HasPhoto(rows[id], objs[KeyOf[id]])
  <2>1. CASE ~Busy(id)
    BY <1>1, <1>4, <2>1 DEF PhotosFit
  <2>2. ASSUME NEW r \in Requests, id \in req[r].on PROVE HasPhoto(rows[id], objs[KeyOf[id]])
    <3>1. "id" \notin DOMAIN req[r]
      BY <1>2, <1>8, <2>2
    <3>2. req[r] \in AnyReq /\ id \notin Plates
      BY <1>1, Sets DEF LibraryTypes
    <3>3. req[r] \notin EnrollReqs /\ req[r] \notin UpdateReqs /\ req[r] \notin DeleteReqs
      BY <3>1 DEF EnrollReqs, UpdateReqs, DeleteReqs
    <3>4. req[r] \notin PlateReqs /\ req[r] \notin PopReqs /\ req[r] \notin ReloadPlatesReqs /\ req[r] # Idle
      BY <1>3, <2>2, <3>2 DEF PlateReqs, PopReqs, ReloadPlatesReqs
    <3>5. req[r].pc = "reload"
      BY <3>2, <3>3, <3>4 DEF AnyReq, ReloadReqs
    <3> QED
      BY <1>1, <1>4, <1>8, <2>2, <3>5 DEF PhotosFit, PhotoPhase
  <2> QED
    BY <2>1, <2>2 DEF Busy
<1>9. PhotosFit'
  BY <1>1, <1>2, <1>3, <1>8, MigratedPhotos DEF PhotosFit, Keyed
<1> QED
  BY <1>7, <1>9 DEF PhotoInv

LEMMA PhotoNext == ASSUME Distinct PROVE LibraryInv /\ PhotoInv /\ [LibraryNext]_libraryVars => PhotoInv'
<1> SUFFICES ASSUME LibraryInv, PhotoInv, [LibraryNext]_libraryVars PROVE PhotoInv'
  OBVIOUS
<1>1. CASE UNCHANGED libraryVars
  BY <1>1 DEF libraryVars, PhotoInv, Whole, Keyed, PhotosFit, Busy
<1>2. CASE LibraryNext
  <2>1. ASSUME NEW r \in Requests, Steps(r) PROVE PhotoInv'
    BY <2>1, EnrollPhotos, UploadPhotos, UpdatePhotos, DeletePhotos, DeletionFailsPhotos, ReloadPhotos, PlatePhotos
       DEF Steps
  <2> QED
    BY <1>2, <2>1, RestartPhotos, EnrollPhotos, DeletePhotos, UpdatePhotoStarts, PlatePhotos DEF LibraryNext
<1> QED
  BY <1>1, <1>2

(* Where no two ids share an object key, a person that no request is about  *)
(* and nothing has disturbed has the photo the features in the row were     *)
(* taken from; and what is in the store under the key of a person who is    *)
(* not enrolled is named by a row.  Without Distinct it is false: ids with  *)
(* no ASCII letter or digit have one key (object_storage.py:21), and a      *)
(* second enrolment replaces the photo of the first.                        *)
THEOREM PhotosAreTheirs == ASSUME Distinct PROVE LibrarySpec => []PhotoIsTheirs
<1>1. LibraryInv /\ PhotoInv => PhotoIsTheirs
  <2> SUFFICES ASSUME LibraryInv, PhotoInv, NEW id \in Calm(Ids)
               PROVE  IF rows[id] # None THEN objs[rows[id].key] = rows[id].feat ELSE objs[KeyOf[id]] = None
    BY DEF PhotoIsTheirs
  <2>1. id \in Ids \ disturbed /\ ~Busy(id)
    BY DEF Calm, Busy
  <2>2. HasPhoto(rows[id], objs[KeyOf[id]])
    BY <2>1 DEF PhotoInv, PhotosFit
  <2>3. rows[id] # None => rows[id].key = KeyOf[id]
    BY <2>1 DEF PhotoInv, Keyed, KeyedRows, KeyIs
  <2> QED
    BY <2>2, <2>3 DEF HasPhoto
<1>2. LibraryInit => LibraryInv /\ PhotoInv
  BY LibraryStarts, PhotosStart
<1>3. LibraryInv /\ PhotoInv /\ [LibraryNext]_libraryVars => (LibraryInv /\ PhotoInv)'
  BY LibraryStep, PhotoNext
<1> QED
  BY <1>1, <1>2, <1>3, PTL DEF LibrarySpec
=============================================================================
