------------------------------- MODULE GbStore -------------------------------
(***************************************************************************)
(* The configuration kept in Redis: the hash of analysis streams and the   *)
(* hash of GB/T 28181 accounts with their channels. Web requests, pages    *)
(* that post back what they loaded, the SIP process and the workers read   *)
(* rows, change them and write them back whole; nothing is locked, so the  *)
(* commands of several of them interleave, and a process or its Redis      *)
(* connection may fail between two commands.                               *)
(***************************************************************************)
EXTENDS Integers, Sequences, FiniteSets, SequencesExt, FiniteSetsExt

CONSTANTS Procs,        \* whoever works on the tables at a time
          Serials,      \* serials of accounts and channels: 1..n
          MaxStreams,   \* bound: stream ids are 1..MaxStreams, never reused
          MaxOps        \* bound: operations begun

ASSUME Bounds == /\ IsFiniteSet(Serials) /\ Serials = 1..Cardinality(Serials) /\ {1, 2} \subseteq Serials
                 /\ MaxStreams \in Nat \ {0} /\ MaxOps \in Nat

VARIABLES db,      \* rows by key: <<"s", id>> streams, <<"d", serial>> accounts
          todo,    \* Redis commands each process has still to give
          missed,  \* history: keys others changed since the process read them
          ops, ids \* operations begun and stream ids given out

storeVars == <<db, todo, missed, ops, ids>>

Stream(i) == <<"s", i>>
Device(d) == <<"d", d>>
StreamKeys == {Stream(i) : i \in 1..MaxStreams}
DeviceKeys == {Device(d) : d \in Serials}

\* Rows of the tables among the keys of K.
In(K) == DOMAIN db \cap K
\* A table with the row r under the key k.
With(t, k, r) == [x \in DOMAIN t \cup {k} |-> IF x = k THEN r ELSE t[x]]
Without(t, K) == [x \in DOMAIN t \ K |-> t[x]]

\* A row's edits are the operations whose change it contains; dev = 0 is a
\* stream that does not come from a GB account; missed is history.
StreamRow(name, dev, ch, edits) ==
  [name |-> name, dev |-> dev, ch |-> ch, edits |-> edits, missed |-> {}]
DeviceRow(chans, edits) == [chans |-> chans, edits |-> edits, missed |-> {}]

\* Account 1 has the channels 1, which is analysed, and 2, which is not.
StoreInit ==
  /\ db = [k \in {Stream(1), Device(1)} |->
             IF k = Stream(1) THEN StreamRow(0, 1, 1, {}) ELSE DeviceRow([c \in {1, 2} |-> 0], {})]
  /\ todo = [p \in Procs |-> <<>>] /\ missed = [p \in Procs |-> {}]
  /\ ops = 0 /\ ids = 1

-----------------------------------------------------------------------------
\* Commands.

Put(k, row) == [do |-> "put", key |-> k, row |-> row]
Del(k) == [do |-> "del", key |-> k]
\* DELETE of the hash of streams, by one who means to remove the rows of K.
Wipe(K) == [do |-> "wipe", gone |-> K]
\* sync_analysis_stream_names for an account's row as it was read.
Sync(d, chans) == [do |-> "sync", dev |-> d, chans |-> chans]
\* delete_channel, which reads the account after the streams are gone.
DropChannel(d, c) == [do |-> "dropchannel", dev |-> d, ch |-> c]

\* redis_manager.save_streams: the hash is deleted and written row by row.
SaveStreams(rows, gone) ==
  <<Wipe(gone)>> \o [i \in 1..Cardinality(DOMAIN rows) |->
                       LET k == SetToSeq(DOMAIN rows)[i] IN Put(k, rows[k])]

\* upsert_device: the row, and then the names of its streams.
UpsertDevice(d, row) == <<Put(Device(d), row), Sync(d, row.chans)>>

\* replace_channels: another account's channel is refused.
ReplaceChannels(d, row) ==
  IF \E k \in In(DeviceKeys) \ {Device(d)} : DOMAIN db[k].chans \cap DOMAIN row.chans # {}
  THEN <<>> ELSE UpsertDevice(d, row)

\* The streams of an account, or of one of its channels (0 for all of them).
StreamsForGb(d, c) == {k \in In(StreamKeys) : db[k].dev = d /\ c \in {0, db[k].ch}}
FindStreamForChannel(d, c) == d # 0 /\ StreamsForGb(d, c) # {}

\* _drop_gb_analysis_streams: the deletions, each after a BYE that is only queued.
DropGbStreams(d, c) ==
  LET s == SetToSeq(StreamsForGb(d, c)) IN [i \in 1..Len(s) |-> Del(s[i])]

\* _max_serial_for_prefix, for the serials of accounts and for those of channels.
MaxAccount == Max({k[2] : k \in In(DeviceKeys)} \cup {0})
MaxChannel == Max({0} \cup UNION {DOMAIN db[k].chans : k \in In(DeviceKeys)})
AllocateSipIds == Max({MaxAccount + 1, MaxChannel + 1})
AllocateChannelId == MaxChannel + 1

\* A process reads the tables and knows the commands it will give.
Begin(p, commands) ==
  /\ todo[p] = <<>> /\ ops < MaxOps /\ commands # <<>>
  /\ ops' = ops + 1
  /\ todo' = [todo EXCEPT ![p] = commands]
  /\ missed' = [missed EXCEPT ![p] = {}]
  /\ db' = db

\* The row under k as read, with the edit of the operation that begins.
Edited(k) == [db[k] EXCEPT !.edits = @ \cup {ops + 1}]
Streams == [k \in In(StreamKeys) |-> db[k]]

-----------------------------------------------------------------------------
\* Analysis streams.

\* POST /api/streams: the list a page loaded, with one row changed.
PageChanges(p) ==
  /\ \E k \in In(StreamKeys) :
       Begin(p, SaveStreams([Streams EXCEPT ![k] = Edited(k)], {}))
  /\ UNCHANGED ids

\* ... with a new row, which gets its id here, or with one row less; an empty
\* list is refused.
PageAdds(p) ==
  /\ ids < MaxStreams /\ ids' = ids + 1
  /\ Begin(p, SaveStreams(With(Streams, Stream(ids + 1), StreamRow(0, 0, 0, {ops + 1})), {}))
PageRemoves(p) ==
  /\ \E k \in In(StreamKeys) :
       /\ In(StreamKeys) # {k}
       /\ Begin(p, SaveStreams(Without(Streams, {k}), {k}))
  /\ UNCHANGED ids

\* Mutant of Scrub: only the streams that changed are handed over.
ScrubChangedOnly(p) ==
  /\ \E K \in (SUBSET In(StreamKeys)) \ {{}} : Begin(p, SaveStreams([k \in K |-> Edited(k)], {}))
  /\ UNCHANGED ids

\* A specialist model was deleted: its key leaves every stream that has it,
\* and the whole list is written.
Scrub(p) ==
  /\ \E K \in (SUBSET In(StreamKeys)) \ {{}} :
       Begin(p, SaveStreams([k \in DOMAIN Streams |-> IF k \in K THEN Edited(k) ELSE Streams[k]], {}))
  /\ UNCHANGED ids

\* POST /api/onvif/add-stream.
AddStream(p) ==
  /\ ids < MaxStreams /\ ids' = ids + 1
  /\ Begin(p, <<Put(Stream(ids + 1), StreamRow(0, 0, 0, {ops + 1}))>>)

\* PATCH /api/streams/<id>, which may also rename the stream.
PatchStream(p) ==
  /\ \E k \in In(StreamKeys), name \in {TRUE, FALSE} :
       Begin(p, <<Put(k, IF name THEN [Edited(k) EXCEPT !.name = ops + 1] ELSE Edited(k))>>)
  /\ UNCHANGED ids

\* New RTSP address from the camera's profiles: the camera is asked between
\* the read and the write.
RefreshStream(p) ==
  /\ \E k \in In(StreamKeys) : db[k].dev = 0 /\ Begin(p, <<Put(k, Edited(k))>>)
  /\ UNCHANGED ids

DeleteStream(p) ==
  /\ \E k \in In(StreamKeys) : Begin(p, <<Del(k)>>)
  /\ UNCHANGED ids

\* Mutant of Join: nobody looks for a stream of the channel.
JoinAlways(p) ==
  /\ ids < MaxStreams /\ ids' = ids + 1
  /\ \E k \in In(DeviceKeys) : \E c \in DOMAIN db[k].chans :
       Begin(p, <<Put(Stream(ids + 1), StreamRow(db[k].chans[c], k[2], c, {}))>>)

\* POST .../monitor: the INVITE of up to 28 s lies between the look at the
\* streams and the new row, whose id is drawn after it.
Join(p) ==
  /\ ids < MaxStreams /\ ids' = ids + 1
  /\ \E k \in In(DeviceKeys) : \E c \in DOMAIN db[k].chans :
       /\ ~FindStreamForChannel(k[2], c)
       /\ Begin(p, <<Put(Stream(ids + 1), StreamRow(db[k].chans[c], k[2], c, {}))>>)

\* A worker has found or re-invited its channel and stores the address; the
\* row is read after the answer.
PersistGbPlay(p) ==
  /\ \E k \in In(StreamKeys) : db[k].dev # 0 /\ Begin(p, <<Put(k, Edited(k))>>)
  /\ UNCHANGED ids

\* GET /api/streams names the streams after the accounts' channels first.
GetStreams(p) ==
  /\ Begin(p, LET d == SetToSeq(In(DeviceKeys))
              IN [i \in 1..Len(d) |-> Sync(d[i][2], db[d[i]].chans)])
  /\ UNCHANGED ids

-----------------------------------------------------------------------------
\* Accounts and channels.

CreateDevice(p) ==
  /\ AllocateSipIds \in Serials
  /\ Begin(p, UpsertDevice(AllocateSipIds, DeviceRow(<<>>, {ops + 1})))
  /\ UNCHANGED ids

\* POST /api/gb28181/devices for an account that exists: the payload is the
\* row a page loaded, edited; without channels it leaves the account none.
PostDevice(p) ==
  /\ \E k \in In(DeviceKeys), channels \in BOOLEAN :
       Begin(p, UpsertDevice(k[2], IF channels THEN Edited(k) ELSE [Edited(k) EXCEPT !.chans = <<>>]))
  /\ UNCHANGED ids

PatchDevice(p) ==
  /\ \E k \in In(DeviceKeys) : Begin(p, UpsertDevice(k[2], Edited(k)))
  /\ UNCHANGED ids

AddChannel(p) ==
  /\ \E k \in In(DeviceKeys), c \in Serials \cup {AllocateChannelId} :
       /\ c \in Serials \ DOMAIN db[k].chans
       /\ Begin(p, ReplaceChannels(k[2], [Edited(k) EXCEPT !.chans = With(@, c, ops + 1)]))
  /\ UNCHANGED ids

\* The channel's alias or its id; an analysis stream keeps the old id.
PatchChannel(p) ==
  /\ \E k \in In(DeviceKeys) : \E c \in DOMAIN db[k].chans, new \in Serials :
       /\ new \notin DOMAIN db[k].chans \ {c}
       /\ Begin(p, ReplaceChannels(k[2],
             [Edited(k) EXCEPT !.chans = With(Without(@, {c}), new, IF new = c THEN ops + 1 ELSE @[c])]))
  /\ UNCHANGED ids

DeleteChannel(p) ==
  /\ \E k \in In(DeviceKeys) : \E c \in DOMAIN db[k].chans :
       Begin(p, Append(DropGbStreams(k[2], c), DropChannel(k[2], c)))
  /\ UNCHANGED ids

DeleteDevice(p) ==
  /\ \E k \in In(DeviceKeys) : Begin(p, Append(DropGbStreams(k[2], 0), Del(k)))
  /\ UNCHANGED ids

\* A Catalog answer: the channels the camera lists are added under their own
\* names, aliases stay; a voice output is stored by a second write of the row.
MergeCatalog(p) ==
  /\ \E k \in In(DeviceKeys), voice \in BOOLEAN :
     \E New \in SUBSET (Serials \ DOMAIN db[k].chans) :
       LET once == ReplaceChannels(k[2], [Edited(k) EXCEPT
             !.chans = [c \in DOMAIN @ \cup New |-> IF c \in New THEN 0 ELSE @[c]]])
       IN Begin(p, IF voice THEN once \o once ELSE once)
  /\ UNCHANGED ids

\* A keepalive, a lost registration or a restart of the SIP process: the
\* status goes into the row as it was read.
WriteRuntime(p) ==
  /\ \E k \in In(DeviceKeys) : Begin(p, <<Put(k, db[k])>>)
  /\ UNCHANGED ids

\* The refresh button: every account is written as it was read.
RefreshStatuses(p) ==
  /\ Begin(p, LET d == SetToSeq(In(DeviceKeys))
              IN [i \in 1..Len(d) |-> Put(d[i], db[d[i]])])
  /\ UNCHANGED ids

-----------------------------------------------------------------------------
\* Redis carries out one command.

\* Process p changes the rows of K and goes on with rest; the others, if they
\* are at work, have not seen it.
Executes(p, K, rest) ==
  /\ todo' = [todo EXCEPT ![p] = rest]
  /\ missed' = [q \in Procs |-> IF q = p THEN IF rest = <<>> THEN {} ELSE missed[q]
                                ELSE IF todo[q] = <<>> THEN {} ELSE missed[q] \cup K]
  /\ UNCHANGED <<ops, ids>>

Next1(p, what) == todo[p] # <<>> /\ Head(todo[p]).do = what

ExecPut(p) ==
  /\ Next1(p, "put")
  /\ LET c == Head(todo[p])
     IN /\ db' = With(db, c.key, [c.row EXCEPT !.missed = @ \cup missed[p]])
        /\ Executes(p, {c.key}, Tail(todo[p]))

\* The rows of an account that p could not have seen are marked.
ExecDel(p) ==
  /\ Next1(p, "del")
  /\ LET k == Head(todo[p]).key
     IN /\ db' = [x \in DOMAIN db \ {k} |->
                   IF x \in missed[p] THEN [db[x] EXCEPT !.missed = @ \cup {k}] ELSE db[x]]
        /\ Executes(p, {k} \cap DOMAIN db, Tail(todo[p]))

ExecWipe(p) ==
  /\ Next1(p, "wipe")
  /\ db' = Without(db, StreamKeys)
  /\ Executes(p, In(StreamKeys), Tail(todo[p]))

\* The streams are read, and those whose channel has another alias renamed;
\* of two streams of one channel, only the first is found.
ExecSync(p) ==
  /\ Next1(p, "sync")
  /\ LET c == Head(todo[p])
         found(ch) == StreamsForGb(c.dev, ch)
         first(ch) == CHOOSE k \in found(ch) : TRUE
         renamed == SetToSeq({ch \in DOMAIN c.chans : found(ch) # {} /\ c.chans[ch] # 0
                                                     /\ db[first(ch)].name # c.chans[ch]})
         puts == [i \in 1..Len(renamed) |->
                    Put(first(renamed[i]), [db[first(renamed[i])] EXCEPT !.name = c.chans[renamed[i]]])]
         rest == puts \o Tail(todo[p])
     IN /\ todo' = [todo EXCEPT ![p] = rest]
        /\ missed' = [missed EXCEPT ![p] = IF rest = <<>> THEN {} ELSE @ \ StreamKeys]
  /\ UNCHANGED <<db, ops, ids>>

ExecDropChannel(p) ==
  /\ Next1(p, "dropchannel")
  /\ LET c == Head(todo[p])
         k == Device(c.dev)
         rest == IF k \in DOMAIN db /\ c.ch \in DOMAIN db[k].chans
                 THEN ReplaceChannels(c.dev, [db[k] EXCEPT !.chans = Without(@, {c.ch})])
                 ELSE <<>>
     IN /\ todo' = [todo EXCEPT ![p] = rest]
        /\ missed' = [missed EXCEPT ![p] = IF rest = <<>> THEN {} ELSE @ \ DeviceKeys]
  /\ UNCHANGED <<db, ops, ids>>

\* The process ends, its INVITE is refused, or Redis does not answer.
Fails(p) ==
  /\ todo[p] # <<>>
  /\ todo' = [todo EXCEPT ![p] = <<>>] /\ missed' = [missed EXCEPT ![p] = {}]
  /\ UNCHANGED <<db, ops, ids>>

\* Redis refuses the deletion of one stream; the others, and that of the
\* account, follow nevertheless. The row counts as one p did not reach.
DelFails(p) ==
  /\ Next1(p, "del") /\ Head(todo[p]).key \in In(StreamKeys)
  /\ missed' = [missed EXCEPT ![p] = @ \cup {Head(todo[p]).key}]
  /\ todo' = [todo EXCEPT ![p] = Tail(@)]
  /\ UNCHANGED <<db, ops, ids>>

StoreNext ==
  \E p \in Procs :
    \/ PageChanges(p) \/ PageAdds(p) \/ PageRemoves(p) \/ Scrub(p) \/ AddStream(p)
    \/ PatchStream(p) \/ RefreshStream(p) \/ DeleteStream(p) \/ Join(p)
    \/ PersistGbPlay(p) \/ GetStreams(p)
    \/ CreateDevice(p) \/ PostDevice(p) \/ PatchDevice(p) \/ AddChannel(p)
    \/ PatchChannel(p) \/ DeleteChannel(p) \/ DeleteDevice(p) \/ MergeCatalog(p)
    \/ WriteRuntime(p) \/ RefreshStatuses(p)
    \/ ExecPut(p) \/ ExecDel(p) \/ ExecWipe(p) \/ ExecSync(p) \/ ExecDropChannel(p)
    \/ Fails(p) \/ DelFails(p)

StoreSpec == StoreInit /\ [][StoreNext]_storeVars

-----------------------------------------------------------------------------
\* A row that exists is gone, or has lost a change that was in it.
Loses(k) == k \notin DOMAIN db' \/ ~(db[k].edits \subseteq db'[k].edits)

\* p deletes k because it was told to, or will write it again, with all of it.
Meant(p, k) ==
  LET c == Head(todo[p])
  IN \/ c.do = "del" /\ c.key = k
     \/ /\ c.do = "wipe"
        /\ \/ k \in c.gone
           \/ \E i \in 2..Len(todo[p]) :
                todo[p][i].key = k /\ db[k].edits \subseteq todo[p][i].row.edits

\* What a write destroys without being asked to was changed by somebody else
\* after the writer had read it: rewriting whole rows and whole lists loses
\* concurrent changes of the rows it rewrites and no other.
FreshWritesKeep ==
  [][\A p \in Procs : \A k \in DOMAIN db :
       todo'[p] # todo[p] /\ todo[p] # <<>> /\ Loses(k) => Meant(p, k) \/ k \in missed[p]]_storeVars

\* A channel is analysed by one stream and an account takes its streams with
\* it, except where a row was written, or an account deleted, in ignorance of
\* the other: nothing repairs what such a race leaves behind.
CleanRows ==
  \A k \in In(StreamKeys) : db[k].dev # 0 =>
    /\ \A l \in StreamsForGb(db[k].dev, db[k].ch) \ {k} : k \in db[l].missed \/ l \in db[k].missed
    /\ \/ Device(db[k].dev) \in DOMAIN db
       \/ {k, Device(db[k].dev)} \cap db[k].missed # {}
=============================================================================
