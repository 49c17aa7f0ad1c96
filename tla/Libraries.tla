------------------------------ MODULE Libraries ------------------------------
(***************************************************************************)
(* The face and the plate library of a process: rows in Redis, photos in   *)
(* the object store, and the index in memory that detection matches with.  *)
(* Requests run in threads of their own; only the index is under a lock,   *)
(* so the calls of several requests interleave between its uses. Calls to  *)
(* Redis and to the store may fail, and the process may restart.           *)
(***************************************************************************)
EXTENDS Integers, FiniteSets

CONSTANTS Ids, Plates,   \* identity ids of persons, plate numbers
          Keys, KeyOf,   \* KeyOf[id]: the object key of a person's photo
          Legacy,        \* persons of the old local directory face_library/
          Requests,      \* request threads
          MaxBegun,        \* bound: requests begun
          MaxFaults,     \* bound: failed calls and restarts
          None

\* None is no row and no number; a person and a plate are never confused.
ASSUME Sets ==
  /\ KeyOf \in [Ids -> Keys] /\ Legacy \subseteq Ids /\ Ids \cap Plates = {}
  /\ None \notin Nat \cup [feat : Nat, key : Keys, v : Nat] \cup [created : Nat, v : Nat]

VARIABLES rows, objs,    \* persons in Redis, photos in the store
          index, feats,  \* _index and _embeddings of face_library
          prows, pindex, \* plates in Redis and in memory
          req,           \* request threads: pc, and what they hold
          begun, faults,
          disturbed      \* history: names hit by a race, a failure or a restart

libraryVars == <<rows, objs, index, feats, prows, pindex, req, begun, faults, disturbed>>
faces == <<rows, objs, index, feats>>
plates == <<prows, pindex>>

Idle == [pc |-> "idle", on |-> {}]

\* What a reload puts into memory.
Features(r) == {<<id, r[id].feat>> : id \in {i \in Ids : r[i] # None}}

\* One person is enrolled; versions and photos are numbered by the request
\* that made them.
LibraryInit ==
  \E known \in Ids :
    /\ rows = [id \in Ids |-> IF id = known THEN [feat |-> 0, key |-> KeyOf[id], v |-> 0] ELSE None]
    /\ objs = [k \in Keys |-> IF k = KeyOf[known] THEN 0 ELSE None]
    /\ index = rows /\ feats = Features(rows)
    /\ prows = [x \in Plates |-> None] /\ pindex = prows
    /\ req = [r \in Requests |-> Idle] /\ begun = 0 /\ faults = 0 /\ disturbed = {}

\* A request of r about the names of on, which leaves its thread as rec. It
\* races with the requests in progress about one of them.
Starts(r, on, rec) ==
  LET others == {q \in Requests \ {r} : req[q].on \cap on # {}}
      whole(m) == IF "id" \in DOMAIN m THEN m.on ELSE {}   \* a reload takes each name by itself
      hit == on \cap (disturbed \cup UNION {req[q].on : q \in others})
  IN /\ req[r].pc = "idle" /\ begun < MaxBegun /\ begun' = begun + 1
     /\ req' = [req EXCEPT ![r] = rec]
     /\ disturbed' = disturbed \cup hit
                     \cup IF hit = {} THEN {} ELSE whole(rec) \cup UNION {whole(req[q]) : q \in others}

At(r, pc) == req[r].pc = pc
Goes(r, pc) == req' = [req EXCEPT ![r].pc = pc] /\ UNCHANGED <<begun, faults, disturbed>>
Ends(r) == req' = [req EXCEPT ![r] = Idle] /\ UNCHANGED <<begun, faults, disturbed>>
\* A call fails, and the request ends or goes on.
Fault == faults < MaxFaults /\ faults' = faults + 1 /\ begun' = begun
FailsAndEnds(r, harm) ==
  Fault /\ req' = [req EXCEPT ![r] = Idle] /\ disturbed' = disturbed \cup harm
FailsAndGoes(r, pc) ==
  Fault /\ req' = [req EXCEPT ![r].pc = pc] /\ disturbed' = disturbed \cup req[r].on

-----------------------------------------------------------------------------
\* Faces: enrolment.

\* The face is extracted first, then the index is looked at.
Enroll(r, id) ==
  /\ index[id] = None
  /\ LET row == [feat |-> begun + 1, key |-> KeyOf[id], v |-> begun + 1]
     IN Starts(r, {id}, [pc |-> "enroll upload", on |-> {id}, id |-> id, new |-> id, row |-> row])
  /\ UNCHANGED <<faces, plates, faults>>

EnrollUpload(r) ==
  /\ At(r, "enroll upload") /\ Goes(r, "enroll save")
  /\ objs' = [objs EXCEPT ![req[r].row.key] = req[r].row.feat]
  /\ UNCHANGED <<rows, index, feats, plates>>

EnrollSave(r) ==
  /\ At(r, "enroll save") /\ Goes(r, "enroll index")
  /\ rows' = [rows EXCEPT ![req[r].id] = req[r].row]
  /\ UNCHANGED <<objs, index, feats, plates>>

EnrollSaveFails(r) ==
  /\ At(r, "enroll save") /\ FailsAndEnds(r, {})
  /\ objs' = [objs EXCEPT ![req[r].row.key] = None]
  /\ UNCHANGED <<rows, index, feats, plates>>

\* The id may have been enrolled meanwhile: the photo is taken back, which is
\* by now that of the other enrolment too, and the row stays.
EnrollIndex(r) ==
  LET m == req[r] IN
  /\ At(r, "enroll index") /\ Ends(r)
  /\ IF index[m.id] # None
     THEN objs' = [objs EXCEPT ![m.row.key] = None] /\ UNCHANGED <<index, feats>>
     ELSE /\ index' = [index EXCEPT ![m.id] = m.row]
          /\ feats' = feats \cup {<<m.id, m.row.feat>>}
          /\ objs' = objs
  /\ UNCHANGED <<rows, plates>>

UploadFails(r) ==
  /\ req[r].pc \in {"enroll upload", "update upload"} /\ FailsAndEnds(r, {})
  /\ UNCHANGED <<faces, plates>>

-----------------------------------------------------------------------------
\* Faces: change and removal.

\* Name and the like, the id, the photo, from a copy of the row in memory.
Update(r, id, new, photo) ==
  /\ index[id] # None /\ (new = id \/ index[new] = None)
  /\ LET row == [index[id] EXCEPT !.v = begun + 1, !.feat = IF photo THEN begun + 1 ELSE @]
     IN Starts(r, {id, new},
          [pc |-> IF photo \/ new # id THEN "update upload" ELSE "update save",
           on |-> {id, new}, id |-> id, new |-> new, row |-> row, old |-> row.key,
           photo |-> photo, moved |-> FALSE])
  /\ UNCHANGED <<faces, plates, faults>>

\* get_photo_bytes: the row in memory, else that in Redis, says where it is.
PhotoBytes(id) ==
  LET m == IF index[id] # None THEN index[id] ELSE rows[id]
  IN IF m = None THEN None ELSE objs[m.key]

\* The new photo, or the old one under the new id; if it cannot be read, the
\* row goes on naming the old object.
UpdateUpload(r) ==
  LET m == req[r]
      k == KeyOf[m.new]
      photo == IF m.photo THEN m.row.feat ELSE PhotoBytes(m.id)
  IN /\ At(r, "update upload")
     /\ IF photo # None
        THEN /\ objs' = [objs EXCEPT ![k] = photo]
             /\ req' = [req EXCEPT ![r].pc = "update save", ![r].row.key = k, ![r].moved = TRUE]
        ELSE objs' = objs /\ req' = [req EXCEPT ![r].pc = "update save"]
     /\ UNCHANGED <<rows, index, feats, plates, begun, faults, disturbed>>

UpdateSave(r) ==
  /\ At(r, "update save") /\ Goes(r, IF req[r].new # req[r].id THEN "update remove" ELSE "update clean")
  /\ rows' = [rows EXCEPT ![req[r].new] = req[r].row]
  /\ UNCHANGED <<objs, index, feats, plates>>

UpdateSaveFails(r) ==
  /\ At(r, "update save") /\ FailsAndEnds(r, req[r].on)
  /\ UNCHANGED <<faces, plates>>

UpdateRemove(r) ==
  /\ At(r, "update remove") /\ Goes(r, "update clean")
  /\ rows' = [rows EXCEPT ![req[r].id] = None]
  /\ UNCHANGED <<objs, index, feats, plates>>

\* Mutant of UpdateClean: the key just written counts as an old one.
UpdateCleanAll(r) ==
  LET m == req[r] IN
  /\ At(r, "update clean") /\ Goes(r, "update index")
  /\ objs' = IF m.moved THEN [objs EXCEPT ![m.old] = None] ELSE objs
  /\ UNCHANGED <<rows, index, feats, plates>>

UpdateClean(r) ==
  LET m == req[r] IN
  /\ At(r, "update clean") /\ Goes(r, "update index")
  /\ objs' = IF m.moved /\ m.old # m.row.key THEN [objs EXCEPT ![m.old] = None] ELSE objs
  /\ UNCHANGED <<rows, index, feats, plates>>

\* Mutant of UpdateIndex: the features under the old id stay.
UpdateIndexKeeps(r) ==
  LET m == req[r] IN
  /\ At(r, "update index") /\ Ends(r)
  /\ index' = [index EXCEPT ![m.id] = None, ![m.new] = m.row]
  /\ feats' = feats \cup {<<m.new, m.row.feat>>}
  /\ UNCHANGED <<rows, objs, plates>>

UpdateIndex(r) ==
  LET m == req[r] IN
  /\ At(r, "update index") /\ Ends(r)
  /\ index' = [index EXCEPT ![m.id] = None, ![m.new] = m.row]
  /\ feats' = {f \in feats : f[1] # m.id} \cup {<<m.new, m.row.feat>>}
  /\ UNCHANGED <<rows, objs, plates>>

\* A person is removed who is in memory or in Redis.
Delete(r, id) ==
  /\ index[id] # None \/ rows[id] # None
  /\ LET row == IF index[id] # None THEN index[id] ELSE rows[id]
     IN Starts(r, {id}, [pc |-> "delete photo", on |-> {id}, id |-> id, row |-> row])
  /\ UNCHANGED <<faces, plates, faults>>

DeletePhoto(r) ==
  /\ At(r, "delete photo") /\ Goes(r, "delete row")
  /\ objs' = [objs EXCEPT ![req[r].row.key] = None]
  /\ UNCHANGED <<rows, index, feats, plates>>

DeleteRow(r) ==
  /\ At(r, "delete row") /\ Goes(r, "delete index")
  /\ rows' = [rows EXCEPT ![req[r].id] = None]
  /\ UNCHANGED <<objs, index, feats, plates>>

DeleteIndex(r) ==
  /\ At(r, "delete index") /\ Ends(r)
  /\ index' = [index EXCEPT ![req[r].id] = None]
  /\ feats' = {f \in feats : f[1] # req[r].id}
  /\ UNCHANGED <<rows, objs, plates>>

\* Deletions that fail are logged, and the request goes on.
DeletionFails(r) ==
  /\ \/ At(r, "update remove") /\ FailsAndGoes(r, "update clean")
     \/ At(r, "update clean") /\ req[r].moved /\ FailsAndGoes(r, "update index")
     \/ At(r, "delete photo") /\ FailsAndGoes(r, "delete row")
     \/ At(r, "delete row") /\ FailsAndGoes(r, "delete index")
  /\ UNCHANGED <<faces, plates>>

-----------------------------------------------------------------------------
\* Faces: reload.

\* _migrate_legacy_local_if_needed: whenever Redis has no person at all.
Migrates == Legacy # {} /\ \A id \in Ids : rows[id] = None
MigratedRows ==
  [id \in Ids |-> IF Migrates /\ id \in Legacy THEN [feat |-> 0, key |-> KeyOf[id], v |-> 0] ELSE rows[id]]
MigratedObjs ==
  [k \in Keys |-> IF Migrates /\ k \in {KeyOf[id] : id \in Legacy} THEN 0 ELSE objs[k]]

Reload(r) ==
  /\ Starts(r, Ids, [pc |-> "reload", on |-> Ids, rows |-> MigratedRows])
  /\ rows' = MigratedRows /\ objs' = MigratedObjs
  /\ UNCHANGED <<index, feats, plates, faults>>

ReloadSwap(r) ==
  /\ At(r, "reload") /\ Ends(r)
  /\ index' = req[r].rows /\ feats' = Features(req[r].rows)
  /\ UNCHANGED <<rows, objs, plates>>

\* Without Redis a reload empties the index.
ReloadDisconnected(r) ==
  /\ At(r, "idle") /\ FailsAndEnds(r, Ids)
  /\ index' = [id \in Ids |-> None] /\ feats' = {}
  /\ UNCHANGED <<rows, objs, plates>>

-----------------------------------------------------------------------------
\* Plates.

\* A plate that exists is overwritten, but keeps its date of creation.
AddPlate(r, x) ==
  /\ LET row == [created |-> IF pindex[x] # None THEN pindex[x].created ELSE begun + 1, v |-> begun + 1]
     IN Starts(r, {x}, [pc |-> "plate save", on |-> {x}, id |-> x, row |-> row])
  /\ UNCHANGED <<faces, plates, faults>>

UpdatePlate(r, x) ==
  /\ pindex[x] # None
  /\ Starts(r, {x}, [pc |-> "plate save", on |-> {x}, id |-> x,
                     row |-> [pindex[x] EXCEPT !.v = begun + 1]])
  /\ UNCHANGED <<faces, plates, faults>>

PlateSave(r) ==
  /\ At(r, "plate save") /\ Goes(r, "plate index")
  /\ prows' = [prows EXCEPT ![req[r].id] = req[r].row]
  /\ UNCHANGED <<faces, pindex>>

PlateIndex(r) ==
  /\ At(r, "plate index") /\ Ends(r)
  /\ pindex' = [pindex EXCEPT ![req[r].id] = req[r].row]
  /\ UNCHANGED <<faces, prows>>

\* Only a plate that Redis has can be deleted.
DeletePlate(r, x) ==
  /\ prows[x] # None
  /\ Starts(r, {x}, [pc |-> "plate pop", on |-> {x}, id |-> x])
  /\ prows' = [prows EXCEPT ![x] = None]
  /\ UNCHANGED <<faces, pindex, faults>>

PlatePop(r) ==
  /\ At(r, "plate pop") /\ Ends(r)
  /\ pindex' = [pindex EXCEPT ![req[r].id] = None]
  /\ UNCHANGED <<faces, prows>>

PlateFails(r) ==
  /\ At(r, "plate save") /\ FailsAndEnds(r, {})
  /\ UNCHANGED <<faces, plates>>

ReloadPlates(r) ==
  /\ Starts(r, Plates, [pc |-> "plates reload", on |-> Plates, rows |-> prows])
  /\ UNCHANGED <<faces, plates, faults>>

ReloadPlatesSwap(r) ==
  /\ At(r, "plates reload") /\ Ends(r)
  /\ pindex' = req[r].rows
  /\ UNCHANGED <<faces, prows>>

-----------------------------------------------------------------------------
\* The process restarts: its requests end where they are, both libraries load.
Restart ==
  /\ Fault
  /\ disturbed' = disturbed \cup UNION {req[r].on : r \in {q \in Requests : "id" \in DOMAIN req[q]}}
  /\ req' = [r \in Requests |-> Idle]
  /\ rows' = MigratedRows /\ objs' = MigratedObjs
  /\ index' = rows' /\ feats' = Features(rows') /\ pindex' = prows
  /\ prows' = prows

Steps(r) ==
  \/ EnrollUpload(r) \/ EnrollSave(r) \/ EnrollSaveFails(r) \/ EnrollIndex(r) \/ UploadFails(r)
  \/ UpdateUpload(r) \/ UpdateSave(r) \/ UpdateSaveFails(r) \/ UpdateRemove(r) \/ UpdateClean(r)
  \/ UpdateIndex(r) \/ DeletePhoto(r) \/ DeleteRow(r) \/ DeleteIndex(r) \/ DeletionFails(r)
  \/ Reload(r) \/ ReloadSwap(r) \/ ReloadDisconnected(r)
  \/ PlateSave(r) \/ PlateIndex(r) \/ PlatePop(r) \/ PlateFails(r)
  \/ ReloadPlates(r) \/ ReloadPlatesSwap(r)

LibraryNext ==
  \/ Restart
  \/ \E r \in Requests : Steps(r)
  \/ \E r \in Requests, id \in Ids : Enroll(r, id) \/ Delete(r, id)
  \/ \E r \in Requests, id, new \in Ids, photo \in BOOLEAN : Update(r, id, new, photo)
  \/ \E r \in Requests, x \in Plates : AddPlate(r, x) \/ UpdatePlate(r, x) \/ DeletePlate(r, x)

LibrarySpec == LibraryInit /\ [][LibraryNext]_libraryVars

-----------------------------------------------------------------------------
\* Names no request is about and that nothing has disturbed.
Calm(S) == S \ (disturbed \cup UNION {req[r].on : r \in Requests})

\* Requests about different names, refused uploads and refused first saves
\* leave memory and Redis in agreement: who is in the one is in the other, with
\* the same data and with the features of the row, and with no others.
MemoryMatchesRedis ==
  /\ \A id \in Calm(Ids) :
       /\ index[id] = rows[id]
       /\ {f[2] : f \in {g \in feats : g[1] = id}} = IF rows[id] = None THEN {} ELSE {rows[id].feat}
  /\ \A x \in Calm(Plates) : pindex[x] = prows[x]

\* A person's row names a photo, the one its features were taken from; a photo
\* in the store is named by a row.
PhotoIsTheirs ==
  \A id \in Calm(Ids) :
    IF rows[id] # None THEN objs[rows[id].key] = rows[id].feat
    ELSE objs[KeyOf[id]] # None => \E i \in Ids : rows[i] # None /\ rows[i].key = KeyOf[id]
=============================================================================
