---------------------------- MODULE ModelServing ----------------------------
(***************************************************************************)
(* A specialist model from its directory to an inference result: the       *)
(* registry of specialists (files, versions, metadata), the plugin list    *)
(* each process builds from it, the ONNX export, each process's record of  *)
(* what it has loaded, and the inference daemon that holds the model.      *)
(* One specialist; requests of the web process come one at a time, and     *)
(* interleave with the inference rounds of every process.                  *)
(***************************************************************************)
EXTENDS Integers, FiniteSets

CONSTANTS Procs,        \* processes that use the registry
          Web,          \* the one of them that serves requests
          Analysts,     \* the ones that analyse streams
          Weights,      \* contents of weight files
          MaxVersions,  \* _MAX_VERSIONS
          MaxRequests,  \* bound: deployments, activations and deletions
          MaxFaults,    \* bound: restarts, failed exports and failed loads
          Absent

ASSUME WebIsAProcess == Web \in Procs /\ Analysts \subseteq Procs /\ Absent \notin Weights
ASSUME RoomForVersions == MaxVersions \in Nat /\ MaxVersions >= 2

VARIABLES now,       \* file time; every write gets a new one
          file,      \* file[e]: model.e in the specialist's directory, or Absent
          versions,  \* versions/<id> and (legacy) model.bak_<id>
          meta,      \* specialist.json, or Absent
          rootT,     \* time of the directory models/specialists
          op,        \* the web request in progress or last done
          requests, faults,
          plugins,   \* PLUGINS: the path each process infers with, or Absent
          stamp,     \* _SPECIALISTS_STAMP
          phase,     \* where each process's inference round is
          loaded,    \* the model's name is in _loaded
          opened,    \* the session's name is in _sessions
          hub,       \* models_ of the daemon: its content, or Absent
          sessions,  \* sessions_ of the daemon holds the session
          outdated,  \* ghost: processes whose record the daemon invalidated
          missed     \* ghost: processes whose reload a write overlapped

vars == <<now, file, versions, meta, rootT, op, requests, faults, plugins,
          stamp, phase, loaded, opened, hub, sessions, outdated, missed>>
disk == <<now, file, versions, meta, rootT>>
web == <<op, requests>>
clients == <<plugins, stamp, phase>>
daemon == <<hub, sessions>>
records == <<loaded, opened, outdated>>

Ext == {"pt", "onnx"}
File(w, t) == [w |-> w, t |-> t]
NoRequest == [kind |-> "none", at |-> "none", ext |-> "pt", ver |-> Absent, w |-> Absent, again |-> FALSE]
Idle == [at |-> "idle", w |-> Absent]
Ref(v) == [id |-> v.id, legacy |-> v.legacy]

\* _snapshot_version: a copy of a weight file, with its time.
Snapshot(id, f, e) == [id |-> id, w |-> f.w, t |-> f.t, ext |-> e, legacy |-> FALSE]

-----------------------------------------------------------------------------
\* What a process finds on disk.

\* A stamp that only looks at the metadata files.
StampOfMeta == IF meta # Absent THEN meta.t ELSE 0

Stamp == IF meta # Absent /\ meta.t > rootT THEN meta.t ELSE rootT

\* load_specialist: a path that is gone gives way to the other file.
Path == IF \E e \in Ext : file[e] # Absent /\ file[meta.ext] = Absent
        THEN CHOOSE e \in Ext : file[e] # Absent ELSE meta.ext

\* specs_from_specialists: the plugin's parameters stand for the metadata read.
DiskPlugin == IF meta = Absent THEN Absent ELSE [of |-> meta.active, path |-> Path]

\* ensure_onnx: is the ONNX file beside the weights usable as it is?
UpToDate == file["pt"] # Absent /\ file["onnx"] # Absent /\ file["onnx"].t >= file["pt"].t

Init ==
  /\ now = 0 /\ file = [e \in Ext |-> Absent] /\ versions = {} /\ meta = Absent
  /\ rootT = 0 /\ op = NoRequest /\ requests = 0 /\ faults = 0
  /\ plugins = [p \in Procs |-> Absent] /\ stamp = [p \in Procs |-> 0]
  /\ phase = [p \in Procs |-> Idle]
  /\ loaded = [p \in Procs |-> FALSE] /\ opened = [p \in Procs |-> FALSE]
  /\ hub = Absent /\ sessions = FALSE
  /\ outdated = {} /\ missed = {}

\* Which processes read the registry before this write and stamp it after.
Overlapped == {p \in Procs : phase[p].at = "stamp"} \cup
              (IF op.at = "stamp" THEN {Web} ELSE {})

-----------------------------------------------------------------------------
\* The daemon: EngineHub and SessionManager, one model and one session.

Publish(w) == hub' = w
Forget == hub' = Absent
OpenAllowed == hub # Absent
Upsert == sessions' = TRUE

\* Infer: the session is found, then its model, or there is no result.
Answer == IF sessions THEN hub ELSE Absent

-----------------------------------------------------------------------------
\* Requests of the web process.

Fault == faults < MaxFaults /\ faults' = faults + 1

\* No request is in progress; "torn": a crash came between copy and metadata.
Free == op.at \in {"none", "done", "torn"}

\* _prune_versions: the oldest surplus versions go, never one of keep.
Prune(vs, keep) ==
  LET dirs  == {v \in vs : ~v.legacy}
      extra == {v \in dirs : v.id \notin keep}
      Older(v) == {u \in extra : u.id < v.id}
  IN vs \ {v \in extra : Cardinality(Older(v)) < Cardinality(dirs) - MaxVersions}

\* deploy_specialist up to the copy. copy2 keeps the file time: trained weights
\* are as old as their training, uploaded ones are new.
DeployCopy(w, uploaded, e) ==
  LET source == File(w, IF uploaded THEN now + 1 ELSE 0)
      prev   == IF file[e] = Absent THEN {}
                ELSE {[Snapshot(now + 1, file[e], e) EXCEPT !.legacy = l] : l \in BOOLEAN}
      new    == Snapshot(now + 2, source, e)
  IN /\ Free /\ requests < MaxRequests
     /\ versions' = Prune(versions \cup prev \cup {new}, {now + 1, now + 2})
     /\ file' = [file EXCEPT ![e] = source]
     /\ rootT' = IF versions = {} THEN now + 2 ELSE rootT
     /\ now' = now + 2
     /\ op' = [kind |-> "deploy", at |-> "meta", ext |-> e, ver |-> Ref(new), w |-> w, again |-> FALSE]
     /\ requests' = requests + 1
     /\ missed' = IF versions = {} THEN missed \cup Overlapped ELSE missed
     /\ UNCHANGED <<meta, faults, clients, records, daemon>>

\* deploy_as_specialist: weights of a job; whether they pass the gate is in
\* TrainingLab.
DeployTrained(w) == DeployCopy(w, FALSE, "pt")

\* training_import_specialist: an uploaded or downloaded file.
ImportSpecialist(w, e) == DeployCopy(w, TRUE, e)

\* activate_specialist_version up to the copy.
ActivateCopy(v) ==
  /\ Free /\ requests < MaxRequests
  /\ meta # Absent
  /\ file' = [e \in Ext |-> IF e = v.ext THEN File(v.w, v.t) ELSE Absent]
  /\ op' = [kind |-> "activate", at |-> "meta", ext |-> v.ext, ver |-> Ref(v), w |-> v.w, again |-> FALSE]
  /\ requests' = requests + 1
  /\ UNCHANGED <<now, versions, meta, rootT, faults, clients, records, daemon, missed>>

\* save_specialist_meta.
Metadata(active) == [ext |-> op.ext, active |-> active, t |-> now + 1]

\* The metadata keeps the old active version.
SaveMetaOldVersion ==
  /\ op.at = "meta"
  /\ now' = now + 1
  /\ meta' = Metadata(IF meta = Absent THEN op.ver ELSE meta.active)
  /\ op' = [op EXCEPT !.at = IF op.kind = "deploy" THEN "reload" ELSE "drop"]
  /\ missed' = missed \cup Overlapped
  /\ UNCHANGED <<file, versions, rootT, requests, faults, clients, records, daemon>>

SaveMeta ==
  /\ op.at = "meta"
  /\ now' = now + 1
  /\ meta' = Metadata(op.ver)
  /\ op' = [op EXCEPT !.at = IF op.kind = "deploy" THEN "reload" ELSE "drop"]
  /\ missed' = missed \cup Overlapped
  /\ UNCHANGED <<file, versions, rootT, requests, faults, clients, records, daemon>>

\* delete_specialist. Taking the key out of the streams is in StreamConfig.
DeleteSpecialist ==
  /\ Free /\ requests < MaxRequests
  /\ meta # Absent
  /\ now' = now + 1 /\ rootT' = now + 1
  /\ file' = [e \in Ext |-> Absent] /\ versions' = {} /\ meta' = Absent
  /\ op' = [kind |-> "delete", at |-> "reload", ext |-> "pt", ver |-> Absent, w |-> Absent, again |-> FALSE]
  /\ requests' = requests + 1
  /\ missed' = missed \cup Overlapped
  /\ UNCHANGED <<faults, clients, records, daemon>>

\* drop_model: ensure_onnx, which may export or fail.
DropPrepare ==
  /\ op.at = "drop"
  /\ \/ /\ op' = [op EXCEPT !.at = "discard"]
        /\ IF op.ext = "onnx" \/ UpToDate THEN UNCHANGED <<file, now>>
           ELSE /\ file' = [file EXCEPT !["onnx"] = File(file["pt"].w, now + 1)]
                /\ now' = now + 1
        /\ UNCHANGED faults
     \/ /\ ~UpToDate /\ op.ext = "pt" /\ Fault
        /\ op' = [op EXCEPT !.at = "reload"]
        /\ UNCHANGED <<file, now>>
  /\ UNCHANGED <<versions, meta, rootT, requests, clients, records, daemon, missed>>

\* drop_model without clearing the record of loaded names.
DropDiscardNothing ==
  /\ op.at = "discard"
  /\ phase[Web].at \notin {"load", "open"}
  /\ op' = [op EXCEPT !.at = "unload"]
  /\ UNCHANGED <<disk, requests, faults, clients, records, daemon, missed>>

\* drop_model, under _lock: forget the model and its sessions.
DropDiscard ==
  /\ op.at = "discard"
  /\ phase[Web].at \notin {"load", "open"}
  /\ loaded' = [loaded EXCEPT ![Web] = FALSE]
  /\ opened' = [opened EXCEPT ![Web] = FALSE]
  /\ outdated' = outdated \ {Web}
  /\ op' = [op EXCEPT !.at = "unload"]
  /\ UNCHANGED <<disk, requests, faults, clients, daemon, missed>>

\* drop_model: UnloadModel. The daemon forgets the model for every process; a
\* load of this process that came after DropDiscard is undone as well.
DropUnload ==
  /\ op.at = "unload"
  /\ Forget
  /\ op' = [op EXCEPT !.at = "reload"]
  /\ outdated' = outdated \cup ({p \in Procs : loaded[p]} \ (IF op.again THEN {} ELSE {Web}))
  /\ UNCHANGED <<disk, requests, faults, clients, sessions, loaded, opened, missed>>

\* reload_plugins in the web process: read the registry, then stamp it.
WebReload ==
  /\ op.at = "reload"
  /\ plugins' = [plugins EXCEPT ![Web] = DiskPlugin]
  /\ missed' = missed \ {Web}
  /\ op' = [op EXCEPT !.at = "stamp"]
  /\ UNCHANGED <<disk, requests, faults, stamp, phase, records, daemon>>

WebStamp ==
  /\ op.at = "stamp"
  /\ stamp' = [stamp EXCEPT ![Web] = Stamp]
  /\ op' = [op EXCEPT !.at = "done"]
  /\ UNCHANGED <<disk, requests, faults, plugins, phase, records, daemon, missed>>

WebRequest ==
  \/ \E w \in Weights : DeployTrained(w) \/ \E e \in Ext : ImportSpecialist(w, e)
  \/ \E v \in versions : ActivateCopy(v)
  \/ DeleteSpecialist

WebStep ==
  \/ SaveMeta
  \/ DropPrepare
  \/ DropDiscard
  \/ DropUnload
  \/ WebReload
  \/ WebStamp

-----------------------------------------------------------------------------
\* One inference round of process p: run_behaviors, infer_boxes.

GoOn(p, at) == phase' = [phase EXCEPT ![p].at = at]
Ends(p) == phase' = [phase EXCEPT ![p] = Idle]

\* _reload_plugins_if_specialists_changed.
Round(p) ==
  /\ phase[p].at = "idle"
  /\ phase' = [phase EXCEPT ![p] = [at |-> IF Stamp > stamp[p] THEN "stamp" ELSE "infer",
                                    w |-> Absent]]
  /\ IF Stamp > stamp[p]
     THEN plugins' = [plugins EXCEPT ![p] = DiskPlugin] /\ missed' = missed \ {p}
     ELSE UNCHANGED <<plugins, missed>>
  /\ UNCHANGED <<disk, web, faults, stamp, records, daemon>>

TakeStamp(p) ==
  /\ phase[p].at = "stamp"
  /\ stamp' = [stamp EXCEPT ![p] = Stamp]
  /\ GoOn(p, "infer")
  /\ UNCHANGED <<disk, web, faults, plugins, records, daemon, missed>>

\* infer_boxes, under _lock: what the process believes decides what it asks
\* for. The daemon reads the ONNX file, whose content is w.
Decide(p, w) ==
  IF loaded[p] /\ opened[p] THEN GoOn(p, "call")
  ELSE IF loaded[p] THEN GoOn(p, "open")
  ELSE phase' = [phase EXCEPT ![p].at = "load", ![p].w = w]

\* ensure_onnx: the path is usable, or must be exported, or there is nothing.
Prepare(p) ==
  /\ phase[p].at = "infer"
  /\ IF plugins[p] = Absent THEN Ends(p)
     ELSE IF file[plugins[p].path] = Absent THEN Ends(p)
     ELSE IF plugins[p].path = "onnx" \/ UpToDate THEN Decide(p, file["onnx"].w)
     ELSE phase' = [phase EXCEPT ![p].at = "export", ![p].w = file["pt"].w]
  /\ UNCHANGED <<disk, web, faults, plugins, stamp, records, daemon, missed>>

\* The export has read the weights; it takes its time and may fail. Nothing is
\* written where the directory went meanwhile.
Export(p) ==
  /\ phase[p].at = "export"
  /\ \/ /\ versions # {}
        /\ file' = [file EXCEPT !["onnx"] = File(phase[p].w, now + 1)]
        /\ now' = now + 1
        /\ Decide(p, phase[p].w)
        /\ UNCHANGED faults
     \/ /\ IF versions = {} THEN UNCHANGED faults ELSE Fault
        /\ Ends(p) /\ UNCHANGED <<file, now>>
  /\ UNCHANGED <<versions, meta, rootT, web, plugins, stamp, records, daemon, missed>>

\* LoadModel: the daemon has read the file (above), now it publishes the model.
Load(p) ==
  /\ phase[p].at = "load"
  /\ \/ /\ Publish(phase[p].w)
        /\ loaded' = [loaded EXCEPT ![p] = TRUE]
        /\ op' = IF p = Web THEN [op EXCEPT !.again = op.at = "unload"] ELSE op
        /\ GoOn(p, IF opened[p] THEN "call" ELSE "open")
        /\ UNCHANGED faults
     \/ Fault /\ Ends(p) /\ UNCHANGED <<hub, loaded, op>>   \* BACKEND_FAILURE or no answer
  /\ UNCHANGED <<disk, requests, plugins, stamp, sessions, opened, outdated, missed>>

\* OpenSession is refused for a model the daemon does not have.
Open(p) ==
  /\ phase[p].at = "open"
  /\ IF OpenAllowed
     THEN /\ Upsert
          /\ opened' = [opened EXCEPT ![p] = TRUE]
          /\ GoOn(p, "call")
     ELSE Ends(p) /\ UNCHANGED <<sessions, opened>>
  /\ UNCHANGED <<disk, web, faults, plugins, stamp, hub, loaded, outdated, missed>>

\* Infer, whose Answer may be none. The round is over either way.
Call(p) ==
  /\ phase[p].at = "call"
  /\ Ends(p)
  /\ UNCHANGED <<disk, web, faults, plugins, stamp, records, daemon, missed>>

Infer(p) ==
  \/ Round(p)
  \/ TakeStamp(p)
  \/ Prepare(p)
  \/ Export(p)
  \/ Load(p)
  \/ Open(p)
  \/ Call(p)

-----------------------------------------------------------------------------
\* Restarts.

\* A process starts empty and reads the registry as it is imported.
ProcessRestart(p) ==
  /\ Fault
  /\ phase' = [phase EXCEPT ![p] = Idle]
  /\ loaded' = [loaded EXCEPT ![p] = FALSE]
  /\ opened' = [opened EXCEPT ![p] = FALSE]
  /\ outdated' = outdated \ {p}
  /\ plugins' = [plugins EXCEPT ![p] = DiskPlugin]
  /\ stamp' = [stamp EXCEPT ![p] = Stamp]
  /\ missed' = missed \ {p}
  /\ op' = IF p # Web \/ Free THEN op
           ELSE IF op.at = "meta" THEN [op EXCEPT !.at = "torn"] ELSE NoRequest
  /\ UNCHANGED <<disk, requests, daemon>>

DaemonRestart ==
  /\ Fault
  /\ hub' = Absent /\ sessions' = FALSE
  /\ phase' = [p \in Procs |-> IF phase[p].at \in {"load", "open", "call"} THEN Idle ELSE phase[p]]
  /\ outdated' = outdated \cup {p \in Procs : loaded[p]}
  /\ UNCHANGED <<disk, web, plugins, stamp, loaded, opened, missed>>

Next ==
  \/ WebRequest
  \/ WebStep
  \/ (\E p \in Analysts : Infer(p)) \/ (\E p \in Procs : ProcessRestart(p))
  \/ DaemonRestart

\* Requests are served and analysis threads run on; requests and faults
\* themselves need not come.
Fairness == WF_vars(WebStep) /\ \A p \in Analysts : WF_vars(Infer(p))

Spec == Init /\ [][Next]_vars /\ Fairness

-----------------------------------------------------------------------------
\* Properties.

\* What a process has noted as loaded, the daemon holds, with the session it
\* noted, unless the daemon was restarted or another thread's UnloadModel took
\* it away. (cpp_yolo._loaded, dedicated_yolo.drop_model)
RecordsAreTrue ==
  \A p \in Procs \ outdated :
    /\ loaded[p] => hub # Absent
    /\ opened[p] => loaded[p] /\ Answer # Absent

\* Pruning never takes the version the metadata calls active, and leaves no more
\* than MaxVersions: a rollback to what runs now stays possible. Only a crash
\* between the copy and the metadata excuses. (specialists.deploy_specialist)
ActiveVersionIsKept ==
  /\ Cardinality({v \in versions : ~v.legacy}) <= MaxVersions
  /\ meta # Absent /\ op.at \notin {"meta", "torn"}
       => \E v \in versions : Ref(v) = meta.active /\ v.ext = meta.ext

\* Every process ends up inferring with the registry as it is on disk, also
\* after a deletion, unless a write fell between its reading the registry and
\* its taking the stamp. (registry._reload_plugins_if_specialists_changed)
PluginsCatchUp ==
  \A p \in Analysts : <>[](\/ plugins[p] = DiskPlugin
                        \/ p \in missed
                        \/ op.at = "torn")
=============================================================================
