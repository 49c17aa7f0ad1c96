------------------------------- MODULE Broadcast -------------------------------
(***************************************************************************)
(* Speaking through a GB/T 28181 camera: the browser pushes its microphone *)
(* to the media server, a request of the web asks the SIP process for a    *)
(* broadcast through a list in Redis and waits for the answer in a key of  *)
(* its own; the SIP process notifies the camera of one target after the    *)
(* other; the camera accepts and then invites the platform, which has the  *)
(* media server send the audio (core/sip/cmd.py, core/sip/server.py). One  *)
(* camera; the command loop takes one command at a time, and between its   *)
(* awaits the camera's messages are handled, one at a time.                *)
(***************************************************************************)
EXTENDS Integers, Sequences, FiniteSets, SequencesExt

CONSTANTS MaxCommands,   \* bound: commands 1..MaxCommands; a command's
                         \* number also names its microphone stream
          MaxTargets,    \* targets that are tried
          MaxCalls,      \* bound: INVITEs of the camera
          Faults, MaxFaults  \* bound on what goes wrong

FaultKinds == {"unregister", "silence", "zlm", "reinvite", "crash"}

ASSUME BroadcastBounds ==
  /\ MaxCommands \in Nat /\ MaxTargets \in Nat \ {0} /\ MaxCalls \in Nat
  /\ Faults \subseteq FaultKinds /\ MaxFaults \in Nat

VARIABLES
  queue,     \* gb28181 commands in Redis
  result,    \* answers in Redis: <<command, ok>>
  caller,    \* how far the web request of each command is
  loop,      \* the command in work
  waiter,    \* _broadcast_waiters: "none", "open", or its result
  entry,     \* _broadcasts: the broadcast of the camera, or 0
  ssrc, callId,  \* in each broadcast's entry: calls of the camera, or 0
  handler,   \* the INVITE in work: broadcast and call
  session,   \* the camera has a SIP session
  mic,       \* microphone streams at the media server
  sending,   \* what the media server sends: <<stream, call>>
  asked,     \* Notifies the camera has not answered
  willing,   \* it accepted one and will invite
  wire, calls, talks,  \* INVITEs on their way, given so far; calls it is in
  faults,
  answered,  \* history: commands that were answered
  lost       \* history: sendings no entry knows, for a known reason

broadcastVars == <<queue, result, caller, loop, waiter, entry, ssrc, callId, handler, session, mic, sending,
                   asked, willing, wire, calls, talks, faults, answered, lost>>

Commands == 1..MaxCommands
NoCommand == [at |-> "idle", id |-> 0, op |-> "stop", target |-> 0]
NoInvite == [entry |-> 0, call |-> 0]

BroadcastInit ==
  /\ queue = <<>> /\ result = {} /\ caller = [i \in Commands |-> "absent"]
  /\ loop = NoCommand /\ waiter = "none"
  /\ entry = 0 /\ ssrc = [i \in Commands |-> 0] /\ callId = ssrc
  /\ handler = NoInvite
  /\ session = TRUE /\ mic = {} /\ sending = {}
  /\ asked = 0 /\ willing = FALSE /\ wire = {} /\ calls = 0 /\ talks = {}
  /\ faults = 0 /\ answered = {} /\ lost = {}

Fault(kind) == kind \in Faults /\ faults < MaxFaults /\ faults' = faults + 1

webVars == <<queue, result, caller>>
sipVars == <<loop, waiter, entry, ssrc, callId, handler, session>>
cameraVars == <<asked, willing, wire, calls, talks>>
history == <<answered, lost>>

-----------------------------------------------------------------------------
\* The browser's microphone at the media server; it is pushed before a
\* broadcast is asked for.
PushMicrophone(i) == mic' = mic \cup {i}
Online(i) == i \in mic

\* A request of the web: enqueue_cmd pushes the command and only then removes
\* the key of its answer.
EnqueueCmd(i, op) ==
  /\ caller' = [caller EXCEPT ![i] = "pushed"]
  /\ queue' = Append(queue, [id |-> i, op |-> op])

AskBroadcast ==
  /\ \E i \in Commands :
       /\ caller[i] = "absent" /\ \A j \in 1..i-1 : caller[j] # "absent"
       /\ EnqueueCmd(i, "start") /\ PushMicrophone(i)
  /\ UNCHANGED <<result, sipVars, sending, cameraVars, faults, history>>

AskStop ==
  /\ \E i \in Commands :
       /\ caller[i] = "absent" /\ \A j \in 1..i-1 : caller[j] # "absent"
       /\ EnqueueCmd(i, "stop")
  /\ UNCHANGED <<result, sipVars, mic, sending, cameraVars, faults, history>>

ClearResult(i) ==
  /\ caller[i] = "pushed"
  /\ caller' = [caller EXCEPT ![i] = "waiting"]
  /\ result' = {r \in result : r[1] # i}
  /\ UNCHANGED <<queue, sipVars, mic, sending, cameraVars, faults, history>>

\* wait_result: the answer, which stays, or the caller's time is up.
WaitResult(i) ==
  /\ caller[i] = "waiting"
  /\ \/ \E r \in result : r[1] = i /\ caller' = [caller EXCEPT ![i] = IF r[2] THEN "ok" ELSE "refused"]
     \/ (\A r \in result : r[1] # i) /\ caller' = [caller EXCEPT ![i] = "timeout"]
  /\ UNCHANGED <<queue, result, sipVars, mic, sending, cameraVars, faults, history>>

\* The browser closes the microphone: what is sent of the stream ends.
MicOff(i) ==
  /\ i \in mic
  /\ mic' = mic \ {i} /\ sending' = {s \in sending : s[1] # i}
  /\ UNCHANGED <<webVars, sipVars, cameraVars, faults, history>>

-----------------------------------------------------------------------------
\* The command loop.
Take ==
  /\ loop.at = "idle" /\ queue # <<>>
  /\ loop' = [at |-> Head(queue).op, id |-> Head(queue).id, op |-> Head(queue).op, target |-> 1]
  /\ queue' = Tail(queue)
  /\ UNCHANGED <<result, caller, waiter, entry, ssrc, callId, handler, session, mic, sending, cameraVars, faults, history>>

\* reply_cmd: a key per command.
Reply(ok) ==
  /\ result' = result \cup {<<loop.id, ok>>}
  /\ answered' = answered \cup {loop.id}
  /\ loop' = NoCommand

\* What stopSendRtp is asked to end for an entry.
Sent(i) == <<i, ssrc[i]>>

\* Mutant: the entry goes, nothing is stopped at the media server.
DropKeepsSending(i) ==
  /\ entry' = 0
  /\ UNCHANGED <<sending, lost, faults>>

\* _stop_send_rtp by the stream and ssrc of the entry, which is dropped; it
\* may fail at the media server. A handler at work may start it once more.
Drop(i) ==
  /\ entry' = 0
  /\ \/ /\ sending' = sending \ {Sent(i)}
        /\ lost' = IF handler.entry = i THEN lost \cup {<<i, handler.call>>} ELSE lost
        /\ UNCHANGED faults
     \/ /\ Fault("zlm") /\ i # 0
        /\ lost' = lost \cup {Sent(i), <<i, handler.call>>}
        /\ UNCHANGED sending

\* stop_broadcast: with or without an entry, BYE if the camera has a session.
StopBroadcast ==
  /\ loop.at = "stop"
  /\ IF entry = 0 THEN UNCHANGED <<entry, sending, lost, faults, talks>>
     ELSE /\ Drop(entry)
          /\ talks' = IF session THEN talks \ {callId[entry]} ELSE talks
  /\ Reply(TRUE)
  /\ UNCHANGED <<queue, caller, waiter, ssrc, callId, handler, session, mic, asked, willing, wire, calls>>

\* start_broadcast up to its first await: a broadcast there is ended first.
StartBroadcast ==
  /\ loop.at = "start"
  /\ \/ /\ ~session /\ Reply(FALSE) /\ UNCHANGED <<entry, sending, lost, faults, talks>>
     \/ /\ session /\ loop' = [loop EXCEPT !.at = "mic"]
        /\ IF entry = 0 THEN UNCHANGED <<entry, sending, lost, faults, talks>>
           ELSE Drop(entry) /\ talks' = talks \ {callId[entry]}
        /\ UNCHANGED <<result, answered>>
  /\ UNCHANGED <<queue, caller, waiter, ssrc, callId, handler, session, mic, asked, willing, wire, calls>>

\* _wait_app_stream.
WaitAppStream ==
  /\ loop.at = "mic"
  /\ IF Online(loop.id) THEN loop' = [loop EXCEPT !.at = "notify"] /\ UNCHANGED <<result, answered>>
     ELSE Reply(FALSE)
  /\ UNCHANGED <<queue, caller, waiter, entry, ssrc, callId, handler, session, mic, sending, cameraVars, faults, lost>>

\* The Notify for a target, with a waiter for the camera (not for the target).
Notify ==
  /\ loop.at = "notify"
  /\ waiter' = "open" /\ asked' = asked + 1
  /\ loop' = [loop EXCEPT !.at = "await"]
  /\ UNCHANGED <<webVars, entry, ssrc, callId, handler, session, mic, sending, willing, wire, calls, talks, faults, history>>

\* The answer, or three seconds without one; the next target, or none left.
Await ==
  /\ loop.at = "await"
  /\ waiter' = "none"
  /\ IF waiter = "OK"
     THEN Reply(TRUE) /\ entry' = loop.id
     ELSE /\ UNCHANGED entry
          /\ IF loop.target < MaxTargets
             THEN loop' = [loop EXCEPT !.at = "notify", !.target = @ + 1] /\ UNCHANGED <<result, answered>>
             ELSE Reply(FALSE)
  /\ UNCHANGED <<queue, caller, ssrc, callId, handler, session, mic, sending, cameraVars, faults, lost>>

-----------------------------------------------------------------------------
\* The camera's answer to a Notify goes to whoever waits for the camera.
BroadcastResponse ==
  /\ asked > 0 /\ asked' = asked - 1
  /\ \E ok \in BOOLEAN :
       /\ willing' = (willing \/ ok)
       /\ waiter' = IF waiter = "open" THEN (IF ok THEN "OK" ELSE "ERROR") ELSE waiter
  /\ UNCHANGED <<webVars, loop, entry, ssrc, callId, handler, session, mic, sending, wire, calls, talks, faults, history>>

Silence ==
  /\ asked > 0 /\ asked' = asked - 1 /\ Fault("silence")
  /\ UNCHANGED <<webVars, sipVars, mic, sending, willing, wire, calls, talks, history>>

\* A camera that accepted invites; it may do so once more.
CameraInvites ==
  /\ calls < MaxCalls /\ session
  /\ \/ willing /\ willing' = FALSE /\ UNCHANGED faults
     \/ talks # {} /\ Fault("reinvite") /\ UNCHANGED willing
  /\ calls' = calls + 1 /\ wire' = wire \cup {calls + 1}
  /\ UNCHANGED <<webVars, sipVars, mic, sending, asked, talks, history>>

\* _on_invite up to startSendRtp; 488 without an entry.
OnInvite ==
  /\ handler = NoInvite
  /\ \E c \in wire :
       /\ wire' = wire \ {c}
       /\ IF entry = 0 THEN UNCHANGED <<handler, ssrc, lost>>
          ELSE /\ handler' = [entry |-> entry, call |-> c]
               /\ ssrc' = [ssrc EXCEPT ![entry] = c]
               /\ lost' = lost \cup {Sent(entry)}
  /\ UNCHANGED <<webVars, loop, waiter, entry, callId, session, mic, sending, asked, willing, calls, talks, faults, answered>>

\* _start_send_rtp_retry: the media server has the microphone within two seconds.
StartsSending ==
  /\ Online(handler.entry)
  /\ sending' = sending \cup {<<handler.entry, handler.call>>}

\* The answer of _on_invite, 200 or 488.
StartSendRtp ==
  /\ handler # NoInvite
  /\ handler' = NoInvite
  /\ \/ /\ StartsSending
        /\ talks' = talks \cup {handler.call}
        /\ callId' = [callId EXCEPT ![handler.entry] = handler.call]
     \/ UNCHANGED <<sending, talks, callId>>
  /\ UNCHANGED <<webVars, loop, waiter, entry, ssrc, session, mic, asked, willing, wire, calls, faults, history>>

\* _on_bye: the entry whose call it is.
OnBye ==
  /\ handler = NoInvite
  /\ \E c \in talks :
       /\ talks' = talks \ {c}
       /\ IF entry # 0 /\ callId[entry] = c THEN Drop(entry) ELSE UNCHANGED <<entry, sending, lost, faults>>
  /\ UNCHANGED <<webVars, loop, waiter, ssrc, callId, handler, session, mic, asked, willing, wire, calls, answered>>

Unregister ==
  /\ session /\ Fault("unregister") /\ session' = FALSE
  /\ UNCHANGED <<webVars, loop, waiter, entry, ssrc, callId, handler, mic, sending, cameraVars, history>>

RegisterAgain ==
  /\ ~session /\ session' = TRUE
  /\ UNCHANGED <<webVars, loop, waiter, entry, ssrc, callId, handler, mic, sending, cameraVars, faults, history>>

\* The SIP process starts anew: its tables are empty, the command is gone.
Crash ==
  /\ Fault("crash")
  /\ loop' = NoCommand /\ waiter' = "none" /\ entry' = 0 /\ handler' = NoInvite /\ session' = FALSE
  /\ lost' = lost \cup sending
  /\ UNCHANGED <<webVars, ssrc, callId, mic, sending, cameraVars, answered>>

BroadcastNext ==
  \/ AskBroadcast \/ AskStop \/ Take \/ StopBroadcast \/ StartBroadcast \/ WaitAppStream \/ Notify \/ Await
  \/ \E i \in Commands : ClearResult(i) \/ WaitResult(i) \/ MicOff(i)
  \/ BroadcastResponse \/ Silence \/ CameraInvites \/ OnInvite \/ StartSendRtp \/ OnBye
  \/ Unregister \/ RegisterAgain \/ Crash

-----------------------------------------------------------------------------
\* No microphone is sent to a camera without anybody to end it: what the media
\* server sends belongs to the entry that stop_broadcast and the camera's BYE
\* look up, unless the stop came while its INVITE was in work or failed at the
\* media server, the camera invited twice or the SIP process started anew.
NoSilentSend == \A s \in sending : (s[1] = entry /\ s = Sent(entry)) \/ s \in lost

\* wait_result reports that the signalling process did not answer only when
\* it did not.
TimeoutMeansNoAnswer ==
  [][\A i \in Commands : caller[i] = "waiting" /\ caller'[i] = "timeout" => i \notin answered]_broadcastVars
=============================================================================
