-------------------------------- MODULE SipPlay --------------------------------
(***************************************************************************)
(* Playing a channel of a GB/T 28181 device: requests of the API and of    *)
(* the workers go through a Redis list to the SIP process (core/sip/       *)
(* cmd.py), which carries them out one by one (core/sip/server.py,         *)
(* _cmd_loop, invite_play, bye_play) while its handlers take the device's  *)
(* registrations and answers.                                              *)
(*                                                                         *)
(* One device and one channel of it.  A step of the command loop is what   *)
(* it does from one await to the next that suspends it: the pause after    *)
(* the old stream is closed, the polling for media.  Sending to the device *)
(* does not suspend (drain returns at once below the high-water mark).     *)
(*                                                                         *)
(* Left out: how callers wait for the answer, the SDP, the ACK (sent       *)
(* whatever is known of the dialog), commands of other kinds.              *)
(* Bounds: the number of requests and the budget of disturbances.          *)
(***************************************************************************)
EXTENDS Integers, Sequences, FiniteSets

CONSTANTS
  MaxRequests,
  MaxDisturbances,
  Faults       \* what may disturb: a subset of FaultKinds

FaultKinds == {"register", "disconnect", "crash", "lose", "slow", "hangup", "port"}

ASSUME SipPlayAssumption ==
  MaxRequests \in Nat /\ MaxDisturbances \in Nat /\ Faults \subseteq FaultKinds

VARIABLES
  pushed,    \* requests so far
  queue,     \* the list gb28181/cmd
  loop,      \* the command in work and how far it is
  noted,     \* for each DeviceSession so far, the call in its invites, or 0
  current,   \* the DeviceSession in SipStack.sessions, or 0
  broken,    \* sessions whose connection is closed
  calls,     \* the transport each call was offered
  tagged,    \* calls whose 200 was noted
  failed,    \* calls with a fail_status
  rtp,       \* the call the open RTP server was opened for, or 0
  live,      \* the media server sees bytes
  accepts,   \* transports the device accepts
  wire,      \* requests on their way to the device
  back,      \* answers on their way back
  sending,   \* calls the device sends media for
  budget,
  quiet,     \* history: nothing was disturbed since the command was taken
  outcome,   \* history: what the last command came to
  dropped    \* history: calls that no BYE can end any more, for a known reason

queueVars == <<pushed, queue>>
sessVars == <<current, broken>>
devVars  == <<accepts, sending>>
vars == <<queueVars, loop, noted, sessVars, calls, tagged, failed, rtp, live, devVars,
          wire, back, budget, quiet, outcome, dropped>>

Requests == 1..MaxRequests
Ops      == {"invite", "force", "bye"}
Idle     == [at |-> "idle", id |-> 0, op |-> "bye", sess |-> 0]

Init ==
  /\ pushed = 0 /\ queue = <<>>
  /\ loop = Idle
  /\ noted = <<>> /\ current = 0 /\ broken = {}
  /\ calls = <<>> /\ tagged = {} /\ failed = {}
  /\ rtp = 0 /\ live = FALSE
  /\ accepts \in {{"tcp"}, {"udp"}, {"tcp", "udp"}}
  /\ wire = <<>> /\ back = {} /\ sending = {}
  /\ budget = MaxDisturbances /\ quiet = TRUE /\ outcome = "none" /\ dropped = {}

Disturb(fault) ==
  /\ fault \in Faults /\ budget > 0
  /\ budget' = budget - 1 /\ quiet' = FALSE
Undisturbed == UNCHANGED <<budget, quiet>>

ByesOn(w) == {w[i].call : i \in {j \in DOMAIN w : w[j].what = "BYE"}}
Bye(c)    == IF c = 0 THEN <<>> ELSE <<[what |-> "BYE", call |-> c]>>

-----------------------------------------------------------------------------
(* Callers, side by side.                                                  *)

\* enqueue_cmd.
Enqueue(op) ==
  /\ pushed < MaxRequests
  /\ pushed' = pushed + 1
  /\ queue' = Append(queue, [id |-> pushed + 1, op |-> op])
  /\ UNCHANGED <<loop, noted, sessVars, calls, tagged, failed, rtp, live, devVars,
                 wire, back, budget, quiet, outcome, dropped>>

\* gb28181_preview_play; for a channel that is analysed and live it need not.
AskPreview == Enqueue("invite")

\* ensure_gb_play of a worker, when there are no media or it insists.
AskAnalysis == Enqueue("force")

\* gb28181_preview_bye, for a channel that is not analysed.
AskBye == Enqueue("bye")

Push == AskPreview \/ AskAnalysis \/ AskBye

-----------------------------------------------------------------------------
(* The command loop.                                                       *)

\* BLPOP: from here on the command is in the process only.
Take ==
  /\ loop.at = "idle" /\ queue # <<>>
  /\ loop' = [at |-> "start", id |-> Head(queue).id, op |-> Head(queue).op, sess |-> 0]
  /\ queue' = Tail(queue)
  /\ quiet' = TRUE /\ outcome' = "none"
  /\ UNCHANGED <<pushed, noted, sessVars, calls, tagged, failed, rtp, live, devVars,
                 wire, back, budget, dropped>>

\* reply_cmd.
Reply(what) ==
  /\ outcome' = what
  /\ loop' = Idle

\* invite_play up to its pause.  A live stream is used as it is unless force.
InviteStart ==
  /\ loop.at = "start" /\ loop.op # "bye"
  /\ \/ current = 0 /\ Reply("no session") /\ UNCHANGED <<rtp, live>>
     \/ current # 0 /\ live /\ loop.op = "invite" /\ Reply("live") /\ UNCHANGED <<rtp, live>>
     \/ /\ current # 0 /\ ~(live /\ loop.op = "invite")
        /\ loop' = [loop EXCEPT !.at = "pause", !.sess = current]
        /\ rtp' = 0 /\ live' = FALSE
        /\ UNCHANGED outcome
  /\ UNCHANGED <<queueVars, noted, sessVars, calls, tagged, failed, devVars,
                 wire, back, budget, quiet, dropped>>

\* One turn of the loop over the transports: the call old is ended, the RTP
\* server is opened and the INVITE sent and noted, in place of whatever was.
Invite(old, transport) ==
  LET c == Len(calls) + 1
      kept == noted[loop.sess] IN
  /\ calls' = Append(calls, transport)
  /\ noted' = [noted EXCEPT ![loop.sess] = c]
  /\ dropped' = IF loop.op = "invite" THEN dropped \cup ({kept} \ {0, old}) ELSE dropped
  /\ wire' = wire \o Bye(old) \o <<[what |-> "INVITE", call |-> c]>>
  /\ rtp' = c /\ live' = FALSE
  /\ loop' = [loop EXCEPT !.at = transport]
  /\ UNCHANGED outcome

\* No port could be opened for any transport that is left.
NoPort(old) ==
  /\ noted' = [noted EXCEPT ![loop.sess] = IF old = 0 THEN @ ELSE 0]
  /\ wire' = wire \o Bye(old)
  /\ rtp' = 0 /\ live' = FALSE
  /\ Reply("no port")
  /\ UNCHANGED <<calls, dropped>>

\* Writing to a closed connection raises; _cmd_loop answers with the error.
SendFails ==
  /\ loop.sess \in broken
  /\ Reply("failed")
  /\ UNCHANGED <<noted, calls, wire, rtp, live, dropped>>

\* ... or it raises when the port was opened for a call already.
OpensInVain(transport) ==
  /\ loop.sess \in broken
  /\ calls' = Append(calls, transport) /\ rtp' = Len(calls) + 1
  /\ Reply("failed")
  /\ UNCHANGED <<noted, wire, live, dropped>>

\* The end of the pause: force ends the noted call.
InvitePause ==
  /\ loop.at = "pause"
  /\ LET old == IF loop.op = "force" THEN noted[loop.sess] ELSE 0 IN
     \/ old # 0 /\ SendFails /\ Undisturbed
     \/ old = 0 /\ OpensInVain("tcp") /\ Undisturbed
     \/ loop.sess \notin broken /\ Invite(old, "tcp") /\ Undisturbed
     \/ loop.sess \notin broken /\ Disturb("port") /\ (Invite(old, "udp") \/ NoPort(old))
  /\ UNCHANGED <<queueVars, sessVars, tagged, failed, devVars, back>>

Polling == loop.at \in {"tcp", "udp"}
Call    == noted[loop.sess]

PollLive ==
  /\ Polling /\ live /\ Call \notin failed
  /\ Reply("live")
  /\ UNCHANGED <<queueVars, noted, sessVars, calls, tagged, failed, rtp, live, devVars,
                 wire, back, budget, quiet, dropped>>

\* 8 s are enough for the device's answer and its first bytes unless it is slow.
NothingToCome == wire = <<>> /\ back = {} /\ rtp \notin sending

\* Mutant: the next transport is tried without ending the call of the first.
NextTransportWithoutBye ==
  \/ loop.at = "tcp" /\ SendFails
  \/ loop.at = "tcp" /\ loop.sess \notin broken /\ Invite(0, "udp")
  \/ /\ loop.at = "udp" /\ Reply("not yet")
     /\ UNCHANGED <<noted, calls, wire, rtp, live, dropped>>

\* Mutant: one transport only.
NextTransportNever ==
  Reply("not yet") /\ UNCHANGED <<noted, calls, wire, rtp, live, dropped>>

\* After TCP the call is ended and UDP tried; after UDP the call stays noted.
NextTransport ==
  \/ loop.at = "tcp" /\ SendFails
  \/ loop.at = "tcp" /\ loop.sess \notin broken /\ Invite(Call, "udp")
  \/ /\ loop.at = "udp" /\ Reply("not yet")
     /\ UNCHANGED <<noted, calls, wire, rtp, live, dropped>>

PollFailed ==
  /\ Polling /\ Call \in failed
  /\ NextTransport /\ Undisturbed
  /\ UNCHANGED <<queueVars, sessVars, tagged, failed, devVars, back>>

\* Mutant: only a refusal ends the polling.
PollUntilAnswered ==
  /\ Polling /\ ~live /\ NothingToCome /\ Call \in failed
  /\ NextTransport /\ Undisturbed
  /\ UNCHANGED <<queueVars, sessVars, tagged, failed, devVars, back>>

PollTimesOut ==
  /\ Polling /\ ~live /\ NothingToCome
  /\ NextTransport /\ Undisturbed
  /\ UNCHANGED <<queueVars, sessVars, tagged, failed, devVars, back>>

\* The device is slow: the time is over although something is to come.
PollTimesOutEarly ==
  /\ Polling /\ ~live /\ ~NothingToCome
  /\ NextTransport /\ Disturb("slow")
  /\ UNCHANGED <<queueVars, sessVars, tagged, failed, devVars, back>>

\* No port is free for the second transport.
PollNoPort ==
  /\ loop.at = "tcp" /\ loop.sess \notin broken
  /\ Call \in failed \/ ~live
  /\ NoPort(Call) /\ Disturb("port")
  /\ UNCHANGED <<queueVars, sessVars, tagged, failed, devVars, back>>

\* bye_play: the call noted in the session there is now, if there is one.
ByePlay ==
  /\ loop.at = "start" /\ loop.op = "bye"
  /\ IF current = 0 THEN UNCHANGED <<noted, wire>>
     ELSE /\ wire' = wire \o Bye(noted[current])
          /\ noted' = [noted EXCEPT ![current] = 0]
  /\ rtp' = 0 /\ live' = FALSE
  /\ Reply("bye")
  /\ UNCHANGED <<queueVars, sessVars, calls, tagged, failed, devVars,
                 back, budget, quiet, dropped>>

-----------------------------------------------------------------------------
(* Handlers of the SIP process and its life.                               *)

\* _on_register: a new session without dialogs, also when one is there.
Register ==
  /\ IF current = 0 THEN Undisturbed ELSE Disturb("register")
  /\ noted' = Append(noted, 0) /\ current' = Len(noted) + 1
  /\ UNCHANGED <<queueVars, loop, broken, calls, tagged, failed, rtp, live, devVars,
                 wire, back, outcome, dropped>>

\* The session ends: its connection closes and what was on it is lost, or the
\* device signs off or misses its keepalives.
SessionEnds ==
  /\ current # 0 /\ Disturb("disconnect")
  /\ current' = 0
  /\ \/ /\ broken' = broken \cup {current}
        /\ wire' = <<>> /\ dropped' = dropped \cup ByesOn(wire)
     \/ UNCHANGED <<broken, wire, dropped>>
  /\ UNCHANGED <<queueVars, loop, noted, calls, tagged, failed, rtp, live, devVars, back, outcome>>

\* _on_response: only dialogs of current sessions are looked through.
Respond ==
  \E answer \in back :
    /\ back' = back \ {answer}
    /\ LET ours == current # 0 /\ noted[current] = answer.call IN
       /\ tagged' = tagged \cup (IF ours /\ answer.ok THEN {answer.call} ELSE {})
       /\ failed' = failed \cup (IF ours /\ ~answer.ok THEN {answer.call} ELSE {})
    /\ UNCHANGED <<queueVars, loop, noted, sessVars, calls, rtp, live, devVars,
                   wire, budget, quiet, outcome, dropped>>

\* A restart, or a Redis error in the loop, which catches none around BLPOP
\* and the reply.  Dialogs are in memory only.
Crash ==
  /\ Disturb("crash")
  /\ loop' = Idle /\ outcome' = "none"
  /\ noted' = <<>> /\ current' = 0 /\ broken' = {}
  /\ back' = {}
  /\ dropped' = dropped \cup {noted[s] : s \in DOMAIN noted}
  /\ UNCHANGED <<queueVars, calls, tagged, failed, rtp, live, devVars, wire>>

-----------------------------------------------------------------------------
(* The device and the media server.                                        *)

\* A BYE without the tag of the 200 may match no dialog of the device.
Receive ==
  /\ wire # <<>>
  /\ wire' = Tail(wire)
  /\ LET c == Head(wire).call IN
     \/ /\ Head(wire).what = "INVITE"
        /\ sending' = IF calls[c] \in accepts THEN sending \cup {c} ELSE sending
        /\ back' = back \cup {[call |-> c, ok |-> calls[c] \in accepts]}
        /\ UNCHANGED dropped
     \/ /\ Head(wire).what = "BYE"
        /\ sending' = sending \ {c}
        /\ UNCHANGED <<back, dropped>>
     \/ /\ Head(wire).what = "BYE" /\ c \notin tagged
        /\ dropped' = dropped \cup {c}
        /\ UNCHANGED <<back, sending>>
  /\ UNCHANGED <<queueVars, loop, noted, sessVars, calls, tagged, failed, rtp, live, accepts,
                 budget, quiet, outcome>>

\* A datagram is lost.
Lose ==
  /\ wire # <<>> /\ Disturb("lose")
  /\ wire' = Tail(wire)
  /\ dropped' = dropped \cup ByesOn(<<Head(wire)>>)
  /\ UNCHANGED <<queueVars, loop, noted, sessVars, calls, tagged, failed, rtp, live, devVars,
                 back, outcome>>

\* The device ends a call by itself; nothing in the SIP process notices.
HangUp(c) ==
  /\ c \in sending /\ Disturb("hangup")
  /\ sending' = sending \ {c}
  /\ UNCHANGED <<queueVars, loop, noted, sessVars, calls, tagged, failed, rtp, live, accepts,
                 wire, back, outcome, dropped>>

\* An older call may reach the port too: the first free one is taken again.
MediaArrives(c) ==
  /\ c \in sending /\ rtp # 0 /\ ~live
  /\ live' = TRUE
  /\ UNCHANGED <<queueVars, loop, noted, sessVars, calls, tagged, failed, rtp, devVars,
                 wire, back, budget, quiet, outcome, dropped>>

MediaStops ==
  /\ live /\ rtp \notin sending
  /\ live' = FALSE
  /\ UNCHANGED <<queueVars, loop, noted, sessVars, calls, tagged, failed, rtp, devVars,
                 wire, back, budget, quiet, outcome, dropped>>

-----------------------------------------------------------------------------
LoopStep   == Take \/ InviteStart \/ InvitePause \/ ByePlay
              \/ PollLive \/ PollFailed \/ PollTimesOut \/ PollTimesOutEarly \/ PollNoPort
SipStep    == Register \/ SessionEnds \/ Respond \/ Crash
DeviceStep == Receive \/ Lose \/ MediaStops
              \/ \E c \in DOMAIN calls : HangUp(c) \/ MediaArrives(c)

Next == Push \/ LoopStep \/ SipStep \/ DeviceStep

Spec == Init /\ [][Next]_vars

(* The loop runs on, messages that are not lost arrive, and the media of   *)
(* the call the port was opened for reach it.                              *)
FairSpec ==
  /\ Spec
  /\ WF_vars(Take) /\ WF_vars(InviteStart) /\ WF_vars(InvitePause) /\ WF_vars(ByePlay)
  /\ WF_vars(PollLive \/ PollFailed \/ PollTimesOut)
  /\ WF_vars(Respond) /\ WF_vars(Receive)
  /\ WF_vars(rtp \in DOMAIN calls /\ MediaArrives(rtp))

-----------------------------------------------------------------------------
Calls == DOMAIN calls

TypeOK ==
  /\ pushed \in 0..MaxRequests /\ queue \in Seq([id : Requests, op : Ops])
  /\ loop \in [at : {"idle", "start", "pause", "tcp", "udp"}, id : 0..MaxRequests,
               op : Ops, sess : 0..Len(noted)]
  /\ loop.at \in {"pause", "tcp", "udp"} => loop.sess # 0 /\ loop.op # "bye"
  /\ loop.at = "idle" <=> loop.id = 0
  /\ noted \in Seq({0} \cup Calls) /\ current \in 0..Len(noted) /\ broken \subseteq DOMAIN noted
  /\ Polling => Call # 0
  /\ calls \in Seq({"tcp", "udp"}) /\ tagged \subseteq Calls /\ failed \subseteq Calls
  /\ rtp \in {0} \cup Calls /\ live \in BOOLEAN /\ (live => rtp # 0)
  /\ accepts \subseteq {"tcp", "udp"} /\ sending \subseteq Calls
  /\ wire \in Seq([what : {"INVITE", "BYE"}, call : Calls])
  /\ back \subseteq [call : Calls, ok : BOOLEAN]
  /\ budget \in 0..MaxDisturbances /\ quiet \in BOOLEAN
  /\ outcome \in {"none", "live", "not yet", "no session", "no port", "failed", "bye"}
  /\ dropped \subseteq {0} \cup Calls

Noted == {noted[s] : s \in DOMAIN noted}

(* Every call the device sends media for is noted in a session, or its BYE  *)
(* is on the way, or it was dropped: overwritten by a later INVITE without  *)
(* force, its BYE lost or refused, or the process ended.                    *)
NoSilentLeak == sending \subseteq Noted \cup ByesOn(wire) \cup dropped

(* An INVITE for a registered device that accepts one of the transports is  *)
(* answered with live media unless something disturbed it while it ran,     *)
(* whatever earlier commands left behind.                                   *)
UndisturbedInviteIsLive == outcome = "not yet" => ~quiet

(* Every command is carried out and answered, or lost in a crash: none      *)
(* holds up the loop.                                                       *)
Executed ==
  \A r \in Requests :
    pushed >= r ~> loop.id # r /\ \A i \in DOMAIN queue : queue[i].id # r
=============================================================================
