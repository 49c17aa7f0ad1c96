---------------------------- MODULE SipPlayProofs ----------------------------
(***************************************************************************)
(* Type correctness of SipPlay, NoSilentLeak and UndisturbedInviteIsLive,  *)
(* for every number of requests and every set and number of faults.        *)
(*                                                                         *)
(* NoSilentLeak is about calls the device sends media for, and it begins   *)
(* to when it receives an INVITE.  So the same must hold of the INVITEs on *)
(* the way (Ordered), with one difference: the BYE that will end the call  *)
(* must be behind the INVITE.  What the loop does to the calls it knows    *)
(* has one form, put into the lemma Known: it appends messages, and a call *)
(* it no longer knows is ended by one of them.                             *)
(***************************************************************************)
EXTENDS SipPlay, SequenceTheorems, TLAPS

Messages(C) == [what : {"INVITE", "BYE"}, call : C]
Transports  == {"tcp", "udp"}

USE SipPlayAssumption

\* The messages Bye sends, and the single INVITE.
LEMMA ByeTyped ==
  ASSUME NEW C, NEW c \in {0} \cup C
  PROVE  Bye(c) \in Seq(Messages(C))
<1>1. CASE c = 0
  BY <1>1, EmptySeq DEF Bye
<1>2. CASE c # 0
  BY <1>2 DEF Bye, Messages
<1> QED
  BY <1>1, <1>2

LEMMA InviteTyped ==
  ASSUME NEW C, NEW c \in C
  PROVE  <<[what |-> "INVITE", call |-> c]>> \in Seq(Messages(C))
  BY DEF Messages

\* TypeOK, put into parts that different steps disturb.
QueueType == pushed \in 0..MaxRequests /\ queue \in Seq([id : Requests, op : Ops])
LoopType ==
  /\ loop \in [at : {"idle", "start", "pause", "tcp", "udp"}, id : 0..MaxRequests,
               op : Ops, sess : 0..Len(noted)]
  /\ loop.at \in {"pause", "tcp", "udp"} => loop.sess # 0 /\ loop.op # "bye"
  /\ loop.at = "idle" <=> loop.id = 0
NotedType ==
  /\ noted \in Seq({0} \cup Calls) /\ current \in 0..Len(noted) /\ broken \subseteq DOMAIN noted
  /\ Polling => Call # 0
CallsType ==
  /\ calls \in Seq(Transports) /\ tagged \subseteq Calls /\ failed \subseteq Calls
  /\ accepts \subseteq Transports /\ sending \subseteq Calls
  /\ back \subseteq [call : Calls, ok : BOOLEAN] /\ dropped \subseteq {0} \cup Calls
MediaType == rtp \in {0} \cup Calls /\ live \in BOOLEAN /\ (live => rtp # 0)
WireType  == wire \in Seq(Messages(Calls))
HistType ==
  /\ budget \in 0..MaxDisturbances /\ quiet \in BOOLEAN
  /\ outcome \in {"none", "live", "not yet", "no session", "no port", "failed", "bye"}

TypeInv == /\ QueueType /\ LoopType /\ NotedType /\ CallsType
           /\ MediaType /\ WireType /\ HistType

LEMMA CallsTyped ==
  ASSUME TypeInv
  PROVE  /\ Calls = 1..Len(calls) /\ Len(calls) \in Nat
         /\ DOMAIN noted = 1..Len(noted) /\ Len(noted) \in Nat
         /\ \A s \in 1..Len(noted) : noted[s] \in {0} \cup Calls
  BY LenProperties, ElementOfSeq DEF TypeInv, CallsType, NotedType, Calls

\* A new call: what was typed by the calls so far stays typed.
LEMMA NewCall ==
  ASSUME TypeInv, NEW t \in Transports, calls' = Append(calls, t)
  PROVE  /\ calls' \in Seq(Transports)
         /\ Calls' = Calls \cup {Len(calls) + 1}
         /\ noted \in Seq({0} \cup Calls') /\ wire \in Seq(Messages(Calls'))
         /\ tagged \subseteq Calls' /\ failed \subseteq Calls' /\ sending \subseteq Calls'
         /\ back \subseteq [call : Calls', ok : BOOLEAN]
         /\ dropped \subseteq {0} \cup Calls'
<1>1. calls' \in Seq(Transports) /\ Calls' = Calls \cup {Len(calls) + 1}
  <2>1. calls \in Seq(Transports)
    BY DEF TypeInv, CallsType
  <2>2. calls' \in Seq(Transports) /\ Len(calls') = Len(calls) + 1
    BY <2>1
  <2>3. Calls = 1..Len(calls) /\ Calls' = 1..Len(calls')
    BY <2>1, <2>2 DEF Calls
  <2> QED
    BY <2>1, <2>2, <2>3, LenProperties
<1>2. {0} \cup Calls \subseteq {0} \cup Calls' /\ Messages(Calls) \subseteq Messages(Calls')
  BY <1>1 DEF Messages
<1>3. noted \in Seq({0} \cup Calls')
  BY <1>2, SeqMonotonic DEF TypeInv, NotedType
<1>4. wire \in Seq(Messages(Calls'))
  BY <1>2, SeqMonotonic DEF TypeInv, WireType
<1>5. back \subseteq [call : Calls', ok : BOOLEAN]
  BY <1>1 DEF TypeInv, CallsType
<1> QED
  BY <1>1, <1>3, <1>4, <1>5 DEF TypeInv, CallsType

\* The calls BYEs are on the way for.
LEMMA ByesTyped ==
  ASSUME NEW C, NEW w \in Seq(Messages(C))
  PROVE  ByesOn(w) \subseteq C
<1>1. ASSUME NEW i \in DOMAIN w PROVE w[i].call \in C
  <2>1. w[i] \in Messages(C)
    BY <1>1, LenProperties, ElementOfSeq
  <2> QED
    BY <2>1 DEF Messages
<1> QED
  BY <1>1 DEF ByesOn

LEMMA HeadByesTyped ==
  ASSUME NEW C, NEW m \in Messages(C)
  PROVE  ByesOn(<<m>>) \subseteq C
<1>1. <<m>> \in Seq(Messages(C))
  OBVIOUS
<1> QED
  BY <1>1, ByesTyped

-----------------------------------------------------------------------------
LEMMA TypeInit == Init => TypeInv
<1> SUFFICES ASSUME Init PROVE TypeInv
  OBVIOUS
<1> USE DEF Init
<1>1. QueueType /\ WireType /\ HistType
  BY EmptySeq DEF QueueType, WireType, HistType
<1>2. LoopType /\ NotedType
  BY EmptySeq DEF LoopType, NotedType, Idle, Polling, Ops
<1>3. CallsType /\ MediaType
  BY EmptySeq DEF CallsType, MediaType, Transports
<1> QED
  BY <1>1, <1>2, <1>3 DEF TypeInv

\* The loop invites: its state and everything it writes stays typed.
LEMMA InviteType ==
  ASSUME TypeInv, NEW old \in {0} \cup Calls, NEW t \in Transports,
         loop.at \in {"pause", "tcp"}, Invite(old, t),
         UNCHANGED <<queueVars, sessVars, tagged, failed, devVars, back>>,
         budget' \in 0..MaxDisturbances, quiet' \in BOOLEAN
  PROVE  TypeInv'
<1> DEFINE c == Len(calls) + 1
<1>1. loop.sess \in 1..Len(noted)
  BY CallsTyped DEF TypeInv, LoopType
<1>2. c \in Calls' /\ c # 0
  BY NewCall, CallsTyped DEF Invite
<1>3. NotedType' /\ Len(noted') = Len(noted)
  <2>1. noted' \in Seq({0} \cup Calls') /\ Len(noted') = Len(noted) /\ noted'[loop.sess] = c
    BY <1>1, <1>2, NewCall, ExceptSeq DEF Invite
  <2>2. loop'.sess = loop.sess
    BY DEF TypeInv, Invite, LoopType
  <2> QED
    BY <1>2, <2>1, <2>2, LenProperties DEF TypeInv, NotedType, Call, Polling, sessVars
<1>4. WireType'
  <2>1. Bye(old) \in Seq(Messages(Calls'))
    BY ByeTyped, NewCall DEF Invite
  <2>2. <<[what |-> "INVITE", call |-> c]>> \in Seq(Messages(Calls'))
    BY <1>2, InviteTyped
  <2> QED
    BY <2>1, <2>2, NewCall, ConcatProperties DEF Invite, WireType
<1>5. CallsType'
  <2>1. dropped' \subseteq {0} \cup Calls'
    BY <1>1, NewCall, CallsTyped DEF Invite
  <2> QED
    BY <2>1, NewCall DEF TypeInv, Invite, CallsType, devVars
<1>6. LoopType'
  BY <1>3 DEF TypeInv, Invite, LoopType, Transports
<1>7. QueueType' /\ MediaType' /\ HistType'
  BY <1>2 DEF TypeInv, Invite, QueueType, MediaType, HistType, queueVars
<1> QED
  BY <1>3, <1>4, <1>5, <1>6, <1>7 DEF TypeInv

LEMMA SameCalls == UNCHANGED calls => Calls' = Calls
  BY DEF Calls

LEMMA IdleTyped ==
  ASSUME TypeInv, loop' = Idle, Len(noted') = Len(noted)
  PROVE  LoopType'
<1>1. loop'.at = "idle" /\ loop'.id = 0 /\ 0 \in 0..Len(noted') /\ 0 \in 0..MaxRequests
  BY CallsTyped DEF Idle
<1> QED
  BY <1>1 DEF LoopType, Idle, Ops

\* A step that answers the command and leaves sessions and messages typed.
LEMMA ReplyType ==
  ASSUME TypeInv, UNCHANGED <<queueVars, sessVars, calls, tagged, failed, devVars, back>>,
         NEW what \in {"live", "not yet", "no session", "no port", "failed", "bye"}, Reply(what),
         noted' \in Seq({0} \cup Calls), Len(noted') = Len(noted),
         wire' \in Seq(Messages(Calls)), dropped' \subseteq {0} \cup Calls,
         \/ UNCHANGED <<rtp, live>>
         \/ rtp' = 0 /\ live' = FALSE,
         budget' \in 0..MaxDisturbances, quiet' \in BOOLEAN
  PROVE  TypeInv'
<1>0. loop' = Idle
  BY DEF Reply
<1>1. LoopType'
  BY <1>0, IdleTyped
<1>2. NotedType'
  BY <1>0, SameCalls, LenProperties DEF TypeInv, NotedType, Idle, Polling, sessVars
<1>3. CallsType' /\ WireType'
  BY SameCalls DEF TypeInv, CallsType, WireType, devVars
<1>4. MediaType'
  <2>1. CASE UNCHANGED <<rtp, live>>
    BY <2>1, SameCalls DEF TypeInv, MediaType
  <2>2. CASE rtp' = 0 /\ live' = FALSE
    BY <2>2, Zenon DEF MediaType
  <2> QED
    BY <2>1, <2>2
<1>5. QueueType' /\ HistType'
  BY DEF Reply, TypeInv, QueueType, HistType, queueVars
<1> QED
  BY <1>1, <1>2, <1>3, <1>4, <1>5 DEF TypeInv

LEMMA SimpleReplyType ==
  ASSUME TypeInv, UNCHANGED <<queueVars, noted, sessVars, calls, tagged, failed, rtp, live, devVars,
                              wire, back, dropped>>,
         NEW what \in {"live", "not yet", "no session", "failed"}, Reply(what),
         budget' \in 0..MaxDisturbances, quiet' \in BOOLEAN
  PROVE  TypeInv'
<1>1. noted \in Seq({0} \cup Calls) /\ wire \in Seq(Messages(Calls)) /\ dropped \subseteq {0} \cup Calls
  BY DEF TypeInv, NotedType, WireType, CallsType
<1> QED
  BY <1>1, ReplyType

LEMMA NoPortType ==
  ASSUME TypeInv, NEW old \in {0} \cup Calls, loop.at \in {"pause", "tcp"}, NoPort(old),
         UNCHANGED <<queueVars, sessVars, tagged, failed, devVars, back>>,
         budget' \in 0..MaxDisturbances, quiet' \in BOOLEAN
  PROVE  TypeInv'
<1>1. loop.sess \in 1..Len(noted)
  BY CallsTyped DEF TypeInv, LoopType
<1>2. noted' \in Seq({0} \cup Calls) /\ Len(noted') = Len(noted)
  <2> DEFINE e == IF old = 0 THEN noted[loop.sess] ELSE 0
  <2>1. e \in {0} \cup Calls /\ noted' = [noted EXCEPT ![loop.sess] = e]
    BY <1>1, CallsTyped DEF NoPort
  <2> HIDE DEF e
  <2> QED
    BY <1>1, <2>1, ExceptSeq DEF TypeInv, NotedType
<1>3. wire' \in Seq(Messages(Calls))
  BY ByeTyped, ConcatProperties DEF NoPort, TypeInv, WireType
<1>4. dropped' \subseteq {0} \cup Calls
  BY DEF NoPort, TypeInv, CallsType
<1> QED
  BY <1>2, <1>3, <1>4, ReplyType DEF NoPort

LEMMA DisturbType ==
  ASSUME TypeInv
  PROVE  /\ \A fault : Disturb(fault) => budget' \in 0..MaxDisturbances /\ quiet' \in BOOLEAN
         /\ Undisturbed => budget' \in 0..MaxDisturbances /\ quiet' \in BOOLEAN
<1>1. ASSUME NEW fault, Disturb(fault) PROVE budget' \in 0..MaxDisturbances
  <2>1. budget \in 0..MaxDisturbances /\ budget > 0 /\ budget' = budget - 1
    BY <1>1, Zenon DEF TypeInv, HistType, Disturb
  <2> QED
    BY <2>1
<1>2. ASSUME NEW fault, Disturb(fault) PROVE quiet' \in BOOLEAN
  BY <1>2 DEF Disturb
<1>3. ASSUME Undisturbed PROVE budget' \in 0..MaxDisturbances /\ quiet' \in BOOLEAN
  BY <1>3 DEF TypeInv, HistType, Undisturbed
<1> QED
  BY <1>1, <1>2, <1>3

LEMMA InVainType ==
  ASSUME TypeInv, OpensInVain("tcp"), Undisturbed,
         UNCHANGED <<queueVars, sessVars, tagged, failed, devVars, back>>
  PROVE  TypeInv'
<1> USE DEF OpensInVain, Reply
<1>1. "tcp" \in Transports
  BY DEF Transports
<1>2. CallsType' /\ WireType'
  BY <1>1, NewCall DEF TypeInv, CallsType, WireType, devVars
<1>3. NotedType'
  BY <1>1, NewCall DEF TypeInv, NotedType, Idle, Polling, sessVars
<1>4. LoopType'
  <2>1. loop'.at = "idle" /\ loop'.id = 0 /\ 0 \in 0..Len(noted') /\ 0 \in 0..MaxRequests
    BY CallsTyped DEF Idle
  <2> QED
    BY <2>1 DEF LoopType, Idle, Ops
<1>5. MediaType'
  <2>1. Len(calls) + 1 \in Calls' /\ Len(calls) + 1 # 0
    BY <1>1, NewCall, CallsTyped
  <2> QED
    BY <2>1 DEF TypeInv, MediaType
<1>6. QueueType' /\ HistType'
  BY DisturbType DEF TypeInv, QueueType, HistType, queueVars
<1> QED
  BY <1>2, <1>3, <1>4, <1>5, <1>6 DEF TypeInv

LEMMA NextTransportType ==
  ASSUME TypeInv, Polling, NextTransport,
         UNCHANGED <<queueVars, sessVars, tagged, failed, devVars, back>>,
         budget' \in 0..MaxDisturbances, quiet' \in BOOLEAN
  PROVE  TypeInv'
<1>1. CASE loop.at = "tcp" /\ SendFails
  BY <1>1, SimpleReplyType DEF SendFails
<1>2. CASE loop.at = "tcp" /\ Invite(Call, "udp")
  <2>1. Call \in {0} \cup Calls
    BY CallsTyped DEF Polling, Call, TypeInv, LoopType
  <2> QED
    BY <1>2, <2>1, InviteType DEF Transports
<1>3. CASE loop.at = "udp" /\ Reply("not yet") /\ UNCHANGED <<noted, calls, wire, rtp, live, dropped>>
  BY <1>3, SimpleReplyType
<1> QED
  BY <1>1, <1>2, <1>3 DEF NextTransport

LEMMA TypeLoop == TypeInv /\ LoopStep => TypeInv'
<1> SUFFICES ASSUME TypeInv, LoopStep PROVE TypeInv'
  OBVIOUS
<1>1. CASE Take
  <2>1. Head(queue) \in [id : Requests, op : Ops] /\ Tail(queue) \in Seq([id : Requests, op : Ops])
    BY <1>1, HeadTailProperties DEF Take, TypeInv, QueueType
  <2>2. Head(queue).id \in Requests /\ Head(queue).op \in Ops
    BY <2>1
  <2>3. LoopType'
    BY <1>1, <2>2, CallsTyped DEF Take, LoopType, Requests
  <2>4. NotedType'
    BY <1>1, SameCalls DEF Take, TypeInv, NotedType, Polling, sessVars
  <2>5. QueueType' /\ HistType'
    BY <1>1, <2>1 DEF Take, TypeInv, QueueType, HistType
  <2>6. CallsType' /\ MediaType' /\ WireType'
    BY <1>1, SameCalls DEF Take, TypeInv, CallsType, MediaType, WireType, devVars
  <2> QED
    BY <2>3, <2>4, <2>5, <2>6 DEF TypeInv
<1>2. CASE InviteStart
  <2>1. CASE UNCHANGED <<rtp, live>> /\ (Reply("no session") \/ Reply("live"))
    BY <1>2, <2>1, SimpleReplyType, DisturbType DEF InviteStart, Undisturbed
  <2>2. CASE /\ loop' = [loop EXCEPT !.at = "pause", !.sess = current] /\ current # 0
             /\ rtp' = 0 /\ live' = FALSE /\ UNCHANGED outcome
    <3>1. LoopType'
      BY <1>2, <2>2 DEF InviteStart, TypeInv, LoopType, NotedType
    <3>2. NotedType'
      BY <1>2, <2>2, SameCalls DEF InviteStart, TypeInv, LoopType, NotedType, Polling, sessVars
    <3>3. CallsType' /\ MediaType' /\ WireType'
      BY <1>2, <2>2, SameCalls DEF InviteStart, TypeInv, CallsType, MediaType, WireType, devVars
    <3>4. QueueType' /\ HistType'
      BY <1>2, <2>2 DEF InviteStart, TypeInv, QueueType, HistType, queueVars
    <3> QED
      BY <3>1, <3>2, <3>3, <3>4 DEF TypeInv
  <2> QED
    BY <1>2, <2>1, <2>2 DEF InviteStart
<1>3. CASE InvitePause
  <2> DEFINE old == IF loop.op = "force" THEN noted[loop.sess] ELSE 0
  <2>1. old \in {0} \cup Calls /\ loop.at = "pause"
    BY <1>3, CallsTyped DEF InvitePause, TypeInv, LoopType
  <2>2. CASE SendFails /\ Undisturbed
    BY <1>3, <2>2, SimpleReplyType, DisturbType DEF InvitePause, SendFails
  <2>3. CASE OpensInVain("tcp") /\ Undisturbed
    BY <1>3, <2>3, InVainType DEF InvitePause
  <2>4. CASE Invite(old, "tcp") /\ Undisturbed
    BY <1>3, <2>1, <2>4, InviteType, DisturbType DEF InvitePause, Transports
  <2>5. CASE Disturb("port") /\ (Invite(old, "udp") \/ NoPort(old))
    BY <1>3, <2>1, <2>5, InviteType, NoPortType, DisturbType DEF InvitePause, Transports
  <2> QED
    BY <1>3, <2>2, <2>3, <2>4, <2>5 DEF InvitePause
<1>4. CASE ByePlay
  <2>1. noted' \in Seq({0} \cup Calls) /\ Len(noted') = Len(noted) /\ wire' \in Seq(Messages(Calls))
    <3>1. CASE current = 0
      BY <1>4, <3>1 DEF ByePlay, TypeInv, NotedType, WireType
    <3>2. CASE current # 0
      <4>1. current \in 1..Len(noted) /\ noted[current] \in {0} \cup Calls
        BY <3>2, CallsTyped DEF TypeInv, NotedType
      <4>2. noted' \in Seq({0} \cup Calls) /\ Len(noted') = Len(noted)
        BY <1>4, <3>2, <4>1, ExceptSeq DEF ByePlay, TypeInv, NotedType
      <4>3. wire' \in Seq(Messages(Calls))
        BY <1>4, <3>2, <4>1, ByeTyped, ConcatProperties DEF ByePlay, TypeInv, WireType
      <4> QED
        BY <4>2, <4>3
    <3> QED
      BY <3>1, <3>2
  <2>2. dropped' \subseteq {0} \cup Calls /\ budget' \in 0..MaxDisturbances /\ quiet' \in BOOLEAN
    BY <1>4 DEF ByePlay, TypeInv, CallsType, HistType
  <2> QED
    BY <1>4, <2>1, <2>2, ReplyType DEF ByePlay
<1>5. CASE PollLive
  BY <1>5, SimpleReplyType, DisturbType DEF PollLive, Undisturbed
<1>6. CASE PollFailed \/ PollTimesOut \/ PollTimesOutEarly
  BY <1>6, NextTransportType, DisturbType DEF PollFailed, PollTimesOut, PollTimesOutEarly
<1>7. CASE PollNoPort
  <2>1. Call \in {0} \cup Calls
    BY <1>7, CallsTyped DEF PollNoPort, Call, TypeInv, LoopType
  <2> QED
    BY <1>7, <2>1, NoPortType, DisturbType DEF PollNoPort
<1> QED
  BY <1>1, <1>2, <1>3, <1>4, <1>5, <1>6, <1>7 DEF LoopStep

LEMMA TypeSip == TypeInv /\ SipStep => TypeInv'
<1> SUFFICES ASSUME TypeInv, SipStep PROVE TypeInv'
  OBVIOUS
<1>1. CASE Register
  <2>1. noted \in Seq({0} \cup Calls)
    BY DEF TypeInv, NotedType
  <2>2. noted' \in Seq({0} \cup Calls) /\ Len(noted') = Len(noted) + 1 /\ current' = Len(noted')
    BY <1>1, <2>1, AppendProperties DEF Register
  <2>3. \A s \in 1..Len(noted) : noted'[s] = noted[s]
    BY <1>1, <2>1, AppendProperties DEF Register
  <2>4. NotedType'
    <3>1. current' \in 0..Len(noted') /\ broken' \subseteq DOMAIN noted'
      BY <1>1, <2>2, CallsTyped, LenProperties DEF Register, TypeInv, NotedType
    <3>2. Polling' => Call' # 0
      BY <1>1, <2>3, CallsTyped DEF Register, TypeInv, NotedType, LoopType, Polling, Call
    <3> QED
      BY <1>1, <2>2, <3>1, <3>2, SameCalls DEF Register, NotedType
  <2>5. LoopType'
    BY <1>1, <2>2, CallsTyped DEF Register, TypeInv, LoopType
  <2>6. CallsType' /\ MediaType' /\ WireType' /\ QueueType'
    BY <1>1, SameCalls DEF Register, TypeInv, CallsType, MediaType, WireType, QueueType, devVars, queueVars
  <2>7. HistType'
    BY <1>1, DisturbType DEF Register, TypeInv, HistType
  <2> QED
    BY <2>4, <2>5, <2>6, <2>7 DEF TypeInv
<1>2. CASE SessionEnds
  <2>1. WireType' /\ dropped' \subseteq {0} \cup Calls
    BY <1>2, SameCalls, ByesTyped, EmptySeq DEF SessionEnds, TypeInv, WireType, CallsType
  <2>2. NotedType'
    BY <1>2, SameCalls, CallsTyped DEF SessionEnds, TypeInv, NotedType, Polling, Call
  <2>3. CallsType'
    BY <1>2, <2>1, SameCalls DEF SessionEnds, TypeInv, CallsType, devVars
  <2>4. LoopType' /\ QueueType' /\ MediaType'
    BY <1>2, SameCalls DEF SessionEnds, TypeInv, LoopType, QueueType, MediaType, queueVars
  <2>5. HistType'
    BY <1>2, DisturbType DEF SessionEnds, TypeInv, HistType
  <2> QED
    BY <2>1, <2>2, <2>3, <2>4, <2>5 DEF TypeInv
<1>3. CASE Respond
  <2>1. PICK answer \in back :
          /\ back' = back \ {answer}
          /\ tagged' \subseteq tagged \cup {answer.call} /\ failed' \subseteq failed \cup {answer.call}
    BY <1>3 DEF Respond
  <2>2. answer.call \in Calls
    BY <2>1 DEF TypeInv, CallsType
  <2>3. UNCHANGED <<queueVars, loop, noted, sessVars, calls, rtp, live, devVars,
                    wire, budget, quiet, outcome, dropped>>
    BY <1>3 DEF Respond
  <2>4. CallsType'
    BY <2>1, <2>2, <2>3, SameCalls DEF TypeInv, CallsType, devVars
  <2>5. QueueType' /\ LoopType' /\ NotedType'
    BY <2>3, SameCalls DEF TypeInv, QueueType, LoopType, NotedType, Polling, Call, queueVars, sessVars
  <2>6. MediaType' /\ WireType' /\ HistType'
    BY <2>3, SameCalls DEF TypeInv, MediaType, WireType, HistType
  <2> QED
    BY <2>4, <2>5, <2>6 DEF TypeInv
<1>4. CASE Crash
  <2>1. {noted[s] : s \in DOMAIN noted} \subseteq {0} \cup Calls
    BY CallsTyped
  <2>2. CallsType'
    BY <1>4, <2>1, SameCalls DEF Crash, TypeInv, CallsType, devVars
  <2>3. NotedType'
    BY <1>4, EmptySeq DEF Crash, NotedType, Polling, Idle
  <2>4. LoopType'
    BY <1>4, EmptySeq DEF Crash, LoopType, Idle, Ops
  <2>5. QueueType' /\ MediaType' /\ WireType'
    BY <1>4, SameCalls DEF Crash, TypeInv, QueueType, MediaType, WireType, queueVars
  <2>6. HistType'
    BY <1>4, DisturbType DEF Crash, HistType
  <2> QED
    BY <2>2, <2>3, <2>4, <2>5, <2>6 DEF TypeInv
<1> QED
  BY <1>1, <1>2, <1>3, <1>4 DEF SipStep

LEMMA TypeDevice == TypeInv /\ DeviceStep => TypeInv'
<1> SUFFICES ASSUME TypeInv, DeviceStep PROVE TypeInv'
  OBVIOUS
<1>1. UNCHANGED <<queueVars, loop, noted, sessVars, calls, tagged, failed, rtp, accepts, outcome>>
  BY DEF DeviceStep, Receive, Lose, MediaStops, HangUp, MediaArrives, devVars
<1>2. QueueType' /\ LoopType'
  BY <1>1 DEF TypeInv, QueueType, LoopType, queueVars
<1>3. NotedType'
  BY <1>1, SameCalls DEF TypeInv, NotedType, Polling, Call, sessVars
<1>4. HistType'
  BY <1>1, DisturbType
     DEF DeviceStep, Receive, Lose, MediaStops, HangUp, MediaArrives, TypeInv, HistType
<1>5. MediaType'
  <2>1. CASE UNCHANGED live
    BY <1>1, <2>1, SameCalls DEF TypeInv, MediaType
  <2>2. CASE live' = FALSE \/ (live' = TRUE /\ rtp # 0)
    BY <1>1, <2>2, SameCalls DEF TypeInv, MediaType
  <2> QED
    BY <2>1, <2>2 DEF DeviceStep, Receive, Lose, MediaStops, HangUp, MediaArrives
<1>6. CallsType' /\ WireType'
  <2>1. CASE wire # <<>> /\ wire' = Tail(wire)
    <3>1. wire' \in Seq(Messages(Calls)) /\ Head(wire) \in Messages(Calls)
      BY <2>1, HeadTailProperties DEF TypeInv, WireType
    <3>2. Head(wire).call \in Calls
      BY <3>1 DEF Messages
    <3> DEFINE answer == [call |-> Head(wire).call, ok |-> calls[Head(wire).call] \in accepts]
    <3>3. answer \in [call : Calls, ok : BOOLEAN]
      BY <3>2
    <3>4. sending' \subseteq sending \cup {Head(wire).call} /\ back' \subseteq back \cup {answer}
      BY <2>1 DEF DeviceStep, Receive, Lose, MediaStops, HangUp, MediaArrives, devVars
    <3> HIDE DEF answer
    <3>5. sending' \subseteq Calls /\ back' \subseteq [call : Calls, ok : BOOLEAN]
      BY <3>2, <3>3, <3>4 DEF TypeInv, CallsType
    <3>6. dropped' \subseteq {0} \cup Calls
      BY <2>1, <3>1, <3>2, HeadByesTyped
         DEF DeviceStep, Receive, Lose, MediaStops, HangUp, MediaArrives, TypeInv, CallsType
    <3> QED
      BY <1>1, <3>1, <3>5, <3>6, SameCalls DEF TypeInv, CallsType, WireType
  <2>2. CASE sending' \subseteq sending /\ UNCHANGED <<wire, back, dropped>>
    BY <1>1, <2>2, SameCalls DEF TypeInv, CallsType, WireType
  <2> QED
    BY <2>1, <2>2 DEF DeviceStep, Receive, Lose, MediaStops, HangUp, MediaArrives, devVars
<1> QED
  BY <1>2, <1>3, <1>4, <1>5, <1>6 DEF TypeInv

LEMMA TypeStep == TypeInv /\ [Next]_vars => TypeInv'
<1> SUFFICES ASSUME TypeInv, [Next]_vars PROVE TypeInv'
  OBVIOUS
<1>1. CASE Push
  <2>1. pushed + 1 \in Requests
    BY <1>1 DEF Push, AskPreview, AskAnalysis, AskBye, Enqueue, TypeInv, QueueType, Requests
  <2>2. QueueType'
    <3>1. PICK op \in Ops : Enqueue(op)
      BY <1>1 DEF Push, AskPreview, AskAnalysis, AskBye, Ops
    <3>2. [id |-> pushed + 1, op |-> op] \in [id : Requests, op : Ops]
      BY <2>1
    <3>3. queue' \in Seq([id : Requests, op : Ops])
      BY <3>1, <3>2, AppendProperties DEF Enqueue, TypeInv, QueueType
    <3>4. pushed' \in 0..MaxRequests
      BY <1>1, <2>1 DEF Push, AskPreview, AskAnalysis, AskBye, Enqueue, Requests
    <3> QED
      BY <3>3, <3>4 DEF QueueType
  <2>3. LoopType' /\ NotedType' /\ CallsType'
    BY <1>1, SameCalls DEF Push, AskPreview, AskAnalysis, AskBye, Enqueue, TypeInv, LoopType, NotedType, CallsType, Polling, Call, sessVars, devVars
  <2>4. MediaType' /\ WireType' /\ HistType'
    <3>1. UNCHANGED <<calls, rtp, live, wire, budget, quiet, outcome>>
      BY <1>1 DEF Push, AskPreview, AskAnalysis, AskBye, Enqueue
    <3>2. Calls' = Calls
      BY <3>1, SameCalls
    <3>3. MediaType'
      BY <3>1, <3>2 DEF TypeInv, MediaType
    <3>4. WireType'
      BY <3>1, <3>2 DEF TypeInv, WireType
    <3>5. HistType'
      BY <3>1 DEF TypeInv, HistType
    <3> QED
      BY <3>3, <3>4, <3>5
  <2> QED
    BY <2>2, <2>3, <2>4 DEF TypeInv
<1>2. CASE UNCHANGED vars
  <2> USE <1>2, SameCalls DEF vars, queueVars, sessVars, devVars, TypeInv
  <2>1. QueueType' /\ LoopType' /\ NotedType'
    BY DEF QueueType, LoopType, NotedType, Polling, Call
  <2>2. CallsType' /\ MediaType' /\ WireType' /\ HistType'
    BY DEF CallsType, MediaType, WireType, HistType
  <2> QED
    BY <2>1, <2>2
<1> QED
  BY <1>1, <1>2, TypeLoop, TypeSip, TypeDevice DEF Next

\* The parts say all that TypeOK does.
LEMMA PartsTyped == TypeInv => TypeOK
  BY DEF TypeInv, TypeOK, QueueType, LoopType, NotedType, CallsType, MediaType, WireType,
         HistType, Messages, Transports

(* Every variable keeps its type, for every number of requests and faults; *)
(* in particular a call that is polled for is noted in the loop's session. *)
THEOREM TypeCorrect == Spec => []TypeOK
<1>1. Spec => []TypeInv
  BY TypeInit, TypeStep, PTL DEF Spec
<1> QED
  BY <1>1, PartsTyped, PTL

-----------------------------------------------------------------------------
\* An INVITE on the way is for a call that is known, or its BYE is behind it.
KnownCalls == Noted \cup dropped
Ordered ==
  \A i \in DOMAIN wire :
    wire[i].what = "INVITE" =>
      \/ wire[i].call \in KnownCalls
      \/ \E j \in DOMAIN wire : j > i /\ wire[j].what = "BYE" /\ wire[j].call = wire[i].call

LEMMA OnWire ==
  ASSUME NEW C, NEW w \in Seq(Messages(C))
  PROVE  /\ DOMAIN w = 1..Len(w) /\ Len(w) \in Nat
         /\ \A i \in 1..Len(w) : w[i].call \in C /\ w[i].what \in {"INVITE", "BYE"}
<1>1. DOMAIN w = 1..Len(w) /\ Len(w) \in Nat
  BY LenProperties
<1>2. ASSUME NEW i \in 1..Len(w) PROVE w[i].call \in C /\ w[i].what \in {"INVITE", "BYE"}
  <2>1. w[i] \in Messages(C)
    BY <1>2, ElementOfSeq
  <2> QED
    BY <2>1 DEF Messages
<1> QED
  BY <1>1, <1>2

\* What the process does to the calls it knows: it appends messages, and a
\* call that is no longer known is ended by one of them.
LEMMA Known ==
  ASSUME NEW C, wire \in Seq(Messages(C)), NEW ms \in Seq(Messages(C)), sending \subseteq C,
         NoSilentLeak, Ordered, wire' = wire \o ms, sending' = sending,
         \A c \in C : c \in KnownCalls =>
           c \in KnownCalls' \/ \E j \in 1..Len(ms) : ms[j].what = "BYE" /\ ms[j].call = c,
         \A j \in 1..Len(ms) : ms[j].what = "INVITE" => ms[j].call \in KnownCalls'
  PROVE  NoSilentLeak' /\ Ordered'
<1> DEFINE n == Len(wire)
<1>1. /\ DOMAIN wire = 1..n /\ n \in Nat /\ DOMAIN ms = 1..Len(ms) /\ Len(ms) \in Nat
      /\ DOMAIN wire' = 1..(n + Len(ms))
      /\ \A i \in 1..n : wire[i].call \in C
  BY OnWire, ConcatProperties, LenProperties
<1>2. /\ \A i \in 1..n : wire'[i] = wire[i]
      /\ \A j \in 1..Len(ms) : wire'[n + j] = ms[j]
      /\ \A i \in DOMAIN wire' : i \in 1..n \/ \E j \in 1..Len(ms) : i = n + j
  <2>1. \A i \in 1..(n + Len(ms)) : wire'[i] = IF i <= n THEN wire[i] ELSE ms[i - n]
    BY ConcatProperties
  <2>2. \A i \in 1..n : i \in 1..(n + Len(ms)) /\ i <= n
    BY <1>1
  <2>3. ASSUME NEW j \in 1..Len(ms) PROVE wire'[n + j] = ms[j]
    <3>1. n + j \in 1..(n + Len(ms)) /\ ~(n + j <= n) /\ (n + j) - n = j
      BY <1>1
    <3> QED
      BY <2>1, <3>1
  <2>4. ASSUME NEW i \in DOMAIN wire', i \notin 1..n PROVE \E j \in 1..Len(ms) : i = n + j
    <3>1. i - n \in 1..Len(ms) /\ i = n + (i - n)
      BY <1>1, <2>4
    <3> QED
      BY <3>1
  <2> QED
    BY <2>1, <2>2, <2>3, <2>4
<1> HIDE DEF n
<1>3. ASSUME NEW c \in C, c \in KnownCalls, c \notin KnownCalls'
      PROVE  \E i \in DOMAIN wire' : i > n /\ wire'[i].what = "BYE" /\ wire'[i].call = c
  <2>1. PICK j \in 1..Len(ms) : ms[j].what = "BYE" /\ ms[j].call = c
    BY <1>3
  <2>2. n + j \in DOMAIN wire' /\ n + j > n
    BY <1>1
  <2> QED
    BY <1>2, <2>1, <2>2
<1>4. NoSilentLeak'
  <2>1. ASSUME NEW c \in sending PROVE c \in KnownCalls' \cup ByesOn(wire')
    <3>1. CASE c \in KnownCalls
      BY <1>3, <2>1, <3>1 DEF ByesOn
    <3>2. CASE c \in ByesOn(wire)
      <4>1. PICK i \in DOMAIN wire : wire[i].what = "BYE" /\ wire[i].call = c
        BY <3>2 DEF ByesOn
      <4>2. i \in DOMAIN wire' /\ wire'[i] = wire[i]
        BY <1>1, <1>2
      <4> QED
        BY <4>1, <4>2 DEF ByesOn
    <3> QED
      BY <2>1, <3>1, <3>2 DEF NoSilentLeak, KnownCalls
  <2> QED
    BY <2>1 DEF NoSilentLeak, KnownCalls
<1>5. Ordered'
  <2> SUFFICES ASSUME NEW i \in DOMAIN wire', wire'[i].what = "INVITE", wire'[i].call \notin KnownCalls'
               PROVE  \E j \in DOMAIN wire' : j > i /\ wire'[j].what = "BYE" /\ wire'[j].call = wire'[i].call
    BY DEF Ordered
  <2>1. i \in 1..n /\ wire'[i] = wire[i]
    <3>1. CASE i \in 1..n
      BY <1>2, <3>1
    <3>2. CASE i \notin 1..n
      <4>1. PICK j \in 1..Len(ms) : i = n + j
        BY <1>2, <3>2
      <4>2. ms[j].what = "INVITE" /\ ms[j].call \notin KnownCalls'
        BY <1>2, <4>1
      <4> QED
        BY <4>2
    <3> QED
      BY <3>1, <3>2
  <2>2. CASE wire[i].call \in KnownCalls
    <3>1. PICK j \in DOMAIN wire' : j > n /\ wire'[j].what = "BYE" /\ wire'[j].call = wire[i].call
      BY <1>1, <1>3, <2>1, <2>2
    <3>2. j \in Nat /\ j > i
      BY <1>1, <2>1, <3>1
    <3> QED
      BY <2>1, <3>1, <3>2
  <2>3. CASE wire[i].call \notin KnownCalls
    <3>1. PICK j \in DOMAIN wire : j > i /\ wire[j].what = "BYE" /\ wire[j].call = wire[i].call
      BY <1>1, <2>1, <2>3 DEF Ordered
    <3>2. j \in DOMAIN wire' /\ wire'[j] = wire[j]
      BY <1>1, <1>2
    <3> QED
      BY <2>1, <3>1, <3>2
  <2> QED
    BY <2>2, <2>3
<1> QED
  BY <1>4, <1>5

\* A step that sends nothing and forgets nothing.
LEMMA Quietly ==
  ASSUME NoSilentLeak, Ordered, wire' = wire, sending' \subseteq sending,
         KnownCalls \subseteq KnownCalls'
  PROVE  NoSilentLeak' /\ Ordered'
<1>1. NoSilentLeak'
  BY DEF NoSilentLeak, KnownCalls, ByesOn
<1>2. Ordered'
  BY DEF Ordered
<1> QED
  BY <1>1, <1>2

\* The message at the head leaves the wire.
LEMMA Leaves ==
  ASSUME NEW C, wire \in Seq(Messages(C)), wire # <<>>, Ordered, wire' = Tail(wire),
         KnownCalls \subseteq KnownCalls'
  PROVE  /\ Ordered'
         /\ \A c \in ByesOn(wire) :
              c \in ByesOn(wire') \/ (Head(wire).what = "BYE" /\ Head(wire).call = c)
         /\ Head(wire).what = "INVITE" => Head(wire).call \in KnownCalls \cup ByesOn(wire')
<1> DEFINE n == Len(wire)
<1>1. /\ DOMAIN wire = 1..n /\ n \in Nat \ {0} /\ DOMAIN wire' = 1..(n - 1)
      /\ \A i \in 1..(n - 1) : wire'[i] = wire[i + 1]
      /\ Head(wire) = wire[1]
  BY HeadTailProperties, LenProperties, EmptySeq
<1> HIDE DEF n
<1>2. ASSUME NEW j \in DOMAIN wire, j > 1
      PROVE  j - 1 \in DOMAIN wire' /\ wire'[j - 1] = wire[j]
  <2>1. j - 1 \in 1..(n - 1) /\ (j - 1) + 1 = j
    BY <1>1, <1>2
  <2> QED
    BY <1>1, <2>1
<1>3. ASSUME NEW j \in DOMAIN wire, j > 1, wire[j].what = "BYE"
      PROVE  wire[j].call \in ByesOn(wire')
  BY <1>2, <1>3 DEF ByesOn
<1>4. Ordered'
  <2> SUFFICES ASSUME NEW i \in DOMAIN wire', wire'[i].what = "INVITE", wire'[i].call \notin KnownCalls'
               PROVE  \E j \in DOMAIN wire' : j > i /\ wire'[j].what = "BYE" /\ wire'[j].call = wire'[i].call
    BY DEF Ordered
  <2>1. i + 1 \in DOMAIN wire /\ wire'[i] = wire[i + 1] /\ i \in Nat
    BY <1>1
  <2>2. PICK j \in DOMAIN wire : j > i + 1 /\ wire[j].what = "BYE" /\ wire[j].call = wire'[i].call
    BY <2>1 DEF Ordered
  <2>3. j > 1 /\ j - 1 > i
    BY <1>1, <2>1, <2>2
  <2> QED
    BY <1>2, <2>2, <2>3
<1>5. ASSUME NEW c \in ByesOn(wire), ~(Head(wire).what = "BYE" /\ Head(wire).call = c)
      PROVE  c \in ByesOn(wire')
  <2>1. PICK j \in DOMAIN wire : wire[j].what = "BYE" /\ wire[j].call = c
    BY DEF ByesOn
  <2>2. j > 1
    BY <1>1, <1>5, <2>1
  <2> QED
    BY <1>3, <2>1, <2>2
<1>6. ASSUME Head(wire).what = "INVITE", Head(wire).call \notin KnownCalls
      PROVE  Head(wire).call \in ByesOn(wire')
  <2>1. PICK j \in DOMAIN wire : j > 1 /\ wire[j].what = "BYE" /\ wire[j].call = Head(wire).call
    BY <1>1, <1>6 DEF Ordered
  <2> QED
    BY <1>3, <2>1
<1> QED
  BY <1>4, <1>5, <1>6

LEMMA OneAndOne ==
  ASSUME NEW C, NEW s \in Seq(Messages(C)), NEW t \in Seq(Messages(C)), Len(s) = 1, Len(t) = 1
  PROVE  Len(s \o t) = 2 /\ (s \o t)[1] = s[1] /\ (s \o t)[2] = t[1]
<1>1. \A i \in 1..2 : (s \o t)[i] = IF i <= 1 THEN s[i] ELSE t[i - 1]
  <2>1. \A i \in 1..Len(s) + Len(t) : (s \o t)[i] = IF i <= Len(s) THEN s[i] ELSE t[i - Len(s)]
    BY ConcatProperties, Zenon
  <2>2. Len(s) + Len(t) = 2
    OBVIOUS
  <2> QED
    BY <2>1, <2>2
<1>2. (s \o t)[1] = s[1] /\ (s \o t)[2] = t[2 - 1]
  BY <1>1
<1> QED
  BY <1>2, ConcatProperties

KnownInv == TypeInv /\ NoSilentLeak /\ Ordered

\* The INVITE of a new call takes the place of the noted call in a session.
LEMMA InviteKnown ==
  ASSUME KnownInv, NEW old \in {0} \cup Calls, NEW t \in Transports, Invite(old, t),
         loop.at \in {"pause", "tcp"}, sending' = sending,
         old = 0 \/ old = noted[loop.sess],
         loop.op = "force" => old = noted[loop.sess]
  PROVE  NoSilentLeak' /\ Ordered'
<1> DEFINE c == Len(calls) + 1
           kept == noted[loop.sess]
           invite == <<[what |-> "INVITE", call |-> c]>>
           ms == Bye(old) \o invite
<1> USE DEF KnownInv
<1>1. loop.sess \in 1..Len(noted) /\ loop.op \in {"invite", "force"}
  BY CallsTyped DEF TypeInv, LoopType, Ops
<1>2. Calls' = Calls \cup {c} /\ wire \in Seq(Messages(Calls')) /\ sending \subseteq Calls' /\ c # 0
  BY NewCall, CallsTyped DEF Invite
<1>3. /\ \A s \in 1..Len(noted) : s # loop.sess => noted'[s] = noted[s]
      /\ noted'[loop.sess] = c /\ DOMAIN noted' = DOMAIN noted /\ DOMAIN noted = 1..Len(noted)
  BY <1>1, CallsTyped DEF Invite
<1>4. Bye(old) \in Seq(Messages(Calls')) /\ invite \in Seq(Messages(Calls'))
  BY <1>2, ByeTyped, InviteTyped
<1>5. ms \in Seq(Messages(Calls')) /\ wire' = wire \o ms
  BY <1>2, <1>4, ConcatProperties, ConcatAssociative DEF Invite
<1>6. c \in KnownCalls'
  BY <1>1, <1>3 DEF KnownCalls, Noted
<1>7. old # 0 => 1 \in 1..Len(ms) /\ ms[1].what = "BYE" /\ ms[1].call = old
  BY <1>4, ConcatProperties DEF Bye
<1>8. \A j \in 1..Len(ms) : ms[j].what = "INVITE" => ms[j].call = c
  <2>1. CASE old = 0
    <3>1. ms = invite
      BY <1>4, <2>1, ConcatEmptySeq DEF Bye
    <3> QED
      BY <3>1
  <2>2. CASE old # 0
    <3>1. Len(Bye(old)) = 1 /\ Bye(old)[1].what = "BYE" /\ Len(invite) = 1 /\ invite[1].call = c
      BY <2>2 DEF Bye
    <3>2. Len(ms) = 2 /\ ms[1] = Bye(old)[1] /\ ms[2] = invite[1]
      BY <1>4, <3>1, OneAndOne
    <3>3. ms[1].what = "BYE" /\ ms[2].call = c
      BY <3>1, <3>2
    <3> HIDE DEF ms, c
    <3>4. \A j \in 1..Len(ms) : j = 1 \/ j = 2
      BY <3>2
    <3> QED
      BY <3>3, <3>4
  <2> QED
    BY <2>1, <2>2
<1>9. dropped \subseteq dropped' /\ (loop.op = "invite" => {kept} \ {0, old} \subseteq dropped')
  BY DEF Invite
<1> HIDE DEF c, ms
<1>10. ASSUME NEW k \in Calls', k \in KnownCalls, k \notin KnownCalls'
       PROVE  k = old /\ old # 0
  <2>1. (k \in Calls /\ k # 0) \/ k = c
    BY <1>2, CallsTyped
  <2>2. k \in Calls /\ k # 0
    BY <1>6, <1>10, <2>1
  <2>3. k \notin dropped
    BY <1>9, <1>10 DEF KnownCalls
  <2>4. PICK s \in 1..Len(noted) : noted[s] = k
    BY <1>3, <1>10, <2>3 DEF KnownCalls, Noted
  <2>5. s = loop.sess
    BY <1>3, <1>10, <2>4 DEF KnownCalls, Noted
  <2>6. kept = k
    BY <2>4, <2>5
  <2> QED
    BY <1>1, <1>9, <1>10, <2>2, <2>6 DEF KnownCalls
<1>11. \A k \in Calls' : k \in KnownCalls =>
         k \in KnownCalls' \/ \E j \in 1..Len(ms) : ms[j].what = "BYE" /\ ms[j].call = k
  BY <1>7, <1>10
<1>12. \A j \in 1..Len(ms) : ms[j].what = "INVITE" => ms[j].call \in KnownCalls'
  BY <1>6, <1>8
<1> QED
  BY <1>2, <1>5, <1>11, <1>12, Known

\* The call of a session is ended and no longer noted.
Ends(s, c) ==
  \/ c = 0 /\ noted' = [noted EXCEPT ![s] = noted[s]]
  \/ c = noted[s] /\ noted' = [noted EXCEPT ![s] = 0]

LEMMA EndKnown ==
  ASSUME KnownInv, NEW s \in 1..Len(noted), NEW old \in {0} \cup Calls,
         wire' = wire \o Bye(old), UNCHANGED <<sending, dropped>>, Ends(s, old)
  PROVE  NoSilentLeak' /\ Ordered'
<1> USE DEF KnownInv
<1>1. Bye(old) \in Seq(Messages(Calls)) /\ wire \in Seq(Messages(Calls)) /\ sending \subseteq Calls
  BY ByeTyped DEF TypeInv, WireType, CallsType
<1>2. /\ \A r \in 1..Len(noted) : r # s => noted'[r] = noted[r]
      /\ old = 0 => noted'[s] = noted[s]
      /\ DOMAIN noted' = DOMAIN noted /\ DOMAIN noted = 1..Len(noted)
  BY CallsTyped DEF Ends
<1>3. ASSUME NEW k \in Calls, k \in KnownCalls, k \notin KnownCalls'
      PROVE  \E j \in 1..Len(Bye(old)) : Bye(old)[j].what = "BYE" /\ Bye(old)[j].call = k
  <2>1. k \notin dropped
    BY <1>3 DEF KnownCalls
  <2>2. PICK r \in 1..Len(noted) : noted[r] = k
    BY <1>2, <1>3, <2>1 DEF KnownCalls, Noted
  <2>3. r = s /\ old # 0
    BY <1>2, <1>3, <2>2 DEF KnownCalls, Noted
  <2>4. k = old
    BY <2>2, <2>3 DEF Ends
  <2>5. Len(Bye(old)) = 1 /\ Bye(old)[1].what = "BYE" /\ Bye(old)[1].call = k
    BY <2>3, <2>4 DEF Bye
  <2> QED
    BY <2>5
<1>4. \A j \in 1..Len(Bye(old)) : Bye(old)[j].what = "INVITE" => Bye(old)[j].call \in KnownCalls'
  BY DEF Bye
<1>5. \A k \in Calls : k \in KnownCalls =>
        \/ k \in KnownCalls'
        \/ \E j \in 1..Len(Bye(old)) : Bye(old)[j].what = "BYE" /\ Bye(old)[j].call = k
  BY <1>3
<1>6. sending' = sending /\ NoSilentLeak /\ Ordered
  OBVIOUS
<1> DEFINE ms == Bye(old)
<1>7. /\ ms \in Seq(Messages(Calls)) /\ wire' = wire \o ms
      /\ \A j \in 1..Len(ms) : ms[j].what = "INVITE" => ms[j].call \in KnownCalls'
      /\ \A k \in Calls : k \in KnownCalls =>
           k \in KnownCalls' \/ \E j \in 1..Len(ms) : ms[j].what = "BYE" /\ ms[j].call = k
  BY <1>1, <1>4, <1>5
<1> HIDE DEF ms
<1> QED
  BY <1>1, <1>6, <1>7, Known

LEMMA NextTransportKnown ==
  ASSUME KnownInv, Polling, NextTransport, sending' = sending
  PROVE  NoSilentLeak' /\ Ordered'
<1>1. CASE UNCHANGED <<noted, wire, dropped>>
  BY <1>1, Quietly DEF KnownInv, KnownCalls, Noted
<1>2. CASE loop.at = "tcp" /\ Invite(Call, "udp")
  <2>1. Call \in {0} \cup Calls /\ Call = noted[loop.sess]
    BY CallsTyped DEF KnownInv, Polling, Call, TypeInv, LoopType
  <2> QED
    BY <1>2, <2>1, InviteKnown DEF Transports
<1> QED
  BY <1>1, <1>2 DEF NextTransport, SendFails

LEMMA KnownLoop == KnownInv /\ LoopStep => NoSilentLeak' /\ Ordered'
<1> SUFFICES ASSUME KnownInv, LoopStep PROVE NoSilentLeak' /\ Ordered'
  OBVIOUS
<1> USE DEF KnownInv
<1>1. sending' = sending
  BY DEF LoopStep, Take, InviteStart, InvitePause, ByePlay, PollLive, PollFailed, PollTimesOut,
         PollTimesOutEarly, PollNoPort, devVars
<1>2. CASE UNCHANGED <<noted, wire, dropped>>
  BY <1>1, <1>2, Quietly DEF KnownCalls, Noted
<1>3. CASE InvitePause
  <2> DEFINE old == IF loop.op = "force" THEN noted[loop.sess] ELSE 0
  <2>1. /\ old \in {0} \cup Calls /\ loop.at = "pause" /\ loop.sess \in 1..Len(noted)
        /\ old = 0 \/ old = noted[loop.sess]
        /\ loop.op = "force" => old = noted[loop.sess]
    BY <1>3, CallsTyped DEF InvitePause, TypeInv, LoopType
  <2>2. CASE SendFails \/ OpensInVain("tcp")
    BY <1>2, <2>2 DEF SendFails, OpensInVain
  <2>3. CASE \E t \in Transports : Invite(old, t)
    BY <1>1, <2>1, <2>3, InviteKnown
  <2>4. CASE NoPort(old)
    <3>1. Ends(loop.sess, old)
      BY <2>1, <2>4 DEF NoPort, Ends
    <3> QED
      BY <1>1, <2>1, <2>4, <3>1, EndKnown DEF NoPort
  <2> QED
    BY <1>3, <2>2, <2>3, <2>4 DEF InvitePause, Transports
<1>4. CASE ByePlay /\ current # 0
  <2>1. current \in 1..Len(noted) /\ noted[current] \in {0} \cup Calls
    BY <1>4, CallsTyped DEF TypeInv, NotedType
  <2>2. Ends(current, noted[current])
    BY <1>4 DEF ByePlay, Ends
  <2> QED
    BY <1>1, <1>4, <2>1, <2>2, EndKnown DEF ByePlay
<1>5. CASE PollFailed \/ PollTimesOut \/ PollTimesOutEarly
  BY <1>1, <1>5, NextTransportKnown DEF PollFailed, PollTimesOut, PollTimesOutEarly
<1>6. CASE PollNoPort
  <2>1. loop.sess \in 1..Len(noted) /\ Call \in {0} \cup Calls
    BY <1>6, CallsTyped DEF PollNoPort, Call, TypeInv, LoopType
  <2>2. Ends(loop.sess, Call)
    BY <1>6, <2>1 DEF PollNoPort, NoPort, Call, Ends
  <2> QED
    BY <1>1, <1>6, <2>1, <2>2, EndKnown DEF PollNoPort, NoPort
<1>7. CASE Take \/ InviteStart \/ PollLive \/ (ByePlay /\ current = 0)
  BY <1>2, <1>7 DEF Take, InviteStart, PollLive, ByePlay
<1> QED
  BY <1>3, <1>4, <1>5, <1>6, <1>7 DEF LoopStep

LEMMA KnownSip == KnownInv /\ SipStep => NoSilentLeak' /\ Ordered'
<1> SUFFICES ASSUME KnownInv, SipStep PROVE NoSilentLeak' /\ Ordered'
  OBVIOUS
<1> USE DEF KnownInv
<1>1. CASE Register
  <2>1. noted' = Append(noted, 0) /\ noted \in Seq({0} \cup Calls)
    BY <1>1 DEF Register, TypeInv, NotedType
  <2>2. \A s \in DOMAIN noted : s \in DOMAIN noted' /\ noted'[s] = noted[s]
    BY <2>1, AppendProperties, LenProperties
  <2>3. KnownCalls \subseteq KnownCalls'
    BY <1>1, <2>2 DEF Register, KnownCalls, Noted
  <2> QED
    BY <1>1, <2>3, Quietly DEF Register, devVars
<1>2. CASE SessionEnds
  <2>1. CASE UNCHANGED <<wire, dropped>>
    BY <1>2, <2>1, Quietly DEF SessionEnds, KnownCalls, Noted, devVars
  <2>2. CASE wire' = <<>> /\ dropped' = dropped \cup ByesOn(wire)
    BY <1>2, <2>2 DEF SessionEnds, NoSilentLeak, Ordered, Noted, devVars
  <2> QED
    BY <1>2, <2>1, <2>2 DEF SessionEnds
<1>3. CASE Respond
  BY <1>3, Quietly DEF Respond, KnownCalls, Noted, devVars
<1>4. CASE Crash
  <2>1. KnownCalls \subseteq KnownCalls'
    BY <1>4 DEF Crash, KnownCalls, Noted
  <2> QED
    BY <1>4, <2>1, Quietly DEF Crash, devVars
<1> QED
  BY <1>1, <1>2, <1>3, <1>4 DEF SipStep

LEMMA KnownDevice == KnownInv /\ DeviceStep => NoSilentLeak' /\ Ordered'
<1> SUFFICES ASSUME KnownInv, DeviceStep PROVE NoSilentLeak' /\ Ordered'
  OBVIOUS
<1> USE DEF KnownInv
<1>1. Noted' = Noted /\ dropped \subseteq dropped' /\ KnownCalls \subseteq KnownCalls'
  BY DEF DeviceStep, Receive, Lose, MediaStops, HangUp, MediaArrives, KnownCalls, Noted
<1>2. wire \in Seq(Messages(Calls))
  BY DEF TypeInv, WireType
<1>3. CASE Receive
  <2>1. /\ Ordered'
        /\ \A c \in ByesOn(wire) :
             c \in ByesOn(wire') \/ (Head(wire).what = "BYE" /\ Head(wire).call = c)
        /\ Head(wire).what = "INVITE" => Head(wire).call \in KnownCalls \cup ByesOn(wire')
    BY <1>1, <1>2, <1>3, Leaves DEF Receive
  <2>2. CASE Head(wire).what = "INVITE" /\ sending' \subseteq sending \cup {Head(wire).call}
    BY <1>1, <2>1, <2>2 DEF NoSilentLeak, KnownCalls
  <2>3. CASE Head(wire).what = "BYE" /\ sending' = sending \ {Head(wire).call}
    BY <1>1, <2>1, <2>3 DEF NoSilentLeak
  <2>4. CASE Head(wire).what = "BYE" /\ dropped' = dropped \cup {Head(wire).call} /\ sending' = sending
    BY <1>1, <2>1, <2>4 DEF NoSilentLeak
  <2> QED
    BY <1>3, <2>1, <2>2, <2>3, <2>4 DEF Receive
<1>4. CASE Lose
  <2>1. /\ Ordered'
        /\ \A c \in ByesOn(wire) :
             c \in ByesOn(wire') \/ (Head(wire).what = "BYE" /\ Head(wire).call = c)
    BY <1>1, <1>2, <1>4, Leaves DEF Lose
  <2>2. Head(wire).what = "BYE" => Head(wire).call \in ByesOn(<<Head(wire)>>)
    BY DEF ByesOn
  <2>3. sending' = sending /\ dropped' = dropped \cup ByesOn(<<Head(wire)>>)
    BY <1>4 DEF Lose, devVars
  <2> QED
    BY <1>1, <2>1, <2>2, <2>3 DEF NoSilentLeak
<1>5. CASE MediaStops \/ \E c \in DOMAIN calls : HangUp(c) \/ MediaArrives(c)
  BY <1>1, <1>5, Quietly DEF MediaStops, HangUp, MediaArrives, devVars
<1> QED
  BY <1>3, <1>4, <1>5 DEF DeviceStep

LEMMA KnownStep == KnownInv /\ [Next]_vars => KnownInv'
<1> SUFFICES ASSUME KnownInv, [Next]_vars PROVE NoSilentLeak' /\ Ordered'
  BY TypeStep DEF KnownInv
<1>1. CASE Push \/ UNCHANGED vars
  BY <1>1, Quietly DEF KnownInv, Push, AskPreview, AskAnalysis, AskBye, Enqueue, vars, devVars, KnownCalls, Noted
<1> QED
  BY <1>1, KnownLoop, KnownSip, KnownDevice DEF Next

(* Every call the device sends media for is noted in a session, or its BYE *)
(* is on the way, or it was dropped for one of the reasons the code has:   *)
(* for every number of requests and faults.                                *)
THEOREM CallsAreKnown == Spec => []NoSilentLeak
<1>1. Init => KnownInv
  <2>1. ASSUME Init PROVE NoSilentLeak /\ Ordered
    BY <2>1 DEF Init, NoSilentLeak, Ordered
  <2> QED
    BY <2>1, TypeInit DEF KnownInv
<1>2. KnownInv => NoSilentLeak
  BY DEF KnownInv
<1> QED
  BY <1>1, <1>2, KnownStep, PTL DEF Spec

-----------------------------------------------------------------------------
(* An INVITE that nothing disturbs.  While the loop polls for its call, the *)
(* port is open for that call, no BYE for it is on the way, and if the      *)
(* device accepts the transport it was offered, it sends or will be asked.  *)
(* A call counts as failed only if its transport is not accepted.  So a     *)
(* first transport that comes to nothing is one the device does not accept, *)
(* and the second is.                                                       *)
InviteOn(c, w) == \E i \in DOMAIN w : w[i].what = "INVITE" /\ w[i].call = c

Refused ==
  /\ \A a \in back : ~a.ok => calls[a.call] \notin accepts
  /\ \A c \in failed : calls[c] \notin accepts

Offered ==
  quiet /\ Polling =>
    /\ rtp = Call /\ calls[Call] = loop.at /\ Call \notin ByesOn(wire)
    /\ loop.at \in accepts => Call \in sending \/ InviteOn(Call, wire)
    /\ loop.at = "udp" => "udp" \in accepts

LiveInv == TypeInv /\ accepts # {} /\ Refused /\ Offered /\ UndisturbedInviteIsLive

LEMMA LiveInit == Init => LiveInv
<1> SUFFICES ASSUME Init PROVE LiveInv
  OBVIOUS
<1>1. accepts # {} /\ Refused
  BY DEF Init, Refused
<1>2. Offered /\ UndisturbedInviteIsLive
  BY DEF Init, Offered, Polling, Idle, UndisturbedInviteIsLive
<1> QED
  BY <1>1, <1>2, TypeInit DEF LiveInv

\* The first message leaves.
LEMMA FirstLeaves ==
  ASSUME NEW C, NEW w \in Seq(Messages(C)), w # <<>>
  PROVE  /\ ByesOn(Tail(w)) \subseteq ByesOn(w)
         /\ Head(w).what = "BYE" => Head(w).call \in ByesOn(w)
         /\ \A c : InviteOn(c, w) =>
              InviteOn(c, Tail(w)) \/ (Head(w).what = "INVITE" /\ Head(w).call = c)
<1> DEFINE n == Len(w)
           u == Tail(w)
<1>1. /\ DOMAIN w = 1..n /\ n \in Nat \ {0} /\ DOMAIN u = 1..(n - 1)
      /\ \A i \in 1..(n - 1) : u[i] = w[i + 1] /\ i + 1 \in 1..n
      /\ Head(w) = w[1] /\ 1 \in 1..n
  BY HeadTailProperties, LenProperties, EmptySeq
<1> HIDE DEF n, u
<1>2. \A i \in 1..n : i = 1 \/ (i - 1 \in 1..(n - 1) /\ u[i - 1] = w[i])
  <2> SUFFICES ASSUME NEW i \in 1..n, i # 1 PROVE i - 1 \in 1..(n - 1) /\ u[i - 1] = w[i]
    OBVIOUS
  <2>1. i - 1 \in 1..(n - 1) /\ (i - 1) + 1 = i
    BY <1>1
  <2> QED
    BY <1>1, <2>1
<1>3. ByesOn(u) \subseteq ByesOn(w)
  BY <1>1 DEF ByesOn
<1>4. Head(w).what = "BYE" => Head(w).call \in ByesOn(w)
  BY <1>1 DEF ByesOn
<1>5. ASSUME NEW c, InviteOn(c, w) PROVE InviteOn(c, u) \/ (Head(w).what = "INVITE" /\ Head(w).call = c)
  BY <1>1, <1>2, <1>5 DEF InviteOn
<1> QED
  BY <1>3, <1>4, <1>5 DEF u

LEMMA Joined ==
  ASSUME NEW C, NEW s \in Seq(Messages(C)), NEW t \in Seq(Messages(C))
  PROVE  /\ s \o t \in Seq(Messages(C)) /\ Len(s \o t) = Len(s) + Len(t)
         /\ \A i \in 1..Len(s) + Len(t) : (s \o t)[i] = IF i <= Len(s) THEN s[i] ELSE t[i - Len(s)]
  BY ConcatProperties

\* A BYE or none, then an INVITE.
LEMMA InviteFollows ==
  ASSUME NEW C, NEW w \in Seq(Messages(C)), NEW old \in {0} \cup C, NEW c \in C
  PROVE  LET v == w \o Bye(old) \o <<[what |-> "INVITE", call |-> c]>>
         IN ByesOn(v) \subseteq ByesOn(w) \cup {old} /\ InviteOn(c, v)
<1> DEFINE x == <<[what |-> "INVITE", call |-> c]>>
           b == Bye(old)
           u == w \o b
           v == u \o x
<1>1. /\ b \in Seq(Messages(C)) /\ x \in Seq(Messages(C)) /\ Len(x) = 1
      /\ x[1].what = "INVITE" /\ x[1].call = c
      /\ \A i \in 1..Len(b) : b[i].call = old
  BY ByeTyped, InviteTyped DEF Bye
<1> HIDE DEF b, x
<1>2. /\ u \in Seq(Messages(C)) /\ Len(u) = Len(w) + Len(b)
      /\ \A i \in 1..Len(u) : u[i] = IF i <= Len(w) THEN w[i] ELSE b[i - Len(w)]
  BY <1>1, ConcatProperties
<1> HIDE DEF u
<1>3. /\ v \in Seq(Messages(C)) /\ Len(v) = Len(u) + 1
      /\ \A i \in 1..Len(v) : v[i] = IF i <= Len(u) THEN u[i] ELSE x[i - Len(u)]
  <2>1. /\ u \o x \in Seq(Messages(C)) /\ Len(u \o x) = Len(u) + Len(x)
        /\ \A i \in 1..Len(u) + Len(x) : (u \o x)[i] = IF i <= Len(u) THEN u[i] ELSE x[i - Len(u)]
    <3>1. u \in Seq(Messages(C)) /\ x \in Seq(Messages(C))
      BY <1>1, <1>2
    <3> QED
      BY ONLY <3>1, Joined
  <2> QED
    BY <1>1, <2>1
<1> HIDE DEF v
<1>4. /\ DOMAIN w = 1..Len(w) /\ Len(w) \in Nat /\ Len(b) \in Nat
      /\ DOMAIN u = 1..Len(u) /\ Len(u) \in Nat /\ DOMAIN v = 1..Len(v) /\ Len(v) \in Nat
  BY <1>1, <1>2, <1>3, LenProperties
<1>5. ASSUME NEW i \in DOMAIN v, v[i].what = "BYE" PROVE v[i].call \in ByesOn(w) \cup {old}
  <2>1. CASE i <= Len(w)
    <3>1. i \in DOMAIN w /\ i \in 1..Len(u) /\ v[i] = w[i]
      BY <1>2, <1>3, <1>4, <1>5, <2>1
    <3> QED
      BY <1>5, <3>1 DEF ByesOn
  <2>2. CASE i > Len(w) /\ i <= Len(u)
    <3>1. i - Len(w) \in 1..Len(b) /\ i \in 1..Len(u)
      BY <1>2, <1>4, <1>5, <2>2
    <3>2. v[i] = u[i] /\ u[i] = b[i - Len(w)]
      BY <1>2, <1>3, <1>4, <1>5, <2>2, <3>1
    <3> QED
      BY <1>1, <3>1, <3>2
  <2>3. CASE i > Len(u)
    <3>1. i - Len(u) = 1 /\ v[i] = x[i - Len(u)]
      BY <1>3, <1>4, <1>5, <2>3
    <3> QED
      BY <1>1, <1>5, <3>1
  <2> QED
    BY <1>4, <2>1, <2>2, <2>3
<1>6. InviteOn(c, v)
  <2>1. Len(v) \in DOMAIN v /\ Len(v) - Len(u) = 1 /\ ~(Len(v) <= Len(u))
    BY <1>3, <1>4
  <2>2. v[Len(v)] = x[1]
    BY <1>3, <1>4, <2>1
  <2> QED
    BY <1>1, <2>1, <2>2 DEF InviteOn
<1> QED
  BY <1>5, <1>6 DEF ByesOn, v, u, x, b

\* What the device accepts stays; what calls were offered stays, too.
LEMMA CallsStay ==
  ASSUME TypeInv, NEW t \in Transports, calls' = Append(calls, t)
  PROVE  /\ \A c \in Calls : calls'[c] = calls[c]
         /\ calls'[Len(calls) + 1] = t /\ Len(calls) + 1 \notin {0} \cup Calls
<1>1. calls \in Seq(Transports) /\ Calls = 1..Len(calls) /\ Len(calls) \in Nat
  BY CallsTyped DEF TypeInv, CallsType
<1> QED
  BY <1>1, AppendProperties

LEMMA StillRefused ==
  ASSUME TypeInv, Refused, accepts' = accepts, back' \subseteq back, failed' \subseteq failed,
         \A c \in Calls : calls'[c] = calls[c]
  PROVE  Refused'
<1>1. (\A a \in back : a.call \in Calls) /\ failed \subseteq Calls
  BY DEF TypeInv, CallsType
<1> QED
  BY <1>1 DEF Refused

\* A step that takes nothing from the call in work.
LEMMA StillOffered ==
  ASSUME Offered, quiet' => quiet, Polling' => Polling /\ Call' = Call /\ loop'.at = loop.at,
         UNCHANGED <<calls, rtp, accepts>>, ByesOn(wire') \subseteq ByesOn(wire),
         quiet /\ Polling /\ loop.at \in accepts /\ (Call \in sending \/ InviteOn(Call, wire)) =>
           Call \in sending' \/ InviteOn(Call, wire')
  PROVE  Offered'
  BY DEF Offered

LEMMA NotPolling == loop'.at \notin {"tcp", "udp"} => Offered'
  BY DEF Offered, Polling

LEMMA StillLive ==
  ASSUME UndisturbedInviteIsLive, quiet' => quiet, outcome' = outcome \/ outcome' # "not yet"
  PROVE  UndisturbedInviteIsLive'
  BY DEF UndisturbedInviteIsLive

LEMMA InviteOffers ==
  ASSUME LiveInv, NEW old \in {0} \cup Calls, NEW t \in Transports, loop.at \in {"pause", "tcp"},
         Invite(old, t), accepts' = accepts, UNCHANGED <<failed, back>>,
         quiet' => quiet, t = "udp" /\ quiet' => "udp" \in accepts
  PROVE  Refused' /\ Offered' /\ UndisturbedInviteIsLive'
<1> DEFINE c == Len(calls) + 1
<1> USE DEF LiveInv
<1>1. loop.sess \in 1..Len(noted)
  BY CallsTyped DEF TypeInv, LoopType
<1>2. /\ Calls' = Calls \cup {c} /\ wire \in Seq(Messages(Calls'))
      /\ (\A k \in Calls : calls'[k] = calls[k]) /\ calls'[c] = t /\ c \notin {0} \cup Calls
  BY NewCall, CallsStay DEF Invite
<1>3. loop'.at = t /\ loop'.sess = loop.sess /\ Call' = c /\ rtp' = c /\ outcome' = outcome
  BY <1>1, CallsTyped DEF Invite, Call, TypeInv, LoopType
<1>4. wire \in Seq(Messages(Calls))
  BY DEF TypeInv, WireType
<1>5. ByesOn(wire') \subseteq Calls \cup {old} /\ InviteOn(c, wire')
  BY <1>2, <1>4, InviteFollows, ByesTyped DEF Invite
<1>6. Offered'
  BY <1>2, <1>3, <1>5 DEF Offered
<1> QED
  BY <1>2, <1>3, <1>6, StillRefused, StillLive

\* Polling comes to nothing only where the device does not accept what it
\* was offered, or something disturbed.
LEMMA NothingMeansRefused ==
  ASSUME LiveInv, quiet, Polling, Call \in failed \/ NothingToCome
  PROVE  loop.at = "tcp" /\ "udp" \in accepts
<1> USE DEF LiveInv
<1>1. rtp = Call /\ calls[Call] = loop.at /\ (loop.at = "udp" => "udp" \in accepts)
  BY DEF Offered
<1>2. loop.at \notin accepts
  <2>1. CASE Call \in failed
    BY <1>1, <2>1 DEF Refused
  <2>2. CASE NothingToCome
    BY <1>1, <2>2 DEF NothingToCome, Offered, InviteOn
  <2> QED
    BY <2>1, <2>2
<1>3. accepts \subseteq {"tcp", "udp"} /\ accepts # {}
  BY DEF TypeInv, CallsType, Transports
<1> QED
  BY <1>1, <1>2, <1>3 DEF Polling

LEMMA NextTransportLive ==
  ASSUME LiveInv, Polling, NextTransport, accepts' = accepts, UNCHANGED <<failed, back>>,
         quiet' => quiet /\ (Call \in failed \/ NothingToCome)
  PROVE  Refused' /\ Offered' /\ UndisturbedInviteIsLive'
<1> USE DEF LiveInv
<1>1. CASE loop.at = "tcp" /\ SendFails
  BY <1>1, StillRefused, NotPolling, StillLive DEF SendFails, Reply, Idle
<1>2. CASE loop.at = "tcp" /\ Invite(Call, "udp")
  <2>1. Call \in {0} \cup Calls
    BY CallsTyped DEF Polling, Call, TypeInv, LoopType
  <2> QED
    BY <1>2, <2>1, NothingMeansRefused, InviteOffers DEF Transports
<1>3. CASE loop.at = "udp" /\ Reply("not yet") /\ UNCHANGED <<noted, calls, wire, rtp, live, dropped>>
  <2>1. ~quiet'
    BY <1>3, NothingMeansRefused
  <2> QED
    BY <1>3, <2>1, StillRefused, NotPolling DEF Reply, Idle, UndisturbedInviteIsLive
<1> QED
  BY <1>1, <1>2, <1>3 DEF NextTransport

LEMMA LiveLoop == LiveInv /\ LoopStep => Refused' /\ Offered' /\ UndisturbedInviteIsLive'
<1> SUFFICES ASSUME LiveInv, LoopStep PROVE Refused' /\ Offered' /\ UndisturbedInviteIsLive'
  OBVIOUS
<1> USE DEF LiveInv
<1>1. accepts' = accepts /\ UNCHANGED <<failed, back>>
  BY DEF LoopStep, Take, InviteStart, InvitePause, ByePlay, PollLive, PollFailed, PollTimesOut,
         PollTimesOutEarly, PollNoPort, devVars
<1>2. ASSUME UNCHANGED calls, loop'.at \notin {"tcp", "udp"}, outcome' # "not yet" \/ outcome' = outcome,
             quiet' => quiet \/ outcome' # "not yet"
      PROVE  Refused' /\ Offered' /\ UndisturbedInviteIsLive'
  <2>1. UndisturbedInviteIsLive'
    BY <1>2 DEF UndisturbedInviteIsLive
  <2> QED
    BY <1>1, <1>2, <2>1, StillRefused, NotPolling
<1>3. CASE Take
  BY <1>2, <1>3 DEF Take
<1>4. CASE InviteStart \/ ByePlay \/ PollLive
  <2>1. UNCHANGED <<calls, quiet>>
    BY <1>4 DEF InviteStart, ByePlay, PollLive
  <2>2. loop'.at \in {"idle", "pause"} /\ (outcome' = outcome \/ outcome' # "not yet")
    <3>1. CASE InviteStart
      <4>1. CASE Reply("no session") \/ Reply("live")
        <5>1. loop' = Idle /\ outcome' \in {"no session", "live"}
          BY <4>1 DEF Reply
        <5> QED
          BY <5>1 DEF Idle
      <4>2. CASE loop' = [loop EXCEPT !.at = "pause", !.sess = current] /\ UNCHANGED outcome
        BY <4>2 DEF TypeInv, LoopType
      <4> QED
        BY <3>1, <4>1, <4>2 DEF InviteStart
    <3>2. CASE ByePlay \/ PollLive
      <4>1. loop' = Idle /\ outcome' \in {"bye", "live"}
        BY <3>2 DEF ByePlay, PollLive, Reply
      <4> QED
        BY <4>1 DEF Idle
    <3> QED
      BY <1>4, <3>1, <3>2
  <2> QED
    BY <1>2, <2>1, <2>2
<1>5. CASE InvitePause
  <2> DEFINE old == IF loop.op = "force" THEN noted[loop.sess] ELSE 0
  <2>1. old \in {0} \cup Calls /\ loop.at = "pause"
    BY <1>5, CallsTyped DEF InvitePause, TypeInv, LoopType
  <2>2. CASE (SendFails \/ NoPort(old)) /\ (Undisturbed \/ Disturb("port"))
    <3>1. loop' = Idle /\ UNCHANGED calls /\ outcome' # "not yet"
      BY <2>2 DEF SendFails, NoPort, Reply
    <3> QED
      BY <1>2, <3>1 DEF Idle
  <2>3. CASE OpensInVain("tcp") /\ Undisturbed
    <3>1. \A k \in Calls : calls'[k] = calls[k]
      BY <2>3, CallsStay DEF OpensInVain, Transports
    <3> QED
      BY <1>1, <2>3, <3>1, StillRefused, NotPolling, StillLive DEF OpensInVain, Reply, Idle, Undisturbed
  <2>4. CASE Invite(old, "tcp") /\ Undisturbed
    BY <1>1, <2>1, <2>4, InviteOffers DEF Undisturbed, Transports
  <2>5. CASE Disturb("port") /\ Invite(old, "udp")
    BY <1>1, <2>1, <2>5, InviteOffers DEF Disturb, Transports
  <2> QED
    BY <1>5, <2>2, <2>3, <2>4, <2>5 DEF InvitePause
<1>6. CASE PollFailed \/ PollTimesOut \/ PollTimesOutEarly
  <2>1. /\ Polling /\ NextTransport
        /\ quiet' => quiet /\ (Call \in failed \/ NothingToCome)
    BY <1>6 DEF PollFailed, PollTimesOut, PollTimesOutEarly, Undisturbed, Disturb
  <2> QED
    BY <1>1, <2>1, NextTransportLive
<1>7. CASE PollNoPort
  BY <1>2, <1>7 DEF PollNoPort, NoPort, Reply, Idle, Disturb
<1> QED
  BY <1>3, <1>4, <1>5, <1>6, <1>7 DEF LoopStep

LEMMA LiveSip == LiveInv /\ SipStep => Refused' /\ Offered' /\ UndisturbedInviteIsLive'
<1> SUFFICES ASSUME LiveInv, SipStep PROVE Refused' /\ Offered' /\ UndisturbedInviteIsLive'
  OBVIOUS
<1> USE DEF LiveInv
<1>1. UNCHANGED <<calls, rtp, accepts, sending>> /\ (outcome' = outcome \/ outcome' # "not yet")
      /\ (quiet' => quiet)
  <2>1. CASE Register
    BY <2>1 DEF Register, devVars, Disturb, Undisturbed
  <2>2. CASE SessionEnds
    BY <2>2 DEF SessionEnds, devVars, Disturb
  <2>3. CASE Respond
    BY <2>3 DEF Respond, devVars
  <2>4. CASE Crash
    BY <2>4 DEF Crash, devVars, Disturb
  <2> QED
    BY <2>1, <2>2, <2>3, <2>4 DEF SipStep
<1>2. UndisturbedInviteIsLive'
  BY <1>1, StillLive
<1>3. CASE Register
  <2>1. Polling => Call' = Call
    BY <1>3, CallsTyped, AppendProperties DEF Register, TypeInv, NotedType, LoopType, Polling, Call
  <2>2. Offered'
    BY <1>1, <1>3, <2>1, StillOffered DEF Register, Polling, InviteOn, ByesOn
  <2> QED
    BY <1>1, <1>2, <1>3, <2>2, StillRefused DEF Register
<1>4. CASE SessionEnds
  <2>1. ~quiet'
    BY <1>4 DEF SessionEnds, Disturb
  <2> QED
    BY <1>1, <1>2, <1>4, <2>1, StillRefused DEF SessionEnds, Offered
<1>5. CASE Respond
  <2>1. PICK answer \in back :
          /\ back' = back \ {answer}
          /\ failed' = failed \cup (IF (current # 0 /\ noted[current] = answer.call) /\ ~answer.ok
                                    THEN {answer.call} ELSE {})
    BY <1>5 DEF Respond
  <2>2. Refused'
    BY <1>1, <2>1 DEF Refused
  <2>3. Offered'
    BY <1>1, <1>5, StillOffered DEF Respond, Polling, Call, InviteOn, ByesOn
  <2> QED
    BY <1>2, <2>2, <2>3
<1>6. CASE Crash
  BY <1>1, <1>2, <1>6, StillRefused, NotPolling DEF Crash, Idle
<1> QED
  BY <1>3, <1>4, <1>5, <1>6 DEF SipStep

LEMMA LiveDevice == LiveInv /\ DeviceStep => Refused' /\ Offered' /\ UndisturbedInviteIsLive'
<1> SUFFICES ASSUME LiveInv, DeviceStep PROVE Refused' /\ Offered' /\ UndisturbedInviteIsLive'
  OBVIOUS
<1> USE DEF LiveInv
<1>1. UNCHANGED <<calls, rtp, accepts, loop, noted, failed, outcome>> /\ (quiet' => quiet)
  BY DEF DeviceStep, Receive, Lose, MediaStops, HangUp, MediaArrives, devVars, Disturb
<1>2. UndisturbedInviteIsLive' /\ Polling' = Polling /\ Call' = Call
  BY <1>1, StillLive DEF Polling, Call
<1>3. wire \in Seq(Messages(Calls))
  BY DEF TypeInv, WireType
<1>4. CASE Receive
  <2> DEFINE m == Head(wire)
  <2>1. /\ wire # <<>> /\ wire' = Tail(wire) /\ m.what \in {"INVITE", "BYE"} /\ m.call \in Calls
    <3>1. wire # <<>> /\ wire' = Tail(wire)
      BY <1>4 DEF Receive
    <3>2. m \in Messages(Calls)
      BY <1>3, <3>1, HeadTailProperties
    <3> HIDE DEF m
    <3> QED
      BY <3>1, <3>2 DEF Messages
  <2>2. /\ ByesOn(wire') \subseteq ByesOn(wire) /\ (m.what = "BYE" => m.call \in ByesOn(wire))
        /\ \A c : InviteOn(c, wire) => InviteOn(c, wire') \/ (m.what = "INVITE" /\ m.call = c)
    BY <1>3, <2>1, FirstLeaves
  <2>3. \/ /\ m.what = "INVITE"
           /\ sending' = IF calls[m.call] \in accepts THEN sending \cup {m.call} ELSE sending
           /\ back' = back \cup {[call |-> m.call, ok |-> calls[m.call] \in accepts]}
        \/ m.what = "BYE" /\ sending \ {m.call} \subseteq sending' /\ back' = back
    BY <1>4 DEF Receive
  <2> HIDE DEF m
  <2>4. Refused'
    <3>1. ASSUME NEW a \in back', ~a.ok PROVE calls[a.call] \notin accepts
      <4>1. CASE a \in back
        BY <3>1, <4>1 DEF Refused
      <4>2. CASE a = [call |-> m.call, ok |-> calls[m.call] \in accepts]
        BY <3>1, <4>2
      <4> QED
        BY <2>3, <3>1, <4>1, <4>2
    <3> QED
      BY <1>1, <3>1 DEF Refused
  <2>5. Offered'
    <3>1. ASSUME quiet, Polling, loop.at \in accepts, Call \in sending \/ InviteOn(Call, wire)
          PROVE  Call \in sending' \/ InviteOn(Call, wire')
      <4>1. Call \notin ByesOn(wire) /\ calls[Call] = loop.at
        BY <3>1 DEF Offered
      <4>2. CASE Call \in sending
        BY <2>2, <2>3, <4>1, <4>2
      <4>3. CASE InviteOn(Call, wire)
        BY <2>2, <2>3, <3>1, <4>1, <4>3
      <4> QED
        BY <3>1, <4>2, <4>3
    <3> QED
      BY <1>1, <1>2, <2>2, <3>1, StillOffered
  <2> QED
    BY <1>2, <2>4, <2>5
<1>5. CASE Lose \/ \E c \in DOMAIN calls : HangUp(c)
  <2>1. ~quiet' /\ back' = back
    BY <1>5 DEF Lose, HangUp, Disturb
  <2> QED
    BY <1>1, <1>2, <2>1, StillRefused DEF Offered
<1>6. CASE MediaStops \/ \E c \in DOMAIN calls : MediaArrives(c)
  <2>1. UNCHANGED <<wire, back, sending>>
    BY <1>6 DEF MediaStops, MediaArrives, devVars
  <2>2. Offered'
    BY <1>1, <1>2, <2>1, StillOffered DEF InviteOn, ByesOn
  <2> QED
    BY <1>1, <1>2, <2>1, <2>2, StillRefused
<1> QED
  BY <1>4, <1>5, <1>6 DEF DeviceStep

LEMMA LiveStep == LiveInv /\ [Next]_vars => LiveInv'
<1> SUFFICES ASSUME LiveInv, [Next]_vars PROVE LiveInv'
  OBVIOUS
<1>1. TypeInv' /\ accepts' = accepts
  <2>1. accepts' = accepts
    BY DEF Next, Push, AskPreview, AskAnalysis, AskBye, Enqueue, LoopStep, Take, InviteStart, InvitePause,
           ByePlay, PollLive, PollFailed, PollTimesOut, PollTimesOutEarly, PollNoPort, SipStep, Register,
           SessionEnds, Respond, Crash, DeviceStep, Receive, Lose, MediaStops, HangUp, MediaArrives,
           devVars, vars
  <2> QED
    BY <2>1, TypeStep DEF LiveInv
<1>2. Refused' /\ Offered' /\ UndisturbedInviteIsLive'
  <2>1. CASE Push \/ UNCHANGED vars
    <3>1. UNCHANGED <<calls, rtp, accepts, loop, noted, failed, back, sending, wire, outcome, quiet>>
      BY <2>1 DEF Push, AskPreview, AskAnalysis, AskBye, Enqueue, vars, devVars
    <3>2. Offered'
      BY <3>1, StillOffered DEF LiveInv, Polling, Call, InviteOn, ByesOn
    <3> QED
      BY <3>1, <3>2, StillRefused, StillLive DEF LiveInv
  <2> QED
    BY <2>1, LiveLoop, LiveSip, LiveDevice DEF Next
<1> QED
  BY <1>1, <1>2 DEF LiveInv

(* A command to play a registered device brings live media, or an answer   *)
(* that names another reason, unless something disturbed it while it ran,  *)
(* whatever earlier commands, lost BYEs and restarts left behind.          *)
THEOREM InvitesAreLive == Spec => []UndisturbedInviteIsLive
<1>1. LiveInv => UndisturbedInviteIsLive
  BY DEF LiveInv
<1> QED
  BY <1>1, LiveInit, LiveStep, PTL DEF Spec
=============================================================================
