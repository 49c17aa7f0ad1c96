----------------------------- MODULE SipSessions -----------------------------
(***************************************************************************)
(* Who is online: the sessions in the memory of the SIP process            *)
(* (visionai/core/sip/server.py), the rows it writes for them into the     *)
(* hash gb28181/runtime, its heartbeat key gb28181/sip_alive, and the      *)
(* device list of the API (core/gb28181_store.py), which reads both and    *)
(* also writes rows, from another process.                                 *)
(*                                                                         *)
(* The handlers of the SIP process do not await between looking at a       *)
(* session and writing its row, so a handler is one step.  The list of the *)
(* API takes one step for each access to Redis.                            *)
(*                                                                         *)
(* Left out: the copy of the status in the device row, which the list      *)
(* overwrites with its own; rejected registrations, which change nothing.  *)
(* Bound: the budget of disturbances (crashes, failed writes, devices that *)
(* go silent, change their connection or sign off).                        *)
(***************************************************************************)
EXTENDS Integers, FiniteSets

CONSTANTS
  Devices,
  Conns,           \* TCP connections
  Udp, Off,        \* a device that talks over UDP; one that does not talk
  MaxMiss,         \* keepalive_timeout_count
  MaxDisturbances

ASSUME SipSessionsAssumption ==
  /\ Udp \notin Conns /\ Off \notin Conns /\ Udp # Off
  /\ MaxMiss \in Nat \ {0} /\ MaxDisturbances \in Nat

VARIABLES
  on,        \* the connection a device talks over
  open,      \* TCP connections the SIP process has open
  sip,       \* "down", "marking" (the start of run), "serving"
  boot,      \* _boot_id
  marking,   \* rows mark_all_runtime_offline has still to write
  sessions,  \* SipStack.sessions
  runtime,   \* the rows of gb28181/runtime
  alive,     \* the boot id in gb28181/sip_alive
  api,       \* where list_devices_live is, and the boot id it has read
  todo,      \* the rows list_devices_live has still to write
  budget,
  heard,     \* history: the connection a device's last message came over
  unwritten  \* history: devices whose session ended and the row could not be written

sipVars == <<sip, boot, marking, sessions>>
apiVars == <<api, todo>>
vars == <<on, open, sipVars, runtime, alive, apiVars, budget, heard, unwritten>>

NoBoot    == 0
Absent    == [conn |-> Off, missed |-> 0]
HasSession(d) == sessions[d] # Absent
Online    == [status |-> "online", boot |-> boot, fresh |-> TRUE]

Init ==
  /\ on = [d \in Devices |-> Off] /\ open = {}
  /\ sip = "down" /\ boot = NoBoot /\ marking = {}
  /\ sessions = [d \in Devices |-> Absent]
  /\ runtime = [d \in Devices |-> [status |-> "offline", boot |-> NoBoot, fresh |-> TRUE]]
  /\ alive = NoBoot
  /\ api = [at |-> "idle", boot |-> NoBoot] /\ todo = {}
  /\ budget = MaxDisturbances
  /\ heard = [d \in Devices |-> Off] /\ unwritten = {}

Disturb == budget > 0 /\ budget' = budget - 1

-----------------------------------------------------------------------------
(* write_runtime.  A Redis error is logged, and the caller goes on.        *)
WriteOnline(d) ==
  \/ /\ runtime' = [runtime EXCEPT ![d] = Online]
     /\ unwritten' = unwritten \ {d}
     /\ UNCHANGED budget
  \/ Disturb /\ UNCHANGED <<runtime, unwritten>>

\* The sessions of D end: each row is written OFFLINE, or cannot be.
WriteOffline(D) ==
  \E failed \in SUBSET D :
    /\ runtime' = [d \in Devices |->
         IF d \in D \ failed THEN [runtime[d] EXCEPT !.status = "offline"] ELSE runtime[d]]
    /\ unwritten' = (unwritten \ D) \cup failed
    /\ IF failed = {} THEN UNCHANGED budget ELSE Disturb

Pop(D) == sessions' = [d \in Devices |-> IF d \in D THEN Absent ELSE sessions[d]]

-----------------------------------------------------------------------------
(* Devices.                                                                *)

\* A connection, new or shared with another device behind the same gateway.
Connect(d) ==
  /\ on[d] = Off /\ sip = "serving"
  /\ \E c \in Conns \cup {Udp} :
       /\ on' = [on EXCEPT ![d] = c]
       /\ open' = open \cup ({c} \ {Udp})
  /\ UNCHANGED <<sipVars, runtime, alive, apiVars, budget, heard, unwritten>>

\* The device comes back over another connection; the old one stays open here.
Move(d) ==
  /\ Disturb /\ on[d] # Off /\ sip = "serving"
  /\ \E c \in (Conns \ open) \cup {Udp} :
       /\ on' = [on EXCEPT ![d] = c]
       /\ open' = open \cup ({c} \ {Udp})
  /\ heard' = [heard EXCEPT ![d] = Off]
  /\ UNCHANGED <<sipVars, runtime, alive, apiVars, unwritten>>

\* The device, or the way to it, is lost without a word.
GoSilent(d) ==
  /\ Disturb /\ on[d] # Off
  /\ on' = [on EXCEPT ![d] = Off]
  /\ heard' = [heard EXCEPT ![d] = Off]
  /\ UNCHANGED <<open, sipVars, runtime, alive, apiVars, unwritten>>

\* interval * max_miss * 1.5 seconds without a word: runtime_is_fresh is false.
RowAges(d) ==
  /\ on[d] = Off /\ runtime[d].status = "online" /\ runtime[d].fresh
  /\ runtime' = [runtime EXCEPT ![d].fresh = FALSE]
  /\ UNCHANGED <<on, open, sipVars, alive, apiVars, budget, heard, unwritten>>

-----------------------------------------------------------------------------
(* Handlers of the SIP process.                                            *)
Talks(d) == sip = "serving" /\ on[d] # Off

\* _on_register: always a new DeviceSession.
Register(d) ==
  /\ Talks(d)
  /\ sessions' = [sessions EXCEPT ![d] = [conn |-> on[d], missed |-> 0]]
  /\ WriteOnline(d)
  /\ heard' = [heard EXCEPT ![d] = on[d]]
  /\ UNCHANGED <<on, open, sip, boot, marking, alive, apiVars>>

\* _on_register with Expires: 0.
Unregister(d) ==
  /\ Talks(d) /\ HasSession(d) /\ budget > 0
  /\ on' = [on EXCEPT ![d] = Off]
  /\ Pop({d})
  /\ runtime' = [runtime EXCEPT ![d].status = "offline"]
  /\ unwritten' = unwritten \ {d}
  /\ budget' = budget - 1
  /\ heard' = [heard EXCEPT ![d] = Off]
  /\ UNCHANGED <<open, sip, boot, marking, alive, apiVars>>

\* _touch_or_restore_session: over UDP the writer of a known session stays.
touch_or_restore_session(d) ==
  sessions' = [sessions EXCEPT ![d] =
    [conn |-> IF on[d] = Udp /\ HasSession(d) THEN sessions[d].conn ELSE on[d],
     missed |-> 0]]

\* Mutant: the row is written for a known session only.
KeepaliveKnownOnly(d) ==
  /\ Talks(d)
  /\ touch_or_restore_session(d)
  /\ IF HasSession(d) /\ runtime[d].status = "online" THEN WriteOnline(d)
     ELSE UNCHANGED <<runtime, budget, unwritten>>
  /\ heard' = [heard EXCEPT ![d] = on[d]]
  /\ UNCHANGED <<on, open, sip, boot, marking, alive, apiVars>>

\* _on_message with a Keepalive.
Keepalive(d) ==
  /\ Talks(d)
  /\ touch_or_restore_session(d)
  /\ WriteOnline(d)
  /\ heard' = [heard EXCEPT ![d] = on[d]]
  /\ UNCHANGED <<on, open, sip, boot, marking, alive, apiVars>>

\* _on_message with anything else: the session, but not the row.
Message(d) ==
  /\ Talks(d)
  /\ touch_or_restore_session(d)
  /\ heard' = [heard EXCEPT ![d] = on[d]]
  /\ UNCHANGED <<on, open, sip, boot, marking, runtime, alive, apiVars, budget, unwritten>>

Silence(c) == [d \in Devices |-> IF on[d] = c THEN Off ELSE on[d]]

\* Mutant: every device last seen on the connection loses its session.
CloseEndsAll(c) ==
  LET over == {d \in Devices : HasSession(d) /\ sessions[d].conn \in Conns} IN
  /\ c \in open
  /\ open' = open \ {c}
  /\ on' = Silence(c)
  /\ heard' = [d \in Devices |-> IF on[d] = c THEN Off ELSE heard[d]]
  /\ Pop(over)
  /\ WriteOffline(over)
  /\ UNCHANGED <<sip, boot, marking, alive, apiVars>>

\* The end of _handle_tcp: only sessions whose writer is this connection end.
Close(c) ==
  LET over == {d \in Devices : sessions[d].conn = c} IN
  /\ c \in open
  /\ open' = open \ {c}
  /\ on' = Silence(c)
  /\ heard' = [d \in Devices |-> IF on[d] = c THEN Off ELSE heard[d]]
  /\ Pop(over)
  /\ WriteOffline(over)
  /\ UNCHANGED <<sip, boot, marking, alive, apiVars>>

\* _expire_loop: late are the devices silent for 1.5 intervals since they were
\* last looked at; a talking device sends in every interval.
Expire(late) ==
  LET missed == [d \in Devices |-> sessions[d].missed + (IF d \in late THEN 1 ELSE 0)]
      over   == {d \in late : missed[d] >= MaxMiss} IN
  /\ sip = "serving"
  /\ sessions' = [d \in Devices |->
       IF d \in over THEN Absent ELSE [sessions[d] EXCEPT !.missed = missed[d]]]
  /\ WriteOffline(over)
  /\ UNCHANGED <<on, open, sip, boot, marking, alive, apiVars, heard>>

Late == {d \in Devices : HasSession(d) /\ on[d] = Off}
ExpireLoop == \E late \in (SUBSET Late) \ {{}} : Expire(late)

-----------------------------------------------------------------------------
(* The life of the SIP process.                                            *)
Crash ==
  /\ Disturb /\ sip # "down"
  /\ sip' = "down" /\ marking' = {}
  /\ sessions' = [d \in Devices |-> Absent]
  /\ open' = {}
  /\ on' = [d \in Devices |-> IF on[d] = Udp THEN Udp ELSE Off]
  /\ heard' = [d \in Devices |-> Off] /\ unwritten' = {}
  /\ UNCHANGED <<boot, runtime, alive, apiVars>>

\* run: mark_all_runtime_offline reads the rows ...
Start ==
  /\ sip = "down"
  /\ sip' = "marking" /\ boot' = boot + 1
  /\ marking' = {d \in Devices : runtime[d].status = "online"}
  /\ UNCHANGED <<on, open, sessions, runtime, alive, apiVars, budget, heard, unwritten>>

\* ... writes them one by one ...
MarkRow(d) ==
  /\ d \in marking
  /\ marking' = marking \ {d}
  /\ \/ /\ runtime' = [runtime EXCEPT ![d] = [status |-> "offline", boot |-> NoBoot, fresh |-> FALSE]]
        /\ UNCHANGED budget
     \/ Disturb /\ UNCHANGED runtime
  /\ UNCHANGED <<on, open, sip, boot, sessions, alive, apiVars, heard, unwritten>>

\* ... and only then listens.
Serve ==
  /\ sip = "marking" /\ marking = {}
  /\ sip' = "serving"
  /\ UNCHANGED <<on, open, boot, marking, sessions, runtime, alive, apiVars, budget,
                 heard, unwritten>>

\* _alive_loop: every 5 s, for 15 s.
TouchAlive ==
  /\ sip = "serving" /\ alive # boot
  /\ alive' = boot
  /\ UNCHANGED <<on, open, sipVars, runtime, apiVars, budget, heard, unwritten>>

AliveExpires ==
  /\ alive # NoBoot /\ ~(sip = "serving" /\ alive = boot)
  /\ alive' = NoBoot
  /\ UNCHANGED <<on, open, sipVars, runtime, apiVars, budget, heard, unwritten>>

-----------------------------------------------------------------------------
(* list_devices_live of the API.                                           *)
\* Mutant: the boot id is not compared.
ShownWithoutBoot(row, b) ==
  b # NoBoot /\ row.status = "online" /\ row.fresh

\* Mutant: the age of the row is not looked at.
ShownWithoutAge(row, b) ==
  b # NoBoot /\ row.status = "online" /\ row.boot = b

\* overlay_sip_runtime: what a row shows, given the boot id of the heartbeat.
ShownAs(row, b) ==
  b # NoBoot /\ row.status = "online" /\ row.boot = b /\ row.fresh

ListAlive ==
  /\ api.at = "idle"
  /\ api' = [at |-> "rows", boot |-> alive]
  /\ UNCHANGED <<on, open, sipVars, runtime, alive, todo, budget, heard, unwritten>>

\* Rows that say online and are not shown so will be written offline.
ListRows ==
  /\ api.at = "rows"
  /\ todo' = {d \in Devices : runtime[d].status = "online" /\ ~ShownAs(runtime[d], api.boot)}
  /\ api' = [at |-> IF todo' = {} THEN "idle" ELSE "write", boot |-> NoBoot]
  /\ UNCHANGED <<on, open, sipVars, runtime, alive, budget, heard, unwritten>>

\* The row is written by now whatever has become of it since it was read.
ListWrite(d) ==
  /\ api.at = "write" /\ d \in todo
  /\ todo' = todo \ {d}
  /\ api' = [api EXCEPT !.at = IF todo' = {} THEN "idle" ELSE "write"]
  /\ runtime' = [runtime EXCEPT ![d].status = "offline"]
  /\ UNCHANGED <<on, open, sipVars, alive, budget, heard, unwritten>>

-----------------------------------------------------------------------------
DeviceStep(d) ==
  \/ Connect(d) \/ Move(d) \/ GoSilent(d) \/ RowAges(d)
  \/ Register(d) \/ Unregister(d) \/ Keepalive(d) \/ Message(d)

SipStep == Start \/ Serve \/ TouchAlive \/ ExpireLoop \/ \E d \in Devices : MarkRow(d)
ApiStep == ListAlive \/ ListRows \/ \E d \in Devices : ListWrite(d)

Next ==
  \/ \E d \in Devices : DeviceStep(d)
  \/ \E c \in Conns : Close(c)
  \/ SipStep \/ ApiStep
  \/ Crash \/ AliveExpires

Spec == Init /\ [][Next]_vars

(* The service is restarted when it ends; its loops and a request of the   *)
(* API run on; a device that talks sends its keepalives; time passes.      *)
Fairness ==
  /\ WF_vars(Start) /\ WF_vars(Serve) /\ WF_vars(TouchAlive) /\ WF_vars(ExpireLoop)
  /\ WF_vars(AliveExpires)
  /\ WF_vars(ListRows)
  /\ \A d \in Devices :
       WF_vars(MarkRow(d)) /\ WF_vars(ListWrite(d)) /\ WF_vars(Keepalive(d)) /\ WF_vars(RowAges(d))

FairSpec == Spec /\ Fairness

-----------------------------------------------------------------------------
Rows == [status : {"online", "offline"}, boot : Nat, fresh : BOOLEAN]

TypeOK ==
  /\ on \in [Devices -> Conns \cup {Udp, Off}] /\ open \subseteq Conns
  /\ sip \in {"down", "marking", "serving"} /\ boot \in Nat /\ alive \in 0..boot
  /\ marking \subseteq Devices /\ (sip # "marking" => marking = {})
  /\ sessions \in [Devices -> [conn : Conns \cup {Udp, Off}, missed : 0..(MaxMiss - 1)]]
  /\ runtime \in [Devices -> Rows]
  /\ api \in [at : {"idle", "rows", "write"}, boot : Nat] /\ todo \subseteq Devices
  /\ budget \in 0..MaxDisturbances
  /\ heard \in [Devices -> Conns \cup {Udp, Off}] /\ unwritten \subseteq Devices

Shown(d) == ShownAs(runtime[d], alive)

(* docs/gb28181.md: "online" in the list means a session in the memory of   *)
(* the SIP process that runs now, through restarts, failed writes of the    *)
(* start and rows written by the list itself.  A row that could not be      *)
(* written when its session ended is the exception: it has to age.          *)
ShownHasSession ==
  sip = "serving" /\ alive = boot =>
    \A d \in Devices : Shown(d) /\ d \notin unwritten => HasSession(d)

(* A device that talks over an open TCP connection keeps its session, bound *)
(* to that connection, whichever of its earlier connections close.          *)
TalkingKeepsSession ==
  \A d \in Devices :
    heard[d] \in Conns => HasSession(d) /\ sessions[d].conn = heard[d]

(* A device that falls silent for good is shown offline for good, even if   *)
(* the rows could not be written when its session ended.                    *)
SilentShownOffline ==
  \A d \in Devices : <>[](on[d] = Off) => <>[]~Shown(d)

(* A device that keeps talking is shown online for good, although the list  *)
(* may have written it offline from what it had read before.                *)
TalkingShownOnline ==
  \A d \in Devices : <>[](on[d] # Off) => <>[]Shown(d)
=============================================================================
