-------------------------- MODULE SipSessionsProofs --------------------------
(***************************************************************************)
(* The safety properties of SipSessions, for every set of devices and      *)
(* connections and every number of disturbances.                           *)
(*                                                                         *)
(* ShownHasSession needs to know of rows that carry the id of the current  *)
(* boot (CurrentRows).  While the process starts there is none, because    *)
(* ids only grow (a fact of the types).  Once it serves, the handler that  *)
(* writes such a row online has a session, and the handler that ends the   *)
(* session writes the row offline or is remembered in unwritten; the API   *)
(* writes rows offline only.                                               *)
(***************************************************************************)
EXTENDS SipSessions, TLAPS

\* No row is from a later boot, and none from this one before it serves.
RowsOfBoots ==
  /\ \A d \in Devices : runtime[d].boot <= boot
  /\ sip = "marking" => \A d \in Devices : runtime[d].boot # boot

\* Only an absent session is bound to nothing.
Bound == \A d \in Devices : HasSession(d) => sessions[d].conn # Off

TypeInv == TypeOK /\ RowsOfBoots /\ Bound

USE SipSessionsAssumption

LEMMA TypeInit == Init => TypeInv
  BY DEF Init, TypeInv, TypeOK, RowsOfBoots, Bound, HasSession, Rows, Absent, NoBoot

\* What the handlers of the SIP process write keeps rows and sessions typed.
LEMMA OnlineTyped ==
  ASSUME TypeInv, sip = "serving", NEW d \in Devices, WriteOnline(d),
         UNCHANGED <<sip, boot>>
  PROVE  /\ runtime' \in [Devices -> Rows] /\ RowsOfBoots'
         /\ budget' \in 0..MaxDisturbances /\ unwritten' \subseteq Devices
<1> USE DEF TypeInv, TypeOK, RowsOfBoots
<1>1. CASE UNCHANGED runtime
  BY <1>1 DEF WriteOnline, Disturb
<1>2. CASE runtime' = [runtime EXCEPT ![d] = Online]
  <2>1. Online \in Rows /\ Online.boot = boot
    BY DEF Rows, Online
  <2>2. runtime' \in [Devices -> Rows]
    BY <1>2, <2>1
  <2>3. \A e \in Devices : runtime'[e].boot <= boot'
    BY <1>2, <2>1
  <2> QED
    BY <2>2, <2>3 DEF WriteOnline, Disturb
<1> QED
  BY <1>1, <1>2 DEF WriteOnline

LEMMA OfflineTyped ==
  ASSUME TypeInv, NEW D \in SUBSET Devices, WriteOffline(D), UNCHANGED <<sip, boot>>
  PROVE  /\ runtime' \in [Devices -> Rows] /\ RowsOfBoots'
         /\ budget' \in 0..MaxDisturbances /\ unwritten' \subseteq Devices
<1> USE DEF TypeInv, TypeOK, RowsOfBoots
<1> PICK failed \in SUBSET D :
      /\ runtime' = [d \in Devices |->
           IF d \in D \ failed THEN [runtime[d] EXCEPT !.status = "offline"] ELSE runtime[d]]
      /\ unwritten' = (unwritten \ D) \cup failed
      /\ IF failed = {} THEN UNCHANGED budget ELSE Disturb
  BY DEF WriteOffline
<1>1. \A d \in Devices : runtime'[d] \in Rows /\ runtime'[d].boot = runtime[d].boot
  BY DEF Rows
<1> QED
  BY <1>1 DEF Disturb

LEMMA TouchTyped ==
  ASSUME TypeInv, NEW d \in Devices, on[d] # Off, touch_or_restore_session(d)
  PROVE  /\ sessions' \in [Devices -> [conn : Conns \cup {Udp, Off}, missed : 0..(MaxMiss - 1)]]
         /\ Bound'
<1>1. sessions' \in [Devices -> [conn : Conns \cup {Udp, Off}, missed : 0..(MaxMiss - 1)]]
  BY DEF TypeInv, TypeOK, touch_or_restore_session
<1> QED
  BY <1>1 DEF TypeInv, TypeOK, Bound, HasSession, Absent, touch_or_restore_session

LEMMA TypeStep == TypeInv /\ [Next]_vars => TypeInv'
<1> SUFFICES ASSUME TypeInv, [Next]_vars PROVE TypeInv'
  OBVIOUS
<1> USE DEF TypeInv, TypeOK, RowsOfBoots, Bound, HasSession, Rows, sipVars, apiVars, Disturb
<1>1. ASSUME NEW d \in Devices, Connect(d) PROVE TypeInv'
  BY <1>1 DEF Connect
<1>2. ASSUME NEW d \in Devices, Move(d) PROVE TypeInv'
  BY <1>2 DEF Move
<1>3. ASSUME NEW d \in Devices, GoSilent(d) PROVE TypeInv'
  BY <1>3 DEF GoSilent
<1>4. ASSUME NEW d \in Devices, RowAges(d) PROVE TypeInv'
  BY <1>4 DEF RowAges
<1>5. ASSUME NEW d \in Devices, Register(d) PROVE TypeInv'
  <2>1. sessions' \in [Devices -> [conn : Conns \cup {Udp, Off}, missed : 0..(MaxMiss - 1)]]
    BY <1>5 DEF Register
  <2>2. Bound'
    BY <1>5, <2>1 DEF Register, Talks, Absent
  <2> QED
    BY <1>5, <2>1, <2>2, OnlineTyped DEF Register, Talks
<1>6. ASSUME NEW d \in Devices, Unregister(d) PROVE TypeInv'
  BY <1>6 DEF Unregister, Talks, Pop, Absent
<1>7. ASSUME NEW d \in Devices, Keepalive(d) PROVE TypeInv'
  BY <1>7, OnlineTyped, TouchTyped DEF Keepalive, Talks
<1>8. ASSUME NEW d \in Devices, Message(d) PROVE TypeInv'
  BY <1>8, TouchTyped DEF Message, Talks
<1>9. ASSUME NEW c \in Conns, Close(c) PROVE TypeInv'
  <2>1. PICK over \in SUBSET Devices : Pop(over) /\ WriteOffline(over)
    BY <1>9 DEF Close
  <2> QED
    BY <1>9, <2>1, OfflineTyped DEF Close, Silence, Pop, Absent
<1>10. CASE Start
  BY <1>10 DEF Start
<1>11. CASE Serve
  BY <1>11 DEF Serve
<1>12. CASE TouchAlive
  BY <1>12 DEF TouchAlive
<1>13. CASE ExpireLoop
  <2>1. PICK late \in SUBSET Late : Expire(late)
    BY <1>13 DEF ExpireLoop
  <2>2. PICK over \in SUBSET Devices : WriteOffline(over)
    BY <2>1 DEF Expire, Late
  <2>3. sessions' \in [Devices -> [conn : Conns \cup {Udp, Off}, missed : 0..(MaxMiss - 1)]]
    BY <2>1 DEF Expire, Late, Absent
  <2>4. Bound'
    BY <2>1, <2>3 DEF Expire, Late, Absent
  <2> QED
    BY <2>1, <2>2, <2>3, <2>4, OfflineTyped DEF Expire
<1>14. ASSUME NEW d \in Devices, MarkRow(d) PROVE TypeInv'
  <2>1. d \in marking /\ sip = "marking" /\ boot # NoBoot
    BY <1>14 DEF MarkRow, NoBoot
  <2>2. CASE UNCHANGED runtime
    BY <1>14, <2>1, <2>2 DEF MarkRow
  <2>3. CASE runtime' = [runtime EXCEPT ![d] =
                             [status |-> "offline", boot |-> NoBoot, fresh |-> FALSE]]
    <3>1. runtime' \in [Devices -> Rows]
      BY <2>3 DEF NoBoot
    <3>2. RowsOfBoots'
      BY <1>14, <2>1, <2>3 DEF MarkRow, NoBoot
    <3> QED
      BY <1>14, <3>1, <3>2 DEF MarkRow
  <2> QED
    BY <1>14, <2>2, <2>3 DEF MarkRow
<1>15. CASE ListAlive
  BY <1>15 DEF ListAlive
<1>16. CASE ListRows
  BY <1>16 DEF ListRows, NoBoot
<1>17. ASSUME NEW d \in Devices, ListWrite(d) PROVE TypeInv'
  BY <1>17 DEF ListWrite
<1>18. CASE Crash
  BY <1>18 DEF Crash, Absent
<1>19. CASE AliveExpires
  BY <1>19 DEF AliveExpires, NoBoot
<1>20. CASE UNCHANGED vars
  BY <1>20 DEF vars
<1> QED
  BY <1>1, <1>2, <1>3, <1>4, <1>5, <1>6, <1>7, <1>8, <1>9, <1>10, <1>11, <1>12, <1>13,
     <1>14, <1>15, <1>16, <1>17, <1>18, <1>19, <1>20
  DEF Next, DeviceStep, SipStep, ApiStep

LEMMA TypeInvariance == Spec => []TypeInv
<1>1. Init => TypeInv
  BY TypeInit
<1>2. TypeInv /\ [Next]_vars => TypeInv'
  BY TypeStep
<1> QED
  BY <1>1, <1>2, PTL DEF Spec

(* Type correctness: what the sessions, the rows and the heartbeat hold;    *)
(* the count of missed keepalives never reaches its limit in a session.     *)
THEOREM TypeCorrect == Spec => []TypeOK
<1>1. TypeInv => TypeOK
  BY DEF TypeInv
<1> QED
  BY <1>1, TypeInvariance, PTL

-----------------------------------------------------------------------------
\* A row that carries the id of the process that serves belongs to a session.
CurrentRows ==
  sip = "serving" =>
    \A d \in Devices :
      runtime[d].status = "online" /\ runtime[d].boot = boot /\ d \notin unwritten
        => HasSession(d)

LEMMA RowsInit == Init => CurrentRows
  BY DEF Init, CurrentRows

\* A handler that ends sessions writes their rows, or remembers them.
LEMMA PopCurrent ==
  ASSUME TypeInv, CurrentRows, UNCHANGED <<sip, boot>>,
         NEW D \in SUBSET Devices, WriteOffline(D),
         \A d \in Devices \ D : HasSession(d) => HasSession(d)'
  PROVE  CurrentRows'
<1> PICK failed \in SUBSET D :
      /\ runtime' = [d \in Devices |->
           IF d \in D \ failed THEN [runtime[d] EXCEPT !.status = "offline"] ELSE runtime[d]]
      /\ unwritten' = (unwritten \ D) \cup failed
  BY DEF WriteOffline
<1>1. \A d \in D \ failed : runtime'[d].status = "offline"
  BY DEF TypeInv, TypeOK, Rows
<1>2. \A d \in Devices \ D : runtime'[d] = runtime[d] /\ (d \in unwritten' <=> d \in unwritten)
  OBVIOUS
<1>3. failed \subseteq unwritten'
  OBVIOUS
<1> QED
  BY <1>1, <1>2, <1>3 DEF CurrentRows

\* A handler that writes a row online leaves a session.
LEMMA OnlineCurrent ==
  ASSUME TypeInv, CurrentRows, UNCHANGED <<sip, boot>>,
         NEW d \in Devices, WriteOnline(d),
         HasSession(d)', \A e \in Devices : HasSession(e) => HasSession(e)'
  PROVE  CurrentRows'
<1>1. \A e \in Devices \ {d} :
        /\ runtime'[e] = runtime[e]
        /\ e \in unwritten' <=> e \in unwritten
  BY DEF WriteOnline, TypeInv, TypeOK
<1> QED
  BY <1>1 DEF CurrentRows

\* The device talks: its session is there afterwards, the others stay.
LEMMA TouchKeeps ==
  ASSUME TypeInv, NEW d \in Devices, on[d] # Off,
         \/ touch_or_restore_session(d)
         \/ sessions' = [sessions EXCEPT ![d] = [conn |-> on[d], missed |-> 0]]
  PROVE  HasSession(d)' /\ \A e \in Devices : HasSession(e) => HasSession(e)'
<1>1. sessions' \in [Devices -> [conn : Conns \cup {Udp, Off}, missed : 0..(MaxMiss - 1)]]
  BY DEF TypeInv, TypeOK, touch_or_restore_session
<1> QED
  BY <1>1 DEF TypeInv, TypeOK, Bound, touch_or_restore_session, HasSession, Absent

LEMMA RowsStep == TypeInv /\ CurrentRows /\ [Next]_vars => CurrentRows'
<1> SUFFICES ASSUME TypeInv, CurrentRows, [Next]_vars PROVE CurrentRows'
  OBVIOUS
<1> USE DEF sipVars, apiVars
<1>1. ASSUME NEW d \in Devices, Connect(d) \/ Move(d) \/ GoSilent(d) PROVE CurrentRows'
  BY <1>1 DEF Connect, Move, GoSilent, CurrentRows, HasSession
<1>2. ASSUME NEW d \in Devices, RowAges(d) PROVE CurrentRows'
  BY <1>2 DEF RowAges, CurrentRows, HasSession, TypeInv, TypeOK, Rows
<1>3. ASSUME NEW d \in Devices, Register(d) PROVE CurrentRows'
  BY <1>3, OnlineCurrent, TouchKeeps DEF Register, Talks
<1>4. ASSUME NEW d \in Devices, Unregister(d) PROVE CurrentRows'
  <2>1. runtime'[d].status = "offline" /\ \A e \in Devices \ {d} :
          /\ runtime'[e] = runtime[e]
          /\ HasSession(e) => HasSession(e)'
          /\ e \in unwritten' <=> e \in unwritten
    BY <1>4 DEF Unregister, Pop, HasSession, TypeInv, TypeOK, Rows
  <2> QED
    BY <1>4, <2>1 DEF Unregister, CurrentRows
<1>5. ASSUME NEW d \in Devices, Keepalive(d) PROVE CurrentRows'
  BY <1>5, OnlineCurrent, TouchKeeps DEF Keepalive, Talks
<1>6. ASSUME NEW d \in Devices, Message(d) PROVE CurrentRows'
  BY <1>6, TouchKeeps DEF Message, Talks, CurrentRows
<1>7. ASSUME NEW c \in Conns, Close(c) PROVE CurrentRows'
  <2> DEFINE over == {d \in Devices : sessions[d].conn = c}
  <2>1. \A d \in Devices \ over : HasSession(d) => HasSession(d)'
    BY <1>7 DEF Close, Pop, HasSession
  <2> QED
    BY <1>7, <2>1, PopCurrent DEF Close
<1>8. CASE ExpireLoop
  <2>1. PICK late \in SUBSET Late : Expire(late)
    BY <1>8 DEF ExpireLoop
  <2> DEFINE missed == [d \in Devices |-> sessions[d].missed + (IF d \in late THEN 1 ELSE 0)]
  <2> DEFINE over == {d \in late : missed[d] >= MaxMiss}
  <2>2. over \in SUBSET Devices /\ WriteOffline(over) /\ UNCHANGED <<sip, boot>>
    BY <2>1 DEF Expire, Late
  <2>3. \A d \in Devices \ over : sessions'[d].conn = sessions[d].conn
    BY <2>1 DEF Expire, TypeInv, TypeOK
  <2>4. \A d \in Devices \ over : HasSession(d) => HasSession(d)'
    BY <2>3 DEF TypeInv, Bound, HasSession, Absent
  <2> QED
    BY <2>2, <2>4, PopCurrent
<1>9. CASE Start \/ Crash
  BY <1>9 DEF Start, Crash, CurrentRows
<1>10. ASSUME NEW d \in Devices, MarkRow(d) PROVE CurrentRows'
  BY <1>10 DEF MarkRow, CurrentRows, TypeInv, TypeOK
<1>11. CASE Serve
  BY <1>11 DEF Serve, CurrentRows, TypeInv, RowsOfBoots
<1>12. CASE TouchAlive \/ AliveExpires \/ ListAlive \/ ListRows
  BY <1>12 DEF TouchAlive, AliveExpires, ListAlive, ListRows, CurrentRows, HasSession
<1>13. ASSUME NEW d \in Devices, ListWrite(d) PROVE CurrentRows'
  BY <1>13 DEF ListWrite, CurrentRows, HasSession, TypeInv, TypeOK, Rows
<1>14. CASE UNCHANGED vars
  BY <1>14 DEF vars, CurrentRows, HasSession
<1> QED
  BY <1>1, <1>2, <1>3, <1>4, <1>5, <1>6, <1>7, <1>8, <1>9, <1>10, <1>11, <1>12, <1>13, <1>14
  DEF Next, DeviceStep, SipStep, ApiStep

(* The list shows a device online only if the process that serves has its   *)
(* session: through restarts, failed writes and the rows the API writes.    *)
THEOREM ShownIsBacked == Spec => []ShownHasSession
<1>1. Init => CurrentRows
  BY RowsInit
<1>2. TypeInv /\ CurrentRows /\ [Next]_vars => CurrentRows'
  BY RowsStep
<1>3. CurrentRows => ShownHasSession
  BY DEF CurrentRows, ShownHasSession, Shown, ShownAs
<1> QED
  BY <1>1, <1>2, <1>3, TypeInvariance, PTL DEF Spec

-----------------------------------------------------------------------------
\* A device that was heard still talks the same way, and its session is bound
\* to its TCP connection.  A session heard over UDP may still be bound to an
\* older TCP connection and end with it, so nothing is said of those.
HeardInv ==
  \A d \in Devices :
    heard[d] # Off => /\ sip = "serving" /\ on[d] = heard[d]
                      /\ heard[d] # Udp => HasSession(d) /\ sessions[d].conn = heard[d]

LEMMA HeardInit == Init => HeardInv
  BY DEF Init, HeardInv

\* A handler of a device's message hears it and binds its session.
LEMMA Hears ==
  ASSUME TypeInv, HeardInv, UNCHANGED <<sip, on>>, NEW d \in Devices, Talks(d),
         \/ touch_or_restore_session(d)
         \/ sessions' = [sessions EXCEPT ![d] = [conn |-> on[d], missed |-> 0]],
         heard' = [heard EXCEPT ![d] = on[d]]
  PROVE  HeardInv'
<1>1. HasSession(d)'
  BY TouchKeeps DEF Talks
<1>2. on[d] # Udp => sessions'[d].conn = on[d]
  BY DEF touch_or_restore_session, TypeInv, TypeOK
<1>3. heard'[d] = on[d] /\ \A e \in Devices \ {d} :
        heard'[e] = heard[e] /\ sessions'[e] = sessions[e]
  BY DEF touch_or_restore_session, TypeInv, TypeOK
<1> QED
  BY <1>1, <1>2, <1>3 DEF HeardInv, Talks, HasSession

LEMMA HeardStep == TypeInv /\ HeardInv /\ [Next]_vars => HeardInv'
<1> SUFFICES ASSUME TypeInv, HeardInv, [Next]_vars PROVE HeardInv'
  OBVIOUS
<1> USE DEF sipVars, apiVars
<1>1. ASSUME NEW d \in Devices, Connect(d) \/ Move(d) \/ GoSilent(d) \/ Unregister(d)
      PROVE  HeardInv'
  <2>1. heard'[d] = Off
    BY <1>1 DEF Connect, Move, GoSilent, Unregister, HeardInv, TypeInv, TypeOK
  <2>2. \A e \in Devices \ {d} :
          on'[e] = on[e] /\ heard'[e] = heard[e] /\ sessions'[e] = sessions[e]
    BY <1>1 DEF Connect, Move, GoSilent, Unregister, Pop, TypeInv, TypeOK
  <2>3. UNCHANGED sip
    BY <1>1 DEF Connect, Move, GoSilent, Unregister
  <2> QED
    BY <2>1, <2>2, <2>3 DEF HeardInv, HasSession
<1>2. ASSUME NEW d \in Devices, Register(d) \/ Keepalive(d) \/ Message(d) PROVE HeardInv'
  BY <1>2, Hears DEF Register, Keepalive, Message
<1>3. ASSUME NEW c \in Conns, Close(c) PROVE HeardInv'
  <2>1. \A d \in Devices : heard'[d] # Off =>
          /\ heard'[d] = heard[d] /\ on'[d] = on[d] /\ heard[d] # c
    BY <1>3 DEF Close, Silence, HeardInv
  <2>2. \A d \in Devices : sessions[d].conn # c => sessions'[d] = sessions[d]
    BY <1>3 DEF Close, Pop
  <2> QED
    BY <1>3, <2>1, <2>2 DEF Close, HeardInv, HasSession
<1>4. CASE ExpireLoop
  <2>1. PICK late \in SUBSET Late : Expire(late)
    BY <1>4 DEF ExpireLoop
  <2>2. \A d \in Devices : on[d] # Off => sessions'[d] = sessions[d]
    BY <2>1 DEF Expire, Late, TypeInv, TypeOK
  <2> QED
    BY <2>1, <2>2 DEF Expire, HeardInv, HasSession, TypeInv, TypeOK
<1>5. CASE Start \/ Crash \/ Serve \/ \E d \in Devices : MarkRow(d)
  BY <1>5 DEF Start, Crash, Serve, MarkRow, HeardInv, HasSession, TypeInv, TypeOK
<1>6. CASE TouchAlive \/ AliveExpires \/ ApiStep \/ \E d \in Devices : RowAges(d)
  BY <1>6 DEF TouchAlive, AliveExpires, ApiStep, ListAlive, ListRows, ListWrite, RowAges,
              HeardInv, HasSession
<1>7. CASE UNCHANGED vars
  BY <1>7 DEF vars, HeardInv, HasSession
<1> QED
  BY <1>1, <1>2, <1>3, <1>4, <1>5, <1>6, <1>7 DEF Next, DeviceStep, SipStep

(* A device that talks over an open connection keeps its session, whatever  *)
(* other connections close and whoever else is expired.                     *)
THEOREM TalkingIsKept == Spec => []TalkingKeepsSession
<1>1. Init => HeardInv
  BY HeardInit
<1>2. TypeInv /\ HeardInv /\ [Next]_vars => HeardInv'
  BY HeardStep
<1>3. HeardInv => TalkingKeepsSession
  BY DEF HeardInv, TalkingKeepsSession
<1> QED
  BY <1>1, <1>2, <1>3, TypeInvariance, PTL DEF Spec
=============================================================================
