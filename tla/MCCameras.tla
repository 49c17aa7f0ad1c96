----------------------------- MODULE MCCameras -----------------------------
(* Speaking through an ONVIF camera, speaking through a GB/T 28181 camera   *)
(* and detecting in the frames of a camera have no state in common: a       *)
(* behaviour is one of these, which reaches the states of each without      *)
(* those of their product.                                                  *)
EXTENDS TalkSessions, Broadcast, Detection
VARIABLE use
partVars == <<use, talkVars, broadcastVars, detectionVars>>
ThreeSockets == 1..3

Nothing == [people |-> 0, inZone |-> FALSE, phone |-> "none", offences |-> Empty,
            weapon |-> FALSE, faces |-> {}]
\* Few people, some of them with a phone or in breach, and one scene of many
\* people, whose confidences outweigh a second type; but with a weapon and a
\* face, few people are the picture of a round that alarms a gathering.
SomeScenes ==
  {Nothing,
   [Nothing EXCEPT !.people = 1, !.phone = "ear", !.offences = ("0" :> 8)],
   [Nothing EXCEPT !.people = 2, !.inZone = TRUE, !.weapon = TRUE, !.faces = {"a"},
            !.offences = ("1" :> 2)],
   [Nothing EXCEPT !.people = 12, !.faces = {"a"}]}
Row(types) == [types |-> types, zone |-> FALSE, pull |-> "always"]
SomeRows ==
  {[Row({"0", "call", "violation"}) EXCEPT !.zone = TRUE],
   Row({"weapon", "face_recognition", "gather"}),
   Row({}),
   [Row({Fatigue}) EXCEPT !.pull = "burst"],
   [Row({Fatigue, "violation"}) EXCEPT !.pull = "burst"]}
OneAndThree == {1, 3}
OneOrThreeTicks == {1, 3}

\* Of the initial states of Detection one is enough where it does nothing.
Init ==
  /\ TalkInit /\ BroadcastInit /\ DetectionInit
  /\ use \in {"onvif", "gb28181", "detection"}
  /\ use # "detection" => maxFrames = 1 /\ row = Row({})
Next ==
  \/ use = "onvif" /\ TalkNext /\ UNCHANGED <<use, broadcastVars, detectionVars>>
  \/ use = "gb28181" /\ BroadcastNext /\ UNCHANGED <<use, talkVars, detectionVars>>
  \/ use = "detection" /\ DetectionNext /\ UNCHANGED <<use, talkVars, broadcastVars>>
Spec == Init /\ [][Next]_partVars
=============================================================================
