------------------------------ MODULE AlertLog ------------------------------
(***************************************************************************)
(* What the alert pipeline promises about an alert, whatever process       *)
(* carries it: once raised it is on its way until it is recorded, put      *)
(* among the dead letters or lost; a record stays until a person deletes   *)
(* it; and people hear only of alerts that were recorded.                  *)
(***************************************************************************)
CONSTANTS Alerts

VARIABLES
  fate,     \* where each alert is
  notified  \* the alerts mailed or posted to a webhook

Fates == {"none", "pending", "recorded", "removed", "dead", "lost"}

\* The dead-letter list is bounded, so a dead alert may be lost later.  A job
\* that was put back after it had been recorded records the alert again.
Moves == {<<"none", "pending">>, <<"pending", "recorded">>, <<"pending", "dead">>,
          <<"pending", "lost">>, <<"dead", "lost">>,
          <<"recorded", "removed">>, <<"removed", "recorded">>}

Init == fate = [a \in Alerts |-> "none"] /\ notified = {}

\* One step may move several alerts: a full queue drops the oldest.
Move ==
  /\ fate' \in [Alerts -> Fates]
  /\ \A a \in Alerts : fate'[a] = fate[a] \/ <<fate[a], fate'[a]>> \in Moves
  /\ UNCHANGED notified

Notify(a) ==
  /\ fate[a] \in {"recorded", "removed"}
  /\ notified' = notified \cup {a}
  /\ UNCHANGED fate

Next == Move \/ \E a \in Alerts : Notify(a)

Spec == Init /\ [][Next]_<<fate, notified>>
=============================================================================
