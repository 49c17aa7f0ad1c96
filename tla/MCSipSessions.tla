---------------------------- MODULE MCSipSessions ----------------------------
(* Instances of SipSessions for TLC.                                        *)
EXTENDS SipSessions, TLC
=============================================================================
