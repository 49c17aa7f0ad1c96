------------------------------- MODULE MCSipPlay -------------------------------
(* SipPlay with all its faults.                                            *)
EXTENDS SipPlay
=============================================================================
