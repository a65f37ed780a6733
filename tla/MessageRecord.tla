---------------------------- MODULE MessageRecord ----------------------------
(***************************************************************************)
(* What the delivery status of a peer message promises, with no mention of *)
(* who writes it.  The status only moves forward and its terminal value is *)
(* final; "sent" is said of a message whose bytes left, "queued" of one    *)
(* the recipient's session took, "unavailable" of one that never left.     *)
(***************************************************************************)
CONSTANTS Message

VARIABLES status, fate

vars == <<status, fate>>

Init ==
  /\ status = [m \in Message |-> "absent"]
  /\ fate = [m \in Message |-> "unsent"]

Transmit(m) ==
  /\ status[m] = "accepted" /\ fate[m] = "unsent"
  /\ fate' = [fate EXCEPT ![m] = "out"]
  /\ UNCHANGED status

Arrive(m) ==
  /\ fate[m] = "out"
  /\ \E how \in {"taken", "refused"} : fate' = [fate EXCEPT ![m] = how]
  /\ UNCHANGED status

\* The statuses that may follow the present one.
Following(m) ==
  CASE status[m] = "absent" -> {"accepted"}
    [] status[m] = "accepted" /\ fate[m] = "unsent"  -> {"unavailable"}
    [] status[m] = "accepted" /\ fate[m] = "taken"   -> {"sent", "queued", "failed"}
    [] status[m] = "accepted" /\ fate[m] \in {"out", "refused"} -> {"sent", "failed"}
    [] status[m] = "sent" /\ fate[m] = "taken"   -> {"queued"}
    [] status[m] = "sent" /\ fate[m] = "refused" -> {"failed"}
    [] OTHER -> {}

Report(m) ==
  /\ \E s \in Following(m) : status' = [status EXCEPT ![m] = s]
  /\ UNCHANGED fate

Next == \E m \in Message : Transmit(m) \/ Arrive(m) \/ Report(m)

Spec == Init /\ [][Next]_vars
=============================================================================
