------------------------------ MODULE RunRecord ------------------------------
(***************************************************************************)
(* What the daemon promises about the row of a run, with no mention of who *)
(* writes it.  A run starts running, is finalized exactly once, and the    *)
(* outcome it is given is true: a success is one the runner recorded, a    *)
(* failure blamed on the runner is one it recorded or one where it died    *)
(* without recording anything, and a record is passed over only by an      *)
(* explicit intervention.                                                  *)
(***************************************************************************)
CONSTANTS Run

VARIABLES row, final, process

vars == <<row, final, process>>

Init ==
  /\ row = [r \in Run |-> "absent"]
  /\ final = [r \in Run |-> "none"]
  /\ process = [r \in Run |-> "none"]

Create(r) ==
  /\ row[r] = "absent"
  /\ row' = [row EXCEPT ![r] = "running"]
  /\ UNCHANGED <<final, process>>

Start(r) ==
  /\ process[r] = "none" /\ row[r] # "absent"
  /\ process' = [process EXCEPT ![r] = "alive"]
  /\ UNCHANGED <<row, final>>

Record(r) ==
  /\ process[r] = "alive" /\ final[r] = "none"
  /\ \E f \in {"ok", "error"} : final' = [final EXCEPT ![r] = f]
  /\ UNCHANGED <<row, process>>

End(r) ==
  /\ process[r] = "alive"
  /\ process' = [process EXCEPT ![r] = "gone"]
  /\ UNCHANGED <<row, final>>

\* The outcomes that are true of run r at this moment.
Truthful(r) ==
  {"cancelled", "dispatcher_disconnected"}
    \cup (IF final[r] = "ok" THEN {"completed"} ELSE {})
    \cup (IF final[r] = "error" THEN {"agent_error"} ELSE {})
    \cup (IF final[r] = "none" THEN {"restart_reconciled"} ELSE {})
    \cup (IF final[r] = "none" /\ process[r] = "gone" THEN {"no_result"} ELSE {})
    \cup (IF process[r] = "none" THEN {"spawn_failed"} ELSE {})

Finalize(r) ==
  /\ row[r] = "running"
  /\ \E why \in Truthful(r) : row' = [row EXCEPT ![r] = why]
  /\ UNCHANGED <<final, process>>

Next == \E r \in Run : Create(r) \/ Start(r) \/ Record(r) \/ End(r) \/ Finalize(r)

Spec == Init /\ [][Next]_vars
=============================================================================
