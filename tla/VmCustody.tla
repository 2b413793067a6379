------------------------------ MODULE VmCustody -----------------------------
(***************************************************************************)
(* What the driver promises the owner of the AWS account about MicroVMs,   *)
(* whatever stages, retries and signals there are: a job never has two VMs  *)
(* in its keeping, a job that is finished has none, and a VM leaves the     *)
(* driver's keeping only by ending or by a fault that loses it.             *)
(***************************************************************************)

CONSTANTS Jobs, VMs, None

VARIABLES
  fate,      (* of a VM: "none", "kept", "lost" to a fault, or "gone"        *)
  owner,     (* the job a VM was launched for                               *)
  finished   (* jobs cleaned up to the end                                  *)

vars == <<fate, owner, finished>>

KeepsNone(j) == \A v \in VMs : owner[v] = j => fate[v] # "kept"

Init ==
  /\ fate = [v \in VMs |-> "none"]
  /\ owner = [v \in VMs |-> None]
  /\ finished = {}

(* A job may have a VM launched when it keeps none.                         *)
Launch(j, v) ==
  /\ j \notin finished
  /\ KeepsNone(j)
  /\ fate[v] = "none"
  /\ fate' = [fate EXCEPT ![v] = "kept"]
  /\ owner' = [owner EXCEPT ![v] = j]
  /\ UNCHANGED finished

(* A request whose caller has gone is served all the same.                  *)
LaunchLost(j, v) ==
  /\ fate[v] = "none"
  /\ fate' = [fate EXCEPT ![v] = "lost"]
  /\ owner' = [owner EXCEPT ![v] = j]
  /\ UNCHANGED finished

Lose(v) ==
  /\ fate[v] = "kept"
  /\ fate' = [fate EXCEPT ![v] = "lost"]
  /\ UNCHANGED <<owner, finished>>

End(v) ==
  /\ fate[v] \in {"kept", "lost"}
  /\ fate' = [fate EXCEPT ![v] = "gone"]
  /\ UNCHANGED <<owner, finished>>

Finish(j) ==
  /\ KeepsNone(j)
  /\ finished' = finished \cup {j}
  /\ UNCHANGED <<fate, owner>>

(* The one fault that loses a VM and finishes its job in the same breath:   *)
(* cleanup cannot read the record.                                          *)
FinishBlind(j, v) ==
  /\ owner[v] = j /\ fate[v] = "kept"
  /\ \A w \in VMs \ {v} : owner[w] = j => fate[w] # "kept"
  /\ fate' = [fate EXCEPT ![v] = "lost"]
  /\ finished' = finished \cup {j}
  /\ UNCHANGED owner

Next ==
  \/ \E j \in Jobs, v \in VMs :
       Launch(j, v) \/ LaunchLost(j, v) \/ FinishBlind(j, v)
  \/ \E v \in VMs : Lose(v) \/ End(v)
  \/ \E j \in Jobs : Finish(j)

Spec == Init /\ [][Next]_vars

=============================================================================
