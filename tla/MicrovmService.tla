--------------------------- MODULE MicrovmService ---------------------------
(***************************************************************************)
(* AWS Lambda MicroVMs as the driver sees it through `aws lambda-microvms`: *)
(* run-microvm creates a VM, get-microvm reports its state,                *)
(* terminate-microvm stops it, and the service itself boots it, suspends   *)
(* and resumes it under the idle policy and stops it at its maximum        *)
(* duration.  The service is not part of the repository; it is modelled    *)
(* from the way internal/microvm/client.go uses it.                        *)
(***************************************************************************)

CONSTANTS
  Jobs,   (* the GitLab jobs that may ask for a VM                          *)
  VMs,    (* the VM identifiers the service can hand out: a bound on launches *)
  None    (* no VM, no job, an empty string in the state file               *)

ASSUME NoneAssumption == None \notin VMs \cup Jobs

VARIABLES
  vm,     (* vm[v]: the state get-microvm reports, "unborn" before creation *)
  owner   (* history: the job whose run-microvm request created the VM      *)

(* "TERMINATING" and "TERMINATED" are one state here: the driver treats     *)
(* them alike (client.go:96).                                               *)
VmStates ==
  {"unborn", "PENDING", "RUNNING", "SUSPENDED", "FAILED", "TERMINATED"}

ServiceTypeOK ==
  /\ vm \in [VMs -> VmStates]
  /\ owner \in [VMs -> Jobs \cup {None}]

ServiceInit ==
  /\ vm = [v \in VMs |-> "unborn"]
  /\ owner = [v \in VMs |-> None]

(* A VM that exists and costs money.                                        *)
Live(v) == vm[v] \in {"PENDING", "RUNNING", "SUSPENDED"}

(* The service serves a run-microvm request of job j with the fresh VM v.   *)
Create(j, v) ==
  /\ vm[v] = "unborn"
  /\ vm' = [vm EXCEPT ![v] = "PENDING"]
  /\ owner' = [owner EXCEPT ![v] = j]

(* What terminate-microvm does to v when the call goes through; a VM that   *)
(* is already gone stays as it is and the call reports an error.            *)
Stopped(v) == IF Live(v) THEN [vm EXCEPT ![v] = "TERMINATED"] ELSE vm

----------------------------------------------------------------------------
(* Steps the service takes on its own.                                      *)

Boot(v) ==
  /\ vm[v] = "PENDING"
  /\ vm' \in {[vm EXCEPT ![v] = "RUNNING"], [vm EXCEPT ![v] = "FAILED"]}
  /\ UNCHANGED owner

(* The idle policy: no endpoint traffic suspends, traffic resumes.          *)
Suspend(v) ==
  /\ vm[v] = "RUNNING"
  /\ vm' = [vm EXCEPT ![v] = "SUSPENDED"]
  /\ UNCHANGED owner

Resume(v) ==
  /\ vm[v] = "SUSPENDED"
  /\ vm' = [vm EXCEPT ![v] = "RUNNING"]
  /\ UNCHANGED owner

(* --maximum-duration-in-seconds, or the suspended duration, has elapsed.   *)
Expire(v) ==
  /\ Live(v)
  /\ vm' = [vm EXCEPT ![v] = "TERMINATED"]
  /\ UNCHANGED owner

ServiceStep(v) == Boot(v) \/ Suspend(v) \/ Resume(v) \/ Expire(v)

=============================================================================
