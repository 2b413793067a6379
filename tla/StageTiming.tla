----------------------------- MODULE StageTiming ----------------------------
(***************************************************************************)
(* A job on the clock: what the configuration that reaches it (RunnerSetup) *)
(* makes of the waits of prepare (cmdPrepare, WaitRunning, WaitHealthy), of *)
(* the lifetimes of the VM and of its token, and of the job's own timeout.  *)
(* Seconds since the job began.                                             *)
(***************************************************************************)
EXTENDS RunnerSetup

CONSTANTS
  Starts,          (* when prepare may begin: earlier attempts take time   *)
  CallTimes,       (* how long an aws command may take; it has no timeout  *)
  MaxCall,         (* the longest of them                                  *)
  PingTimes,       (* how long a health check may take                     *)
  MaxPing,         (* the timeout of one                                   *)
  ScriptTimes,     (* how long a sub-stage may take                        *)
  PollInterval,    (* between two polls                                    *)
  PrepareBudget,   (* prepare_exec_timeout of the runner                   *)
  ServiceDuration, (* how long a VM lives that is given no maximum         *)
  LongestDuration, (* the longest maximum the service accepts              *)
  DefaultTimeout   (* timeout of a job for which GitLab names none         *)

ASSUME TimingAssumption ==
  /\ CallTimes \subseteq 0..MaxCall /\ PingTimes \subseteq 0..MaxPing
  /\ ScriptTimes \cup Starts \subseteq Nat
  /\ {MaxCall, MaxPing, PollInterval, PrepareBudget, DefaultTimeout,
      ServiceDuration, LongestDuration} \subseteq Nat
  /\ ServiceDuration <= LongestDuration

VARIABLES
  pc,        (* the next step of prepare or run, "idle" before             *)
  now,       (* the clock                                                   *)
  cutAt,     (* when the runner ends prepare                                *)
  deadline,  (* of the wait prepare is in                                   *)
  vmEnds,    (* when the VM reaches its maximum duration, NoVm before launch *)
  tokenEnds  (* when the token expires                                      *)

clock == <<now, cutAt, deadline, vmEnds, tokenEnds>>
vars == <<runnerVars, pc, clock>>

NoVm == -1

Waits == {"waitRunning", "waitHealthy"}
PreparePcs == {"reap", "launch", "mint"} \cup Waits

TypeOK ==
  /\ RunnerTypeOK
  /\ pc \in PreparePcs \cup {"idle", "ready", "failed", "cut", "done"}
  /\ {now, cutAt} \subseteq Nat /\ {deadline, tokenEnds, vmEnds} \subseteq Int
  /\ pc # "idle" =>
       /\ stage = "prepared"
       /\ {cfg.maxDuration, cfg.runTimeout, cfg.healthTimeout, cfg.tokenTTL} \subseteq Int
  /\ pc \in PreparePcs \cup {"failed"} => now <= cutAt

Init ==
  /\ RunnerInit
  /\ pc = "idle"
  /\ now = 0 /\ cutAt = 0 /\ deadline = 0 /\ vmEnds = NoVm /\ tokenEnds = 0

(* CI_JOB_TIMEOUT, or the default of an hour.                               *)
JobEnds ==
  LET secs == Number(Environ, "CUSTOM_ENV_CI_JOB_TIMEOUT", 0) IN
  IF secs > 0 THEN secs ELSE DefaultTimeout

----------------------------------------------------------------------------
Goto(next) == pc' = next /\ UNCHANGED runnerVars

(* Between two jobs: the wizard, the operator, the next job's config stage. *)
Around ==
  /\ pc \notin PreparePcs \cup {"ready"}
  /\ RunnerStep
  /\ pc' = "idle"
  /\ now' = 0 /\ cutAt' = 0 /\ deadline' = 0 /\ vmEnds' = NoVm /\ tokenEnds' = 0

StartPrepare ==
  /\ pc = "idle"
  /\ LoadForPrepare
  /\ IF stage' = "prepared"
     THEN pc' = "reap" /\ now' \in Starts /\ cutAt' = now' + PrepareBudget
     ELSE UNCHANGED <<pc, now, cutAt>>
  /\ UNCHANGED <<deadline, vmEnds, tokenEnds>>

(* A step of prepare that takes d seconds and is not cut off by the runner. *)
Spend(d) ==
  /\ now + d <= cutAt
  /\ now' = now + d
  /\ UNCHANGED cutAt

(* reapPrevious terminates the VM on record, if there is one.               *)
Reap ==
  /\ pc = "reap"
  /\ \E d \in CallTimes \cup {0} : Spend(d)
  /\ Goto("launch")
  /\ UNCHANGED <<deadline, vmEnds, tokenEnds>>

(* How long the VM of this job may live: a maximum duration that is not     *)
(* positive is not passed on, and the service's own applies.                *)
Lifetime == IF cfg.maxDuration > 0 THEN cfg.maxDuration ELSE ServiceDuration

(* run-microvm: the VM lives from some moment of the call on.  The call may  *)
(* fail, and does when it asks for more than the service grants.            *)
Launch ==
  /\ pc = "launch"
  /\ \E d \in CallTimes :
       /\ Spend(d)
       /\ \/ /\ Lifetime <= LongestDuration
             /\ vmEnds' \in {now + Lifetime, now + d + Lifetime}
             /\ deadline' = now + d + cfg.runTimeout
             /\ Goto("waitRunning")
          \/ Goto("failed") /\ UNCHANGED <<vmEnds, deadline>>
  /\ UNCHANGED tokenEnds

(* One turn of a wait: the answer that ends it; or another, and then the    *)
(* deadline, or the pause before the next poll.                             *)
Bug_Poll(wait, times, next) ==
  /\ pc = wait
  /\ \E d \in times :
       \/ Spend(d) /\ Goto(next) /\ UNCHANGED deadline
       \/ /\ Spend(d + PollInterval) /\ Goto(wait)
          /\ deadline' = now + d + cfg.runTimeout
  /\ UNCHANGED <<vmEnds, tokenEnds>>

Poll(wait, times, next) ==
  /\ pc = wait
  /\ \E d \in times :
       \/ Spend(d) /\ Goto(next)
       \/ /\ now + d > deadline
          /\ Spend(d) /\ Goto("failed")
       \/ /\ now + d <= deadline
          /\ Spend(d + PollInterval) /\ Goto(wait)
  /\ UNCHANGED <<deadline, vmEnds, tokenEnds>>

(* WaitRunning also ends at a terminal state or an error of the call.       *)
WaitRunning ==
  \/ Poll("waitRunning", CallTimes, "mint")
  \/ Poll("waitRunning", CallTimes, "failed")

(* create-microvm-auth-token; its lifetime is in minutes.                   *)
MintToken ==
  /\ pc = "mint"
  /\ \E d \in CallTimes :
       /\ Spend(d)
       /\ \/ /\ tokenEnds' \in {now + 60 * cfg.tokenTTL, now + d + 60 * cfg.tokenTTL}
             /\ deadline' = now + d + cfg.healthTimeout
             /\ Goto("waitHealthy")
          \/ Goto("failed") /\ UNCHANGED <<tokenEnds, deadline>>
  /\ UNCHANGED vmEnds

WaitHealthy == Poll("waitHealthy", PingTimes, "ready")

(* The step prepare is in does not end before the runner ends prepare.      *)
CutOff ==
  /\ pc \in PreparePcs
  /\ \E d \in (IF pc = "waitHealthy" THEN PingTimes ELSE CallTimes) :
       now + d + (IF pc \in Waits /\ now + d <= deadline THEN PollInterval ELSE 0)
         > cutAt
  /\ now' = cutAt
  /\ Goto("cut")
  /\ UNCHANGED <<cutAt, deadline, vmEnds, tokenEnds>>

(* A sub-stage, which the job timeout may cut short.                        *)
Run ==
  /\ pc = "ready"
  /\ now < JobEnds
  /\ \E d \in ScriptTimes : now' = IF now + d < JobEnds THEN now + d ELSE JobEnds
  /\ UNCHANGED <<runnerVars, pc, cutAt, deadline, vmEnds, tokenEnds>>

Finish ==
  /\ pc = "ready"
  /\ Goto("done")
  /\ UNCHANGED <<now, cutAt, deadline, vmEnds, tokenEnds>>

Next ==
  \/ Around \/ StartPrepare \/ Reap \/ Launch \/ WaitRunning \/ MintToken
  \/ WaitHealthy \/ CutOff \/ Run \/ Finish

Spec == Init /\ [][Next]_vars

----------------------------------------------------------------------------
(* Properties.                                                              *)

NoTtlSet(e) == Get(e, "MICROVM_TOKEN_TTL_MINUTES") = ""

TokenCovers == NoTtlSet(Environ) /\ now <= JobEnds => now < tokenEnds

VmCovers == Lifetime >= JobEnds /\ now <= JobEnds => now <= vmEnds

(* "a single token covers all run sub-stages" (config.go:90-91): while the  *)
(* job may run scripts the token derived from its timeout is good, whenever *)
(* prepare came to mint it and whatever rounding to minutes costs.  The VM  *)
(* lasts as long when what it is given to live, by the configuration or,    *)
(* where that names none (config.go:34), by the service, is no less than    *)
(* the job's timeout.                                                       *)
LifetimesCoverTheJob == pc = "ready" => TokenCovers /\ VmCovers

(* How long prepare may take: four calls (terminate, run-microvm, the last   *)
(* get-microvm, the token), the last health check, the two timeouts, and    *)
(* one pause beyond each, since a deadline is looked at between polls only  *)
(* (client.go:99, agentclient/client.go:76).                                *)
AtLeastZero(n) == IF n > 0 THEN n ELSE 0

PrepareNeeds ==
  PrepareBudget >= AtLeastZero(cfg.runTimeout) + AtLeastZero(cfg.healthTimeout)
                     + 4 * MaxCall + MaxPing + 2 * PollInterval

(* With that much time, the runner never has to end a prepare: the waits    *)
(* end by themselves and the driver's own error reaches the log.            *)
EnoughIsEnough == pc = "cut" => ~PrepareNeeds

=============================================================================
