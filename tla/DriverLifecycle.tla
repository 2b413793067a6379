--------------------------- MODULE DriverLifecycle --------------------------
(***************************************************************************)
(* The stages of the custom executor (cmd/microvm-executor/main.go).       *)
(* GitLab Runner starts one process per stage: prepare launches a MicroVM, *)
(* run executes job scripts in it, cleanup terminates it.  The processes    *)
(* share nothing but the per-job state file and the AWS service; a stage    *)
(* may be signalled (SIGTERM cancels its context), killed, retried or lost  *)
(* with its host between any two of its calls.                              *)
(***************************************************************************)
EXTENDS MicrovmService, Naturals, Sequences

CONSTANTS
  ProjectOf,   (* CUSTOM_ENV_CI_PROJECT_ID of a job, <<>> when unset         *)
  JobIdOf,     (* CUSTOM_ENV_CI_JOB_ID of a job, <<>> when unset             *)
  SlotOf,      (* CUSTOM_ENV_CI_CONCURRENT_ID of a job                       *)
  Safe,        (* 'a'..'z', 'A'..'Z', '0'..'9', '-' and '_'                  *)
  Configured,  (* jobs whose environment config.Load accepts                 *)
  MaxPrepares  (* how often the runner tries prepare for one job             *)

ASSUME DriverAssumption ==
  /\ Configured \subseteq Jobs
  /\ MaxPrepares \in Nat \ {0}

VARIABLES
  phase,      (* where the runner is with the job                            *)
  attempts,   (* prepare attempts so far, at most MaxPrepares                *)
  pc,         (* the next step of the job's stage process, "idle" if none    *)
  held,       (* the MicroVM id in the stage process's memory                *)
  token,      (* the auth token in its memory, named by the VM it is for     *)
  cancelled,  (* its signal context is done                                  *)
  launched,   (* the VM served to its pending run-microvm call               *)
  file,       (* the state directory: one record per job key                 *)
  late,       (* jobs with an abandoned run-microvm request still in flight  *)
  stray,      (* history: VMs a fault took out of the driver's custody       *)
  interrupted (* history: jobs whose cleanup process died before its end     *)

procVars == <<phase, attempts, pc, held, token, cancelled>>
vars == <<procVars, launched, file, late, stray, interrupted, vm, owner>>

----------------------------------------------------------------------------
(* The state file, and the name it has for a job: a string here is the      *)
(* sequence of its characters.                                              *)

sanitize(s) ==
  IF s = <<>> THEN <<"j", "o", "b">>
  ELSE [i \in 1..Len(s) |-> IF s[i] \in Safe THEN s[i] ELSE "_"]

Bug_JobKey(proj, job, slot) ==
  CASE proj # <<>> /\ job # <<>> -> sanitize(proj \o job)
    [] proj = <<>> /\ job # <<>> -> sanitize(job)
    [] job = <<>> -> sanitize(<<"j", "o", "b", "-">> \o slot)

JobKey(proj, job, slot) ==
  CASE proj # <<>> /\ job # <<>> -> sanitize(proj \o <<"-">> \o job)
    [] proj = <<>> /\ job # <<>> -> sanitize(job)
    [] job = <<>> -> sanitize(<<"j", "o", "b", "-">> \o slot)

KeyOf == [j \in Jobs |-> JobKey(ProjectOf[j], JobIdOf[j], SlotOf[j])]

Key(j) == KeyOf[j]

Keys == {Key(j) : j \in Jobs}

(* A record with no VM stands for a missing file; a VM without a token is   *)
(* what prepare saves before it has minted one.                             *)
StateRecord == [vm : VMs \cup {None}, token : VMs \cup {None}]
NoState == [vm |-> None, token |-> None]

StateOf(j) == file[Key(j)]
Write(j, record) == file' = [file EXCEPT ![Key(j)] = record]

----------------------------------------------------------------------------
Phases == {"queued", "prepare", "prepareFailed", "ready", "run", "cleanup",
           "done", "lost"}

PreparePcs == {"reap", "reapTerminate", "reapRemove", "launch", "launching",
               "save", "undo", "waitRunning", "mint", "saveToken",
               "waitHealthy"}
RunPcs     == {"load", "exec"}
CleanupPcs == {"cleanupLoad", "terminate", "remove"}

TypeOK ==
  /\ ServiceTypeOK
  /\ phase \in [Jobs -> Phases]
  /\ attempts \in [Jobs -> 0..MaxPrepares]
  /\ pc \in [Jobs -> PreparePcs \cup RunPcs \cup CleanupPcs \cup {"idle"}]
  /\ held \in [Jobs -> VMs \cup {None}]
  /\ token \in [Jobs -> VMs \cup {None}]
  /\ cancelled \in [Jobs -> BOOLEAN]
  /\ launched \in [Jobs -> VMs \cup {None}]
  /\ file \in [Keys -> StateRecord]
  /\ late \subseteq Jobs
  /\ stray \subseteq VMs
  /\ interrupted \subseteq Jobs

Init ==
  /\ ServiceInit
  /\ phase = [j \in Jobs |-> "queued"]
  /\ attempts = [j \in Jobs |-> 0]
  /\ pc = [j \in Jobs |-> "idle"]
  /\ held = [j \in Jobs |-> None]
  /\ token = [j \in Jobs |-> None]
  /\ cancelled = [j \in Jobs |-> FALSE]
  /\ launched = [j \in Jobs |-> None]
  /\ file = [k \in Keys |-> NoState]
  /\ late = {}
  /\ stray = {}
  /\ interrupted = {}

----------------------------------------------------------------------------
(* Process steps shared by the stages.                                      *)

Goto(j, l) ==
  /\ pc' = [pc EXCEPT ![j] = l]
  /\ UNCHANGED <<phase, attempts, cancelled>>

Advance(j, from, to) ==
  /\ pc[j] = from
  /\ Goto(j, to)
  /\ UNCHANGED <<held, token>>

(* The process exits, its memory goes with it, and the runner reads the     *)
(* exit status.                                                             *)
EndStage(j, next) ==
  /\ phase' = [phase EXCEPT ![j] = next]
  /\ pc' = [pc EXCEPT ![j] = "idle"]
  /\ held' = [held EXCEPT ![j] = None]
  /\ token' = [token EXCEPT ![j] = None]
  /\ cancelled' = [cancelled EXCEPT ![j] = FALSE]
  /\ UNCHANGED attempts

StartStage(j, stage, first) ==
  /\ phase' = [phase EXCEPT ![j] = stage]
  /\ pc' = [pc EXCEPT ![j] = first]
  /\ UNCHANGED <<held, token, cancelled>>

(* terminate-microvm on the VM in memory.  The call goes through only while *)
(* the context lives; any error, a lost answer included, leaves a VM nobody *)
(* will try again.                                                          *)
CallTerminate(j) ==
  \/ /\ ~cancelled[j]
     /\ vm' = Stopped(held[j])
     /\ UNCHANGED <<owner, stray>>
  \/ /\ stray' = stray \cup {held[j]}
     /\ UNCHANGED <<vm, owner>>

custody == <<launched, late, interrupted>>
service == <<vm, owner>>

----------------------------------------------------------------------------
(* prepare: cmdPrepare, with reapPrevious in front.                         *)

(* The runner starts prepare for a new job, or again after a failed one,    *)
(* with no cleanup in between (main.go:116-117).                            *)
Bug_StartPrepare(j) ==
  /\ phase[j] \in {"queued", "prepareFailed"}
  /\ attempts[j] <= MaxPrepares
  /\ j \in Configured
  /\ attempts' = [attempts EXCEPT ![j] = @ + 1]
  /\ StartStage(j, "prepare", "reap")
  /\ UNCHANGED <<custody, service, file, stray>>

StartPrepare(j) ==
  /\ phase[j] \in {"queued", "prepareFailed"}
  /\ attempts[j] < MaxPrepares
  /\ j \in Configured
  /\ attempts' = [attempts EXCEPT ![j] = @ + 1]
  /\ StartStage(j, "prepare", "reap")
  /\ UNCHANGED <<custody, service, file, stray>>

(* config.Load fails: prepare ends before it has touched anything.          *)
PrepareConfigError(j) ==
  /\ phase[j] \in {"queued", "prepareFailed"}
  /\ attempts[j] < MaxPrepares
  /\ j \notin Configured
  /\ attempts' = [attempts EXCEPT ![j] = @ + 1]
  /\ phase' = [phase EXCEPT ![j] = "prepareFailed"]
  /\ UNCHANGED <<pc, held, token, cancelled, custody, service, file, stray>>

Bug_ReapLoad(j) ==
  /\ Advance(j, "reap", "launch")
  /\ UNCHANGED <<custody, service, file, stray>>

(* reapPrevious reads the record an earlier attempt left.  Any read error   *)
(* counts as "nothing there".                                               *)
ReapLoad(j) ==
  /\ pc[j] = "reap"
  /\ \/ /\ StateOf(j).vm # None
        /\ held' = [held EXCEPT ![j] = StateOf(j).vm]
        /\ Goto(j, "reapTerminate")
        /\ UNCHANGED <<token, stray>>
     \/ /\ StateOf(j).vm = None
        /\ Advance(j, "reap", "launch")
        /\ UNCHANGED stray
     \/ /\ StateOf(j).vm # None
        /\ Advance(j, "reap", "launch")
        /\ stray' = stray \cup {StateOf(j).vm}
  /\ UNCHANGED <<custody, service, file>>

ReapTerminate(j) ==
  /\ Advance(j, "reapTerminate", "reapRemove")
  /\ CallTerminate(j)
  /\ UNCHANGED <<custody, file>>

(* The record goes whether or not the VM did; an error is ignored.          *)
ReapRemove(j) ==
  /\ pc[j] = "reapRemove"
  /\ Write(j, NoState) \/ UNCHANGED file
  /\ held' = [held EXCEPT ![j] = None]
  /\ Goto(j, "launch")
  /\ UNCHANGED <<token, custody, service, stray>>

(* The aws command is started unless the context is already done.           *)
Launch(j) ==
  /\ ~cancelled[j]
  /\ Advance(j, "launch", "launching")
  /\ UNCHANGED <<custody, service, file, stray>>

(* A call the service rejects, or one that was never started.               *)
LaunchRefused(j) ==
  /\ pc[j] = "launch" \/ (pc[j] = "launching" /\ launched[j] = None)
  /\ EndStage(j, "prepareFailed")
  /\ UNCHANGED <<custody, service, file, stray>>

ServeLaunch(j, v) ==
  /\ pc[j] = "launching"
  /\ launched[j] = None
  /\ Create(j, v)
  /\ launched' = [launched EXCEPT ![j] = v]
  /\ UNCHANGED <<procVars, file, late, stray, interrupted>>

(* The aws command lost the answer and sends the request again; it carries  *)
(* no idempotency token (client.go:47).                                     *)
ResendLaunch(j) ==
  /\ pc[j] = "launching"
  /\ launched[j] # None
  /\ launched' = [launched EXCEPT ![j] = None]
  /\ stray' = stray \cup {launched[j]}
  /\ UNCHANGED <<procVars, service, file, late, interrupted>>

Bug_LaunchReply(j) ==
  /\ pc[j] = "launching"
  /\ launched[j] # None
  /\ held' = [held EXCEPT ![j] = launched[j]]
  /\ launched' = [launched EXCEPT ![j] = None]
  /\ Goto(j, "waitRunning")
  /\ UNCHANGED <<token, service, file, late, stray, interrupted>>

LaunchReply(j) ==
  /\ pc[j] = "launching"
  /\ launched[j] # None
  /\ held' = [held EXCEPT ![j] = launched[j]]
  /\ launched' = [launched EXCEPT ![j] = None]
  /\ Goto(j, "save")
  /\ UNCHANGED <<token, service, file, late, stray, interrupted>>

(* The VM of job j that no state file names yet: it is in the reply of a    *)
(* pending call or in the memory of a process that has not saved it.        *)
Unsaved(j) ==
  IF pc[j] \in {"save", "undo"} THEN {held[j]} ELSE {launched[j]} \ {None}

(* What is left behind when the process of j gives up or dies here.         *)
LeaveBehind(j) ==
  /\ stray' = stray \cup Unsaved(j)
  /\ late' = IF pc[j] = "launching" /\ launched[j] = None
             THEN late \cup {j} ELSE late
  /\ launched' = [launched EXCEPT ![j] = None]

(* The aws command is killed by the context, or its output is unusable or   *)
(* names no VM, after the request has gone out.                             *)
LaunchReplyLost(j) ==
  /\ pc[j] = "launching"
  /\ LeaveBehind(j)
  /\ EndStage(j, "prepareFailed")
  /\ UNCHANGED <<service, file, interrupted>>

(* An abandoned request reaches the service after its caller has gone.      *)
ServeLate(j, v) ==
  /\ j \in late
  /\ Create(j, v)
  /\ late' = late \ {j}
  /\ stray' = stray \cup {v}
  /\ UNCHANGED <<procVars, launched, file, interrupted>>

(* The first Save: id and endpoint, no token.                               *)
Save(j) ==
  /\ \/ /\ Advance(j, "save", "waitRunning")
        /\ Write(j, [vm |-> held[j], token |-> None])
     \/ /\ Advance(j, "save", "undo")
        /\ UNCHANGED file
  /\ UNCHANGED <<custody, service, stray>>

Bug_Undo(j) ==
  /\ pc[j] = "undo"
  /\ EndStage(j, "prepareFailed")
  /\ UNCHANGED <<service, stray, custody, file>>

(* Save failed: terminate the VM just created, ignoring errors, and fail.   *)
Undo(j) ==
  /\ pc[j] = "undo"
  /\ CallTerminate(j)
  /\ EndStage(j, "prepareFailed")
  /\ UNCHANGED <<custody, file>>

Bug_PollRunning(j) ==
  /\ pc[j] = "waitRunning"
  /\ \/ /\ vm[held[j]] = "RUNNING"
        /\ ~cancelled[j]
        /\ Advance(j, "waitRunning", "mint")
     \/ /\ vm[held[j]] \in {"FAILED", "TERMINATED"}
        /\ EndStage(j, "prepareFailed")
  /\ UNCHANGED <<custody, service, file, stray>>

(* WaitRunning returns: RUNNING seen; or a terminal state, a get-microvm    *)
(* error, the deadline or the context ends prepare.  A poll that sees       *)
(* anything else changes nothing.                                           *)
PollRunning(j) ==
  /\ pc[j] = "waitRunning"
  /\ \/ /\ vm[held[j]] = "RUNNING"
        /\ ~cancelled[j]
        /\ Advance(j, "waitRunning", "mint")
     \/ EndStage(j, "prepareFailed")
  /\ UNCHANGED <<custody, service, file, stray>>

MintToken(j) ==
  /\ pc[j] = "mint"
  /\ \/ /\ ~cancelled[j]
        /\ Live(held[j])
        /\ token' = [token EXCEPT ![j] = held[j]]
        /\ Goto(j, "saveToken")
        /\ UNCHANGED held
     \/ EndStage(j, "prepareFailed")
  /\ UNCHANGED <<custody, service, file, stray>>

Bug_SaveToken(j) ==
  /\ \/ /\ Advance(j, "saveToken", "waitHealthy")
        /\ Write(j, [vm |-> held[j], token |-> None])
     \/ /\ pc[j] = "saveToken"
        /\ EndStage(j, "prepareFailed")
        /\ UNCHANGED file
  /\ UNCHANGED <<custody, service, stray>>

SaveToken(j) ==
  /\ \/ /\ Advance(j, "saveToken", "waitHealthy")
        /\ Write(j, [vm |-> held[j], token |-> token[j]])
     \/ /\ pc[j] = "saveToken"
        /\ EndStage(j, "prepareFailed")
        /\ UNCHANGED file
  /\ UNCHANGED <<custody, service, stray>>

(* WaitHealthy: /healthz answered 200, or the deadline or context ended it. *)
PollHealthy(j) ==
  /\ pc[j] = "waitHealthy"
  /\ \/ /\ vm[held[j]] = "RUNNING"
        /\ ~cancelled[j]
        /\ EndStage(j, "ready")
     \/ EndStage(j, "prepareFailed")
  /\ UNCHANGED <<custody, service, file, stray>>

----------------------------------------------------------------------------
(* run: cmdRun, once per sub-stage.                                         *)

StartRun(j) ==
  /\ phase[j] = "ready"
  /\ StartStage(j, "run", "load")
  /\ UNCHANGED <<attempts, custody, service, file, stray>>

RunLoad(j) ==
  /\ pc[j] = "load"
  /\ \/ /\ StateOf(j).vm # None
        /\ held' = [held EXCEPT ![j] = StateOf(j).vm]
        /\ token' = [token EXCEPT ![j] = StateOf(j).token]
        /\ Goto(j, "exec")
     \/ EndStage(j, "ready")
  /\ UNCHANGED <<custody, service, file, stray>>

(* Exec returns: success, build failure or system failure.  The runner goes *)
(* on to the next sub-stage, or to cleanup, either way.                     *)
RunEnd(j) ==
  /\ pc[j] = "exec"
  /\ EndStage(j, "ready")
  /\ UNCHANGED <<custody, service, file, stray>>

----------------------------------------------------------------------------
(* cleanup: cmdCleanup.                                                     *)

StartCleanup(j) ==
  /\ phase[j] \in {"prepareFailed", "ready"}
  /\ j \in Configured
  /\ StartStage(j, "cleanup", "cleanupLoad")
  /\ UNCHANGED <<attempts, custody, service, file, stray>>

(* config.Load fails: exit 0 at once.                                       *)
CleanupConfigError(j) ==
  /\ phase[j] = "prepareFailed"
  /\ j \notin Configured
  /\ phase' = [phase EXCEPT ![j] = "done"]
  /\ UNCHANGED <<attempts, pc, held, token, cancelled>>
  /\ UNCHANGED <<custody, service, file, stray>>

Bug_CleanupLoad(j) ==
  /\ pc[j] = "cleanupLoad"
  /\ \/ /\ StateOf(j).token # None
        /\ held' = [held EXCEPT ![j] = StateOf(j).vm]
        /\ Goto(j, "terminate")
        /\ UNCHANGED <<token, stray>>
     \/ /\ StateOf(j).token = None
        /\ EndStage(j, "done")
        /\ UNCHANGED stray
  /\ UNCHANGED <<custody, service, file>>

(* No readable state: exit 0, whether the file is missing or the read       *)
(* failed.                                                                  *)
CleanupLoad(j) ==
  /\ pc[j] = "cleanupLoad"
  /\ \/ /\ StateOf(j).vm # None
        /\ held' = [held EXCEPT ![j] = StateOf(j).vm]
        /\ Goto(j, "terminate")
        /\ UNCHANGED <<token, stray>>
     \/ /\ EndStage(j, "done")
        /\ stray' = stray \cup ({StateOf(j).vm} \ {None})
  /\ UNCHANGED <<custody, service, file>>

CleanupTerminate(j) ==
  /\ Advance(j, "terminate", "remove")
  /\ CallTerminate(j)
  /\ UNCHANGED <<custody, file>>

(* The record goes whether or not the VM did; an error is only logged.      *)
CleanupRemove(j) ==
  /\ pc[j] = "remove"
  /\ Write(j, NoState) \/ UNCHANGED file
  /\ EndStage(j, "done")
  /\ UNCHANGED <<custody, service, stray>>

----------------------------------------------------------------------------
(* Signals, kills and crashes.                                              *)

(* SIGTERM once signalContext is installed: the context is done, the        *)
(* process goes on.  run and cleanup install it only after state.Load.      *)
Signal(j) ==
  /\ pc[j] \notin {"idle", "load", "cleanupLoad"}
  /\ ~cancelled[j]
  /\ cancelled' = [cancelled EXCEPT ![j] = TRUE]
  /\ UNCHANGED <<phase, attempts, pc, held, token>>
  /\ UNCHANGED <<custody, service, file, stray>>

(* The phase the runner is in after the stage process of j has died.        *)
AfterDeath(j) ==
  CASE phase[j] = "prepare" -> "prepareFailed"
    [] phase[j] = "run"     -> "ready"
    [] phase[j] = "cleanup" -> "done"

(* SIGKILL (force_kill_timeout), or SIGTERM before the handler is there.    *)
Kill(j) ==
  /\ pc[j] # "idle"
  /\ LeaveBehind(j)
  /\ EndStage(j, AfterDeath(j))
  /\ interrupted' = IF phase[j] = "cleanup"
                    THEN interrupted \cup {j} ELSE interrupted
  /\ UNCHANGED <<service, file>>

(* The runner host crashes: no stage of this job will ever run again.       *)
Crash(j) ==
  /\ phase[j] \notin {"queued", "done", "lost"}
  /\ LeaveBehind(j)
  /\ EndStage(j, "lost")
  /\ UNCHANGED <<service, file, interrupted>>

----------------------------------------------------------------------------
PrepareStep(j) ==
  \/ ReapLoad(j) \/ ReapTerminate(j) \/ ReapRemove(j)
  \/ Launch(j) \/ LaunchRefused(j) \/ ResendLaunch(j) \/ LaunchReply(j)
  \/ LaunchReplyLost(j) \/ Save(j) \/ Undo(j)
  \/ PollRunning(j) \/ MintToken(j) \/ SaveToken(j) \/ PollHealthy(j)

RunStep(j) == RunLoad(j) \/ RunEnd(j)

CleanupStep(j) == CleanupLoad(j) \/ CleanupTerminate(j) \/ CleanupRemove(j)

DriverStep(j) == PrepareStep(j) \/ RunStep(j) \/ CleanupStep(j)

RunnerStep(j) ==
  \/ StartPrepare(j) \/ PrepareConfigError(j) \/ StartRun(j)
  \/ StartCleanup(j) \/ CleanupConfigError(j)
  \/ Signal(j) \/ Kill(j) \/ Crash(j)

AwsStep(v) ==
  \/ /\ ServiceStep(v)
     /\ UNCHANGED <<procVars, custody, file, stray>>
  \/ \E j \in Jobs : ServeLaunch(j, v) \/ ServeLate(j, v)

Next ==
  \/ \E j \in Jobs : DriverStep(j) \/ RunnerStep(j)
  \/ \E v \in VMs : AwsStep(v)

Spec == Init /\ [][Next]_vars

(* A stage process is scheduled by its operating system and every wait in   *)
(* it has a deadline.  The runner tries to clean up every job it has begun: *)
(* it may run stages first, but no job runs stages for ever (job timeout).  *)
Fairness ==
  \A j \in Jobs :
    /\ WF_vars(DriverStep(j))
    /\ SF_vars(StartCleanup(j))
    /\ WF_vars(CleanupConfigError(j))

FairSpec == Spec /\ Fairness

----------------------------------------------------------------------------
(* Properties.                                                              *)

(* VM v of job j is in somebody's hands: the state file names it, a process *)
(* has it in memory and will save or terminate it next, or the reply that   *)
(* names it is on its way to a waiting process.                             *)
InCustody(j, v) == v = StateOf(j).vm \/ v \in Unsaved(j)

(* A VM that still runs can be found from the state file or from a prepare  *)
(* in progress, unless a fault took it away: a lost launch reply, a process *)
(* killed between reply and Save, a failed terminate or a failed read.  No  *)
(* path through prepare, its retries and its failure exits drops one        *)
(* otherwise (main.go:102-166).                                             *)
EveryVmInCustody ==
  \A v \in VMs : Live(v) => v \in stray \/ InCustody(owner[v], v)

(* Each job has at most one running VM that no fault took away: a retried   *)
(* prepare reaps the VM of the attempt before it (main.go:116-118).         *)
OneVmPerJob ==
  \A v, w \in VMs :
    /\ Live(v) /\ Live(w)
    /\ v \notin stray /\ w \notin stray
    /\ owner[v] = owner[w]
    => v = w

(* When the runner is through with a job whose cleanup ran to its end,      *)
(* none of the job's VMs still runs, strays apart: every state file prepare *)
(* can leave, with and without a token, leads cleanup to the VM             *)
(* (main.go:205-231).                                                       *)
NothingLeftWhenDone ==
  \A j \in Jobs, v \in VMs :
    phase[j] = "done" /\ j \notin interrupted /\ owner[v] = j /\ Live(v)
    => v \in stray

(* A script goes to a VM launched for this very job, with a token minted    *)
(* for that VM: never to the VM of another attempt with the token of the    *)
(* last one, nor to another job's (main.go:180-193).                        *)
ExecIsAuthorized ==
  \A j \in Jobs :
    pc[j] = "exec" => /\ held[j] # None
                      /\ token[j] = held[j]
                      /\ owner[held[j]] = j

(* No stage of one job ever terminates the VM of another: jobs that run at  *)
(* once have state files of their own, also when their numbers run together *)
(* (state.go:24-40).                                                        *)
TerminatesOnlyItsOwn ==
  [][ \A j \in Jobs, v \in VMs :
        /\ pc[j] \in {"reapTerminate", "undo", "terminate"}
        /\ pc'[j] # pc[j]
        /\ vm'[v] # vm[v]
        => owner[v] = j ]_vars

(* The driver implements the abstract custody of VMs.                       *)
Fate(v) ==
  CASE vm[v] = "unborn" -> "none"
    [] Live(v) -> IF v \in stray THEN "lost" ELSE "kept"
    [] OTHER -> "gone"

Custody == INSTANCE VmCustody WITH
  fate <- [v \in VMs |-> Fate(v)],
  finished <- {j \in Jobs : phase[j] = "done" /\ j \notin interrupted}

CustodySpec == Custody!Spec

(* Every job the runner has begun comes to its end: no wait of prepare, run *)
(* or cleanup lasts for ever.                                               *)
JobsFinish ==
  \A j \in Jobs : attempts[j] > 0 ~> phase[j] \in {"done", "lost"}

----------------------------------------------------------------------------
(* What two comments of the code say, and faults of the environment refute. *)

(* "State is saved as soon as the VM exists so cleanup can always find and  *)
(* terminate it" (main.go:103-104): between stages, a running VM of the job *)
(* is the one its state file names.                                         *)
CleanupCanAlwaysFindIt ==
  \A j \in Jobs, v \in VMs :
    phase[j] \in {"prepareFailed", "ready"} /\ owner[v] = j /\ Live(v)
    => StateOf(j).vm = v

(* reapPrevious exists "so retries don't leak VMs" (main.go:234): when it   *)
(* hands over to the launch, the VM it reaped is no longer running, or is   *)
(* still on record for the next attempt and for cleanup.                    *)
RetriesDontLeak ==
  [][ \A j \in Jobs :
        pc[j] = "reapRemove" /\ pc'[j] = "launch" /\ Live(held[j])
        => file'[Key(j)].vm = held[j] ]_vars

=============================================================================
