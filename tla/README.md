# Verification of the Lambda MicroVM executor for GitLab Runner

The repository runs GitLab CI jobs in AWS Lambda MicroVMs. A *custom executor*
(`cmd/microvm-executor`) is started by GitLab Runner once per stage of a job; it
launches a MicroVM, sends the job's scripts to an HTTP *agent* inside the VM
(`cmd/microvm-agent`) and terminates the VM at the end. This directory holds TLA+
models of that code, the TLC configurations that check them on small instances,
and proofs, checked by TLAPS, of the properties that matter most.

## 1. The system

| Component | Code | State it keeps | Operations |
|---|---|---|---|
| Stage driver | `cmd/microvm-executor/main.go` | none of its own: one process per stage, with a VM id, a token and a signal context in memory | `config`, `prepare` (reap the VM of an earlier attempt, launch, save, wait, mint token, save, wait), `run`, `cleanup` |
| State file | `internal/state` | one JSON record per job key: VM id, endpoint, token, port | `Key`, `Save` (temp file and rename), `Load`, `Remove` |
| Service client | `internal/microvm` | none | `run-microvm`, `get-microvm` poll, `create-microvm-auth-token`, `terminate-microvm`, each an `aws` child process killed with the context |
| MicroVM service | AWS, external | the VMs and their states | boots, suspends, resumes and expires VMs |
| Agent | `internal/agent`, `cmd/microvm-agent` | per request: a script's process group, two pipes, two pump goroutines, a watcher, a mutex | `/exec`, `/healthz`, lifecycle hooks (acknowledged, no state) |
| Agent client | `internal/agentclient` | one request | `Exec`, `WaitHealthy` |
| Protocol | `internal/protocol` | none | frames `stdout`, `stderr`, `exit`, `error` |
| Configuration | `internal/config` | none | `Load`: host TOML/env values with a few job overrides |
| Setup wizard | `internal/setup` | bucket, IAM role, image, `config.toml`, the driver's binary, a temporary archive, the terminal's echo | interactive; run again after a failure |
| Image scripts, example stack, installer | `image/`, `example/`, `install.sh` | cloud resources | shell scripts, CDK |

Interactions. The stages of one job share nothing but the state file and the
service. Several jobs run at once on one host and share the state directory. The
runner retries a failed `prepare` without a cleanup in between, may signal a
process (SIGTERM cancels its context once `signal.NotifyContext` is installed),
kill it, or disappear with its host. A run stage talks to the agent over one HTTP
response stream, which may break at any point; in the agent, the handler, the two
pumps and the watcher are concurrent with each other and with the script.

What is hard, and what makes each component correct:

- *driver*: a VM costs money until somebody terminates it, and the only
  knowledge of it is in a reply, in a process's memory or in the state file. Every
  running VM must stay in one of them through failures, retries and kills; a
  retry must not leave two VMs; cleanup must find the VM in every state prepare
  can leave; a script must go to the right VM with the right token; jobs must not
  touch each other's VMs; no wait may last for ever.
- *exec path*: the exit code must be the script's own and must come after all
  output; output must arrive in order, once; a broken stream must never look like
  success; the script must die when the caller goes away, also if that happens
  while it is being started; the stage must end when the script is gone.
- *several requests*: the agent serves every `/exec` at once, so only the runner
  keeps the sub-stages of a job apart; two scripts in one working directory must
  be the consequence of a reported failure, and must not last.
- *state file*: readers never see a torn record, whoever is killed in the middle
  of a save; keys tell jobs apart.
- *configuration*: an answer passes through `config.toml`, the runner and two
  environments before the driver reads it; a job must not reach what is the
  operator's to decide; token and VM must outlive the job; the waits of prepare
  must fit into the runner's timeout.
- *setup*: re-running after a partial failure must complete the work.

`PROJECT.json` lists the hazards at their source lines, with the properties that
cover each.

## 2. Modules

### MicrovmService
The service, modelled from the use `internal/microvm/client.go` makes of it:
`vm[v]` is the state `get-microvm` reports (`TERMINATING` and `TERMINATED` are one:
the client treats them alike), `owner[v]` a history variable naming the job whose
request created `v`. The service boots a VM (or fails it), suspends and resumes
it, and stops it at its maximum duration, whenever it likes.

### DriverLifecycle
One stage process per job (`pc`, `held`, `token`, `cancelled`), the runner's view of
the job (`phase`, `attempts`), the state directory (`file`), and requests to the service
that are pending or abandoned (`launched`, `late`). One action per call the code
makes, in the order of the code:

| Code | Actions |
|---|---|
| `cmdPrepare` 105-118, `reapPrevious` | `StartPrepare`, `PrepareConfigError`, `ReapLoad`, `ReapTerminate`, `ReapRemove` |
| `RunMicrovm` | `Launch`, `LaunchRefused`, `ServeLaunch`, `ResendLaunch`, `LaunchReply`, `LaunchReplyLost`, `ServeLate` |
| `cmdPrepare` 133-165 | `Save`, `Undo`, `PollRunning`, `MintToken`, `SaveToken`, `PollHealthy` |
| `cmdRun` | `StartRun`, `RunLoad`, `RunEnd` |
| `cmdCleanup` | `StartCleanup`, `CleanupConfigError`, `CleanupLoad`, `CleanupTerminate`, `CleanupRemove` |
| signals, kills, crashes | `Signal`, `Kill`, `Crash` |

Every call may fail; the failure branches are the code's. `Signal` is possible
only where the code has installed its handler (in `run` and `cleanup` that is after
`state.Load`). `launched` splits a `run-microvm` call into "the service has created the
VM" and "the process knows": the window in which VMs get lost. Two
history variables name the faults: `stray` collects the VMs a named fault took out of
custody (lost reply, failed terminate, failed read, death between reply and
Save), `interrupted` the jobs whose cleanup was killed. The safety properties say
that *nothing else* loses a VM.

The name of a job's record is computed as `state.Key` does: `JobKey` and `sanitize` on
sequences of characters, from the ids the job has in its environment.

Abstractions: the state file is read and written atomically (which `StateStore`
implements); a token is named by the VM it was minted for; `RunEnd` stands for the
whole of `Exec`, which is `ExecStream`; of several abandoned launch requests of one job
one at a time is remembered.

### VmCustody
The abstract specification of what the driver owes the account that pays for the
VMs, with no stage, file or call in it: a VM is not there, kept, lost to a fault or
gone; a job may have one launched only when it keeps none and has not finished; it
finishes only when it keeps none (or loses the one whose record cleanup could not
read). `DriverLifecycle` instantiates it with a VM's fate read off `vm` and `stray`, and
`CustodySpec` is the abstract specification under that mapping.

### RemoteExec
The abstract specification of the exec path: running a script in the VM is
running it locally, except that the caller may be told the run was given up. Output
arrives in order, an exit code is reported once and only after all output.

### ExecStream
One `/exec` request: the script and a background child (`proc`, `holds`), the pipes
(`written`, `taken`), the pumps (`pump`, `sent`), the handler's steps (`handler`), the
goroutine that kills the process group (`watcher`), the connection (`conn`, `wire`,
`flushed`), the client (`client`, `received`) and `cmdRun`'s verdict. Chunks of output
are numbered per stream, so "complete and in order" is visible. `Send` is one step
because `frameWriter.send` holds its mutex over `Write` and `Flush`; it blocks when
`wire` is full and is without effect once the connection is gone. `Cut` breaks the
connection: a prefix of what is in flight arrives, its last line perhaps cut short
(which can never parse: a frame ends with `}`). `ExecStream` instantiates `RemoteExec`
with `received` mapped to its length.

Left out: processes that leave the script's process group; the death of the whole
VM (to the client it is a `Cut`); pid numbers; the bytes of the encoding.

### AgentRequests
The requests of one job, one after the other as the runner makes them, to an agent
that does not keep them apart: per request what its stage was told (`told`), the
connection (`link`), the handler, the script, a background child and whether the group
has been killed (`fired`). It is `ExecStream` without frames, for several requests. A
child may keep the script's pipes, redirect its output, or leave the process group
with the pipes. `Start` may come after the caller has gone: the body of the request
may have arrived whole on a connection that is already dead.

### AtomicRecord, StateStore
`AtomicRecord` is what the stages take the state directory for: a save that reports
success has replaced the record, one that fails or dies has left it alone, a load
returns it whole. `StateStore` is `Save`, `Load` and `Remove` by system calls: `OpenTmp` (create
or truncate), `WriteTmp`, `Rename`, each of which may fail or be the last thing the
process does. Files are inodes with two names, `final` and `tmp`; a temporary file left
by a killed process is taken over by the next save. `RecordSpec` is `AtomicRecord` with
`record` mapped to the content behind `final`.

### DriverConfig
`config.loadFrom` with `first`, `splitList`, `atoiDefault`, `tokenTTL` and the defaults, as functions
of an environment (a function from names to texts). Texts are TLA+ strings;
what parsing, trimming and splitting make of them are constants (`Atoi`, `Padded`,
`Parts`), given for the texts an instance uses.

### RunnerSetup
How an answer gets to the driver: `Setup` renders `config.toml` (`renderConfig`), `Export`
sets variables of the gitlab-runner process, `TakeJob` brings a job's variables,
`ConfigStage` and `LoadForPrepare` are the two processes that load the configuration. `Environ`
is the environment of a stage: the process's own, and under the prefix
`CUSTOM_ENV_` the job's variables and those of `environment` in `config.toml`
(`config.go:5-9`). `HostNames` are the names `loadFrom` reads of the process, `SharedNames` what it
reads of the job, or of either, `TomlNames` those `config.toml` sets. `Told` is the environment
without `config.toml`'s part.

### StageTiming
Extends `RunnerSetup` with a clock: a job whose configuration was loaded goes through
the steps of prepare, each taking one of a set of durations, then through its
scripts. `Poll` is one turn of `WaitRunning` or `WaitHealthy`: an answer, or the deadline
(looked at after the call), or a pause. `Launch` asks for the VM with the configured
maximum duration, or, where that is not positive, with none (`client.go:59`): then the
service's own applies (`config.go:34`), `ServiceDuration`. More than `LongestDuration` (8 hours by
`README.md:178`) the service refuses, and any call may fail. `CutOff` is the runner ending
prepare. Between two jobs (`Around`) the wizard may be run again, variables be
exported, and the next job comes.

### SetupWizard
`setup.Run`, `buildImage`, `ensureBuildRole`, `zipContext`, `pollImage`, `secret` and `installBinary`, one action
per prompt or AWS call (`pc`), run up to `MaxRuns` times over an account (`exists`, `role`,
`uploaded`, `image`, `source`) and a host (`archives`, `config`, `binary`, `echo`) that keep what the
runs before left behind. `Call` is an AWS call with an effect: it may fail before or
after the effect; an error of a look-up counts as "does not exist", as in the code.
The operator may interrupt a run (nothing deferred runs then) or end the input,
after which every prompt takes its default. `AskURL` and `TakeToken` bracket the time
in which the terminal does not echo. A role is "bare" until its policy is attached
and is then named by the bucket in that policy. Create-calls on a name that is
taken are refused. One role name, one image name and one config path stand for
the operator's choice of them.

### MC modules
`MCDriver`, `MCExec`, `MCStore`, `MCSetup` and `MCTiming` give the constants their values.
`AgentRequests` needs none.

### Composition
`DriverLifecycle` composes the driver with `MicrovmService`. What is one step or one record there
is taken apart by other modules: the record by `StateStore` (which implements
`AtomicRecord`), `RunEnd` by `ExecStream` and `AgentRequests`, the untimed waits by `StageTiming`. `StageTiming` composes the wizard's
output, the runner, the configuration and prepare in one state machine. The
modules are kept apart where their product would say nothing new: a job's
frames and another's VM do not meet.

## 3. Runs

| Run | Instance | Shows |
|---|---|---|
| `one_job` | a configured job and one that is not, keys by slot, 3 prepare attempts, 2 VMs, fair | `EveryVmInCustody`, `OneVmPerJob`, `NothingLeftWhenDone`, `CustodySpec`, `JobsFinish`, types |
| `two_jobs` | job 11 of project 1 and job 1 of project 11, 2 VMs (symmetric), 2 attempts each, so that both reap | `ExecIsAuthorized`, `TerminatesOnlyItsOwn` |
| `exec_stream` | 2 chunks per stream, pipe of 1, wire of 2, exit 0, 7 or a signal, fair | `VerdictIsTheScripts`, `OutputIsFaithful`, `OneTerminalFrame`, `RemoteSpec`, `CallerGoneGroupDies`, `StageEnds`, types |
| `requests` | 3 requests, fair | `OverlapOnlyAfterLoss`, `OverlapEnds`, `HandlersEnd`, types |
| `store` | 2 processes with a key each, 2 records, 4 inodes | `SaveIsAtomic`, `RecordSpec`, types |
| `configured_job` | 2 sets of answers, 8 process environments, 4 jobs' variables, 2 runs of the wizard, calls of 0 or 2 s | `OverridesAreFew`, `LifetimesCoverTheJob`, `EnoughIsEnough`, types |
| `setup_reruns` | 3 runs, 2 buckets, fair | `BuildHasItsInputs`, `ConfigNamesBuiltImage`, `SuccessIsConfigured`, `SuccessCleansUp`, `WizardEnds`, types |
| `cleanup_can_find_it` | 1 job, 2 VMs | finding 1: a launch cut short leaves a VM on no record |
| `retries_dont_leak` | 1 job, 2 VMs | finding 2: reaping forgets a VM it could not terminate |
| `silent_script` | 1 chunk per stream | finding 3: 60 s of silence end a run |
| `setup_role` | 2 runs, 2 buckets | finding 4: a role without its policy is taken as it is |
| `ready_to_use` | the instance of `configured_job` | finding 5: a job fails on the `config.toml` the wizard wrote |

Bounds. In `one_job` three attempts let a first lose a VM (to a re-sent request, a
failed undo or a kill), a second reap or replace another, and a third meet what the
two left behind; with two VMs an attempt that finds both used up is refused. The
theorems below hold for any number of either. Two jobs are enough for one to harm
another, and `two_jobs` has both configured and retried.
`MaxChunks` 2 with a pipe of 1 and a wire of 2 makes writers block on pumps and
pumps on the wire, and lets output of both streams interleave in flight. VM
symmetry is used in the safety run `two_jobs` only: VMs are compared for equality
and nothing else.

Three runs of the wizard let one leave a role, another an image, and a third meet
both; with two buckets a role can be there for the wrong one. Three requests let
a third meet what is left of two. Four inodes are one for each name of each of
the two keys. The ids in `two_jobs` are chosen so that they run together without
the dash of `Key`.

`configured_job` has a `PrepareBudget` of 22 seconds, exactly what `EnoughIsEnough` asks for
with waits of 5 and 3, calls and health checks of up to 2 and a pause of 2; one
environment has a wait that does not fit, one a negative wait and one a negative
maximum duration (`atoiDefault` takes both). A VM without a maximum lives for
100 seconds there, between the job timeouts, and the service grants up to 8 hours:
maximum durations of 89, 119, 14400 (the default) and 86400 (refused) meet it. Job timeouts of 60, 89 and 119 seconds and
none put the division by 60 in `tokenTTL` at its edges. The job that starts 20 seconds
in stands for one whose earlier prepare attempts took time.

Deadlock is not checked: the systems stop (jobs done and VMs gone; a request
finished; no run of the wizard left), and the liveness properties say that they do
not stop early.

Fairness. `one_job` assumes that a started process is scheduled (each of its
waits has a deadline or an answer, so one of its actions is always possible) and
that the runner does get to cleanup although it could always start another
sub-stage (strong fairness of `StartCleanup`: a job has finitely many sub-stages).
Nothing is assumed of the service. `exec_stream` assumes goroutines are scheduled, a
broken connection is noticed by the server (TCP keep-alive) and the client reads.
Nothing is assumed of scripts: both liveness properties speak of what happens once
the caller, or the script, is gone. `requests` assumes that the watcher and the
handler are scheduled, nothing of scripts and their children. `setup_reruns` assumes
that the wizard runs, its AWS calls return and the operator answers or ends the
input; nothing is assumed of the image build. It excepts the one prompt without a
default, at which the code really asks for ever once the input has ended.
`HasRegion` is true: without any region the first prompt is a second one of that kind,
so the property says nothing of that loop; nor do `StageEnds` and `HandlersEnd` of a stage
whose script is gone while a background process holds its output: it hangs, until
the job timeout, as the code has it (`agent.go:153-157`).

## 4. Findings

1. **A launch that is cut short loses its VM** (`cleanup_can_find_it`). A comment
   promises that cleanup can always find the VM. Between the creation of the VM
   and `Save`, a SIGTERM kills the `aws` process and prepare gives up without knowing
   the id; cleanup then finds no file and takes it that nothing was created.
2. **Reaping forgets what it could not terminate** (`retries_dont_leak`).
   `reapPrevious` removes the record even when the terminate call failed.
3. **A silent script is given up after 60 seconds** (`silent_script`). The agent's
   status line is flushed with the first frame only, and the client's transport
   waits 60 s for it.

4. **A build role without its policy** (`setup_role`). `ensureBuildRole` attaches the
   policy only to a role it has just created, so a run after a failed
   `put-role-policy`, or for another bucket, builds with a role that cannot read the
   artifact.

5. **The written config.toml is not ready to use** (`ready_to_use`). `README.md:73-75` and
   `render.go:19` call it that, and `README.md:151` and `deploy/config.toml.example:22` say that
   nothing more is needed. But the `MICROVM_*` settings under `environment` are variables of the
   runner's jobs: they reach the driver as `CUSTOM_ENV_MICROVM_*` only (`config.go:5-9`), names
   that `loadFrom` does not read. With nothing else exported to the gitlab-runner
   process every job fails in its config stage. `TomlIsUnheard` proves that it is so in
   every deployment: what `environment` says decides nothing.

In the first two the maximum duration of the VM, the configured one or the
service's, is what finally stops it.

### Observations

Smaller disagreements met while modelling, stated here with their lines; they have
no run of their own.

- *Shared keys.* `state.go:36-37` says that by the concurrent slot "two jobs never
  collide": the slot is unique among the jobs of one runner, so the jobs of two
  runners on one host that pass no job ids share `job-0`. Processes that share a key
  share the temporary file too (`state.go:74`), and one may rename what the other has
  just truncated: `SaveIsAtomic` and `TerminatesOnlyItsOwn` need distinct keys, which
  `NumbersTellJobsApart` derives from numeric ids.
- *prepare_exec_timeout.* `deploy/config.toml.example:46` says its 300 seconds cover launch, wait and
  health check. The two waits alone default to 180 and 120 seconds (`config.go:83-84`);
  the calls and pauses come on top. `EnoughIsEnough` gives a sufficient budget.
- *Paths.* The wizard's `builds_dir` and `cache_dir` go to the runner (`render.go:30`) but not to
  the driver, which reports `MICROVM_BUILDS_DIR` and `MICROVM_CACHE_DIR` or its defaults; they
  "must match" (`deploy/config.toml.example:17`).
- *Overrides.* `config.go:8-9` names the image and the VM size; the code lets a job set
  image and agent port, and there is no VM size.
- *State directory.* `deploy/config.toml.example:30` shows `/var/lib/microvm-executor` as default; the code's is
  `/tmp/microvm-executor` (`config.go:82`).
- *Echo.* Ctrl-C at the token prompt leaves the terminal without echo
  (`prompt.go:130-137`); the next run that ends well restores it (`SuccessCleansUp`).
- *Archive.* `zipContext` returns no name when it fails, so that its caller cannot remove
  the temporary file (`bundle.go:28-58`, `setup.go:137-141`).
- *Installation.* With `--yes` the offer to install the driver takes its default, no
  (`setup.go:92`); `config.toml` names the driver all the same and the printed next steps
  (`setup.go:228-241`) do not mention it.
- *Background processes.* The deferred cancel (`agent.go:143-151`) kills the group of a script
  that ended well, too: a process it left running with redirected output dies with
  the request.

## 5. Proofs

`DriverLifecycle_proofs` proves, for every set of jobs and VMs, any number of
attempts and any choice of configured jobs:

- `TypeCorrect`: the types, and that a process is always at a step of the stage the
  runner is in. `TypeInv` adds that a process past certain points holds a VM.
- for jobs with distinct keys (`DistinctKeys`), `CustodyKept`, `SingleVm`,
  `CleanupComplete`, `ExecAuthorized` and the action property `TerminatesOwn`.

The five rest on one inductive invariant, `IInv`. The properties are not
inductive by themselves: that a retry may overwrite the record follows from what
it did to the VM on record two steps earlier, so `Settled` says at which steps a
recorded VM is dead or a stray; that cleanup and reaping terminate the right VM
follows from `Recorded` (the process holds what is on record) and `OwnVms` (what is on
record was launched for the job); that the token fits follows from `Authorized`, which
ties the record to the phases after the second save. A step of job `j` is shown to
`Keep` three things: the `Frame` (other jobs, their records and VMs are untouched),
the job's own part of the invariant, and the custody of its VMs; `OtherJobs` and
`OtherVms` do the rest once for all steps.

`DriverCustody_proofs` proves `DriverKeepsCustody`: under `DistinctKeys`, `DriverLifecycle`
implements `VmCustody`. The lemmas follow the ways a step can touch a VM: not at all
(`Stutters`), a fault takes one (`Loses`), one ends (`Ends`), one is launched
(`ServeCustody`), a job finishes (`Finishes`). The launch needs `Settled` and `VmInv` (a
prepare that waits for a reply keeps no other VM), a finish needs
`NothingLeftWhenDone`, so the refinement rests on `IInv` before and after the step.

`NumbersTellJobsApart` proves `DistinctKeys` for what GitLab passes: project and job ids that
are strings of digits, and job ids that are unique. `SanitizeKeeps` shows that nothing
is replaced in such a key, `DashSplits` that the dash tells where its number begins.
Without distinct keys the theorems about several jobs are false.

`StateStore_proofs`: `StoreTypeCorrect`, whatever keys the processes have, shared ones
included; and where every process has a key of its own (a
process of the model stands for the stages of one job, one after the other),
`StateFilesWhole` (`SaveIsAtomic`) and `StoreIsARecord` (`RecordSpec`). The invariant says where each
inode is: no two names share one (`TmpsApart`), an open file is the temporary file of
its process's key and still empty (`Writing`), and a process about to rename has its
whole record there (`Written`).

`AgentRequests_proofs`: `RequestsTypeCorrect` and `NoSilentOverlap` (`OverlapOnlyAfterLoss`) for any
number of requests. The invariant adds that an exit is told only after a reply,
and a reply is made only when nothing holds the pipes.

`StageTiming_proofs`: `TimingTypeCorrect`; `TokenCoversJob` (`LifetimesCoverTheJob`, for a default job timeout
of at most an hour) and `PrepareEndsByItself` (`EnoughIsEnough`), for all environments, durations and
budgets, and whatever the service's own duration and its longest. `TokenCoversJob` needs
that the token is minted at most its lifetime before it ends and that ten minutes
of margin exceed what rounding costs; its other half, that the VM was given its
`Lifetime` no earlier than the job began. `PrepareEndsByItself` sums the longest way
through each step (`now` is bounded step by step).

`ExecStream_proofs`, for any exit statuses, amounts of output and capacities of pipes and
connection: `ExecTypeCorrect`, `ExecVerdict` (`VerdictIsTheScripts`), `ExecOutput` (`OutputIsFaithful`),
the action property `ExecOneTerminalFrame`, and `ExecRefines`: the stream implements
`RemoteExec`. What the client has got says nothing of what is still under way, so the
invariant follows each byte: `PumpState` orders what was sent, read from the pipe and
written; `WireState` says that for each stream there is a watermark per frame on the
wire (`at`), from what has arrived to what was sent, along which the frames join
without a gap (`Relays`); an exit frame stands at the end of both (`ExitsAreFinal`). `ProcessState`
and `HandlerState` carry the reason nothing is written after an exit: the handler waits
for both pumps, a pump ends when nobody holds its pipe, and only the living hold one.
The refinement rests on it in two steps: an output frame the client takes is a delivery
of what is next and has been written, an exit frame a report with nothing outstanding.

`SetupWizard_proofs`, for any buckets and number of runs: `WizardTypeCorrect`, `WizardBuildsFromInputs`
(`BuildHasItsInputs`), `WizardNamesBuiltImage` (`ConfigNamesBuiltImage`), `WizardSuccessIsConfigured`
(`SuccessIsConfigured`) and `WizardSuccessCleansUp` (`SuccessCleansUp`). None is inductive: a run can be
interrupted at any prompt, so the invariant says what has been done by each step
(`StepsHaveInputs`, over nested sets of steps), what no later run undoes (`ImagesAreBuilt`), what
belongs to the current run (`ConfigIsOwn`), and when an archive or a silent terminal may
be there at all (`HostIsClean`). It is assumed that "absent" and "bare" are not names of
buckets.

`RunnerSetup_proofs`, for all answers, exports and jobs, over the steps of `StageTiming`: `JobOverridesAreFew`
(`OverridesAreFew`) and `TomlIsUnheard` (`OnlyHostAndJobConfigure`), the reason of finding 5. The
invariant is small (`config.toml` is what the latest answers render to; a stage that
has loaded or rejected its configuration did so for the environment it still has);
the work is in the lemmas about environments. `HostNamesPass`: a name that `loadFrom` reads
of the process has no value from the job. `TomlNamesDoNot`: no name it reads at all has
one from `config.toml`. `HostNamesDecide` and `NamesDecide`: environments that agree on the
first give the same configuration in all but three fields, and those that agree on
all give the same. The provers know nothing of the characters of a string: that the
prefix makes other names of the names it is put before, distinct ones, and of
`config.toml`'s none that `loadFrom` reads, is `PrefixAssumption`, a fact about finitely many
strings that TLC evaluates in each run of the module.

Only model-checked: liveness (`JobsFinish`, `CallerGoneGroupDies`, `StageEnds`, `WizardEnds`, `OverlapEnds`,
`HandlersEnd`), which is out of the prover's reach. Every invariant, action property and
refinement of a passing run has a theorem.

## 6. Not modelled

The image scripts (`image/`), the example stack and the installer: straight-line
shell that repeats the wizard's calls, and declarative infrastructure whose
behaviour is CloudFormation's. Of the modelled files: usage and version output,
logging, prompts' wording and styling, the encodings of JSON and base64 (a frame is
whole or cut), the lifecycle hooks and `/healthz` (they answer 200 and keep no state),
pid numbers (so also their reuse), and what the service takes for idle. Two errors
the wizard ignores are taken never to happen: of removing its archive (`setup.go:141`)
and of `stty` switching the echo back on (`prompt.go:147`).

## 7. Plan

1. `StateStore` under `DriverLifecycle`: that `Load`, `Save` and `Remove` of the driver, one step each, are
   those of `AtomicRecord`, so that `StoreIsARecord` closes the gap between the driver's record
   and the system calls.
2. Theorems about the operators of `DriverConfig` beyond `first`: what `splitList` returns needs
   induction over sequences, which is out of the prover's reach; its instances stay
   with TLC.
3. Temporal lemmas below the liveness properties, as far as they are safety: a process
   whose caller is gone can only come closer to its end.
