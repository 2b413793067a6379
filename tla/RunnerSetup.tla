----------------------------- MODULE RunnerSetup ----------------------------
(***************************************************************************)
(* How an answer given to the setup wizard gets to the driver: the wizard   *)
(* renders config.toml (internal/setup/render.go), the operator may export  *)
(* variables to the gitlab-runner process, a job brings variables of its    *)
(* own, and each stage process reads its configuration from what of these   *)
(* it finds in its environment (cmdConfig, config.Load).                    *)
(***************************************************************************)
EXTENDS DriverConfig

CONSTANTS
  Answers,   (* what may be answered to the wizard: configAnswers records    *)
  Exports,   (* variables the operator may set on the gitlab-runner process  *)
  JobVars,   (* variables a job may have                                    *)
  Texts,     (* fmt %d: the text of each number                             *)
  MaxSetups  (* bound: how often the wizard is run                          *)

Nothing == <<>>

(* The runner shows a job's variables to the stages under a prefix          *)
(* (config.go:5-8).                                                         *)
Prefix(v) == "CUSTOM_ENV_" \o v

(* What config.Load reads of the gitlab-runner process only.                *)
HostNames ==
  {"MICROVM_REGION", "AWS_REGION", "AWS_DEFAULT_REGION", "MICROVM_IMAGE_ARN",
   "MICROVM_INGRESS_CONNECTORS", "MICROVM_EGRESS_CONNECTORS",
   "MICROVM_EXECUTION_ROLE_ARN", "MICROVM_IDLE_POLICY",
   "MICROVM_MAX_DURATION_SECONDS", "MICROVM_BUILDS_DIR", "MICROVM_CACHE_DIR",
   "MICROVM_AWS_CLI", "MICROVM_STATE_DIR", "MICROVM_RUN_TIMEOUT_SECONDS",
   "MICROVM_HEALTH_TIMEOUT_SECONDS"}

(* What it reads besides, of the job or of either.                          *)
SharedNames ==
  {"CUSTOM_ENV_MICROVM_IMAGE", "CUSTOM_ENV_MICROVM_AGENT_PORT",
   "MICROVM_AGENT_PORT", "CUSTOM_ENV_CI_JOB_TIMEOUT", "MICROVM_TOKEN_TTL_MINUTES"}

(* The variables config.toml sets, and all that may get the prefix.         *)
TomlNames == {"MICROVM_REGION", "MICROVM_IMAGE_ARN", "MICROVM_MAX_DURATION_SECONDS",
              "MICROVM_STATE_DIR"}
JobNames  == TomlNames \cup (UNION {DOMAIN variables : variables \in JobVars})

(* %d prints every number the wizard takes.                                 *)
ASSUME SetupAssumption ==
  /\ MaxSetups \in Nat
  /\ Nothing \notin Answers
  /\ \A a \in Answers : {a.maxDuration, a.concurrent} \subseteq DOMAIN Texts

(* Facts about strings: a name with the prefix is not one without, and it   *)
(* tells which name it was made of; and with it config.toml's are no names   *)
(* config.Load reads.                                                       *)
ASSUME PrefixAssumption ==
  /\ \A v \in JobNames : Prefix(v) \notin HostNames
  /\ \A v, w \in JobNames : Prefix(v) = Prefix(w) => v = w
  /\ \A v \in TomlNames : Prefix(v) \notin HostNames \cup SharedNames

VARIABLES
  setups,   (* history: runs of the wizard                                  *)
  answers,  (* history: the answers config.toml was rendered from           *)
  toml,     (* config.toml, NoToml before the wizard has written one         *)
  process,  (* environment of the gitlab-runner process                     *)
  job,      (* variables of the current job                                 *)
  stage,    (* the stage the job is at                                      *)
  reported, (* what the config stage printed                                *)
  cfg       (* what config.Load gave the prepare stage                      *)

runnerVars == <<setups, answers, toml, process, job, stage, reported, cfg>>

NoToml == <<>>

----------------------------------------------------------------------------
(* config.toml, but for the driver's path and the timeouts of its stages.   *)
renderConfig(a) ==
  [ concurrent  |-> a.concurrent,
    buildsDir   |-> a.buildsDir,
    cacheDir    |-> a.cacheDir,
    environment |-> [ MICROVM_REGION               |-> a.region,
                      MICROVM_IMAGE_ARN            |-> a.imageARN,
                      MICROVM_MAX_DURATION_SECONDS |-> Texts[a.maxDuration],
                      MICROVM_STATE_DIR            |-> a.stateDir ] ]

(* Variables from two places: the first has precedence.  (@@ of TLC, which  *)
(* the provers do not know.)                                                *)
Over(f, g) ==
  [n \in DOMAIN f \cup DOMAIN g |->
     IF n \in DOMAIN f THEN f[n] ELSE g[n]]

Prefixed(variables) ==
  [n \in {Prefix(v) : v \in DOMAIN variables} |->
     variables[CHOOSE v \in DOMAIN variables : Prefix(v) = n]]

(* A job has variables of its own, and those the runner takes from the      *)
(* `environment` of config.toml.                                            *)
Environ == Over(Prefixed(Over(job, toml.environment)), process)

----------------------------------------------------------------------------
RunnerTypeOK ==
  /\ setups \in 0..MaxSetups
  /\ answers \in Answers \cup {Nothing}
  /\ toml = NoToml <=> answers = Nothing
  /\ process \in Exports
  /\ job \in JobVars
  /\ stage \in {"none", "config", "prepare", "prepared", "failed"}
  /\ stage \in {"prepare", "prepared"} => reported # Nothing
  /\ stage = "prepared" => cfg # Nothing

RunnerInit ==
  /\ setups = 0
  /\ answers = Nothing /\ toml = NoToml
  /\ process \in Exports
  /\ job \in JobVars
  /\ stage = "none" /\ reported = Nothing /\ cfg = Nothing

(* The wizard is run, and the runner restarted.                             *)
Setup(a) ==
  /\ setups < MaxSetups
  /\ stage \notin {"config", "prepare"}
  /\ setups' = setups + 1
  /\ answers' = a
  /\ toml' = renderConfig(a)
  /\ stage' = "none"
  /\ UNCHANGED <<process, job, reported, cfg>>

Export(variables) ==
  /\ stage \notin {"config", "prepare"}
  /\ process' = variables
  /\ stage' = "none"
  /\ UNCHANGED <<setups, answers, toml, job, reported, cfg>>

TakeJob(variables) ==
  /\ toml # NoToml
  /\ stage \notin {"config", "prepare"}
  /\ job' = variables
  /\ stage' = "config"
  /\ reported' = Nothing /\ cfg' = Nothing
  /\ UNCHANGED <<setups, answers, toml, process>>

Bug_ConfigStage ==
  /\ stage = "config"
  /\ stage' = "prepare"
  /\ IF Rejected(Environ)
     THEN UNCHANGED reported
     ELSE reported' = [buildsDir |-> loadFrom(Environ).buildsDir,
                       cacheDir  |-> loadFrom(Environ).cacheDir]
  /\ UNCHANGED <<setups, answers, toml, process, job, cfg>>

(* cmdConfig: a configuration that cannot be loaded is a system failure.    *)
ConfigStage ==
  /\ stage = "config"
  /\ IF Rejected(Environ)
     THEN stage' = "failed" /\ UNCHANGED reported
     ELSE /\ stage' = "prepare"
          /\ reported' = [buildsDir |-> loadFrom(Environ).buildsDir,
                          cacheDir  |-> loadFrom(Environ).cacheDir]
  /\ UNCHANGED <<setups, answers, toml, process, job, cfg>>

(* cmdPrepare loads it again, in a process of its own.                      *)
LoadForPrepare ==
  /\ stage = "prepare"
  /\ IF Rejected(Environ)
     THEN stage' = "failed" /\ UNCHANGED cfg
     ELSE stage' = "prepared" /\ cfg' = loadFrom(Environ)
  /\ UNCHANGED <<setups, answers, toml, process, job, reported>>

(* What happens around the prepare stage.                                   *)
RunnerStep ==
  \/ \E a \in Answers : Setup(a)
  \/ \E variables \in Exports : Export(variables)
  \/ \E variables \in JobVars : TakeJob(variables)
  \/ ConfigStage

----------------------------------------------------------------------------
(* Properties.                                                              *)

(* "A job may override a small, safe subset" (config.go:8): whatever        *)
(* variables a job brings, all but the image and the port of the agent,     *)
(* that is limits, roles, network and paths, stays what the gitlab-runner   *)
(* process says.  The token's lifetime follows the job's timeout.           *)
OverridesAreFew ==
  stage = "prepared" /\ ~Rejected(process) =>
    \A f \in DOMAIN cfg \ {"image", "agentPort", "tokenTTL"} :
      cfg[f] = loadFrom(process)[f]

(* What the gitlab-runner process and the job itself tell a stage.          *)
Told == Over(Prefixed(job), process)

(* It is all that decides a stage's configuration, and whether there is one. *)
OnlyHostAndJobConfigure ==
  /\ stage = "prepared" => ~Rejected(Told) /\ cfg = loadFrom(Told)
  /\ stage = "failed" => Rejected(Told)

----------------------------------------------------------------------------
(* What documents and comments say and the code refutes.                    *)

(* The gitlab-runner process says nothing that speaks against config.toml.  *)
NothingElseExported ==
  \A v \in DOMAIN toml.environment : Get(process, v) \in {"", toml.environment[v]}

(* The wizard "writes a ready-to-use config.toml" (README.md:73-75,         *)
(* render.go:19): no stage of a job rejects its configuration, and the      *)
(* driver runs with the wizard's region, maximum duration, state directory  *)
(* and, unless the job names one of its own, image.                         *)
ReadyToUse ==
  stage \in {"prepared", "failed"} /\ NothingElseExported
  => /\ stage = "prepared"
     /\ cfg.region = answers.region
     /\ cfg.maxDuration = answers.maxDuration
     /\ cfg.stateDir = answers.stateDir
     /\ cfg.image = first(<<Get(job, "MICROVM_IMAGE"), answers.imageARN>>)

=============================================================================
