-------------------------- MODULE RunnerSetup_proofs ------------------------
(***************************************************************************)
(* For all answers, exports and jobs: which of them the driver's            *)
(* configuration comes from.                                                *)
(***************************************************************************)
EXTENDS StageTiming_proofs

----------------------------------------------------------------------------
(* Reading an environment.                                                  *)

LEMMA SameText ==
  ASSUME NEW d, NEW e, NEW n, NEW def, Get(d, n) = Get(e, n)
  PROVE  /\ Number(d, n, def) = Number(e, n, def)
         /\ Setting(d, n, def) = Setting(e, n, def)
BY Zenon DEF Number, Setting

(* Two environments that agree on what is read of the gitlab-runner process *)
(* give the same configuration, but for what a job may override.            *)
LEMMA HostNamesDecide ==
  ASSUME NEW d, NEW e, \A n \in HostNames : Get(d, n) = Get(e, n)
  PROVE  \A f \in DOMAIN loadFrom(d) \ {"image", "agentPort", "tokenTTL"} :
           loadFrom(d)[f] = loadFrom(e)[f]
<1> DEFINE Host(n) == Get(d, n) = Get(e, n)
<1>1. /\ Host("MICROVM_REGION") /\ Host("AWS_REGION") /\ Host("AWS_DEFAULT_REGION")
      /\ Host("MICROVM_INGRESS_CONNECTORS") /\ Host("MICROVM_EGRESS_CONNECTORS")
      /\ Host("MICROVM_EXECUTION_ROLE_ARN") /\ Host("MICROVM_IDLE_POLICY")
      /\ Host("MICROVM_MAX_DURATION_SECONDS") /\ Host("MICROVM_BUILDS_DIR")
      /\ Host("MICROVM_CACHE_DIR") /\ Host("MICROVM_AWS_CLI")
      /\ Host("MICROVM_STATE_DIR") /\ Host("MICROVM_RUN_TIMEOUT_SECONDS")
      /\ Host("MICROVM_HEALTH_TIMEOUT_SECONDS")
  BY DEF HostNames
<1>2. region(d) = region(e)
  BY <1>1, Zenon DEF region
<1>3. /\ loadFrom(d).region = loadFrom(e).region
      /\ loadFrom(d).ingress = loadFrom(e).ingress
      /\ loadFrom(d).egress = loadFrom(e).egress
  <2> DEFINE Connectors(e_, name, all) ==
               splitList(Setting(e_, name, defaultConnector(e_, all)))
  <2>1. /\ Connectors(d, "MICROVM_INGRESS_CONNECTORS", "ALL_INGRESS")
             = Connectors(e, "MICROVM_INGRESS_CONNECTORS", "ALL_INGRESS")
        /\ Connectors(d, "MICROVM_EGRESS_CONNECTORS", "INTERNET_EGRESS")
             = Connectors(e, "MICROVM_EGRESS_CONNECTORS", "INTERNET_EGRESS")
    BY <1>1, <1>2, Zenon DEF Setting, defaultConnector
  <2> QED
    BY <1>2, <2>1 DEF loadFrom
<1>4. /\ loadFrom(d).maxDuration = loadFrom(e).maxDuration
      /\ loadFrom(d).runTimeout = loadFrom(e).runTimeout
      /\ loadFrom(d).healthTimeout = loadFrom(e).healthTimeout
  <2>1. \A v : /\ loadFrom(v).maxDuration
                     = Number(v, "MICROVM_MAX_DURATION_SECONDS", 14400)
               /\ loadFrom(v).runTimeout
                     = Number(v, "MICROVM_RUN_TIMEOUT_SECONDS", 180)
               /\ loadFrom(v).healthTimeout
                     = Number(v, "MICROVM_HEALTH_TIMEOUT_SECONDS", 120)
    BY DEF loadFrom
  <2> QED
    BY <1>1, <2>1, SameText
<1>5. /\ loadFrom(d).executionRole = loadFrom(e).executionRole
      /\ loadFrom(d).idlePolicy = loadFrom(e).idlePolicy
      /\ loadFrom(d).buildsDir = loadFrom(e).buildsDir
      /\ loadFrom(d).cacheDir = loadFrom(e).cacheDir
      /\ loadFrom(d).awsCLI = loadFrom(e).awsCLI
      /\ loadFrom(d).stateDir = loadFrom(e).stateDir
  <2>1. \A v : /\ loadFrom(v).executionRole = Get(v, "MICROVM_EXECUTION_ROLE_ARN")
               /\ loadFrom(v).idlePolicy
                     = Setting(v, "MICROVM_IDLE_POLICY", "15 minutes idle")
               /\ loadFrom(v).buildsDir = Setting(v, "MICROVM_BUILDS_DIR", "/builds")
               /\ loadFrom(v).cacheDir = Setting(v, "MICROVM_CACHE_DIR", "/cache")
               /\ loadFrom(v).awsCLI = Setting(v, "MICROVM_AWS_CLI", "aws")
               /\ loadFrom(v).stateDir
                     = Setting(v, "MICROVM_STATE_DIR", "/tmp/microvm-executor")
    BY DEF loadFrom
  <2>2. /\ Setting(d, "MICROVM_IDLE_POLICY", "15 minutes idle")
             = Setting(e, "MICROVM_IDLE_POLICY", "15 minutes idle")
        /\ Setting(d, "MICROVM_BUILDS_DIR", "/builds")
             = Setting(e, "MICROVM_BUILDS_DIR", "/builds")
        /\ Setting(d, "MICROVM_CACHE_DIR", "/cache")
             = Setting(e, "MICROVM_CACHE_DIR", "/cache")
        /\ Setting(d, "MICROVM_AWS_CLI", "aws") = Setting(e, "MICROVM_AWS_CLI", "aws")
        /\ Setting(d, "MICROVM_STATE_DIR", "/tmp/microvm-executor")
             = Setting(e, "MICROVM_STATE_DIR", "/tmp/microvm-executor")
    BY <1>1, Zenon DEF Setting
  <2> QED
    BY <1>1, <2>1, <2>2, Zenon
<1>6. DOMAIN loadFrom(d) =
        {"region", "image", "ingress", "egress", "executionRole", "idlePolicy",
         "maxDuration", "agentPort", "buildsDir", "cacheDir", "awsCLI", "stateDir",
         "runTimeout", "healthTimeout", "tokenTTL"}
  BY DEF loadFrom
<1> QED
  BY <1>3, <1>4, <1>5, <1>6

(* A configuration is the record of its fields.                             *)
Fields(c) ==
  [ region |-> c.region, image |-> c.image,
    ingress |-> c.ingress, egress |-> c.egress,
    executionRole |-> c.executionRole, idlePolicy |-> c.idlePolicy,
    maxDuration |-> c.maxDuration, agentPort |-> c.agentPort,
    buildsDir |-> c.buildsDir, cacheDir |-> c.cacheDir,
    awsCLI |-> c.awsCLI, stateDir |-> c.stateDir,
    runTimeout |-> c.runTimeout, healthTimeout |-> c.healthTimeout,
    tokenTTL |-> c.tokenTTL ]

LEMMA LoadedFields ==
  \A e : /\ loadFrom(e) = Fields(loadFrom(e))
        /\ DOMAIN loadFrom(e) =
             {"region", "image", "ingress", "egress", "executionRole", "idlePolicy",
              "maxDuration", "agentPort", "buildsDir", "cacheDir", "awsCLI",
              "stateDir", "runTimeout", "healthTimeout", "tokenTTL"}
<1>1. \A e : loadFrom(e) = Fields(loadFrom(e))
  BY DEF loadFrom, Fields
<1>2. \A e : DOMAIN loadFrom(e) =
              {"region", "image", "ingress", "egress", "executionRole", "idlePolicy",
               "maxDuration", "agentPort", "buildsDir", "cacheDir", "awsCLI",
               "stateDir", "runTimeout", "healthTimeout", "tokenTTL"}
  BY DEF loadFrom
<1> QED
  BY <1>1, <1>2

LEMMA SameFields ==
  ASSUME NEW c, NEW d,
         DOMAIN c =
           {"region", "image", "ingress", "egress", "executionRole", "idlePolicy",
            "maxDuration", "agentPort", "buildsDir", "cacheDir", "awsCLI",
            "stateDir", "runTimeout", "healthTimeout", "tokenTTL"},
         \A f \in DOMAIN c : c[f] = d[f]
  PROVE  Fields(c) = Fields(d)
BY DEF Fields

(* Those that agree on all that is read give the same one.                  *)
LEMMA NamesDecide ==
  ASSUME NEW d, NEW e,
         \A n \in HostNames \cup SharedNames : Get(d, n) = Get(e, n)
  PROVE  loadFrom(d) = loadFrom(e) /\ Rejected(d) = Rejected(e)
<1>1. \A f \in DOMAIN loadFrom(d) \ {"image", "agentPort", "tokenTTL"} :
        loadFrom(d)[f] = loadFrom(e)[f]
  BY HostNamesDecide
<1>2. /\ Get(d, "CUSTOM_ENV_MICROVM_IMAGE") = Get(e, "CUSTOM_ENV_MICROVM_IMAGE")
      /\ Get(d, "CUSTOM_ENV_MICROVM_AGENT_PORT") = Get(e, "CUSTOM_ENV_MICROVM_AGENT_PORT")
      /\ Get(d, "MICROVM_AGENT_PORT") = Get(e, "MICROVM_AGENT_PORT")
      /\ Get(d, "CUSTOM_ENV_CI_JOB_TIMEOUT") = Get(e, "CUSTOM_ENV_CI_JOB_TIMEOUT")
      /\ Get(d, "MICROVM_TOKEN_TTL_MINUTES") = Get(e, "MICROVM_TOKEN_TTL_MINUTES")
  BY DEF SharedNames
<1>3. /\ Get(d, "MICROVM_IMAGE_ARN") = Get(e, "MICROVM_IMAGE_ARN")
      /\ Get(d, "MICROVM_REGION") = Get(e, "MICROVM_REGION")
      /\ Get(d, "AWS_REGION") = Get(e, "AWS_REGION")
      /\ Get(d, "AWS_DEFAULT_REGION") = Get(e, "AWS_DEFAULT_REGION")
  BY DEF HostNames
<1>4. region(d) = region(e) /\ image(d) = image(e)
  BY <1>2, <1>3, Zenon DEF region, image
<1>5. tokenTTL(d) = tokenTTL(e)
  BY <1>2, Zenon DEF tokenTTL
<1>6. Number(d, "MICROVM_TOKEN_TTL_MINUTES", tokenTTL(d))
        = Number(e, "MICROVM_TOKEN_TTL_MINUTES", tokenTTL(e))
  <2>1. Number(d, "MICROVM_TOKEN_TTL_MINUTES", tokenTTL(e))
          = Number(e, "MICROVM_TOKEN_TTL_MINUTES", tokenTTL(e))
    BY <1>2, SameText
  <2> QED
    BY <1>5, <2>1, Zenon
<1>7. loadFrom(d).image = loadFrom(e).image
  BY <1>4 DEF loadFrom
<1>8. loadFrom(d).tokenTTL = loadFrom(e).tokenTTL
  BY <1>6 DEF loadFrom
<1>9. loadFrom(d).agentPort = loadFrom(e).agentPort
  BY <1>2 DEF loadFrom
<1>10. loadFrom(d) = loadFrom(e)
  <2>1. \A f \in DOMAIN loadFrom(d) : loadFrom(d)[f] = loadFrom(e)[f]
    BY <1>1, <1>7, <1>8, <1>9, Zenon
  <2>2. Fields(loadFrom(d)) = Fields(loadFrom(e))
    BY <2>1, LoadedFields, SameFields
  <2> QED
    BY <2>2, LoadedFields, Zenon
<1> QED
  BY <1>4, <1>10, Zenon DEF Rejected

----------------------------------------------------------------------------
(* What a stage finds in its environment.                                   *)

(* Every config.toml the wizard writes sets the same variables.             *)
LEMMA RenderedNames ==
  ASSUME NEW a
  PROVE  LET variables == renderConfig(a).environment IN
         /\ DOMAIN variables = TomlNames
         /\ variables["MICROVM_REGION"] = a.region
         /\ variables["MICROVM_IMAGE_ARN"] = a.imageARN
         /\ variables["MICROVM_MAX_DURATION_SECONDS"] = Texts[a.maxDuration]
         /\ variables["MICROVM_STATE_DIR"] = a.stateDir
BY DEF renderConfig, TomlNames

(* What a job brings, and what the runner takes from config.toml for it.    *)
Brought == Over(job, toml.environment)

(* The names it can have are those the assumption on the prefix is about.   *)
LEMMA BroughtNames ==
  ASSUME RunnerTypeOK, toml = renderConfig(answers)
  PROVE  /\ DOMAIN Brought = DOMAIN job \cup TomlNames
         /\ DOMAIN Brought \subseteq JobNames
<1>1. DOMAIN Brought = DOMAIN job \cup TomlNames
  BY RenderedNames, Zenon DEF Brought, Over
<1>2. job \in JobVars
  BY DEF RunnerTypeOK
<1> QED
  <2>1. DOMAIN job \subseteq JobNames
    BY <1>2, Zenon DEF JobNames
  <2>2. TomlNames \subseteq JobNames
    BY DEF JobNames
  <2> QED
    BY <1>1, <2>1, <2>2, Zenon

(* Nothing the job brings can hide a variable of the gitlab-runner process: *)
(* with the prefix its name is another.                                     *)
LEMMA HostNamesPass ==
  ASSUME RunnerTypeOK, toml = renderConfig(answers), NEW n \in HostNames
  PROVE  Get(Environ, n) = Get(process, n)
<1>1. \A v \in JobNames : Prefix(v) # n
  BY PrefixAssumption, Zenon
<1>2. DOMAIN Prefixed(Brought) = {Prefix(v) : v \in DOMAIN Brought}
  BY Zenon DEF Prefixed
<1>3. n \notin DOMAIN Prefixed(Brought)
  BY <1>1, <1>2, BroughtNames
<1>4. Environ = Over(Prefixed(Brought), process)
  BY DEF Environ, Brought
<1>5. /\ n \in DOMAIN Environ <=> n \in DOMAIN process
      /\ n \in DOMAIN process => Environ[n] = process[n]
  BY <1>3, <1>4, Zenon DEF Over
<1> QED
  BY <1>5, Zenon DEF Get

(* Nothing config.toml sets does.                                           *)
LEMMA TomlNamesDoNot ==
  ASSUME RunnerTypeOK, toml = renderConfig(answers),
         NEW n \in HostNames \cup SharedNames
  PROVE  Get(Environ, n) = Get(Told, n)
<1>1. \A v \in TomlNames : Prefix(v) # n
  BY PrefixAssumption, Zenon
<1>2. /\ DOMAIN Prefixed(Brought) = {Prefix(v) : v \in DOMAIN Brought}
      /\ DOMAIN Prefixed(job) = {Prefix(v) : v \in DOMAIN job}
  BY Zenon DEF Prefixed
<1>3. n \in DOMAIN Prefixed(Brought) <=> n \in DOMAIN Prefixed(job)
  BY <1>1, <1>2, BroughtNames, Zenon
<1>4. ASSUME n \in DOMAIN Prefixed(job)
      PROVE  Prefixed(Brought)[n] = Prefixed(job)[n]
  <2>1. PICK v \in DOMAIN job : Prefix(v) = n
    BY <1>2, <1>4, Zenon
  <2>2. v \in DOMAIN Brought /\ DOMAIN job \subseteq DOMAIN Brought
    BY BroughtNames, Zenon
  <2>3. \A w \in DOMAIN Brought : Prefix(w) = n => w = v
    BY <2>1, <2>2, BroughtNames, PrefixAssumption, Zenon
  <2>4. /\ (CHOOSE w \in DOMAIN Brought : Prefix(w) = n) = v
        /\ (CHOOSE w \in DOMAIN job : Prefix(w) = n) = v
    BY <2>1, <2>2, <2>3, Zenon
  <2>5. Brought[v] = job[v]
    BY Zenon DEF Brought, Over
  <2>6. /\ Prefixed(Brought)[n] = Brought[CHOOSE w \in DOMAIN Brought : Prefix(w) = n]
        /\ Prefixed(job)[n] = job[CHOOSE w \in DOMAIN job : Prefix(w) = n]
    BY <1>2, <1>3, <1>4, Zenon DEF Prefixed
  <2> QED
    BY <2>4, <2>5, <2>6, Zenon
<1>5. Environ = Over(Prefixed(Brought), process)
  BY DEF Environ, Brought
<1>6. /\ n \in DOMAIN Environ <=> n \in DOMAIN Told
      /\ n \in DOMAIN Environ => Environ[n] = Told[n]
  BY <1>3, <1>4, <1>5, Zenon DEF Told, Over
<1> QED
  BY <1>6, Zenon DEF Get

----------------------------------------------------------------------------
(* The inductive invariant: config.toml is a rendering of the latest         *)
(* answers, no job begins before there is one, and what a stage was decided *)
(* by is still what its environment says.                                   *)

Rendered ==
  /\ toml # NoToml => answers \in Answers /\ toml = renderConfig(answers)
  /\ stage # "none" => toml # NoToml

Loaded ==
  /\ stage = "failed" => Rejected(Environ)
  /\ stage = "prepared" => ~Rejected(Environ) /\ cfg = loadFrom(Environ)

SetupInv == RunnerTypeOK /\ Rendered /\ Loaded

LEMMA SetupInit == Init => SetupInv
BY Setups
DEF Init, RunnerInit, SetupInv, RunnerTypeOK, Rendered, Loaded, NoToml, Nothing

LEMMA SetupNext == SetupInv /\ [Next]_vars => SetupInv'
<1> SUFFICES ASSUME SetupInv, [Next]_vars PROVE SetupInv'
  OBVIOUS
<1>1. CASE UNCHANGED runnerVars
  <2>1. Environ' = Environ
    BY <1>1 DEF runnerVars, Environ
  <2> QED
    BY <1>1, <2>1 DEF runnerVars, SetupInv, RunnerTypeOK, Rendered, Loaded
<1>2. CASE RunnerStep
  <2>1. RunnerTypeOK'
    BY <1>2, RunnerTypes DEF SetupInv
  <2>2. ASSUME NEW a \in Answers, Setup(a) PROVE Rendered' /\ Loaded'
    BY <2>2 DEF Setup, Rendered, Loaded
  <2>3. ASSUME NEW v \in Exports, Export(v) PROVE Rendered' /\ Loaded'
    BY <2>3 DEF Export, SetupInv, Rendered, Loaded
  <2>4. ASSUME NEW v \in JobVars, TakeJob(v) PROVE Rendered' /\ Loaded'
    BY <2>4 DEF TakeJob, SetupInv, Rendered, Loaded
  <2>5. ASSUME ConfigStage PROVE Rendered' /\ Loaded'
    <3>1. Environ' = Environ
      BY <2>5 DEF ConfigStage, Environ
    <3>2. CASE Rejected(Environ)
      BY <2>5, <3>1, <3>2 DEF ConfigStage, SetupInv, Rendered, Loaded
    <3>3. CASE ~Rejected(Environ)
      BY <2>5, <3>3 DEF ConfigStage, SetupInv, Rendered, Loaded
    <3> QED
      BY <3>2, <3>3
  <2> QED
    BY <1>2, <2>1, <2>2, <2>3, <2>4, <2>5 DEF RunnerStep, SetupInv
<1>3. CASE LoadForPrepare
  <2>1. Environ' = Environ
    BY <1>3 DEF LoadForPrepare, Environ
  <2>2. Rendered'
    BY <1>3 DEF LoadForPrepare, SetupInv, Rendered
  <2>3. CASE Rejected(Environ)
    BY <1>3, <2>1, <2>2, <2>3
    DEF LoadForPrepare, SetupInv, RunnerTypeOK, Loaded
  <2>4. CASE ~Rejected(Environ)
    <3>1. cfg' # Nothing
      BY <1>3, <2>4, LoadedNumbers DEF LoadForPrepare
    <3> QED
      BY <1>3, <2>1, <2>2, <2>4, <3>1
      DEF LoadForPrepare, SetupInv, RunnerTypeOK, Loaded
  <2> QED
    BY <2>3, <2>4
<1>4. UNCHANGED runnerVars \/ RunnerStep \/ LoadForPrepare
  BY DEF Next, vars, Around, StartPrepare, Reap, Launch, WaitRunning, MintToken,
         WaitHealthy, Poll, CutOff, Run, Finish, Goto
<1> QED
  BY <1>1, <1>2, <1>3, <1>4

LEMMA SetupInvariant == Spec => []SetupInv
BY SetupInit, SetupNext, PTL DEF Spec

----------------------------------------------------------------------------
(* "A job may override a small, safe subset" (config.go:8), whatever        *)
(* variables it brings and whatever the operator has exported: roles,       *)
(* limits, network and paths are the gitlab-runner process's.               *)
THEOREM JobOverridesAreFew == Spec => []OverridesAreFew
<1>1. SetupInv => OverridesAreFew
  <2> SUFFICES ASSUME SetupInv, stage = "prepared"
               PROVE  \A f \in DOMAIN cfg \ {"image", "agentPort", "tokenTTL"} :
                        cfg[f] = loadFrom(process)[f]
    BY DEF OverridesAreFew
  <2>1. RunnerTypeOK /\ toml = renderConfig(answers) /\ cfg = loadFrom(Environ)
    BY DEF SetupInv, Rendered, Loaded
  <2>2. \A n \in HostNames : Get(Environ, n) = Get(process, n)
    BY <2>1, HostNamesPass
  <2>3. \A f \in DOMAIN loadFrom(Environ) \ {"image", "agentPort", "tokenTTL"} :
          loadFrom(Environ)[f] = loadFrom(process)[f]
    BY <2>2, HostNamesDecide
  <2> QED
    BY <2>1, <2>3
<1> QED
  BY <1>1, SetupInvariant, PTL

(* What the wizard writes under `environment` reaches no field of the        *)
(* driver's configuration, in any deployment: a stage is rejected, or runs,  *)
(* by what the gitlab-runner process and the job's own variables say         *)
(* (render.go:32-37, config.go:5-9, 58-88).                                 *)
THEOREM TomlIsUnheard == Spec => []OnlyHostAndJobConfigure
<1>1. SetupInv => OnlyHostAndJobConfigure
  <2> SUFFICES ASSUME SetupInv, stage \in {"prepared", "failed"}
               PROVE  /\ loadFrom(Environ) = loadFrom(Told)
                      /\ Rejected(Environ) = Rejected(Told)
    BY Zenon DEF SetupInv, Loaded, OnlyHostAndJobConfigure
  <2>1. RunnerTypeOK /\ toml = renderConfig(answers)
    BY DEF SetupInv, Rendered
  <2>2. \A n \in HostNames \cup SharedNames : Get(Environ, n) = Get(Told, n)
    BY <2>1, TomlNamesDoNot
  <2> QED
    BY <2>2, NamesDecide
<1> QED
  BY <1>1, SetupInvariant, PTL

=============================================================================
