---------------------------- MODULE DriverConfig ----------------------------
(***************************************************************************)
(* The driver's configuration (internal/config/config.go): a function of    *)
(* the environment of the stage process.  An environment maps the names of  *)
(* the variables that are set to their texts.                               *)
(***************************************************************************)
EXTENDS Integers, Sequences

CONSTANTS
  Atoi,   (* strconv.Atoi: the texts that are numbers, and the numbers      *)
  Padded, (* strings.TrimSpace, for the texts it changes                    *)
  Parts   (* strings.Split at commas, for the texts that hold one           *)

ASSUME ConfigAssumption == \A t \in DOMAIN Atoi : Atoi[t] \in Int

Get(env, name) == IF name \in DOMAIN env THEN env[name] ELSE ""

TrimSpace(s) == IF s \in DOMAIN Padded THEN Padded[s] ELSE s

(* The texts of a list that are not blank, trimmed.                         *)
NonBlank(texts) ==
  SelectSeq([i \in DOMAIN texts |-> TrimSpace(texts[i])], LAMBDA t : t # "")

first(texts) ==
  LET set == {i \in DOMAIN texts : TrimSpace(texts[i]) # ""} IN
  IF set = {} THEN ""
  ELSE TrimSpace(texts[CHOOSE i \in set : \A j \in set : i <= j])

splitList(s) == NonBlank(IF s \in DOMAIN Parts THEN Parts[s] ELSE <<s>>)

atoiDefault(s, def) ==
  IF s # "" /\ TrimSpace(s) \in DOMAIN Atoi THEN Atoi[TrimSpace(s)] ELSE def

Bug_tokenTTL(env) ==
  LET secs == atoiDefault(Get(env, "CUSTOM_ENV_CI_JOB_TIMEOUT"), 0) IN
  IF secs > 0 THEN secs \div 60 ELSE 70

(* Minutes.                                                                 *)
tokenTTL(env) ==
  LET secs == atoiDefault(Get(env, "CUSTOM_ENV_CI_JOB_TIMEOUT"), 0) IN
  IF secs > 0 THEN secs \div 60 + 10 ELSE 70

region(env) ==
  first(<<Get(env, "MICROVM_REGION"), Get(env, "AWS_REGION"),
          Get(env, "AWS_DEFAULT_REGION")>>)

image(env) ==
  first(<<Get(env, "CUSTOM_ENV_MICROVM_IMAGE"), Get(env, "MICROVM_IMAGE_ARN")>>)

(* loadFrom returns an error.                                               *)
Rejected(env) == region(env) = "" \/ image(env) = ""

Setting(env, name, def) == first(<<Get(env, name), def>>)

Bug_Number(env, name, def) ==
  atoiDefault(first(<<Get(env, "CUSTOM_ENV_" \o name), Get(env, name)>>), def)

Number(env, name, def) == atoiDefault(Get(env, name), def)

defaultConnector(env, name) == region(env) \o ":" \o name

(* The record loadFrom returns otherwise.                                   *)
loadFrom(env) ==
  [ region        |-> region(env),
    image         |-> image(env),
    ingress       |-> splitList(Setting(env, "MICROVM_INGRESS_CONNECTORS",
                                        defaultConnector(env, "ALL_INGRESS"))),
    egress        |-> splitList(Setting(env, "MICROVM_EGRESS_CONNECTORS",
                                        defaultConnector(env, "INTERNET_EGRESS"))),
    executionRole |-> Get(env, "MICROVM_EXECUTION_ROLE_ARN"),
    idlePolicy    |-> Setting(env, "MICROVM_IDLE_POLICY", "15 minutes idle"),
    maxDuration   |-> Number(env, "MICROVM_MAX_DURATION_SECONDS", 14400),
    agentPort     |-> atoiDefault(first(<<Get(env, "CUSTOM_ENV_MICROVM_AGENT_PORT"),
                                          Get(env, "MICROVM_AGENT_PORT")>>), 8080),
    buildsDir     |-> Setting(env, "MICROVM_BUILDS_DIR", "/builds"),
    cacheDir      |-> Setting(env, "MICROVM_CACHE_DIR", "/cache"),
    awsCLI        |-> Setting(env, "MICROVM_AWS_CLI", "aws"),
    stateDir      |-> Setting(env, "MICROVM_STATE_DIR", "/tmp/microvm-executor"),
    runTimeout    |-> Number(env, "MICROVM_RUN_TIMEOUT_SECONDS", 180),
    healthTimeout |-> Number(env, "MICROVM_HEALTH_TIMEOUT_SECONDS", 120),
    tokenTTL      |-> Number(env, "MICROVM_TOKEN_TTL_MINUTES", tokenTTL(env)) ]

=============================================================================
