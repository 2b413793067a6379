-------------------------- MODULE StageTiming_proofs ------------------------
(***************************************************************************)
(* For all configurations, durations of calls, budgets and timeouts: what     *)
(* the configured lifetimes cover, and how much time is enough for prepare. *)
(***************************************************************************)
EXTENDS StageTiming, TLAPS

----------------------------------------------------------------------------
(* The configuration.                                                       *)

LEMMA Setups == MaxSetups \in Nat /\ Nothing \notin Answers
BY SetupAssumption, Zenon

LEMMA NumberIsInt ==
  ASSUME NEW e, NEW name, NEW def \in Int
  PROVE  Number(e, name, def) \in Int
BY ConfigAssumption DEF Number, atoiDefault

LEMMA UnsetIsDefault ==
  ASSUME NEW e, NEW name, NEW def, Get(e, name) = ""
  PROVE  Number(e, name, def) = def
<1>1. ~(Get(e, name) # "" /\ TrimSpace(Get(e, name)) \in DOMAIN Atoi)
  BY Zenon
<1>2. QED
  BY <1>1, Zenon DEF Number, atoiDefault

Secs(e) == Number(e, "CUSTOM_ENV_CI_JOB_TIMEOUT", 0)

LEMMA TokenOutlivesTimeout ==
  ASSUME NEW e
  PROVE  /\ tokenTTL(e) \in Int
         /\ Secs(e) \in Int
         /\ Secs(e) > 0 => 60 * tokenTTL(e) > Secs(e)
         /\ Secs(e) <= 0 => tokenTTL(e) = 70
<1>1. Secs(e) \in Int
  BY NumberIsInt DEF Secs
<1>2. tokenTTL(e) = IF Secs(e) > 0 THEN Secs(e) \div 60 + 10 ELSE 70
  BY DEF tokenTTL, Secs, Number
<1>3. QED
  BY <1>1, <1>2

LEMMA LoadedNumbers ==
  ASSUME NEW e
  PROVE  LET c == loadFrom(e) IN
         /\ {c.maxDuration, c.runTimeout, c.healthTimeout, c.tokenTTL} \subseteq Int
         /\ NoTtlSet(e) => c.tokenTTL = tokenTTL(e)
         /\ c # Nothing
<1>1. /\ loadFrom(e).maxDuration = Number(e, "MICROVM_MAX_DURATION_SECONDS", 14400)
      /\ loadFrom(e).runTimeout = Number(e, "MICROVM_RUN_TIMEOUT_SECONDS", 180)
      /\ loadFrom(e).healthTimeout = Number(e, "MICROVM_HEALTH_TIMEOUT_SECONDS", 120)
      /\ loadFrom(e).tokenTTL = Number(e, "MICROVM_TOKEN_TTL_MINUTES", tokenTTL(e))
      /\ "region" \in DOMAIN loadFrom(e)
  BY DEF loadFrom
<1>2. tokenTTL(e) \in Int
  BY TokenOutlivesTimeout
<1>3. {loadFrom(e).maxDuration, loadFrom(e).runTimeout,
       loadFrom(e).healthTimeout, loadFrom(e).tokenTTL} \subseteq Int
  BY <1>1, <1>2, NumberIsInt
<1>4. NoTtlSet(e) => loadFrom(e).tokenTTL = tokenTTL(e)
  <2>1. NoTtlSet(e) => Number(e, "MICROVM_TOKEN_TTL_MINUTES", tokenTTL(e)) = tokenTTL(e)
    BY UnsetIsDefault DEF NoTtlSet
  <2>2. QED
    BY <2>1, <1>1
<1>5. loadFrom(e) # Nothing
  BY <1>1 DEF Nothing
<1>6. QED
  BY <1>3, <1>4, <1>5

----------------------------------------------------------------------------
(* The inductive invariant.                                                 *)

Launched == pc \in {"waitRunning", "mint", "waitHealthy", "ready"}

Configured == pc # "idle" => cfg = loadFrom(Environ)

Lifetimes ==
  /\ Launched => vmEnds >= Lifetime
  /\ pc \in {"waitHealthy", "ready"} => tokenEnds >= 60 * cfg.tokenTTL

Began == cutAt - PrepareBudget

RunWait    == AtLeastZero(cfg.runTimeout)
HealthWait == AtLeastZero(cfg.healthTimeout)

(* How far prepare can be at each of its steps.                             *)
OnTime ==
  /\ pc = "reap" => now <= Began
  /\ pc = "launch" => now <= Began + MaxCall
  /\ pc = "waitRunning" =>
       /\ deadline <= Began + 2 * MaxCall + RunWait
       /\ now <= Began + 2 * MaxCall + RunWait + PollInterval
  /\ pc = "mint" => now <= Began + 3 * MaxCall + RunWait + PollInterval
  /\ pc = "waitHealthy" =>
       /\ deadline <= Began + 4 * MaxCall + RunWait + PollInterval + HealthWait
       /\ now <= Began + 4 * MaxCall + RunWait + HealthWait + 2 * PollInterval

Inv == TypeOK /\ Configured /\ Lifetimes /\ OnTime /\ EnoughIsEnough

LEMMA InvInit == Init => Inv
BY Setups, TimingAssumption
DEF Init, RunnerInit, Inv, TypeOK, RunnerTypeOK, NoToml, Nothing, Configured, Lifetimes, Lifetime, Launched, OnTime, EnoughIsEnough,
    Waits, PreparePcs, NoVm

(* What every step of prepare may use.                                      *)
LEMMA Facts ==
  ASSUME Inv
  PROVE  /\ {MaxCall, MaxPing, PollInterval, PrepareBudget, now, cutAt, Began,
             ServiceDuration} \subseteq Int
         /\ now >= 0 /\ cutAt >= 0 /\ {deadline, vmEnds, tokenEnds} \subseteq Int
         /\ MaxCall >= 0 /\ MaxPing >= 0 /\ PollInterval >= 0
         /\ \A d \in CallTimes : d \in Int /\ 0 <= d /\ d <= MaxCall
         /\ \A d \in PingTimes : d \in Int /\ 0 <= d /\ d <= MaxPing
         /\ \A d \in ScriptTimes : d \in Nat
         /\ pc # "idle" =>
              /\ {cfg.maxDuration, cfg.runTimeout, cfg.healthTimeout, cfg.tokenTTL}
                   \subseteq Int
              /\ {RunWait, HealthWait} \subseteq Int
              /\ RunWait >= 0 /\ HealthWait >= 0
              /\ cfg.runTimeout <= RunWait /\ cfg.healthTimeout <= HealthWait
<1>1. /\ \A d \in CallTimes : d \in Int /\ 0 <= d /\ d <= MaxCall
      /\ \A d \in PingTimes : d \in Int /\ 0 <= d /\ d <= MaxPing
      /\ \A d \in ScriptTimes : d \in Nat
  BY TimingAssumption
<1>2. /\ {MaxCall, MaxPing, PollInterval, PrepareBudget, ServiceDuration} \subseteq Int
      /\ MaxCall >= 0 /\ MaxPing >= 0 /\ PollInterval >= 0
  BY TimingAssumption
<1>3. /\ {now, cutAt, Began} \subseteq Int /\ now >= 0 /\ cutAt >= 0
      /\ {deadline, vmEnds, tokenEnds} \subseteq Int
  BY <1>2 DEF Inv, TypeOK, Began
<1>4. pc # "idle" =>
        /\ {cfg.maxDuration, cfg.runTimeout, cfg.healthTimeout, cfg.tokenTTL}
             \subseteq Int
        /\ {RunWait, HealthWait} \subseteq Int
        /\ RunWait >= 0 /\ HealthWait >= 0
        /\ cfg.runTimeout <= RunWait /\ cfg.healthTimeout <= HealthWait
  BY DEF Inv, TypeOK, RunWait, HealthWait, AtLeastZero
<1>5. QED
  BY <1>1, <1>2, <1>3, <1>4

(* Steps of prepare and run leave the configuration alone.                  *)
LEMMA Frame ==
  ASSUME Inv, UNCHANGED runnerVars
  PROVE  /\ RunnerTypeOK' /\ Environ' = Environ
         /\ cfg' = cfg /\ stage' = stage
BY DEF Inv, TypeOK, RunnerTypeOK, runnerVars, Environ

LEMMA RenderedIsSomething ==
  ASSUME NEW a PROVE renderConfig(a) # NoToml
<1>1. "concurrent" \in DOMAIN renderConfig(a)
  BY DEF renderConfig
<1>2. QED
  BY <1>1 DEF NoToml

(* What happens around them keeps its types.                                *)
LEMMA RunnerTypes ==
  ASSUME RunnerTypeOK, RunnerStep
  PROVE  RunnerTypeOK'
<1> USE Setups DEF RunnerTypeOK
<1>1. ASSUME NEW a \in Answers, Setup(a) PROVE RunnerTypeOK'
  <2>1. toml' # NoToml /\ answers' # Nothing
    BY <1>1, RenderedIsSomething DEF Setup
  <2>2. QED
    BY <1>1, <2>1 DEF Setup
<1>2. ASSUME NEW v \in Exports, Export(v) PROVE RunnerTypeOK'
  BY <1>2 DEF Export
<1>3. ASSUME NEW v \in JobVars, TakeJob(v) PROVE RunnerTypeOK'
  BY <1>3 DEF TakeJob
<1>4. ASSUME ConfigStage PROVE RunnerTypeOK'
  <2>1. CASE Rejected(Environ)
    BY <1>4, <2>1 DEF ConfigStage
  <2>2. CASE ~Rejected(Environ)
    <3>1. "buildsDir" \in DOMAIN reported'
      BY <1>4, <2>2 DEF ConfigStage
    <3>2. reported' # Nothing
      BY <3>1 DEF Nothing
    <3>3. QED
      BY <1>4, <2>2, <3>2 DEF ConfigStage
  <2>3. QED
    BY <2>1, <2>2
<1>5. QED
  BY <1>1, <1>2, <1>3, <1>4 DEF RunnerStep

LEMMA InvNext == Inv /\ [Next]_vars => Inv'
<1> SUFFICES ASSUME Inv, [Next]_vars PROVE Inv'
  OBVIOUS
<1> USE Facts DEF Waits, PreparePcs
<1>1. CASE UNCHANGED vars
  BY <1>1, Frame DEF vars, clock, Inv, TypeOK, Configured, Lifetimes, Lifetime, Launched, OnTime, Began,
              RunWait, HealthWait, EnoughIsEnough, PrepareNeeds
<1>2. CASE Around
  <2>1. /\ RunnerTypeOK' /\ pc' = "idle" /\ now' = 0 /\ cutAt' = 0
        /\ deadline' = 0 /\ vmEnds' = NoVm /\ tokenEnds' = 0
    BY <1>2, RunnerTypes DEF Around, Inv, TypeOK
  <2>2. QED
    BY <2>1 DEF Inv, TypeOK, Configured, Lifetimes, Lifetime, Launched, OnTime, EnoughIsEnough,
                NoVm
<1>12. CASE StartPrepare
  <2>1. /\ pc = "idle" /\ stage = "prepare"
        /\ UNCHANGED <<setups, answers, toml, process, job, reported,
                       deadline, vmEnds, tokenEnds>>
    BY <1>12 DEF StartPrepare, LoadForPrepare
  <2>2. Environ' = Environ
    BY <2>1 DEF Environ
  <2>3. CASE Rejected(Environ)
    <3>1. stage' = "failed" /\ UNCHANGED <<cfg, pc, now, cutAt>>
      BY <1>12, <2>3 DEF StartPrepare, LoadForPrepare
    <3>2. QED
      BY <2>1, <3>1 DEF Inv, TypeOK, RunnerTypeOK, Configured, Lifetimes, Lifetime, Launched,
                        OnTime, EnoughIsEnough
  <2>4. CASE ~Rejected(Environ)
    <3>1. /\ stage' = "prepared" /\ cfg' = loadFrom(Environ) /\ pc' = "reap"
          /\ now' \in Starts /\ cutAt' = now' + PrepareBudget
      BY <1>12, <2>4 DEF StartPrepare, LoadForPrepare
    <3>2. /\ cfg' # Nothing
          /\ {cfg'.maxDuration, cfg'.runTimeout, cfg'.healthTimeout, cfg'.tokenTTL}
               \subseteq Int
      BY <3>1, LoadedNumbers
    <3>3. RunnerTypeOK'
      BY <2>1, <3>1, <3>2 DEF Inv, TypeOK, RunnerTypeOK
    <3>4. {cutAt', now'} \subseteq Nat /\ now' <= cutAt' /\ now' = Began'
      BY <3>1, TimingAssumption DEF Began
    <3>5. TypeOK' /\ Configured'
      BY <2>1, <2>2, <3>1, <3>2, <3>3, <3>4 DEF Inv, TypeOK, Configured
    <3>6. Lifetimes' /\ OnTime' /\ EnoughIsEnough'
      BY <3>1, <3>4 DEF Lifetimes, Lifetime, Launched, OnTime, EnoughIsEnough
    <3>7. QED
      BY <3>5, <3>6 DEF Inv
  <2>5. QED
    BY <2>3, <2>4
<1>3. CASE Reap
  <2>1. PICK d \in CallTimes \cup {0} : now + d <= cutAt /\ now' = now + d
    BY <1>3 DEF Reap, Spend
  <2>2. /\ pc = "reap" /\ pc' = "launch"
        /\ RunnerTypeOK' /\ Environ' = Environ /\ cfg' = cfg /\ stage' = stage
        /\ UNCHANGED <<cutAt, deadline, vmEnds, tokenEnds>>
    BY <1>3, Frame DEF Reap, Spend, Goto
  <2>3. TypeOK' /\ Configured' /\ Lifetimes' /\ EnoughIsEnough'
    BY <2>1, <2>2 DEF Inv, TypeOK, Configured, Lifetimes, Lifetime, Launched, EnoughIsEnough
  <2>4. OnTime'
    BY <2>1, <2>2 DEF Inv, OnTime, Began
  <2>5. QED
    BY <2>3, <2>4 DEF Inv
<1>4. CASE Launch
  <2>1. PICK d \in CallTimes :
          /\ now + d <= cutAt /\ now' = now + d
          /\ \/ /\ vmEnds' \in {now + Lifetime, now + d + Lifetime}
                /\ deadline' = now + d + cfg.runTimeout
                /\ pc' = "waitRunning"
             \/ pc' = "failed" /\ UNCHANGED <<vmEnds, deadline>>
    BY <1>4 DEF Launch, Spend, Goto
  <2>2. /\ pc = "launch"
        /\ RunnerTypeOK' /\ Environ' = Environ /\ cfg' = cfg /\ stage' = stage
        /\ UNCHANGED <<cutAt, tokenEnds>>
    BY <1>4, Frame DEF Launch, Spend, Goto
  <2>3. Lifetime \in Int /\ Lifetime' = Lifetime
    BY <2>2 DEF Lifetime
  <2>4. TypeOK' /\ Configured' /\ Lifetimes' /\ EnoughIsEnough'
    BY <2>1, <2>2, <2>3 DEF Inv, TypeOK, Configured, Lifetimes, Launched, EnoughIsEnough
  <2>5. OnTime'
    BY <2>1, <2>2 DEF Inv, OnTime, Began, RunWait, HealthWait
  <2>6. QED
    BY <2>4, <2>5 DEF Inv
<1>5. CASE WaitRunning
  <2>1. PICK next \in {"mint", "failed"} : Poll("waitRunning", CallTimes, next)
    BY <1>5 DEF WaitRunning
  <2>2. PICK d \in CallTimes :
          \/ now + d <= cutAt /\ now' = now + d /\ pc' \in {"mint", "failed"}
          \/ /\ now + d <= deadline /\ now + d + PollInterval <= cutAt
             /\ now' = now + (d + PollInterval) /\ pc' = "waitRunning"
    BY <2>1 DEF Poll, Spend, Goto
  <2>3. /\ pc = "waitRunning"
        /\ RunnerTypeOK' /\ Environ' = Environ /\ cfg' = cfg /\ stage' = stage
        /\ UNCHANGED <<cutAt, deadline, vmEnds, tokenEnds>>
    BY <2>1, Frame DEF Poll, Spend, Goto
  <2>4. TypeOK' /\ Configured' /\ Lifetimes' /\ EnoughIsEnough'
    BY <2>2, <2>3 DEF Inv, TypeOK, Configured, Lifetimes, Lifetime, Launched, EnoughIsEnough
  <2>5. OnTime'
    BY <2>2, <2>3 DEF Inv, OnTime, Began, RunWait, HealthWait
  <2>6. QED
    BY <2>4, <2>5 DEF Inv
<1>6. CASE MintToken
  <2>1. PICK d \in CallTimes :
          /\ now + d <= cutAt /\ now' = now + d
          /\ \/ /\ tokenEnds' \in {now + 60 * cfg.tokenTTL, now + d + 60 * cfg.tokenTTL}
                /\ deadline' = now + d + cfg.healthTimeout
                /\ pc' = "waitHealthy"
             \/ pc' = "failed" /\ UNCHANGED <<tokenEnds, deadline>>
    BY <1>6 DEF MintToken, Spend, Goto
  <2>2. /\ pc = "mint"
        /\ RunnerTypeOK' /\ Environ' = Environ /\ cfg' = cfg /\ stage' = stage
        /\ UNCHANGED <<cutAt, vmEnds>>
    BY <1>6, Frame DEF MintToken, Spend, Goto
  <2>3. TypeOK' /\ Configured' /\ Lifetimes' /\ EnoughIsEnough'
    BY <2>1, <2>2 DEF Inv, TypeOK, Configured, Lifetimes, Lifetime, Launched, EnoughIsEnough
  <2>4. OnTime'
    BY <2>1, <2>2 DEF Inv, OnTime, Began, RunWait, HealthWait
  <2>5. QED
    BY <2>3, <2>4 DEF Inv
<1>7. CASE WaitHealthy
  <2>1. PICK d \in PingTimes :
          \/ now + d <= cutAt /\ now' = now + d /\ pc' \in {"ready", "failed"}
          \/ /\ now + d <= deadline /\ now + d + PollInterval <= cutAt
             /\ now' = now + (d + PollInterval) /\ pc' = "waitHealthy"
    BY <1>7 DEF WaitHealthy, Poll, Spend, Goto
  <2>2. /\ pc = "waitHealthy"
        /\ RunnerTypeOK' /\ Environ' = Environ /\ cfg' = cfg /\ stage' = stage
        /\ UNCHANGED <<cutAt, deadline, vmEnds, tokenEnds>>
    BY <1>7, Frame DEF WaitHealthy, Poll, Spend, Goto
  <2>3. TypeOK' /\ Configured' /\ Lifetimes' /\ EnoughIsEnough'
    BY <2>1, <2>2 DEF Inv, TypeOK, Configured, Lifetimes, Lifetime, Launched, EnoughIsEnough
  <2>4. OnTime'
    BY <2>1, <2>2 DEF Inv, OnTime, Began, RunWait, HealthWait
  <2>5. QED
    BY <2>3, <2>4 DEF Inv
<1>8. CASE CutOff
  <2>1. PICK d \in (IF pc = "waitHealthy" THEN PingTimes ELSE CallTimes) :
          now + d + (IF pc \in Waits /\ now + d <= deadline THEN PollInterval ELSE 0)
            > cutAt
    BY <1>8 DEF CutOff
  <2>2. /\ pc \in PreparePcs /\ pc' = "cut" /\ now' = cutAt
        /\ RunnerTypeOK' /\ Environ' = Environ /\ cfg' = cfg /\ stage' = stage
        /\ UNCHANGED <<cutAt, deadline, vmEnds, tokenEnds>>
    BY <1>8, Frame DEF CutOff, Goto
  <2>3. ~PrepareNeeds
    BY <2>1, <2>2 DEF Inv, OnTime, PrepareNeeds, Began, RunWait, HealthWait
  <2>4. EnoughIsEnough' /\ OnTime'
    BY <2>2, <2>3 DEF EnoughIsEnough, PrepareNeeds, OnTime
  <2>5. TypeOK' /\ Configured' /\ Lifetimes'
    BY <2>2 DEF Inv, TypeOK, Configured, Lifetimes, Lifetime, Launched
  <2>6. QED
    BY <2>4, <2>5 DEF Inv
<1>9. CASE Run
  <2>1. now' \in Nat
    BY <1>9, NumberIsInt, TimingAssumption DEF Run, JobEnds, Inv, TypeOK
  <2>2. /\ pc = "ready"
        /\ RunnerTypeOK' /\ Environ' = Environ /\ cfg' = cfg /\ stage' = stage
        /\ UNCHANGED <<pc, cutAt, deadline, vmEnds, tokenEnds>>
    BY <1>9, Frame DEF Run
  <2>3. QED
    BY <2>1, <2>2 DEF Inv, TypeOK, Configured, Lifetimes, Lifetime, Launched, OnTime,
                      EnoughIsEnough
<1>10. CASE Finish
  BY <1>10, Frame DEF Finish, Goto, Inv, TypeOK, Configured, Lifetimes, Lifetime, Launched, OnTime,
               EnoughIsEnough
<1>11. QED
  BY <1>1, <1>2, <1>3, <1>4, <1>5, <1>6, <1>7, <1>8, <1>9, <1>10, <1>12
  DEF Next

LEMMA Invariant == Spec => []Inv
BY InvInit, InvNext, PTL DEF Spec

(* Types, and that the runner lets no step of prepare run on past its        *)
(* timeout.                                                                 *)
THEOREM TimingTypeCorrect == Spec => []TypeOK
<1>1. Inv => TypeOK
  BY DEF Inv
<1> QED
  BY <1>1, Invariant, PTL

(* "a single token covers all run sub-stages" (config.go:90-91), for every  *)
(* timeout of a job and every duration of the calls, where a job without    *)
(* one has at most the hour the 70 minutes are meant for (config.go:96); and *)
(* a VM that is given no maximum lasts as long as the service lets it.      *)
THEOREM TokenCoversJob ==
  ASSUME DefaultTimeout <= 3600 PROVE Spec => []LifetimesCoverTheJob
<1>1. Inv => LifetimesCoverTheJob
  <2> SUFFICES ASSUME Inv, pc = "ready" PROVE TokenCovers /\ VmCovers
    BY DEF LifetimesCoverTheJob
  <2>1. /\ JobEnds = IF Secs(Environ) > 0 THEN Secs(Environ) ELSE DefaultTimeout
        /\ JobEnds \in Int
    BY TokenOutlivesTimeout, TimingAssumption DEF JobEnds, Secs
  <2>2. cfg = loadFrom(Environ)
    BY DEF Inv, Configured
  <2>3. 60 * tokenTTL(Environ) > JobEnds
    BY <2>1, TokenOutlivesTimeout, TimingAssumption
  <2>4. NoTtlSet(Environ) => cfg.tokenTTL = tokenTTL(Environ)
    BY <2>2, LoadedNumbers
  <2>5. tokenEnds >= 60 * cfg.tokenTTL /\ vmEnds >= Lifetime
    BY DEF Inv, Lifetimes, Launched
  <2>6. /\ {now, JobEnds, tokenEnds, vmEnds, Lifetime, cfg.tokenTTL} \subseteq Int
        /\ tokenTTL(Environ) \in Int
    BY <2>1, Facts, TokenOutlivesTimeout DEF Lifetime
  <2>7. QED
    BY <2>3, <2>4, <2>5, <2>6 DEF TokenCovers, VmCovers
<1>2. QED
  BY <1>1, Invariant, PTL

(* A prepare_exec_timeout of the two waits, four calls, a health check and  *)
(* two pauses is enough: the runner never ends such a prepare               *)
(* (main.go:105-166, client.go:86-108).                                     *)
THEOREM PrepareEndsByItself == Spec => []EnoughIsEnough
<1>1. Inv => EnoughIsEnough
  BY DEF Inv
<1> QED
  BY <1>1, Invariant, PTL

=============================================================================
