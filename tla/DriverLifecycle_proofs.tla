----------------------- MODULE DriverLifecycle_proofs -----------------------
(***************************************************************************)
(* Proofs about DriverLifecycle, for every set of jobs and VMs, every       *)
(* number of prepare attempts and every choice of configured jobs.          *)
(***************************************************************************)
EXTENDS DriverLifecycle, TLAPS

(* The stage process of a job is at a step of the stage the runner is in.   *)
PcInPhase ==
  \A j \in Jobs :
    /\ phase[j] = "prepare" <=> pc[j] \in PreparePcs
    /\ phase[j] = "run"     <=> pc[j] \in RunPcs
    /\ phase[j] = "cleanup" <=> pc[j] \in CleanupPcs

(* Where a process has a VM in its memory.                                  *)
HoldingPcs ==
  {"reapTerminate", "reapRemove", "save", "undo", "waitRunning", "mint",
   "saveToken", "waitHealthy", "exec", "terminate", "remove"}

HoldsVm == \A j \in Jobs : pc[j] \in HoldingPcs => held[j] \in VMs

TypeInv == TypeOK /\ PcInPhase /\ HoldsVm

USE NoneAssumption, DriverAssumption DEF custody, service, procVars

LEMMA KeyInKeys == \A j \in Jobs : Key(j) \in Keys
  BY DEF Keys

LEMMA TypeInit == Init => TypeInv
  BY DEF Init, TypeInv, TypeOK, PcInPhase, HoldsVm, HoldingPcs, ServiceInit, ServiceTypeOK,
         VmStates, Phases, StateRecord, NoState, PreparePcs, RunPcs, CleanupPcs

LEMMA ServiceTypes ==
  ASSUME TypeInv, NEW v \in VMs, ServiceStep(v)
  PROVE  ServiceTypeOK'
  BY DEF TypeInv, TypeOK, ServiceTypeOK, VmStates, ServiceStep, Boot, Suspend,
         Resume, Expire

(* A process ends, moves on, or moves on with another VM in memory: its own *)
(* variables keep their types.                                              *)
ProcTypeOK ==
  /\ phase \in [Jobs -> Phases]
  /\ attempts \in [Jobs -> 0..MaxPrepares]
  /\ pc \in [Jobs -> PreparePcs \cup RunPcs \cup CleanupPcs \cup {"idle"}]
  /\ held \in [Jobs -> VMs \cup {None}]
  /\ token \in [Jobs -> VMs \cup {None}]
  /\ cancelled \in [Jobs -> BOOLEAN]
  /\ PcInPhase
  /\ HoldsVm

LEMMA EndStageType ==
  ASSUME TypeInv, NEW j \in Jobs,
         NEW next \in Phases \ {"prepare", "run", "cleanup"},
         EndStage(j, next)
  PROVE  ProcTypeOK'
  BY DEF TypeInv, TypeOK, ProcTypeOK, PcInPhase, HoldsVm, HoldingPcs, Phases,
         PreparePcs, RunPcs, CleanupPcs, EndStage

LEMMA GotoType ==
  ASSUME TypeInv, NEW j \in Jobs, NEW l, Goto(j, l),
         \/ pc[j] \in PreparePcs /\ l \in PreparePcs
         \/ pc[j] \in RunPcs /\ l \in RunPcs
         \/ pc[j] \in CleanupPcs /\ l \in CleanupPcs,
         held' \in [Jobs -> VMs \cup {None}],
         token' \in [Jobs -> VMs \cup {None}],
         \A i \in Jobs \ {j} : held'[i] = held[i],
         l \in HoldingPcs => held'[j] \in VMs
  PROVE  ProcTypeOK'
  BY DEF TypeInv, TypeOK, ProcTypeOK, PcInPhase, HoldsVm, HoldingPcs, Phases,
         PreparePcs, RunPcs, CleanupPcs, Goto

(* The variables a stage process shares with the service and with history.  *)
WorldTypeOK ==
  /\ ServiceTypeOK
  /\ launched \in [Jobs -> VMs \cup {None}]
  /\ file \in [Keys -> StateRecord]
  /\ late \subseteq Jobs
  /\ stray \subseteq VMs
  /\ interrupted \subseteq Jobs

LEMMA TypeSplit == TypeInv <=> ProcTypeOK /\ WorldTypeOK
  BY DEF TypeInv, TypeOK, ProcTypeOK, WorldTypeOK

LEMMA TypeSplitNext == TypeInv' <=> ProcTypeOK' /\ WorldTypeOK'
  BY DEF TypeInv, TypeOK, ProcTypeOK, WorldTypeOK

LEMMA StateOfType ==
  ASSUME TypeInv, NEW j \in Jobs
  PROVE  /\ StateOf(j) \in StateRecord
         /\ StateOf(j).vm \in VMs \cup {None}
         /\ StateOf(j).token \in VMs \cup {None}
  BY KeyInKeys DEF TypeInv, TypeOK, StateOf, StateRecord

LEMMA WriteType ==
  ASSUME TypeInv, NEW j \in Jobs, NEW record \in StateRecord,
         Write(j, record)
  PROVE  file' \in [Keys -> StateRecord]
  BY KeyInKeys DEF TypeInv, TypeOK, Write

LEMMA TerminateType ==
  ASSUME TypeInv, NEW j \in Jobs, pc[j] \in HoldingPcs, CallTerminate(j)
  PROVE  ServiceTypeOK' /\ stray' \subseteq VMs
<1>1. held[j] \in VMs
  BY DEF TypeInv, HoldsVm
<1>2. QED
  BY <1>1 DEF TypeInv, TypeOK, ServiceTypeOK, VmStates, CallTerminate, Stopped

LEMMA LeaveBehindType ==
  ASSUME TypeInv, NEW j \in Jobs, LeaveBehind(j)
  PROVE  /\ stray' \subseteq VMs
         /\ late' \subseteq Jobs
         /\ launched' \in [Jobs -> VMs \cup {None}]
  BY DEF TypeInv, TypeOK, HoldsVm, HoldingPcs, LeaveBehind, Unsaved

LEMMA TypePrepare ==
  ASSUME TypeInv, NEW j \in Jobs, PrepareStep(j)
  PROVE  TypeInv'
<1> USE TypeSplitNext, StateOfType
<1> USE DEF PreparePcs, HoldingPcs, Advance
<1>w. WorldTypeOK
  BY TypeSplit
<1>h. /\ held \in [Jobs -> VMs \cup {None}]
      /\ token \in [Jobs -> VMs \cup {None}]
      /\ pc[j] \in HoldingPcs => held[j] \in VMs
  BY DEF TypeInv, TypeOK, HoldsVm
<1>r. NoState \in StateRecord
  BY DEF NoState, StateRecord
<1>f. "prepareFailed" \in Phases \ {"prepare", "run", "cleanup"}
  BY DEF Phases
<1>1. CASE ReapLoad(j)
  BY <1>1, <1>w, <1>h, GotoType DEF ReapLoad, WorldTypeOK, ServiceTypeOK
<1>2. CASE ReapTerminate(j)
  BY <1>2, <1>w, <1>h, GotoType, TerminateType DEF ReapTerminate, WorldTypeOK
<1>3. CASE ReapRemove(j)
  BY <1>3, <1>w, <1>h, <1>r, GotoType, WriteType
  DEF ReapRemove, WorldTypeOK, ServiceTypeOK
<1>4. CASE Launch(j)
  BY <1>4, <1>w, <1>h, GotoType DEF Launch, WorldTypeOK, ServiceTypeOK
<1>5. CASE LaunchRefused(j)
  BY <1>5, <1>w, <1>f, EndStageType DEF LaunchRefused, WorldTypeOK, ServiceTypeOK
<1>6. CASE ResendLaunch(j)
  BY <1>6, <1>w, TypeSplit
  DEF ResendLaunch, WorldTypeOK, ServiceTypeOK, ProcTypeOK, PcInPhase, HoldsVm
<1>7. CASE LaunchReply(j)
  BY <1>7, <1>w, <1>h, GotoType DEF LaunchReply, WorldTypeOK, ServiceTypeOK
<1>8. CASE LaunchReplyLost(j)
  BY <1>8, <1>w, <1>f, EndStageType, LeaveBehindType
  DEF LaunchReplyLost, WorldTypeOK, ServiceTypeOK
<1>9. CASE Save(j)
  BY <1>9, <1>w, <1>h, GotoType, WriteType
  DEF Save, WorldTypeOK, ServiceTypeOK, StateRecord
<1>10. CASE Undo(j)
  BY <1>10, <1>w, <1>f, EndStageType, TerminateType DEF Undo, WorldTypeOK
<1>11. CASE PollRunning(j)
  BY <1>11, <1>w, <1>h, <1>f, GotoType, EndStageType
  DEF PollRunning, WorldTypeOK, ServiceTypeOK
<1>12. CASE MintToken(j)
  BY <1>12, <1>w, <1>h, <1>f, GotoType, EndStageType
  DEF MintToken, WorldTypeOK, ServiceTypeOK
<1>13. CASE SaveToken(j)
  BY <1>13, <1>w, <1>h, <1>f, GotoType, EndStageType, WriteType
  DEF SaveToken, WorldTypeOK, ServiceTypeOK, StateRecord
<1>14. CASE PollHealthy(j)
  BY <1>14, <1>w, <1>f, EndStageType
  DEF PollHealthy, WorldTypeOK, ServiceTypeOK, Phases
<1>15. QED
  BY <1>1, <1>2, <1>3, <1>4, <1>5, <1>6, <1>7, <1>8, <1>9, <1>10, <1>11,
     <1>12, <1>13, <1>14 DEF PrepareStep

LEMMA TypeRunCleanup ==
  ASSUME TypeInv, NEW j \in Jobs, RunStep(j) \/ CleanupStep(j)
  PROVE  TypeInv'
<1> USE TypeSplitNext, StateOfType
<1> USE DEF RunPcs, CleanupPcs, HoldingPcs, Advance
<1>w. WorldTypeOK
  BY TypeSplit
<1>h. /\ held \in [Jobs -> VMs \cup {None}]
      /\ token \in [Jobs -> VMs \cup {None}]
      /\ pc[j] \in HoldingPcs => held[j] \in VMs
  BY DEF TypeInv, TypeOK, HoldsVm
<1>r. NoState \in StateRecord
  BY DEF NoState, StateRecord
<1>f. {"ready", "done"} \subseteq Phases \ {"prepare", "run", "cleanup"}
  BY DEF Phases
<1>1. CASE RunLoad(j)
  BY <1>1, <1>w, <1>h, <1>f, GotoType, EndStageType
  DEF RunLoad, WorldTypeOK, ServiceTypeOK
<1>2. CASE RunEnd(j)
  BY <1>2, <1>w, <1>f, EndStageType DEF RunEnd, WorldTypeOK, ServiceTypeOK
<1>3. CASE CleanupLoad(j)
  BY <1>3, <1>w, <1>h, <1>f, GotoType, EndStageType
  DEF CleanupLoad, WorldTypeOK, ServiceTypeOK
<1>4. CASE CleanupTerminate(j)
  BY <1>4, <1>w, <1>h, GotoType, TerminateType
  DEF CleanupTerminate, WorldTypeOK
<1>5. CASE CleanupRemove(j)
  BY <1>5, <1>w, <1>r, <1>f, EndStageType, WriteType
  DEF CleanupRemove, WorldTypeOK, ServiceTypeOK
<1>6. QED
  BY <1>1, <1>2, <1>3, <1>4, <1>5 DEF RunStep, CleanupStep

LEMMA TypeRunner ==
  ASSUME TypeInv, NEW j \in Jobs, RunnerStep(j)
  PROVE  TypeInv'
<1> USE TypeSplitNext
<1> USE DEF PreparePcs, RunPcs, CleanupPcs, HoldingPcs, Phases
<1>w. WorldTypeOK
  BY TypeSplit
<1>p. ProcTypeOK
  BY TypeSplit
<1>1. CASE StartPrepare(j) \/ StartRun(j) \/ StartCleanup(j)
  BY <1>1, <1>w, <1>p
  DEF StartPrepare, StartRun, StartCleanup, StartStage, ProcTypeOK, PcInPhase,
      HoldsVm, WorldTypeOK, ServiceTypeOK
<1>2. CASE PrepareConfigError(j) \/ CleanupConfigError(j)
  BY <1>2, <1>w, <1>p
  DEF PrepareConfigError, CleanupConfigError, ProcTypeOK, PcInPhase,
      HoldsVm, WorldTypeOK, ServiceTypeOK
<1>3. CASE Signal(j)
  BY <1>3, <1>w, <1>p
  DEF Signal, ProcTypeOK, PcInPhase, HoldsVm, WorldTypeOK, ServiceTypeOK
<1>4. CASE Kill(j)
  <2>1. phase[j] \in {"prepare", "run", "cleanup"}
    BY <1>4, <1>p DEF Kill, ProcTypeOK, PcInPhase
  <2>2. AfterDeath(j) \in {"prepareFailed", "ready", "done"}
    BY <2>1 DEF AfterDeath
  <2>3. ProcTypeOK'
    BY <1>4, <2>2, EndStageType DEF Kill
  <2>4. WorldTypeOK'
    BY <1>4, <1>w, LeaveBehindType DEF Kill, WorldTypeOK, ServiceTypeOK
  <2>5. QED
    BY <2>3, <2>4
<1>5. CASE Crash(j)
  BY <1>5, <1>w, EndStageType, LeaveBehindType
  DEF Crash, WorldTypeOK, ServiceTypeOK
<1>6. QED
  BY <1>1, <1>2, <1>3, <1>4, <1>5 DEF RunnerStep

LEMMA TypeAws ==
  ASSUME TypeInv, NEW v \in VMs, AwsStep(v)
  PROVE  TypeInv'
<1>w. WorldTypeOK
  BY TypeSplit
<1>1. UNCHANGED procVars
  BY DEF AwsStep, ServeLaunch, ServeLate
<1>2. ProcTypeOK'
  BY <1>1, TypeSplit DEF ProcTypeOK, PcInPhase, HoldsVm
<1>3. CASE ServiceStep(v) /\ UNCHANGED <<procVars, custody, file, stray>>
  BY <1>3, <1>2, <1>w, TypeSplitNext, ServiceTypes DEF WorldTypeOK
<1>4. ASSUME NEW j \in Jobs, ServeLaunch(j, v) \/ ServeLate(j, v)
      PROVE  TypeInv'
  BY <1>4, <1>2, <1>w, TypeSplitNext
  DEF ServeLaunch, ServeLate, Create, WorldTypeOK, ServiceTypeOK, VmStates
<1>5. QED
  BY <1>3, <1>4 DEF AwsStep

LEMMA TypeStep == TypeInv /\ [Next]_vars => TypeInv'
<1> SUFFICES ASSUME TypeInv, [Next]_vars PROVE TypeInv'
  OBVIOUS
<1>1. CASE UNCHANGED vars
  BY <1>1 DEF vars, TypeInv, TypeOK, PcInPhase, HoldsVm, ServiceTypeOK
<1>2. ASSUME NEW j \in Jobs, DriverStep(j) \/ RunnerStep(j) PROVE TypeInv'
  BY <1>2, TypePrepare, TypeRunCleanup, TypeRunner DEF DriverStep
<1>3. ASSUME NEW v \in VMs, AwsStep(v) PROVE TypeInv'
  BY <1>3, TypeAws
<1>4. QED
  BY <1>1, <1>2, <1>3 DEF Next

(* Every reachable state is one the types describe, and the process of a    *)
(* job is always at a step of the stage the runner is in.                   *)
THEOREM TypeCorrect == Spec => [](TypeOK /\ PcInPhase)
<1>1. TypeInv => TypeOK /\ PcInPhase
  BY DEF TypeInv
<1>2. QED
  BY TypeInit, TypeStep, <1>1, PTL DEF Spec

----------------------------------------------------------------------------
(* The inductive invariant behind the safety properties.  It needs jobs to  *)
(* have keys of their own, as jobs with distinct ids have.                  *)
DistinctKeys == \A i, j \in Jobs : Key(i) = Key(j) => i = j

(* sanitize leaves a string of safe characters alone.                       *)
LEMMA SanitizeKeeps ==
  ASSUME NEW s \in Seq(Safe), s # <<>>
  PROVE  sanitize(s) = s
<1>1. \A i \in 1..Len(s) : s[i] \in Safe
  OBVIOUS
<1>2. s = [i \in 1..Len(s) |-> s[i]]
  OBVIOUS
<1> QED BY <1>1, <1>2 DEF sanitize

(* The dash of a key shows where its number begins.                         *)
LEMMA DashSplits ==
  ASSUME NEW Digits, "-" \notin Digits,
         NEW p \in Seq(Digits), NEW q \in Seq(Digits),
         NEW i \in Seq(Digits), NEW j \in Seq(Digits),
         p \o <<"-">> \o i = q \o <<"-">> \o j
  PROVE  i = j
<1> DEFINE Pi == p \o <<"-">> \o i
           Qj == q \o <<"-">> \o j
<1>1. /\ Len(Pi) = Len(p) + 1 + Len(i)
      /\ Len(Qj) = Len(q) + 1 + Len(j)
  OBVIOUS
<1>2. Pi[Len(p) + 1] = "-" /\ Qj[Len(q) + 1] = "-"
  OBVIOUS
<1>3. /\ \A n \in 1..Len(p) : Pi[n] \in Digits
      /\ \A n \in 1..Len(q) : Qj[n] \in Digits
  OBVIOUS
<1>4. Len(p) = Len(q)
  <2>1. Len(p) < Len(q) => Len(p) + 1 \in 1..Len(q)
    OBVIOUS
  <2>2. Len(q) < Len(p) => Len(q) + 1 \in 1..Len(p)
    OBVIOUS
  <2>3. Pi = Qj
    OBVIOUS
  <2>4. Len(p) \in Nat /\ Len(q) \in Nat
    OBVIOUS
  <2> HIDE DEF Pi, Qj
  <2>5. ~(Len(p) < Len(q))
    BY <1>2, <1>3, <2>1, <2>3
  <2>6. ~(Len(q) < Len(p))
    BY <1>2, <1>3, <2>2, <2>3
  <2> QED BY <2>4, <2>5, <2>6
<1>5. Len(i) = Len(j)
  BY <1>1, <1>4
<1>6. \A n \in 1..Len(i) : i[n] = Pi[Len(p) + 1 + n] /\ j[n] = Qj[Len(q) + 1 + n]
  BY <1>5
<1>7. \A n \in 1..Len(i) : i[n] = j[n]
  BY <1>4, <1>6
<1>8. /\ i = [n \in 1..Len(i) |-> i[n]]
      /\ j = [n \in 1..Len(j) |-> j[n]]
  OBVIOUS
<1> HIDE DEF Pi, Qj
<1> QED BY <1>5, <1>7, <1>8

(* GitLab's ids are numbers and its job ids are unique: with both passed on, *)
(* every job has a key of its own, whatever the numbers (state.go:24-33).   *)
THEOREM NumbersTellJobsApart ==
  ASSUME NEW Digits, Digits \subseteq Safe, "-" \in Safe, "-" \notin Digits,
         \A j \in Jobs : /\ ProjectOf[j] \in Seq(Digits) /\ ProjectOf[j] # <<>>
                         /\ JobIdOf[j] \in Seq(Digits) /\ JobIdOf[j] # <<>>,
         \A i, j \in Jobs : JobIdOf[i] = JobIdOf[j] => i = j
  PROVE  DistinctKeys
<1>1. \A j \in Jobs : Key(j) = ProjectOf[j] \o <<"-">> \o JobIdOf[j]
  <2> TAKE j \in Jobs
  <2> DEFINE s == ProjectOf[j] \o <<"-">> \o JobIdOf[j]
  <2>1. Key(j) = sanitize(s)
    BY DEF Key, KeyOf, JobKey
  <2>2. ProjectOf[j] \in Seq(Safe) /\ JobIdOf[j] \in Seq(Safe)
    <3>1. ASSUME NEW t \in Seq(Digits) PROVE t \in Seq(Safe)
      <4>1. t = [n \in 1..Len(t) |-> t[n]] /\ Len(t) \in Nat
        OBVIOUS
      <4>2. \A n \in 1..Len(t) : t[n] \in Safe
        OBVIOUS
      <4> QED BY <4>1, <4>2
    <3> QED BY <3>1
  <2>3. s \in Seq(Safe) /\ s # <<>>
    BY <2>2
  <2> HIDE DEF s
  <2>4. sanitize(s) = s
    BY <2>3, SanitizeKeeps
  <2> QED BY <2>1, <2>4 DEF s
<1> SUFFICES ASSUME NEW i \in Jobs, NEW j \in Jobs, Key(i) = Key(j)
             PROVE  i = j
  BY DEF DistinctKeys
<1>2. JobIdOf[i] = JobIdOf[j]
  <2>1. /\ ProjectOf[i] \in Seq(Digits) /\ ProjectOf[j] \in Seq(Digits)
        /\ JobIdOf[i] \in Seq(Digits) /\ JobIdOf[j] \in Seq(Digits)
    OBVIOUS
  <2> QED BY <1>1, <2>1, DashSplits
<1> QED BY <1>2

(* What is on record for a job was launched for it, and so was what its     *)
(* process holds or is about to be told.                                    *)
OwnVms(j) ==
  /\ StateOf(j).vm # None => owner[StateOf(j).vm] = j
  /\ launched[j] # None => pc[j] = "launching" /\ owner[launched[j]] = j
  /\ pc[j] \in HoldingPcs => owner[held[j]] = j

(* From the first Save on, and while it reaps or cleans up, a process holds *)
(* the VM on record.                                                        *)
RecordedPcs == HoldingPcs \ {"save", "undo"}

Recorded(j) == pc[j] \in RecordedPcs => held[j] = StateOf(j).vm

(* The token on record goes with the VM on record from the second Save on.  *)
Authorized(j) ==
  /\ pc[j] = "saveToken" => token[j] = held[j]
  /\ pc[j] = "waitHealthy" \/ phase[j] \in {"ready", "run"}
     => StateOf(j).vm # None /\ StateOf(j).token = StateOf(j).vm
  /\ pc[j] = "exec" => token[j] = held[j]

(* A record prepare may overwrite or cleanup may forget names no VM that    *)
(* runs, unless it is a stray already.                                      *)
SettledPcs == {"launch", "launching", "save", "undo", "reapRemove", "remove"}

Settled(j) ==
  pc[j] \in SettledPcs \/ (phase[j] = "done" /\ j \notin interrupted)
  => \A v \in VMs : v = StateOf(j).vm /\ Live(v) => v \in stray

(* A job whose configuration is refused never gets as far as a record.      *)
Refused(j) ==
  j \notin Configured
  => /\ phase[j] \notin {"prepare", "ready", "run", "cleanup"}
     /\ StateOf(j).vm = None

JobInv(j) ==
  OwnVms(j) /\ Recorded(j) /\ Authorized(j) /\ Settled(j) /\ Refused(j)

VmInv(v) ==
  /\ vm[v] = "unborn" <=> owner[v] = None
  /\ Live(v) => v \in stray \/ InCustody(owner[v], v)

IInv ==
  /\ TypeInv
  /\ \A j \in Jobs : JobInv(j)
  /\ \A v \in VMs : VmInv(v)

LEMMA IInit == Init => IInv
<1> SUFFICES ASSUME Init PROVE IInv
  OBVIOUS
<1>1. TypeInv
  BY TypeInit
<1>2. ASSUME NEW j \in Jobs PROVE JobInv(j)
  BY KeyInKeys
  DEF Init, NoState, JobInv, OwnVms, Recorded, Authorized, Settled, Refused,
      StateOf, HoldingPcs, RecordedPcs, SettledPcs
<1>3. ASSUME NEW v \in VMs PROVE VmInv(v)
  BY DEF Init, ServiceInit, VmInv, Live
<1>4. QED
  BY <1>1, <1>2, <1>3 DEF IInv

(* What a step of job j leaves alone: the other jobs, their records and     *)
(* VMs; strays stay strays and no VM comes back to life.                    *)
Frame(j) ==
  /\ \A i \in Jobs \ {j} :
       /\ phase'[i] = phase[i]
       /\ pc'[i] = pc[i]
       /\ held'[i] = held[i]
       /\ token'[i] = token[i]
       /\ launched'[i] = launched[i]
       /\ file'[Key(i)] = file[Key(i)]
       /\ i \in interrupted' <=> i \in interrupted
  /\ stray \subseteq stray'
  /\ \A v \in VMs :
       /\ owner'[v] = owner[v] \/ (owner[v] = None /\ owner'[v] = j)
       /\ vm'[v] = "unborn" <=> owner'[v] = None
       /\ owner[v] # None /\ Live(v)' => Live(v)

LEMMA OtherJobs ==
  ASSUME IInv, NEW j \in Jobs, Frame(j), NEW i \in Jobs \ {j}
  PROVE  JobInv(i)'
<1> USE DEF Frame, StateOf
<1>t. /\ StateOf(i).vm \in VMs \cup {None}
      /\ launched[i] \in VMs \cup {None}
      /\ pc[i] \in HoldingPcs => held[i] \in VMs
  BY StateOfType DEF IInv, TypeInv, TypeOK, HoldsVm
<1>j. JobInv(i)
  BY DEF IInv
<1>1. OwnVms(i)'
  BY <1>t, <1>j DEF JobInv, OwnVms
<1>2. Recorded(i)' /\ Authorized(i)' /\ Refused(i)'
  BY <1>j DEF JobInv, Recorded, Authorized, Refused
<1>3. Settled(i)'
  BY <1>t, <1>j DEF JobInv, OwnVms, Settled
<1>4. QED
  BY <1>1, <1>2, <1>3 DEF JobInv

LEMMA OtherVms ==
  ASSUME IInv, NEW j \in Jobs, Frame(j), NEW v \in VMs, owner'[v] # j
  PROVE  VmInv(v)'
<1> USE DEF Frame, StateOf
<1>1. owner'[v] = owner[v]
  OBVIOUS
<1>2. CASE owner[v] = None
  BY <1>1, <1>2 DEF VmInv, Live
<1>3. CASE owner[v] # None
  <2>1. owner[v] \in Jobs \ {j}
    BY <1>1, <1>3 DEF IInv, TypeInv, TypeOK, ServiceTypeOK
  <2>2. VmInv(v)
    BY DEF IInv
  <2>3. InCustody(owner[v], v) => InCustody(owner[v], v)'
    BY <1>1, <2>1 DEF InCustody, Unsaved
  <2>4. QED
    BY <1>1, <1>3, <2>2, <2>3 DEF VmInv
<1>4. QED
  BY <1>2, <1>3

(* What a step of job j has to show for the invariant.                      *)
Keeps(j) ==
  /\ Frame(j)
  /\ JobInv(j)'
  /\ \A v \in VMs : owner'[v] = j => VmInv(v)'

LEMMA KeepsIInv ==
  ASSUME IInv, [Next]_vars, NEW j \in Jobs, Keeps(j)
  PROVE  IInv'
<1>1. TypeInv'
  BY TypeStep DEF IInv
<1>2. \A i \in Jobs : JobInv(i)'
  BY OtherJobs DEF Keeps
<1>3. \A v \in VMs : VmInv(v)'
  BY OtherVms DEF Keeps
<1>4. QED
  BY <1>1, <1>2, <1>3 DEF IInv

(* The invariant as a step of job j finds it.                               *)
LEMMA Before ==
  ASSUME IInv, NEW j \in Jobs
  PROVE  /\ JobInv(j)
         /\ \A v \in VMs : VmInv(v)
         /\ StateOf(j).vm \in VMs \cup {None}
         /\ pc[j] \in HoldingPcs => held[j] \in VMs
         /\ phase[j] = "prepare" <=> pc[j] \in PreparePcs
         /\ phase[j] = "run"     <=> pc[j] \in RunPcs
         /\ phase[j] = "cleanup" <=> pc[j] \in CleanupPcs
         /\ pc \in [Jobs -> PreparePcs \cup RunPcs \cup CleanupPcs \cup {"idle"}]
         /\ phase \in [Jobs -> Phases]
         /\ held \in [Jobs -> VMs \cup {None}]
         /\ token \in [Jobs -> VMs \cup {None}]
         /\ launched \in [Jobs -> VMs \cup {None}]
         /\ file \in [Keys -> StateRecord]
         /\ vm \in [VMs -> VmStates]
         /\ owner \in [VMs -> Jobs \cup {None}]
  BY StateOfType DEF IInv, TypeInv, TypeOK, HoldsVm, PcInPhase, ServiceTypeOK

(* A terminate call leaves the VM dead or a stray.                          *)
LEMMA TerminateSettles ==
  ASSUME IInv, NEW j \in Jobs, pc[j] \in HoldingPcs, CallTerminate(j)
  PROVE  /\ stray \subseteq stray'
         /\ owner' = owner
         /\ \A v \in VMs : vm'[v] = "unborn" <=> owner[v] = None
         /\ \A v \in VMs : Live(v)' => Live(v)
         /\ \A v \in VMs : v = held[j] /\ Live(v)' => v \in stray'
<1>1. /\ held[j] \in VMs
      /\ vm \in [VMs -> VmStates]
      /\ \A v \in VMs : vm[v] = "unborn" <=> owner[v] = None
  BY Before DEF VmInv
<1>2. CASE vm' = Stopped(held[j]) /\ UNCHANGED <<owner, stray>>
  BY <1>1, <1>2 DEF Stopped, Live
<1>3. CASE stray' = stray \cup {held[j]} /\ UNCHANGED <<vm, owner>>
  BY <1>1, <1>3 DEF Live
<1>4. QED
  BY <1>2, <1>3 DEF CallTerminate

(* A write reaches the record of its own job and no other.                  *)
LEMMA WriteOwn ==
  ASSUME IInv, DistinctKeys, NEW j \in Jobs, NEW record, Write(j, record)
  PROVE  /\ StateOf(j)' = record
         /\ \A i \in Jobs \ {j} : file'[Key(i)] = file[Key(i)]
  BY Before, KeyInKeys DEF Write, StateOf, DistinctKeys

LEMMA QuietService ==
  ASSUME IInv, UNCHANGED service
  PROVE  /\ \A v \in VMs : vm'[v] = "unborn" <=> owner'[v] = None
         /\ \A v \in VMs : Live(v)' <=> Live(v)
  BY DEF IInv, VmInv, Live

LEMMA ReapKeeps ==
  ASSUME IInv, DistinctKeys, NEW j \in Jobs,
         ReapLoad(j) \/ ReapTerminate(j) \/ ReapRemove(j)
  PROVE  Keeps(j)
<1> USE Before, KeyInKeys DEF Keeps, Frame, StateOf, Advance, Goto, Write
<1>1. CASE ReapLoad(j)
  <2>1. Frame(j)
    BY <1>1, QuietService DEF ReapLoad
  <2>2. JobInv(j)'
    BY <1>1, QuietService DEF ReapLoad, JobInv, OwnVms, Recorded, Authorized,
       Settled, Refused, HoldingPcs, RecordedPcs, SettledPcs
  <2>3. ASSUME NEW v \in VMs, owner'[v] = j PROVE VmInv(v)'
    BY <1>1, <2>3, QuietService DEF ReapLoad, VmInv, InCustody, Unsaved
  <2>4. QED
    BY <2>1, <2>2, <2>3
<1>2. CASE ReapTerminate(j)
  <2>t. pc[j] \in HoldingPcs /\ CallTerminate(j)
    BY <1>2 DEF ReapTerminate, HoldingPcs
  <2>1. Frame(j)
    BY <1>2, <2>t, TerminateSettles DEF ReapTerminate
  <2>2. JobInv(j)'
    BY <1>2, <2>t, TerminateSettles DEF ReapTerminate, JobInv, OwnVms, Recorded,
       Authorized, Settled, Refused, HoldingPcs, RecordedPcs, SettledPcs
  <2>3. ASSUME NEW v \in VMs, owner'[v] = j PROVE VmInv(v)'
    BY <1>2, <2>t, <2>3, TerminateSettles
    DEF ReapTerminate, VmInv, InCustody, Unsaved
  <2>4. QED
    BY <2>1, <2>2, <2>3
<1>3. CASE ReapRemove(j)
  <2>w. /\ StateOf(j)' = NoState \/ StateOf(j)' = StateOf(j)
        /\ \A i \in Jobs \ {j} : file'[Key(i)] = file[Key(i)]
    BY <1>3, WriteOwn DEF ReapRemove
  <2>1. Frame(j)
    BY <1>3, <2>w, QuietService DEF ReapRemove
  <2>p. phase[j] = "prepare"
    BY <1>3 DEF ReapRemove, PreparePcs
  <2>2. JobInv(j)'
    BY <1>3, <2>w, <2>p, QuietService DEF ReapRemove, NoState, JobInv, OwnVms,
       Recorded, Authorized, Settled, Refused, HoldingPcs, RecordedPcs, SettledPcs
  <2>3. ASSUME NEW v \in VMs, owner'[v] = j PROVE VmInv(v)'
    BY <1>3, <2>w, <2>3, QuietService
    DEF ReapRemove, NoState, VmInv, InCustody, Unsaved, JobInv, Recorded, Settled,
        RecordedPcs, HoldingPcs, SettledPcs
  <2>4. QED
    BY <2>1, <2>2, <2>3
<1>4. QED
  BY <1>1, <1>2, <1>3

LEMMA LaunchKeeps ==
  ASSUME IInv, DistinctKeys, NEW j \in Jobs,
         \/ Launch(j) \/ LaunchRefused(j) \/ ResendLaunch(j)
         \/ LaunchReply(j) \/ LaunchReplyLost(j)
  PROVE  Keeps(j)
<1> USE Before, KeyInKeys
    DEF Keeps, Frame, StateOf, Advance, Goto, EndStage
<1>1. CASE Launch(j)
  <2>p. phase[j] = "prepare"
    BY <1>1 DEF Launch, PreparePcs
  <2>1. Frame(j)
    BY <1>1, QuietService DEF Launch
  <2>2. JobInv(j)'
    BY <1>1, <2>p, QuietService
    DEF Launch, JobInv, OwnVms, Recorded, Authorized,
       Settled, Refused, HoldingPcs, RecordedPcs, SettledPcs
  <2>3. ASSUME NEW v \in VMs, owner'[v] = j PROVE VmInv(v)'
    BY <1>1, <2>3, QuietService
    DEF Launch, VmInv, InCustody, Unsaved
  <2>4. QED
    BY <2>1, <2>2, <2>3
<1>2. CASE LaunchRefused(j)
  <2>p. phase[j] = "prepare"
    BY <1>2 DEF LaunchRefused, PreparePcs
  <2>1. Frame(j)
    BY <1>2, QuietService DEF LaunchRefused
  <2>2. JobInv(j)'
    BY <1>2, <2>p, QuietService
    DEF LaunchRefused, JobInv, OwnVms, Recorded, Authorized,
       Settled, Refused, HoldingPcs, RecordedPcs, SettledPcs
  <2>3. ASSUME NEW v \in VMs, owner'[v] = j PROVE VmInv(v)'
    BY <1>2, <2>3, QuietService
    DEF LaunchRefused, JobInv, OwnVms, VmInv, InCustody, Unsaved
  <2>4. QED
    BY <2>1, <2>2, <2>3
<1>3. CASE ResendLaunch(j)
  <2>p. phase[j] = "prepare"
    BY <1>3 DEF ResendLaunch, PreparePcs
  <2>1. Frame(j)
    BY <1>3, QuietService DEF ResendLaunch
  <2>2. JobInv(j)'
    BY <1>3, <2>p, QuietService
    DEF ResendLaunch, JobInv, OwnVms, Recorded, Authorized,
       Settled, Refused, HoldingPcs, RecordedPcs, SettledPcs
  <2>3. ASSUME NEW v \in VMs, owner'[v] = j PROVE VmInv(v)'
    BY <1>3, <2>3, QuietService
    DEF ResendLaunch, VmInv, InCustody, Unsaved
  <2>4. QED
    BY <2>1, <2>2, <2>3
<1>4. CASE LaunchReply(j)
  <2>p. phase[j] = "prepare"
    BY <1>4 DEF LaunchReply, PreparePcs
  <2>1. Frame(j)
    BY <1>4, QuietService DEF LaunchReply
  <2>2. JobInv(j)'
    BY <1>4, <2>p, QuietService
    DEF LaunchReply, JobInv, OwnVms, Recorded, Authorized,
       Settled, Refused, HoldingPcs, RecordedPcs, SettledPcs
  <2>3. ASSUME NEW v \in VMs, owner'[v] = j PROVE VmInv(v)'
    BY <1>4, <2>3, QuietService
    DEF LaunchReply, VmInv, InCustody, Unsaved
  <2>4. QED
    BY <2>1, <2>2, <2>3
<1>5. CASE LaunchReplyLost(j)
  <2>p. phase[j] = "prepare"
    BY <1>5 DEF LaunchReplyLost, PreparePcs
  <2>1. Frame(j)
    BY <1>5, QuietService DEF LaunchReplyLost, LeaveBehind
  <2>2. JobInv(j)'
    BY <1>5, <2>p, QuietService
    DEF LaunchReplyLost, LeaveBehind, JobInv, OwnVms, Recorded, Authorized,
       Settled, Refused, HoldingPcs, RecordedPcs, SettledPcs
  <2>3. ASSUME NEW v \in VMs, owner'[v] = j PROVE VmInv(v)'
    BY <1>5, <2>3, QuietService
    DEF LaunchReplyLost, LeaveBehind, VmInv, InCustody, Unsaved
  <2>4. QED
    BY <2>1, <2>2, <2>3
<1>6. QED
  BY <1>1, <1>2, <1>3, <1>4, <1>5

LEMMA PollKeeps ==
  ASSUME IInv, DistinctKeys, NEW j \in Jobs,
         PollRunning(j) \/ MintToken(j) \/ PollHealthy(j)
  PROVE  Keeps(j)
<1> USE Before, KeyInKeys
    DEF Keeps, Frame, StateOf, Advance, Goto, EndStage
<1>1. CASE PollRunning(j)
  <2>p. phase[j] = "prepare"
    BY <1>1 DEF PollRunning, PreparePcs
  <2>1. Frame(j)
    BY <1>1, QuietService DEF PollRunning
  <2>2. JobInv(j)'
    BY <1>1, <2>p, QuietService
    DEF PollRunning, JobInv, OwnVms, Recorded, Authorized,
       Settled, Refused, HoldingPcs, RecordedPcs, SettledPcs
  <2>3. ASSUME NEW v \in VMs, owner'[v] = j PROVE VmInv(v)'
    BY <1>1, <2>3, <2>p, QuietService
    DEF PollRunning, JobInv, OwnVms, VmInv, InCustody, Unsaved
  <2>4. QED
    BY <2>1, <2>2, <2>3
<1>2. CASE MintToken(j)
  <2>p. phase[j] = "prepare"
    BY <1>2 DEF MintToken, PreparePcs
  <2>1. Frame(j)
    BY <1>2, QuietService DEF MintToken
  <2>2. JobInv(j)'
    BY <1>2, <2>p, QuietService
    DEF MintToken, JobInv, OwnVms, Recorded, Authorized,
       Settled, Refused, HoldingPcs, RecordedPcs, SettledPcs
  <2>3. ASSUME NEW v \in VMs, owner'[v] = j PROVE VmInv(v)'
    BY <1>2, <2>3, <2>p, QuietService
    DEF MintToken, JobInv, OwnVms, VmInv, InCustody, Unsaved
  <2>4. QED
    BY <2>1, <2>2, <2>3
<1>3. CASE PollHealthy(j)
  <2>p. phase[j] = "prepare"
    BY <1>3 DEF PollHealthy, PreparePcs
  <2>1. Frame(j)
    BY <1>3, QuietService DEF PollHealthy
  <2>2. JobInv(j)'
    BY <1>3, <2>p, QuietService
    DEF PollHealthy, JobInv, OwnVms, Recorded, Authorized,
       Settled, Refused, HoldingPcs, RecordedPcs, SettledPcs
  <2>3. ASSUME NEW v \in VMs, owner'[v] = j PROVE VmInv(v)'
    BY <1>3, <2>3, <2>p, QuietService
    DEF PollHealthy, JobInv, OwnVms, VmInv, InCustody, Unsaved
  <2>4. QED
    BY <2>1, <2>2, <2>3
<1>4. QED
  BY <1>1, <1>2, <1>3

LEMMA SaveKeeps ==
  ASSUME IInv, DistinctKeys, NEW j \in Jobs,
         Save(j) \/ Undo(j) \/ SaveToken(j)
  PROVE  Keeps(j)
<1> USE Before, KeyInKeys DEF Keeps, Frame, Advance, Goto, EndStage
<1>1. CASE Save(j)
  <2>p. phase[j] = "prepare"
    BY <1>1 DEF Save, PreparePcs
  <2>w. /\ StateOf(j)' = StateOf(j) \/ StateOf(j)' = [vm |-> held[j], token |-> None]
        /\ \A i \in Jobs \ {j} : file'[Key(i)] = file[Key(i)]
    BY <1>1, WriteOwn DEF Save, StateOf
  <2>1. Frame(j)
    BY <1>1, <2>w, QuietService DEF Save
  <2>2. JobInv(j)'
    BY <1>1, <2>p, <2>w, WriteOwn, QuietService
    DEF Save, StateOf, JobInv, OwnVms, Recorded, Authorized,
       Settled, Refused, HoldingPcs, RecordedPcs, SettledPcs
  <2>3. ASSUME NEW v \in VMs, owner'[v] = j PROVE VmInv(v)'
    BY <1>1, <2>3, <2>w, WriteOwn, QuietService
    DEF Save, JobInv, Settled, SettledPcs, StateOf, VmInv, InCustody, Unsaved
  <2>4. QED
    BY <2>1, <2>2, <2>3
<1>2. CASE Undo(j)
  <2>p. phase[j] = "prepare"
    BY <1>2 DEF Undo, PreparePcs
  <2>t. pc[j] \in HoldingPcs /\ CallTerminate(j)
    BY <1>2 DEF Undo, HoldingPcs
  <2>1. Frame(j)
    BY <1>2, <2>t, TerminateSettles DEF Undo
  <2>2. JobInv(j)'
    BY <1>2, <2>p, <2>t, TerminateSettles
    DEF Undo, StateOf, JobInv, OwnVms, Recorded, Authorized,
       Settled, Refused, HoldingPcs, RecordedPcs, SettledPcs
  <2>3. ASSUME NEW v \in VMs, owner'[v] = j PROVE VmInv(v)'
    BY <1>2, <2>3, <2>t, TerminateSettles
    DEF Undo, StateOf, JobInv, OwnVms, VmInv, InCustody, Unsaved
  <2>4. QED
    BY <2>1, <2>2, <2>3
<1>3. CASE SaveToken(j)
  <2>p. phase[j] = "prepare"
    BY <1>3 DEF SaveToken, PreparePcs
  <2>w. /\ StateOf(j)' = StateOf(j) \/ StateOf(j)' = [vm |-> held[j], token |-> token[j]]
        /\ \A i \in Jobs \ {j} : file'[Key(i)] = file[Key(i)]
    BY <1>3, WriteOwn DEF SaveToken, StateOf
  <2>1. Frame(j)
    BY <1>3, <2>w, QuietService DEF SaveToken
  <2>2. JobInv(j)'
    BY <1>3, <2>p, <2>w, WriteOwn, QuietService
    DEF SaveToken, StateOf, JobInv, OwnVms, Recorded, Authorized,
       Settled, Refused, HoldingPcs, RecordedPcs, SettledPcs
  <2>3. ASSUME NEW v \in VMs, owner'[v] = j PROVE VmInv(v)'
    BY <1>3, <2>3, <2>w, QuietService
    DEF SaveToken, JobInv, Recorded, OwnVms, HoldingPcs, RecordedPcs, StateOf, VmInv, InCustody, Unsaved
  <2>4. QED
    BY <2>1, <2>2, <2>3
<1>4. QED
  BY <1>1, <1>2, <1>3

LEMMA RunCleanupKeeps ==
  ASSUME IInv, DistinctKeys, NEW j \in Jobs,
         RunStep(j) \/ CleanupStep(j)
  PROVE  Keeps(j)
<1> USE Before, KeyInKeys
    DEF Keeps, Frame, Advance, Goto, EndStage
<1>1. CASE RunLoad(j)
  <2>p. phase[j] = "run"
    BY <1>1 DEF RunLoad, RunPcs
  <2>1. Frame(j)
    BY <1>1, QuietService DEF RunLoad, StateOf
  <2>2. JobInv(j)'
    BY <1>1, <2>p, QuietService
    DEF RunLoad, StateOf, JobInv, OwnVms, Recorded, Authorized,
       Settled, Refused, HoldingPcs, RecordedPcs, SettledPcs
  <2>3. ASSUME NEW v \in VMs, owner'[v] = j PROVE VmInv(v)'
    BY <1>1, <2>3, <2>p, QuietService
    DEF RunLoad, StateOf, JobInv, OwnVms, VmInv, InCustody, Unsaved
  <2>4. QED
    BY <2>1, <2>2, <2>3
<1>2. CASE RunEnd(j)
  <2>p. phase[j] = "run"
    BY <1>2 DEF RunEnd, RunPcs
  <2>1. Frame(j)
    BY <1>2, QuietService DEF RunEnd, StateOf
  <2>2. JobInv(j)'
    BY <1>2, <2>p, QuietService
    DEF RunEnd, StateOf, JobInv, OwnVms, Recorded, Authorized,
       Settled, Refused, HoldingPcs, RecordedPcs, SettledPcs
  <2>3. ASSUME NEW v \in VMs, owner'[v] = j PROVE VmInv(v)'
    BY <1>2, <2>3, <2>p, QuietService
    DEF RunEnd, StateOf, JobInv, OwnVms, VmInv, InCustody, Unsaved
  <2>4. QED
    BY <2>1, <2>2, <2>3
<1>3. CASE CleanupLoad(j)
  <2>p. phase[j] = "cleanup"
    BY <1>3 DEF CleanupLoad, CleanupPcs
  <2>1. Frame(j)
    BY <1>3, QuietService DEF CleanupLoad, StateOf
  <2>2. JobInv(j)'
    BY <1>3, <2>p, QuietService
    DEF CleanupLoad, StateOf, JobInv, OwnVms, Recorded, Authorized,
       Settled, Refused, HoldingPcs, RecordedPcs, SettledPcs
  <2>3. ASSUME NEW v \in VMs, owner'[v] = j PROVE VmInv(v)'
    BY <1>3, <2>3, <2>p, QuietService
    DEF CleanupLoad, StateOf, JobInv, OwnVms, VmInv, InCustody, Unsaved
  <2>4. QED
    BY <2>1, <2>2, <2>3
<1>4. CASE CleanupTerminate(j)
  <2>p. phase[j] = "cleanup"
    BY <1>4 DEF CleanupTerminate, CleanupPcs
  <2>t. pc[j] \in HoldingPcs /\ CallTerminate(j)
    BY <1>4 DEF CleanupTerminate, HoldingPcs
  <2>1. Frame(j)
    BY <1>4, <2>t, TerminateSettles DEF CleanupTerminate, StateOf
  <2>2. JobInv(j)'
    BY <1>4, <2>p, <2>t, TerminateSettles
    DEF CleanupTerminate, StateOf, JobInv, OwnVms, Recorded, Authorized,
       Settled, Refused, HoldingPcs, RecordedPcs, SettledPcs
  <2>3. ASSUME NEW v \in VMs, owner'[v] = j PROVE VmInv(v)'
    BY <1>4, <2>3, <2>t, TerminateSettles
    DEF CleanupTerminate, StateOf, JobInv, OwnVms, VmInv, InCustody, Unsaved
  <2>4. QED
    BY <2>1, <2>2, <2>3
<1>5. CASE CleanupRemove(j)
  <2>p. phase[j] = "cleanup"
    BY <1>5 DEF CleanupRemove, CleanupPcs
  <2>w. /\ StateOf(j)' = NoState \/ StateOf(j)' = StateOf(j)
        /\ \A i \in Jobs \ {j} : file'[Key(i)] = file[Key(i)]
    BY <1>5, WriteOwn DEF CleanupRemove, StateOf
  <2>1. Frame(j)
    BY <1>5, <2>w, QuietService DEF CleanupRemove
  <2>2. JobInv(j)'
    BY <1>5, <2>p, <2>w, QuietService
    DEF CleanupRemove, NoState, JobInv, OwnVms, Recorded, Authorized,
       Settled, Refused, HoldingPcs, RecordedPcs, SettledPcs
  <2>3. ASSUME NEW v \in VMs, owner'[v] = j PROVE VmInv(v)'
    BY <1>5, <2>3, <2>w, QuietService
    DEF CleanupRemove, NoState, Recorded, Settled,
        RecordedPcs, HoldingPcs, SettledPcs, JobInv, OwnVms, VmInv, InCustody, Unsaved
  <2>4. QED
    BY <2>1, <2>2, <2>3
<1>6. QED
  BY <1>1, <1>2, <1>3, <1>4, <1>5 DEF RunStep, CleanupStep

LEMMA RunnerKeeps ==
  ASSUME IInv, DistinctKeys, NEW j \in Jobs, RunnerStep(j)
  PROVE  Keeps(j)
<1> USE Before, KeyInKeys
    DEF Keeps, Frame, StateOf, StartStage, EndStage
<1>1. CASE StartPrepare(j)
  <2>1. Frame(j)
    BY <1>1, QuietService DEF StartPrepare
  <2>2. JobInv(j)'
    BY <1>1, QuietService
    DEF StartPrepare, PreparePcs, RunPcs, CleanupPcs, JobInv, OwnVms, Recorded, Authorized,
       Settled, Refused, HoldingPcs, RecordedPcs, SettledPcs
  <2>3. ASSUME NEW v \in VMs, owner'[v] = j PROVE VmInv(v)'
    BY <1>1, <2>3, QuietService
    DEF StartPrepare, JobInv, OwnVms, PreparePcs, RunPcs,
        CleanupPcs, VmInv, InCustody, Unsaved
  <2>4. QED
    BY <2>1, <2>2, <2>3
<1>2. CASE PrepareConfigError(j)
  <2>1. Frame(j)
    BY <1>2, QuietService DEF PrepareConfigError
  <2>2. JobInv(j)'
    BY <1>2, QuietService
    DEF PrepareConfigError, PreparePcs, RunPcs, CleanupPcs, JobInv, OwnVms, Recorded, Authorized,
       Settled, Refused, HoldingPcs, RecordedPcs, SettledPcs
  <2>3. ASSUME NEW v \in VMs, owner'[v] = j PROVE VmInv(v)'
    BY <1>2, <2>3, QuietService
    DEF PrepareConfigError, JobInv, OwnVms, PreparePcs, RunPcs,
        CleanupPcs, VmInv, InCustody, Unsaved
  <2>4. QED
    BY <2>1, <2>2, <2>3
<1>3. CASE StartRun(j)
  <2>1. Frame(j)
    BY <1>3, QuietService DEF StartRun
  <2>2. JobInv(j)'
    BY <1>3, QuietService
    DEF StartRun, PreparePcs, RunPcs, CleanupPcs, JobInv, OwnVms, Recorded, Authorized,
       Settled, Refused, HoldingPcs, RecordedPcs, SettledPcs
  <2>3. ASSUME NEW v \in VMs, owner'[v] = j PROVE VmInv(v)'
    BY <1>3, <2>3, QuietService
    DEF StartRun, JobInv, OwnVms, PreparePcs, RunPcs,
        CleanupPcs, VmInv, InCustody, Unsaved
  <2>4. QED
    BY <2>1, <2>2, <2>3
<1>4. CASE StartCleanup(j)
  <2>1. Frame(j)
    BY <1>4, QuietService DEF StartCleanup
  <2>2. JobInv(j)'
    BY <1>4, QuietService
    DEF StartCleanup, PreparePcs, RunPcs, CleanupPcs, JobInv, OwnVms, Recorded, Authorized,
       Settled, Refused, HoldingPcs, RecordedPcs, SettledPcs
  <2>3. ASSUME NEW v \in VMs, owner'[v] = j PROVE VmInv(v)'
    BY <1>4, <2>3, QuietService
    DEF StartCleanup, JobInv, OwnVms, PreparePcs, RunPcs,
        CleanupPcs, VmInv, InCustody, Unsaved
  <2>4. QED
    BY <2>1, <2>2, <2>3
<1>5. CASE CleanupConfigError(j)
  <2>1. Frame(j)
    BY <1>5, QuietService DEF CleanupConfigError
  <2>2. JobInv(j)'
    BY <1>5, QuietService
    DEF CleanupConfigError, PreparePcs, RunPcs, CleanupPcs, JobInv, OwnVms, Recorded, Authorized,
       Settled, Refused, HoldingPcs, RecordedPcs, SettledPcs
  <2>3. ASSUME NEW v \in VMs, owner'[v] = j PROVE VmInv(v)'
    BY <1>5, <2>3, QuietService
    DEF CleanupConfigError, JobInv, OwnVms, PreparePcs, RunPcs,
        CleanupPcs, VmInv, InCustody, Unsaved
  <2>4. QED
    BY <2>1, <2>2, <2>3
<1>6. CASE Signal(j)
  <2>1. Frame(j)
    BY <1>6, QuietService DEF Signal
  <2>2. JobInv(j)'
    BY <1>6, QuietService
    DEF Signal, PreparePcs, RunPcs, CleanupPcs, JobInv, OwnVms, Recorded, Authorized,
       Settled, Refused, HoldingPcs, RecordedPcs, SettledPcs
  <2>3. ASSUME NEW v \in VMs, owner'[v] = j PROVE VmInv(v)'
    BY <1>6, <2>3, QuietService
    DEF Signal, JobInv, OwnVms, PreparePcs, RunPcs,
        CleanupPcs, VmInv, InCustody, Unsaved
  <2>4. QED
    BY <2>1, <2>2, <2>3
<1>7. CASE Kill(j)
  <2>p. phase[j] \in {"prepare", "run", "cleanup"}
    BY <1>7 DEF Kill
  <2>d. /\ phase[j] = "prepare" => AfterDeath(j) = "prepareFailed"
        /\ phase[j] = "run" => AfterDeath(j) = "ready"
        /\ phase[j] = "cleanup" => AfterDeath(j) = "done"
    BY DEF AfterDeath
  <2>1. Frame(j)
    BY <1>7, QuietService DEF Kill, LeaveBehind
  <2>2. JobInv(j)'
    BY <1>7, <2>p, <2>d, QuietService
    DEF Kill, LeaveBehind, PreparePcs, RunPcs, CleanupPcs, JobInv, OwnVms, Recorded, Authorized,
       Settled, Refused, HoldingPcs, RecordedPcs, SettledPcs
  <2>3. ASSUME NEW v \in VMs, owner'[v] = j PROVE VmInv(v)'
    BY <1>7, <2>3, QuietService
    DEF Kill, LeaveBehind, JobInv, OwnVms, PreparePcs, RunPcs,
        CleanupPcs, VmInv, InCustody, Unsaved
  <2>4. QED
    BY <2>1, <2>2, <2>3
<1>8. CASE Crash(j)
  <2>1. Frame(j)
    BY <1>8, QuietService DEF Crash, LeaveBehind
  <2>2. JobInv(j)'
    BY <1>8, QuietService
    DEF Crash, LeaveBehind, PreparePcs, RunPcs, CleanupPcs, JobInv, OwnVms, Recorded, Authorized,
       Settled, Refused, HoldingPcs, RecordedPcs, SettledPcs
  <2>3. ASSUME NEW v \in VMs, owner'[v] = j PROVE VmInv(v)'
    BY <1>8, <2>3, QuietService
    DEF Crash, LeaveBehind, JobInv, OwnVms, PreparePcs, RunPcs,
        CleanupPcs, VmInv, InCustody, Unsaved
  <2>4. QED
    BY <2>1, <2>2, <2>3
<1>9. QED
  BY <1>1, <1>2, <1>3, <1>4, <1>5, <1>6, <1>7, <1>8 DEF RunnerStep

(* A VM served to job j, in time or late, is j's and in its custody.        *)
LEMMA ServeKeeps ==
  ASSUME IInv, NEW j \in Jobs, NEW v \in VMs,
         ServeLaunch(j, v) \/ ServeLate(j, v)
  PROVE  Keeps(j)
<1> USE Before
    DEF Keeps, ServeLaunch, ServeLate, Create
<1>1. /\ owner[v] = None
      /\ owner' = [owner EXCEPT ![v] = j]
      /\ vm' = [vm EXCEPT ![v] = "PENDING"]
  BY DEF VmInv
<1>2. Frame(j)
  BY <1>1 DEF Frame, VmInv, Live
<1>3. JobInv(j)'
  BY <1>1 DEF JobInv, OwnVms, Recorded, Authorized, Settled, Refused, StateOf,
     HoldingPcs, RecordedPcs, SettledPcs, Live
<1>4. ASSUME NEW u \in VMs, owner'[u] = j PROVE VmInv(u)'
  BY <1>1, <1>4 DEF VmInv, InCustody, Unsaved, StateOf, Live
<1>5. QED
  BY <1>2, <1>3, <1>4

LEMMA ServiceKeeps ==
  ASSUME IInv, [Next]_vars, NEW v \in VMs, ServiceStep(v),
         UNCHANGED <<procVars, custody, file, stray>>
  PROVE  IInv'
<1> USE DEF ServiceStep, Boot, Suspend, Resume, Expire
<1>1. /\ owner' = owner
      /\ \A u \in VMs : vm'[u] = "unborn" <=> vm[u] = "unborn"
      /\ \A u \in VMs : Live(u)' => Live(u)
  BY DEF IInv, TypeInv, TypeOK, ServiceTypeOK, Live
<1>2. ASSUME NEW j \in Jobs PROVE JobInv(j)'
  BY <1>1 DEF IInv, JobInv, OwnVms, Recorded, Authorized, Settled, Refused,
     StateOf
<1>3. ASSUME NEW u \in VMs PROVE VmInv(u)'
  BY <1>1 DEF IInv, VmInv, InCustody, Unsaved, StateOf
<1>4. QED
  BY <1>2, <1>3, TypeStep DEF IInv

LEMMA IStep == DistinctKeys /\ IInv /\ [Next]_vars => IInv'
<1> SUFFICES ASSUME DistinctKeys, IInv, [Next]_vars PROVE IInv'
  OBVIOUS
<1>1. CASE UNCHANGED vars
  <2>1. TypeInv'
    BY TypeStep DEF IInv
  <2>2. ASSUME NEW j \in Jobs PROVE JobInv(j)'
    BY <1>1 DEF vars, IInv, JobInv, OwnVms, Recorded, Authorized, Settled,
       Refused, StateOf, Live
  <2>3. ASSUME NEW v \in VMs PROVE VmInv(v)'
    BY <1>1 DEF vars, IInv, VmInv, InCustody, Unsaved, StateOf, Live
  <2>4. QED
    BY <2>1, <2>2, <2>3 DEF IInv
<1>2. ASSUME NEW j \in Jobs, DriverStep(j) \/ RunnerStep(j) PROVE IInv'
  BY <1>2, ReapKeeps, LaunchKeeps, PollKeeps, SaveKeeps, RunCleanupKeeps,
     RunnerKeeps, KeepsIInv DEF DriverStep, PrepareStep
<1>3. ASSUME NEW v \in VMs, AwsStep(v) PROVE IInv'
  BY <1>3, ServeKeeps, ServiceKeeps, KeepsIInv DEF AwsStep
<1>4. QED
  BY <1>1, <1>2, <1>3 DEF Next

----------------------------------------------------------------------------
(* The safety properties follow from the invariant.                         *)

LEMMA InvCustody == IInv => EveryVmInCustody
  BY DEF IInv, VmInv, EveryVmInCustody

LEMMA InvOneVm == IInv => OneVmPerJob
<1> SUFFICES ASSUME IInv, NEW v \in VMs, NEW w \in VMs,
                    Live(v), Live(w), v \notin stray, w \notin stray,
                    owner[v] = owner[w]
             PROVE  v = w
  BY DEF OneVmPerJob
<1> DEFINE j == owner[v]
<1>1. j \in Jobs
  BY Before DEF IInv, TypeInv, TypeOK, ServiceTypeOK, VmInv, Live
<1>2. InCustody(j, v) /\ InCustody(j, w)
  BY DEF IInv, VmInv
<1>3. JobInv(j)
  BY <1>1 DEF IInv
<1>4. v \in Unsaved(j) \/ w \in Unsaved(j) => pc[j] \in SettledPcs
  BY <1>3 DEF JobInv, OwnVms, Unsaved, SettledPcs
<1>5. v \in Unsaved(j) \/ w \in Unsaved(j) => v # StateOf(j).vm /\ w # StateOf(j).vm
  BY <1>3, <1>4 DEF JobInv, Settled
<1>6. QED
  BY <1>2, <1>5 DEF InCustody, Unsaved

LEMMA InvNothingLeft == IInv => NothingLeftWhenDone
<1> SUFFICES ASSUME IInv, NEW j \in Jobs, NEW v \in VMs,
                    phase[j] = "done", j \notin interrupted,
                    owner[v] = j, Live(v)
             PROVE  v \in stray
  BY DEF NothingLeftWhenDone
<1>1. pc[j] \notin {"save", "undo", "launching"}
  BY DEF IInv, TypeInv, PcInPhase, PreparePcs
<1>2. JobInv(j) /\ VmInv(v)
  BY DEF IInv
<1>3. Unsaved(j) = {}
  BY <1>1, <1>2 DEF JobInv, OwnVms, Unsaved
<1>4. v \in stray \/ v = StateOf(j).vm
  BY <1>2, <1>3 DEF VmInv, InCustody
<1>5. QED
  BY <1>2, <1>4 DEF JobInv, Settled

LEMMA InvExec == IInv => ExecIsAuthorized
<1> SUFFICES ASSUME IInv, NEW j \in Jobs, pc[j] = "exec"
             PROVE  held[j] # None /\ token[j] = held[j] /\ owner[held[j]] = j
  BY DEF ExecIsAuthorized
<1>1. QED
  BY Before DEF JobInv, OwnVms, Authorized, HoldingPcs

TerminateIsOwn ==
  \A j \in Jobs, v \in VMs :
    /\ pc[j] \in {"reapTerminate", "undo", "terminate"}
    /\ pc'[j] # pc[j]
    /\ vm'[v] # vm[v]
    => owner[v] = j

LEMMA InvTerminate ==
  ASSUME DistinctKeys, IInv, [Next]_vars
  PROVE  TerminateIsOwn
<1> SUFFICES ASSUME NEW j \in Jobs, NEW v \in VMs,
                    pc[j] \in {"reapTerminate", "undo", "terminate"},
                    pc'[j] # pc[j],
                    vm'[v] # vm[v]
             PROVE  owner[v] = j
  BY DEF TerminateIsOwn
<1>1. ~UNCHANGED vars
  BY DEF vars
<1>2. ASSUME NEW u \in VMs PROVE ~AwsStep(u)
  BY <1>2 DEF AwsStep, ServeLaunch, ServeLate
<1>3. ASSUME NEW i \in Jobs, DriverStep(i) \/ RunnerStep(i) PROVE i = j
  BY <1>3, ReapKeeps, LaunchKeeps, PollKeeps, SaveKeeps, RunCleanupKeeps,
     RunnerKeeps DEF DriverStep, PrepareStep, Keeps, Frame
<1>4. DriverStep(j) \/ RunnerStep(j)
  BY <1>1, <1>2, <1>3 DEF Next
<1>5. pc[j] \in HoldingPcs /\ owner[held[j]] = j
  BY Before DEF JobInv, OwnVms, HoldingPcs
<1>6. CASE ReapTerminate(j) \/ Undo(j) \/ CleanupTerminate(j)
  <2>1. CallTerminate(j)
    BY <1>6 DEF ReapTerminate, Undo, CleanupTerminate
  <2>2. v = held[j]
    BY <2>1, <1>5, Before DEF CallTerminate, Stopped
  <2>3. QED
    BY <1>5, <2>2
<1>7. CASE ~(ReapTerminate(j) \/ Undo(j) \/ CleanupTerminate(j))
  <2>1. vm' = vm
    BY <1>4, <1>7
    DEF DriverStep, PrepareStep, RunStep, CleanupStep, RunnerStep, ReapLoad,
        ReapRemove, Launch, LaunchRefused, ResendLaunch, LaunchReply,
        LaunchReplyLost, Save, PollRunning, MintToken, SaveToken, PollHealthy,
        RunLoad, RunEnd, CleanupLoad, CleanupRemove, StartPrepare,
        PrepareConfigError, StartRun, StartCleanup, CleanupConfigError, Signal,
        Kill, Crash
  <2>2. QED
    BY <2>1
<1>8. QED
  BY <1>6, <1>7

THEOREM Invariance == ASSUME DistinctKeys PROVE Spec => []IInv
<1>1. IInv /\ [Next]_vars => IInv'
  BY IStep
<1>2. QED
  BY IInit, <1>1, PTL DEF Spec

(* Whatever the interleaving of stages, faults and the service: a running   *)
(* VM is on record, in a prepare in progress, or lost to a named fault.     *)
THEOREM CustodyKept == ASSUME DistinctKeys PROVE Spec => []EveryVmInCustody
BY Invariance, InvCustody, PTL

(* Retried prepares never leave a job with two running VMs.                 *)
THEOREM SingleVm == ASSUME DistinctKeys PROVE Spec => []OneVmPerJob
BY Invariance, InvOneVm, PTL

(* A cleanup that ran to its end leaves no VM of the job running, strays    *)
(* apart.                                                                   *)
THEOREM CleanupComplete == ASSUME DistinctKeys PROVE Spec => []NothingLeftWhenDone
BY Invariance, InvNothingLeft, PTL

(* Every script goes to the job's own VM, with the token minted for it.     *)
THEOREM ExecAuthorized == ASSUME DistinctKeys PROVE Spec => []ExecIsAuthorized
BY Invariance, InvExec, PTL

(* No stage ever terminates the VM of another job.                          *)
THEOREM TerminatesOwn == ASSUME DistinctKeys PROVE Spec => TerminatesOnlyItsOwn
<1>1. IInv /\ [Next]_vars => [TerminateIsOwn]_vars
  BY InvTerminate
<1>2. QED
  BY Invariance, <1>1, PTL DEF Spec, TerminatesOnlyItsOwn, TerminateIsOwn

=============================================================================
