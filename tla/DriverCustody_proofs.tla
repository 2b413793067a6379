------------------------ MODULE DriverCustody_proofs ------------------------
(***************************************************************************)
(* The driver implements VmCustody: every step of DriverLifecycle is a step *)
(* of the abstract custody of VMs, or leaves it alone.                      *)
(***************************************************************************)
EXTENDS DriverLifecycle_proofs

Finished == {j \in Jobs : phase[j] = "done" /\ j \notin interrupted}
Fates == [v \in VMs |-> Fate(v)]

CustodyStep == [Custody!Next]_(Custody!vars)

USE NoneAssumption DEF custody, service, procVars

LEMMA FateCases ==
  ASSUME NEW v \in VMs
  PROVE  /\ vm[v] = "unborn" => Fate(v) = "none"
         /\ Live(v) /\ v \in stray => Fate(v) = "lost"
         /\ Live(v) /\ v \notin stray => Fate(v) = "kept"
         /\ ~Live(v) /\ vm[v] # "unborn" => Fate(v) = "gone"
  BY DEF Fate, Live

LEMMA FateCasesNext ==
  ASSUME NEW v \in VMs
  PROVE  /\ vm'[v] = "unborn" => Fate(v)' = "none"
         /\ Live(v)' /\ v \in stray' => Fate(v)' = "lost"
         /\ Live(v)' /\ v \notin stray' => Fate(v)' = "kept"
         /\ ~Live(v)' /\ vm'[v] # "unborn" => Fate(v)' = "gone"
  BY DEF Fate, Live

(* Nothing the abstract specification speaks of has changed.                *)
LEMMA Stutters ==
  ASSUME UNCHANGED <<vm, owner, stray>>, Finished' = Finished
  PROVE  CustodyStep
<1>1. Fates' = Fates
  BY DEF Fates, Fate, Live
<1>2. QED
  BY <1>1 DEF CustodyStep, Custody!vars, Fates, Finished

(* A fault takes at most one VM.                                            *)
LEMMA Loses ==
  ASSUME UNCHANGED <<vm, owner>>, NEW x, stray' = stray \cup {x},
         Finished' = Finished
  PROVE  CustodyStep
<1>1. CASE x \in VMs /\ Fate(x) = "kept"
  <2>1. Live(x) /\ Live(x)'
    BY <1>1, FateCases DEF Live
  <2>2. Fate(x)' = "lost"
    BY <1>1, <2>1, FateCasesNext
  <2>3. \A v \in VMs \ {x} : Fate(v)' = Fate(v)
    BY DEF Fate, Live
  <2>4. Fates' = [Fates EXCEPT ![x] = "lost"]
    BY <1>1, <2>2, <2>3 DEF Fates
  <2>5. Custody!Lose(x)
    BY <1>1, <2>4 DEF Custody!Lose, Fates, Finished
  <2>6. QED
    BY <1>1, <2>5 DEF CustodyStep, Custody!Next
<1>2. CASE ~(x \in VMs /\ Fate(x) = "kept")
  <2>1. \A v \in VMs : Fate(v)' = Fate(v)
    BY <1>2, FateCases DEF Fate, Live
  <2>2. Fates' = Fates
    BY <2>1 DEF Fates
  <2>3. QED
    BY <2>2 DEF CustodyStep, Custody!vars, Fates, Finished
<1>3. QED
  BY <1>1, <1>2

(* A VM ends, at the driver's request or by itself.                         *)
LEMMA Ends ==
  ASSUME UNCHANGED <<owner, stray>>, Finished' = Finished,
         NEW x \in VMs, Live(x), ~Live(x)', vm'[x] # "unborn",
         \A v \in VMs \ {x} : vm'[v] = vm[v]
  PROVE  CustodyStep
<1>1. Fate(x) \in {"kept", "lost"}
  BY FateCases
<1>2. Fate(x)' = "gone"
  BY FateCasesNext
<1>3. \A v \in VMs \ {x} : Fate(v)' = Fate(v)
  BY DEF Fate, Live
<1>4. Fates' = [Fates EXCEPT ![x] = "gone"]
  BY <1>2, <1>3 DEF Fates
<1>5. Custody!End(x)
  BY <1>1, <1>4 DEF Custody!End, Fates, Finished
<1>6. QED
  BY <1>5 DEF CustodyStep, Custody!Next

LEMMA SameFinished ==
  ASSUME NEW j \in Jobs, Frame(j), phase[j] # "done",
         phase'[j] = "done" => j \in interrupted'
  PROVE  Finished' = Finished
  BY DEF Finished, Frame

LEMMA MoreFinished ==
  ASSUME NEW j \in Jobs, Frame(j), phase'[j] = "done", j \notin interrupted'
  PROVE  Finished' = Finished \cup {j}
  BY DEF Finished, Frame

(* The VM a terminate call stops ends, or is lost when the call fails.      *)
LEMMA TerminateCustody ==
  ASSUME IInv, NEW j \in Jobs, pc[j] \in HoldingPcs, CallTerminate(j),
         Finished' = Finished
  PROVE  CustodyStep
<1>1. /\ held[j] \in VMs
      /\ vm \in [VMs -> VmStates]
  BY Before
<1>2. CASE Live(held[j]) /\ vm' = Stopped(held[j]) /\ UNCHANGED <<owner, stray>>
  <2>1. vm' = [vm EXCEPT ![held[j]] = "TERMINATED"]
    BY <1>2 DEF Stopped
  <2>2. QED
    BY <1>1, <1>2, <2>1, Ends DEF Live
<1>3. CASE ~Live(held[j]) /\ vm' = Stopped(held[j]) /\ UNCHANGED <<owner, stray>>
  BY <1>3, Stutters DEF Stopped
<1>4. CASE stray' = stray \cup {held[j]} /\ UNCHANGED <<vm, owner>>
  BY <1>4, Loses
<1>5. QED
  BY <1>2, <1>3, <1>4 DEF CallTerminate

LEMMA BehindCustody ==
  ASSUME NEW j \in Jobs, LeaveBehind(j), UNCHANGED <<vm, owner>>,
         Finished' = Finished
  PROVE  CustodyStep
<1>1. CASE Unsaved(j) = {}
  <2>1. stray' = stray
    BY <1>1 DEF LeaveBehind
  <2>2. QED
    BY <2>1, Stutters
<1>2. CASE Unsaved(j) # {}
  <2>1. PICK x : Unsaved(j) = {x}
    BY <1>2 DEF Unsaved
  <2>2. stray' = stray \cup {x}
    BY <2>1 DEF LeaveBehind
  <2>3. QED
    BY <2>2, Loses
<1>3. QED
  BY <1>1, <1>2

LEMMA PrepareCustody ==
  ASSUME IInv, DistinctKeys, NEW j \in Jobs, PrepareStep(j)
  PROVE  CustodyStep
<1>1. Frame(j)
  <2>1. Keeps(j)
    BY ReapKeeps, LaunchKeeps, PollKeeps, SaveKeeps DEF PrepareStep
  <2>2. QED
    BY <2>1 DEF Keeps
<1>2. pc[j] \in PreparePcs
  <2> USE DEF PreparePcs, Advance
  <2>1. CASE ReapLoad(j) \/ ReapTerminate(j) \/ ReapRemove(j)
    BY <2>1 DEF ReapLoad, ReapTerminate, ReapRemove
  <2>2. CASE Launch(j) \/ LaunchRefused(j) \/ ResendLaunch(j)
    BY <2>2 DEF Launch, LaunchRefused, ResendLaunch
  <2>3. CASE LaunchReply(j) \/ LaunchReplyLost(j) \/ Save(j) \/ Undo(j)
    BY <2>3 DEF LaunchReply, LaunchReplyLost, Save, Undo
  <2>4. CASE PollRunning(j) \/ MintToken(j) \/ SaveToken(j) \/ PollHealthy(j)
    BY <2>4 DEF PollRunning, MintToken, SaveToken, PollHealthy
  <2>5. QED
    BY <2>1, <2>2, <2>3, <2>4 DEF PrepareStep
<1>3. phase[j] = "prepare" /\ phase \in [Jobs -> Phases]
  BY <1>2, Before
<1>4. phase'[j] # "done"
  <2> USE <1>3 DEF Advance, Goto, EndStage
  <2>1. CASE ReapLoad(j) \/ ReapTerminate(j) \/ ReapRemove(j)
    BY <2>1 DEF ReapLoad, ReapTerminate, ReapRemove
  <2>2. CASE Launch(j) \/ LaunchRefused(j)
    BY <2>2 DEF Launch, LaunchRefused
  <2>3. CASE ResendLaunch(j)
    BY <2>3 DEF ResendLaunch
  <2>4. CASE LaunchReply(j) \/ LaunchReplyLost(j)
    BY <2>4 DEF LaunchReply, LaunchReplyLost
  <2>5. CASE Save(j) \/ Undo(j)
    BY <2>5 DEF Save, Undo
  <2>6. CASE PollRunning(j) \/ MintToken(j)
    BY <2>6 DEF PollRunning, MintToken
  <2>7. CASE SaveToken(j) \/ PollHealthy(j)
    BY <2>7 DEF SaveToken, PollHealthy
  <2>8. QED
    BY <2>1, <2>2, <2>3, <2>4, <2>5, <2>6, <2>7 DEF PrepareStep
<1>5. Finished' = Finished
  BY <1>1, <1>3, <1>4, SameFinished
<1>6. CASE ReapLoad(j)
  <2>1. \/ UNCHANGED <<vm, owner, stray>>
        \/ UNCHANGED <<vm, owner>> /\ stray' = stray \cup {StateOf(j).vm}
    BY <1>6 DEF ReapLoad
  <2>2. QED
    BY <2>1, <1>5, Stutters, Loses
<1>7. CASE ReapTerminate(j) \/ Undo(j)
  <2>1. pc[j] \in HoldingPcs /\ CallTerminate(j)
    BY <1>7 DEF ReapTerminate, Undo, Advance, HoldingPcs
  <2>2. QED
    BY <2>1, <1>5, TerminateCustody
<1>8. CASE ResendLaunch(j)
  BY <1>8, <1>5, Loses DEF ResendLaunch
<1>9. CASE LaunchReplyLost(j)
  BY <1>9, <1>5, BehindCustody DEF LaunchReplyLost
<1>10. CASE \/ ReapRemove(j) \/ Launch(j) \/ LaunchRefused(j) \/ LaunchReply(j)
            \/ Save(j) \/ PollRunning(j) \/ MintToken(j) \/ SaveToken(j)
            \/ PollHealthy(j)
  <2>1. UNCHANGED <<vm, owner, stray>>
    BY <1>10 DEF ReapRemove, Launch, LaunchRefused, LaunchReply, Save,
       PollRunning, MintToken, SaveToken, PollHealthy
  <2>2. QED
    BY <2>1, <1>5, Stutters
<1>11. QED
  BY <1>6, <1>7, <1>8, <1>9, <1>10 DEF PrepareStep

(* A job finishes: the one VM it may still keep is the one on a record that *)
(* cleanup could not read.                                                  *)
LEMMA Finishes ==
  ASSUME IInv, IInv', NEW j \in Jobs, UNCHANGED <<vm, owner>>,
         j \in Finished', Finished' = Finished \cup {j},
         NEW x, x \in VMs => owner[x] = j,
         stray' = stray \cup ({x} \ {None})
  PROVE  CustodyStep
<1>1. \A v \in VMs : Live(v) /\ owner[v] = j => v \in stray \/ v = x
  <2>1. NothingLeftWhenDone'
    BY InvNothingLeft, PTL
  <2>2. QED
    BY <2>1 DEF NothingLeftWhenDone, Finished, Live
<1>2. CASE x \in VMs /\ Live(x) /\ x \notin stray
  <2>1. Fate(x) = "kept" /\ Fate(x)' = "lost"
    BY <1>2, FateCases, FateCasesNext DEF Live
  <2>2. \A v \in VMs \ {x} : Fate(v)' = Fate(v)
    BY DEF Fate, Live
  <2>3. Fates' = [Fates EXCEPT ![x] = "lost"]
    BY <2>1, <2>2 DEF Fates
  <2>4. \A v \in VMs \ {x} : owner[v] = j => Fate(v) # "kept"
    BY <1>1 DEF Fate
  <2>5. Custody!FinishBlind(j, x)
    BY <1>2, <2>1, <2>3, <2>4 DEF Custody!FinishBlind, Fates, Finished
  <2>6. QED
    BY <1>2, <2>5 DEF CustodyStep, Custody!Next
<1>3. CASE ~(x \in VMs /\ Live(x) /\ x \notin stray)
  <2>1. \A v \in VMs : Fate(v)' = Fate(v)
    BY <1>3 DEF Fate, Live
  <2>2. Fates' = Fates
    BY <2>1 DEF Fates
  <2>3. \A v \in VMs : owner[v] = j => Fate(v) # "kept"
    BY <1>1, <1>3 DEF Fate
  <2>4. Custody!Finish(j)
    BY <2>2, <2>3 DEF Custody!Finish, Custody!KeepsNone, Fates, Finished
  <2>5. QED
    BY <2>4 DEF CustodyStep, Custody!Next
<1>4. QED
  BY <1>2, <1>3

LEMMA RunCleanupCustody ==
  ASSUME IInv, IInv', DistinctKeys, NEW j \in Jobs,
         RunStep(j) \/ CleanupStep(j)
  PROVE  CustodyStep
<1>1. Frame(j)
  BY RunCleanupKeeps DEF Keeps
<1>2. CASE RunStep(j)
  <2>1. UNCHANGED <<vm, owner, stray>>
    BY <1>2 DEF RunStep, RunLoad, RunEnd
  <2>2. phase[j] = "run"
    BY <1>2, Before DEF RunStep, RunLoad, RunEnd, RunPcs
  <2>3. phase'[j] # "done"
    BY <1>2, <2>2, Before DEF RunStep, RunLoad, RunEnd, Goto, EndStage
  <2>4. QED
    BY <1>1, <2>1, <2>2, <2>3, SameFinished, Stutters
<1>3. ASSUME CleanupStep(j) PROVE phase[j] = "cleanup"
  BY <1>3, Before
  DEF CleanupStep, CleanupLoad, CleanupTerminate, CleanupRemove, Advance,
      CleanupPcs
<1>4. CASE CleanupTerminate(j)
  <2>1. pc[j] \in HoldingPcs /\ CallTerminate(j)
    BY <1>4 DEF CleanupTerminate, Advance, HoldingPcs
  <2>2. phase'[j] = phase[j]
    BY <1>4 DEF CleanupTerminate, Advance, Goto
  <2>3. QED
    BY <1>1, <1>3, <1>4, <2>1, <2>2, SameFinished, TerminateCustody
    DEF CleanupStep
<1>5. CASE phase'[j] = "done" /\ (CleanupLoad(j) \/ CleanupRemove(j))
  <2>1. UNCHANGED <<vm, owner>> /\ interrupted' = interrupted
    BY <1>5 DEF CleanupLoad, CleanupRemove
  <2>2. CASE j \in interrupted
    <3>1. Finished' = Finished
      BY <1>1, <1>3, <1>5, <2>1, <2>2, SameFinished DEF CleanupStep
    <3>2. stray' = stray \/ stray' = stray \cup {StateOf(j).vm}
      BY <1>5 DEF CleanupLoad, CleanupRemove
    <3>3. QED
      BY <2>1, <3>1, <3>2, Stutters, Loses
  <2>3. CASE j \notin interrupted
    <3>1. Finished' = Finished \cup {j} /\ j \in Finished'
      BY <1>1, <1>5, <2>1, <2>3, MoreFinished
    <3>2. StateOf(j).vm \in VMs => owner[StateOf(j).vm] = j
      BY Before DEF JobInv, OwnVms
    <3>3. \/ stray' = stray \cup ({StateOf(j).vm} \ {None})
          \/ stray' = stray \cup ({None} \ {None})
      BY <1>5 DEF CleanupLoad, CleanupRemove
    <3>4. QED
      BY <2>1, <3>1, <3>2, <3>3, Finishes
  <2>4. QED
    BY <2>2, <2>3
<1>6. CASE phase'[j] # "done" /\ (CleanupLoad(j) \/ CleanupRemove(j))
  <2>1. UNCHANGED <<vm, owner, stray>>
    BY <1>6, Before DEF CleanupLoad, CleanupRemove, EndStage
  <2>2. QED
    BY <1>1, <1>3, <1>6, <2>1, SameFinished, Stutters DEF CleanupStep
<1>7. QED
  BY <1>2, <1>4, <1>5, <1>6 DEF CleanupStep

(* Only the runner giving up on a refused configuration finishes a job; a   *)
(* killed cleanup is interrupted, a crashed job is lost.                    *)
LEMMA RunnerCustody ==
  ASSUME IInv, IInv', DistinctKeys, NEW j \in Jobs, RunnerStep(j)
  PROVE  CustodyStep
<1>1. Frame(j)
  BY RunnerKeeps DEF Keeps
<1>2. CASE StartPrepare(j) \/ PrepareConfigError(j) \/ StartRun(j)
           \/ StartCleanup(j)
  <2>1. UNCHANGED <<vm, owner, stray>>
    BY <1>2 DEF StartPrepare, PrepareConfigError, StartRun, StartCleanup
  <2>2. phase[j] # "done" /\ phase'[j] # "done"
    BY <1>2, Before
    DEF StartPrepare, PrepareConfigError, StartRun, StartCleanup, StartStage
  <2>3. QED
    BY <1>1, <2>1, <2>2, SameFinished, Stutters
<1>3. CASE Signal(j)
  <2>1. Finished' = Finished
    BY <1>3 DEF Signal, Finished
  <2>2. UNCHANGED <<vm, owner, stray>>
    BY <1>3 DEF Signal
  <2>3. QED
    BY <2>1, <2>2, Stutters
<1>4. CASE CleanupConfigError(j)
  <2>1. UNCHANGED <<vm, owner, interrupted>>
    BY <1>4 DEF CleanupConfigError
  <2>2. phase[j] = "prepareFailed" /\ phase'[j] = "done"
    BY <1>4, Before DEF CleanupConfigError
  <2>3. stray' = stray \cup ({None} \ {None})
    BY <1>4 DEF CleanupConfigError
  <2>4. CASE j \in interrupted
    <3>1. Finished' = Finished
      BY <1>1, <2>1, <2>2, <2>4, SameFinished
    <3>2. QED
      BY <2>1, <2>3, <3>1, Stutters
  <2>5. CASE j \notin interrupted
    <3>1. Finished' = Finished \cup {j} /\ j \in Finished'
      BY <1>1, <2>1, <2>2, <2>5, MoreFinished
    <3>2. QED
      BY <2>1, <2>3, <3>1, Finishes
  <2>6. QED
    BY <2>4, <2>5
<1>5. CASE Kill(j) \/ Crash(j)
  <2>1. phase[j] # "done"
    BY <1>5, Before DEF Kill, Crash, PreparePcs, RunPcs, CleanupPcs
  <2>2. phase'[j] = "done" => j \in interrupted'
    BY <1>5, <2>1, Before
    DEF Kill, Crash, AfterDeath, EndStage, PreparePcs, RunPcs, CleanupPcs
  <2>3. LeaveBehind(j) /\ UNCHANGED <<vm, owner>>
    BY <1>5 DEF Kill, Crash
  <2>4. QED
    BY <1>1, <2>1, <2>2, <2>3, SameFinished, BehindCustody
<1>6. QED
  BY <1>2, <1>3, <1>4, <1>5 DEF RunnerStep

(* A VM served to a waiting prepare is kept, one served late is lost.       *)
LEMMA ServeCustody ==
  ASSUME IInv, NEW j \in Jobs, NEW v \in VMs,
         ServeLaunch(j, v) \/ ServeLate(j, v)
  PROVE  CustodyStep
<1>1. /\ vm[v] = "unborn"
      /\ vm' = [vm EXCEPT ![v] = "PENDING"]
      /\ owner' = [owner EXCEPT ![v] = j]
  BY DEF ServeLaunch, ServeLate, Create
<1>2. vm \in [VMs -> VmStates]
  BY Before
<1>3. Finished' = Finished
  BY DEF ServeLaunch, ServeLate, Finished
<1>4. Fate(v) = "none" /\ Live(v)'
  BY <1>1, <1>2, FateCases DEF Live
<1>5. CASE ServeLaunch(j, v)
  <2>1. stray' = stray /\ phase[j] = "prepare" /\ JobInv(j)
    BY <1>5, Before DEF ServeLaunch, PreparePcs
  <2>2. \A w \in VMs : owner[w] = j => Fate(w) # "kept"
    <3> SUFFICES ASSUME NEW w \in VMs, owner[w] = j, Live(w)
                 PROVE  w \in stray
      BY DEF Fate
    <3>1. w \in stray \/ w = StateOf(j).vm
      BY <1>5, Before DEF ServeLaunch, VmInv, InCustody, Unsaved
    <3>2. QED
      BY <1>5, <2>1, <3>1 DEF ServeLaunch, JobInv, Settled, SettledPcs
  <2>3. CASE v \notin stray
    <3>1. Fate(v)' = "kept"
      BY <1>4, <2>1, <2>3, FateCasesNext
    <3>2. \A w \in VMs \ {v} : Fate(w)' = Fate(w)
      BY <1>1, <1>2, <2>1 DEF Fate, Live
    <3>3. Fates' = [Fates EXCEPT ![v] = "kept"]
      BY <3>1, <3>2 DEF Fates
    <3>4. Custody!Launch(j, v)
      BY <1>1, <1>3, <1>4, <2>1, <2>2, <3>3
      DEF Custody!Launch, Custody!KeepsNone, Fates, Finished
    <3>5. QED
      BY <3>4 DEF CustodyStep, Custody!Next
  <2>4. CASE v \in stray
    <3>1. Fate(v)' = "lost"
      BY <1>4, <2>1, <2>4, FateCasesNext
    <3>2. \A w \in VMs \ {v} : Fate(w)' = Fate(w)
      BY <1>1, <1>2, <2>1 DEF Fate, Live
    <3>3. Fates' = [Fates EXCEPT ![v] = "lost"]
      BY <3>1, <3>2 DEF Fates
    <3>4. Custody!LaunchLost(j, v)
      BY <1>1, <1>3, <1>4, <3>3 DEF Custody!LaunchLost, Fates, Finished
    <3>5. QED
      BY <3>4 DEF CustodyStep, Custody!Next
  <2>5. QED
    BY <2>3, <2>4
<1>6. CASE ServeLate(j, v)
  <2>1. stray' = stray \cup {v}
    BY <1>6 DEF ServeLate
  <2>2. Fate(v)' = "lost"
    BY <1>4, <2>1, FateCasesNext
  <2>3. \A w \in VMs \ {v} : Fate(w)' = Fate(w)
    BY <1>1, <1>2, <2>1 DEF Fate, Live
  <2>4. Fates' = [Fates EXCEPT ![v] = "lost"]
    BY <2>2, <2>3 DEF Fates
  <2>5. Custody!LaunchLost(j, v)
    BY <1>1, <1>3, <1>4, <2>4 DEF Custody!LaunchLost, Fates, Finished
  <2>6. QED
    BY <2>5 DEF CustodyStep, Custody!Next
<1>7. QED
  BY <1>5, <1>6

LEMMA ServiceCustody ==
  ASSUME IInv, NEW v \in VMs, ServiceStep(v),
         UNCHANGED <<procVars, custody, file, stray>>
  PROVE  CustodyStep
<1> USE DEF ServiceStep, Boot, Suspend, Resume, Expire
<1>1. /\ UNCHANGED <<owner, stray>>
      /\ Finished' = Finished
      /\ vm \in [VMs -> VmStates]
  BY Before DEF Finished, IInv, TypeInv, TypeOK, ServiceTypeOK
<1>2. Live(v) /\ vm'[v] # "unborn" /\ \A u \in VMs \ {v} : vm'[u] = vm[u]
  BY <1>1 DEF Live
<1>3. CASE ~Live(v)'
  BY <1>1, <1>2, <1>3, Ends
<1>4. CASE Live(v)'
  <2>1. \A u \in VMs : Fate(u)' = Fate(u)
    BY <1>1, <1>2, <1>4 DEF Fate, Live
  <2>2. Fates' = Fates
    BY <2>1 DEF Fates
  <2>3. QED
    BY <1>1, <2>2 DEF CustodyStep, Custody!vars, Fates, Finished
<1>5. QED
  BY <1>3, <1>4

LEMMA CustodyInit == Init => Custody!Init
<1> SUFFICES ASSUME Init PROVE Custody!Init
  OBVIOUS
<1>1. \A v \in VMs : Fate(v) = "none"
  BY FateCases DEF Init, ServiceInit
<1>2. QED
  BY <1>1 DEF Init, ServiceInit, Custody!Init

LEMMA EveryStepCustody ==
  ASSUME DistinctKeys, IInv, IInv', [Next]_vars
  PROVE  CustodyStep
<1>1. CASE UNCHANGED vars
  BY <1>1, Stutters DEF vars, Finished
<1>2. ASSUME NEW j \in Jobs, DriverStep(j) \/ RunnerStep(j)
      PROVE  CustodyStep
  BY <1>2, PrepareCustody, RunCleanupCustody, RunnerCustody DEF DriverStep
<1>3. ASSUME NEW v \in VMs, AwsStep(v) PROVE CustodyStep
  BY <1>3, ServeCustody, ServiceCustody DEF AwsStep
<1>4. QED
  BY <1>1, <1>2, <1>3 DEF Next

(* The driver, with all its stages, retries, signals, kills and crashes,    *)
(* implements the abstract custody of VMs (main.go:102-261).                *)
THEOREM DriverKeepsCustody == ASSUME DistinctKeys PROVE Spec => CustodySpec
<1>1. IInv /\ IInv' /\ [Next]_vars => CustodyStep
  BY EveryStepCustody
<1>2. QED
  BY Invariance, CustodyInit, <1>1, PTL
  DEF Spec, CustodySpec, Custody!Spec, CustodyStep

=============================================================================
