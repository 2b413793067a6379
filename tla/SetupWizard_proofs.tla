------------------------- MODULE SetupWizard_proofs -------------------------
(***************************************************************************)
(* For any buckets and any number of runs of the wizard, interrupted or    *)
(* failed anywhere: what AWS is asked to build has its inputs, and what a   *)
(* run that ends well leaves behind.                                       *)
(***************************************************************************)
EXTENDS SetupWizard, TLAPS

(* The steps of buildImage once its bucket is settled, once its role is     *)
(* there, and once the artifact is in the bucket.                           *)
WithArtifact == {"createImage", "poll"}
WithRole     == {"putPolicy", "roleARN", "zip", "upload"} \cup WithArtifact
WithBucket   == {"role", "createRole"} \cup WithRole

(* The steps of Run after the image is settled, and after config.toml is    *)
(* written.                                                                 *)
Configured == {"offerInstall", "install"}
WithImage  == {"url", "token", "settings", "write"} \cup Configured

WellDone == pc = "idle" /\ outcome = "ok"

(* Each run finds what the steps before it did, in AWS and in its own       *)
(* variables; nothing that another run does takes it away.                  *)
StepsHaveInputs ==
  /\ pc # "idle" => runs > 0
  /\ pc \in {"offerBucket", "createBucket"} \cup WithBucket => bucket \in Buckets
  /\ pc \in WithBucket => bucket \in exists
  /\ pc \in WithRole => role # "absent"
  /\ pc \in WithArtifact => bucket \in uploaded
  /\ pc \in WithImage \/ WellDone => imageARN # "none"
  /\ BuildHasItsInputs

(* An image a run calls its own has been built, and stays built.            *)
ImagesAreBuilt == imageARN = "built" \/ config.image = "built" => image = "CREATED"

(* Past the write, config.toml is this run's.                               *)
ConfigIsOwn ==
  pc \in Configured \/ WellDone => config = [image |-> imageARN, by |-> runs]

(* The archive of a run is on disk only while it builds, or after it failed;*)
(* the echo is off only from the prompt for the token on, or in a run after *)
(* one that was interrupted there.                                          *)
HostIsClean ==
  /\ runs \in archives => HoldsArchive \/ (pc = "idle" /\ outcome = "failed")
  /\ pc \in {"settings", "write"} \cup Configured \/ WellDone => echo
  /\ ~HasTerminal => echo

Inv == TypeOK /\ StepsHaveInputs /\ ImagesAreBuilt /\ ConfigIsOwn /\ HostIsClean

LEMMA InvInit == Init => Inv
<1> SUFFICES ASSUME Init PROVE Inv
  OBVIOUS
<1>1. TypeOK
  <2>1. config \in [image : {"none", "built", "typed"}, by : 0..runs]
    BY DEF Init, NoConfig
  <2>2. /\ runs \in 0..MaxRuns /\ exists \subseteq Buckets /\ uploaded \subseteq exists
        /\ archives \subseteq 1..runs /\ killed \subseteq 1..runs
    BY WizardAssumption DEF Init
  <2> QED
    BY <2>1, <2>2 DEF Init, TypeOK, Pcs
<1>2. StepsHaveInputs /\ ImagesAreBuilt /\ ConfigIsOwn /\ HostIsClean
  BY DEF Init, NoConfig, StepsHaveInputs, ImagesAreBuilt, ConfigIsOwn, HostIsClean,
         BuildHasItsInputs, WithArtifact, WithRole, WithBucket, Configured,
         WithImage, WellDone, HoldsArchive
<1> QED
  BY <1>1, <1>2 DEF Inv

LEMMA ValuesTyped ==
  ASSUME Inv, [Next]_vars
  PROVE  /\ pc' \in Pcs /\ runs' \in 0..MaxRuns
         /\ bucket' \in Buckets \cup {None} /\ source' \in Buckets \cup {None}
         /\ imageARN' \in {"none", "built", "typed"}
         /\ outcome' \in {"none", "ok", "failed"}
         /\ role' \in {"absent", "bare"} \cup Buckets
         /\ image' \in {"absent", "CREATING", "CREATED", "CREATE_FAILED"}
         /\ binary' \in {"absent", "whole", "torn"}
<1> USE WizardAssumption
    DEF Inv, TypeOK, Pcs, StepsHaveInputs, WithArtifact, WithRole, WithBucket,
        wizard, cloud, host, Step, Goto, Return, ArchiveRemoved, HoldsArchive
<1>1. CASE UNCHANGED vars
  BY <1>1 DEF vars
<1>2. CASE Begin \/ EndInput \/ Interrupt \/ BuildImage
  BY <1>2 DEF Begin, EndInput, Interrupt, BuildImage
<1>3. CASE Preflight \/ AskRegion \/ CallerIdentity \/ OfferBuild \/ AskExisting
  <2>1. CASE Preflight
    BY <2>1 DEF Preflight, Query
  <2>2. CASE AskRegion
    BY <2>2 DEF AskRegion, Query
  <2>3. CASE CallerIdentity
    BY <2>3 DEF CallerIdentity, Query
  <2>4. CASE OfferBuild
    BY <2>4 DEF OfferBuild, Query
  <2>5. CASE AskExisting
    BY <2>5 DEF AskExisting, Query
  <2> QED
    BY <1>3, <2>1, <2>2, <2>3, <2>4, <2>5
<1>4. CASE AskBucket \/ OfferBucket \/ CreateBucket
  <2>1. CASE AskBucket
    BY <2>1 DEF AskBucket, Answers
  <2>2. CASE OfferBucket
    BY <2>2 DEF OfferBucket
  <2>3. CASE CreateBucket
    BY <2>3 DEF CreateBucket, Call
  <2> QED
    BY <1>4, <2>1, <2>2, <2>3
<1>5. CASE LookUpRole \/ CreateRole \/ PutRolePolicy \/ RoleARN
  <2>1. CASE LookUpRole
    <3>1. /\ pc' \in {"roleARN", "createRole", "idle"}
          /\ outcome' \in {outcome, "failed"} /\ binary' = binary
          /\ UNCHANGED <<wizard, cloud>>
      BY <2>1 DEF LookUpRole
    <3> QED
      BY <3>1
  <2>2. CASE CreateRole
    BY <2>2 DEF CreateRole, Call, Query
  <2>3. CASE PutRolePolicy
    BY <2>3 DEF PutRolePolicy, Call, Query
  <2>4. CASE RoleARN
    BY <2>4 DEF RoleARN, Call, Query
  <2> QED
    BY <1>5, <2>1, <2>2, <2>3, <2>4
<1>6. CASE ZipContext \/ UploadArtifact \/ CreateMicrovmImage \/ PollImage
  <2>1. CASE ZipContext
    BY <2>1 DEF ZipContext, Call
  <2>2. CASE UploadArtifact
    BY <2>2 DEF UploadArtifact, Call
  <2>3. CASE CreateMicrovmImage
    BY <2>3 DEF CreateMicrovmImage, Call
  <2>4. CASE PollImage
    BY <2>4 DEF PollImage, Call
  <2> QED
    BY <1>6, <2>1, <2>2, <2>3, <2>4
<1>7. CASE AskURL \/ TakeToken \/ AskSettings \/ WriteConfig \/ OfferInstall \/
         InstallBinary
  <2>1. CASE AskURL
    BY <2>1 DEF AskURL
  <2>2. CASE TakeToken
    BY <2>2 DEF TakeToken
  <2>3. CASE AskSettings
    BY <2>3 DEF AskSettings
  <2>4. CASE WriteConfig
    BY <2>4 DEF WriteConfig
  <2>5. CASE OfferInstall
    BY <2>5 DEF OfferInstall
  <2>6. CASE InstallBinary
    BY <2>6 DEF InstallBinary
  <2> QED
    BY <1>7, <2>1, <2>2, <2>3, <2>4, <2>5, <2>6
<1> QED
  BY <1>1, <1>2, <1>3, <1>4, <1>5, <1>6, <1>7 DEF Next, WizardStep

LEMMA FlagsTyped ==
  ASSUME Inv, [Next]_vars
  PROVE  assumeYes' \in BOOLEAN /\ ended' \in BOOLEAN /\ echo' \in BOOLEAN
<1> USE WizardAssumption
    DEF Inv, TypeOK, wizard, cloud, host, Step, Goto, Return, ArchiveRemoved,
        HoldsArchive
<1>1. CASE UNCHANGED vars
  BY <1>1 DEF vars
<1>2. CASE Begin \/ EndInput \/ Interrupt \/ BuildImage
  BY <1>2 DEF Begin, EndInput, Interrupt, BuildImage
<1>3. CASE Preflight \/ AskRegion \/ CallerIdentity \/ OfferBuild \/ AskExisting
  BY <1>3 DEF Preflight, AskRegion, CallerIdentity, OfferBuild, AskExisting,
      Query
<1>4. CASE AskBucket \/ OfferBucket \/ CreateBucket
  BY <1>4 DEF AskBucket, OfferBucket, CreateBucket, Answers, Call
<1>5. CASE LookUpRole \/ CreateRole \/ PutRolePolicy \/ RoleARN
  BY <1>5 DEF LookUpRole, CreateRole, PutRolePolicy, RoleARN, Call, Query
<1>6. CASE ZipContext \/ UploadArtifact \/ CreateMicrovmImage \/ PollImage
  BY <1>6 DEF ZipContext, UploadArtifact, CreateMicrovmImage, PollImage, Call
<1>7. CASE AskURL \/ TakeToken \/ AskSettings \/ WriteConfig \/ OfferInstall \/
         InstallBinary
  BY <1>7 DEF AskURL, TakeToken, AskSettings, WriteConfig, OfferInstall,
      InstallBinary
<1> QED
  BY <1>1, <1>2, <1>3, <1>4, <1>5, <1>6, <1>7 DEF Next, WizardStep

LEMMA BucketsTyped ==
  ASSUME Inv, [Next]_vars
  PROVE  exists' \subseteq Buckets /\ uploaded' \subseteq exists'
<1> USE WizardAssumption
    DEF Inv, TypeOK, StepsHaveInputs, WithArtifact, WithRole, WithBucket,
        wizard, cloud, host, Step, Goto, Return, ArchiveRemoved, HoldsArchive
<1>1. CASE UNCHANGED vars
  BY <1>1 DEF vars
<1>2. CASE Begin \/ EndInput \/ Interrupt \/ BuildImage
  BY <1>2 DEF Begin, EndInput, Interrupt, BuildImage
<1>3. CASE Preflight \/ AskRegion \/ CallerIdentity \/ OfferBuild \/ AskExisting
  BY <1>3 DEF Preflight, AskRegion, CallerIdentity, OfferBuild, AskExisting,
      Query
<1>4. CASE AskBucket \/ OfferBucket \/ CreateBucket
  BY <1>4 DEF AskBucket, OfferBucket, CreateBucket, Answers, Call
<1>5. CASE LookUpRole \/ CreateRole \/ PutRolePolicy \/ RoleARN
  BY <1>5 DEF LookUpRole, CreateRole, PutRolePolicy, RoleARN, Call, Query
<1>6. CASE ZipContext \/ UploadArtifact \/ CreateMicrovmImage \/ PollImage
  BY <1>6 DEF ZipContext, UploadArtifact, CreateMicrovmImage, PollImage, Call
<1>7. CASE AskURL \/ TakeToken \/ AskSettings \/ WriteConfig \/ OfferInstall \/
         InstallBinary
  BY <1>7 DEF AskURL, TakeToken, AskSettings, WriteConfig, OfferInstall,
      InstallBinary
<1> QED
  BY <1>1, <1>2, <1>3, <1>4, <1>5, <1>6, <1>7 DEF Next, WizardStep

(* A run leaves an archive, or is interrupted, under its own number.        *)
LEMMA RunsTyped ==
  ASSUME Inv, [Next]_vars
  PROVE  runs' \in Nat /\ archives' \subseteq 1..runs' /\ killed' \subseteq 1..runs'
<1>1. runs \in Nat /\ archives \subseteq 1..runs /\ killed \subseteq 1..runs
  BY WizardAssumption DEF Inv, TypeOK
<1>2. pc # "idle" => runs \in 1..runs
  BY <1>1 DEF Inv, StepsHaveInputs
<1>3. CASE Begin
  BY <1>1, <1>3 DEF Begin, host
<1>4. CASE Interrupt
  <2>1. archives' \subseteq archives \cup {runs} /\ killed' = killed \cup {runs}
    BY <1>4 DEF Interrupt
  <2>2. runs' = runs /\ runs \in 1..runs
    BY <1>2, <1>4 DEF Interrupt, wizard
  <2> QED
    BY <1>1, <2>1, <2>2
<1>5. CASE ZipContext
  <2>1. archives' \subseteq archives \cup {runs} /\ killed' = killed
    BY <1>5 DEF ZipContext, Goto
  <2>2. runs' = runs /\ runs \in 1..runs
    BY <1>2, <1>5 DEF ZipContext, wizard
  <2> QED
    BY <1>1, <2>1, <2>2
<1>6. CASE ~Begin /\ ~Interrupt /\ ~ZipContext
  <2>1. UNCHANGED <<runs, killed>> /\ archives' \subseteq archives
    <3> USE <1>6 DEF wizard, host, Step, Goto, Return, ArchiveRemoved
    <3>1. CASE UNCHANGED vars
      BY <3>1 DEF vars
    <3>2. CASE EndInput \/ BuildImage
      BY <3>2 DEF EndInput, BuildImage
    <3>3. CASE Preflight \/ AskRegion \/ CallerIdentity \/ OfferBuild \/
             AskExisting
      BY <3>3 DEF Preflight, AskRegion, CallerIdentity, OfferBuild, AskExisting,
          Query
    <3>4. CASE AskBucket \/ OfferBucket \/ CreateBucket
      BY <3>4 DEF AskBucket, OfferBucket, CreateBucket, Answers, Call
    <3>5. CASE LookUpRole \/ CreateRole \/ PutRolePolicy \/ RoleARN
      BY <3>5 DEF LookUpRole, CreateRole, PutRolePolicy, RoleARN, Call, Query
    <3>6. CASE UploadArtifact \/ CreateMicrovmImage \/ PollImage
      BY <3>6 DEF UploadArtifact, CreateMicrovmImage, PollImage, Call
    <3>7. CASE AskURL \/ TakeToken \/ AskSettings \/ WriteConfig \/ OfferInstall
             \/ InstallBinary
      BY <3>7 DEF AskURL, TakeToken, AskSettings, WriteConfig, OfferInstall,
          InstallBinary
    <3> QED
      BY <1>6, <3>1, <3>2, <3>3, <3>4, <3>5, <3>6, <3>7 DEF Next, WizardStep
  <2> QED
    BY <1>1, <2>1
<1> QED
  BY <1>3, <1>4, <1>5, <1>6

LEMMA ConfigTyped ==
  ASSUME Inv, [Next]_vars
  PROVE  config' \in [image : {"none", "built", "typed"}, by : 0..runs']
<1> USE WizardAssumption
    DEF Inv, TypeOK, NoConfig, StepsHaveInputs, wizard, cloud, host, Step, Goto,
        Return, ArchiveRemoved, HoldsArchive
<1>1. CASE UNCHANGED vars
  BY <1>1 DEF vars
<1>2. CASE Begin \/ EndInput \/ Interrupt \/ BuildImage
  BY <1>2 DEF Begin, EndInput, Interrupt, BuildImage
<1>3. CASE Preflight \/ AskRegion \/ CallerIdentity \/ OfferBuild \/ AskExisting
  BY <1>3 DEF Preflight, AskRegion, CallerIdentity, OfferBuild, AskExisting,
      Query
<1>4. CASE AskBucket \/ OfferBucket \/ CreateBucket
  BY <1>4 DEF AskBucket, OfferBucket, CreateBucket, Answers, Call
<1>5. CASE LookUpRole \/ CreateRole \/ PutRolePolicy \/ RoleARN
  BY <1>5 DEF LookUpRole, CreateRole, PutRolePolicy, RoleARN, Call, Query
<1>6. CASE ZipContext \/ UploadArtifact \/ CreateMicrovmImage \/ PollImage
  BY <1>6 DEF ZipContext, UploadArtifact, CreateMicrovmImage, PollImage, Call
<1>7. CASE AskURL \/ TakeToken \/ AskSettings \/ WriteConfig \/ OfferInstall \/
         InstallBinary
  <2>1. CASE AskURL
    BY <2>1 DEF AskURL
  <2>2. CASE TakeToken
    BY <2>2 DEF TakeToken
  <2>3. CASE AskSettings
    BY <2>3 DEF AskSettings
  <2>4. CASE WriteConfig
    BY <2>4 DEF WriteConfig
  <2>5. CASE OfferInstall
    BY <2>5 DEF OfferInstall
  <2>6. CASE InstallBinary
    BY <2>6 DEF InstallBinary
  <2> QED
    BY <1>7, <2>1, <2>2, <2>3, <2>4, <2>5, <2>6
<1> QED
  BY <1>1, <1>2, <1>3, <1>4, <1>5, <1>6, <1>7 DEF Next, WizardStep

LEMMA TypeNext == Inv /\ [Next]_vars => TypeOK'
BY ValuesTyped, FlagsTyped, BucketsTyped, RunsTyped, ConfigTyped DEF TypeOK

LEMMA InputsNext == Inv /\ [Next]_vars => StepsHaveInputs'
<1> SUFFICES ASSUME Inv, [Next]_vars PROVE StepsHaveInputs'
  OBVIOUS
<1> USE WizardAssumption
    DEF Inv, TypeOK, StepsHaveInputs, BuildHasItsInputs, WithArtifact, WithRole,
        WithBucket, Configured, WithImage, WellDone, wizard, cloud, host, Step,
        Goto, Return, ArchiveRemoved, HoldsArchive
<1>1. CASE UNCHANGED vars
  BY <1>1 DEF vars
<1>2. CASE Begin \/ EndInput \/ Interrupt \/ BuildImage
  BY <1>2 DEF Begin, EndInput, Interrupt, BuildImage
<1>3. CASE Preflight \/ AskRegion \/ CallerIdentity \/ OfferBuild \/ AskExisting
  BY <1>3 DEF Preflight, AskRegion, CallerIdentity, OfferBuild, AskExisting,
      Query
<1>4. CASE AskBucket \/ OfferBucket \/ CreateBucket
  <2>1. CASE AskBucket
    BY <2>1 DEF AskBucket, Answers, Call
  <2>2. CASE OfferBucket
    BY <2>2 DEF OfferBucket, Answers, Call
  <2>3. CASE CreateBucket
    BY <2>3 DEF CreateBucket, Answers, Call
  <2> QED
    BY <1>4, <2>1, <2>2, <2>3
<1>5. CASE LookUpRole
  BY <1>5 DEF LookUpRole, Call, Query
<1>6. CASE CreateRole
  BY <1>6 DEF CreateRole, Call, Query
<1>7. CASE PutRolePolicy
  BY <1>7 DEF PutRolePolicy, Call, Query
<1>8. CASE RoleARN
  BY <1>8 DEF RoleARN, Call, Query
<1>9. CASE ZipContext \/ UploadArtifact \/ CreateMicrovmImage \/ PollImage
  BY <1>9 DEF ZipContext, UploadArtifact, CreateMicrovmImage, PollImage, Call
<1>10. CASE AskURL \/ TakeToken \/ AskSettings \/ WriteConfig \/ OfferInstall \/
         InstallBinary
  BY <1>10 DEF AskURL, TakeToken, AskSettings, WriteConfig, OfferInstall,
      InstallBinary
<1> QED
  BY <1>1, <1>2, <1>3, <1>4, <1>5, <1>6, <1>7, <1>8, <1>9, <1>10 DEF Next,
      WizardStep

LEMMA ImagesNext == Inv /\ [Next]_vars => ImagesAreBuilt'
<1> SUFFICES ASSUME Inv, [Next]_vars PROVE ImagesAreBuilt'
  OBVIOUS
<1> USE WizardAssumption
    DEF Inv, TypeOK, ImagesAreBuilt, NoConfig, wizard, cloud, host, Step, Goto,
        Return, ArchiveRemoved, HoldsArchive
<1>1. CASE UNCHANGED vars
  BY <1>1 DEF vars
<1>2. CASE Begin \/ EndInput \/ Interrupt \/ BuildImage
  BY <1>2 DEF Begin, EndInput, Interrupt, BuildImage
<1>3. CASE Preflight \/ AskRegion \/ CallerIdentity \/ OfferBuild \/ AskExisting
  BY <1>3 DEF Preflight, AskRegion, CallerIdentity, OfferBuild, AskExisting,
      Query
<1>4. CASE AskBucket \/ OfferBucket \/ CreateBucket
  BY <1>4 DEF AskBucket, OfferBucket, CreateBucket, Answers, Call
<1>5. CASE LookUpRole \/ CreateRole \/ PutRolePolicy \/ RoleARN
  BY <1>5 DEF LookUpRole, CreateRole, PutRolePolicy, RoleARN, Call, Query
<1>6. CASE ZipContext \/ UploadArtifact \/ CreateMicrovmImage \/ PollImage
  BY <1>6 DEF ZipContext, UploadArtifact, CreateMicrovmImage, PollImage, Call
<1>7. CASE AskURL
  BY <1>7 DEF AskURL
<1>8. CASE TakeToken
  BY <1>8 DEF TakeToken
<1>9. CASE AskSettings
  BY <1>9 DEF AskSettings
<1>10. CASE WriteConfig
  BY <1>10 DEF WriteConfig
<1>11. CASE OfferInstall
  BY <1>11 DEF OfferInstall
<1>12. CASE InstallBinary
  BY <1>12 DEF InstallBinary
<1> QED
  BY <1>1, <1>2, <1>3, <1>4, <1>5, <1>6, <1>7, <1>8, <1>9, <1>10, <1>11, <1>12
      DEF Next, WizardStep

LEMMA ConfigNext == Inv /\ [Next]_vars => ConfigIsOwn'
<1> SUFFICES ASSUME Inv, [Next]_vars PROVE ConfigIsOwn'
  OBVIOUS
<1> USE WizardAssumption
    DEF Inv, TypeOK, ConfigIsOwn, Configured, WellDone, wizard, cloud, host,
        Step, Goto, Return, ArchiveRemoved, HoldsArchive
<1>1. CASE UNCHANGED vars
  BY <1>1 DEF vars
<1>2. CASE Begin \/ EndInput \/ Interrupt \/ BuildImage
  BY <1>2 DEF Begin, EndInput, Interrupt, BuildImage
<1>3. CASE Preflight \/ AskRegion \/ CallerIdentity \/ OfferBuild \/ AskExisting
  BY <1>3 DEF Preflight, AskRegion, CallerIdentity, OfferBuild, AskExisting,
      Query
<1>4. CASE AskBucket \/ OfferBucket \/ CreateBucket
  BY <1>4 DEF AskBucket, OfferBucket, CreateBucket, Answers, Call
<1>5. CASE LookUpRole \/ CreateRole \/ PutRolePolicy \/ RoleARN
  BY <1>5 DEF LookUpRole, CreateRole, PutRolePolicy, RoleARN, Call, Query
<1>6. CASE ZipContext \/ UploadArtifact \/ CreateMicrovmImage \/ PollImage
  BY <1>6 DEF ZipContext, UploadArtifact, CreateMicrovmImage, PollImage, Call
<1>7. CASE AskURL \/ TakeToken \/ AskSettings \/ WriteConfig \/ OfferInstall \/
         InstallBinary
  BY <1>7 DEF AskURL, TakeToken, AskSettings, WriteConfig, OfferInstall,
      InstallBinary
<1> QED
  BY <1>1, <1>2, <1>3, <1>4, <1>5, <1>6, <1>7 DEF Next, WizardStep

LEMMA HostNext == Inv /\ [Next]_vars => HostIsClean'
<1> SUFFICES ASSUME Inv, [Next]_vars PROVE HostIsClean'
  OBVIOUS
<1> USE WizardAssumption
    DEF Inv, TypeOK, HostIsClean, Configured, WellDone, StepsHaveInputs, wizard,
        cloud, host, Step, Goto, Return, ArchiveRemoved, HoldsArchive
<1>1. CASE UNCHANGED vars
  BY <1>1 DEF vars
<1>2. CASE Begin \/ EndInput \/ Interrupt \/ BuildImage
  BY <1>2 DEF Begin, EndInput, Interrupt, BuildImage
<1>3. CASE Preflight \/ AskRegion \/ CallerIdentity \/ OfferBuild \/ AskExisting
  BY <1>3 DEF Preflight, AskRegion, CallerIdentity, OfferBuild, AskExisting,
      Query
<1>4. CASE AskBucket \/ OfferBucket \/ CreateBucket
  BY <1>4 DEF AskBucket, OfferBucket, CreateBucket, Answers, Call
<1>5. CASE LookUpRole \/ CreateRole \/ PutRolePolicy \/ RoleARN
  BY <1>5 DEF LookUpRole, CreateRole, PutRolePolicy, RoleARN, Call, Query
<1>6. CASE ZipContext \/ UploadArtifact \/ CreateMicrovmImage \/ PollImage
  BY <1>6 DEF ZipContext, UploadArtifact, CreateMicrovmImage, PollImage, Call
<1>7. CASE AskURL \/ TakeToken \/ AskSettings \/ WriteConfig \/ OfferInstall \/
         InstallBinary
  BY <1>7 DEF AskURL, TakeToken, AskSettings, WriteConfig, OfferInstall,
      InstallBinary
<1> QED
  BY <1>1, <1>2, <1>3, <1>4, <1>5, <1>6, <1>7 DEF Next, WizardStep

LEMMA InvNext == Inv /\ [Next]_vars => Inv'
BY TypeNext, InputsNext, ImagesNext, ConfigNext, HostNext DEF Inv

LEMMA Invariant == Spec => []Inv
BY InvInit, InvNext, PTL DEF Spec

----------------------------------------------------------------------------
(* The types, whatever runs were cut short.                                 *)
THEOREM WizardTypeCorrect == Spec => []TypeOK
<1>1. Inv => TypeOK
  BY DEF Inv
<1> QED
  BY <1>1, Invariant, PTL

(* The order of buildImage (setup.go:114-154) holds across any number of    *)
(* runs that were cut short: no image without its artifact and a role.      *)
THEOREM WizardBuildsFromInputs == Spec => []BuildHasItsInputs
<1>1. Inv => BuildHasItsInputs
  BY DEF Inv, StepsHaveInputs
<1> QED
  BY <1>1, Invariant, PTL

(* config.toml never names a built image that is not CREATED                *)
(* (setup.go:49-90, 182-201).                                               *)
THEOREM WizardNamesBuiltImage == Spec => []ConfigNamesBuiltImage
<1>1. Inv => ConfigNamesBuiltImage
  BY DEF Inv, ImagesAreBuilt, ConfigNamesBuiltImage
<1> QED
  BY <1>1, Invariant, PTL

(* "ok" means the config of this run, with the image it settled on.         *)
THEOREM WizardSuccessIsConfigured == Spec => []SuccessIsConfigured
<1>1. Inv => SuccessIsConfigured
  BY DEF Inv, StepsHaveInputs, ConfigIsOwn, WellDone, SuccessIsConfigured
<1> QED
  BY <1>1, Invariant, PTL

(* "ok" means no archive of this run and a terminal that echoes.            *)
THEOREM WizardSuccessCleansUp == Spec => []SuccessCleansUp
<1>1. Inv => SuccessCleansUp
  BY DEF Inv, HostIsClean, HoldsArchive, WellDone, SuccessCleansUp
<1> QED
  BY <1>1, Invariant, PTL

=============================================================================
