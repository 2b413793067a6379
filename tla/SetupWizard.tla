----------------------------- MODULE SetupWizard ----------------------------
(***************************************************************************)
(* The setup wizard (internal/setup): it provisions a bucket and a build    *)
(* role, uploads the build context, has the MicroVM image built, and writes *)
(* config.toml.  An operator may answer, stop answering (end of input) or   *)
(* interrupt it, every AWS call may fail before or after it took effect,    *)
(* and the wizard is run again on what the runs before it left behind.      *)
(* One role name, one image name and one config path; several buckets.      *)
(***************************************************************************)
EXTENDS Naturals

CONSTANTS
  Buckets,        (* bucket names the operator may choose                    *)
  DefaultBucket,  (* the one the wizard proposes                            *)
  HasRegion,      (* environment or AWS profile name a region               *)
  HasTerminal,    (* there is a terminal whose echo stty can switch          *)
  MaxRuns,        (* how often the wizard is run                            *)
  None

ASSUME WizardAssumption ==
  /\ DefaultBucket \in Buckets
  /\ None \notin Buckets
  /\ {"absent", "bare"} \cap Buckets = {} (* names of states of a role      *)
  /\ {HasRegion, HasTerminal} \subseteq BOOLEAN
  /\ MaxRuns \in Nat \ {0}

VARIABLES
  pc,        (* the next step of the wizard, "idle" when it is not running   *)
  runs,      (* runs begun                                                  *)
  assumeYes, (* --yes                                                       *)
  ended,     (* the input is at its end                                     *)
  bucket,    (* the bucket chosen in this run                               *)
  imageARN,  (* the image of this run: "none", "built" or "typed"           *)
  outcome,   (* of the last run that returned                               *)
  exists,    (* buckets that exist                                          *)
  role,      (* "absent", "bare", or the bucket its policy names            *)
  uploaded,  (* buckets that hold the artifact                              *)
  image,     (* state of the MicroVM image                                  *)
  source,    (* the bucket the image is built from                          *)
  archives,  (* runs whose temporary archive is on disk                     *)
  echo,      (* the terminal shows what is typed                            *)
  killed,    (* history: runs that were interrupted                         *)
  config,    (* config.toml: the image it names, and the run that wrote it   *)
  binary     (* the installed driver                                        *)

wizard == <<runs, assumeYes, bucket, imageARN>>
cloud  == <<exists, role, uploaded, image, source>>
host   == <<archives, config, binary>>
vars   == <<pc, wizard, ended, outcome, cloud, host, echo, killed>>

Pcs == {"idle", "preflight", "region", "identity", "offerBuild", "existing",
        "bucket", "offerBucket", "createBucket", "role", "createRole",
        "putPolicy", "roleARN", "zip", "upload", "createImage", "poll",
        "url", "token", "settings", "write", "offerInstall", "install"}

NoConfig == [image |-> "none", by |-> 0]

TypeOK ==
  /\ pc \in Pcs
  /\ runs \in 0..MaxRuns
  /\ {assumeYes, ended, echo} \subseteq BOOLEAN
  /\ bucket \in Buckets \cup {None}
  /\ imageARN \in {"none", "built", "typed"}
  /\ outcome \in {"none", "ok", "failed"}
  /\ exists \subseteq Buckets
  /\ role \in {"absent", "bare"} \cup Buckets
  /\ uploaded \subseteq exists
  /\ image \in {"absent", "CREATING", "CREATED", "CREATE_FAILED"}
  /\ source \in Buckets \cup {None}
  /\ archives \subseteq 1..runs /\ killed \subseteq 1..runs
  /\ config \in [image : {"none", "built", "typed"}, by : 0..runs]
  /\ binary \in {"absent", "whole", "torn"}

Init ==
  /\ pc = "idle" /\ runs = 0
  /\ assumeYes = FALSE /\ ended = FALSE
  /\ bucket = None /\ imageARN = "none" /\ outcome = "none"
  /\ exists \in SUBSET Buckets
  /\ role = "absent" /\ uploaded = {}
  /\ image = "absent" /\ source = None
  /\ archives = {} /\ killed = {}
  /\ config = NoConfig /\ binary = "absent"
  /\ echo = TRUE

----------------------------------------------------------------------------
(* Prompts.                                                                 *)

(* ask: an empty line, or the end of the input, takes the default.          *)
Answers(options, default) ==
  IF ended THEN {default} ELSE options \cup {default}

(* confirm: --yes takes the default silently.                               *)
Confirms(default) ==
  IF assumeYes THEN {default} ELSE Answers(BOOLEAN, default)

----------------------------------------------------------------------------
(* How a step goes on.                                                      *)

Goto(next) ==
  /\ pc' = next
  /\ UNCHANGED <<ended, outcome, echo, killed>>

Step(from, to) ==
  /\ pc = from
  /\ Goto(to)

(* buildImage removes the archive when it returns, however it returns.      *)
HoldsArchive == pc \in {"upload", "createImage", "poll"}

ArchiveRemoved ==
  archives' = IF HoldsArchive THEN archives \ {runs} ELSE archives

(* setup.Run returns.                                                       *)
Return(result) ==
  /\ pc' = "idle"
  /\ outcome' = result
  /\ ArchiveRemoved
  /\ UNCHANGED <<ended, echo, killed, config, binary>>

(* An AWS call that changes nothing may succeed or fail.                    *)
Query(from, to) ==
  \/ Step(from, to) /\ UNCHANGED <<wizard, cloud, host>>
  \/ pc = from /\ Return("failed") /\ UNCHANGED <<wizard, cloud>>

(* An AWS call with an effect: it fails before or after it took effect, or  *)
(* the wizard hears that it succeeded.                                      *)
Call(from, to, Effect) ==
  \/ Step(from, to) /\ Effect /\ UNCHANGED <<wizard, host>>
  \/ /\ pc = from
     /\ Return("failed")
     /\ Effect \/ UNCHANGED cloud
     /\ UNCHANGED wizard

----------------------------------------------------------------------------
Begin ==
  /\ pc = "idle"
  /\ runs < MaxRuns
  /\ pc' = "preflight"
  /\ runs' = runs + 1
  /\ assumeYes' \in BOOLEAN
  /\ ended' \in BOOLEAN
  /\ bucket' = None
  /\ imageARN' = "none"
  /\ UNCHANGED <<outcome, cloud, host, echo, killed>>

(* The aws command is looked up.                                            *)
Preflight == Query("preflight", "region")

(* askRequired asks again, for ever, until it has a value.                  *)
AskRegion ==
  /\ TRUE \in Answers({TRUE}, HasRegion)
  /\ Step("region", "identity")
  /\ UNCHANGED <<wizard, cloud, host>>

CallerIdentity == Query("identity", "offerBuild")

OfferBuild ==
  /\ pc = "offerBuild"
  /\ \E yes \in Confirms(TRUE) :
       IF yes THEN Goto("bucket") ELSE Goto("existing")
  /\ UNCHANGED <<wizard, cloud, host>>

AskExisting ==
  /\ TRUE \in Answers({TRUE}, FALSE)
  /\ Step("existing", "url")
  /\ imageARN' = "typed"
  /\ UNCHANGED <<runs, assumeYes, bucket, cloud, host>>

Bug_AskBucket ==
  /\ pc = "bucket"
  /\ \/ Return("failed") /\ UNCHANGED <<wizard, cloud>>
     \/ /\ bucket' \in Answers(Buckets, DefaultBucket)
        /\ Goto("role")
        /\ UNCHANGED <<runs, assumeYes, imageARN, cloud, host>>

(* No checkout to build from ends the run; else the bucket is asked for and *)
(* looked up.  An error of head-bucket counts as "does not exist".          *)
AskBucket ==
  /\ pc = "bucket"
  /\ \/ Return("failed") /\ UNCHANGED <<wizard, cloud>>
     \/ /\ bucket' \in Answers(Buckets, DefaultBucket)
        /\ \/ bucket' \in exists /\ Goto("role")
           \/ Goto("offerBucket")
        /\ UNCHANGED <<runs, assumeYes, imageARN, cloud, host>>

OfferBucket ==
  /\ pc = "offerBucket"
  /\ \E yes \in Confirms(TRUE) :
       IF yes THEN Goto("createBucket") /\ UNCHANGED host ELSE Return("failed")
  /\ UNCHANGED <<wizard, cloud>>

CreateBucket ==
  Call("createBucket", "role",
       /\ exists' = exists \cup {bucket}
       /\ UNCHANGED <<role, uploaded, image, source>>)

(* ensureBuildRole: a role that is there is taken as it is; an error of     *)
(* get-role counts as "does not exist".                                     *)
LookUpRole ==
  /\ pc = "role"
  /\ \/ role # "absent" /\ Goto("roleARN") /\ UNCHANGED host
     \/ \E yes \in Confirms(TRUE) :
          IF yes THEN Goto("createRole") /\ UNCHANGED host ELSE Return("failed")
  /\ UNCHANGED <<wizard, cloud>>

(* create-role is refused when the role is there.                           *)
CreateRole ==
  \/ /\ role = "absent"
     /\ Call("createRole", "putPolicy",
             /\ role' = "bare"
             /\ UNCHANGED <<exists, uploaded, image, source>>)
  \/ /\ role # "absent"
     /\ pc = "createRole"
     /\ Return("failed")
     /\ UNCHANGED <<wizard, cloud>>

PutRolePolicy ==
  Call("putPolicy", "roleARN",
       /\ role' = bucket
       /\ UNCHANGED <<exists, uploaded, image, source>>)

RoleARN == Query("roleARN", "zip")

(* zipContext: once the temporary file is there, every error leaves it, and *)
(* the caller does not learn its name.                                      *)
ZipContext ==
  /\ pc = "zip"
  /\ \/ /\ Goto("upload")
        /\ archives' = archives \cup {runs}
     \/ /\ pc' = "idle" /\ outcome' = "failed"
        /\ archives' \in {archives, archives \cup {runs}}
        /\ UNCHANGED <<ended, echo, killed>>
  /\ UNCHANGED <<wizard, cloud, config, binary>>

Bug_UploadArtifact ==
  /\ pc = "upload"
  /\ Goto("createImage")
  /\ uploaded' \in {uploaded, uploaded \cup {bucket}}
  /\ UNCHANGED <<wizard, host, exists, role, image, source>>

UploadArtifact ==
  Call("upload", "createImage",
       /\ uploaded' = uploaded \cup {bucket}
       /\ UNCHANGED <<exists, role, image, source>>)

(* create-microvm-image is refused when the name is taken.                  *)
CreateMicrovmImage ==
  \/ /\ image = "absent"
     /\ Call("createImage", "poll",
             /\ image' = "CREATING"
             /\ source' = bucket
             /\ UNCHANGED <<exists, role, uploaded>>)
  \/ /\ image # "absent"
     /\ pc = "createImage"
     /\ Return("failed")
     /\ UNCHANGED <<wizard, cloud>>

Bug_PollImage ==
  /\ pc = "poll"
  /\ \/ /\ image # "CREATE_FAILED"
        /\ imageARN' = "built"
        /\ Goto("url")
        /\ ArchiveRemoved
        /\ UNCHANGED <<config, binary>>
     \/ Return("failed") /\ UNCHANGED imageARN
  /\ UNCHANGED <<runs, assumeYes, bucket, cloud>>

Bug_PollKeepsZip ==
  /\ pc = "poll"
  /\ \/ /\ image = "CREATED"
        /\ imageARN' = "built"
        /\ Goto("url")
        /\ UNCHANGED host
     \/ Return("failed") /\ UNCHANGED imageARN
  /\ UNCHANGED <<runs, assumeYes, bucket, cloud>>

Bug_PollForever ==
  /\ pc = "poll"
  /\ \/ /\ image = "CREATED"
        /\ imageARN' = "built"
        /\ Goto("url")
        /\ ArchiveRemoved
        /\ UNCHANGED <<config, binary>>
     \/ /\ image = "CREATE_FAILED"
        /\ Return("failed") /\ UNCHANGED imageARN
  /\ UNCHANGED <<runs, assumeYes, bucket, cloud>>

(* pollImage: the image is CREATED; or it failed, a call did, or fifteen    *)
(* minutes have passed.                                                     *)
PollImage ==
  /\ pc = "poll"
  /\ \/ /\ image = "CREATED"
        /\ imageARN' = "built"
        /\ Goto("url")
        /\ ArchiveRemoved
        /\ UNCHANGED <<config, binary>>
     \/ Return("failed") /\ UNCHANGED imageARN
  /\ UNCHANGED <<runs, assumeYes, bucket, cloud>>

(* The URL has a default; then secret switches the echo off.                *)
AskURL ==
  /\ pc = "url"
  /\ pc' = "token"
  /\ echo' = (echo /\ ~HasTerminal)
  /\ UNCHANGED <<wizard, ended, outcome, cloud, host, killed>>

(* A token, or an empty answer for which a placeholder is written; the echo *)
(* is switched on again.                                                    *)
TakeToken ==
  /\ pc = "token"
  /\ pc' = "settings"
  /\ echo' = (echo \/ HasTerminal)
  /\ UNCHANGED <<wizard, ended, outcome, cloud, host, killed>>

(* Paths and limits: every prompt has a default.                            *)
AskSettings == Step("settings", "write") /\ UNCHANGED <<wizard, cloud, host>>

Bug_WriteConfig ==
  /\ pc = "write"
  /\ Goto("offerInstall")
  /\ config' \in {[image |-> imageARN, by |-> runs], config, NoConfig}
  /\ UNCHANGED <<wizard, cloud, archives, binary>>

(* os.WriteFile truncates the file first: an error leaves the old config or *)
(* none at all.                                                             *)
WriteConfig ==
  /\ pc = "write"
  /\ \/ /\ Goto("offerInstall")
        /\ config' = [image |-> imageARN, by |-> runs]
     \/ /\ pc' = "idle" /\ outcome' = "failed"
        /\ config' \in {config, NoConfig}
        /\ UNCHANGED <<ended, echo, killed>>
  /\ UNCHANGED <<wizard, cloud, archives, binary>>

OfferInstall ==
  /\ pc = "offerInstall"
  /\ \E yes \in Confirms(FALSE) :
       IF yes THEN Goto("install") /\ UNCHANGED host ELSE Return("ok")
  /\ UNCHANGED <<wizard, cloud>>

(* installBinary: an error is only a warning.                               *)
InstallBinary ==
  /\ pc = "install"
  /\ pc' = "idle" /\ outcome' = "ok"
  /\ binary' \in {"whole", "torn", binary}
  /\ UNCHANGED <<wizard, ended, echo, killed, cloud, archives, config>>

----------------------------------------------------------------------------
(* Around the wizard.                                                       *)

EndInput ==
  /\ pc # "idle"
  /\ ~ended
  /\ ended' = TRUE
  /\ UNCHANGED <<pc, wizard, outcome, cloud, host, echo, killed>>

(* Ctrl-C: nothing deferred runs, and a file being written is left as it is. *)
Interrupt ==
  /\ pc # "idle"
  /\ pc' = "idle"
  /\ killed' = killed \cup {runs}
  /\ outcome' = "failed"
  /\ archives' \in {archives} \cup (IF pc = "zip" THEN {archives \cup {runs}} ELSE {})
  /\ config' \in {config} \cup (IF pc = "write" THEN {NoConfig} ELSE {})
  /\ binary' \in {binary} \cup (IF pc = "install" THEN {"torn"} ELSE {})
  /\ UNCHANGED <<wizard, ended, cloud, echo>>

(* Lambda builds the image.                                                 *)
BuildImage ==
  /\ image = "CREATING"
  /\ image' \in {"CREATED", "CREATE_FAILED"}
  /\ UNCHANGED <<pc, wizard, ended, outcome, exists, role, uploaded, source,
                 host, echo, killed>>

----------------------------------------------------------------------------
WizardStep ==
  \/ Preflight \/ AskRegion \/ CallerIdentity \/ OfferBuild \/ AskExisting
  \/ AskBucket \/ OfferBucket \/ CreateBucket
  \/ LookUpRole \/ CreateRole \/ PutRolePolicy \/ RoleARN
  \/ ZipContext \/ UploadArtifact \/ CreateMicrovmImage \/ PollImage
  \/ AskURL \/ TakeToken \/ AskSettings \/ WriteConfig \/ OfferInstall \/ InstallBinary

Next == Begin \/ WizardStep \/ EndInput \/ Interrupt \/ BuildImage

Spec == Init /\ [][Next]_vars

(* The wizard runs and its AWS calls return; nothing is assumed of the image *)
(* build.                                                                   *)
FairSpec == Spec /\ WF_vars(WizardStep)

----------------------------------------------------------------------------
(* Properties.                                                              *)

(* Whatever the runs before it left half done, an image is only ever asked  *)
(* for when its artifact is in the bucket and the role exists               *)
(* (setup.go:114-154).                                                      *)
BuildHasItsInputs ==
  image # "absent" => source \in uploaded /\ role # "absent"

(* A config.toml that names an image the wizard built names one that is     *)
(* CREATED, also when a later run timed out, failed or was interrupted      *)
(* (setup.go:49-90, 182-201).                                               *)
ConfigNamesBuiltImage == config.image = "built" => image = "CREATED"

(* A run that ends well has left the config of this very run, with the      *)
(* image it settled on: never the remains of an earlier run                 *)
(* (setup.go:84-97).                                                        *)
SuccessIsConfigured ==
  pc = "idle" /\ outcome = "ok"
  => config = [image |-> imageARN, by |-> runs] /\ imageARN # "none"

(* A run that ends well has left nothing of its own behind on the host: its  *)
(* archive is gone, and the terminal echoes again, even when an interrupted *)
(* run before it had left the echo off (setup.go:136-141, prompt.go:128-151). *)
SuccessCleansUp ==
  pc = "idle" /\ outcome = "ok" => runs \notin archives /\ echo

(* A run ends, or asks for an image ARN that has no default at the end of   *)
(* its input, where askRequired repeats the question for ever               *)
(* (setup.go:183-200, prompt.go:80-88).                                     *)
WizardEnds ==
  pc # "idle" ~> pc = "idle" \/ (pc = "existing" /\ ended)

----------------------------------------------------------------------------
(* What documents and comments say and the code refutes.                    *)

(* "buildRolePolicy grants the build role read access to the artifact       *)
(* bucket" (render.go:74): an image is built with a role that may read the  *)
(* bucket it is built from.                                                 *)
RoleReadsArtifact == image = "CREATING" => role = source

=============================================================================
