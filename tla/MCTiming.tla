------------------------------ MODULE MCTiming ------------------------------
(* A small instance of StageTiming, on RunnerSetup, for TLC.                *)
EXTENDS StageTiming, TLC

Numerals == ("0" :> 0) @@ ("-5" :> -5) @@ ("3" :> 3) @@ ("5" :> 5) @@ ("7" :> 7)
            @@ ("60" :> 60) @@ ("89" :> 89) @@ ("119" :> 119) @@ ("9090" :> 9090)
            @@ ("86400" :> 86400)
Decimals == (89 :> "89") @@ (-5 :> "-5") @@ (10 :> "10")
Blanks   == (" " :> "") @@ (" 7 " :> "7")
Lists    == (",a, " :> <<"", "a", " ">>)

(* Two operators: one with a maximum duration, one whose number is none.  *)
Defaults ==
  [ region |-> "us-east-1", imageARN |-> "built", buildsDir |-> "/builds",
    cacheDir |-> "/cache", stateDir |-> "/var/lib/microvm-executor",
    maxDuration |-> 89, concurrent |-> 10 ]

Custom ==
  [ Defaults EXCEPT !.region = "eu-west-1", !.buildsDir = "/work",
                    !.stateDir = "/srv", !.maxDuration = -5 ]

WizardAnswers == {Defaults, Custom}

(* Waits that fit prepare's budget exactly.                                 *)
Fitting == ("MICROVM_RUN_TIMEOUT_SECONDS" :> "5") @@ ("MICROVM_HEALTH_TIMEOUT_SECONDS" :> "3")

(* Nothing; a region alone; and, exported again, all that the wizard wrote:  *)
(* as it is; with more; with a wait that does not fit, or is none; and with  *)
(* a maximum duration that the service grants, or refuses.                  *)
HostExports ==
  { <<>>, "AWS_REGION" :> "us-east-1" }
  \cup {Fitting @@ renderConfig(a).environment : a \in WizardAnswers}
  \cup { ("MICROVM_INGRESS_CONNECTORS" :> ",a, ") @@ ("MICROVM_TOKEN_TTL_MINUTES" :> " 7 ")
           @@ Fitting @@ renderConfig(Defaults).environment,
         ("MICROVM_RUN_TIMEOUT_SECONDS" :> "7") @@ Fitting
           @@ renderConfig(Defaults).environment,
         ("MICROVM_RUN_TIMEOUT_SECONDS" :> "-5")
           @@ ("MICROVM_MAX_DURATION_SECONDS" :> "119") @@ Fitting
           @@ renderConfig(Custom).environment,
         ("MICROVM_MAX_DURATION_SECONDS" :> "86400") @@ Fitting
           @@ renderConfig(Custom).environment }

(* Jobs that set what they may override, and what they may not.             *)
Overrides ==
  { <<>>,
    "CI_JOB_TIMEOUT" :> "60",
    ("CI_JOB_TIMEOUT" :> "89") @@ ("MICROVM_IMAGE" :> "job")
      @@ ("MICROVM_AGENT_PORT" :> "9090"),
    ("CI_JOB_TIMEOUT" :> "119") @@ ("MICROVM_IMAGE" :> " ")
      @@ ("MICROVM_MAX_DURATION_SECONDS" :> "60") @@ ("MICROVM_STATE_DIR" :> "job")
      @@ ("MICROVM_EXECUTION_ROLE_ARN" :> "job")
      @@ ("MICROVM_EGRESS_CONNECTORS" :> ",a, ")
      @@ ("MICROVM_RUN_TIMEOUT_SECONDS" :> "60") }

=============================================================================
