----------------------------- MODULE RemoteExec -----------------------------
(***************************************************************************)
(* What a run stage is promised of the exec path: running a script in the  *)
(* VM looks like running it locally, except that the caller may be told the *)
(* run was given up.  Output arrives in order; an exit code is reported     *)
(* only when it is the script's own and all output has arrived.             *)
(***************************************************************************)
EXTENDS Naturals

CONSTANTS
  Streams,   (* "stdout" and "stderr"                                       *)
  Codes,     (* exit statuses a script may end with                         *)
  Running    (* no exit status yet                                          *)

VARIABLES
  written,   (* chunks the script and its children have written, per stream *)
  received,  (* chunks that have come out at the caller's end               *)
  status,    (* the script's exit status, Running before it has one         *)
  verdict    (* what the stage reports to GitLab, "none" before it does     *)

vars == <<written, received, status, verdict>>

Init ==
  /\ written = [s \in Streams |-> 0]
  /\ received = [s \in Streams |-> 0]
  /\ status = Running
  /\ verdict = "none"

(* Nothing is written behind the back of a caller who has an exit code.     *)
Produce(s) ==
  /\ verdict \in {"none", "systemFailure"}
  /\ written' = [written EXCEPT ![s] = @ + 1]
  /\ UNCHANGED <<received, status, verdict>>

End(code) ==
  /\ status = Running
  /\ status' = code
  /\ UNCHANGED <<written, received, verdict>>

Deliver(s) ==
  /\ verdict = "none"
  /\ \E n \in received[s] + 1 .. written[s] :
       received' = [received EXCEPT ![s] = n]
  /\ UNCHANGED <<written, status, verdict>>

Report ==
  /\ verdict = "none"
  /\ status # Running
  /\ received = written
  /\ verdict' = IF status = 0 THEN "success" ELSE "buildFailure"
  /\ UNCHANGED <<written, received, status>>

GiveUp ==
  /\ verdict = "none"
  /\ verdict' = "systemFailure"
  /\ UNCHANGED <<written, received, status>>

Next ==
  \/ \E s \in Streams : Produce(s) \/ Deliver(s)
  \/ \E code \in Codes : End(code)
  \/ Report \/ GiveUp

Spec == Init /\ [][Next]_vars

=============================================================================
