---------------------------- MODULE AgentRequests ---------------------------
(***************************************************************************)
(* The sub-stages of one job as requests to one agent (handleExec in        *)
(* internal/agent/agent.go): the agent serves every /exec at once, in one   *)
(* working directory, and only the runner puts them in order.  A request    *)
(* is ExecStream without its frames.                                        *)
(***************************************************************************)
EXTENDS Naturals

CONSTANT Requests (* 1..n, in the order in which the runner makes them      *)

VARIABLES
  told,    (* what the run stage of a request knows: "unasked", "waiting",   *)
           (* "exit" with the script's status, or "lost"                    *)
  link,    (* the connection of a request is up                             *)
  handler, (* "idle" before the script is started, "running", "replied"     *)
  script,  (* the script: "none", "running", "ended"                        *)
  child,   (* a process it leaves in background: "none", "ended", or how it  *)
           (* lives on                                                      *)
  fired    (* the goroutine that kills the process group has done so        *)

vars == <<told, link, handler, script, child, fired>>

(* A child keeps the script's pipes, or has redirected its output, or keeps *)
(* the pipes in a session of its own.                                       *)
HoldsPipes == {"piped", "escaped"}
InGroup    == {"piped", "redirected"}

TypeOK ==
  /\ told \in [Requests -> {"unasked", "waiting", "exit", "lost"}]
  /\ link \in [Requests -> BOOLEAN]
  /\ handler \in [Requests -> {"idle", "running", "replied"}]
  /\ script \in [Requests -> {"none", "running", "ended"}]
  /\ child \in [Requests -> {"none", "ended"} \cup HoldsPipes \cup InGroup]
  /\ fired \in [Requests -> BOOLEAN]
  /\ \A r \in Requests : /\ link[r] => told[r] = "waiting"
                         /\ script[r] = "none" <=> handler[r] = "idle"
                         /\ fired[r] => script[r] = "ended"

Init ==
  /\ told = [r \in Requests |-> "unasked"]
  /\ link = [r \in Requests |-> FALSE]
  /\ handler = [r \in Requests |-> "idle"]
  /\ script = [r \in Requests |-> "none"]
  /\ child = [r \in Requests |-> "none"]
  /\ fired = [r \in Requests |-> FALSE]

Answered(r) == told[r] \in {"exit", "lost"}

----------------------------------------------------------------------------
(* The runner starts the next run stage when the one before has ended, well *)
(* or not: a retry of it, the next sub-stage, or after_script.              *)
Request(r) ==
  /\ told[r] = "unasked"
  /\ \A q \in Requests : q < r => Answered(q)
  /\ told' = [told EXCEPT ![r] = "waiting"]
  /\ link' = [link EXCEPT ![r] = TRUE]
  /\ UNCHANGED <<handler, script, child, fired>>

(* handleExec, up to the pumps.  The body may have arrived whole on a       *)
(* connection that has broken since.                                        *)
Start(r) ==
  /\ handler[r] = "idle"
  /\ told[r] # "unasked"
  /\ handler' = [handler EXCEPT ![r] = "running"]
  /\ script' = [script EXCEPT ![r] = "running"]
  /\ UNCHANGED <<told, link, child, fired>>

Fork(r) ==
  /\ script[r] = "running" /\ child[r] = "none"
  /\ \E kind \in HoldsPipes \cup InGroup : child' = [child EXCEPT ![r] = kind]
  /\ UNCHANGED <<told, link, handler, script, fired>>

ScriptEnds(r) ==
  /\ script[r] = "running"
  /\ script' = [script EXCEPT ![r] = "ended"]
  /\ UNCHANGED <<told, link, handler, child, fired>>

ChildEnds(r) ==
  /\ child[r] \in HoldsPipes \cup InGroup
  /\ child' = [child EXCEPT ![r] = "ended"]
  /\ UNCHANGED <<told, link, handler, script, fired>>

Bug_Reply(r) ==
  /\ handler[r] = "running"
  /\ child[r] \notin HoldsPipes
  /\ handler' = [handler EXCEPT ![r] = "replied"]
  /\ UNCHANGED <<told, link, script, child, fired>>

(* Both pumps have ended, since nobody holds the pipes, and the script has  *)
(* been waited for: the exit frame is sent, to whom it may concern.         *)
Reply(r) ==
  /\ handler[r] = "running"
  /\ script[r] = "ended"
  /\ child[r] \notin HoldsPipes
  /\ handler' = [handler EXCEPT ![r] = "replied"]
  /\ UNCHANGED <<told, link, script, child, fired>>

Bug_Hear(r) ==
  /\ told[r] = "waiting" /\ link[r]
  /\ handler[r] = "replied"
  /\ told' = [told EXCEPT ![r] = "exit"]
  /\ UNCHANGED <<link, handler, script, child, fired>>

(* Exec returns the exit frame's code and closes the response body.         *)
Hear(r) ==
  /\ told[r] = "waiting" /\ link[r]
  /\ handler[r] = "replied"
  /\ told' = [told EXCEPT ![r] = "exit"]
  /\ link' = [link EXCEPT ![r] = FALSE]
  /\ UNCHANGED <<handler, script, child, fired>>

(* The connection breaks, the response header is late, or the stage is      *)
(* cancelled: a system failure.                                             *)
Lose(r) ==
  /\ told[r] = "waiting"
  /\ told' = [told EXCEPT ![r] = "lost"]
  /\ link' = [link EXCEPT ![r] = FALSE]
  /\ UNCHANGED <<handler, script, child, fired>>

Bug_Kill(r) ==
  /\ handler[r] # "idle" /\ ~fired[r]
  /\ ~link[r] \/ handler[r] = "replied"
  /\ fired' = [fired EXCEPT ![r] = TRUE]
  /\ script' = [script EXCEPT ![r] = "ended"]
  /\ UNCHANGED <<told, link, handler, child>>

Bug_KillAtEnd(r) ==
  /\ handler[r] = "replied" /\ ~fired[r]
  /\ fired' = [fired EXCEPT ![r] = TRUE]
  /\ child' = IF child[r] \in InGroup THEN [child EXCEPT ![r] = "ended"] ELSE child
  /\ UNCHANGED <<told, link, handler, script>>

(* The request context ends once the server notices that the caller is      *)
(* gone, or with the handler: SIGKILL to the process group.                 *)
Kill(r) ==
  /\ handler[r] # "idle" /\ ~fired[r]
  /\ ~link[r] \/ handler[r] = "replied"
  /\ fired' = [fired EXCEPT ![r] = TRUE]
  /\ script' = [script EXCEPT ![r] = "ended"]
  /\ child' = IF child[r] \in InGroup THEN [child EXCEPT ![r] = "ended"] ELSE child
  /\ UNCHANGED <<told, link, handler>>

Next ==
  \E r \in Requests :
    \/ Request(r) \/ Start(r) \/ Fork(r) \/ ScriptEnds(r) \/ ChildEnds(r)
    \/ Reply(r) \/ Hear(r) \/ Lose(r) \/ Kill(r)

Spec == Init /\ [][Next]_vars

(* The agent's goroutines are scheduled and it notices broken connections.  *)
Fairness == \A r \in Requests : WF_vars(Kill(r)) /\ WF_vars(Reply(r))

FairSpec == Spec /\ Fairness

----------------------------------------------------------------------------
(* Properties.                                                              *)

Busy(r) == script[r] = "running" \/ child[r] \in HoldsPipes

(* The agent itself does not keep two scripts apart (agent.go:79): what     *)
(* does is that an exit code is told only when the script and all that      *)
(* shares its output are done.  Work of two requests overlaps only when the *)
(* caller of the earlier one was told a system failure.                     *)
OverlapOnlyAfterLoss ==
  \A q, r \in Requests : q < r /\ Busy(q) /\ told[r] # "unasked" => told[q] = "lost"

(* The overlap does not last: once its caller has an answer of whatever     *)
(* kind, or has gone before the script was even started, nothing of the     *)
(* script's group goes on running (agent.go:143-151).                       *)
OverlapEnds ==
  \A r \in Requests :
    Answered(r) ~> script[r] # "running" /\ child[r] \notin InGroup

(* No handler is stuck over a request whose group has been killed, a child  *)
(* that left the group with the pipes apart (agent.go:157).                 *)
HandlersEnd ==
  \A r \in Requests :
    fired[r] ~> handler[r] = "replied" \/ child[r] = "escaped"

=============================================================================
