----------------------------- MODULE ExecStream -----------------------------
(***************************************************************************)
(* One /exec request: the agent's handler (internal/agent/agent.go) starts *)
(* the script in a process group of its own, two pumps turn what comes out *)
(* of its pipes into frames, a watcher kills the group when the caller is  *)
(* gone, and the client (internal/agentclient/client.go) turns the frames   *)
(* back into output and an exit code, which cmdRun maps onto GitLab's       *)
(* failure contract.  The connection may break at any point.               *)
(***************************************************************************)
EXTENDS Naturals, Sequences

CONSTANTS
  Codes,      (* exit statuses of scripts                                   *)
  SignalCode, (* 128 + the number of the signal a script may die of         *)
  Running,    (* no exit status yet                                         *)
  MaxChunks,  (* bound on what is written to each stream                    *)
  PipeCap,    (* chunks a pipe holds before its writers block               *)
  WireCap     (* frames in flight before Write blocks                       *)

ASSUME ExecAssumption ==
  /\ Codes \subseteq Nat
  /\ SignalCode \in Nat \ {0}
  /\ Running \notin Nat
  /\ {MaxChunks, PipeCap, WireCap} \subseteq Nat \ {0}

Streams == {"stdout", "stderr"}

(* The shell that runs the script, and a process it leaves in background.   *)
Procs == {"script", "child"}

VARIABLES
  proc,      (* each process: "none", "running" or "dead"                   *)
  status,    (* exit status of the script                                   *)
  holds,     (* the processes that hold the write end of each pipe          *)
  written,   (* history: chunks written to each pipe                        *)
  taken,     (* chunks read from it; the rest is still in the pipe          *)
  handler,   (* next step of handleExec                                     *)
  pump,      (* next step of each pump goroutine                            *)
  sent,      (* last chunk it has put in a frame; the rest is in its buffer *)
  watcher,   (* the goroutine that kills the group                          *)
  killed,    (* history: it has killed the script                           *)
  conn,      (* "up", or "cut" by a fault or by the client leaving          *)
  gone,      (* the server has noticed and cancelled the request context    *)
  flushed,   (* the response header has left the server                     *)
  wire,      (* frames on their way to the client                           *)
  ended,     (* history: a terminal frame has been sent                     *)
  client,    (* where Exec is                                               *)
  received,  (* chunks written to the caller's stdout and stderr            *)
  verdict,   (* what cmdRun reports to the runner                           *)
  fault      (* history: the network, a signal or the agent failed the run  *)

scriptVars == <<proc, status, holds, written>>
pumpVars   == <<pump, taken, sent>>
agentVars  == <<handler, watcher, killed, gone, ended>>
netVars    == <<conn, flushed, wire>>
clientVars == <<client, received, verdict>>
vars == <<scriptVars, pumpVars, agentVars, netVars, clientVars, fault>>

Output(s, from, to) == [kind |-> s, from |-> from, to |-> to]
Exit(code) == [kind |-> "exit", code |-> code]
Error == [kind |-> "error"]
Partial == [kind |-> "partial"]

Frames ==
  [kind : Streams, from : 1..MaxChunks, to : 1..MaxChunks]
    \cup [kind : {"exit"}, code : Codes \cup {SignalCode}]
    \cup {Error, Partial}

TypeOK ==
  /\ proc \in [Procs -> {"none", "running", "dead"}]
  /\ status \in Codes \cup {SignalCode, Running}
  /\ holds \in [Streams -> SUBSET Procs]
  /\ written \in [Streams -> 0..MaxChunks]
  /\ taken \in [Streams -> 0..MaxChunks]
  /\ handler \in {"body", "script", "start", "watch", "join", "wait", "exit",
                  "done"}
  /\ pump \in [Streams -> {"none", "read", "send", "done"}]
  /\ sent \in [Streams -> 0..MaxChunks]
  /\ watcher \in {"none", "armed", "fired"}
  /\ killed \in BOOLEAN
  /\ conn \in {"up", "cut"}
  /\ gone \in BOOLEAN
  /\ flushed \in BOOLEAN
  /\ wire \in Seq(Frames)
  /\ ended \in BOOLEAN
  /\ client \in {"header", "stream", "done"}
  /\ received \in [Streams -> Seq(1..MaxChunks)]
  /\ verdict \in {"none", "success", "buildFailure", "systemFailure"}
  /\ fault \in BOOLEAN

(* The client has posted the script and waits for the response header.      *)
Init ==
  /\ proc = [p \in Procs |-> "none"]
  /\ status = Running
  /\ holds = [s \in Streams |-> {}]
  /\ written = [s \in Streams |-> 0]
  /\ taken = [s \in Streams |-> 0]
  /\ handler = "body"
  /\ pump = [s \in Streams |-> "none"]
  /\ sent = [s \in Streams |-> 0]
  /\ watcher = "none"
  /\ killed = FALSE
  /\ conn = "up"
  /\ gone = FALSE
  /\ flushed = FALSE
  /\ wire = <<>>
  /\ ended = FALSE
  /\ client = "header"
  /\ received = [s \in Streams |-> <<>>]
  /\ verdict = "none"
  /\ fault = FALSE

----------------------------------------------------------------------------
(* The script and the child it may leave in the background.                 *)

Alive(p) == proc[p] = "running"

Write(p, s) ==
  /\ Alive(p) /\ p \in holds[s]
  /\ written[s] < MaxChunks
  /\ written[s] - taken[s] < PipeCap
  /\ written' = [written EXCEPT ![s] = @ + 1]
  /\ UNCHANGED <<proc, status, holds, pumpVars, agentVars, netVars, clientVars,
                 fault>>

(* The child keeps the script's pipes, or has redirected its output.        *)
Fork ==
  /\ Alive("script") /\ proc["child"] = "none"
  /\ proc' = [proc EXCEPT !["child"] = "running"]
  /\ \/ holds' = [s \in Streams |-> holds[s] \cup {"child"}]
     \/ UNCHANGED holds
  /\ UNCHANGED <<status, written, pumpVars, agentVars, netVars, clientVars, fault>>

Release(dying) == holds' = [s \in Streams |-> holds[s] \ dying]

(* The script exits, or a signal of the VM's own (out of memory) ends it.   *)
ScriptEnds(code) ==
  /\ Alive("script")
  /\ proc' = [proc EXCEPT !["script"] = "dead"]
  /\ status' = code
  /\ Release({"script"})
  /\ UNCHANGED <<written, pumpVars, agentVars, netVars, clientVars, fault>>

ChildEnds ==
  /\ Alive("child")
  /\ proc' = [proc EXCEPT !["child"] = "dead"]
  /\ Release({"child"})
  /\ UNCHANGED <<status, written, pumpVars, agentVars, netVars, clientVars, fault>>

----------------------------------------------------------------------------
(* The agent.  frameWriter.send holds its mutex over Write and Flush, so a  *)
(* frame goes out whole; Write blocks while the client does not read and    *)
(* fails, unheeded, once the connection is gone.                            *)

Send(frame) ==
  IF conn = "up"
  THEN /\ Len(wire) < WireCap
       /\ wire' = Append(wire, frame)
       /\ flushed' = TRUE
       /\ UNCHANGED conn
  ELSE UNCHANGED netVars

Step(from, to) == handler = from /\ handler' = to

(* WriteHeader follows, but nothing leaves the server before the first      *)
(* Flush.                                                                   *)
ReadBody ==
  /\ \/ conn = "up" /\ Step("body", "script")
     \/ conn = "cut" /\ Step("body", "done")
  /\ UNCHANGED <<watcher, killed, gone, ended>>
  /\ UNCHANGED <<scriptVars, pumpVars, netVars, clientVars, fault>>

WriteScript ==
  /\ Step("script", "start")
  /\ UNCHANGED <<watcher, killed, gone, ended>>
  /\ UNCHANGED <<scriptVars, pumpVars, netVars, clientVars, fault>>

Bug_AgentError ==
  /\ handler \in {"script", "start"}
  /\ handler' = IF handler = "script" THEN "start" ELSE "done"
  /\ Send(Error)
  /\ ended' = TRUE
  /\ fault' = TRUE
  /\ UNCHANGED <<watcher, killed, gone>>
  /\ UNCHANGED <<scriptVars, pumpVars, clientVars>>

(* The temp file, a pipe or the process could not be made.                  *)
AgentError ==
  /\ handler \in {"script", "start"}
  /\ handler' = "done"
  /\ Send(Error)
  /\ ended' = TRUE
  /\ fault' = TRUE
  /\ UNCHANGED <<watcher, killed, gone>>
  /\ UNCHANGED <<scriptVars, pumpVars, clientVars>>

Start ==
  /\ Step("start", "watch")
  /\ proc' = [proc EXCEPT !["script"] = "running"]
  /\ holds' = [s \in Streams |-> {"script"}]
  /\ UNCHANGED <<status, written, watcher, killed, gone, ended>>
  /\ UNCHANGED <<pumpVars, netVars, clientVars, fault>>

Bug_Watch ==
  /\ Step("watch", "join")
  /\ watcher' = "armed"
  /\ pump' = [pump EXCEPT !["stdout"] = "read"]
  /\ UNCHANGED <<killed, gone, ended, sent, taken>>
  /\ UNCHANGED <<scriptVars, netVars, clientVars, fault>>

(* The watcher and the two pumps are started.                               *)
Watch ==
  /\ Step("watch", "join")
  /\ watcher' = "armed"
  /\ pump' = [s \in Streams |-> "read"]
  /\ UNCHANGED <<killed, gone, ended, sent, taken>>
  /\ UNCHANGED <<scriptVars, netVars, clientVars, fault>>

Bug_PumpRead(s) ==
  /\ pump[s] = "read"
  /\ \E n \in taken[s] + 1 .. written[s] + 1 : taken' = [taken EXCEPT ![s] = n]
  /\ pump' = [pump EXCEPT ![s] = "send"]
  /\ UNCHANGED <<sent, scriptVars, agentVars, netVars, clientVars, fault>>

(* One read returns some of what the pipe holds.                            *)
PumpRead(s) ==
  /\ pump[s] = "read"
  /\ \E n \in taken[s] + 1 .. written[s] : taken' = [taken EXCEPT ![s] = n]
  /\ pump' = [pump EXCEPT ![s] = "send"]
  /\ UNCHANGED <<sent, scriptVars, agentVars, netVars, clientVars, fault>>

Bug_PumpSend(s) ==
  /\ pump[s] = "send"
  /\ Send(Output(s, sent[s] + 1, taken[s]))
  /\ pump' = [pump EXCEPT ![s] = "read"]
  /\ UNCHANGED <<sent, taken, scriptVars, agentVars, clientVars, fault>>

PumpSend(s) ==
  /\ pump[s] = "send"
  /\ Send(Output(s, sent[s] + 1, taken[s]))
  /\ sent' = [sent EXCEPT ![s] = taken[s]]
  /\ pump' = [pump EXCEPT ![s] = "read"]
  /\ UNCHANGED <<taken, scriptVars, agentVars, clientVars, fault>>

(* End of file: the pipe is empty and nobody can write to it any more.      *)
PumpEnd(s) ==
  /\ pump[s] = "read"
  /\ taken[s] = written[s]
  /\ holds[s] = {}
  /\ pump' = [pump EXCEPT ![s] = "done"]
  /\ UNCHANGED <<taken, sent, scriptVars, agentVars, netVars, clientVars, fault>>

Bug_Join ==
  /\ Step("join", "wait")
  /\ UNCHANGED <<watcher, killed, gone, ended>>
  /\ UNCHANGED <<scriptVars, pumpVars, netVars, clientVars, fault>>

(* wg.Wait: both pumps have seen the end of their stream.                   *)
Join ==
  /\ Step("join", "wait")
  /\ \A s \in Streams : pump[s] = "done"
  /\ UNCHANGED <<watcher, killed, gone, ended>>
  /\ UNCHANGED <<scriptVars, pumpVars, netVars, clientVars, fault>>

(* cmd.Wait: the script has ended and its status is known.                  *)
Reap ==
  /\ Step("wait", "exit")
  /\ proc["script"] = "dead"
  /\ UNCHANGED <<watcher, killed, gone, ended>>
  /\ UNCHANGED <<scriptVars, pumpVars, netVars, clientVars, fault>>

SendExit ==
  /\ Step("exit", "done")
  /\ Send(Exit(status))
  /\ ended' = TRUE
  /\ UNCHANGED <<watcher, killed, gone>>
  /\ UNCHANGED <<scriptVars, pumpVars, clientVars, fault>>

(* The server's background read fails and it cancels the request context.   *)
NoticeGone ==
  /\ conn = "cut" /\ ~gone
  /\ gone' = TRUE
  /\ UNCHANGED <<handler, watcher, killed, ended>>
  /\ UNCHANGED <<scriptVars, pumpVars, netVars, clientVars, fault>>

Bug_KillGroup ==
  /\ watcher = "armed"
  /\ handler = "done"
  /\ watcher' = "fired"
  /\ killed' = (killed \/ Alive("script"))
  /\ proc' = [p \in Procs |-> IF Alive(p) THEN "dead" ELSE proc[p]]
  /\ status' = IF Alive("script") THEN SignalCode ELSE status
  /\ Release(Procs)
  /\ UNCHANGED <<handler, gone, ended, written>>
  /\ UNCHANGED <<pumpVars, netVars, clientVars, fault>>

(* The context is done, by disconnection or by the deferred cancel: SIGKILL *)
(* to whatever is left of the process group.                                *)
KillGroup ==
  /\ watcher = "armed"
  /\ gone \/ handler = "done"
  /\ watcher' = "fired"
  /\ killed' = (killed \/ Alive("script"))
  /\ proc' = [p \in Procs |-> IF Alive(p) THEN "dead" ELSE proc[p]]
  /\ status' = IF Alive("script") THEN SignalCode ELSE status
  /\ Release(Procs)
  /\ UNCHANGED <<handler, gone, ended, written>>
  /\ UNCHANGED <<pumpVars, netVars, clientVars, fault>>

----------------------------------------------------------------------------
(* The client.  Whatever ends Exec ends the process and the connection.     *)

Finish(v) ==
  /\ client' = "done"
  /\ verdict' = v
  /\ conn' = "cut"
  /\ wire' = <<>>
  /\ UNCHANGED <<received, flushed, scriptVars, pumpVars, agentVars>>

GetHeader ==
  /\ client = "header" /\ flushed
  /\ client' = "stream"
  /\ UNCHANGED <<received, verdict, scriptVars, pumpVars, agentVars, netVars, fault>>

(* ResponseHeaderTimeout: 60 s without a response header.                   *)
HeaderTimeout ==
  /\ client = "header" /\ ~flushed
  /\ Finish("systemFailure")
  /\ UNCHANGED fault

HeaderLost ==
  /\ client = "header" /\ conn = "cut"
  /\ Finish("systemFailure")
  /\ UNCHANGED fault

(* dispatch, for an output frame.                                           *)
TakeOutput ==
  /\ client = "stream" /\ wire # <<>>
  /\ LET f == Head(wire) IN
     /\ f.kind \in Streams
     /\ received' = [received EXCEPT ![f.kind] =
                       @ \o [i \in 1 .. f.to - f.from + 1 |-> f.from + i - 1]]
  /\ wire' = Tail(wire)
  /\ UNCHANGED <<client, verdict, conn, flushed, scriptVars, pumpVars, agentVars,
                 fault>>

(* An exit frame decides the run: cmdRun exits 0 or reports a build failure.*)
TakeExit ==
  /\ client = "stream" /\ wire # <<>> /\ Head(wire).kind = "exit"
  /\ Finish(IF Head(wire).code = 0 THEN "success" ELSE "buildFailure")
  /\ UNCHANGED fault

Bug_TakeFailure ==
  /\ client = "stream"
  /\ \/ /\ wire # <<>> /\ Head(wire).kind \in {"error", "partial"}
        /\ Finish("systemFailure")
     \/ /\ wire = <<>> /\ (conn = "cut" \/ handler = "done")
        /\ Finish("success")
  /\ UNCHANGED fault

(* An error frame, a line cut short, or the end of the stream.              *)
TakeFailure ==
  /\ client = "stream"
  /\ \/ wire # <<>> /\ Head(wire).kind \in {"error", "partial"}
     \/ wire = <<>> /\ (conn = "cut" \/ handler = "done")
  /\ Finish("systemFailure")
  /\ UNCHANGED fault

(* SIGTERM to the run stage: its context closes the connection.             *)
Cancel ==
  /\ client # "done"
  /\ Finish("systemFailure")
  /\ fault' = TRUE

(* The connection breaks: some of what is in flight still arrives, the last *)
(* line of it perhaps cut short.                                            *)
Cut ==
  /\ conn = "up"
  /\ conn' = "cut"
  /\ \E n \in 0..Len(wire) :
       \/ wire' = SubSeq(wire, 1, n)
       \/ n < Len(wire) /\ wire' = Append(SubSeq(wire, 1, n), Partial)
  /\ fault' = TRUE
  /\ UNCHANGED <<flushed, scriptVars, pumpVars, agentVars, clientVars>>

----------------------------------------------------------------------------
ScriptStep ==
  \/ \E p \in Procs, s \in Streams : Write(p, s)
  \/ Fork \/ ChildEnds
  \/ \E code \in Codes \cup {SignalCode} : ScriptEnds(code)

HandlerStep ==
  \/ ReadBody \/ WriteScript \/ AgentError \/ Start \/ Watch
  \/ Join \/ Reap \/ SendExit

PumpStep(s) == PumpRead(s) \/ PumpSend(s) \/ PumpEnd(s)

ClientStep == GetHeader \/ HeaderLost \/ TakeOutput \/ TakeExit \/ TakeFailure

Next ==
  \/ ScriptStep
  \/ HandlerStep \/ (\E s \in Streams : PumpStep(s))
  \/ NoticeGone \/ KillGroup
  \/ ClientStep \/ HeaderTimeout \/ Cancel
  \/ Cut

Spec == Init /\ [][Next]_vars

(* Goroutines are scheduled, a broken connection is noticed in the end      *)
(* (TCP keep-alive), and the client reads.  Nothing is assumed of scripts.  *)
Fairness ==
  /\ WF_vars(HandlerStep)
  /\ \A s \in Streams : WF_vars(PumpStep(s))
  /\ WF_vars(NoticeGone)
  /\ WF_vars(KillGroup)
  /\ WF_vars(ClientStep)

FairSpec == Spec /\ Fairness

----------------------------------------------------------------------------
(* Properties.                                                              *)

(* The verdict is the script's own: success only for a script that ended    *)
(* with 0, a build failure only for one that ended otherwise by itself,     *)
(* never because the agent killed it for a lost caller, and both only with  *)
(* all its output delivered.                                                *)
VerdictIsTheScripts ==
  verdict \in {"success", "buildFailure"}
  => /\ status # Running /\ ~killed
     /\ verdict = "success" <=> status = 0
     /\ \A s \in Streams : Len(received[s]) = written[s]

(* What has come out at the caller's end is what was written, from the      *)
(* start, in order, nothing twice, whatever the pumps did in between and    *)
(* wherever the stream broke.                                               *)
OutputIsFaithful ==
  \A s \in Streams :
    /\ Len(received[s]) <= written[s]
    /\ \A i \in 1..Len(received[s]) : received[s][i] = i

(* "exactly one FrameExit or one FrameError" ends the stream                *)
(* (protocol.go:13-15): no frame follows it, and the handler never ends a   *)
(* response the client could still read without it.                         *)
OneTerminalFrame ==
  [][ /\ ended => Len(wire') <= Len(wire)
      /\ handler' = "done" /\ conn' = "up" => ended' ]_vars

(* When the caller is gone, the script and what it left in its group stop.  *)
CallerGoneGroupDies ==
  conn = "cut" ~> \A p \in Procs : ~Alive(p)

(* Once nothing of the script is left running, the stage ends.              *)
StageEnds ==
  (handler = "join" /\ \A p \in Procs : ~Alive(p)) ~> client = "done"

(* The stream is an implementation of running the script remotely.          *)
Remote == INSTANCE RemoteExec WITH
  Codes <- Codes \cup {SignalCode},
  received <- [s \in Streams |-> Len(received[s])]

RemoteSpec == Remote!Spec

(* "No client-wide timeout: /exec streams for the life of a CI stage"       *)
(* (client.go:39): while the script runs, its run is given up only because  *)
(* the connection, a signal or the agent failed it.                         *)
GivenUpForAReason ==
  [][ /\ Alive("script")
      /\ verdict = "none" /\ verdict' = "systemFailure"
      => fault' ]_vars

=============================================================================
