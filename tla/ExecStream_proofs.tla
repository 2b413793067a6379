-------------------------- MODULE ExecStream_proofs -------------------------
(***************************************************************************)
(* For any exit statuses, any amount of output and any capacity of pipes   *)
(* and connection: the types of the exec path, that an exit code told to   *)
(* the runner is the script's own and comes after all of its output, that  *)
(* output arrives in order, that exactly one frame ends a stream, and that *)
(* all this implements RemoteExec.                                         *)
(***************************************************************************)
EXTENDS ExecStream, SequenceTheorems, TLAPS

(* The counters of a stream, and what a pump's position says of them.       *)
PumpState ==
  \A s \in Streams :
    /\ sent[s] <= taken[s] /\ taken[s] <= written[s]
    /\ IF pump[s] = "send" THEN sent[s] < taken[s] ELSE sent[s] = taken[s]
    /\ pump[s] = "none" => taken[s] = 0
    /\ pump[s] = "done" => taken[s] = written[s] /\ holds[s] = {}

Started == proc["script"] # "none"

(* Only the living hold pipes, and a script never lets go of its own before *)
(* it ends: a stream that has ended cannot be written to again.             *)
ProcessState ==
  /\ status = Running <=> proc["script"] # "dead"
  /\ \A s \in Streams : \A p \in holds[s] : Alive(p)
  /\ Alive("script") => \A s \in Streams : "script" \in holds[s]
  /\ ~Started => /\ proc["child"] = "none"
                 /\ \A s \in Streams : written[s] = 0

Drained == \A s \in Streams : pump[s] = "done"

(* Where the handler is tells what it has started and waited for.           *)
HandlerState ==
  /\ handler \in {"body", "script", "start"} => ~Started
  /\ handler \in {"watch", "join", "wait", "exit"} => Started
  /\ \A s \in Streams :
       pump[s] = "none" <=> \/ handler \in {"body", "script", "start", "watch"}
                            \/ handler = "done" /\ ~Started
  /\ handler \in {"wait", "exit"} => Drained
  /\ handler = "exit" => proc["script"] = "dead"
  /\ handler = "done" /\ Started => Drained /\ proc["script"] = "dead"

(* The response ends with a terminal frame unless nobody can read it, and   *)
(* only a script whose caller has gone is killed.                           *)
EndState ==
  /\ ended => handler = "done"
  /\ handler = "done" /\ conn = "up" => ended
  /\ gone => conn = "cut"
  /\ killed => gone

(* An exit frame under way carries the status of a script that has ended by *)
(* itself and has no output left in a pipe or a buffer.                     *)
Final ==
  /\ proc["script"] = "dead" /\ ~killed
  /\ Drained

ExitsAreFinal ==
  \A i \in 1..Len(wire) :
    wire[i].kind = "exit" => Final /\ wire[i].code = status

(* at[i]: how much of stream s the client will have after i more frames.    *)
(* Frames follow each other without a gap, none is ahead of the pump, the   *)
(* pump's last frame is the last of a connection that is up, and an exit    *)
(* frame comes after everything.                                            *)
Relays(s, at) ==
  /\ at[0] = Len(received[s])
  /\ \A i \in 0..Len(wire) : at[i] <= sent[s]
  /\ \A i \in 1..Len(wire) :
       /\ IF wire[i].kind = s
          THEN wire[i].from = at[i-1] + 1 /\ at[i-1] < wire[i].to /\ at[i] = wire[i].to
          ELSE at[i] = at[i-1]
       /\ wire[i].kind = "exit" => at[i] = written[s]
  /\ conn = "up" => at[Len(wire)] = sent[s]

WireState ==
  \A s \in Streams : \E at \in [0..Len(wire) -> 0..MaxChunks] : Relays(s, at)

InOrder == \A s \in Streams : \A i \in 1..Len(received[s]) : received[s][i] = i

ClientState ==
  /\ client = "done" <=> verdict # "none"
  /\ client = "done" => conn = "cut"
  /\ verdict \in {"success", "buildFailure"} =>
       /\ Final
       /\ verdict = "success" <=> status = 0
       /\ \A s \in Streams : Len(received[s]) = written[s]

Inv ==
  /\ TypeOK /\ PumpState /\ ProcessState /\ HandlerState /\ EndState
  /\ ExitsAreFinal /\ WireState /\ InOrder /\ ClientState

----------------------------------------------------------------------------
LEMMA InvInit == Init => Inv
<1> SUFFICES ASSUME Init PROVE Inv
  OBVIOUS
<1> USE DEF Init
<1>1. TypeOK
  <2>1. wire \in Seq(Frames) /\ <<>> \in Seq(1..MaxChunks)
    OBVIOUS
  <2>2. 0 \in 0..MaxChunks
    BY ExecAssumption
  <2> QED
    BY <2>1, <2>2 DEF TypeOK
<1>2. PumpState /\ ProcessState /\ HandlerState /\ EndState
  BY DEF PumpState, ProcessState, HandlerState, EndState, Started, Alive, Procs,
         Drained, Streams
<1>3. ExitsAreFinal /\ InOrder /\ ClientState
  BY DEF ExitsAreFinal, InOrder, ClientState
<1>4. WireState
  <2> SUFFICES ASSUME NEW s \in Streams
               PROVE  \E at \in [0..Len(wire) -> 0..MaxChunks] : Relays(s, at)
    BY DEF WireState
  <2> DEFINE at == [i \in 0..Len(wire) |-> 0]
  <2>1. at \in [0..Len(wire) -> 0..MaxChunks] /\ Relays(s, at)
    BY ExecAssumption, SMTT(30) DEF Relays
  <2> QED
    BY <2>1
<1> QED
  BY <1>1, <1>2, <1>3, <1>4 DEF Inv

(* The processes, the pumps and the handler, whatever the frames say.       *)
Control == PumpState /\ ProcessState /\ HandlerState /\ EndState

LEMMA ControlNext == TypeOK /\ Control /\ [Next]_vars => Control'
<1> SUFFICES ASSUME TypeOK, Control, [Next]_vars PROVE Control'
  OBVIOUS
<1>19. /\ proc \in [Procs -> {"none", "running", "dead"}]
       /\ status \in Codes \cup {SignalCode, Running}
       /\ holds \in [Streams -> SUBSET Procs]
       /\ {written, taken, sent} \subseteq [Streams -> Nat]
       /\ pump \in [Streams -> {"none", "read", "send", "done"}]
       /\ handler \in {"body", "script", "start", "watch", "join", "wait", "exit", "done"}
       /\ conn \in {"up", "cut"}
       /\ Running \notin Codes \cup {SignalCode}
  <2>1. 0..MaxChunks \subseteq Nat
    BY ExecAssumption
  <2>2. Running \notin Codes \cup {SignalCode}
    BY ExecAssumption
  <2> QED
    BY <2>1, <2>2 DEF TypeOK
<1> USE <1>19
    DEF Control, PumpState, ProcessState, HandlerState, EndState, Started,
        Alive, Procs, Drained, Streams, scriptVars, pumpVars, agentVars, netVars,
        clientVars
<1>1. CASE UNCHANGED vars
  BY <1>1 DEF vars
<1>2. ASSUME NEW p \in Procs, NEW s \in Streams, Write(p, s) PROVE Control'
  <2>1. /\ written' = [written EXCEPT ![s] = @ + 1] /\ Alive(p) /\ p \in holds[s]
        /\ UNCHANGED <<proc, status, holds, pumpVars, agentVars, netVars>>
    BY <1>2 DEF Write
  <2>2. PumpState'
    BY <2>1
  <2>3. ProcessState'
    BY <2>1
  <2> QED
    BY <2>1, <2>2, <2>3
<1>3. CASE Fork
  BY <1>3 DEF Fork
<1>4. CASE ChildEnds
  BY <1>4 DEF ChildEnds, Release
<1>5. ASSUME NEW code \in Codes \cup {SignalCode}, ScriptEnds(code) PROVE Control'
  BY <1>5 DEF ScriptEnds, Release
<1>6. CASE ReadBody \/ WriteScript
  BY <1>6 DEF ReadBody, WriteScript, Step
<1>7. CASE AgentError
  BY <1>7 DEF AgentError, Send
<1>8. CASE Start
  BY <1>8 DEF Start, Step
<1>18. CASE Watch
  BY <1>18 DEF Watch, Step
<1>9. CASE Join \/ Reap
  BY <1>9 DEF Join, Reap, Step
<1>10. CASE SendExit
  BY <1>10 DEF SendExit, Step, Send
<1>11. ASSUME NEW s \in Streams, PumpRead(s) PROVE Control'
  <2>1. PICK n \in taken[s] + 1 .. written[s] :
          /\ taken' = [taken EXCEPT ![s] = n]
          /\ pump[s] = "read" /\ pump' = [pump EXCEPT ![s] = "send"]
          /\ UNCHANGED <<sent, scriptVars, agentVars, netVars>>
    BY <1>11 DEF PumpRead
  <2>2. PumpState'
    BY <2>1
  <2>3. ProcessState' /\ EndState'
    BY <2>1
  <2>4. HandlerState'
    BY <2>1
  <2> QED
    BY <2>2, <2>3, <2>4
<1>12. ASSUME NEW s \in Streams, PumpSend(s) PROVE Control'
  <2>1. /\ sent' = [sent EXCEPT ![s] = taken[s]]
        /\ pump[s] = "send" /\ pump' = [pump EXCEPT ![s] = "read"]
        /\ UNCHANGED <<taken, conn, scriptVars, agentVars>>
    BY <1>12 DEF PumpSend, Send
  <2>2. PumpState'
    BY <2>1
  <2>3. ProcessState' /\ EndState'
    BY <2>1
  <2>4. HandlerState'
    BY <2>1
  <2> QED
    BY <2>2, <2>3, <2>4
<1>13. ASSUME NEW s \in Streams, PumpEnd(s) PROVE Control'
  BY <1>13 DEF PumpEnd
<1>14. CASE NoticeGone
  BY <1>14 DEF NoticeGone
<1>15. CASE KillGroup
  <2>1. /\ gone \/ handler = "done"
        /\ killed' = (killed \/ Alive("script"))
        /\ proc' = [p \in Procs |-> IF Alive(p) THEN "dead" ELSE proc[p]]
        /\ status' = IF Alive("script") THEN SignalCode ELSE status
        /\ UNCHANGED <<handler, gone, ended, written, pumpVars, conn>>
    BY <1>15 DEF KillGroup
  <2>2. \A s \in Streams : holds'[s] = {}
    BY <1>15 DEF KillGroup, Release
  <2>3. PumpState'
    BY <2>1, <2>2
  <2>4. ProcessState'
    BY <2>1, <2>2
  <2>5. HandlerState'
    BY <2>1
  <2>6. EndState'
    BY <2>1
  <2> QED
    BY <2>3, <2>4, <2>5, <2>6
<1>16. CASE ClientStep \/ HeaderTimeout \/ Cancel
  <2>1. /\ UNCHANGED <<scriptVars, pumpVars, agentVars>>
        /\ conn' = conn \/ conn' = "cut"
    BY <1>16 DEF ClientStep, GetHeader, HeaderLost, TakeOutput, TakeExit,
                 TakeFailure, HeaderTimeout, Cancel, Finish
  <2> QED
    BY <2>1
<1>17. CASE Cut
  BY <1>17 DEF Cut
<1> QED
  BY <1>1, <1>2, <1>3, <1>4, <1>5, <1>6, <1>7, <1>8, <1>9, <1>10, <1>11, <1>12,
     <1>13, <1>14, <1>15, <1>16, <1>17, <1>18
  DEF Next, ScriptStep, HandlerStep, PumpStep

----------------------------------------------------------------------------
(* Frames.                                                                  *)

LEMMA FrameTypes ==
  /\ Error \in Frames /\ Partial \in Frames
  /\ \A code \in Codes \cup {SignalCode} : Exit(code) \in Frames
  /\ \A s \in Streams, from, to \in 1..MaxChunks : Output(s, from, to) \in Frames
  /\ \A f \in Frames :
       /\ f.kind \in Streams => f.from \in 1..MaxChunks /\ f.to \in 1..MaxChunks
       /\ f.kind = "exit" => f.code \in Codes \cup {SignalCode}
BY DEF Frames, Error, Partial, Exit, Output, Streams

LEMMA FrameKinds ==
  /\ Error.kind = "error" /\ Partial.kind = "partial"
  /\ \A code : Exit(code).kind = "exit" /\ Exit(code).code = code
  /\ \A s, from, to : /\ Output(s, from, to).kind = s
                      /\ Output(s, from, to).from = from
                      /\ Output(s, from, to).to = to
BY DEF Error, Partial, Exit, Output

LEMMA SentIsTyped ==
  ASSUME TypeOK, NEW f \in Frames, Send(f)
  PROVE  wire' \in Seq(Frames) /\ flushed' \in BOOLEAN /\ conn' \in {"up", "cut"}
<1>1. wire \in Seq(Frames) /\ flushed \in BOOLEAN /\ conn \in {"up", "cut"}
  BY DEF TypeOK
<1>2. Append(wire, f) \in Seq(Frames)
  BY <1>1
<1> QED
  BY <1>1, <1>2 DEF Send, netVars

(* What a broken connection leaves of the wire.                             *)
LEMMA Prefix ==
  ASSUME NEW w \in Seq(Frames), NEW n \in 0..Len(w)
  PROVE  /\ SubSeq(w, 1, n) \in Seq(Frames)
         /\ Len(SubSeq(w, 1, n)) = n
         /\ \A i \in 1..n : SubSeq(w, 1, n)[i] = w[i]
<1>1. \A i \in 1..n : w[i] \in Frames
  OBVIOUS
<1> QED
  BY <1>1, SubSeqProperties

(* The next output frame to arrive carries on where the last one ended.     *)
LEMMA HeadIsNext ==
  ASSUME TypeOK, WireState, wire # <<>>, Head(wire).kind \in Streams
  PROVE  /\ Head(wire).from = Len(received[Head(wire).kind]) + 1
         /\ Head(wire).from <= Head(wire).to
<1> DEFINE s == Head(wire).kind
<1>1. PICK at \in [0..Len(wire) -> 0..MaxChunks] : Relays(s, at)
  BY DEF WireState
<1>2. 1 \in 1..Len(wire) /\ Head(wire) = wire[1] /\ Head(wire) \in Frames
  BY DEF TypeOK
<1>3. Head(wire).from = at[0] + 1 /\ at[0] < Head(wire).to /\ at[0] = Len(received[s])
  BY <1>1, <1>2 DEF Relays
<1>4. Head(wire).to \in Nat /\ at[0] \in Nat
  BY <1>2, FrameTypes
<1> QED
  BY <1>3, <1>4

LEMMA Chunks ==
  ASSUME NEW from \in 1..MaxChunks, NEW to \in 1..MaxChunks, from <= to
  PROVE  [i \in 1 .. to - from + 1 |-> from + i - 1] \in Seq(1..MaxChunks)
<1>1. \A i \in 1 .. to - from + 1 : from + i - 1 \in 1..MaxChunks
  BY ExecAssumption
<1>2. to - from + 1 \in Nat
  OBVIOUS
<1> QED
  BY <1>1, <1>2

LEMMA SendsFrames ==
  ASSUME TypeOK, Control, NEW s \in Streams, pump[s] = "send"
  PROVE  /\ sent[s] + 1 \in 1..MaxChunks /\ taken[s] \in 1..MaxChunks
         /\ sent[s] < taken[s]
         /\ Output(s, sent[s] + 1, taken[s]) \in Frames
<1>1. /\ sent[s] + 1 \in 1..MaxChunks /\ taken[s] \in 1..MaxChunks
      /\ sent[s] < taken[s]
  BY ExecAssumption DEF TypeOK, Control, PumpState
<1> QED
  BY <1>1, FrameTypes

LEMMA CutIsTyped ==
  ASSUME TypeOK, NEW n \in 0..Len(wire)
  PROVE  /\ SubSeq(wire, 1, n) \in Seq(Frames)
         /\ Append(SubSeq(wire, 1, n), Partial) \in Seq(Frames)
<1>1. SubSeq(wire, 1, n) \in Seq(Frames)
  BY Prefix DEF TypeOK
<1> QED
  BY <1>1, FrameTypes

LEMMA Updated ==
  ASSUME NEW D, NEW C, NEW g \in [D -> C], NEW x \in D, NEW v \in C
  PROVE  [g EXCEPT ![x] = v] \in [D -> C]
OBVIOUS

LEMMA TypeNext == TypeOK /\ Control /\ WireState /\ [Next]_vars => TypeOK'
<1> SUFFICES ASSUME TypeOK, Control, WireState, [Next]_vars PROVE TypeOK'
  OBVIOUS
<1> USE ExecAssumption
    DEF TypeOK, scriptVars, pumpVars, agentVars, netVars, clientVars
<1>1. CASE UNCHANGED vars
  BY <1>1 DEF vars
<1>2. ASSUME NEW p \in Procs, NEW s \in Streams, Write(p, s) PROVE TypeOK'
  <2>1. written[s] + 1 \in 0..MaxChunks
    BY <1>2 DEF Write
  <2>2. written' \in [Streams -> 0..MaxChunks]
    BY <1>2, <2>1, Updated, Zenon DEF Write
  <2> QED
    BY <1>2, <2>2, SMTT(30) DEF Write
<1>3. CASE Fork \/ ChildEnds
  <2>1. proc' \in [Procs -> {"none", "running", "dead"}]
    BY <1>3 DEF Fork, ChildEnds, Procs
  <2>2. holds' \in [Streams -> SUBSET Procs]
    BY <1>3 DEF Fork, ChildEnds, Release, Procs
  <2> QED
    BY <1>3, <2>1, <2>2 DEF Fork, ChildEnds
<1>4. ASSUME NEW code \in Codes \cup {SignalCode}, ScriptEnds(code) PROVE TypeOK'
  <2>1. holds' \in [Streams -> SUBSET Procs]
    BY <1>4 DEF ScriptEnds, Release
  <2>2. status' \in Codes \cup {SignalCode, Running}
    BY <1>4 DEF ScriptEnds
  <2>3. proc' \in [Procs -> {"none", "running", "dead"}]
    BY <1>4 DEF ScriptEnds
  <2> QED
    BY <1>4, <2>1, <2>2, <2>3 DEF ScriptEnds
<1>5. CASE ReadBody \/ WriteScript
  BY <1>5 DEF ReadBody, WriteScript, Step
<1>6. CASE AgentError
  BY <1>6, FrameTypes, SentIsTyped DEF AgentError
<1>7. CASE Start
  BY <1>7 DEF Start, Step, Procs
<1>8. CASE Watch
  BY <1>8 DEF Watch, Step
<1>9. CASE Join \/ Reap
  BY <1>9 DEF Join, Reap, Step
<1>10. CASE SendExit
  <2>1. status \in Codes \cup {SignalCode}
    BY <1>10 DEF SendExit, Step, Control, HandlerState, ProcessState
  <2> QED
    BY <1>10, <2>1, FrameTypes, SentIsTyped DEF SendExit, Step
<1>11. ASSUME NEW s \in Streams, PumpRead(s) PROVE TypeOK'
  <2>1. taken' \in [Streams -> 0..MaxChunks]
    BY <1>11 DEF PumpRead
  <2>2. pump' \in [Streams -> {"none", "read", "send", "done"}]
    BY <1>11 DEF PumpRead
  <2> QED
    BY <1>11, <2>1, <2>2, SMTT(30) DEF PumpRead
<1>12. ASSUME NEW s \in Streams, PumpSend(s) PROVE TypeOK'
  <2>1. Output(s, sent[s] + 1, taken[s]) \in Frames
    BY <1>12, SendsFrames DEF PumpSend
  <2>2. wire' \in Seq(Frames) /\ flushed' \in BOOLEAN /\ conn' \in {"up", "cut"}
    BY <1>12, <2>1, SentIsTyped DEF PumpSend
  <2>3. /\ sent' \in [Streams -> 0..MaxChunks]
        /\ pump' \in [Streams -> {"none", "read", "send", "done"}]
    BY <1>12 DEF PumpSend
  <2> QED
    BY <1>12, <2>2, <2>3, SMTT(30) DEF PumpSend
<1>13. ASSUME NEW s \in Streams, PumpEnd(s) PROVE TypeOK'
  BY <1>13 DEF PumpEnd
<1>14. CASE NoticeGone
  BY <1>14 DEF NoticeGone
<1>15. CASE KillGroup
  BY <1>15 DEF KillGroup, Release, Alive
<1>16. CASE GetHeader
  BY <1>16 DEF GetHeader
<1>17. ASSUME NEW v \in {"success", "buildFailure", "systemFailure"}, Finish(v),
              fault' \in BOOLEAN
       PROVE  TypeOK'
  BY <1>17 DEF Finish
<1>18. CASE TakeOutput
  <2> DEFINE f == Head(wire)
             chunks == [i \in 1 .. f.to - f.from + 1 |-> f.from + i - 1]
  <2>1. f \in Frames /\ f.kind \in Streams /\ wire' \in Seq(Frames)
    BY <1>18 DEF TakeOutput
  <2>2. chunks \in Seq(1..MaxChunks)
    BY <2>1, <1>18, FrameTypes, HeadIsNext, Chunks DEF TakeOutput
  <2>3. received[f.kind] \o chunks \in Seq(1..MaxChunks)
    BY <2>1, <2>2
  <2>4. received' \in [Streams -> Seq(1..MaxChunks)]
    <3>1. received' = [received EXCEPT ![f.kind] = received[f.kind] \o chunks]
      BY <1>18 DEF TakeOutput
    <3>2. received \in [Streams -> Seq(1..MaxChunks)]
      OBVIOUS
    <3> HIDE DEF f, chunks, TypeOK
    <3> QED
      BY <2>1, <2>3, <3>1, <3>2, Updated, Zenon
  <2>5. UNCHANGED <<client, verdict, conn, flushed, scriptVars, pumpVars, agentVars, fault>>
    <3> HIDE DEF TypeOK
    <3> QED
      BY <1>18 DEF TakeOutput
  <2> HIDE DEF f, chunks
  <2> QED
    BY <2>1, <2>4, <2>5, SMTT(30)
<1>19. CASE Cut
  <2>1. wire' \in Seq(Frames)
    BY <1>19, CutIsTyped DEF Cut
  <2> QED
    BY <1>19, <2>1 DEF Cut
<1>20. CASE TakeExit \/ TakeFailure \/ HeaderLost \/ HeaderTimeout \/ Cancel
  BY <1>17, <1>20 DEF TakeExit, TakeFailure, HeaderLost, HeaderTimeout, Cancel
<1> QED
  BY <1>1, <1>2, <1>3, <1>4, <1>5, <1>6, <1>7, <1>8, <1>9, <1>10, <1>11, <1>12,
     <1>13, <1>14, <1>15, <1>16, <1>18, <1>19, <1>20
  DEF Next, ScriptStep, HandlerStep, PumpStep, ClientStep

----------------------------------------------------------------------------
(* What was final stays so: nobody is left who could write, kill the script *)
(* or change its status.                                                    *)
LEMMA FinalStays ==
  ASSUME TypeOK, Control, [Next]_vars, Final
  PROVE  Final' /\ UNCHANGED <<written, sent, status>>
<1>8. /\ proc \in [Procs -> {"none", "running", "dead"}]
      /\ holds \in [Streams -> SUBSET Procs]
      /\ pump \in [Streams -> {"none", "read", "send", "done"}]
  BY DEF TypeOK
<1> USE <1>8 DEF Final, Drained, Control, PumpState, ProcessState, HandlerState,
            Started, Alive, scriptVars, pumpVars, agentVars, netVars, clientVars
<1>1. CASE UNCHANGED vars
  BY <1>1 DEF vars
<1>2. CASE ScriptStep
  BY <1>2 DEF ScriptStep, Write, Fork, ChildEnds, ScriptEnds, Release, Procs
<1>3. CASE HandlerStep
  BY <1>3 DEF HandlerStep, ReadBody, WriteScript, AgentError, Start, Watch, Join,
              Reap, SendExit, Step, Streams
<1>4. ASSUME NEW s \in Streams, PumpStep(s) PROVE FALSE
  BY <1>4 DEF PumpStep, PumpRead, PumpSend, PumpEnd
<1>5. CASE NoticeGone
  BY <1>5 DEF NoticeGone
<1>7. CASE KillGroup
  <2>1. ~Alive("script") /\ "script" \in Procs /\ proc["script"] = "dead"
    BY DEF Procs
  <2>2. /\ killed' = (killed \/ Alive("script"))
        /\ proc' = [p \in Procs |-> IF Alive(p) THEN "dead" ELSE proc[p]]
        /\ status' = IF Alive("script") THEN SignalCode ELSE status
        /\ UNCHANGED <<written, pumpVars>>
    BY <1>7 DEF KillGroup
  <2> QED
    BY <2>1, <2>2
<1>6. CASE ClientStep \/ HeaderTimeout \/ Cancel \/ Cut
  <2>1. UNCHANGED <<scriptVars, pumpVars, agentVars>>
    <3>1. CASE ClientStep
      BY <3>1 DEF ClientStep, GetHeader, HeaderLost, TakeOutput, TakeExit, TakeFailure,
                  Finish
    <3>2. CASE HeaderTimeout \/ Cancel \/ Cut
      BY <3>2 DEF HeaderTimeout, Cancel, Finish, Cut
    <3> QED
      BY <1>6, <3>1, <3>2
  <2> QED
    BY <2>1
<1> QED
  BY <1>1, <1>2, <1>3, <1>4, <1>5, <1>6, <1>7 DEF Next

LEMMA ExitsNext ==
  ASSUME TypeOK, Control, ExitsAreFinal, [Next]_vars
  PROVE  ExitsAreFinal'
<1> SUFFICES ASSUME NEW i \in 1..Len(wire'), wire'[i].kind = "exit"
             PROVE  Final' /\ wire'[i].code = status'
  BY DEF ExitsAreFinal
<1> DEFINE Goal == Final' /\ wire'[i].code = status'
<1>1. ASSUME NEW j \in 1..Len(wire), wire'[i] = wire[j] PROVE Goal
  BY <1>1, FinalStays DEF ExitsAreFinal
<1>2. CASE wire' = wire
  BY <1>1, <1>2
<1>3. ASSUME NEW f \in Frames, f.kind # "exit", wire' = Append(wire, f)
      PROVE  Goal
  <2>1. i \in 1..Len(wire) /\ wire'[i] = wire[i]
    BY <1>3 DEF TypeOK
  <2> QED
    BY <1>1, <2>1
<1>4. CASE SendExit /\ conn = "up"
  <2>1. wire' = Append(wire, Exit(status)) /\ wire \in Seq(Frames)
    BY <1>4 DEF SendExit, Send, TypeOK
  <2>2. CASE i \in 1..Len(wire)
    BY <2>1, <2>2, <1>1
  <2>3. CASE i = Len(wire) + 1
    <3>1. wire'[i].code = status
      BY <2>1, <2>3, FrameKinds
    <3>2. Final'
      BY <1>4 DEF SendExit, Step, Final, Control, HandlerState, EndState, TypeOK,
                  Drained, scriptVars, pumpVars
    <3>3. status' = status
      BY <1>4 DEF SendExit, scriptVars
    <3> QED
      BY <3>1, <3>2, <3>3
  <2> QED
    BY <2>1, <2>2, <2>3
<1>5. CASE wire' = Tail(wire) /\ wire # <<>>
  <2>1. i + 1 \in 1..Len(wire) /\ wire'[i] = wire[i+1]
    BY <1>5 DEF TypeOK
  <2> QED
    BY <1>1, <2>1
<1>6. CASE wire' = <<>>
  BY <1>6
<1>7. CASE Cut
  <2>1. PICK n \in 0..Len(wire) :
          wire' = SubSeq(wire, 1, n) \/ wire' = Append(SubSeq(wire, 1, n), Partial)
    BY <1>7 DEF Cut
  <2>2. /\ SubSeq(wire, 1, n) \in Seq(Frames) /\ Len(SubSeq(wire, 1, n)) = n
        /\ \A k \in 1..n : SubSeq(wire, 1, n)[k] = wire[k]
    BY Prefix DEF TypeOK
  <2>3. i \in 1..n /\ wire'[i] = wire[i]
    BY <2>1, <2>2, FrameKinds
  <2> QED
    BY <1>1, <2>3 DEF TypeOK
<1>8. CASE AgentError
  BY <1>2, <1>3, <1>8, FrameTypes, FrameKinds DEF AgentError, Send, netVars
<1>9. CASE SendExit
  BY <1>2, <1>4, <1>9 DEF SendExit, Send, netVars
<1>10. ASSUME NEW s \in Streams, PumpSend(s) PROVE Goal
  <2>1. Output(s, sent[s] + 1, taken[s]) \in Frames
    BY <1>10, SendsFrames DEF PumpSend
  <2>2. Output(s, sent[s] + 1, taken[s]).kind # "exit"
    BY FrameKinds DEF Streams
  <2> QED
    BY <1>2, <1>3, <1>10, <2>1, <2>2 DEF PumpSend, Send, netVars
<1>11. CASE TakeOutput
  BY <1>5, <1>11 DEF TakeOutput
<1>12. CASE TakeExit \/ TakeFailure \/ HeaderLost \/ HeaderTimeout \/ Cancel
  BY <1>6, <1>12 DEF TakeExit, TakeFailure, HeaderLost, HeaderTimeout, Cancel, Finish
<1>13. CASE \/ UNCHANGED vars \/ ScriptStep \/ ReadBody \/ WriteScript \/ Start \/ Watch
            \/ Join \/ Reap \/ NoticeGone \/ KillGroup \/ GetHeader
            \/ \E s \in Streams : PumpRead(s) \/ PumpEnd(s)
  <2>1. wire' = wire
    BY <1>13 DEF vars, netVars, ScriptStep, Write, Fork, ChildEnds, ScriptEnds,
                 ReadBody, WriteScript, Start, Watch, Join, Reap, NoticeGone,
                 KillGroup, GetHeader, PumpRead, PumpEnd
  <2> QED
    BY <1>2, <2>1
<1> QED
  BY <1>7, <1>8, <1>9, <1>10, <1>11, <1>12, <1>13
  DEF Next, HandlerStep, PumpStep, ClientStep

----------------------------------------------------------------------------
(* How each step moves the frames of one stream along.                      *)

Moves(s) == \E at \in [0..Len(wire) -> 0..MaxChunks] : Relays(s, at)

LEMMA Kept ==
  ASSUME TypeOK, NEW s \in Streams, Moves(s), UNCHANGED <<wire, received, sent>>,
         conn' \in {conn, "cut"},
         \A i \in 1..Len(wire) : wire[i].kind = "exit" => written' = written
  PROVE  Moves(s)'
<1>1. PICK at \in [0..Len(wire) -> 0..MaxChunks] : Relays(s, at)
  BY DEF Moves
<1>2. Relays(s, at)'
  BY <1>1 DEF Relays, TypeOK
<1> QED
  BY <1>1, <1>2 DEF Moves

(* A pump whose frame goes nowhere, the connection being gone.              *)
LEMMA Lags ==
  ASSUME TypeOK, TypeOK', NEW s \in Streams, Moves(s), NEW r \in Streams,
         UNCHANGED <<wire, received, written, conn>>, conn # "up",
         sent' = [sent EXCEPT ![r] = taken[r]], sent[r] < taken[r]
  PROVE  Moves(s)'
<1>1. PICK at \in [0..Len(wire) -> 0..MaxChunks] : Relays(s, at)
  BY DEF Moves
<1>2. \A i \in 0..Len(wire) : at[i] <= sent'[s]
  <2>1. sent[s] <= sent'[s]
    BY DEF TypeOK
  <2>2. sent[s] \in 0..MaxChunks /\ sent'[s] \in 0..MaxChunks
    BY DEF TypeOK
  <2>3. \A i \in 0..Len(wire) : at[i] <= sent[s] /\ at[i] \in 0..MaxChunks
    BY <1>1 DEF Relays
  <2> QED
    BY <2>1, <2>2, <2>3
<1>3. Relays(s, at)'
  BY <1>1, <1>2 DEF Relays
<1> QED
  BY <1>1, <1>3 DEF Moves

LEMMA Sends ==
  ASSUME TypeOK, NEW s \in Streams, Moves(s), NEW f \in Frames,
         conn = "up", conn' = "up", wire' = Append(wire, f),
         UNCHANGED <<received, written>>, sent' \in [Streams -> 0..MaxChunks],
         IF f.kind = s
         THEN f.from = sent[s] + 1 /\ sent[s] < f.to /\ sent'[s] = f.to
         ELSE sent'[s] = sent[s],
         f.kind = "exit" => f.kind # s /\ sent[s] = written[s]
  PROVE  Moves(s)'
<1>1. PICK at \in [0..Len(wire) -> 0..MaxChunks] : Relays(s, at)
  BY DEF Moves
<1> DEFINE n == Len(wire)
<1>2. /\ n \in Nat /\ Len(wire') = n + 1
      /\ \A i \in 1..n : wire'[i] = wire[i]
      /\ wire'[n+1] = f
  BY DEF TypeOK
<1>3. PICK later \in [0..Len(wire') -> 0..MaxChunks] :
        /\ \A i \in 0..n : later[i] = at[i]
        /\ later[n+1] = sent'[s]
  <2> DEFINE next == [i \in 0..Len(wire') |-> IF i <= n THEN at[i] ELSE sent'[s]]
  <2>1. /\ next \in [0..Len(wire') -> 0..MaxChunks]
        /\ \A i \in 0..n : next[i] = at[i]
        /\ next[n+1] = sent'[s]
    BY <1>2
  <2> QED
    BY <2>1
<1>4. /\ later[0] = at[0] /\ later[n] = sent[s] /\ later[n+1] = sent'[s]
      /\ \A i \in 0..n : later[i] = at[i]
      /\ \A i \in 1..n : later[i-1] = at[i-1]
  <2>1. at[n] = sent[s]
    BY <1>1 DEF Relays
  <2>2. \A i \in 1..n : i - 1 \in 0..n
    BY <1>2
  <2>3. 0 \in 0..n /\ n \in 0..n
    BY <1>2
  <2> QED
    BY <1>3, <2>1, <2>2, <2>3
<1>5. sent[s] <= sent'[s]
  BY DEF TypeOK
<1>6. later[0] = Len(received'[s])
  BY <1>1, <1>4 DEF Relays
<1>7. \A i \in 0..n+1 : later[i] <= sent'[s]
  <2>1. ASSUME NEW i \in 0..n PROVE later[i] <= sent'[s]
    <3>1. at[i] <= sent[s] /\ at[i] \in 0..MaxChunks
      BY <1>1 DEF Relays
    <3>2. sent[s] \in 0..MaxChunks /\ sent'[s] \in 0..MaxChunks
      BY DEF TypeOK
    <3> QED
      BY <1>4, <1>5, <3>1, <3>2
  <2>2. later[n+1] <= sent'[s]
    BY <1>4 DEF TypeOK
  <2> QED
    BY <1>2, <2>1, <2>2
<1>8. ASSUME NEW i \in 1..n+1
      PROVE  /\ IF wire'[i].kind = s
                THEN /\ wire'[i].from = later[i-1] + 1
                     /\ later[i-1] < wire'[i].to
                     /\ later[i] = wire'[i].to
                ELSE later[i] = later[i-1]
             /\ wire'[i].kind = "exit" => later[i] = written'[s]
  <2>1. CASE i \in 1..n
    <3>1. wire'[i] = wire[i] /\ later[i] = at[i] /\ later[i-1] = at[i-1]
      BY <2>1, <1>2, <1>4
    <3> QED
      BY <2>1, <3>1, <1>1 DEF Relays
  <2>2. CASE i = n + 1
    <3>1. wire'[i] = f /\ later[i] = sent'[s] /\ later[i-1] = sent[s]
      BY <2>2, <1>2, <1>4
    <3> QED
      BY <3>1
  <2> QED
    BY <1>2, <2>1, <2>2
<1>9. Relays(s, later)'
  BY <1>2, <1>4, <1>6, <1>7, <1>8 DEF Relays
<1> QED
  BY <1>3, <1>9 DEF Moves

LEMMA Takes ==
  ASSUME TypeOK, NEW s \in Streams, Moves(s), wire # <<>>, wire' = Tail(wire),
         UNCHANGED <<sent, written, conn>>,
         IF Head(wire).kind = s
         THEN Len(received'[s]) = Head(wire).to
         ELSE received'[s] = received[s]
  PROVE  Moves(s)'
<1>1. PICK at \in [0..Len(wire) -> 0..MaxChunks] : Relays(s, at)
  BY DEF Moves
<1> DEFINE n == Len(wire)
<1>2. /\ n \in Nat \ {0} /\ Len(wire') = n - 1
      /\ \A i \in 1..n-1 : wire'[i] = wire[i+1]
      /\ Head(wire) = wire[1]
  BY DEF TypeOK
<1>3. PICK later \in [0..Len(wire') -> 0..MaxChunks] :
        \A i \in 0..n-1 : later[i] = at[i+1]
  <2> DEFINE next == [i \in 0..Len(wire') |-> at[i+1]]
  <2>1. /\ next \in [0..Len(wire') -> 0..MaxChunks]
        /\ \A i \in 0..n-1 : next[i] = at[i+1]
    BY <1>2
  <2> QED
    BY <2>1
<1>4. \A i \in 0..n-1 : later[i] = at[i+1]
  BY <1>3
<1>5. \A i \in 1..n-1 : later[i-1] = at[i]
  BY <1>2, <1>3
<1>6. later[0] = Len(received'[s])
  BY <1>1, <1>2, <1>4 DEF Relays
<1>7. Relays(s, later)'
  <2>1. \A i \in 0..n-1 : i + 1 \in 0..n /\ i + 1 \in 1..n /\ (i + 1) - 1 = i
    BY <1>2
  <2>2. \A i \in 0..n-1 : later[i] <= sent'[s]
    BY <1>1, <1>4, <2>1 DEF Relays
  <2>3. ASSUME NEW i \in 1..n-1
        PROVE  /\ IF wire'[i].kind = s
                  THEN /\ wire'[i].from = later[i-1] + 1
                       /\ later[i-1] < wire'[i].to
                       /\ later[i] = wire'[i].to
                  ELSE later[i] = later[i-1]
               /\ wire'[i].kind = "exit" => later[i] = written'[s]
    <3>1. wire'[i] = wire[i+1] /\ later[i] = at[i+1] /\ later[i-1] = at[(i+1)-1]
      BY <1>2, <1>4, <1>5
    <3>2. i + 1 \in 1..n
      BY <1>2
    <3> QED
      BY <3>1, <3>2, <1>1 DEF Relays
  <2>4. conn' = "up" => later[n-1] = sent'[s]
    BY <1>1, <1>2, <1>4 DEF Relays
  <2> QED
    BY <1>2, <1>6, <2>2, <2>3, <2>4 DEF Relays
<1> QED
  BY <1>3, <1>7 DEF Moves

(* Frames are dropped from the end, and with the connection.                *)
LEMMA Breaks ==
  ASSUME TypeOK, NEW s \in Streams, Moves(s), NEW n \in 0..Len(wire),
         \/ wire' = SubSeq(wire, 1, n)
         \/ wire' = Append(SubSeq(wire, 1, n), Partial),
         UNCHANGED <<received, sent, written>>, conn' = "cut"
  PROVE  Moves(s)'
<1>1. PICK at \in [0..Len(wire) -> 0..MaxChunks] : Relays(s, at)
  BY DEF Moves
<1>2. /\ SubSeq(wire, 1, n) \in Seq(Frames) /\ Len(SubSeq(wire, 1, n)) = n
      /\ \A k \in 1..n : SubSeq(wire, 1, n)[k] = wire[k]
  BY Prefix DEF TypeOK
<1>3. /\ Len(wire') \in {n, n + 1}
      /\ \A k \in 1..n : wire'[k] = wire[k]
      /\ Len(wire') = n + 1 => wire'[n+1] = Partial
  <2>1. CASE wire' = SubSeq(wire, 1, n)
    BY <1>2, <2>1
  <2>2. CASE wire' = Append(SubSeq(wire, 1, n), Partial)
    BY <1>2, <2>2, FrameTypes, AppendProperties
  <2> QED
    BY <2>1, <2>2
<1>4. n \in 0..Len(wire) /\ Len(wire) \in Nat
  BY DEF TypeOK
<1>5. PICK later \in [0..Len(wire') -> 0..MaxChunks] :
        \A i \in 0..Len(wire') : later[i] = IF i <= n THEN at[i] ELSE at[n]
  <2> DEFINE next == [i \in 0..Len(wire') |-> IF i <= n THEN at[i] ELSE at[n]]
  <2>1. next \in [0..Len(wire') -> 0..MaxChunks]
    BY <1>3, <1>4
  <2> QED
    BY <2>1
<1>6. /\ \A i \in 0..n : later[i] = at[i]
      /\ \A i \in 1..n : later[i-1] = at[i-1]
      /\ Len(wire') = n + 1 => later[n+1] = at[n]
  <2>1. \A i \in 0..n : i \in 0..Len(wire') /\ i <= n
    BY <1>3, <1>4
  <2>2. \A i \in 1..n : i - 1 \in 0..n
    BY <1>4
  <2>3. Len(wire') = n + 1 => n + 1 \in 0..Len(wire') /\ ~(n + 1 <= n)
    BY <1>4
  <2> QED
    BY <1>5, <2>1, <2>2, <2>3
<1>7. Relays(s, later)'
  <2>1. \A i \in 0..Len(wire') : later[i] <= sent'[s]
    BY <1>1, <1>3, <1>4, <1>6 DEF Relays
  <2>2. ASSUME NEW i \in 1..Len(wire')
        PROVE  /\ IF wire'[i].kind = s
                  THEN /\ wire'[i].from = later[i-1] + 1
                       /\ later[i-1] < wire'[i].to
                       /\ later[i] = wire'[i].to
                  ELSE later[i] = later[i-1]
               /\ wire'[i].kind = "exit" => later[i] = written'[s]
    <3>1. CASE i \in 1..n
      <4>1. wire'[i] = wire[i]
        BY <3>1, <1>3
      <4>3. later[i] = at[i] /\ later[i-1] = at[i-1]
        <5>1. i \in 0..n
          BY <3>1, <1>4
        <5> QED
          BY <3>1, <5>1, <1>6
      <4>2. i \in 1..Len(wire)
        BY <3>1, <1>4
      <4> QED
        BY <4>1, <4>2, <4>3, <1>1 DEF Relays
    <3>2. CASE i = n + 1
      <4>1. wire'[i].kind = "partial" /\ later[i] = at[n] /\ later[i-1] = at[n]
        BY <3>2, <1>3, <1>4, <1>6, FrameKinds
      <4> QED
        BY <4>1 DEF Streams
    <3> QED
      BY <1>3, <1>4, <3>1, <3>2
  <2>3. later[0] = Len(received'[s])
    <3>1. 0 \in 0..n /\ at[0] = Len(received[s])
      BY <1>1, <1>4, SMTT(30) DEF Relays
    <3> QED
      BY <1>6, <3>1
  <2> QED
    BY <2>1, <2>2, <2>3 DEF Relays
<1> QED
  BY <1>4, <1>7 DEF Moves

(* What dispatch has written to the caller after an output frame.           *)
LEMMA Dispatched ==
  ASSUME Inv, TakeOutput
  PROVE  /\ Head(wire).kind \in Streams
         /\ Head(wire).to \in Len(received[Head(wire).kind]) + 1 .. MaxChunks
         /\ received' \in [Streams -> Seq(1..MaxChunks)]
         /\ Len(received'[Head(wire).kind]) = Head(wire).to
         /\ \A i \in 1..Head(wire).to : received'[Head(wire).kind][i] = i
         /\ \A s \in Streams : s # Head(wire).kind => received'[s] = received[s]
<1> DEFINE f == Head(wire)
           old == received[f.kind]
           chunks == [i \in 1 .. f.to - f.from + 1 |-> f.from + i - 1]
<1>1. f.kind \in Streams /\ f \in Frames /\ wire # <<>>
  BY DEF TakeOutput, Inv, TypeOK
<1>2. /\ f.from \in 1..MaxChunks /\ f.to \in 1..MaxChunks
      /\ f.from = Len(old) + 1 /\ f.from <= f.to
  BY <1>1, FrameTypes, HeadIsNext DEF Inv
<1>3. received' = [received EXCEPT ![f.kind] = old \o chunks]
  BY DEF TakeOutput
<1>4. chunks \in Seq(1..MaxChunks) /\ old \in Seq(1..MaxChunks)
  BY <1>1, <1>2, Chunks DEF Inv, TypeOK
<1>5. /\ Len(chunks) = f.to - f.from + 1
      /\ \A i \in 1 .. f.to - f.from + 1 : chunks[i] = f.from + i - 1
  BY <1>2
<1>6. \A i \in 1..Len(old) : old[i] = i
  BY <1>1 DEF Inv, InOrder
<1> HIDE DEF chunks, old
<1>7. /\ old \o chunks \in Seq(1..MaxChunks)
      /\ Len(old \o chunks) = Len(old) + Len(chunks)
      /\ \A i \in 1 .. Len(old) + Len(chunks) :
           (old \o chunks)[i] = IF i <= Len(old) THEN old[i] ELSE chunks[i - Len(old)]
  BY <1>4, ConcatProperties
<1>8. Len(old) \in Nat /\ Len(old) + Len(chunks) = f.to
  BY <1>2, <1>4, <1>5
<1>9. ASSUME NEW i \in 1..f.to PROVE (old \o chunks)[i] = i
  <2>1. CASE i <= Len(old)
    BY <1>6, <1>7, <1>8, <2>1
  <2>2. CASE i > Len(old)
    <3>1. i - Len(old) \in 1 .. f.to - f.from + 1
      BY <1>2, <1>8, <2>2
    <3>2. chunks[i - Len(old)] = f.from + (i - Len(old)) - 1
      BY <1>5, <3>1
    <3>3. (old \o chunks)[i] = chunks[i - Len(old)]
      BY <1>7, <1>8, <2>2
    <3> QED
      BY <1>2, <1>8, <3>2, <3>3
  <2> QED
    BY <1>8, <2>1, <2>2
<1>10. received' \in [Streams -> Seq(1..MaxChunks)]
  BY <1>1, <1>3, <1>7 DEF Inv, TypeOK
<1>11. received'[f.kind] = old \o chunks
  BY <1>1, <1>3 DEF Inv, TypeOK
<1>12. \A s \in Streams : s # f.kind => received'[s] = received[s]
  BY <1>3 DEF Inv, TypeOK
<1>13. f.to \in Len(old) + 1 .. MaxChunks
  BY <1>2
<1> QED
  BY <1>1, <1>7, <1>8, <1>9, <1>10, <1>11, <1>12, <1>13 DEF old

LEMMA InOrderNext ==
  ASSUME Inv, [Next]_vars
  PROVE  InOrder'
<1>1. CASE TakeOutput
  BY <1>1, Dispatched DEF InOrder, Inv
<1>2. CASE ~TakeOutput
  <2>1. received' = received
    BY <1>2 DEF Next, vars, clientVars, ScriptStep, Write, Fork, ChildEnds,
                ScriptEnds, HandlerStep, ReadBody, WriteScript, AgentError, Start,
                Watch, Join, Reap, SendExit, PumpStep, PumpRead, PumpSend, PumpEnd,
                NoticeGone, KillGroup, ClientStep, GetHeader, HeaderLost, TakeExit,
                TakeFailure, HeaderTimeout, Cancel, Finish, Cut
  <2> QED
    BY <2>1 DEF InOrder, Inv
<1> QED
  BY <1>1, <1>2

LEMMA WireNext ==
  ASSUME Inv, [Next]_vars
  PROVE  WireState'
<1>1. SUFFICES ASSUME NEW s \in Streams PROVE Moves(s)'
  BY DEF WireState, Moves
<1>2. Moves(s) /\ TypeOK /\ Control /\ TypeOK'
  BY TypeNext DEF Inv, WireState, Moves, Control
<1>3. \A i \in 1..Len(wire) : wire[i].kind = "exit" => UNCHANGED <<written, sent>>
  BY <1>2, FinalStays DEF Inv, ExitsAreFinal
<1>4. CASE UNCHANGED <<wire, received, sent>> /\ conn' \in {conn, "cut"}
  BY <1>2, <1>3, <1>4, Kept
<1>5. CASE \/ UNCHANGED vars \/ ScriptStep \/ ReadBody \/ WriteScript \/ Start \/ Watch
           \/ Join \/ Reap \/ NoticeGone \/ KillGroup \/ GetHeader
           \/ \E r \in Streams : PumpRead(r) \/ PumpEnd(r)
  <2>1. UNCHANGED <<wire, received, sent, conn>>
    BY <1>5 DEF vars, netVars, clientVars, pumpVars, ScriptStep, Write, Fork,
                ChildEnds, ScriptEnds, ReadBody, WriteScript, Start, Watch, Join,
                Reap, NoticeGone, KillGroup, GetHeader, PumpRead, PumpEnd
  <2> QED
    BY <2>1, <1>4
<1>6. CASE AgentError
  <2>1. UNCHANGED <<received, sent, written>> /\ Send(Error)
    BY <1>6 DEF AgentError, scriptVars, pumpVars, clientVars
  <2>2. CASE conn = "up"
    BY <1>2, <2>1, <2>2, Sends, FrameTypes, FrameKinds DEF Send, TypeOK, Streams
  <2>3. CASE conn # "up"
    BY <1>4, <2>1, <2>3 DEF Send, netVars
  <2> QED
    BY <2>2, <2>3
<1>7. CASE SendExit
  <2>1. UNCHANGED <<received, sent, written>> /\ Send(Exit(status)) /\ handler = "exit"
    BY <1>7 DEF SendExit, Step, scriptVars, pumpVars, clientVars
  <2>2. status \in Codes \cup {SignalCode} /\ sent[s] = written[s]
    BY <1>2, <2>1 DEF TypeOK, Control, HandlerState, ProcessState, PumpState, Drained
  <2>3. CASE conn = "up"
    <3> DEFINE f == Exit(status)
    <3>1. f \in Frames /\ f.kind = "exit" /\ f.kind # s
      BY <2>2, FrameTypes, FrameKinds DEF Streams
    <3>2. wire' = Append(wire, f) /\ conn' = "up"
      BY <2>1, <2>3 DEF Send
    <3>3. sent' \in [Streams -> 0..MaxChunks] /\ sent'[s] = sent[s]
      BY <1>2, <2>1 DEF TypeOK
    <3> HIDE DEF f
    <3> QED
      BY <1>2, <2>1, <2>2, <2>3, <3>1, <3>2, <3>3, Sends
  <2>4. CASE conn # "up"
    BY <1>4, <2>1, <2>4 DEF Send, netVars
  <2> QED
    BY <2>3, <2>4
<1>8. ASSUME NEW r \in Streams, PumpSend(r) PROVE Moves(s)'
  <2> DEFINE f == Output(r, sent[r] + 1, taken[r])
  <2>1. /\ UNCHANGED <<received, written>> /\ Send(f)
        /\ sent' = [sent EXCEPT ![r] = taken[r]]
    BY <1>8 DEF PumpSend, scriptVars, clientVars
  <2>2. f \in Frames /\ sent[r] < taken[r]
    BY <1>2, <1>8, SendsFrames DEF PumpSend
  <2>3. f.kind = r /\ f.from = sent[r] + 1 /\ f.to = taken[r]
    BY FrameKinds
  <2> HIDE DEF f
  <2>4. sent' \in [Streams -> 0..MaxChunks] /\ f.kind # "exit"
    BY <1>2, <2>3 DEF TypeOK, Streams
  <2>5. IF f.kind = s
        THEN f.from = sent[s] + 1 /\ sent[s] < f.to /\ sent'[s] = f.to
        ELSE sent'[s] = sent[s]
    BY <1>2, <2>1, <2>2, <2>3 DEF TypeOK
  <2>6. CASE conn = "up"
    <3>1. wire' = Append(wire, f) /\ conn' = "up"
      BY <2>1, <2>6 DEF Send
    <3> QED
      BY <1>2, <2>1, <2>2, <2>4, <2>5, <2>6, <3>1, Sends
  <2>7. CASE conn # "up"
    <3>1. UNCHANGED <<wire, conn>>
      BY <2>1, <2>7 DEF Send, netVars
    <3> QED
      BY <1>2, <1>3, <2>1, <2>2, <2>7, <3>1, Lags
  <2> QED
    BY <2>6, <2>7
<1>9. CASE TakeOutput
  BY <1>2, <1>9, Takes, Dispatched
  DEF TakeOutput, scriptVars, pumpVars
<1>10. CASE TakeExit \/ TakeFailure \/ HeaderLost \/ HeaderTimeout \/ Cancel
  <2>1. wire' = <<>> /\ conn' = "cut" /\ UNCHANGED <<received, sent, written>>
    BY <1>10 DEF TakeExit, TakeFailure, HeaderLost, HeaderTimeout, Cancel, Finish,
                 scriptVars, pumpVars
  <2>2. wire' = SubSeq(wire, 1, 0) /\ 0 \in 0..Len(wire)
    BY <1>2, <2>1 DEF TypeOK
  <2> QED
    BY <1>2, <2>1, <2>2, Breaks
<1>11. CASE Cut
  <2>1. /\ UNCHANGED <<received, sent, written>> /\ conn' = "cut"
        /\ \E n \in 0..Len(wire) : \/ wire' = SubSeq(wire, 1, n)
                                    \/ wire' = Append(SubSeq(wire, 1, n), Partial)
    BY <1>11 DEF Cut, scriptVars, pumpVars, clientVars
  <2> QED
    BY <1>2, <2>1, Breaks
<1> QED
  BY <1>5, <1>6, <1>7, <1>8, <1>9, <1>10, <1>11
  DEF Next, HandlerStep, PumpStep, ClientStep

(* The client has read an exit frame: everything written is in its hands.   *)
LEMMA ExitFrameIsLast ==
  ASSUME Inv, TakeExit
  PROVE  /\ Final /\ Head(wire).code = status
         /\ \A s \in Streams : Len(received[s]) = written[s]
<1>1. 1 \in 1..Len(wire) /\ wire[1] = Head(wire) /\ wire[1].kind = "exit"
  BY DEF TakeExit, Inv, TypeOK
<1>2. ASSUME NEW s \in Streams PROVE Len(received[s]) = written[s]
  <2>1. PICK at \in [0..Len(wire) -> 0..MaxChunks] : Relays(s, at)
    BY DEF Inv, WireState
  <2>2. at[1] = written[s] /\ at[1] = at[0]
    BY <1>1, <2>1 DEF Relays, Streams
  <2> QED
    BY <2>1, <2>2 DEF Relays
<1> QED
  BY <1>1, <1>2 DEF Inv, ExitsAreFinal

LEMMA ClientNext ==
  ASSUME Inv, [Next]_vars
  PROVE  ClientState'
<1>1. TypeOK /\ Control /\ ClientState /\ TypeOK'
  BY TypeNext DEF Inv, Control
<1>2. CASE TakeExit
  <2>1. /\ Final /\ Head(wire).code = status
        /\ \A s \in Streams : Len(received[s]) = written[s]
    BY <1>2, ExitFrameIsLast
  <2>2. /\ client' = "done" /\ conn' = "cut"
        /\ verdict' = IF status = 0 THEN "success" ELSE "buildFailure"
        /\ UNCHANGED <<received, written, status>> /\ Final'
    BY <1>2, <2>1, FinalStays, <1>1
    DEF TakeExit, Finish, scriptVars, pumpVars, agentVars
  <2> QED
    BY <2>1, <2>2 DEF ClientState
<1>3. CASE TakeFailure \/ HeaderLost \/ HeaderTimeout \/ Cancel
  <2>1. client' = "done" /\ conn' = "cut" /\ verdict' = "systemFailure"
    BY <1>3 DEF TakeFailure, HeaderLost, HeaderTimeout, Cancel, Finish
  <2> QED
    BY <2>1 DEF ClientState
<1>4. CASE GetHeader \/ TakeOutput
  BY <1>1, <1>4 DEF GetHeader, TakeOutput, ClientState
<1>5. CASE UNCHANGED clientVars /\ conn' \in {conn, "cut"}
  <2>1. Final => Final' /\ UNCHANGED <<written, status>>
    BY <1>1, FinalStays
  <2> QED
    BY <1>1, <1>5, <2>1 DEF ClientState, clientVars
<1>6. CASE \/ UNCHANGED vars \/ ScriptStep \/ HandlerStep \/ NoticeGone \/ KillGroup \/ Cut
           \/ \E s \in Streams : PumpStep(s)
  BY <1>5, <1>6 DEF vars, netVars, ScriptStep, Write, Fork, ChildEnds, ScriptEnds,
      HandlerStep, ReadBody, WriteScript, AgentError, Start, Watch, Join, Reap,
      SendExit, Send, PumpStep, PumpRead, PumpSend, PumpEnd, NoticeGone, KillGroup,
      Cut
<1> QED
  BY <1>2, <1>3, <1>4, <1>6 DEF Next, ClientStep

LEMMA InvNext == Inv /\ [Next]_vars => Inv'
<1> SUFFICES ASSUME Inv, [Next]_vars PROVE Inv'
  OBVIOUS
<1>1. TypeOK' /\ Control' /\ ExitsAreFinal'
  BY TypeNext, ControlNext, ExitsNext DEF Inv, Control
<1>2. WireState' /\ InOrder' /\ ClientState'
  BY WireNext, InOrderNext, ClientNext
<1> QED
  BY <1>1, <1>2 DEF Inv, Control

LEMMA Invariant == Spec => []Inv
BY InvInit, InvNext, PTL DEF Spec

----------------------------------------------------------------------------
(* The types of the exec path, for any capacities.                          *)
THEOREM ExecTypeCorrect == Spec => []TypeOK
<1>1. Inv => TypeOK
  BY DEF Inv
<1> QED
  BY <1>1, Invariant, PTL

(* cmdRun never reports success or a build failure of a script that has not *)
(* ended by itself with that result, or before all of its output has been   *)
(* written to the job log (agent.go handleExec, client.go dispatch).        *)
THEOREM ExecVerdict == Spec => []VerdictIsTheScripts
<1>1. Inv => VerdictIsTheScripts
  BY DEF Inv, TypeOK, ClientState, ProcessState, Final, VerdictIsTheScripts
<1> QED
  BY <1>1, Invariant, PTL

(* The caller's output is a prefix of the script's, whatever is lost.       *)
THEOREM ExecOutput == Spec => []OutputIsFaithful
<1>1. ASSUME Inv, NEW s \in Streams PROVE Len(received[s]) <= written[s]
  <2>1. PICK at \in [0..Len(wire) -> 0..MaxChunks] : Relays(s, at)
    BY <1>1 DEF Inv, WireState
  <2>2. 0 \in 0..Len(wire)
    BY <1>1 DEF Inv, TypeOK
  <2>3. Len(received[s]) <= sent[s] /\ Len(received[s]) \in Nat
    BY <1>1, <2>1, <2>2 DEF Relays, Inv, TypeOK
  <2> QED
    BY <1>1, <2>3 DEF Inv, TypeOK, PumpState
<1>2. Inv => OutputIsFaithful
  BY <1>1 DEF OutputIsFaithful, Inv, InOrder
<1> QED
  BY <1>2, Invariant, PTL

(* Nothing follows the exit or error frame, and a response that can still   *)
(* be read does not end without one (agent.go:126,133).                     *)
THEOREM ExecOneTerminalFrame == Spec => OneTerminalFrame
<1>1. ASSUME Inv, Inv', [Next]_vars, handler' = "done", conn' = "up" PROVE ended'
  BY <1>1 DEF Inv, EndState
<1>2. ASSUME Inv, [Next]_vars, ended PROVE Len(wire') <= Len(wire)
  <2>1. /\ handler = "done" /\ wire \in Seq(Frames) /\ Len(wire) \in Nat
        /\ \A s \in Streams : pump[s] \in {"none", "done"}
    BY <1>2 DEF Inv, TypeOK, EndState, HandlerState, Drained
  <2>2. CASE wire' = wire \/ wire' = <<>>
    BY <2>1, <2>2
  <2>3. CASE TakeOutput
    BY <2>1, <2>3 DEF TakeOutput
  <2>4. CASE Cut
    <3>1. PICK n \in 0..Len(wire) :
            \/ wire' = SubSeq(wire, 1, n)
            \/ n < Len(wire) /\ wire' = Append(SubSeq(wire, 1, n), Partial)
      BY <2>4 DEF Cut
    <3>2. SubSeq(wire, 1, n) \in Seq(Frames) /\ Len(SubSeq(wire, 1, n)) = n
      BY <2>1, Prefix
    <3>3. CASE wire' = SubSeq(wire, 1, n)
      BY <2>1, <3>2, <3>3
    <3>4. CASE n < Len(wire) /\ wire' = Append(SubSeq(wire, 1, n), Partial)
      <4>1. Len(wire') = n + 1
        BY <3>2, <3>4, FrameTypes, AppendProperties
      <4> QED
        BY <2>1, <3>4, <4>1
    <3> QED
      BY <3>1, <3>3, <3>4
  <2>5. CASE ~TakeOutput /\ ~Cut
    BY <1>2, <2>1, <2>2, <2>5
    DEF Next, vars, netVars, ScriptStep, Write, Fork, ChildEnds, ScriptEnds,
        HandlerStep, ReadBody, WriteScript, AgentError, Start, Watch, Join, Reap,
        SendExit, Step, PumpStep, PumpRead, PumpSend, PumpEnd, NoticeGone, KillGroup,
        ClientStep, GetHeader, HeaderLost, TakeExit, TakeFailure, HeaderTimeout,
        Cancel, Finish
  <2> QED
    BY <2>3, <2>4, <2>5
<1> QED
  BY <1>1, <1>2, Invariant, PTL DEF Spec, OneTerminalFrame

----------------------------------------------------------------------------
(* The refinement: what the abstract stage sees of each step.               *)

arrived == [s \in Streams |-> Len(received[s])]
remoteVars == <<written, arrived, status, verdict>>

LEMMA DeliverStep ==
  ASSUME Inv, TakeOutput
  PROVE  \E s \in Streams : Remote!Deliver(s)
<1> DEFINE s == Head(wire).kind
           n == Head(wire).to
<1>1. /\ s \in Streams /\ n \in Len(received[s]) + 1 .. MaxChunks
      /\ Len(received'[s]) = n
      /\ \A r \in Streams : r # s => received'[r] = received[r]
  BY Dispatched
<1>2. \E at \in [0..Len(wire) -> 0..MaxChunks] : Relays(s, at)
  BY <1>1 DEF Inv, WireState
<1>3. n <= written[s]
  <2>1. PICK at \in [0..Len(wire) -> 0..MaxChunks] : Relays(s, at)
    BY <1>2
  <2>2. 1 \in 1..Len(wire) /\ wire[1] = Head(wire) /\ 1 \in 0..Len(wire)
    BY DEF TakeOutput, Inv, TypeOK
  <2>3. at[1] = n /\ at[1] <= sent[s]
    BY <2>1, <2>2 DEF Relays
  <2> QED
    BY <1>1, <2>3 DEF Inv, TypeOK, PumpState
<1>4. n \in arrived[s] + 1 .. written[s]
  BY <1>1, <1>3 DEF Inv, TypeOK, arrived
<1>5. arrived' = [arrived EXCEPT ![s] = n]
  BY <1>1 DEF arrived
<1>6. client = "stream" /\ verdict = "none" /\ UNCHANGED <<written, status, verdict>>
  BY DEF TakeOutput, Inv, ClientState, scriptVars
<1>7. /\ \E m \in arrived[s] + 1 .. written[s] : arrived' = [arrived EXCEPT ![s] = m]
  BY <1>4, <1>5
<1> QED
  BY <1>1, <1>6, <1>7 DEF Remote!Deliver, arrived

LEMMA ReportStep ==
  ASSUME Inv, TakeExit
  PROVE  Remote!Report
<1>1. /\ Final /\ Head(wire).code = status
      /\ \A s \in Streams : Len(received[s]) = written[s]
  BY ExitFrameIsLast
<1>2. client = "stream" /\ verdict = "none" /\ status # Running
  BY <1>1 DEF TakeExit, Inv, ClientState, Final, ProcessState
<1>3. arrived = written
  BY <1>1 DEF Inv, TypeOK, arrived
<1>4. UNCHANGED <<written, arrived, status>>
  BY DEF TakeExit, Finish, scriptVars, arrived
<1>5. verdict' = IF status = 0 THEN "success" ELSE "buildFailure"
  BY <1>1 DEF TakeExit, Finish
<1> QED
  BY <1>2, <1>3, <1>4, <1>5 DEF Remote!Report, arrived

LEMMA GiveUpStep ==
  ASSUME Inv, TakeFailure \/ HeaderLost \/ HeaderTimeout \/ Cancel
  PROVE  Remote!GiveUp
<1>1. verdict = "none" /\ verdict' = "systemFailure"
  BY DEF TakeFailure, HeaderLost, HeaderTimeout, Cancel, Finish, Inv, ClientState
<1>2. UNCHANGED <<written, received, status>>
  BY DEF TakeFailure, HeaderLost, HeaderTimeout, Cancel, Finish, scriptVars
<1> QED
  BY <1>1, <1>2 DEF Remote!GiveUp

LEMMA ProduceStep ==
  ASSUME Inv, NEW p \in Procs, NEW s \in Streams, Write(p, s)
  PROVE  Remote!Produce(s)
<1>1. ~Final
  BY DEF Write, Inv, PumpState, Final, Drained
<1>2. verdict \in {"none", "systemFailure"}
  BY <1>1 DEF Inv, ClientState, TypeOK
<1> QED
  BY <1>2 DEF Remote!Produce, Write, clientVars

LEMMA EndStep ==
  ASSUME Inv, NEW code \in Codes \cup {SignalCode}, ScriptEnds(code)
  PROVE  Remote!End(code)
BY DEF ScriptEnds, Alive, Inv, ProcessState, clientVars, Remote!End

LEMMA KillStep ==
  ASSUME Inv, KillGroup
  PROVE  Remote!End(SignalCode) \/ UNCHANGED remoteVars
BY DEF KillGroup, Alive, Inv, ProcessState, clientVars, Remote!End, remoteVars,
       arrived

LEMMA RemoteStep ==
  ASSUME Inv, [Next]_vars
  PROVE  [Remote!Next]_remoteVars
<1>1. CASE TakeOutput
  BY <1>1, DeliverStep DEF Remote!Next
<1>2. CASE TakeExit
  BY <1>2, ReportStep DEF Remote!Next
<1>3. CASE TakeFailure \/ HeaderLost \/ HeaderTimeout \/ Cancel
  BY <1>3, GiveUpStep DEF Remote!Next
<1>4. ASSUME NEW p \in Procs, NEW s \in Streams, Write(p, s)
      PROVE  Remote!Next
  BY <1>4, ProduceStep DEF Remote!Next
<1>5. ASSUME NEW code \in Codes \cup {SignalCode}, ScriptEnds(code)
      PROVE  Remote!Next
  BY <1>5, EndStep DEF Remote!Next
<1>6. CASE KillGroup
  BY <1>6, KillStep DEF Remote!Next
<1>7. CASE \/ UNCHANGED vars \/ Fork \/ ChildEnds \/ HandlerStep \/ NoticeGone
           \/ GetHeader \/ Cut \/ \E s \in Streams : PumpStep(s)
  <2>1. UNCHANGED <<written, received, status, verdict>>
    BY <1>7 DEF vars, scriptVars, clientVars, Fork, ChildEnds, HandlerStep, ReadBody,
        WriteScript, AgentError, Start, Watch, Join, Reap, SendExit, PumpStep,
        PumpRead, PumpSend, PumpEnd, NoticeGone, GetHeader, Cut
  <2> QED
    BY <2>1 DEF remoteVars, arrived
<1> QED
  BY <1>1, <1>2, <1>3, <1>4, <1>5, <1>6, <1>7 DEF Next, ScriptStep, ClientStep

(* The frames, pumps, goroutines and connections of the exec path are an    *)
(* implementation of running the script remotely, for any amount of output  *)
(* and any capacities.                                                      *)
THEOREM ExecRefines == Spec => RemoteSpec
<1>1. Init => Remote!Init
  BY DEF Init, Remote!Init
<1>2. Inv /\ [Next]_vars => [Remote!Next]_(Remote!vars)
  BY RemoteStep DEF Remote!vars, remoteVars, arrived
<1> QED
  BY <1>1, <1>2, Invariant, PTL DEF Spec, RemoteSpec, Remote!Spec

=============================================================================
