------------------------ MODULE AgentRequests_proofs ------------------------
(***************************************************************************)
(* For any number of requests: types, and that work of two requests         *)
(* overlaps only when the caller of the earlier one was told a system       *)
(* failure.                                                                 *)
(***************************************************************************)
EXTENDS AgentRequests, TLAPS

(* What an exit code told to the caller stands for, and that requests are   *)
(* made one after the other.                                                *)
RepliedIsOver ==
  \A r \in Requests :
    handler[r] = "replied" => script[r] = "ended" /\ child[r] \notin HoldsPipes

ExitIsReplied == \A r \in Requests : told[r] = "exit" => handler[r] = "replied"

InOrder ==
  \A q, r \in Requests : q < r /\ told[r] # "unasked" => Answered(q)

Inv == TypeOK /\ RepliedIsOver /\ ExitIsReplied /\ InOrder

LEMMA InvInit == Init => Inv
BY DEF Init, Inv, TypeOK, RepliedIsOver, ExitIsReplied, InOrder, Answered,
       HoldsPipes, InGroup

LEMMA InvNext == Inv /\ [Next]_vars => Inv'
<1> SUFFICES ASSUME Inv, [Next]_vars PROVE Inv'
  OBVIOUS
<1> USE DEF Inv, TypeOK, RepliedIsOver, ExitIsReplied, InOrder, Answered,
            HoldsPipes, InGroup
<1>1. CASE UNCHANGED vars
  BY <1>1 DEF vars
<1>2. ASSUME NEW r \in Requests, Request(r) PROVE Inv'
  BY <1>2 DEF Request
<1>3. ASSUME NEW r \in Requests, Start(r) PROVE Inv'
  BY <1>3 DEF Start
<1>4. ASSUME NEW r \in Requests, Fork(r) PROVE Inv'
  BY <1>4 DEF Fork
<1>5. ASSUME NEW r \in Requests, ScriptEnds(r) PROVE Inv'
  BY <1>5 DEF ScriptEnds
<1>6. ASSUME NEW r \in Requests, ChildEnds(r) PROVE Inv'
  BY <1>6 DEF ChildEnds
<1>7. ASSUME NEW r \in Requests, Reply(r) PROVE Inv'
  BY <1>7 DEF Reply
<1>8. ASSUME NEW r \in Requests, Hear(r) PROVE Inv'
  BY <1>8 DEF Hear
<1>9. ASSUME NEW r \in Requests, Lose(r) PROVE Inv'
  BY <1>9 DEF Lose
<1>10. ASSUME NEW r \in Requests, Kill(r) PROVE Inv'
  BY <1>10 DEF Kill
<1> QED
  BY <1>1, <1>2, <1>3, <1>4, <1>5, <1>6, <1>7, <1>8, <1>9, <1>10 DEF Next

LEMMA Invariant == Spec => []Inv
BY InvInit, InvNext, PTL DEF Spec

(* The types, and that a connection is up only while its caller waits and   *)
(* that the group is killed only after the script was started (agent.go     *)
(* handleExec).                                                             *)
THEOREM RequestsTypeCorrect == Spec => []TypeOK
<1>1. Inv => TypeOK
  BY DEF Inv
<1> QED
  BY <1>1, Invariant, PTL

(* Two scripts at work in one VM at once mean that the caller of the        *)
(* earlier one has been told a system failure, whatever children the        *)
(* scripts leave and wherever connections break (agent.go:79).              *)
THEOREM NoSilentOverlap == Spec => []OverlapOnlyAfterLoss
<1>1. Inv => OverlapOnlyAfterLoss
  BY DEF Inv, InOrder, ExitIsReplied, RepliedIsOver, OverlapOnlyAfterLoss, Busy,
         Answered
<1> QED
  BY <1>1, Invariant, PTL

=============================================================================
