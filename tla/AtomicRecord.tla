---------------------------- MODULE AtomicRecord ----------------------------
(***************************************************************************)
(* What the stages of a job take the state directory for: one record per   *)
(* key.  A save that reports success has replaced the record, one that     *)
(* reports an error or dies has left it alone, and a load returns it whole. *)
(* This is the file DriverLifecycle uses; StateStore implements it.         *)
(***************************************************************************)
CONSTANTS Procs, Keys, KeyOf, Records, None

VARIABLES
  record, (* the record of each key, None when there is none               *)
  op,     (* the record a process is saving, None when it is not           *)
  answer  (* what its last operation returned                              *)

vars == <<record, op, answer>>

Answers == [kind : {"none", "ok", "error"}] \cup
           [kind : {"loaded"}, record : Records \cup {None}]

Said(kind) == [kind |-> kind]
Loaded(r) == [kind |-> "loaded", record |-> r]

Init ==
  /\ record = [k \in Keys |-> None]
  /\ op = [p \in Procs |-> None]
  /\ answer = [p \in Procs |-> Said("none")]

Answer(p, a) == answer' = [answer EXCEPT ![p] = a]

Begin(p, r) ==
  /\ op[p] = None
  /\ op' = [op EXCEPT ![p] = r]
  /\ Answer(p, Said("none"))
  /\ UNCHANGED record

Commit(p) ==
  /\ op[p] # None
  /\ record' = [record EXCEPT ![KeyOf[p]] = op[p]]
  /\ op' = [op EXCEPT ![p] = None]
  /\ Answer(p, Said("ok"))

(* An error, or the death of the process.                                   *)
Abandon(p) ==
  /\ op[p] # None
  /\ op' = [op EXCEPT ![p] = None]
  /\ Answer(p, Said("error")) \/ Answer(p, Said("none"))
  /\ UNCHANGED record

Read(p) ==
  /\ op[p] = None
  /\ Answer(p, Loaded(record[KeyOf[p]])) \/ Answer(p, Said("error"))
  /\ UNCHANGED <<record, op>>

Erase(p) ==
  /\ op[p] = None
  /\ \/ /\ record' = [record EXCEPT ![KeyOf[p]] = None]
        /\ Answer(p, Said("ok"))
     \/ /\ Answer(p, Said("error"))
        /\ UNCHANGED record
  /\ UNCHANGED op

(* A process that is not saving dies; a new one takes its place.            *)
Restart(p) ==
  /\ op[p] = None
  /\ Answer(p, Said("none"))
  /\ UNCHANGED <<record, op>>

Next ==
  \E p \in Procs :
    \/ \E r \in Records : Begin(p, r)
    \/ Commit(p) \/ Abandon(p) \/ Read(p) \/ Erase(p) \/ Restart(p)

Spec == Init /\ [][Next]_vars

=============================================================================
