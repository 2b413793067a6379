----------------------------- MODULE StateStore -----------------------------
(***************************************************************************)
(* The state directory (internal/state/state.go): Save writes a temporary   *)
(* file named after the key and renames it over the state file.  Files are  *)
(* inodes, since a name may move from under a process that has it open.    *)
(* A process may be killed between any two system calls.                   *)
(***************************************************************************)
CONSTANTS
  Procs,    (* stage processes that use the directory at the same time      *)
  Keys,     (* job keys                                                     *)
  KeyOf,    (* the key of the job a process works for                       *)
  Records,  (* states a job may save                                        *)
  Inodes,   (* files of the file system                                     *)
  None,     (* no inode, no record                                          *)
  Empty,    (* content of a file just created or truncated                  *)
  Torn      (* any other content that does not parse                        *)

ASSUME StoreAssumption ==
  /\ KeyOf \in [Procs -> Keys]
  /\ None \notin Inodes \cup Records \cup {Empty, Torn}
  /\ Records \cap {Empty, Torn} = {}

VARIABLES
  final,   (* the inode at <key>.json                                       *)
  tmp,     (* the inode at <key>.json.tmp                                   *)
  content, (* what is in each inode                                         *)
  pc,      (* the next system call of a Save, "idle" outside one            *)
  rec,     (* the record being saved                                        *)
  fd,      (* the temporary file it has open                                *)
  answer   (* what the last operation of a process returned                 *)

saveVars == <<pc, rec, fd>>
vars == <<final, tmp, content, saveVars, answer>>

Said(kind) == [kind |-> kind]
Loaded(r) == [kind |-> "loaded", record |-> r]
Answers == {Said(kind) : kind \in {"none", "ok", "error"}}
           \cup {Loaded(r) : r \in Records \cup {None}}

TypeOK ==
  /\ final \in [Keys -> Inodes \cup {None}]
  /\ tmp \in [Keys -> Inodes \cup {None}]
  /\ content \in [Inodes -> Records \cup {Empty, Torn}]
  /\ pc \in [Procs -> {"idle", "open", "write", "rename"}]
  /\ rec \in [Procs -> Records \cup {None}]
  /\ fd \in [Procs -> Inodes \cup {None}]
  /\ answer \in [Procs -> Answers]
  /\ \A p \in Procs : /\ pc[p] = "idle" <=> rec[p] = None
                      /\ pc[p] = "write" <=> fd[p] # None

Init ==
  /\ final = [k \in Keys |-> None]
  /\ tmp = [k \in Keys |-> None]
  /\ content = [i \in Inodes |-> Empty]
  /\ pc = [p \in Procs |-> "idle"]
  /\ rec = [p \in Procs |-> None]
  /\ fd = [p \in Procs |-> None]
  /\ answer = [p \in Procs |-> Said("none")]

----------------------------------------------------------------------------
(* No name and no process refers to the inode.                              *)
Free(i) ==
  /\ \A k \in Keys : i # final[k] /\ i # tmp[k]
  /\ \A p \in Procs : i # fd[p]

Answer(p, a) == answer' = [answer EXCEPT ![p] = a]

(* The operation returns, or its process is gone.                           *)
Leave(p, said) ==
  /\ pc' = [pc EXCEPT ![p] = "idle"]
  /\ rec' = [rec EXCEPT ![p] = None]
  /\ fd' = [fd EXCEPT ![p] = None]
  /\ Answer(p, Said(said))

----------------------------------------------------------------------------
(* Save, after MkdirAll and the encoding, whose errors change nothing.      *)
BeginSave(p, r) ==
  /\ pc[p] = "idle"
  /\ pc' = [pc EXCEPT ![p] = "open"]
  /\ rec' = [rec EXCEPT ![p] = r]
  /\ Answer(p, Said("none"))
  /\ UNCHANGED <<final, tmp, content, fd>>

(* A call of Save fails and leaves the files as they are.                   *)
SaveFails(p) ==
  /\ pc[p] # "idle"
  /\ Leave(p, "error")
  /\ UNCHANGED <<final, tmp, content>>

Bug_OpenTmp(p) ==
  /\ pc[p] = "open"
  /\ \E i \in Inodes :
       /\ IF final[KeyOf[p]] # None THEN i = final[KeyOf[p]] ELSE Free(i)
       /\ tmp' = [tmp EXCEPT ![KeyOf[p]] = i]
       /\ content' = [content EXCEPT ![i] = Empty]
       /\ fd' = [fd EXCEPT ![p] = i]
  /\ pc' = [pc EXCEPT ![p] = "write"]
  /\ UNCHANGED <<final, rec, answer>>

(* os.WriteFile opens with O_CREATE and O_TRUNC: a temporary file somebody  *)
(* left there, or is writing, is taken over.                                *)
OpenTmp(p) ==
  /\ pc[p] = "open"
  /\ \E i \in Inodes :
       /\ IF tmp[KeyOf[p]] # None THEN i = tmp[KeyOf[p]] ELSE Free(i)
       /\ tmp' = [tmp EXCEPT ![KeyOf[p]] = i]
       /\ content' = [content EXCEPT ![i] = Empty]
       /\ fd' = [fd EXCEPT ![p] = i]
  /\ pc' = [pc EXCEPT ![p] = "write"]
  /\ UNCHANGED <<final, rec, answer>>

Bug_WriteTmp(p) ==
  /\ pc[p] = "write"
  /\ content' = [content EXCEPT ![fd[p]] = rec[p]]
  /\ pc' = [pc EXCEPT ![p] = "rename"]
  /\ UNCHANGED <<final, tmp, rec, fd, answer>>

(* It writes from offset 0 and closes.  What another process has written    *)
(* there since, when it was longer, shows behind the record.                *)
WriteTmp(p) ==
  /\ pc[p] = "write"
  /\ content' \in {[content EXCEPT ![fd[p]] = c] :
                     c \in IF content[fd[p]] = Empty
                           THEN {rec[p]} ELSE {rec[p], Torn}}
  /\ pc' = [pc EXCEPT ![p] = "rename"]
  /\ fd' = [fd EXCEPT ![p] = None]
  /\ UNCHANGED <<final, tmp, rec, answer>>

(* The write fails, or is cut short by the death of the process.            *)
WriteFails(p, said) ==
  /\ pc[p] = "write"
  /\ content' = [content EXCEPT ![fd[p]] = Torn]
  /\ Leave(p, said)
  /\ UNCHANGED <<final, tmp>>

(* os.Rename; without a temporary file it fails (SaveFails).                *)
Rename(p) ==
  /\ pc[p] = "rename"
  /\ tmp[KeyOf[p]] # None
  /\ final' = [final EXCEPT ![KeyOf[p]] = tmp[KeyOf[p]]]
  /\ tmp' = [tmp EXCEPT ![KeyOf[p]] = None]
  /\ Leave(p, "ok")
  /\ UNCHANGED content

----------------------------------------------------------------------------
(* The content of the state file, None when there is no file.               *)
StateFile(k) == IF final[k] = None THEN None ELSE content[final[k]]

(* Load: no file, a record, or an error, parse errors included.             *)
Load(p) ==
  /\ pc[p] = "idle"
  /\ \/ /\ StateFile(KeyOf[p]) \notin {Empty, Torn}
        /\ Answer(p, Loaded(StateFile(KeyOf[p])))
     \/ Answer(p, Said("error"))
  /\ UNCHANGED <<final, tmp, content, saveVars>>

(* Remove: a missing file is no error.                                      *)
Remove(p) ==
  /\ pc[p] = "idle"
  /\ \/ /\ final' = [final EXCEPT ![KeyOf[p]] = None]
        /\ Answer(p, Said("ok"))
     \/ /\ Answer(p, Said("error"))
        /\ UNCHANGED final
  /\ UNCHANGED <<tmp, content, saveVars>>

(* The process dies; the next stage of the job comes after it.              *)
Kill(p) ==
  /\ Leave(p, "none")
  /\ UNCHANGED <<final, tmp, content>>

SaveStep(p) ==
  \/ \E r \in Records : BeginSave(p, r)
  \/ SaveFails(p) \/ OpenTmp(p) \/ WriteTmp(p) \/ Rename(p)
  \/ WriteFails(p, "error") \/ WriteFails(p, "none")

Next == \E p \in Procs : SaveStep(p) \/ Load(p) \/ Remove(p) \/ Kill(p)

Spec == Init /\ [][Next]_vars

----------------------------------------------------------------------------
(* Properties.                                                              *)

(* For stages of jobs with keys of their own, the directory implements the  *)
(* atomic record, temporary files of killed processes notwithstanding: what *)
(* DriverLifecycle takes Save, Load and Remove for.                         *)
Cell == INSTANCE AtomicRecord WITH
  record <- [k \in Keys |-> StateFile(k)],
  op <- rec

RecordSpec == Cell!Spec

(* "Save writes the state atomically (write temp + rename)" (state.go:63):  *)
(* no state file is ever empty or garbled.                                  *)
SaveIsAtomic == \A k \in Keys : StateFile(k) \notin {Empty, Torn}

=============================================================================
