-------------------------- MODULE StateStore_proofs -------------------------
(***************************************************************************)
(* For any number of processes, wherever they die: types; and, where each   *)
(* has a key of its own, the state directory implements the atomic record.  *)
(***************************************************************************)
EXTENDS StateStore, TLAPS

DistinctKeys == \A p, q \in Procs : KeyOf[p] = KeyOf[q] => p = q

----------------------------------------------------------------------------
(* Types: no assumption on the keys, which any processes may share.         *)

LEMMA TypeInit == Init => TypeOK
BY StoreAssumption DEF Init, TypeOK, Answers, Said

LEMMA LeaveKeeps ==
  ASSUME TypeOK, NEW p \in Procs, NEW said \in {"none", "ok", "error"}, Leave(p, said)
  PROVE  /\ pc' \in [Procs -> {"idle", "open", "write", "rename"}]
         /\ rec' \in [Procs -> Records \cup {None}]
         /\ fd' \in [Procs -> Inodes \cup {None}]
         /\ answer' \in [Procs -> Answers]
         /\ \A q \in Procs : /\ pc'[q] = "idle" <=> rec'[q] = None
                             /\ pc'[q] = "write" <=> fd'[q] # None
         /\ \A q \in Procs \ {p} : pc'[q] = pc[q] /\ rec'[q] = rec[q] /\ fd'[q] = fd[q]
         /\ pc'[p] = "idle" /\ fd'[p] = None /\ rec'[p] = None
BY DEF TypeOK, Leave, Answer, Answers, Said

LEMMA TypeNext == ASSUME TypeOK, [Next]_vars PROVE TypeOK'
<1> USE StoreAssumption
<1>1. CASE UNCHANGED vars
  BY <1>1 DEF vars, saveVars, TypeOK
<1>2. ASSUME NEW p \in Procs, NEW r \in Records, BeginSave(p, r) PROVE TypeOK'
  BY <1>2 DEF BeginSave, Answer, Said, Answers, TypeOK
<1>3. ASSUME NEW p \in Procs, SaveFails(p) \/ Kill(p) PROVE TypeOK'
  <2>1. PICK said \in {"none", "ok", "error"} : Leave(p, said)
    BY <1>3 DEF SaveFails, Kill
  <2>2. UNCHANGED <<final, tmp, content>>
    BY <1>3 DEF SaveFails, Kill
  <2>3. QED
    BY <2>1, <2>2, LeaveKeeps DEF TypeOK
<1>4. ASSUME NEW p \in Procs, OpenTmp(p) PROVE TypeOK'
  BY <1>4 DEF OpenTmp, TypeOK
<1>5. ASSUME NEW p \in Procs, WriteTmp(p) PROVE TypeOK'
  <2>1. rec[p] \in Records /\ fd[p] \in Inodes
    BY <1>5 DEF WriteTmp, TypeOK
  <2>2. PICK c \in {rec[p], Torn} : content' = [content EXCEPT ![fd[p]] = c]
    BY <1>5 DEF WriteTmp
  <2>3. content' \in [Inodes -> Records \cup {Empty, Torn}]
    BY <2>1, <2>2 DEF TypeOK
  <2>4. QED
    BY <1>5, <2>3 DEF WriteTmp, TypeOK
<1>6. ASSUME NEW p \in Procs, NEW said \in {"none", "error"}, WriteFails(p, said)
      PROVE  TypeOK'
  <2>1. content' \in [Inodes -> Records \cup {Empty, Torn}]
    BY <1>6 DEF WriteFails, TypeOK
  <2>2. Leave(p, said) /\ UNCHANGED <<final, tmp>>
    BY <1>6 DEF WriteFails
  <2>3. QED
    BY <2>1, <2>2, LeaveKeeps DEF TypeOK
<1>7. ASSUME NEW p \in Procs, Rename(p) PROVE TypeOK'
  <2>1. Leave(p, "ok") /\ UNCHANGED content
    BY <1>7 DEF Rename
  <2>2. /\ final' \in [Keys -> Inodes \cup {None}]
        /\ tmp' \in [Keys -> Inodes \cup {None}]
    BY <1>7 DEF Rename, TypeOK
  <2>3. QED
    BY <2>1, <2>2, LeaveKeeps DEF TypeOK
<1>8. ASSUME NEW p \in Procs, Load(p) PROVE TypeOK'
  <2>1. StateFile(KeyOf[p]) \notin {Empty, Torn}
          => StateFile(KeyOf[p]) \in Records \cup {None}
    BY DEF StateFile, TypeOK
  <2>2. UNCHANGED <<final, tmp, content, pc, rec, fd>> /\ answer' \in [Procs -> Answers]
    BY <1>8, <2>1 DEF Load, Answer, Answers, Said, Loaded, TypeOK, saveVars
  <2>3. QED
    BY <2>2 DEF TypeOK
<1>9. ASSUME NEW p \in Procs, Remove(p) PROVE TypeOK'
  <2>1. /\ UNCHANGED <<tmp, content, pc, rec, fd>>
        /\ final' \in {final, [final EXCEPT ![KeyOf[p]] = None]}
    BY <1>9 DEF Remove, saveVars
  <2>2. answer' \in [Procs -> Answers]
    BY <1>9 DEF Remove, Answer, Answers, Said, TypeOK
  <2>3. QED
    BY <2>1, <2>2 DEF TypeOK
<1>10. QED
  BY <1>1, <1>2, <1>3, <1>4, <1>5, <1>6, <1>7, <1>8, <1>9 DEF Next, SaveStep

(* Types, and that a process has a file open exactly while it writes a      *)
(* record, whatever processes share a key and whichever of them die         *)
(* (state.go:63-104).                                                       *)
THEOREM StoreTypeCorrect == Spec => []TypeOK
BY TypeInit, TypeNext, PTL DEF Spec

----------------------------------------------------------------------------
(* The inductive invariant.                                                 *)

(* No two names share a file that is being written.                         *)
TmpsApart ==
  /\ \A j, k \in Keys : tmp[j] # None /\ tmp[j] = tmp[k] => j = k
  /\ \A j, k \in Keys : final[j] # None => final[j] # tmp[k]

(* A process writes to the temporary file of its key, which is empty.       *)
Writing ==
  \A p \in Procs :
    fd[p] # None => fd[p] = tmp[KeyOf[p]] /\ content[fd[p]] = Empty

(* What it is about to rename is there, and whole.                          *)
Written ==
  \A p \in Procs :
    pc[p] = "rename" => /\ tmp[KeyOf[p]] # None
                        /\ content[tmp[KeyOf[p]]] = rec[p]

Whole == \A k \in Keys : final[k] # None => content[final[k]] \in Records

Inv == TypeOK /\ TmpsApart /\ Writing /\ Written /\ Whole

LEMMA InvInit == Init => Inv
BY TypeInit DEF Init, Inv, TmpsApart, Writing, Written, Whole

LEMMA InvNext == ASSUME DistinctKeys, Inv, [Next]_vars PROVE Inv'
<1> USE StoreAssumption DEF DistinctKeys, Inv
<1>0. TypeOK'
  BY TypeNext
<1>1. CASE UNCHANGED vars
  BY <1>0, <1>1 DEF vars, saveVars, TmpsApart, Writing, Written, Whole
<1>2. ASSUME NEW p \in Procs, NEW r \in Records, BeginSave(p, r) PROVE Inv'
  BY <1>0, <1>2 DEF BeginSave, TypeOK, TmpsApart, Writing, Written, Whole
<1>3. ASSUME NEW p \in Procs, SaveFails(p) \/ Kill(p) PROVE Inv'
  <2>1. PICK said \in {"none", "ok", "error"} : Leave(p, said)
    BY <1>3 DEF SaveFails, Kill
  <2>2. UNCHANGED <<final, tmp, content>>
    BY <1>3 DEF SaveFails, Kill
  <2>3. QED
    BY <1>0, <2>1, <2>2, LeaveKeeps DEF TypeOK, TmpsApart, Writing, Written, Whole
<1>4. ASSUME NEW p \in Procs, OpenTmp(p) PROVE Inv'
  <2>1. PICK i \in Inodes :
          /\ IF tmp[KeyOf[p]] # None THEN i = tmp[KeyOf[p]] ELSE Free(i)
          /\ tmp' = [tmp EXCEPT ![KeyOf[p]] = i]
          /\ content' = [content EXCEPT ![i] = Empty]
          /\ fd' = [fd EXCEPT ![p] = i]
    BY <1>4 DEF OpenTmp
  <2>2. /\ pc' = [pc EXCEPT ![p] = "write"]
        /\ pc[p] = "open"
        /\ UNCHANGED <<final, rec, answer>>
    BY <1>4 DEF OpenTmp
  <2>3. \A k \in Keys : /\ final[k] # i
                        /\ k # KeyOf[p] => tmp[k] # i
    BY <2>1 DEF TypeOK, TmpsApart, Free
  <2>4. TmpsApart'
    BY <2>1, <2>2, <2>3 DEF TypeOK, TmpsApart
  <2>5. Writing' /\ Written'
    BY <2>1, <2>2, <2>3 DEF TypeOK, Writing, Written
  <2>6. Whole'
    BY <2>1, <2>2, <2>3 DEF TypeOK, Whole
  <2>7. QED
    BY <1>0, <2>4, <2>5, <2>6
<1>5. ASSUME NEW p \in Procs, WriteTmp(p) PROVE Inv'
  <2>1. /\ pc[p] = "write"
        /\ content' = [content EXCEPT ![fd[p]] = rec[p]]
        /\ pc' = [pc EXCEPT ![p] = "rename"]
        /\ fd' = [fd EXCEPT ![p] = None]
        /\ UNCHANGED <<final, tmp, rec, answer>>
    BY <1>5 DEF WriteTmp, Writing, TypeOK
  <2>2. fd[p] \in Inodes /\ fd[p] = tmp[KeyOf[p]] /\ rec[p] \in Records
    BY <2>1 DEF TypeOK, Writing
  <2>3. TmpsApart'
    BY <2>1, <2>2 DEF TypeOK, TmpsApart
  <2>4. Writing' /\ Written' /\ Whole'
    BY <2>1, <2>2 DEF TypeOK, TmpsApart, Writing, Written, Whole
  <2>5. QED
    BY <1>0, <2>3, <2>4
<1>6. ASSUME NEW p \in Procs, NEW said \in {"none", "error"}, WriteFails(p, said)
      PROVE  Inv'
  <2>1. /\ pc[p] = "write"
        /\ content' = [content EXCEPT ![fd[p]] = Torn]
        /\ Leave(p, said)
        /\ UNCHANGED <<final, tmp>>
    BY <1>6 DEF WriteFails
  <2>2. fd[p] \in Inodes /\ fd[p] = tmp[KeyOf[p]]
    BY <2>1 DEF TypeOK, Writing
  <2>3. TmpsApart'
    BY <2>1, <2>2, LeaveKeeps DEF TypeOK, TmpsApart
  <2>4. Writing' /\ Written' /\ Whole'
    BY <2>1, <2>2, LeaveKeeps DEF TypeOK, TmpsApart, Writing, Written, Whole
  <2>5. QED
    BY <1>0, <2>3, <2>4
<1>7. ASSUME NEW p \in Procs, Rename(p) PROVE Inv'
  <2>1. /\ pc[p] = "rename" /\ tmp[KeyOf[p]] # None
        /\ final' = [final EXCEPT ![KeyOf[p]] = tmp[KeyOf[p]]]
        /\ tmp' = [tmp EXCEPT ![KeyOf[p]] = None]
        /\ Leave(p, "ok")
        /\ UNCHANGED content
    BY <1>7 DEF Rename
  <2>2. content[tmp[KeyOf[p]]] \in Records
    BY <2>1 DEF Written, TypeOK
  <2>3. TmpsApart'
    BY <2>1, LeaveKeeps DEF TypeOK, TmpsApart
  <2>4. Writing' /\ Written' /\ Whole'
    BY <2>1, <2>2, LeaveKeeps DEF TypeOK, TmpsApart, Writing, Written, Whole
  <2>5. QED
    BY <1>0, <2>3, <2>4
<1>8. ASSUME NEW p \in Procs, Load(p) PROVE Inv'
  BY <1>0, <1>8 DEF Load, saveVars, TypeOK, TmpsApart, Writing, Written, Whole
<1>9. ASSUME NEW p \in Procs, Remove(p) PROVE Inv'
  <2>1. /\ UNCHANGED <<tmp, content, pc, rec, fd>>
        /\ final' \in {final, [final EXCEPT ![KeyOf[p]] = None]}
    BY <1>9 DEF Remove, saveVars
  <2>2. QED
    BY <1>0, <2>1 DEF TypeOK, TmpsApart, Writing, Written, Whole
<1>10. QED
  BY <1>1, <1>2, <1>3, <1>4, <1>5, <1>6, <1>7, <1>8, <1>9 DEF Next, SaveStep

LEMMA Invariance == ASSUME DistinctKeys PROVE Spec => []Inv
BY InvInit, InvNext, PTL DEF Spec

(* "Save writes the state atomically" (state.go:63), for jobs with keys of  *)
(* their own: no state file is ever empty or garbled.                       *)
THEOREM StateFilesWhole == ASSUME DistinctKeys PROVE Spec => []SaveIsAtomic
<1>1. Inv => SaveIsAtomic
  BY StoreAssumption DEF Inv, Whole, SaveIsAtomic, StateFile
<1> QED
  BY <1>1, Invariance, PTL

----------------------------------------------------------------------------
(* Refinement.                                                              *)

Files == [k \in Keys |-> StateFile(k)]

CellStep == [Cell!Next]_(Cell!vars)

LEMMA FilesStay ==
  ASSUME UNCHANGED final,
         \A k \in Keys : final[k] # None => content'[final[k]] = content[final[k]]
  PROVE  Files' = Files
BY DEF Files, StateFile

LEMMA CellInit == Init => Cell!Init
BY DEF Init, Cell!Init, StateFile, Said, Cell!Said

LEMMA CellNext == ASSUME DistinctKeys, Inv, [Next]_vars PROVE CellStep
<1> USE StoreAssumption DEF DistinctKeys, Inv
<1>1. CASE UNCHANGED vars
  BY <1>1, FilesStay DEF vars, saveVars, CellStep, Cell!vars, Files
<1>2. ASSUME NEW p \in Procs, NEW r \in Records, BeginSave(p, r) PROVE CellStep
  <2>1. Files' = Files
    BY <1>2, FilesStay DEF BeginSave
  <2>2. Cell!Begin(p, r)
    BY <1>2, <2>1 DEF BeginSave, Cell!Begin, Answer, Cell!Answer, Said, Cell!Said,
                      Files, TypeOK
  <2>3. QED
    BY <2>2 DEF CellStep, Cell!Next
<1>3. ASSUME NEW p \in Procs, SaveFails(p) PROVE CellStep
  <2>1. Files' = Files
    BY <1>3, FilesStay DEF SaveFails
  <2>2. Cell!Abandon(p)
    BY <1>3, <2>1 DEF SaveFails, Leave, Cell!Abandon, Answer, Cell!Answer, Said,
                      Cell!Said, Files, TypeOK
  <2>3. QED
    BY <2>2 DEF CellStep, Cell!Next
<1>4. ASSUME NEW p \in Procs, OpenTmp(p) PROVE CellStep
  <2>1. PICK i \in Inodes :
          /\ IF tmp[KeyOf[p]] # None THEN i = tmp[KeyOf[p]] ELSE Free(i)
          /\ content' = [content EXCEPT ![i] = Empty]
    BY <1>4 DEF OpenTmp
  <2>2. \A k \in Keys : final[k] # i
    BY <2>1 DEF TypeOK, TmpsApart, Free
  <2>3. Files' = Files
    BY <1>4, <2>1, <2>2, FilesStay DEF OpenTmp, TypeOK
  <2>4. QED
    BY <1>4, <2>3 DEF OpenTmp, CellStep, Cell!vars, Files
<1>5. ASSUME NEW p \in Procs, WriteTmp(p) PROVE CellStep
  <2>1. \A i \in Inodes \ {fd[p]} : content'[i] = content[i]
    BY <1>5 DEF WriteTmp, TypeOK
  <2>2. \A k \in Keys : final[k] # None => final[k] # fd[p] /\ final[k] \in Inodes
    BY <1>5 DEF WriteTmp, TypeOK, Writing, TmpsApart
  <2>3. Files' = Files
    BY <1>5, <2>1, <2>2, FilesStay DEF WriteTmp
  <2>4. QED
    BY <1>5, <2>3 DEF WriteTmp, CellStep, Cell!vars, Files
<1>6. ASSUME NEW p \in Procs, NEW said \in {"none", "error"}, WriteFails(p, said)
      PROVE  CellStep
  <2>1. \A i \in Inodes \ {fd[p]} : content'[i] = content[i]
    BY <1>6 DEF WriteFails, TypeOK
  <2>2. \A k \in Keys : final[k] # None => final[k] # fd[p] /\ final[k] \in Inodes
    BY <1>6 DEF WriteFails, TypeOK, Writing, TmpsApart
  <2>3. Files' = Files
    BY <1>6, <2>1, <2>2, FilesStay DEF WriteFails
  <2>4. Cell!Abandon(p)
    BY <1>6, <2>3 DEF WriteFails, Leave, Cell!Abandon, Answer, Cell!Answer, Said,
                      Cell!Said, Files, TypeOK
  <2>5. QED
    BY <2>4 DEF CellStep, Cell!Next
<1>7. ASSUME NEW p \in Procs, Rename(p) PROVE CellStep
  <2>1. /\ final' = [final EXCEPT ![KeyOf[p]] = tmp[KeyOf[p]]]
        /\ UNCHANGED content
        /\ tmp[KeyOf[p]] # None
        /\ content[tmp[KeyOf[p]]] = rec[p]
    BY <1>7 DEF Rename, Written
  <2>2. Files' = [Files EXCEPT ![KeyOf[p]] = rec[p]]
    BY <2>1 DEF Files, StateFile, TypeOK
  <2>3. Cell!Commit(p)
    BY <1>7, <2>2 DEF Rename, Leave, Cell!Commit, Answer, Cell!Answer, Said,
                      Cell!Said, Files, TypeOK
  <2>4. QED
    BY <2>3 DEF CellStep, Cell!Next
<1>8. ASSUME NEW p \in Procs, Load(p) PROVE CellStep
  <2>1. Files' = Files
    BY <1>8, FilesStay DEF Load
  <2>2. Files[KeyOf[p]] = StateFile(KeyOf[p])
    BY DEF Files
  <2>3. Cell!Read(p)
    BY <1>8, <2>1, <2>2 DEF Load, Cell!Read, Answer, Cell!Answer, Said, Cell!Said,
                            Loaded, Cell!Loaded, Files, TypeOK, saveVars
  <2>4. QED
    BY <2>3 DEF CellStep, Cell!Next
<1>9. ASSUME NEW p \in Procs, Remove(p) PROVE CellStep
  <2>1. \/ Files' = [Files EXCEPT ![KeyOf[p]] = None] /\ Answer(p, Said("ok"))
        \/ Files' = Files /\ Answer(p, Said("error"))
    BY <1>9 DEF Remove, Files, StateFile, TypeOK
  <2>2. Cell!Erase(p)
    BY <1>9, <2>1 DEF Remove, Cell!Erase, Answer, Cell!Answer, Said, Cell!Said,
                      Files, TypeOK, saveVars
  <2>3. QED
    BY <2>2 DEF CellStep, Cell!Next
<1>10. ASSUME NEW p \in Procs, Kill(p) PROVE CellStep
  <2>1. Files' = Files
    BY <1>10, FilesStay DEF Kill
  <2>2. Cell!Abandon(p) \/ Cell!Restart(p)
    BY <1>10, <2>1 DEF Kill, Leave, Cell!Abandon, Cell!Restart, Answer, Cell!Answer,
                       Said, Cell!Said, Files, TypeOK
  <2>3. QED
    BY <2>2 DEF CellStep, Cell!Next
<1>11. QED
  BY <1>1, <1>2, <1>3, <1>4, <1>5, <1>6, <1>7, <1>8, <1>9, <1>10 DEF Next, SaveStep

(* For jobs with keys of their own, Save, Load and Remove are what the      *)
(* stages take them for: operations on one record each, although Save goes  *)
(* through a temporary file and may die anywhere (state.go:63-104).         *)
THEOREM StoreIsARecord == ASSUME DistinctKeys PROVE Spec => RecordSpec
<1>1. Inv /\ [Next]_vars => CellStep
  BY CellNext
<1>2. QED
  BY Invariance, CellInit, <1>1, PTL DEF Spec, RecordSpec, Cell!Spec, CellStep

=============================================================================
