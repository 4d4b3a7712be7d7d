-------------------------- MODULE FileActionsProofs --------------------------
(***************************************************************************)
(* Proofs that a file action loses no backup and deletes no Realm that was *)
(* created after it was recorded, for any number of backup names, writes   *)
(* and deaths of the process.                                              *)
(***************************************************************************)
EXTENDS FileActions, FiniteSetTheorems, TLAPS

-----------------------------------------------------------------------------
(* The inductive invariant, stated of a state [files, copies, record] so   *)
(* that it can be claimed of every state on the path of an action.         *)

Records == [action : {"delete", "backup"}, at : Locations, name : CopyNames, of : Nat]
                \cup {NoRecord}

TypeOf(s) == s \in [files : [Locations -> Nat], copies : [CopyNames -> Int], record : Records]

\* The Realm is at one place at most.
OneFile(s) == \A k, l \in Locations : s.files[k] # 0 /\ s.files[l] # 0 => k = l

\* What is to be backed up is in the file the record names until it is in a copy.
Backed(s) ==
    doomed # 0 => \/ s.record # NoRecord /\ s.files[s.record.at] = doomed
                  \/ \E n \in CopyNames : s.copies[n] = doomed

\* Every deletion that was ordered is of the present file, and has nothing to back up.
Recorded(s) ==
    s.record # NoRecord => /\ s.record.of = born
                           /\ s.record.action = "delete" => doomed = 0

Safe(s) == TypeOf(s) /\ OneFile(s) /\ Backed(s) /\ Recorded(s)

\* While the process runs the file of a record exists: were it gone, a Realm created
\* anew would be taken for it.
Pending(s) == s.record # NoRecord => s.files[s.record.at] # 0

FileInv ==
    /\ Safe(Now)
    /\ started \in BOOLEAN
    /\ started => Pending(Now)
    /\ open \in Locations \cup {Nowhere}
    /\ open # Nowhere => started /\ files[open] # 0
    /\ content \in Nat \ {0} /\ born \in Nat /\ doomed \in Nat /\ deaths \in Nat

USE DEF TypeOf

-----------------------------------------------------------------------------
(* The action itself.                                                      *)

\* Every state that a run of the pending action passes through is safe, and so is dying
\* there; at its end the file of a record that is left exists.
LEMMA RunSafe ==
    ASSUME NEW s, Safe(s), doomed \in Nat, born \in Nat
    PROVE  LET path == RunFileAction(s)
           IN  /\ Len(path) \in DOMAIN path
               /\ \A i \in DOMAIN path : Safe(path[i])
               /\ Pending(path[Len(path)])
<1> DEFINE copied == CopyRealmFile(s)
           path == RunFileAction(s)
<1>1. CASE s.record = NoRecord
  <2>1. path = <<s>> BY <1>1 DEF RunFileAction
  <2>2. Pending(s) BY <1>1 DEF Pending
  <2> QED BY <2>1, <2>2
<1> SUFFICES ASSUME s.record # NoRecord PROVE /\ Len(path) \in DOMAIN path
                                              /\ \A i \in DOMAIN path : Safe(path[i])
                                              /\ Pending(path[Len(path)])
  BY <1>1
<1>2. /\ s.record.at \in Locations /\ s.record.name \in CopyNames
      /\ s.record.action \in {"delete", "backup"}
  BY DEF Safe, Records
<1>4. CASE s.record.action = "delete"
  <2>1. path = <<s, RemoveRealm(s), RemoveRecord(RemoveRealm(s))>>
    BY <1>4 DEF RunFileAction
  <2>2. doomed = 0 BY <1>4 DEF Safe, Recorded
  <2>3. Safe(RemoveRealm(s))
    BY <2>2, <1>2 DEF Safe, OneFile, Backed, Recorded, RemoveRealm
  <2>4. Safe(RemoveRecord(RemoveRealm(s)))
    BY <2>2, <2>3 DEF Safe, OneFile, Backed, Recorded, RemoveRecord, Records
  <2>5. Pending(RemoveRecord(RemoveRealm(s)))
    BY <2>3 DEF Pending, RemoveRecord, Safe
  <2> QED BY <2>1, <2>3, <2>4, <2>5
<1>5. CASE s.record.action # "delete" /\ s.files[s.record.at] = 0
  <2>1. path = <<s, RemoveRecord(s)>> BY <1>5 DEF RunFileAction
  <2>2. Safe(RemoveRecord(s))
    BY <1>5 DEF Safe, OneFile, Backed, Recorded, RemoveRecord, Records
  <2>3. Pending(RemoveRecord(s)) BY DEF Pending, RemoveRecord, Safe
  <2> QED BY <2>1, <2>2, <2>3
<1>6. CASE s.record.action # "delete" /\ s.files[s.record.at] # 0 /\ s.copies[s.record.name] # 0
  <2>1. path = <<s>> BY <1>6 DEF RunFileAction
  <2>2. Pending(s) BY <1>6 DEF Pending
  <2> QED BY <2>1, <2>2
<1>7. CASE s.record.action # "delete" /\ s.files[s.record.at] # 0 /\ s.copies[s.record.name] = 0
  <2>1. path = <<s, CopyBegun(s), copied, RemoveRealm(copied), RemoveRecord(RemoveRealm(copied))>>
    BY <1>7 DEF RunFileAction
  <2>2. Safe(CopyBegun(s))
    BY <1>2, <1>7 DEF Safe, OneFile, Backed, Recorded, CopyBegun, Partial
  <2>3. Safe(copied)
    BY <1>2, <1>7 DEF Safe, OneFile, Backed, Recorded, CopyRealmFile
  <2>4. doomed # 0 => \E n \in CopyNames : copied.copies[n] = doomed
    BY <1>2, <1>7 DEF Safe, Backed, CopyRealmFile
  <2>5. copied.record = s.record BY DEF CopyRealmFile, Safe
  <2>6. Safe(RemoveRealm(copied))
    BY <1>2, <1>7, <2>3, <2>4, <2>5 DEF Safe, OneFile, Backed, Recorded, RemoveRealm
  <2>7. RemoveRealm(copied).copies = copied.copies
    BY <2>3 DEF RemoveRealm, Safe
  <2>8. Safe(RemoveRecord(RemoveRealm(copied)))
    BY <2>6, <2>4, <2>7 DEF Safe, OneFile, Backed, Recorded, RemoveRecord, Records
  <2>9. Pending(RemoveRecord(RemoveRealm(copied)))
    BY <2>6 DEF Pending, RemoveRecord, Safe
  <2> QED BY <2>1, <2>2, <2>3, <2>6, <2>8, <2>9
<1> QED BY <1>4, <1>5, <1>6, <1>7

\* A run of the action, whole or cut short by the end of the process.
LEMMA RunStep ==
    ASSUME FileInv, UNCHANGED <<open, content, born, doomed>>, open = Nowhere,
           started' \in BOOLEAN, deaths' \in Nat,
           LET path == RunFileAction(Now)
           IN  \/ Becomes(path[Len(path)])
               \/ ~started' /\ \E i \in DOMAIN path : Becomes(path[i])
    PROVE  FileInv'
<1> DEFINE path == RunFileAction(Now)
<1>1. /\ Len(path) \in DOMAIN path
      /\ \A i \in DOMAIN path : Safe(path[i])
      /\ Pending(path[Len(path)])
  BY RunSafe DEF FileInv
<1>2. ASSUME NEW s, Safe(s), Becomes(s) PROVE Now' = s
  BY <1>2 DEF Safe, Becomes, Now
<1>3. PICK i \in DOMAIN path : Becomes(path[i]) /\ (started' => i = Len(path))
  BY <1>1
<1> HIDE DEF path
<1>4. Now' = path[i] BY <1>1, <1>2, <1>3
<1>5. ASSUME NEW s, Safe(s), s = Now' PROVE Safe(Now)'
  BY <1>5 DEF Safe, OneFile, Backed, Recorded
<1>6. started' => Pending(Now)' BY <1>1, <1>3, <1>4 DEF Pending
<1> QED BY <1>1, <1>3, <1>4, <1>5, <1>6 DEF FileInv

LEMMA FileStep == FileInv /\ [FileNext]_fileVars => FileInv'
<1> SUFFICES ASSUME FileInv, [FileNext]_fileVars PROVE FileInv' OBVIOUS
<1>1. CASE StartFiles
  <2>1. open = Nowhere BY <1>1 DEF StartFiles, FileInv
  <2>2. deaths' \in {deaths, deaths + 1} BY <1>1 DEF StartFiles
  <2>3. started' \in BOOLEAN BY <1>1, Zenon DEF StartFiles, FileInv
  <2>4. deaths' \in Nat BY <2>2 DEF FileInv
  <2> QED BY <1>1, <2>1, <2>3, <2>4, RunStep DEF StartFiles
<1>2. CASE RunImmediately
  <2>1. deaths' \in {deaths, deaths + 1} BY <1>2 DEF RunImmediately
  <2>2. started' \in BOOLEAN BY <1>2, Zenon DEF RunImmediately, FileInv
  <2>3. deaths' \in Nat BY <2>1 DEF FileInv
  <2> QED BY <1>2, <2>2, <2>3, RunStep DEF RunImmediately
<1>3. ASSUME UNCHANGED <<files, copies, record, doomed, born>>
      PROVE  Safe(Now)' /\ (started => Pending(Now)')
  BY <1>3 DEF FileInv, Safe, Now, OneFile, Backed, Recorded, Pending
<1>4. CASE CloseFile
  <2>1. UNCHANGED <<files, copies, record, doomed, born>> BY <1>4 DEF CloseFile
  <2>2. Safe(Now)' /\ (started => Pending(Now)') BY <1>3, <2>1
  <2> QED BY <1>4, <2>2 DEF CloseFile, FileInv
<1>5. CASE DieFiles
  <2>1. UNCHANGED <<files, copies, record, doomed, born>> BY <1>5 DEF DieFiles
  <2>2. Safe(Now)' BY <1>3, <2>1
  <2>3. deaths' \in Nat BY <1>5 DEF DieFiles, FileInv
  <2>4. ~started' /\ started' \in BOOLEAN /\ open' = Nowhere BY <1>5 DEF DieFiles
  <2>5. UNCHANGED <<content, born, doomed>> BY <1>5 DEF DieFiles
  <2> QED BY <2>2, <2>3, <2>4, <2>5 DEF FileInv
<1>6. CASE UNCHANGED fileVars
  <2>1. UNCHANGED <<files, copies, record, doomed, born>> BY <1>6 DEF fileVars
  <2>2. Safe(Now)' /\ (started => Pending(Now)') BY <1>3, <2>1
  <2> QED BY <1>6, <2>2 DEF fileVars, FileInv
<1> USE DEF FileInv, Safe, Now
<1>7. ASSUME NEW w, OpenFile(w) PROVE FileInv'
  <2> DEFINE at == RealmFilePath(files, w)
  <2>1. /\ at \in Locations /\ at # Nowhere /\ open' = at /\ started /\ started'
        /\ UNCHANGED <<copies, record, doomed, deaths>>
    BY <1>7 DEF OpenFile, RealmFilePath, Locations, Nowhere
  <2>2. files[at] = 0 => \A l \in Locations : files[l] = 0
    BY DEF RealmFilePath, Locations, Nowhere
  <2> HIDE DEF at
  <2>3. CASE files[at] # 0
    <3>1. UNCHANGED <<files, content, born>> BY <1>7, <2>3 DEF OpenFile, at
    <3>2. Now' = Now BY <2>1, <3>1
    <3> QED BY <2>1, <2>3, <3>1, <3>2 DEF OneFile, Backed, Recorded, Pending
  <2>4. CASE files[at] = 0
    <3>1. record = NoRecord BY <2>1, <2>2, <2>4 DEF Pending, Records
    <3>2. /\ content' = content + 1 /\ born' = content'
          /\ files' = [files EXCEPT ![at] = content']
      BY <1>7, <2>4 DEF OpenFile, at
    <3>3. TypeOf(Now)' BY <2>1, <3>1, <3>2
    <3>4. OneFile(Now)' BY <2>1, <2>2, <2>4, <3>2 DEF OneFile
    <3>5. Backed(Now)' /\ Recorded(Now)' /\ Pending(Now)'
      BY <2>1, <3>1, <3>2 DEF Backed, Recorded, Pending
    <3> QED BY <2>1, <3>2, <3>3, <3>4, <3>5
  <2> QED BY <2>3, <2>4
<1>8. CASE WriteFile
  <2>1. /\ open \in Locations /\ started /\ files[open] # 0
        /\ content' = content + 1 /\ files' = [files EXCEPT ![open] = content']
        /\ UNCHANGED <<copies, record, open, started, born, deaths>>
    BY <1>8 DEF WriteFile
  <2>2. record # NoRecord => record.at = open
    BY <2>1 DEF OneFile, Pending, Records
  <2>3. doomed' = IF record # NoRecord /\ doomed = files[open] THEN content' ELSE doomed
    BY <1>8 DEF WriteFile
  <2>4. TypeOf(Now)' BY <2>1
  <2>5. OneFile(Now)' BY <2>1 DEF OneFile
  <2>6. Backed(Now)' BY <2>1, <2>2, <2>3 DEF Backed
  <2>7. Recorded(Now)' BY <2>1, <2>2, <2>3 DEF Recorded
  <2>8. Pending(Now)' BY <2>1, <2>2 DEF Pending
  <2> QED BY <2>1, <2>3, <2>4, <2>5, <2>6, <2>7, <2>8
<1>9. ASSUME NEW a \in {"delete", "backup"}, NEW n \in CopyNames, MarkFile(a, n) PROVE FileInv'
  <2>1. /\ open \in Locations /\ started /\ files[open] # 0
        /\ record' = [action |-> a, at |-> open, name |-> n, of |-> born]
        /\ doomed' = IF a = "backup" THEN files[open] ELSE 0
        /\ UNCHANGED <<files, copies, open, started, content, born, deaths>>
    BY <1>9 DEF MarkFile
  <2>2. record' # NoRecord BY <2>1 DEF NoRecord, Locations, Nowhere
  <2>3. TypeOf(Now)' BY <2>1 DEF Records
  <2>4. OneFile(Now)' BY <2>1 DEF OneFile
  <2>5. Backed(Now)' /\ Recorded(Now)' /\ Pending(Now)'
    BY <2>1, <2>2 DEF Backed, Recorded, Pending
  <2> QED BY <2>1, <2>3, <2>4, <2>5
<1> QED BY <1>1, <1>2, <1>4, <1>5, <1>6, <1>7, <1>8, <1>9 DEF FileNext

LEMMA FileInit0 == FileInit => FileInv
<1> SUFFICES ASSUME FileInit PROVE FileInv OBVIOUS
<1>1. OneFile(Now)
  <2> SUFFICES ASSUME NEW k \in Locations, NEW j \in Locations, files[k] # 0, files[j] # 0, k # j
               PROVE  FALSE
    BY DEF OneFile, Now
  <2> DEFINE S == {l \in Locations : files[l] # 0}
  <2>1. IsFiniteSet(Locations)
    <3>1. Locations = ((({} \cup {"preferred"}) \cup {"hashed"}) \cup {"legacy"}) \cup {"localIdentity"}
      BY DEF Locations
    <3>2. IsFiniteSet({} \cup {"preferred"}) BY FS_EmptySet, FS_AddElement
    <3>3. IsFiniteSet(({} \cup {"preferred"}) \cup {"hashed"}) BY <3>2, FS_AddElement
    <3>4. IsFiniteSet((({} \cup {"preferred"}) \cup {"hashed"}) \cup {"legacy"}) BY <3>3, FS_AddElement
    <3> QED BY <3>1, <3>4, FS_AddElement
  <2>2. IsFiniteSet(S) BY <2>1, FS_Subset
  <2>3. {k, j} \subseteq S OBVIOUS
  <2>4. Cardinality({k, j}) = 2
    <3>1. IsFiniteSet({k}) /\ Cardinality({k}) = 1 BY FS_Singleton
    <3>2. {k, j} = {k} \cup {j} /\ j \notin {k} OBVIOUS
    <3> QED BY <3>1, <3>2, FS_AddElement
  <2>5. Cardinality({k, j}) <= Cardinality(S) /\ Cardinality(S) \in Nat
    BY <2>2, <2>3, FS_Subset, FS_CardinalityType
  <2>6. Cardinality(S) <= 1 BY DEF FileInit
  <2> QED BY <2>4, <2>5, <2>6
<1>2. TypeOf(Now) BY DEF FileInit, Now, Records
<1>3. Backed(Now) /\ Recorded(Now) /\ Pending(Now)
  BY DEF FileInit, Now, Backed, Recorded, Pending
<1>4. Safe(Now) BY <1>1, <1>2, <1>3 DEF Safe
<1>5. started \in BOOLEAN /\ ~started /\ open = Nowhere BY DEF FileInit
<1>6. content \in Nat \ {0} /\ born \in Nat /\ doomed \in Nat /\ deaths \in Nat BY DEF FileInit
<1> QED BY <1>4, <1>5, <1>6 DEF FileInv

-----------------------------------------------------------------------------
LEMMA FileInvariant == FileSpec => []FileInv
BY FileInit0, FileStep, PTL DEF FileSpec

\* Whenever the server has ordered a Realm to be backed up and deleted, its last content
\* is in the Realm's file or, whole, in the recovery directory, however often the process
\* dies in the middle of SyncManager::run_file_action.
THEOREM BackupsAreKept == FileSpec => []BackupKept
<1>1. FileInv => BackupKept
  BY DEF FileInv, Safe, Backed, BackupKept, Now, Records
<1> QED BY <1>1, FileInvariant, PTL

\* A recorded action is always about the file that is there now: a Realm created after
\* the action ran is not deleted by what is left of its record.
THEOREM NewRealmsAreKept == FileSpec => []NewRealmKept
<1>1. FileInv => NewRealmKept
  BY DEF FileInv, Safe, Recorded, NewRealmKept, Now
<1> QED BY <1>1, FileInvariant, PTL
=============================================================================
