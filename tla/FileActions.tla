----------------------------- MODULE FileActions -----------------------------
(***************************************************************************)
(* The file of one synchronised Realm: where it is looked for, and what    *)
(* becomes of it when the server orders a client reset. The action         *)
(* ("delete", or "backup" then delete) is recorded in the metadata Realm   *)
(* and carried out when the application asks for it or at the next start;  *)
(* the process may die between any two of its steps, and in the middle of  *)
(* a copy.                                                                 *)
(*                                                                         *)
(* The content of a file is a number: every Realm that is created and      *)
(* every write to it gives a new one, 0 is no file, Partial a copy that    *)
(* was cut short.                                                          *)
(***************************************************************************)
EXTENDS Integers, Sequences, FiniteSets

CONSTANTS
    CopyNames,    \* names mkstemp may come up with in the recovery directory
    MaxContent,   \* contents ever written
    MaxDeaths

ASSUME FileAssumption == MaxContent \in Nat /\ MaxDeaths \in Nat

VARIABLES
    files,        \* content at each location of the Realm
    copies,       \* content at each name of the recovery directory
    record,       \* the pending action, if any
    open,         \* the application has the Realm open, at this location
    started,      \* the process runs and is configured
    content,      \* history: the last content written
    born,         \* history: the first content of the present file
    doomed,       \* history: what the server ordered to be backed up and deleted
    deaths

fileVars == <<files, copies, record, open, started, content, born, doomed, deaths>>

Partial == 0 - 1

(***************************************************************************)
(* Where a Realm may be: its preferred path, the hashed one used when the  *)
(* preferred one cannot be written, and two of earlier versions.           *)
(***************************************************************************)
Locations == {"preferred", "hashed", "legacy", "localIdentity"}
Nowhere == "nowhere"
NoRecord == [action |-> "none", at |-> Nowhere, name |-> Nowhere, of |-> 0]

\* realm_file_path: an existing file is used, in this order; a new one goes where a
\* test file can be written.
RealmFilePath(fs, writable) ==
    IF fs["preferred"] # 0 THEN "preferred"
    ELSE IF fs["hashed"] # 0 THEN "hashed"
    ELSE IF fs["legacy"] # 0 THEN "legacy"
    ELSE IF fs["localIdentity"] # 0 THEN "localIdentity"
    ELSE IF "preferred" \in writable THEN "preferred"
    ELSE IF "hashed" \in writable THEN "hashed"
    ELSE Nowhere

-----------------------------------------------------------------------------
(* Steps of run_file_action. A state is [files, copies, record]; Trail is  *)
(* the set of the states it passes, the last included.                     *)

Now == [files |-> files, copies |-> copies, record |-> record]

RemoveRealm(s) == [s EXCEPT !.files[s.record.at] = 0]
RemoveRecord(s) == [s EXCEPT !.record = NoRecord]
CopyBegun(s) == [s EXCEPT !.copies[s.record.name] = Partial]
CopyRealmFile(s) == [s EXCEPT !.copies[s.record.name] = s.files[s.record.at]]

\* Variant for the mutation check: moved away first, then copied.
RunFileActionRemovingFirst(s) ==
    LET copied == CopyRealmFile(s)
    IN  IF s.record = NoRecord THEN <<s>>
        ELSE <<s, RemoveRealm(s), RemoveRealm(copied), RemoveRecord(RemoveRealm(copied))>>

\* The path of states of one run of the pending action; the last one is its result.
RunFileAction(s) ==
    LET copied == CopyRealmFile(s)
    IN  IF s.record = NoRecord THEN <<s>>
        ELSE IF s.record.action = "delete"
             THEN <<s, RemoveRealm(s), RemoveRecord(RemoveRealm(s))>>
        ELSE IF s.files[s.record.at] = 0 THEN <<s, RemoveRecord(s)>>
        ELSE IF s.copies[s.record.name] # 0 THEN <<s>>
        ELSE <<s, CopyBegun(s), copied, RemoveRealm(copied), RemoveRecord(RemoveRealm(copied))>>

Becomes(s) ==
    /\ files' = s.files
    /\ copies' = s.copies
    /\ record' = s.record

FileInit ==
    /\ files \in [Locations -> {0, 1}]
    /\ Cardinality({l \in Locations : files[l] # 0}) <= 1
    /\ copies = [n \in CopyNames |-> 0]
    /\ record = NoRecord
    /\ open = Nowhere
    /\ started = FALSE
    /\ content = 1
    /\ born = 1
    /\ doomed = 0
    /\ deaths = 0

\* Variant for the mutation check: pending actions are left for later.
StartFilesOnly ==
    /\ ~started
    /\ started' = TRUE
    /\ UNCHANGED <<files, copies, record, open, content, born, doomed, deaths>>

\* configure: the pending actions are run before anything is opened.
StartFiles ==
    LET path == RunFileAction(Now)
    IN  /\ ~started
        /\ UNCHANGED <<open, content, born, doomed>>
        /\ \/ /\ Becomes(path[Len(path)])
              /\ started' = TRUE
              /\ UNCHANGED deaths
           \/ /\ deaths < MaxDeaths
              /\ \E i \in DOMAIN path : Becomes(path[i])
              /\ deaths' = deaths + 1
              /\ UNCHANGED started

\* path_for_realm, and opening the Realm there.
OpenFile(writable) ==
    LET at == RealmFilePath(files, writable)
    IN  /\ started
        /\ open = Nowhere
        /\ at # Nowhere
        /\ open' = at
        /\ IF files[at] = 0
           THEN /\ content < MaxContent
                /\ content' = content + 1
                /\ files' = [files EXCEPT ![at] = content']
                /\ born' = content'
           ELSE UNCHANGED <<files, content, born>>
        /\ UNCHANGED <<copies, record, started, doomed, deaths>>

WriteFile ==
    /\ open # Nowhere
    /\ content < MaxContent
    /\ content' = content + 1
    /\ files' = [files EXCEPT ![open] = content']
    /\ doomed' = IF record # NoRecord /\ doomed = files[open] THEN content' ELSE doomed
    /\ UNCHANGED <<copies, record, open, started, born, deaths>>

CloseFile ==
    /\ open # Nowhere
    /\ open' = Nowhere
    /\ UNCHANGED <<files, copies, record, started, content, born, doomed, deaths>>

\* An error of the session: update_error_and_mark_file_for_deletion. The name for the
\* backup does not exist at this moment; an earlier record of this Realm is replaced.
MarkFile(action, name) ==
    /\ open # Nowhere
    /\ copies[name] = 0
    /\ record' = [action |-> action, at |-> open, name |-> name, of |-> born]
    /\ doomed' = IF action = "backup" THEN files[open] ELSE 0
    /\ UNCHANGED <<files, copies, open, started, content, born, deaths>>

\* immediately_run_file_actions; all references to the Realm must be gone.
RunImmediately ==
    LET path == RunFileAction(Now)
    IN  /\ started
        /\ open = Nowhere
        /\ record # NoRecord
        /\ UNCHANGED <<open, content, born, doomed>>
        /\ \/ /\ Becomes(path[Len(path)])
              /\ UNCHANGED <<started, deaths>>
           \/ /\ deaths < MaxDeaths
              /\ \E i \in DOMAIN path : Becomes(path[i])
              /\ started' = FALSE
              /\ deaths' = deaths + 1

DieFiles ==
    /\ started
    /\ deaths < MaxDeaths
    /\ started' = FALSE
    /\ open' = Nowhere
    /\ deaths' = deaths + 1
    /\ UNCHANGED <<files, copies, record, content, born, doomed>>

FileNext ==
    \/ StartFiles
    \/ \E w \in {{"preferred", "hashed"}, {"hashed"}, {}} : OpenFile(w)
    \/ WriteFile
    \/ CloseFile
    \/ \E a \in {"delete", "backup"}, n \in CopyNames : MarkFile(a, n)
    \/ RunImmediately
    \/ DieFiles

FileSpec == FileInit /\ [][FileNext]_fileVars

-----------------------------------------------------------------------------
\* What was to be backed up is never lost: it is still in the Realm's file, or a whole
\* copy of its last content is in the recovery directory.
BackupKept ==
    doomed # 0 => \/ \E l \in Locations : files[l] = doomed
                  \/ \E n \in CopyNames : copies[n] = doomed

\* What an action deletes was there when it was recorded: a Realm created after the
\* action ran is not deleted by what is left of the record.
NewRealmKept ==
    (started /\ record # NoRecord /\ files[record.at] # 0) => record.of = born

=============================================================================
