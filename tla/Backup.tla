------------------------------- MODULE Backup -------------------------------
(***************************************************************************)
(* Backups and restores (backup.py) while requests go on writing blobs and *)
(* the rows that name them (blobs.py, store.py). An archive is sealed in   *)
(* steps: a snapshot of the database, a list of the blobs, a staging file  *)
(* that is written and then linked or renamed to its destination, and the  *)
(* row of the ledger. A restore extracts an archive into an empty          *)
(* directory and checks what came out. Requests run in parallel threads;   *)
(* the process may stop between any two steps, and a blob on disk may be   *)
(* damaged. Formats, limits and refused destinations are left out.         *)
(***************************************************************************)
EXTENDS Nothing, Naturals, Sequences, FiniteSets

CONSTANTS
  Blobs, Threads,
  Places,       \* destinations of archives
  Directories,  \* targets of restores
  Requests,     \* operation id -> what it asks for
  MaxAttempts,  \* bound: archives that are begun
  MaxStops,     \* bound: stops of the process
  MaxWrites     \* bound: rows written or deleted

\* What a directory holds after a restore: the rows, the files, those with the
\* bytes their names say.
Restored == [named : SUBSET Blobs, blobs : SUBSET Blobs, intact : SUBSET Blobs]

ASSUME BackupAssumption ==
  /\ MaxAttempts \in Nat /\ MaxStops \in Nat /\ MaxWrites \in Nat
  /\ None \notin Nat /\ None \notin Blobs /\ None \notin Restored
  /\ \A op \in DOMAIN Requests :
       \/ Requests[op].kind = "create" /\ Requests[op].to \in Places
       \/ Requests[op].kind = "restore" /\ Requests[op].from \in Places /\ Requests[op].to \in Directories

VARIABLES
  named,    \* the blobs committed rows name
  blobs,    \* the blobs on disk
  damaged,  \* those whose bytes are not their hash's any more
  writing,  \* the blob of the open write transaction
  archive,  \* the files that were begun, by number
  partial,  \* destination -> the file its staging name stands for
  sealed,   \* destination -> the file its name stands for
  dir,      \* directory -> what a restore has written there
  thread,   \* the request a thread is serving and how far it is
  ledger,   \* operations that are recorded
  stops, writes

storage == <<named, blobs, damaged, writing, writes>>
files   == <<archive, partial, sealed>>
vars    == <<storage, files, dir, thread, ledger, stops>>

Ops      == DOMAIN Requests
Begun    == DOMAIN archive
Idle(t)  == thread[t] = None
At(t, pc) == thread[t] # None /\ thread[t].pc = pc
Asked(t) == Requests[thread[t].op]

Goes(t, pc) == thread' = [thread EXCEPT ![t].pc = pc]
Ends(t)     == thread' = [thread EXCEPT ![t] = None]

Init ==
  /\ named = {} /\ blobs = {} /\ damaged = {} /\ writing = None /\ writes = 0
  /\ archive = <<>>
  /\ partial = [p \in Places |-> None] /\ sealed = [p \in Places |-> None]
  /\ dir = [d \in Directories |-> None]
  /\ thread = [t \in Threads |-> None]
  /\ ledger = {} /\ stops = 0

-----------------------------------------------------------------------------
(* Writes of other requests. Content exists before anything names it, inside *)
(* one transaction that holds the store's lock.                              *)

Put(b) ==
  /\ writing = None /\ writes < MaxWrites
  /\ b \notin damaged
  /\ writing' = b /\ blobs' = blobs \cup {b}
  /\ UNCHANGED <<named, damaged, writes, files, dir, thread, ledger, stops>>

Commit ==
  /\ writing # None
  /\ named' = named \cup {writing} /\ writing' = None /\ writes' = writes + 1
  /\ UNCHANGED <<blobs, damaged, files, dir, thread, ledger, stops>>

\* Rows go, blobs stay.
Delete(b) ==
  /\ writing = None /\ writes < MaxWrites
  /\ b \in named
  /\ named' = named \ {b} /\ writes' = writes + 1
  /\ UNCHANGED <<blobs, damaged, writing, files, dir, thread, ledger, stops>>

Damage(b) ==
  /\ b \in blobs /\ damaged = {}
  /\ damaged' = damaged \cup {b}
  /\ UNCHANGED <<named, blobs, writing, writes, files, dir, thread, ledger, stops>>

-----------------------------------------------------------------------------
(* Sealing a backup. *)

\* A recorded operation is answered from the ledger.
Begin(t, op) ==
  /\ Idle(t) /\ op \notin ledger /\ Requests[op].kind = "create"
  /\ Len(archive) < MaxAttempts
  /\ Requests[op].over \/ sealed[Requests[op].to] = None
  /\ archive' = Append(archive, [named |-> {}, blobs |-> {}, intact |-> {}, whole |-> FALSE])
  /\ thread' = [thread EXCEPT ![t] = [op |-> op, pc |-> "snapshot", file |-> Len(archive) + 1]]
  /\ UNCHANGED <<storage, partial, sealed, dir, ledger, stops>>

\* The database is copied under the store's lock.
Snapshot(t) ==
  /\ At(t, "snapshot") /\ writing = None
  /\ archive' = [archive EXCEPT ![thread[t].file].named = named]
  /\ Goes(t, "list")
  /\ UNCHANGED <<storage, partial, sealed, dir, ledger, stops>>

\* Faulty variant: only the blobs that rows name are listed.
NamedBlobs == named \cap blobs

AllBlobs == blobs

\* Every blob is read and its hash compared: a damaged one refuses the backup.
ListBlobs(t) ==
  /\ At(t, "list")
  /\ IF blobs \cap damaged = {}
     THEN archive' = [archive EXCEPT ![thread[t].file].blobs = AllBlobs] /\ Goes(t, "open")
     ELSE UNCHANGED archive /\ Ends(t)
  /\ UNCHANGED <<storage, partial, sealed, dir, ledger, stops>>

\* Faulty variant: the file is written under its own name.
OpenSealed(t) ==
  /\ At(t, "open") /\ sealed[Asked(t).to] = None
  /\ sealed' = [sealed EXCEPT ![Asked(t).to] = thread[t].file] /\ Goes(t, "write")
  /\ UNCHANGED <<storage, archive, partial, dir, ledger, stops>>

\* The staging file is created exclusively.
OpenPartial(t) ==
  /\ At(t, "open")
  /\ IF partial[Asked(t).to] = None
     THEN partial' = [partial EXCEPT ![Asked(t).to] = thread[t].file] /\ Goes(t, "write")
     ELSE UNCHANGED partial /\ Ends(t)
  /\ UNCHANGED <<storage, archive, sealed, dir, ledger, stops>>

\* The blobs are read once more, this time without their hashes.
WriteArchive(t) ==
  /\ At(t, "write")
  /\ LET f == thread[t].file
     IN archive' = [archive EXCEPT ![f].intact = archive[f].blobs \ damaged, ![f].whole = TRUE]
  /\ Goes(t, "name")
  /\ UNCHANGED <<storage, partial, sealed, dir, ledger, stops>>

\* Faulty variant: the rename of an overwrite, for every request.
Replaces(t) ==
  /\ partial[Asked(t).to] # None
  /\ sealed' = [sealed EXCEPT ![Asked(t).to] = partial[Asked(t).to]]
  /\ partial' = [partial EXCEPT ![Asked(t).to] = None]

\* os.replace moves the staging name to the destination, os.link gives the file
\* a second name unless the destination exists.
Names(t) ==
  LET p == Asked(t).to
  IN /\ partial[p] # None
     /\ Asked(t).over \/ sealed[p] = None
     /\ sealed' = [sealed EXCEPT ![p] = partial[p]]
     /\ partial' = IF Asked(t).over THEN [partial EXCEPT ![p] = None] ELSE partial

CanName(t) ==
  partial[Asked(t).to] # None /\ (Asked(t).over \/ sealed[Asked(t).to] = None)

NameArchive(t) ==
  /\ At(t, "name")
  /\ \/ Names(t) /\ Goes(t, "unlink")
     \/ ~CanName(t) /\ UNCHANGED <<partial, sealed>> /\ Goes(t, "abandon")
  /\ UNCHANGED <<storage, archive, dir, ledger, stops>>

\* The staging name is removed at the end, whatever file it stands for.
Unlink(t) ==
  /\ At(t, "unlink") \/ At(t, "abandon")
  /\ partial' = [partial EXCEPT ![Asked(t).to] = None]
  /\ IF At(t, "unlink") THEN Goes(t, "record") ELSE Ends(t)
  /\ UNCHANGED <<storage, archive, sealed, dir, ledger, stops>>

\* The ledger refuses a second row for an operation.
Record(t) ==
  /\ At(t, "record") /\ writing = None
  /\ ledger' = ledger \cup {thread[t].op}
  /\ Ends(t)
  /\ UNCHANGED <<storage, files, dir, stops>>

-----------------------------------------------------------------------------
(* Restoring one. *)

\* Faulty variant: the hashes in an archive are not compared.
Unchecked(f) == archive[f].whole

\* What verify accepts, and what is checked again as it is extracted.
Verified(f) == archive[f].whole /\ archive[f].intact = archive[f].blobs

BeginRestore(t, op) ==
  /\ Idle(t) /\ op \notin ledger /\ Requests[op].kind = "restore"
  /\ sealed[Requests[op].from] # None /\ Verified(sealed[Requests[op].from])
  /\ dir[Requests[op].to] = None
  /\ thread' = [thread EXCEPT ![t] = [op |-> op, pc |-> "database", file |-> None]]
  /\ UNCHANGED <<storage, files, dir, ledger, stops>>

Extracted(t) == IF dir[Asked(t).to] = None THEN {} ELSE dir[Asked(t).to].blobs
Intact(t)    == IF dir[Asked(t).to] = None THEN {} ELSE dir[Asked(t).to].intact

\* The archive is opened again by its name.
ExtractDatabase(t) ==
  /\ At(t, "database")
  /\ LET f == sealed[Asked(t).from]
     IN /\ dir' = [dir EXCEPT ![Asked(t).to] =
              [named |-> archive[f].named, blobs |-> Extracted(t), intact |-> Intact(t)]]
        /\ IF archive[f].whole THEN thread' = [thread EXCEPT ![t].pc = "blobs", ![t].file = f] ELSE Ends(t)
  /\ UNCHANGED <<storage, files, ledger, stops>>

\* A blob whose hash differs ends the restore.
ExtractBlobs(t) ==
  /\ At(t, "blobs")
  /\ LET f == thread[t].file
         out == IF Verified(f) THEN archive[f].blobs ELSE archive[f].intact
     IN /\ dir' = [dir EXCEPT ![Asked(t).to].blobs = @ \cup out,
                              ![Asked(t).to].intact = @ \cup archive[f].intact]
        /\ IF Verified(f) THEN Goes(t, "check") ELSE Ends(t)
  /\ UNCHANGED <<storage, files, ledger, stops>>

\* Every blob the restored rows name must be there by name.
CheckRestored(t) ==
  /\ At(t, "check") /\ writing = None
  /\ ledger' = IF dir[Asked(t).to].named \subseteq dir[Asked(t).to].blobs
               THEN ledger \cup {thread[t].op} ELSE ledger
  /\ Ends(t)
  /\ UNCHANGED <<storage, files, dir, stops>>

\* Names, files and committed rows survive; threads and the open transaction
\* do not.
Stop ==
  /\ stops < MaxStops /\ stops' = stops + 1
  /\ thread' = [t \in Threads |-> None]
  /\ writing' = None
  /\ UNCHANGED <<named, blobs, damaged, writes, files, dir, ledger>>

Next ==
  \/ \E b \in Blobs : Put(b) \/ Delete(b) \/ Damage(b)
  \/ Commit \/ Stop
  \/ \E t \in Threads :
       \/ \E op \in Ops : Begin(t, op) \/ BeginRestore(t, op)
       \/ Snapshot(t) \/ ListBlobs(t) \/ OpenPartial(t) \/ WriteArchive(t)
       \/ NameArchive(t) \/ Unlink(t) \/ Record(t)
       \/ ExtractDatabase(t) \/ ExtractBlobs(t) \/ CheckRestored(t)

Spec == Init /\ [][Next]_vars

-----------------------------------------------------------------------------
(* Properties. *)

Contents == [named : SUBSET Blobs, blobs : SUBSET Blobs, intact : SUBSET Blobs, whole : BOOLEAN]
Making   == {"snapshot", "list", "open", "write", "name", "unlink", "abandon", "record"}
Taking   == {"database", "blobs", "check"}

\* The variables hold values of their types: rows and archives name blobs there
\* are, names stand for files that were begun (create, restore).
TypeOK ==
  /\ named \cup damaged \subseteq blobs /\ blobs \subseteq Blobs /\ writing \in blobs \cup {None}
  /\ archive \in Seq(Contents)
  /\ \A f \in Begun :
       archive[f].named \cup archive[f].blobs \subseteq blobs /\ archive[f].intact \subseteq archive[f].blobs
  /\ partial \in [Places -> Begun \cup {None}] /\ sealed \in [Places -> Begun \cup {None}]
  /\ dir \in [Directories -> Restored \cup {None}]
  /\ thread \in [Threads -> [op : Ops, pc : Making \cup Taking, file : Begun \cup {None}] \cup {None}]
  /\ ledger \subseteq Ops

\* The destinations no request may overwrite.
Kept ==
  {p \in Places : \A op \in Ops :
     Requests[op].kind = "create" /\ Requests[op].to = p => ~Requests[op].over}

\* "The archive is finalized atomically (a failed run leaves no done file)"
\* (backup.py): the destination never names a file that is still being written.
SealedIsWhole == \A p \in Places : sealed[p] # None => archive[sealed[p]].whole

\* It does not where nobody may overwrite, whoever writes there at the same time
\* and whenever the process stops (create).
KeptIsWhole == \A p \in Kept : sealed[p] # None => archive[sealed[p]].whole

\* An archive lists every blob its rows name, though rows and blobs come and go
\* between the snapshot and the list (create, BlobStore.put).
SealedIsConsistent ==
  \A f \in Begun : archive[f].whole => archive[f].named \subseteq archive[f].blobs

\* The files and rows are well formed, an archive never names a blob it does not
\* list, and what nobody may overwrite is whole (create, BlobStore.put).
Wellformed == TypeOK /\ SealedIsConsistent /\ KeptIsWhole

\* A restore that is recorded leaves a directory with the very bytes of every
\* blob its rows name, also when a blob was damaged while the archive was written
\* and when another restore writes to the directory (_verify_referential_integrity).
RestoresWhole ==
  \A op \in ledger' \ ledger :
    Requests[op].kind = "restore" => dir[Requests[op].to].named \subseteq dir[Requests[op].to].intact

\* Only a request that says so replaces an archive: "atomic no-clobber
\* publication also covers a concurrent creator" (create).
ReplacesAsked ==
  \A p \in Places :
    sealed[p] # None /\ sealed'[p] # sealed[p] =>
      \E t \in Threads : At(t, "name") /\ Asked(t).over /\ Asked(t).to = p

\* All of it, with retries and other requests side by side: archives and rows are
\* well formed, what is restored is whole, and no archive is replaced unasked
\* (create, restore).
ArchivesHold == Wellformed /\ [][Wellformed' /\ RestoresWhole /\ ReplacesAsked]_vars

=============================================================================
