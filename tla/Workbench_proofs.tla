-------------------------- MODULE Workbench_proofs --------------------------
(***************************************************************************)
(* What the workbench promises of what it keeps: of archives, for every    *)
(* number of threads, destinations, requests and blobs (ArchivesHold); of  *)
(* the database, for every sequence of releases and every place where a    *)
(* start may end (UpgradeIsSafe); of folders, for every number of          *)
(* projects, folders, paths and requests (FoldersAreTheirs); of its starts *)
(* and clients, for every number of starts, ports, clients and calls       *)
(* (OnlyItsOwn); and of the draft in the canvas panel of its page, for     *)
(* every number of edits, canvases and requests under way (DraftIsKept).   *)
(***************************************************************************)
EXTENDS Backup, Upgrade, Registry, Service, CanvasWindow, SequenceTheorems, TLAPS

(* Archives: what Backup promises.                                           *)

\* A job that makes an archive, given the archives and the rows of storage: its
\* file is whole from the moment it is written, and was listed after the snapshot.
MakingOK(j, all) ==
  j.pc \in Making =>
    /\ Requests[j.op].kind = "create" /\ j.file \in DOMAIN all
    /\ all[j.file].whole <=> j.pc \in {"name", "unlink", "abandon", "record"}
    /\ j.pc \in {"open", "write"} => all[j.file].named \subseteq all[j.file].blobs

\* A job that takes an archive back, given the names and the directories.
TakingOK(j, names, dirs) ==
  j.pc \in Taking =>
    /\ Requests[j.op].kind = "restore"
    /\ j.pc = "database" => names[Requests[j.op].from] # None
    /\ j.pc # "database" => j.file # None /\ dirs[Requests[j.op].to] \in Restored

\* Where nobody may overwrite, a job holds the staging name until it removes it.
HoldsName(j, staged) ==
  j.pc \in {"write", "name", "unlink", "abandon"} /\ Requests[j.op].to \in Kept =>
    staged[Requests[j.op].to] = j.file

JobsOK(mine, all, names, staged, dirs) ==
  \A t \in Threads : mine[t] # None =>
    MakingOK(mine[t], all) /\ TakingOK(mine[t], names, dirs) /\ HoldsName(mine[t], staged)

\* No two jobs make the same file.
OwnFiles(mine) ==
  \A t, u \in Threads :
    /\ mine[t] # None /\ mine[t].pc \in Making
    /\ mine[u] # None /\ mine[u].pc \in Making
    /\ mine[t].file = mine[u].file
    => t = u

\* What a restore wrote has the bytes its name says.
Extracts == \A d \in Directories : dir[d] # None => dir[d].blobs = dir[d].intact

BackupInv ==
  /\ Wellformed /\ Extracts
  /\ JobsOK(thread, archive, sealed, partial, dir) /\ OwnFiles(thread)

-----------------------------------------------------------------------------

LEMMA ArchivesStart == Init => BackupInv
BY DEF Init, BackupInv, Wellformed, TypeOK, SealedIsConsistent, KeptIsWhole, Kept, Extracts, JobsOK,
       OwnFiles, Begun

\* What a request for an archive, and one for a restore, is made of.
LEMMA RequestTypes ==
  ASSUME NEW op \in Ops
  PROVE  /\ Requests[op].kind = "create" => Requests[op].to \in Places
         /\ Requests[op].kind = "restore" =>
              Requests[op].from \in Places /\ Requests[op].to \in Directories
         /\ Requests[op].kind \in {"create", "restore"}
BY BackupAssumption DEF Ops

\* A file that was begun has a number, and a number is not None.
LEMMA BegunNumbers == TypeOK => Begun \subseteq Nat /\ None \notin Begun
BY BackupAssumption DEF TypeOK, Begun

-----------------------------------------------------------------------------
(* Steps of the other requests. *)

\* Rows and blobs change, archives, names, directories and jobs do not.
LEMMA StorageStep ==
  ASSUME BackupInv, UNCHANGED <<files, dir, thread>>, ledger' = ledger,
         blobs \subseteq blobs', blobs' \subseteq Blobs, named' \subseteq blobs',
         damaged' \subseteq blobs', writing' \in blobs' \cup {None}
  PROVE  BackupInv'
<1>1. TypeOK'
  BY DEF BackupInv, Wellformed, TypeOK, files, Begun
<1> QED
  BY <1>1 DEF BackupInv, Wellformed, SealedIsConsistent, KeptIsWhole, Kept, Extracts, JobsOK, MakingOK,
              TakingOK, HoldsName, OwnFiles, files, Begun

LEMMA WritesStep ==
  ASSUME BackupInv, (\E b \in Blobs : Put(b) \/ Delete(b) \/ Damage(b)) \/ Commit
  PROVE  BackupInv'
<1>1. UNCHANGED <<files, dir, thread>> /\ ledger' = ledger
  BY DEF Put, Delete, Damage, Commit
<1>2. blobs \subseteq blobs' /\ blobs' \subseteq Blobs /\ named' \subseteq blobs'
      /\ damaged' \subseteq blobs' /\ writing' \in blobs' \cup {None}
  BY DEF Put, Delete, Damage, Commit, BackupInv, Wellformed, TypeOK
<1> QED
  BY <1>1, <1>2, StorageStep

\* A stop ends every job and the open transaction.
LEMMA StopStep == ASSUME BackupInv, Stop PROVE BackupInv'
<1>1. TypeOK'
  BY DEF Stop, BackupInv, Wellformed, TypeOK, files, Begun
<1>2. \A t \in Threads : thread'[t] = None
  BY DEF Stop
<1> QED
  BY <1>1, <1>2 DEF Stop, BackupInv, Wellformed, SealedIsConsistent, KeptIsWhole, Kept, Extracts, JobsOK,
                    OwnFiles, files, Begun

-----------------------------------------------------------------------------
(* A step of one job. The others keep what they rest on. *)

JobTypes == [op : Ops, pc : Making \cup Taking, file : Begun \cup {None}]

ArchiveJobOK(j, all, names, staged, dirs) ==
  MakingOK(j, all) /\ TakingOK(j, names, dirs) /\ HoldsName(j, staged)

LEMMA ArchiveJobStep ==
  ASSUME BackupInv, NEW t \in Threads, NEW j, thread' = [thread EXCEPT ![t] = j],
         j = None \/ ArchiveJobOK(j, archive', sealed', partial', dir'),
         j # None /\ j.pc \in Making =>
           \A u \in Threads \ {t} : thread[u] # None /\ thread[u].pc \in Making => thread[u].file # j.file,
         \A u \in Threads \ {t} :
           thread[u] # None => ArchiveJobOK(thread[u], archive', sealed', partial', dir')
  PROVE  JobsOK(thread', archive', sealed', partial', dir') /\ OwnFiles(thread')
<1>1. \A u \in Threads : thread'[u] = IF u = t THEN j ELSE thread[u]
  BY DEF BackupInv, Wellformed, TypeOK
<1>2. JobsOK(thread', archive', sealed', partial', dir')
  BY <1>1 DEF JobsOK, ArchiveJobOK
<1>3. OwnFiles(thread')
  BY <1>1 DEF OwnFiles, BackupInv
<1> QED
  BY <1>2, <1>3

\* A job that goes on has the request and the file it had.
LEMMA NextJob ==
  ASSUME TypeOK, NEW t \in Threads, thread[t] # None, NEW pc \in Making \cup Taking,
         NEW j, j = [thread[t] EXCEPT !.pc = pc]
  PROVE  /\ thread[t] \in JobTypes /\ j \in JobTypes
         /\ j.op = thread[t].op /\ j.file = thread[t].file /\ j.pc = pc
BY DEF TypeOK, JobTypes

\* What every reachable state has, put together for the next one.
LEMMA Together ==
  ASSUME TypeOK', SealedIsConsistent', KeptIsWhole', Extracts',
         JobsOK(thread', archive', sealed', partial', dir'), OwnFiles(thread')
  PROVE  BackupInv'
BY DEF BackupInv, Wellformed, JobsOK, OwnFiles

\* One file changes: its number and the others stay.
LEMMA FileStep ==
  ASSUME TypeOK, NEW f \in Begun, NEW file \in Contents, archive' = [archive EXCEPT ![f] = file],
         file.named \cup file.blobs \subseteq blobs, file.intact \subseteq file.blobs, blobs' = blobs
  PROVE  /\ Begun' = Begun /\ archive' \in Seq(Contents)
         /\ \A g \in Begun : archive'[g] = IF g = f THEN file ELSE archive[g]
         /\ \A g \in Begun' :
              /\ archive'[g].named \cup archive'[g].blobs \subseteq blobs'
              /\ archive'[g].intact \subseteq archive'[g].blobs
<1>1. archive \in Seq(Contents) /\ f \in 1 .. Len(archive) /\ DOMAIN archive = 1 .. Len(archive)
  BY DEF TypeOK, Begun
<1>2. archive' \in Seq(Contents) /\ DOMAIN archive' = DOMAIN archive
  BY <1>1
<1>3. \A g \in Begun : archive'[g] = IF g = f THEN file ELSE archive[g]
  BY <1>1 DEF Begun
<1> QED
  BY <1>2, <1>3 DEF Begun, TypeOK

-----------------------------------------------------------------------------
(* Sealing a backup. *)

LEMMA BeginStep ==
  ASSUME BackupInv, NEW t \in Threads, NEW op \in Ops, Begin(t, op)
  PROVE  BackupInv'
<1> DEFINE new == [named |-> {}, blobs |-> {}, intact |-> {}, whole |-> FALSE]
           n   == Len(archive) + 1
           j   == [op |-> op, pc |-> "snapshot", file |-> n]
<1>1. /\ archive \in Seq(Contents) /\ new \in Contents /\ Len(archive) \in Nat
      /\ Begun = 1 .. Len(archive)
  BY DEF BackupInv, Wellformed, TypeOK, Contents, Begun
<1>2. archive' = Append(archive, new)
  BY DEF Begin
<1>3. archive' \in Seq(Contents) /\ Len(archive') = n
  BY <1>1, <1>2
<1>4. Begun' = 1 .. n /\ Begun \subseteq Begun' /\ n \in Begun' /\ n \notin Begun
  BY <1>1, <1>3 DEF Begun
<1>5. archive'[n] = new /\ \A g \in Begun : archive'[g] = archive[g]
  BY <1>1, <1>2
<1>6. \A g \in Begun' : g \in Begun \/ g = n
  BY <1>1, <1>4
<1>7. thread' = [thread EXCEPT ![t] = j] /\ UNCHANGED <<storage, partial, sealed, dir, ledger>>
      /\ Requests[op].kind = "create"
  BY DEF Begin
<1> HIDE DEF n, new
<1>8. TypeOK'
  <2>1. j \in [op : Ops, pc : Making \cup Taking, file : Begun' \cup {None}]
    BY <1>4 DEF Making
  <2>2. thread' \in [Threads -> [op : Ops, pc : Making \cup Taking, file : Begun' \cup {None}] \cup {None}]
    BY <2>1, <1>4, <1>7 DEF BackupInv, Wellformed, TypeOK
  <2>3. \A f \in Begun' :
          /\ archive'[f].named \cup archive'[f].blobs \subseteq blobs
          /\ archive'[f].intact \subseteq archive'[f].blobs
    BY <1>5, <1>6 DEF new, BackupInv, Wellformed, TypeOK
  <2> QED
    BY <2>2, <2>3, <1>3, <1>4, <1>7 DEF BackupInv, Wellformed, TypeOK, storage
<1>9. SealedIsConsistent' /\ Extracts'
  BY <1>5, <1>6, <1>7 DEF new, BackupInv, Wellformed, SealedIsConsistent, Extracts
<1>10. KeptIsWhole'
  BY <1>5, <1>7 DEF BackupInv, Wellformed, TypeOK, KeptIsWhole, Kept
<1>11. ArchiveJobOK(j, archive', sealed', partial', dir')
  BY <1>4, <1>5, <1>7 DEF new, ArchiveJobOK, MakingOK, TakingOK, HoldsName, Making, Taking, Begun
<1>12. ASSUME NEW u \in Threads \ {t}, thread[u] # None
       PROVE  /\ ArchiveJobOK(thread[u], archive', sealed', partial', dir')
              /\ thread[u].pc \in Making => thread[u].file # n
  <2>1. ArchiveJobOK(thread[u], archive, sealed, partial, dir)
    BY <1>12 DEF BackupInv, JobsOK, ArchiveJobOK
  <2>2. thread[u].pc \in Making => thread[u].file \in Begun
    BY <2>1 DEF ArchiveJobOK, MakingOK, Begun
  <2> QED
    BY <2>1, <2>2, <1>4, <1>5, <1>7 DEF ArchiveJobOK, MakingOK, TakingOK, HoldsName, Begun
<1> QED
  BY <1>7, <1>8, <1>9, <1>10, <1>11, <1>12, ArchiveJobStep, Together

\* A job that changes its file changes no other job's.
LEMMA OwnFileStep ==
  ASSUME BackupInv, NEW t \in Threads, thread[t] # None, thread[t].pc \in Making,
         NEW file \in Contents, archive' = [archive EXCEPT ![thread[t].file] = file],
         ~archive[thread[t].file].whole,
         file.named \cup file.blobs \subseteq blobs, file.intact \subseteq file.blobs,
         file.whole => file.named \subseteq file.blobs,
         UNCHANGED <<storage, partial, sealed, dir>>, ledger' = ledger,
         NEW pc \in Making, thread' = [thread EXCEPT ![t].pc = pc],
         ArchiveJobOK([thread[t] EXCEPT !.pc = pc], archive', sealed', partial', dir')
  PROVE  BackupInv'
<1> DEFINE f == thread[t].file
           j == [thread[t] EXCEPT !.pc = pc]
<1>0. TypeOK
  BY DEF BackupInv, Wellformed
<1>1. /\ thread[t] \in JobTypes /\ j \in JobTypes
      /\ j.op = thread[t].op /\ j.file = f /\ j.pc = pc
  BY <1>0, NextJob
<1>2. f \in Begun
  BY DEF BackupInv, JobsOK, MakingOK, Begun
<1>3. thread' = [thread EXCEPT ![t] = j]
  BY <1>0 DEF TypeOK
<1> HIDE DEF f, j
<1>4. blobs' = blobs
  BY DEF storage
<1>5. /\ Begun' = Begun /\ archive' \in Seq(Contents)
      /\ \A g \in Begun : archive'[g] = IF g = f THEN file ELSE archive[g]
      /\ \A g \in Begun' :
           /\ archive'[g].named \cup archive'[g].blobs \subseteq blobs'
           /\ archive'[g].intact \subseteq archive'[g].blobs
  BY <1>0, <1>2, <1>4, FileStep DEF f
<1>6. TypeOK'
  <2>1. thread' \in [Threads -> JobTypes' \cup {None}]
    BY <1>0, <1>1, <1>3, <1>5 DEF TypeOK, JobTypes
  <2> QED
    BY <2>1, <1>0, <1>5 DEF TypeOK, JobTypes, storage
<1>7. SealedIsConsistent' /\ Extracts'
  BY <1>5 DEF BackupInv, Wellformed, SealedIsConsistent, Extracts
<1>8. KeptIsWhole'
  BY <1>0, <1>5, <1>2 DEF f, BackupInv, Wellformed, KeptIsWhole, Kept, TypeOK
<1>9. ASSUME NEW u \in Threads \ {t}, thread[u] # None
      PROVE  /\ ArchiveJobOK(thread[u], archive', sealed', partial', dir')
             /\ thread[u].pc \in Making => thread[u].file # j.file
  <2>1. ArchiveJobOK(thread[u], archive, sealed, partial, dir)
    BY <1>9 DEF BackupInv, JobsOK, ArchiveJobOK
  <2>2. thread[u].pc \in Making => thread[u].file \in Begun /\ thread[u].file # f
    BY <2>1, <1>9 DEF f, BackupInv, OwnFiles, ArchiveJobOK, MakingOK, Begun
  <2> QED
    BY <2>1, <2>2, <1>1, <1>5 DEF ArchiveJobOK, MakingOK, TakingOK, HoldsName, Begun
<1> QED
  BY <1>3, <1>6, <1>7, <1>8, <1>9, ArchiveJobStep, Together DEF j

\* What a job that is making an archive has.
LEMMA MakingFacts ==
  ASSUME BackupInv, NEW t \in Threads, NEW pc \in Making, At(t, pc)
  PROVE  /\ thread[t] # None /\ thread[t].pc = pc /\ thread[t] \in JobTypes
         /\ Asked(t).kind = "create" /\ Asked(t).to \in Places
         /\ thread[t].file \in Begun /\ archive[thread[t].file] \in Contents
         /\ archive[thread[t].file].whole <=> pc \in {"name", "unlink", "abandon", "record"}
         /\ archive[thread[t].file].named \subseteq blobs
         /\ archive[thread[t].file].blobs \subseteq blobs
         /\ archive[thread[t].file].intact \subseteq archive[thread[t].file].blobs
         /\ ArchiveJobOK(thread[t], archive, sealed, partial, dir)
<1>1. thread[t] # None /\ thread[t].pc = pc /\ ArchiveJobOK(thread[t], archive, sealed, partial, dir)
  BY DEF At, BackupInv, JobsOK, ArchiveJobOK
<1>2. thread[t] \in JobTypes
  BY <1>1 DEF BackupInv, Wellformed, TypeOK, JobTypes
<1>3. Asked(t).kind = "create" /\ thread[t].op \in Ops /\ Asked(t).to \in Places
  BY <1>1, <1>2, RequestTypes DEF ArchiveJobOK, MakingOK, Asked, JobTypes
<1>4. /\ thread[t].file \in Begun
      /\ archive[thread[t].file].whole <=> pc \in {"name", "unlink", "abandon", "record"}
  BY <1>1 DEF ArchiveJobOK, MakingOK, Begun
<1>5. archive[thread[t].file] \in Contents
  BY <1>4 DEF BackupInv, Wellformed, TypeOK, Begun
<1> QED
  BY <1>1, <1>2, <1>3, <1>4, <1>5 DEF BackupInv, Wellformed, TypeOK

LEMMA SnapshotStep == ASSUME BackupInv, NEW t \in Threads, Snapshot(t) PROVE BackupInv'
<1> DEFINE f    == thread[t].file
           file == [archive[f] EXCEPT !.named = named]
           j    == [thread[t] EXCEPT !.pc = "list"]
<1>1. /\ At(t, "snapshot") /\ archive' = [archive EXCEPT ![f] = file]
      /\ thread' = [thread EXCEPT ![t].pc = "list"]
      /\ UNCHANGED <<storage, partial, sealed, dir>> /\ ledger' = ledger
  BY DEF Snapshot, Goes
<1>2. /\ thread[t] # None /\ thread[t].pc = "snapshot" /\ thread[t] \in JobTypes
      /\ f \in Begun /\ archive[f] \in Contents /\ ~archive[f].whole
      /\ archive[f].blobs \subseteq blobs /\ archive[f].intact \subseteq archive[f].blobs
      /\ Asked(t).kind = "create"
  BY <1>1, MakingFacts DEF Making
<1>3. named \subseteq blobs /\ blobs \subseteq Blobs
  BY DEF BackupInv, Wellformed, TypeOK
<1>4. /\ file \in Contents /\ file.named = named /\ file.blobs = archive[f].blobs
      /\ file.intact = archive[f].intact /\ ~file.whole
  BY <1>2, <1>3 DEF Contents
<1>5. /\ j.op = thread[t].op /\ j.file = f /\ j.pc = "list"
  BY <1>2 DEF JobTypes
<1> HIDE DEF file, j
<1>6. archive'[f] = file /\ f \in DOMAIN archive'
  BY <1>1, <1>2 DEF BackupInv, Wellformed, TypeOK, Begun
<1>7. ArchiveJobOK(j, archive', sealed', partial', dir')
  BY <1>2, <1>4, <1>5, <1>6 DEF ArchiveJobOK, MakingOK, TakingOK, HoldsName, Taking, Making, Asked
<1> QED
  BY <1>1, <1>2, <1>3, <1>4, <1>7, OwnFileStep DEF j, Making

\* A job that ends leaves everything but itself.
LEMMA EndsStep ==
  ASSUME BackupInv, NEW t \in Threads, thread' = [thread EXCEPT ![t] = None],
         UNCHANGED <<storage, archive, sealed, dir>>, ledger' \subseteq Ops,
         partial' \in [Places -> Begun \cup {None}],
         \A u \in Threads \ {t} : thread[u] # None => HoldsName(thread[u], partial')
  PROVE  BackupInv'
<1>1. TypeOK'
  BY DEF BackupInv, Wellformed, TypeOK, storage, Begun
<1>2. SealedIsConsistent' /\ KeptIsWhole' /\ Extracts'
  BY DEF BackupInv, Wellformed, SealedIsConsistent, KeptIsWhole, Extracts, Begun
<1>3. \A u \in Threads \ {t} :
        thread[u] # None => ArchiveJobOK(thread[u], archive', sealed', partial', dir')
  BY DEF BackupInv, JobsOK, ArchiveJobOK
<1> QED
  BY <1>1, <1>2, <1>3, ArchiveJobStep, Together

\* A job that goes on and changes names at most.
LEMMA GoesStep ==
  ASSUME BackupInv, NEW t \in Threads, NEW pc \in Making, thread[t] # None, thread[t].pc \in Making,
         thread' = [thread EXCEPT ![t].pc = pc],
         UNCHANGED <<storage, archive, dir>>, ledger' = ledger,
         partial' \in [Places -> Begun \cup {None}], sealed' \in [Places -> Begun \cup {None}],
         \A p \in Places : sealed[p] # None => sealed'[p] # None,
         KeptIsWhole',
         ArchiveJobOK([thread[t] EXCEPT !.pc = pc], archive, sealed', partial', dir),
         \A u \in Threads \ {t} : thread[u] # None => HoldsName(thread[u], partial')
  PROVE  BackupInv'
<1> DEFINE j == [thread[t] EXCEPT !.pc = pc]
<1>0. TypeOK
  BY DEF BackupInv, Wellformed
<1>1. /\ thread[t] \in JobTypes /\ j \in JobTypes
      /\ j.op = thread[t].op /\ j.file = thread[t].file /\ j.pc = pc
  BY <1>0, NextJob
<1>2. thread' = [thread EXCEPT ![t] = j]
  BY <1>0 DEF TypeOK
<1> HIDE DEF j
<1>3. TypeOK'
  <2>1. thread' \in [Threads -> JobTypes' \cup {None}]
    BY <1>0, <1>1, <1>2 DEF TypeOK, JobTypes, Begun
  <2> QED
    BY <2>1, <1>0 DEF TypeOK, JobTypes, storage, Begun
<1>4. SealedIsConsistent' /\ Extracts'
  BY DEF BackupInv, Wellformed, SealedIsConsistent, Extracts, Begun
<1>5. ASSUME NEW u \in Threads \ {t}, thread[u] # None
      PROVE  /\ ArchiveJobOK(thread[u], archive', sealed', partial', dir')
             /\ thread[u].pc \in Making => thread[u].file # j.file
  <2>1. ArchiveJobOK(thread[u], archive, sealed, partial, dir)
    BY <1>5 DEF BackupInv, JobsOK, ArchiveJobOK
  <2>2. thread[u].op \in Ops
    BY <1>0, <1>5 DEF TypeOK
  <2>3. TakingOK(thread[u], sealed', dir')
    BY <2>1, <2>2, RequestTypes DEF ArchiveJobOK, TakingOK
  <2> QED
    BY <2>1, <2>3, <1>1, <1>5 DEF ArchiveJobOK, BackupInv, OwnFiles
<1> QED
  BY <1>2, <1>3, <1>4, <1>5, ArchiveJobStep, Together DEF j

LEMMA ListBlobsStep == ASSUME BackupInv, NEW t \in Threads, ListBlobs(t) PROVE BackupInv'
<1> DEFINE f    == thread[t].file
           file == [archive[f] EXCEPT !.blobs = blobs]
           j    == [thread[t] EXCEPT !.pc = "open"]
<1>1. CASE UNCHANGED archive /\ Ends(t)
  <2>1. \A u \in Threads : thread[u] # None => HoldsName(thread[u], partial)
    BY DEF BackupInv, JobsOK
  <2> QED
    BY <1>1, <2>1, EndsStep DEF ListBlobs, Ends, BackupInv, Wellformed, TypeOK
<1>2. CASE archive' = [archive EXCEPT ![f].blobs = AllBlobs] /\ Goes(t, "open")
  <2>1. /\ At(t, "list") /\ archive' = [archive EXCEPT ![f] = file]
        /\ thread' = [thread EXCEPT ![t].pc = "open"]
        /\ UNCHANGED <<storage, partial, sealed, dir>> /\ ledger' = ledger
    BY <1>2 DEF ListBlobs, Goes, AllBlobs
  <2>2. /\ thread[t] # None /\ thread[t].pc = "list" /\ thread[t] \in JobTypes
        /\ f \in Begun /\ archive[f] \in Contents /\ ~archive[f].whole
        /\ archive[f].named \subseteq blobs /\ archive[f].blobs \subseteq blobs
        /\ archive[f].intact \subseteq archive[f].blobs
        /\ Asked(t).kind = "create"
    BY <2>1, MakingFacts DEF Making
  <2>3. blobs \subseteq Blobs
    BY DEF BackupInv, Wellformed, TypeOK
  <2>4. /\ file \in Contents /\ file.named = archive[f].named /\ file.blobs = blobs
        /\ file.intact = archive[f].intact /\ ~file.whole
    BY <2>2, <2>3 DEF Contents
  <2>5. /\ j.op = thread[t].op /\ j.file = f /\ j.pc = "open"
    BY <2>2 DEF JobTypes
  <2> HIDE DEF file, j
  <2>6. archive'[f] = file /\ f \in DOMAIN archive'
    BY <2>1, <2>2 DEF BackupInv, Wellformed, TypeOK, Begun
  <2>7. ArchiveJobOK(j, archive', sealed', partial', dir')
    BY <2>2, <2>4, <2>5, <2>6 DEF ArchiveJobOK, MakingOK, TakingOK, HoldsName, Taking, Making, Asked
  <2> QED
    BY <2>1, <2>2, <2>4, <2>7, OwnFileStep DEF j, Making
<1> QED
  BY <1>1, <1>2 DEF ListBlobs

LEMMA WriteArchiveStep == ASSUME BackupInv, NEW t \in Threads, WriteArchive(t) PROVE BackupInv'
<1> DEFINE f    == thread[t].file
           file == [archive[f] EXCEPT !.intact = archive[f].blobs \ damaged, !.whole = TRUE]
           j    == [thread[t] EXCEPT !.pc = "name"]
<1>1. /\ At(t, "write") /\ archive' = [archive EXCEPT ![f] = file]
      /\ thread' = [thread EXCEPT ![t].pc = "name"]
      /\ UNCHANGED <<storage, partial, sealed, dir>> /\ ledger' = ledger
  BY DEF WriteArchive, Goes
<1>2. /\ thread[t] # None /\ thread[t].pc = "write" /\ thread[t] \in JobTypes
      /\ f \in Begun /\ archive[f] \in Contents /\ ~archive[f].whole
      /\ archive[f].named \subseteq blobs /\ archive[f].blobs \subseteq blobs
      /\ Asked(t).kind = "create"
      /\ ArchiveJobOK(thread[t], archive, sealed, partial, dir)
  BY <1>1, MakingFacts DEF Making
<1>3. /\ archive[f].named \subseteq archive[f].blobs
      /\ HoldsName(thread[t], partial)
  BY <1>2 DEF ArchiveJobOK, MakingOK, Making
<1>4. /\ file \in Contents /\ file.named = archive[f].named /\ file.blobs = archive[f].blobs
      /\ file.intact = archive[f].blobs \ damaged /\ file.whole
  BY <1>2 DEF Contents
<1>5. /\ j.op = thread[t].op /\ j.file = f /\ j.pc = "name"
  BY <1>2 DEF JobTypes
<1> HIDE DEF file, j
<1>6. archive'[f] = file /\ f \in DOMAIN archive'
  BY <1>1, <1>2 DEF BackupInv, Wellformed, TypeOK, Begun
<1>7. ArchiveJobOK(j, archive', sealed', partial', dir')
  BY <1>1, <1>2, <1>3, <1>4, <1>5, <1>6 DEF ArchiveJobOK, MakingOK, TakingOK, HoldsName, Taking, Making, Asked
<1> QED
  BY <1>1, <1>2, <1>3, <1>4, <1>7, OwnFileStep DEF j, Making

\* The staging name is taken only if nobody holds it.
LEMMA OpenPartialStep == ASSUME BackupInv, NEW t \in Threads, OpenPartial(t) PROVE BackupInv'
<1> DEFINE p == Asked(t).to
           f == thread[t].file
           j == [thread[t] EXCEPT !.pc = "write"]
<1>1. /\ At(t, "open") /\ UNCHANGED <<storage, archive, sealed, dir>> /\ ledger' = ledger
  BY DEF OpenPartial
<1>2. /\ thread[t] # None /\ thread[t].pc = "open" /\ thread[t] \in JobTypes
      /\ f \in Begun /\ p \in Places /\ Asked(t).kind = "create"
      /\ ArchiveJobOK(thread[t], archive, sealed, partial, dir)
  BY <1>1, MakingFacts DEF Making
<1>3. \A u \in Threads : thread[u] # None => HoldsName(thread[u], partial)
  BY DEF BackupInv, JobsOK
<1>4. CASE UNCHANGED partial /\ Ends(t)
  BY <1>1, <1>3, <1>4, EndsStep DEF Ends, BackupInv, Wellformed, TypeOK
<1>5. CASE partial[p] = None /\ partial' = [partial EXCEPT ![p] = f] /\ Goes(t, "write")
  <2>1. /\ partial' \in [Places -> Begun \cup {None}]
        /\ partial'[p] = f
        /\ \A q \in Places : q # p => partial'[q] = partial[q]
    BY <1>2, <1>5 DEF BackupInv, Wellformed, TypeOK
  <2>2. ASSUME NEW u \in Threads \ {t}, thread[u] # None PROVE HoldsName(thread[u], partial')
    <3> SUFFICES ASSUME thread[u].pc \in {"write", "name", "unlink", "abandon"},
                        Requests[thread[u].op].to \in Kept
                 PROVE  partial'[Requests[thread[u].op].to] = thread[u].file
      BY DEF HoldsName
    <3>1. partial[Requests[thread[u].op].to] = thread[u].file
      BY <1>3, <2>2 DEF HoldsName
    <3>2. thread[u].file \in Begun
      BY <2>2 DEF BackupInv, JobsOK, MakingOK, Making, Begun
    <3>3. Requests[thread[u].op].to # p
      BY <3>1, <3>2, <1>5, BegunNumbers DEF BackupInv, Wellformed
    <3> QED
      BY <3>1, <3>3, <2>1 DEF Kept
  <2>3. /\ j.op = thread[t].op /\ j.file = f /\ j.pc = "write"
    BY <1>2 DEF JobTypes
  <2>4. thread' = [thread EXCEPT ![t].pc = "write"]
    BY <1>5 DEF Goes
  <2> HIDE DEF j
  <2>5. ArchiveJobOK(j, archive, sealed', partial', dir)
    BY <1>1, <1>2, <2>1, <2>3 DEF ArchiveJobOK, MakingOK, TakingOK, HoldsName, Taking, Making, Asked
  <2>6. KeptIsWhole'
    BY <1>1 DEF BackupInv, Wellformed, KeptIsWhole
  <2> QED
    BY <1>1, <1>2, <2>1, <2>2, <2>4, <2>5, <2>6, GoesStep DEF j, Making, BackupInv, Wellformed, TypeOK
<1> QED
  BY <1>4, <1>5 DEF OpenPartial

\* What is named is the file the staging name stands for: where nobody may
\* overwrite, the thread's own, which is whole.
LEMMA NameArchiveStep == ASSUME BackupInv, NEW t \in Threads, NameArchive(t) PROVE BackupInv'
<1> DEFINE p == Asked(t).to
           f == thread[t].file
<1>1. /\ At(t, "name") /\ UNCHANGED <<storage, archive, dir>> /\ ledger' = ledger
  BY DEF NameArchive
<1>2. /\ thread[t] # None /\ thread[t].pc = "name" /\ thread[t] \in JobTypes
      /\ f \in Begun /\ p \in Places /\ Asked(t).kind = "create" /\ archive[f].whole
      /\ ArchiveJobOK(thread[t], archive, sealed, partial, dir)
  BY <1>1, MakingFacts DEF Making
<1>3. \A u \in Threads : thread[u] # None => HoldsName(thread[u], partial)
  BY DEF BackupInv, JobsOK
<1>4. CASE UNCHANGED <<partial, sealed>> /\ Goes(t, "abandon")
  <2> DEFINE j == [thread[t] EXCEPT !.pc = "abandon"]
  <2>1. /\ j.op = thread[t].op /\ j.file = f /\ j.pc = "abandon"
    BY <1>2 DEF JobTypes
  <2>2. thread' = [thread EXCEPT ![t].pc = "abandon"]
    BY <1>4 DEF Goes
  <2> HIDE DEF j
  <2>3. ArchiveJobOK(j, archive, sealed', partial', dir)
    BY <1>2, <1>4, <2>1 DEF ArchiveJobOK, MakingOK, TakingOK, HoldsName, Taking, Making
  <2>4. KeptIsWhole'
    BY <1>1, <1>4 DEF BackupInv, Wellformed, KeptIsWhole
  <2> QED
    BY <1>1, <1>2, <1>3, <1>4, <2>2, <2>3, <2>4, GoesStep DEF j, Making, BackupInv, Wellformed, TypeOK
<1>5. CASE Names(t) /\ Goes(t, "unlink")
  <2> DEFINE j == [thread[t] EXCEPT !.pc = "unlink"]
  <2>1. /\ j.op = thread[t].op /\ j.file = f /\ j.pc = "unlink"
    BY <1>2 DEF JobTypes
  <2>2. thread' = [thread EXCEPT ![t].pc = "unlink"]
    BY <1>5 DEF Goes
  <2>3. /\ partial[p] \in Begun /\ sealed' = [sealed EXCEPT ![p] = partial[p]]
        /\ partial' \in [Places -> Begun \cup {None}]
        /\ sealed' \in [Places -> Begun \cup {None}]
        /\ \A q \in Places : q # p => partial'[q] = partial[q] /\ sealed'[q] = sealed[q]
        /\ sealed'[p] = partial[p]
    BY <1>2, <1>5 DEF Names, BackupInv, Wellformed, TypeOK
  <2>4. p \in Kept => partial' = partial /\ partial[p] = f
    <3> HAVE p \in Kept
    <3>1. ~Asked(t).over
      BY <1>2 DEF Kept, Asked, JobTypes
    <3> QED
      BY <3>1, <1>2, <1>3, <1>5 DEF Names, HoldsName, Asked
  <2> HIDE DEF j
  <2>5. \A q \in Kept : partial'[q] = partial[q]
    BY <2>3, <2>4 DEF Kept
  <2>6. KeptIsWhole'
    BY <1>1, <1>2, <2>3, <2>4 DEF BackupInv, Wellformed, KeptIsWhole, Kept
  <2>7. ArchiveJobOK(j, archive, sealed', partial', dir)
    BY <1>2, <2>1, <2>4, <2>5 DEF ArchiveJobOK, MakingOK, TakingOK, HoldsName, Taking, Making, Asked
  <2>8. \A u \in Threads \ {t} : thread[u] # None => HoldsName(thread[u], partial')
    BY <1>3, <2>5 DEF HoldsName
  <2>9. \A q \in Places : sealed[q] # None => sealed'[q] # None
    BY <2>3, BegunNumbers DEF BackupInv, Wellformed
  <2> QED
    BY <1>1, <1>2, <2>2, <2>3, <2>6, <2>7, <2>8, <2>9, GoesStep DEF j, Making
<1> QED
  BY <1>4, <1>5 DEF NameArchive

LEMMA UnlinkStep == ASSUME BackupInv, NEW t \in Threads, Unlink(t) PROVE BackupInv'
<1> DEFINE p == Asked(t).to
           f == thread[t].file
<1> SUFFICES ASSUME NEW pc \in {"unlink", "abandon"}, At(t, pc) PROVE BackupInv'
  BY DEF Unlink
<1>1. /\ partial' = [partial EXCEPT ![p] = None]
      /\ UNCHANGED <<storage, archive, sealed, dir>> /\ ledger' = ledger
  BY DEF Unlink
<1>2. /\ thread[t] # None /\ thread[t].pc = pc /\ thread[t] \in JobTypes
      /\ f \in Begun /\ p \in Places /\ Asked(t).kind = "create" /\ archive[f].whole
      /\ ArchiveJobOK(thread[t], archive, sealed, partial, dir)
  BY MakingFacts DEF Making
<1>3. /\ partial' \in [Places -> Begun \cup {None}]
      /\ \A q \in Places : q # p => partial'[q] = partial[q]
  BY <1>1 DEF BackupInv, Wellformed, TypeOK
<1>4. ASSUME NEW u \in Threads \ {t}, thread[u] # None PROVE HoldsName(thread[u], partial')
  <2> SUFFICES ASSUME thread[u].pc \in {"write", "name", "unlink", "abandon"},
                      Requests[thread[u].op].to \in Kept
               PROVE  partial'[Requests[thread[u].op].to] = thread[u].file
    BY DEF HoldsName
  <2>1. partial[Requests[thread[u].op].to] = thread[u].file
    BY <1>4 DEF HoldsName, BackupInv, JobsOK
  <2>2. thread[u].file # f
    BY <1>2, <1>4 DEF BackupInv, OwnFiles, Making
  <2>3. p \in Kept => partial[p] = f
    BY <1>2 DEF ArchiveJobOK, HoldsName, Asked
  <2> QED
    BY <2>1, <2>2, <2>3, <1>3 DEF Kept
<1>5. KeptIsWhole'
  BY <1>1 DEF BackupInv, Wellformed, KeptIsWhole
<1>6. CASE Ends(t)
  BY <1>1, <1>3, <1>4, <1>6, EndsStep DEF Ends, BackupInv, Wellformed, TypeOK
<1>7. CASE Goes(t, "record")
  <2> DEFINE j == [thread[t] EXCEPT !.pc = "record"]
  <2>1. /\ j.op = thread[t].op /\ j.file = f /\ j.pc = "record"
    BY <1>2 DEF JobTypes
  <2>2. thread' = [thread EXCEPT ![t].pc = "record"]
    BY <1>7 DEF Goes
  <2> HIDE DEF j
  <2>3. ArchiveJobOK(j, archive, sealed', partial', dir)
    BY <1>2, <2>1 DEF ArchiveJobOK, MakingOK, TakingOK, HoldsName, Taking, Making
  <2> QED
    BY <1>1, <1>2, <1>3, <1>4, <1>5, <2>2, <2>3, GoesStep DEF j, Making, BackupInv, Wellformed, TypeOK
<1> QED
  BY <1>6, <1>7 DEF Unlink

LEMMA RecordStep == ASSUME BackupInv, NEW t \in Threads, Record(t) PROVE BackupInv'
<1>1. /\ At(t, "record") /\ thread' = [thread EXCEPT ![t] = None]
      /\ UNCHANGED <<storage, archive, partial, sealed, dir>>
      /\ ledger' = ledger \cup {thread[t].op}
  BY DEF Record, Ends, files
<1>2. thread[t].op \in Ops
  BY <1>1, MakingFacts DEF Making, JobTypes
<1>3. \A u \in Threads \ {t} : thread[u] # None => HoldsName(thread[u], partial')
  BY <1>1 DEF BackupInv, JobsOK
<1> QED
  BY <1>1, <1>2, <1>3, EndsStep DEF BackupInv, Wellformed, TypeOK

-----------------------------------------------------------------------------
(* Restoring one. *)

\* What a job that takes an archive back has.
LEMMA TakingFacts ==
  ASSUME BackupInv, NEW t \in Threads, NEW pc \in Taking, At(t, pc)
  PROVE  /\ thread[t] # None /\ thread[t].pc = pc /\ thread[t] \in JobTypes
         /\ Asked(t).kind = "restore" /\ Asked(t).from \in Places /\ Asked(t).to \in Directories
         /\ pc = "database" => sealed[Asked(t).from] \in Begun
         /\ pc # "database" => thread[t].file \in Begun /\ dir[Asked(t).to] \in Restored
<1>1. thread[t] # None /\ thread[t].pc = pc /\ TakingOK(thread[t], sealed, dir)
  BY DEF At, BackupInv, JobsOK
<1>2. thread[t] \in JobTypes
  BY <1>1 DEF BackupInv, Wellformed, TypeOK, JobTypes
<1>3. /\ Asked(t).kind = "restore" /\ thread[t].op \in Ops
      /\ Asked(t).from \in Places /\ Asked(t).to \in Directories
  BY <1>1, <1>2, RequestTypes DEF TakingOK, Asked, JobTypes
<1> QED
  BY <1>1, <1>2, <1>3 DEF TakingOK, Asked, JobTypes, BackupInv, Wellformed, TypeOK

\* A step of a restore changes a directory at most, and empties none.
LEMMA TakesStep ==
  ASSUME BackupInv, NEW t \in Threads, NEW j \in JobTypes \cup {None},
         thread' = [thread EXCEPT ![t] = j],
         j # None => j.pc \in Taking /\ TakingOK(j, sealed, dir'),
         UNCHANGED <<storage, files>>, ledger' \subseteq Ops,
         dir' \in [Directories -> Restored \cup {None}], Extracts',
         \A d \in Directories : dir[d] \in Restored => dir'[d] \in Restored
  PROVE  BackupInv'
<1>1. /\ UNCHANGED <<archive, partial, sealed>> /\ Begun' = Begun
  BY DEF files, Begun
<1>2. TypeOK'
  <2>1. thread' \in [Threads -> JobTypes' \cup {None}]
    BY <1>1 DEF BackupInv, Wellformed, TypeOK, JobTypes
  <2> QED
    BY <2>1, <1>1 DEF BackupInv, Wellformed, TypeOK, JobTypes, storage
<1>3. SealedIsConsistent' /\ KeptIsWhole'
  BY <1>1 DEF BackupInv, Wellformed, SealedIsConsistent, KeptIsWhole
<1>4. j # None => ArchiveJobOK(j, archive', sealed', partial', dir') /\ j.pc \notin Making
  BY <1>1 DEF ArchiveJobOK, MakingOK, HoldsName, Making, Taking
<1>5. ASSUME NEW u \in Threads \ {t}, thread[u] # None
      PROVE  ArchiveJobOK(thread[u], archive', sealed', partial', dir')
  <2>1. ArchiveJobOK(thread[u], archive, sealed, partial, dir)
    BY <1>5 DEF BackupInv, JobsOK, ArchiveJobOK
  <2>2. thread[u].op \in Ops
    BY <1>5 DEF BackupInv, Wellformed, TypeOK
  <2>3. TakingOK(thread[u], sealed, dir')
    BY <2>1, <2>2, RequestTypes DEF ArchiveJobOK, TakingOK
  <2> QED
    BY <2>1, <2>3, <1>1 DEF ArchiveJobOK
<1> QED
  BY <1>2, <1>3, <1>4, <1>5, ArchiveJobStep, Together

LEMMA BeginRestoreStep ==
  ASSUME BackupInv, NEW t \in Threads, NEW op \in Ops, BeginRestore(t, op)
  PROVE  BackupInv'
<1> DEFINE j == [op |-> op, pc |-> "database", file |-> None]
<1>1. j \in JobTypes
  BY DEF JobTypes, Taking
<1>2. TakingOK(j, sealed, dir')
  BY DEF BeginRestore, TakingOK
<1> QED
  BY <1>1, <1>2, TakesStep DEF BeginRestore, Taking, BackupInv, Wellformed, TypeOK, Extracts

LEMMA ExtractDatabaseStep == ASSUME BackupInv, NEW t \in Threads, ExtractDatabase(t) PROVE BackupInv'
<1> DEFINE f   == sealed[Asked(t).from]
           d   == Asked(t).to
           out == [named |-> archive[f].named, blobs |-> Extracted(t), intact |-> Intact(t)]
           j   == [thread[t] EXCEPT !.pc = "blobs", !.file = f]
<1>1. /\ At(t, "database") /\ UNCHANGED <<storage, files>> /\ ledger' = ledger
      /\ dir' = [dir EXCEPT ![d] = out]
  BY DEF ExtractDatabase
<1>2. /\ thread[t] # None /\ thread[t] \in JobTypes /\ f \in Begun /\ d \in Directories
      /\ Asked(t).kind = "restore"
  BY <1>1, TakingFacts DEF Taking
<1>3. out \in Restored /\ out.blobs = out.intact
  BY <1>2 DEF Extracted, Intact, Restored, Contents, BackupInv, Wellformed, TypeOK, Begun, Extracts
<1>4. /\ j \in JobTypes /\ j.op = thread[t].op /\ j.pc = "blobs" /\ j.file = f
  BY <1>2 DEF JobTypes, Taking
<1>5. thread' = [thread EXCEPT ![t] = None] \/ thread' = [thread EXCEPT ![t] = j]
  BY <1>2 DEF ExtractDatabase, Ends, BackupInv, Wellformed, TypeOK
<1> HIDE DEF out, j
<1>6. /\ dir' \in [Directories -> Restored \cup {None}] /\ Extracts'
      /\ dir'[d] = out /\ \A e \in Directories : e # d => dir'[e] = dir[e]
  BY <1>1, <1>2, <1>3 DEF BackupInv, Wellformed, TypeOK, Extracts
<1>7. TakingOK(j, sealed, dir')
  BY <1>2, <1>3, <1>4, <1>6, BegunNumbers DEF TakingOK, Asked, BackupInv, Wellformed
<1> QED
  BY <1>1, <1>3, <1>4, <1>5, <1>6, <1>7, TakesStep DEF Taking, BackupInv, Wellformed, TypeOK

LEMMA ExtractBlobsStep == ASSUME BackupInv, NEW t \in Threads, ExtractBlobs(t) PROVE BackupInv'
<1> DEFINE f    == thread[t].file
           d    == Asked(t).to
           out  == IF Verified(f) THEN archive[f].blobs ELSE archive[f].intact
           next == [dir[d] EXCEPT !.blobs = @ \cup out, !.intact = @ \cup archive[f].intact]
           j    == [thread[t] EXCEPT !.pc = "check"]
<1>1. /\ At(t, "blobs") /\ UNCHANGED <<storage, files>> /\ ledger' = ledger
      /\ dir' = [dir EXCEPT ![d].blobs = @ \cup out, ![d].intact = @ \cup archive[f].intact]
  BY DEF ExtractBlobs
<1>2. /\ thread[t] # None /\ thread[t] \in JobTypes /\ f \in Begun /\ d \in Directories
      /\ Asked(t).kind = "restore" /\ dir[d] \in Restored
  BY <1>1, TakingFacts DEF Taking
<1>3. archive[f] \in Contents /\ out = archive[f].intact
  BY <1>2 DEF BackupInv, Wellformed, TypeOK, Begun, Verified
<1>4. dir[d].blobs = dir[d].intact
  BY <1>2, BackupAssumption DEF BackupInv, Extracts, Restored
<1>5. next \in Restored /\ next.blobs = next.intact
  BY <1>2, <1>3, <1>4 DEF Restored, Contents
<1>6. dir' = [dir EXCEPT ![d] = next]
  BY <1>1
<1>7. /\ j \in JobTypes /\ j.op = thread[t].op /\ j.pc = "check" /\ j.file = f
  BY <1>2 DEF JobTypes, Taking
<1>8. thread' = [thread EXCEPT ![t] = None] \/ thread' = [thread EXCEPT ![t] = j]
  BY <1>2 DEF ExtractBlobs, Ends, Goes, BackupInv, Wellformed, TypeOK
<1> HIDE DEF next, j, out
<1>9. /\ dir' \in [Directories -> Restored \cup {None}] /\ Extracts'
      /\ dir'[d] = next /\ \A e \in Directories : e # d => dir'[e] = dir[e]
  BY <1>2, <1>5, <1>6 DEF BackupInv, Wellformed, TypeOK, Extracts
<1>10. TakingOK(j, sealed, dir')
  BY <1>2, <1>5, <1>7, <1>9, BegunNumbers DEF TakingOK, Asked, BackupInv, Wellformed
<1> QED
  BY <1>1, <1>5, <1>7, <1>8, <1>9, <1>10, TakesStep DEF Taking, BackupInv, Wellformed, TypeOK

LEMMA CheckRestoredStep == ASSUME BackupInv, NEW t \in Threads, CheckRestored(t) PROVE BackupInv'
<1>1. /\ At(t, "check") /\ UNCHANGED <<storage, files, dir>>
      /\ ledger' \subseteq ledger \cup {thread[t].op}
      /\ thread' = [thread EXCEPT ![t] = None]
  BY DEF CheckRestored, Ends
<1>2. thread[t].op \in Ops
  BY <1>1, TakingFacts DEF Taking, JobTypes
<1> QED
  BY <1>1, <1>2, TakesStep DEF BackupInv, Wellformed, TypeOK, Extracts

-----------------------------------------------------------------------------
(* Every step, and what it may do. *)

LEMMA ArchivesGoOn == BackupInv /\ [Next]_vars => BackupInv'
<1> SUFFICES ASSUME BackupInv, [Next]_vars PROVE BackupInv'
  OBVIOUS
<1>1. CASE UNCHANGED vars
  BY <1>1, StorageStep DEF vars, storage, BackupInv, Wellformed, TypeOK
<1>2. CASE Next
  <2>1. CASE (\E b \in Blobs : Put(b) \/ Delete(b) \/ Damage(b)) \/ Commit
    BY <2>1, WritesStep
  <2>2. CASE Stop
    BY <2>2, StopStep
  <2>3. ASSUME NEW t \in Threads,
               \/ \E op \in Ops : Begin(t, op) \/ BeginRestore(t, op)
               \/ Snapshot(t) \/ ListBlobs(t) \/ OpenPartial(t) \/ WriteArchive(t)
               \/ NameArchive(t) \/ Unlink(t) \/ Record(t)
               \/ ExtractDatabase(t) \/ ExtractBlobs(t) \/ CheckRestored(t)
        PROVE  BackupInv'
    BY <2>3, BeginStep, BeginRestoreStep, SnapshotStep, ListBlobsStep, OpenPartialStep,
       WriteArchiveStep, NameArchiveStep, UnlinkStep, RecordStep, ExtractDatabaseStep,
       ExtractBlobsStep, CheckRestoredStep
  <2> QED
    BY <1>2, <2>1, <2>2, <2>3 DEF Next
<1> QED
  BY <1>1, <1>2

\* Only a restore that was checked is recorded as one, and its directory has all
\* the bytes: the job has a directory, and there a name stands for its bytes.
LEMMA RestoresWholeStep == ASSUME BackupInv, Next PROVE RestoresWhole
<1> SUFFICES ASSUME NEW op \in ledger' \ ledger, Requests[op].kind = "restore"
             PROVE  dir[Requests[op].to].named \subseteq dir[Requests[op].to].intact
  BY DEF RestoresWhole
<1>1. PICK t \in Threads : Record(t) \/ CheckRestored(t)
  BY DEF Next, Put, Delete, Damage, Commit, Stop, Begin, BeginRestore, Snapshot, ListBlobs, OpenPartial,
         WriteArchive, NameArchive, Unlink, ExtractDatabase, ExtractBlobs
<1>2. CASE Record(t)
  <2>1. At(t, "record") /\ op = thread[t].op
    BY <1>2 DEF Record
  <2> QED
    BY <2>1, MakingFacts DEF Making, Asked
<1>3. CASE CheckRestored(t)
  <2>1. At(t, "check") /\ op = thread[t].op /\ dir[Asked(t).to].named \subseteq dir[Asked(t).to].blobs
    BY <1>3 DEF CheckRestored
  <2>2. dir[Asked(t).to] \in Restored /\ Asked(t).to \in Directories
    BY <2>1, TakingFacts DEF Taking
  <2>3. dir[Asked(t).to].blobs = dir[Asked(t).to].intact
    BY <2>2, BackupAssumption DEF BackupInv, Extracts, Restored
  <2> QED
    BY <2>1, <2>3 DEF Asked
<1> QED
  BY <1>1, <1>2, <1>3

\* A destination is named anew only by a request that may overwrite it: the
\* others find that it exists.
LEMMA ReplacesAskedStep == ASSUME BackupInv, Next PROVE ReplacesAsked
<1> SUFFICES ASSUME NEW p \in Places, sealed[p] # None, sealed'[p] # sealed[p]
             PROVE  \E t \in Threads : At(t, "name") /\ Asked(t).over /\ Asked(t).to = p
  BY DEF ReplacesAsked
<1>1. PICK t \in Threads : NameArchive(t)
  BY DEF Next, Put, Delete, Damage, Commit, Stop, Begin, BeginRestore, Snapshot, ListBlobs, OpenPartial,
         WriteArchive, Unlink, Record, ExtractDatabase, ExtractBlobs, CheckRestored, files
<1>2. /\ At(t, "name")
      /\ Asked(t).over \/ sealed[Asked(t).to] = None
      /\ sealed' = [sealed EXCEPT ![Asked(t).to] = partial[Asked(t).to]]
  BY <1>1 DEF NameArchive, Names
<1>3. Asked(t).to = p
  BY <1>2 DEF BackupInv, Wellformed, TypeOK
<1> QED
  BY <1>2, <1>3

-----------------------------------------------------------------------------

\* Files and rows stay well formed, an archive never names a blob it does not
\* list, a destination nobody may overwrite never names an unfinished file, a
\* restore that is recorded is whole, and no archive is replaced unasked: for any
\* number of threads, requests, destinations, blobs and stops.
THEOREM ArchivesAreKept == Spec => ArchivesHold
<1>1. BackupInv /\ [Next]_vars => [Wellformed' /\ RestoresWhole /\ ReplacesAsked]_vars
  <2> SUFFICES ASSUME BackupInv, Next PROVE Wellformed' /\ RestoresWhole /\ ReplacesAsked
    OBVIOUS
  <2> QED
    BY ArchivesGoOn, RestoresWholeStep, ReplacesAskedStep DEF BackupInv
<1>2. BackupInv => Wellformed
  BY DEF BackupInv
<1>3. Spec => []BackupInv
  BY ArchivesStart, ArchivesGoOn, PTL DEF Spec
<1>4. Spec => [][Wellformed' /\ RestoresWhole /\ ReplacesAsked]_vars
  BY <1>1, <1>3, PTL DEF Spec
<1>5. Init => Wellformed
  BY ArchivesStart, <1>2
<1> QED
  BY <1>4, <1>5, PTL DEF Spec, ArchivesHold

-----------------------------------------------------------------------------
(* The database: what Upgrade promises.                                      *)

StartRecords ==
  [release : Releases, newest : Nat,
   step : {"look", "connect", "copy", "rename", "migrate", "open"}]

\* The versions of the schema are added in order, without a gap.
Reached == {1 .. k : k \in 0 .. Latest}

Files == [there : BOOLEAN, holds : {None} \cup SUBSET Versions]

UpgradeTypeOK ==
  /\ applied \in Reached
  /\ image \in [Versions -> Files] /\ copying \in [Versions -> Files]
  /\ start \in StartRecords \cup {None} /\ starts \in Nat
  /\ upgraded \subseteq Versions

\* A start that makes a backup has not changed the schema it found, which its
\* own release knows.
CopyInv ==
  start # None /\ start.step \in {"look", "connect", "copy", "rename"} =>
    /\ start.newest \in Versions /\ applied = 1 .. start.newest
    /\ start.step = "rename" => copying[start.newest] = File(applied)

\* A start that adds versions to a schema that was upgraded before, or is now,
\* has the backup of it.
BackedUp ==
  /\ \A v \in upgraded : v <= Newest(applied)
  /\ StartAt("migrate") /\ (1 .. start.release) \ applied # {} /\ Newest(applied) \in upgraded =>
       image[Newest(applied)].there

UpgradeInv ==
  /\ UpgradeTypeOK /\ CopyInv /\ BackedUp /\ UpgradeIsSafe
  /\ start # None => applied \subseteq 1 .. start.release

-----------------------------------------------------------------------------
(* Intervals of versions. *)

LEMMA NewestOfPrefix ==
  ASSUME NEW k \in Nat
  PROVE  Newest(1 .. k) = k
<1>1. CASE k = 0
  <2>1. 1 .. k = {}
    BY <1>1
  <2> QED
    BY <1>1, <2>1 DEF Newest
<1>2. CASE k # 0
  <2>1. k \in 1 .. k /\ \A w \in 1 .. k : w <= k
    BY <1>2
  <2>2. \A v \in 1 .. k : (\A w \in 1 .. k : w <= v) => v = k
    BY <2>1
  <2>3. Newest(1 .. k) = CHOOSE v \in 1 .. k : \A w \in 1 .. k : w <= v
    BY <2>1 DEF Newest
  <2> QED
    BY <2>1, <2>2, <2>3
<1> QED
  BY <1>1, <1>2

LEMMA LeastMissing ==
  ASSUME NEW k \in Nat, NEW release \in Nat, (1 .. release) \ (1 .. k) # {}
  PROVE  /\ k < release
         /\ (CHOOSE v \in (1 .. release) \ (1 .. k) : \A w \in (1 .. release) \ (1 .. k) : v <= w)
              = k + 1
<1> DEFINE pending == (1 .. release) \ (1 .. k)
<1>1. PICK missing \in 1 .. release : missing \notin 1 .. k
  OBVIOUS
<1>2. k + 1 \in pending /\ \A w \in pending : k + 1 <= w
  BY <1>1
<1>3. \A v \in pending : (\A w \in pending : v <= w) => v = k + 1
  BY <1>2
<1> HIDE DEF pending
<1>4. (CHOOSE v \in pending : \A w \in pending : v <= w) = k + 1
  BY <1>2, <1>3
<1> QED
  BY <1>1, <1>4 DEF pending

LEMMA NewestApplied ==
  ASSUME UpgradeTypeOK
  PROVE  Newest(applied) \in 0 .. Latest /\ applied = 1 .. Newest(applied)
<1>1. PICK k \in 0 .. Latest : applied = 1 .. k
  BY DEF UpgradeTypeOK, Reached
<1>2. k \in Nat
  BY UpgradeAssumption
<1> QED
  BY <1>1, <1>2, NewestOfPrefix

LEMMA Prefix ==
  ASSUME NEW k \in 0 .. Latest
  PROVE  1 .. k \in Reached /\ 1 .. k \in SUBSET Versions
BY UpgradeAssumption DEF Reached, Versions

-----------------------------------------------------------------------------
(* The steps of a start. *)

LEMMA UpgradeInitInv == UpgradeInit => UpgradeInv
<1> SUFFICES ASSUME UpgradeInit PROVE UpgradeInv
  OBVIOUS
<1>1. 0 \in 0 .. Latest /\ 1 .. 0 = {} /\ Newest({}) = 0
  BY UpgradeAssumption DEF Newest
<1>2. Absent \in Files
  BY DEF Absent, Files
<1>3. applied \in Reached
  BY <1>1, Prefix DEF UpgradeInit
<1> QED
  BY <1>1, <1>2, <1>3 DEF UpgradeInit, UpgradeInv, UpgradeTypeOK, CopyInv, BackedUp, UpgradeIsSafe,
                          StartAt, Absent

LEMMA ReadSchemaStep ==
  ASSUME UpgradeInv, NEW release \in Releases, ReadSchema(release)
  PROVE  UpgradeInv'
<1> DEFINE newest  == Newest(applied)
           pending == (1 .. release) \ applied
<1> USE DEF UpgradeInv
<1>1. newest \in 0 .. Latest /\ applied = 1 .. newest /\ release \in 1 .. Latest
  BY NewestApplied, UpgradeAssumption
<1>2. newest \in Nat /\ release \in Nat
  BY <1>1, UpgradeAssumption
<1> HIDE DEF newest
<1>3. CASE newest > release
  BY <1>3 DEF newest, ReadSchema, UpgradeTypeOK, CopyInv, BackedUp, UpgradeIsSafe, StartAt
<1>4. CASE ~ (newest > release)
  <2>1. /\ start' = [release |-> release, newest |-> newest,
                     step |-> IF pending # {} /\ newest > 0 THEN "look" ELSE "migrate"]
        /\ upgraded' = IF pending # {} /\ newest > 0 THEN upgraded \cup {newest} ELSE upgraded
    BY <1>4 DEF newest, ReadSchema
  <2>2. start' \in StartRecords
    BY <1>2, <2>1 DEF StartRecords, UpgradeTypeOK
  <2>3. newest > 0 => newest \in Versions
    BY <1>1, UpgradeAssumption DEF Versions
  <2>4. UpgradeTypeOK'
    BY <2>1, <2>2, <2>3 DEF ReadSchema, UpgradeTypeOK
  <2>5. CopyInv'
    BY <1>1, <2>1, <2>3 DEF ReadSchema, CopyInv
  <2>6. BackedUp'
    <3>1. \A v \in upgraded' : v <= newest
      BY <1>2, <2>1 DEF newest, BackedUp
    <3>2. \A v \in upgraded : v >= 1
      BY UpgradeAssumption DEF UpgradeTypeOK, Versions
    <3>3. ~ (pending # {} /\ newest > 0) /\ pending # {} => newest \notin upgraded'
      BY <1>2, <2>1, <3>2
    <3> QED
      BY <2>1, <3>1, <3>3 DEF newest, ReadSchema, BackedUp, StartAt
  <2>7. UpgradeIsSafe'
    BY <1>2, <2>1 DEF newest, ReadSchema, UpgradeIsSafe, StartAt
  <2>8. applied \subseteq 1 .. release
    BY <1>1, <1>2, <1>4
  <2> QED
    BY <2>1, <2>4, <2>5, <2>6, <2>7, <2>8 DEF ReadSchema
<1> QED
  BY <1>3, <1>4

\* Steps that only move a start on or end it.
LEMMA StartMoves ==
  ASSUME UpgradeTypeOK, start # None, NEW step \in {"look", "connect", "copy", "rename", "migrate", "open"},
         Steps(step)
  PROVE  start' \in StartRecords /\ start' = [start EXCEPT !.step = step]
BY DEF UpgradeTypeOK, StartRecords, Steps

LEMMA LookForBackupStep ==
  ASSUME UpgradeInv, LookForBackup
  PROVE  UpgradeInv'
<1> USE DEF UpgradeInv
<1>1. start # None /\ start.step = "look" /\ start \in StartRecords
  BY DEF LookForBackup, StartAt, UpgradeTypeOK
<1>2. start' \in StartRecords
      /\ start' = [start EXCEPT !.step = IF image[start.newest].there THEN "migrate" ELSE "connect"]
  BY <1>1, StartMoves DEF LookForBackup
<1>3. /\ start'.newest = start.newest /\ start'.release = start.release
      /\ start'.step = IF image[start.newest].there THEN "migrate" ELSE "connect"
  BY <1>1, <1>2 DEF StartRecords
<1>4. start.newest \in Versions /\ applied = 1 .. start.newest
  BY <1>1 DEF CopyInv
<1>5. Newest(applied) = start.newest
  BY <1>4, NewestOfPrefix, UpgradeAssumption DEF Versions
<1>6. UpgradeTypeOK'
  BY <1>2 DEF LookForBackup, UpgradeTypeOK
<1>7. CopyInv'
  BY <1>3, <1>4 DEF LookForBackup, CopyInv
<1>8. BackedUp'
  BY <1>3, <1>5 DEF LookForBackup, BackedUp, StartAt
<1>9. UpgradeIsSafe'
  BY <1>3 DEF LookForBackup, UpgradeIsSafe, StartAt
<1> QED
  BY <1>1, <1>3, <1>6, <1>7, <1>8, <1>9 DEF LookForBackup

LEMMA CopyingStep ==
  ASSUME UpgradeInv, ConnectCopy \/ Copy
  PROVE  UpgradeInv'
<1> USE DEF UpgradeInv
<1>1. start # None /\ start.step \in {"connect", "copy"} /\ start \in StartRecords
  BY DEF ConnectCopy, Copy, StartAt, UpgradeTypeOK
<1>2. PICK step \in {"copy", "rename"}, content \in {None, applied} :
        /\ Steps(step) /\ copying' = [copying EXCEPT ![start.newest] = File(content)]
        /\ step = "rename" => content = applied
  BY DEF ConnectCopy, Copy
<1>3. UNCHANGED <<applied, image, starts, upgraded>>
  BY DEF ConnectCopy, Copy
<1>4. start' \in StartRecords /\ start' = [start EXCEPT !.step = step]
  BY <1>1, <1>2, StartMoves
<1>5. start'.newest = start.newest /\ start'.release = start.release /\ start'.step = step
  BY <1>1, <1>4 DEF StartRecords
<1>6. start.newest \in Versions /\ applied = 1 .. start.newest
  BY <1>1 DEF CopyInv
<1>7. applied \subseteq Versions
  BY <1>6, UpgradeAssumption DEF Versions
<1>8. File(content) \in Files
  BY <1>2, <1>7 DEF File, Files
<1>9. copying' \in [Versions -> Files] /\ copying'[start.newest] = File(content)
  BY <1>2, <1>6, <1>8 DEF UpgradeTypeOK
<1>10. UpgradeTypeOK'
  BY <1>3, <1>4, <1>9 DEF UpgradeTypeOK
<1>11. CopyInv'
  BY <1>2, <1>3, <1>5, <1>6, <1>9 DEF CopyInv, File
<1>12. BackedUp' /\ UpgradeIsSafe'
  BY <1>3, <1>5 DEF BackedUp, UpgradeIsSafe, StartAt
<1> QED
  BY <1>1, <1>3, <1>5, <1>10, <1>11, <1>12

LEMMA RenameCopyStep ==
  ASSUME UpgradeInv, RenameCopy
  PROVE  UpgradeInv'
<1> USE DEF UpgradeInv
<1>1. start # None /\ start.step = "rename" /\ start \in StartRecords
  BY DEF RenameCopy, StartAt, UpgradeTypeOK
<1>2. start' \in StartRecords /\ start' = [start EXCEPT !.step = "migrate"]
  BY <1>1, StartMoves DEF RenameCopy
<1>3. start'.newest = start.newest /\ start'.release = start.release /\ start'.step = "migrate"
  BY <1>1, <1>2 DEF StartRecords
<1>4. /\ start.newest \in Versions /\ applied = 1 .. start.newest
      /\ copying[start.newest] = File(applied)
  BY <1>1 DEF CopyInv
<1>5. Newest(applied) = start.newest
  BY <1>4, NewestOfPrefix, UpgradeAssumption DEF Versions
<1>6. copying[start.newest] \in Files /\ Absent \in Files
  BY <1>4 DEF UpgradeTypeOK, Absent, Files
<1>7. UpgradeTypeOK'
  BY <1>2, <1>6 DEF RenameCopy, UpgradeTypeOK
<1>8. \A v \in Versions :
        image'[v] = IF v = start.newest THEN copying[start.newest] ELSE image[v]
  BY DEF RenameCopy, UpgradeTypeOK
<1>9. UNCHANGED <<applied, starts, upgraded>>
  BY DEF RenameCopy
<1>10. image'[start.newest].there /\ image'[start.newest].holds = 1 .. start.newest
  BY <1>4, <1>8 DEF File
<1>11. CopyInv'
  BY <1>3 DEF CopyInv
<1>12. BackedUp'
  BY <1>3, <1>5, <1>9, <1>10 DEF BackedUp
<1>13. UpgradeIsSafe'
  <2>1. \A v \in Versions : image'[v].there => image'[v].holds = 1 .. v
    BY <1>8, <1>10 DEF UpgradeIsSafe
  <2>2. \A v \in upgraded : Newest(applied) > v => image'[v].there
    BY <1>8, <1>10 DEF UpgradeIsSafe, UpgradeTypeOK
  <2> QED
    BY <1>3, <1>9, <2>1, <2>2 DEF UpgradeIsSafe, StartAt
<1> QED
  BY <1>1, <1>3, <1>7, <1>9, <1>11, <1>12, <1>13

\* A start that ends leaves the files, or no copy under its temporary name.
LEMMA EndingStep ==
  ASSUME UpgradeInv, CopyFails \/ StartEnds
  PROVE  UpgradeInv'
<1> USE DEF UpgradeInv
<1>1. start' = None /\ UNCHANGED <<applied, image, starts, upgraded>>
  BY DEF CopyFails, StartEnds
<1>2. Absent \in Files
  BY DEF Absent, Files
<1>3. copying' \in [Versions -> Files]
  BY <1>2 DEF CopyFails, StartEnds, UpgradeTypeOK
<1> QED
  BY <1>1, <1>3 DEF UpgradeTypeOK, CopyInv, BackedUp, UpgradeIsSafe, StartAt

LEMMA MigrateStep ==
  ASSUME UpgradeInv, Migrate
  PROVE  UpgradeInv'
<1> DEFINE newest  == Newest(applied)
           pending == (1 .. start.release) \ applied
<1> USE DEF UpgradeInv
<1>1. start # None /\ start.step = "migrate" /\ start \in StartRecords
  BY DEF Migrate, StartAt, UpgradeTypeOK
<1>2. newest \in 0 .. Latest /\ applied = 1 .. newest
  BY NewestApplied
<1> HIDE DEF newest
<1>3. start.release \in 1 .. Latest /\ start.release \in Nat /\ newest \in Nat
  <2>1. start.release \in Releases
    BY <1>1 DEF StartRecords
  <2>2. start.release \in 1 .. Latest
    BY <2>1, UpgradeAssumption
  <2> QED
    BY <1>2, <2>2, UpgradeAssumption
<1>4. CASE pending = {}
  <2>1. start' \in StartRecords /\ start' = [start EXCEPT !.step = "open"] /\ UNCHANGED applied
    BY <1>1, <1>4, StartMoves DEF Migrate
  <2>2. start'.release = start.release /\ start'.step = "open"
    BY <1>1, <2>1 DEF StartRecords
  <2>3. applied = 1 .. start.release
    BY <1>1, <1>4
  <2> QED
    BY <1>1, <2>1, <2>2, <2>3 DEF Migrate, UpgradeTypeOK, CopyInv, BackedUp, UpgradeIsSafe, StartAt
<1>5. CASE pending # {}
  <2>1. newest < start.release /\ applied' = applied \cup {newest + 1}
    <3> DEFINE release == start.release
    <3>1. applied' = applied \cup {CHOOSE v \in pending : \A w \in pending : v <= w}
      BY <1>5 DEF Migrate
    <3>2. release \in Nat /\ pending = (1 .. release) \ (1 .. newest)
      BY <1>2, <1>3
    <3> HIDE DEF release, pending
    <3>3. newest < release /\ (CHOOSE v \in pending : \A w \in pending : v <= w) = newest + 1
      BY <1>3, <1>5, <3>2, LeastMissing
    <3> QED
      BY <3>1, <3>3 DEF release
  <2>2. applied' = 1 .. newest + 1 /\ newest + 1 \in 0 .. Latest
    <3>1. applied' = (1 .. newest) \cup {newest + 1}
      BY <1>2, <2>1
    <3> QED
      BY <1>3, <2>1, <3>1, UpgradeAssumption
  <2>3. Newest(applied') = newest + 1
    BY <1>3, <2>2, NewestOfPrefix
  <2>4. UNCHANGED <<start, image, copying, starts, upgraded>>
    BY <1>5 DEF Migrate
  <2>5. UpgradeTypeOK'
    BY <2>2, <2>4, Prefix DEF UpgradeTypeOK
  <2>6. CopyInv'
    BY <1>1, <2>4 DEF CopyInv
  <2>7. \A v \in upgraded : v \in Nat /\ v <= newest
    BY UpgradeAssumption DEF newest, BackedUp, UpgradeTypeOK, Versions
  <2>8. BackedUp'
    BY <1>3, <2>3, <2>4, <2>7 DEF BackedUp, StartAt
  <2>9. newest \in upgraded => image[newest].there
    BY <1>1, <1>5 DEF newest, BackedUp, StartAt
  <2>10. \A v \in upgraded : newest + 1 > v => image[v].there
    BY <1>3, <2>7, <2>9 DEF newest, UpgradeIsSafe
  <2>11. UpgradeIsSafe'
    BY <1>1, <2>2, <2>3, <2>4, <2>10 DEF UpgradeIsSafe, StartAt
  <2>12. applied' \subseteq 1 .. start.release
    BY <1>3, <2>1, <2>2
  <2> QED
    BY <2>4, <2>5, <2>6, <2>8, <2>11, <2>12
<1> QED
  BY <1>4, <1>5

LEMMA UpgradeNextInv == UpgradeInv /\ [UpgradeNext]_upgradeVars => UpgradeInv'
<1> SUFFICES ASSUME UpgradeInv, [UpgradeNext]_upgradeVars PROVE UpgradeInv'
  OBVIOUS
<1>1. CASE UNCHANGED upgradeVars
  BY <1>1 DEF upgradeVars, UpgradeInv, UpgradeTypeOK, CopyInv, BackedUp, UpgradeIsSafe, StartAt
<1> QED
  BY <1>1, ReadSchemaStep, LookForBackupStep, CopyingStep, RenameCopyStep, EndingStep, MigrateStep
  DEF UpgradeNext

-----------------------------------------------------------------------------
(* The result. *)

\* "The only way back": whatever releases are started and wherever they stop, a
\* schema that was in use is changed only after the backup named for it holds
\* that very schema, complete and for good (_migrate, _backup_before_migration).
THEOREM UpgradesAreSafe == UpgradeSpec => []UpgradeIsSafe
<1>1. UpgradeInv => UpgradeIsSafe
  BY DEF UpgradeInv
<1> QED
  BY <1>1, UpgradeInitInv, UpgradeNextInv, PTL DEF UpgradeSpec

-----------------------------------------------------------------------------
(* The registry: which folder is whose.                                      *)

\* A binding by which a command that saw this folder at the path may be answered.
Matches(b, path, seen) ==
  IF seen = None THEN Normalized[b.path] = Normalized[path] ELSE b.path = path \/ b.id = seen

\* What a request carries from one of its steps to the next: a candidate that
\* was shown, a project, or the binding by which a target was found.
JobOK(j, known) ==
  /\ j.do \in {"register", "rebind"} => j.p \in Projects /\ j.candidate \in known
  /\ j.do \in {"open", "remove", "row"} => j.p \in Projects
  /\ j.do \in {"row", "state"} => Matches(j.was, j.path, j.seen)

JobInv ==
  /\ job = [c \in Clerks |-> job[c]]
  /\ \A c \in Clerks : job[c] # None => JobOK(job[c], shown)

RegistryInv == OneProjectPerFolder /\ JobInv

-----------------------------------------------------------------------------

LEMMA BindingsOfRegistered ==
  ASSUME RegistryTypeOK, NEW p \in Projects
  PROVE  p \in Registered <=> binding[p] \in Candidates
BY RegistryAssumption DEF RegistryTypeOK, Registered, Candidates

LEMMA RegistryInitInv == RegistryInit => RegistryInv
BY DEF RegistryInit, RegistryInv, JobInv, OneProjectPerFolder, RegistryTypeOK, Registered

\* A request that starts, goes on or ends carries what it should, the others
\* carry what they did.
LEMMA JobStep ==
  ASSUME JobInv, shown \subseteq shown', NEW c \in Clerks, NEW next,
         job' = [job EXCEPT ![c] = next],
         next = None \/ JobOK(next, shown)
  PROVE  JobInv'
<1>1. \A d \in Clerks : job'[d] = IF d = c THEN next ELSE job[d]
  BY DEF JobInv
<1>2. job' = [d \in Clerks |-> job'[d]]
  BY DEF JobInv
<1>3. ASSUME NEW d \in Clerks, job'[d] # None PROVE JobOK(job'[d], shown')
  <2>1. JobOK(job'[d], shown)
    BY <1>1, <1>3 DEF JobInv
  <2> QED
    BY <2>1 DEF JobOK
<1> QED
  BY <1>2, <1>3 DEF JobInv

\* What all steps but the ones below leave alone.
LEMMA RowsUntouched ==
  ASSUME RegistryInv, UNCHANGED <<row, binding>>, disk' = disk,
         archived' \subseteq Projects, current' \in Projects \cup {None},
         shown \subseteq shown', shown' \subseteq Candidates, JobInv'
  PROVE  RegistryInv'
BY DEF RegistryInv, OneProjectPerFolder, RegistryTypeOK, Registered

LEMMA MoveFolderStep ==
  ASSUME RegistryInv, NEW f \in Folders, NEW to \in Paths \cup {None}, MoveFolder(f, to)
  PROVE  RegistryInv'
<1>1. disk' \in [Paths -> Folders \cup {None}]
  BY DEF MoveFolder, RegistryInv, OneProjectPerFolder, RegistryTypeOK
<1> QED
  BY <1>1 DEF MoveFolder, RegistryInv, OneProjectPerFolder, RegistryTypeOK, Registered, JobInv

LEMMA ProbeStep ==
  ASSUME RegistryInv, NEW path \in Paths, NEW but \in Projects \cup {None}, Probe(path, but)
  PROVE  RegistryInv'
<1>1. Found(path) \in Candidates
  BY DEF Probe, Found, Candidates, RegistryInv, OneProjectPerFolder, RegistryTypeOK
<1>2. shown \subseteq shown' /\ shown' \subseteq Candidates
  BY <1>1 DEF Probe, RegistryInv, OneProjectPerFolder, RegistryTypeOK
<1>3. JobInv'
  BY <1>2 DEF Probe, RegistryInv, JobInv, JobOK
<1> QED
  BY <1>2, <1>3, RowsUntouched DEF Probe, RegistryInv, OneProjectPerFolder, RegistryTypeOK

LEMMA StartStep ==
  ASSUME RegistryInv, NEW c \in Clerks, NEW request, JobOK(request, shown), Starts(c, request)
  PROVE  RegistryInv'
<1>1. JobInv'
  BY JobStep DEF Starts, RegistryInv
<1> QED
  BY <1>1, RowsUntouched DEF Starts, RegistryInv, OneProjectPerFolder, RegistryTypeOK

LEMMA GoOnStep ==
  ASSUME RegistryInv, NEW c \in Clerks, NEW request, JobOK(request, shown), GoesOn(c, request)
  PROVE  RegistryInv'
<1>1. JobInv'
  BY JobStep DEF GoesOn, RegistryInv
<1> QED
  BY <1>1, RowsUntouched DEF GoesOn, RegistryInv, OneProjectPerFolder, RegistryTypeOK

\* A request that ends and wrote at most the setting.
LEMMA EndStep ==
  ASSUME RegistryInv, NEW c \in Clerks, Finishes(c),
         UNCHANGED <<row, binding, archived>>, current' \in Projects \cup {None}
  PROVE  RegistryInv'
<1>1. JobInv'
  BY JobStep DEF Finishes, RegistryInv
<1> QED
  BY <1>1, RowsUntouched DEF Finishes, RegistryInv, OneProjectPerFolder, RegistryTypeOK

\* The transaction looks again: no other project has the path or the identity.
LEMMA BindStep ==
  ASSUME RegistryInv, NEW c \in Clerks, Bind(c)
  PROVE  RegistryInv'
<1> DEFINE p == job[c].p
           candidate == job[c].candidate
<1>1. p \in Projects /\ candidate \in shown
  BY DEF Bind, Doing, RegistryInv, JobInv, JobOK
<1>2. JobInv'
  BY JobStep DEF Bind, Finishes, RegistryInv
<1>3. candidate \in Candidates /\ candidate # None
  BY <1>1, RegistryAssumption DEF RegistryInv, OneProjectPerFolder, RegistryTypeOK, Candidates
<1>4. \A q \in Projects : /\ binding'[q] = IF q = p THEN candidate ELSE binding[q]
                          /\ row'[q] = IF q = p THEN "registered" ELSE row[q]
  BY DEF Bind, RegistryInv, OneProjectPerFolder, RegistryTypeOK
<1>5. RegistryTypeOK'
  <2>1. row' \in [Projects -> {"none", "registered", "removed", "deleted"}]
        /\ binding' \in [Projects -> Candidates \cup {None}]
    BY <1>3 DEF Bind, RegistryInv, OneProjectPerFolder, RegistryTypeOK
  <2> QED
    BY <1>3, <1>4, <2>1 DEF Bind, Finishes, RegistryInv, OneProjectPerFolder, RegistryTypeOK
<1>6. \A q \in Projects \ {p} : binding[q] # None =>
        binding[q].path # candidate.path /\ binding[q].id # candidate.id
  BY DEF Bind, StillFree, Conflicts
<1>7. \A q \in Registered' : q = p \/ q \in Registered
  BY <1>4 DEF Registered
<1>8. \A q \in Registered : binding[q] # None /\ binding[q] \in shown
  BY DEF RegistryInv, OneProjectPerFolder, RegistryTypeOK, Registered
<1>9. \A q \in Registered' : binding'[q] \in shown'
  BY <1>1, <1>4, <1>7, <1>8 DEF Bind, Finishes, Registered
<1>10. ASSUME NEW q \in Registered', NEW r \in Registered', q # r
       PROVE  binding'[q].path # binding'[r].path /\ binding'[q].id # binding'[r].id
  <2>1. q \in Projects /\ r \in Projects
    BY DEF Registered
  <2>2. CASE q = p
    BY <1>4, <1>6, <1>7, <1>8, <1>10, <2>1, <2>2
  <2>3. CASE r = p
    BY <1>4, <1>6, <1>7, <1>8, <1>10, <2>1, <2>3
  <2>4. CASE q # p /\ r # p
    BY <1>4, <1>7, <1>10, <2>1, <2>4 DEF RegistryInv, OneProjectPerFolder
  <2> QED
    BY <2>2, <2>3, <2>4
<1> QED
  BY <1>2, <1>5, <1>9, <1>10 DEF RegistryInv, OneProjectPerFolder

LEMMA RemoveProjectStep ==
  ASSUME RegistryInv, NEW c \in Clerks, RemoveProject(c)
  PROVE  RegistryInv'
<1> DEFINE p == job[c].p
<1>1. JobInv'
  BY JobStep DEF RemoveProject, Finishes, RegistryInv
<1>2. \A q \in Projects : /\ binding'[q] = IF q = p THEN None ELSE binding[q]
                          /\ row'[q] = IF q = p THEN "removed" ELSE row[q]
  BY DEF RemoveProject, RegistryInv, OneProjectPerFolder, RegistryTypeOK
<1>3. RegistryTypeOK'
  <2>1. row' \in [Projects -> {"none", "registered", "removed", "deleted"}]
        /\ binding' \in [Projects -> Candidates \cup {None}]
    BY DEF RemoveProject, RegistryInv, OneProjectPerFolder, RegistryTypeOK
  <2> QED
    BY <1>2, <2>1 DEF RemoveProject, Finishes, RegistryInv, OneProjectPerFolder, RegistryTypeOK
<1>4. \A q \in Registered' : q \in Registered /\ binding'[q] = binding[q]
  BY <1>2 DEF Registered
<1> QED
  BY <1>1, <1>3, <1>4 DEF RemoveProject, Finishes, RegistryInv, OneProjectPerFolder

LEMMA DeleteDataStep ==
  ASSUME RegistryInv, NEW p \in Projects, DeleteData(p)
  PROVE  RegistryInv'
<1>1. \A q \in Projects : row'[q] = IF q = p THEN "deleted" ELSE row[q]
  BY DEF DeleteData, RegistryInv, OneProjectPerFolder, RegistryTypeOK
<1>2. RegistryTypeOK'
  BY <1>1 DEF DeleteData, RegistryInv, OneProjectPerFolder, RegistryTypeOK
<1>3. Registered' = Registered
  BY <1>1 DEF DeleteData, Registered
<1>4. JobInv'
  BY DEF DeleteData, RegistryInv, JobInv, JobOK
<1> QED
  BY <1>2, <1>3, <1>4 DEF DeleteData, RegistryInv, OneProjectPerFolder

LEMMA ArchiveStep ==
  ASSUME RegistryInv, NEW p \in Projects, Archive(p)
  PROVE  RegistryInv'
<1>1. JobInv'
  BY DEF Archive, RegistryInv, JobInv, JobOK
<1> QED
  BY <1>1, RowsUntouched DEF Archive, RegistryInv, OneProjectPerFolder, RegistryTypeOK

\* A step of the request a thread serves.
RequestStep(c) ==
  \/ \E p \in Projects, candidate \in shown : Confirm(c, p, candidate)
  \/ \E p \in Projects : AskOpen(c, p) \/ AskRemove(c, p)
  \/ \E path \in Paths : AskResolve(c, path)
  \/ Bind(c) \/ Open(c) \/ RemoveProject(c) \/ AskOverview(c) \/ Overview(c) \/ ClearCurrent(c)
  \/ MatchTarget(c) \/ ReadTarget(c) \/ ResolveTarget(c) \/ EndWithout(c)

LEMMA RequestKeeps ==
  ASSUME RegistryInv, NEW c \in Clerks, RequestStep(c)
  PROVE  RegistryInv'
<1>1. ASSUME NEW p \in Projects, NEW candidate \in shown, Confirm(c, p, candidate) PROVE RegistryInv'
  BY <1>1, StartStep DEF Confirm, JobOK
<1>2. ASSUME NEW p \in Projects, AskOpen(c, p) \/ AskRemove(c, p) PROVE RegistryInv'
  BY <1>2, StartStep DEF AskOpen, AskRemove, JobOK
<1>3. ASSUME NEW path \in Paths, AskResolve(c, path) PROVE RegistryInv'
  BY <1>3, StartStep DEF AskResolve, JobOK
<1>4. CASE AskOverview(c)
  BY <1>4, StartStep DEF AskOverview, JobOK
<1>5. CASE Open(c)
  <2>1. job[c].p \in Projects
    BY <1>5 DEF Open, Doing, RegistryInv, JobInv, JobOK
  <2> QED
    BY <1>5, <2>1, EndStep DEF Open
<1>6. CASE Overview(c)
  BY <1>6, EndStep, GoOnStep DEF Overview, JobOK, RegistryInv, OneProjectPerFolder, RegistryTypeOK
<1>7. CASE ClearCurrent(c)
  BY <1>7, EndStep DEF ClearCurrent
<1>8. CASE MatchTarget(c)
  <2>1. PICK p \in Registered :
          /\ Matching(p, job[c].path, job[c].seen)
          /\ GoesOn(c, [do |-> "row", path |-> job[c].path, seen |-> job[c].seen,
                        p |-> p, was |-> binding[p]])
    BY <1>8 DEF MatchTarget
  <2> QED
    BY <2>1, GoOnStep DEF Matching, Matches, JobOK, Registered
<1>9. CASE ReadTarget(c)
  <2>1. Matches(job[c].was, job[c].path, job[c].seen)
    BY <1>9 DEF ReadTarget, Doing, RegistryInv, JobInv, JobOK
  <2> QED
    BY <1>9, <2>1, GoOnStep DEF ReadTarget, JobOK
<1>10. CASE ResolveTarget(c)
  <2>1. [job[c] EXCEPT !.do = "resolved"].do = "resolved"
    BY <1>10 DEF ResolveTarget, Doing, RegistryInv, JobInv, JobOK
  <2> QED
    BY <1>10, <2>1, GoOnStep DEF ResolveTarget, JobOK
<1>11. CASE EndWithout(c)
  BY <1>11, EndStep DEF EndWithout, RegistryInv, OneProjectPerFolder, RegistryTypeOK
<1> QED
  BY <1>1, <1>2, <1>3, <1>4, <1>5, <1>6, <1>7, <1>8, <1>9, <1>10, <1>11, BindStep,
     RemoveProjectStep DEF RequestStep

LEMMA RegistryNextInv == RegistryInv /\ [RegistryNext]_registryVars => RegistryInv'
<1> SUFFICES ASSUME RegistryInv, [RegistryNext]_registryVars PROVE RegistryInv'
  OBVIOUS
<1>1. CASE UNCHANGED registryVars
  BY <1>1 DEF registryVars, RegistryInv, OneProjectPerFolder, RegistryTypeOK, Registered, JobInv, JobOK
<1> QED
  BY <1>1, MoveFolderStep, ProbeStep, DeleteDataStep, ArchiveStep, RequestKeeps
  DEF RegistryNext, RequestStep

-----------------------------------------------------------------------------
(* The results. *)

\* Only a request that probes the connection resolves a target.
LEMMA ResolvedByProbe ==
  ASSUME RegistryInv, RegistryNext, NEW c \in Clerks, Doing(c, "state"), Doing(c, "resolved")'
  PROVE  ResolveTarget(c)
<1>1. job'[c] # job[c]
  BY DEF Doing
<1>2. PICK d \in Clerks : RequestStep(d)
  BY <1>1 DEF RegistryNext, RequestStep, MoveFolder, Probe, DeleteData, Archive
<1>3. ASSUME NEW next, job' = [job EXCEPT ![d] = next] PROVE c = d /\ next.do = "resolved"
  BY <1>1, <1>3 DEF RegistryInv, JobInv, Doing
<1>4. ASSUME NEW next, Starts(d, next) PROVE FALSE
  <2>1. c = d
    BY <1>3, <1>4 DEF Starts
  <2> QED
    BY <1>4, <2>1 DEF Starts, Doing
<1>5. ASSUME NEW next, GoesOn(d, next) PROVE c = d /\ next.do = "resolved"
  BY <1>3, <1>5 DEF GoesOn
<1>6. /\ ~ \E p \in Projects, candidate \in shown : Confirm(d, p, candidate)
      /\ ~ \E p \in Projects : AskOpen(d, p) \/ AskRemove(d, p)
      /\ ~ \E path \in Paths : AskResolve(d, path)
      /\ ~ AskOverview(d)
  BY <1>4 DEF Confirm, AskOpen, AskRemove, AskResolve, AskOverview
<1>7. ~ MatchTarget(d) /\ ~ ReadTarget(d)
  <2>1. ASSUME MatchTarget(d) PROVE FALSE
    <3>1. PICK p \in Registered :
            GoesOn(d, [do |-> "row", path |-> job[d].path, seen |-> job[d].seen,
                       p |-> p, was |-> binding[p]])
      BY <2>1 DEF MatchTarget
    <3> QED
      BY <1>5, <3>1
  <2>2. ASSUME ReadTarget(d) PROVE FALSE
    <3>1. GoesOn(d, [do |-> "state", path |-> job[d].path, seen |-> job[d].seen,
                     was |-> job[d].was, target |-> binding[job[d].p]])
      BY <2>2 DEF ReadTarget
    <3> QED
      BY <1>5, <3>1
  <2> QED
    BY <2>1, <2>2
<1>8. ~ Finishes(d)
  BY <1>3 DEF Finishes, Doing, RegistryInv, JobInv
<1>9. ~ Overview(d)
  <2>1. ASSUME GoesOn(d, [do |-> "clear"]) PROVE FALSE
    BY <1>5, <2>1
  <2> QED
    BY <1>8, <2>1 DEF Overview
<1> QED
  BY <1>2, <1>3, <1>4, <1>5, <1>6, <1>7, <1>8, <1>9
  DEF RequestStep, Bind, Open, RemoveProject, ClearCurrent, EndWithout, ResolveTarget, GoesOn

\* "One project per real directory", and a command is told of a project whose
\* folder is where the project has it and, unless the project was rebound
\* meanwhile, is the folder that was at the path it named. Only if there was none
\* may the folder be at a path that differs in spelling (probe_folder,
\* _confirm_candidate, _match_by_directory, connection_state).
THEOREM FoldersStayTheirs == RegistrySpec => FoldersAreTheirs
<1>1. RegistryInv /\ [RegistryNext]_registryVars =>
        [OneProjectPerFolder' /\ TargetIsTheNamedFolder]_registryVars
  <2> SUFFICES ASSUME RegistryInv, RegistryNext
               PROVE  OneProjectPerFolder' /\ TargetIsTheNamedFolder
    OBVIOUS
  <2>1. OneProjectPerFolder'
    BY RegistryNextInv DEF RegistryInv
  <2>2. ASSUME NEW c \in Clerks, Doing(c, "state"), Doing(c, "resolved")'
        PROVE  LET t == job[c].target
               IN /\ disk[t.path] = t.id
                  /\ t = job[c].was =>
                       IF job[c].seen # None THEN t.id \in {job[c].seen, disk[job[c].path]}
                       ELSE Normalized[t.path] = Normalized[job[c].path]
    <3>1. disk[job[c].target.path] = job[c].target.id
      BY <2>2, ResolvedByProbe DEF ResolveTarget, Connected
    <3>2. Matches(job[c].was, job[c].path, job[c].seen)
      BY <2>2 DEF Doing, RegistryInv, JobInv, JobOK
    <3> QED
      BY <3>1, <3>2 DEF Matches
  <2> QED
    BY <2>1, <2>2 DEF TargetIsTheNamedFolder
<1>2. RegistryInv => OneProjectPerFolder
  BY DEF RegistryInv
<1>3. RegistrySpec => []RegistryInv
  BY RegistryInitInv, RegistryNextInv, PTL DEF RegistrySpec
<1>4. RegistrySpec => [][OneProjectPerFolder' /\ TargetIsTheNamedFolder]_registryVars
  BY <1>1, <1>3, PTL DEF RegistrySpec
<1>5. RegistryInit => OneProjectPerFolder
  BY RegistryInitInv, <1>2
<1> QED
  BY <1>4, <1>5, PTL DEF RegistrySpec, FoldersAreTheirs

-----------------------------------------------------------------------------
(* Starts, sessions and calls: what a service admits.                        *)

\* A start has ports from its first step on, and a page has the token of a start.
PortInv ==
  /\ \A b \in Boots : life[b] # "new" => port[b] \in PortPairs
  /\ \A b \in holds : life[b] # "new"

\* The bootstrap was exchanged once if it is spent, and never if it is not.
HandedInv == \A b \in Boots : handed[b] = IF b \in spent THEN 1 ELSE 0

\* A call on its way, given the tokens the page has.
CallOK(k, tokens) ==
  /\ k.pc \in {"sent", "accepted"} => k.cred # None
  /\ k.pc \in {"accepted", "admitted"} => k.at # None
  /\ k.cred # None /\ k.cred.kind = "bearer" =>
       k.cred.boot \in tokens \/ k.route = Route("fixed", "resolve")
  /\ Mints(k) => k.request \in Tasks

CallInv == \A c \in Callers : call[c] # None => CallOK(call[c], holds)

ServiceInv == OneOfEach /\ PortInv /\ HandedInv /\ CallInv

-----------------------------------------------------------------------------

LEMMA InitInv == ServiceInit => ServiceInv
BY ServiceAssumption DEF ServiceInit, ServiceInv, OneOfEach, ServiceTypeOK, PortInv, HandedInv, CallInv,
   Listening

\* A call that is answered is still the call it was.
Answered(k, pc) == [k EXCEPT !.pc = pc]

LEMMA AnsweredCall ==
  ASSUME NEW k \in CallRecords, NEW pc \in Answers
  PROVE  /\ Answered(k, pc) \in CallRecords /\ Answered(k, pc).pc = pc
         /\ Answered(k, pc).cred = k.cred /\ Answered(k, pc).route = k.route
         /\ Answered(k, pc).request = k.request /\ Answered(k, pc).at = k.at
BY DEF CallRecords, Answered

LEMMA AnsweredIsOK ==
  ASSUME NEW k \in CallRecords, NEW pc \in Answers \ {"sent", "accepted", "admitted"}, NEW tokens,
         CallOK(k, tokens)
  PROVE  CallOK(Answered(k, pc), tokens)
BY AnsweredCall DEF CallOK, Mints

\* What has no part in a lifecycle: the steps of clients and of the clock.
LEMMA SessionStep ==
  ASSUME ServiceInv, UNCHANGED <<life, port, record>>, ServiceTypeOK', HandedInv',
         holds \subseteq holds', \A b \in holds' : life[b] # "new",
         \A m \in minted' : life[m.boot] \in {"recorded", "serving", "closing"},
         \A b \in Boots : handed'[b] <= 1,
         \A c \in Callers : call'[c] # None => CallOK(call'[c], holds')
  PROVE  ServiceInv'
BY DEF ServiceInv, OneOfEach, PortInv, CallInv, Listening, Running

LEMMA Minting ==
  ServiceInv => \A m \in minted : life[m.boot] \in {"recorded", "serving", "closing"}
BY DEF ServiceInv, OneOfEach, Running

\* A start that goes on, with the calls as they are and credentials that are
\* revoked at most.
LEMMA LifeStep ==
  ASSUME ServiceInv, NEW b \in Boots, NEW from, NEW to, Lives(b, from, to),
         from \in Running, to \in Running, Listening(b) \/ to \notin {"bound", "recorded", "serving"},
         \/ record' = None
         \/ record' = record /\ (record = b => to \in {"serving", "closing", "closed"})
         \/ record' = b /\ to = "recorded",
         minted' \subseteq minted,
         \A m \in minted' : m.boot = b => to \in {"recorded", "serving", "closing"},
         UNCHANGED <<port, spent, late, claimFile, holds, handed, call, calls>>
  PROVE  ServiceInv'
<1>1. \A a \in Boots : life'[a] = IF a = b THEN to ELSE life[a]
  BY DEF Lives, ServiceInv, OneOfEach, ServiceTypeOK
<1>2. ServiceTypeOK'
  BY DEF Lives, ServiceInv, OneOfEach, ServiceTypeOK
<1>3. \A a \in Boots : Listening(a)' => Listening(a)
  BY <1>1 DEF Listening
<1>4. life[b] = from /\ to # "new" /\ from # "new"
  BY DEF Lives, Running
<1>5. OneOfEach'
  <2>1. \A a, c \in Boots : a # c /\ Listening(a)' /\ Listening(c)' =>
          {port'[a].api, port'[a].preview} \cap {port'[c].api, port'[c].preview} = {}
    BY <1>3 DEF ServiceInv, OneOfEach
  <2>2. record' # None => life'[record'] \notin {"new", "bound", "unrecorded", "stopped"}
    BY <1>1 DEF ServiceInv, OneOfEach, ServiceTypeOK
  <2>3. \A m \in minted' : life'[m.boot] \in Running \ {"bound", "closed", "unrecorded"}
    BY <1>1 DEF ServiceInv, OneOfEach, ServiceTypeOK, Running
  <2> QED
    BY <1>2, <2>1, <2>2, <2>3 DEF ServiceInv, OneOfEach
<1>6. PortInv'
  BY <1>1, <1>4 DEF ServiceInv, PortInv, OneOfEach, ServiceTypeOK
<1>7. HandedInv' /\ CallInv'
  BY DEF ServiceInv, HandedInv, CallInv, CallOK
<1> QED
  BY <1>5, <1>6, <1>7 DEF ServiceInv

LEMMA BindListenersStep ==
  ASSUME ServiceInv, NEW b \in Boots, NEW ports \in PortPairs, BindListeners(b, ports)
  PROVE  ServiceInv'
<1>1. \A a \in Boots : life'[a] = IF a = b THEN "bound" ELSE life[a]
  BY DEF BindListeners, Lives, ServiceInv, OneOfEach, ServiceTypeOK
<1>2. \A a \in Boots : port'[a] = IF a = b THEN ports ELSE port[a]
  BY DEF BindListeners, ServiceInv, OneOfEach, ServiceTypeOK
<1>3. life[b] = "new" /\ UNCHANGED <<record, sessions, call, calls>>
  BY DEF BindListeners, Lives
<1>4. ServiceTypeOK'
  BY DEF BindListeners, Lives, ServiceInv, OneOfEach, ServiceTypeOK, sessions, Running
<1>5. \A a \in Boots : Listening(a) =>
        {ports.api, ports.preview} \cap {port[a].api, port[a].preview} = {}
  BY DEF BindListeners, Taken
<1>6. \A a, c \in Boots : a # c /\ Listening(a)' /\ Listening(c)' =>
        {port'[a].api, port'[a].preview} \cap {port'[c].api, port'[c].preview} = {}
  <2> TAKE a, c \in Boots
  <2>1. a # b /\ Listening(a)' => Listening(a) /\ port'[a] = port[a]
    BY <1>1, <1>2 DEF Listening
  <2>2. c # b /\ Listening(c)' => Listening(c) /\ port'[c] = port[c]
    BY <1>1, <1>2 DEF Listening
  <2>3. CASE a # b /\ c # b
    BY <2>1, <2>2, <2>3 DEF ServiceInv, OneOfEach
  <2>4. CASE a = b /\ c # b
    BY <2>2, <2>4, <1>2, <1>5
  <2>5. CASE a # b /\ c = b
    BY <2>1, <2>5, <1>2, <1>5
  <2> QED
    BY <2>3, <2>4, <2>5
<1>7. /\ record' # None => life'[record'] \notin {"new", "bound", "unrecorded", "stopped"}
      /\ \A m \in minted' : life'[m.boot] \in Running \ {"bound", "closed", "unrecorded"}
  BY <1>1, <1>3 DEF ServiceInv, OneOfEach, ServiceTypeOK, sessions, Running
<1>8. OneOfEach'
  BY <1>3, <1>4, <1>6, <1>7 DEF ServiceInv, OneOfEach, sessions
<1>9. PortInv'
  BY <1>1, <1>2, <1>3 DEF ServiceInv, PortInv, OneOfEach, ServiceTypeOK, sessions
<1>10. HandedInv' /\ CallInv'
  BY <1>3 DEF ServiceInv, HandedInv, CallInv, CallOK, sessions
<1> QED
  BY <1>8, <1>9, <1>10 DEF ServiceInv

LEMMA StartSteps ==
  ASSUME ServiceInv, NEW b \in Boots,
         WriteRecord(b) \/ StartServing(b) \/ CloseListener(b) \/ CloseSession(b) \/ RemoveRecord(b)
  PROVE  ServiceInv'
<1>1. \A m \in minted : life[m.boot] \in {"recorded", "serving", "closing"}
  BY Minting
<1>2. record = b => life[b] \in {"recorded", "serving", "closing", "closed", "dead"}
  BY ServiceAssumption DEF ServiceInv, OneOfEach, ServiceTypeOK, Running
<1>3. CASE WriteRecord(b)
  BY <1>1, <1>3, LifeStep DEF WriteRecord, Lives, Running, Listening, sessions
<1>4. CASE StartServing(b)
  BY <1>1, <1>4, LifeStep DEF StartServing, Lives, Running, Listening, sessions
<1>5. CASE CloseListener(b)
  BY <1>1, <1>5, LifeStep DEF CloseListener, Lives, Running, Listening, sessions
<1>6. CASE CloseSession(b)
  BY <1>1, <1>6, LifeStep DEF CloseSession, Lives, Running, Listening, sessions
<1>7. CASE RemoveRecord(b)
  <2>1. \A m \in minted : m.boot # b
    BY <1>1, <1>7 DEF RemoveRecord, Lives
  <2>2. Lives(b, "closed", "unrecorded") /\ UNCHANGED <<port, sessions, call, calls>> /\ record' = None
    BY <1>7 DEF RemoveRecord
  <2> QED
    BY <2>1, <2>2, LifeStep DEF Running, sessions
<1> QED
  BY <1>3, <1>4, <1>5, <1>6, <1>7

LEMMA ProcessEndsStep ==
  ASSUME ServiceInv, NEW b \in Boots, Die(b) \/ CloseStore(b)
  PROVE  ServiceInv'
<1> DEFINE to == IF Die(b) THEN "dead" ELSE "stopped"
<1>1. /\ life[b] \in Running /\ (to = "stopped" => life[b] = "unrecorded")
      /\ ProcessEnds(b, to) /\ UNCHANGED record
  BY DEF Die, CloseStore, Running
<1>2. to \in {"stopped", "dead"}
  OBVIOUS
<1> HIDE DEF to
<1>3. \A a \in Boots : life'[a] = IF a = b THEN to ELSE life[a]
  BY <1>1 DEF ProcessEnds, ServiceInv, OneOfEach, ServiceTypeOK
<1>4. minted' = {m \in minted : m.boot # b} /\ UNCHANGED <<port, spent, late, claimFile, holds, handed>>
  BY <1>1 DEF ProcessEnds
<1>5. \A c \in Callers :
        \/ call'[c] = call[c]
        \/ call[c] # None /\ call[c] \in CallRecords /\ call'[c] = Answered(call[c], "cut")
  BY <1>1 DEF ProcessEnds, ServiceInv, OneOfEach, ServiceTypeOK, Answered
<1>6. call' \in [Callers -> CallRecords \cup {None}]
  <2>1. call' = [c \in Callers |-> call'[c]]
    BY <1>1 DEF ProcessEnds
  <2>2. \A c \in Callers : call'[c] \in CallRecords \cup {None}
    <3> TAKE c \in Callers
    <3>1. CASE call'[c] = call[c]
      BY <3>1 DEF ServiceInv, OneOfEach, ServiceTypeOK
    <3>2. CASE call'[c] = Answered(call[c], "cut") /\ call[c] \in CallRecords
      BY <3>2, AnsweredCall DEF Answers
    <3> QED
      BY <1>5, <3>1, <3>2
  <2> QED
    BY <2>1, <2>2
<1>7. ServiceTypeOK'
  BY <1>1, <1>2, <1>4, <1>6 DEF ProcessEnds, ServiceInv, OneOfEach, ServiceTypeOK
<1>8. OneOfEach'
  <2>1. \A a, c \in Boots : a # c /\ Listening(a)' /\ Listening(c)' =>
          {port'[a].api, port'[a].preview} \cap {port'[c].api, port'[c].preview} = {}
    BY <1>2, <1>3, <1>4 DEF ServiceInv, OneOfEach, Listening
  <2>2. record' # None => life'[record'] \notin {"new", "bound", "unrecorded", "stopped"}
    BY <1>1, <1>2, <1>3 DEF ServiceInv, OneOfEach, ServiceTypeOK
  <2>3. \A m \in minted' : life'[m.boot] \in Running \ {"bound", "closed", "unrecorded"}
    BY <1>3, <1>4 DEF ServiceInv, OneOfEach, ServiceTypeOK
  <2> QED
    BY <1>4, <1>7, <2>1, <2>2, <2>3 DEF ServiceInv, OneOfEach
<1>9. PortInv'
  BY <1>1, <1>2, <1>3, <1>4 DEF ServiceInv, PortInv, OneOfEach, ServiceTypeOK, Running
<1>10. HandedInv'
  BY <1>4 DEF ServiceInv, HandedInv
<1>11. CallInv'
  <2> SUFFICES ASSUME NEW c \in Callers, call'[c] # None PROVE CallOK(call'[c], holds)
    BY <1>4 DEF CallInv
  <2>1. CASE call'[c] = call[c]
    BY <2>1 DEF ServiceInv, CallInv
  <2>2. CASE call'[c] # call[c]
    BY <1>5, <2>2, AnsweredIsOK DEF ServiceInv, CallInv, Answers
  <2> QED
    BY <2>1, <2>2
<1> QED
  BY <1>8, <1>9, <1>10, <1>11 DEF ServiceInv

LEMMA ExpiryStep ==
  ASSUME ServiceInv,
         \/ \E b \in Boots : SessionExpires(b)
         \/ \E m \in minted : CapabilityExpires(m)
  PROVE  ServiceInv'
<1>1. /\ UNCHANGED <<life, port, record, spent, claimFile, holds, call, calls, handed>>
      /\ minted' \subseteq minted /\ late' \subseteq Boots
  BY DEF SessionExpires, CapabilityExpires, ServiceInv, OneOfEach, ServiceTypeOK
<1>2. ServiceTypeOK'
  BY <1>1 DEF ServiceInv, OneOfEach, ServiceTypeOK
<1>3. HandedInv' /\ CallInv'
  BY <1>1 DEF ServiceInv, HandedInv, CallInv, CallOK
<1>4. PortInv'
  BY <1>1 DEF ServiceInv, PortInv
<1>5. OneOfEach'
  BY <1>1, <1>2 DEF ServiceInv, OneOfEach, Listening
<1> QED
  BY <1>3, <1>4, <1>5 DEF ServiceInv

-----------------------------------------------------------------------------

\* What clients do to the calls.
LEMMA CallStep ==
  ASSUME ServiceInv, NEW c \in Callers, NEW n \in CallRecords \cup {None},
         call' = [call EXCEPT ![c] = n], n # None => CallOK(n, holds),
         UNCHANGED <<life, port, record, sessions>>
  PROVE  ServiceInv'
<1>1. \A d \in Callers : call'[d] = IF d = c THEN n ELSE call[d]
  BY DEF ServiceInv, OneOfEach, ServiceTypeOK
<1>2. UNCHANGED <<life, port, record, spent, late, minted, claimFile, holds, handed>>
  BY DEF sessions
<1>3. ServiceTypeOK'
  BY <1>2 DEF ServiceInv, OneOfEach, ServiceTypeOK
<1>4. HandedInv'
  BY <1>2 DEF ServiceInv, HandedInv
<1>5. \A d \in Callers : call'[d] # None => CallOK(call'[d], holds')
  BY <1>1, <1>2 DEF ServiceInv, CallInv
<1>6. \A m \in minted' : life[m.boot] \in {"recorded", "serving", "closing"}
  BY <1>2, Minting
<1>7. (\A b \in holds' : life[b] # "new") /\ \A b \in Boots : handed'[b] <= 1
  BY <1>2 DEF ServiceInv, OneOfEach, PortInv
<1> QED
  BY <1>2, <1>3, <1>4, <1>5, <1>6, <1>7, SessionStep

\* A call whose answer or progress changes.
LEMMA AnswerStep ==
  ASSUME ServiceInv, NEW c \in Callers, NEW pc \in Answers, call[c] # None,
         call' = [call EXCEPT ![c].pc = pc]
  PROVE  /\ call[c] \in CallRecords /\ call' = [call EXCEPT ![c] = Answered(call[c], pc)]
         /\ call' \in [Callers -> CallRecords \cup {None}]
         /\ \A d \in Callers : call'[d] = IF d = c THEN Answered(call[c], pc) ELSE call[d]
<1>1. call \in [Callers -> CallRecords \cup {None}] /\ call[c] \in CallRecords
  BY DEF ServiceInv, OneOfEach, ServiceTypeOK
<1>2. call' = [call EXCEPT ![c] = Answered(call[c], pc)]
  BY <1>1 DEF Answered
<1>3. Answered(call[c], pc) \in CallRecords
  BY <1>1, AnsweredCall
<1> QED
  BY <1>1, <1>2, <1>3

LEMMA MadeCall ==
  ASSUME NEW ask \in Asks, NEW to \in Ports \cup {None}, NEW cred \in Credentials \cup {None}
  PROVE  /\ Made(ask, to, cred) \in CallRecords
         /\ Made(ask, to, cred).pc = "sent" /\ Made(ask, to, cred).cred = cred
         /\ Made(ask, to, cred).route = ask.route /\ Made(ask, to, cred).request = ask.request
BY DEF Made, Asks, CallRecords, Answers

LEMMA CallsStep ==
  ASSUME ServiceInv, NEW c \in Callers, NEW ask \in Asks, NEW to \in Ports \cup {None}, NEW cred \in Credentials,
         Calls(c, Made(ask, to, cred)), Mints(ask) => ask.request \in Tasks,
         cred.kind = "bearer" => cred.boot \in holds \/ ask.route = Route("fixed", "resolve")
  PROVE  ServiceInv'
<1> DEFINE n == Made(ask, to, cred)
<1>1. /\ n \in CallRecords /\ n.pc = "sent" /\ n.cred = cred
      /\ n.route = ask.route /\ n.request = ask.request
  BY MadeCall
<1>2. call' = [call EXCEPT ![c] = n] /\ UNCHANGED <<life, port, record, sessions>>
  BY DEF Calls
<1> HIDE DEF n
<1>3. CallOK(n, holds)
  BY <1>1, ServiceAssumption DEF CallOK, Mints, Credentials
<1> QED
  BY <1>1, <1>2, <1>3, CallStep

\* A start that is not new can be called.
LEMMA Reachable ==
  ASSUME ServiceInv, NEW b \in Boots, life[b] # "new"
  PROVE  port[b].api \in Ports
BY DEF ServiceInv, PortInv, Ports

\* The two routes the clients take themselves.
LEMMA OwnAsks ==
  ASSUME NEW r \in Tasks \cup {None},
         NEW ask \in {Ask("plain", "own", "POST", "good", Route("session", "exchange"), "home", r),
                      Ask("plain", "none", "GET", "good", Route("fixed", "resolve"), "home", r)}
  PROVE  ask \in Asks /\ ~Mints(ask)
<1>1. Route("session", "exchange") \in Routes /\ Route("fixed", "resolve") \in Routes
  <2>1. "resolve" \in DOMAIN FixedRoutes
    BY DEF FixedRoutes
  <2> QED
    BY <2>1 DEF Routes
<1>2. ask.route.family \in {"session", "fixed"}
  BY DEF Ask, Route
<1>3. ~Mints(ask)
  BY <1>2 DEF Mints, Route
<1>4. ask \in Asks
  BY <1>1 DEF Ask, Asks, Forms, Methods
<1> QED
  BY <1>3, <1>4

LEMMA OpenPageStep ==
  ASSUME ServiceInv, NEW c \in Callers, NEW b \in Boots, OpenPage(c, b)
  PROVE  ServiceInv'
<1> DEFINE ask  == Ask("plain", "own", "POST", "good", Route("session", "exchange"), "home", None)
           cred == Credential("bootstrap", b, None)
<1>1. ask \in Asks /\ ~Mints(ask)
  BY OwnAsks
<1>2. cred \in Credentials /\ cred.kind # "bearer"
  BY DEF Credential, Credentials
<1>3. port[b].api \in Ports
  BY DEF OpenPage, ServiceInv, OneOfEach, ServiceTypeOK, Ports
<1>4. Calls(c, Made(ask, port[b].api, cred))
  BY DEF OpenPage
<1> HIDE DEF ask, cred
<1> QED
  BY <1>1, <1>2, <1>3, <1>4, CallsStep

LEMMA PageCallsStep ==
  ASSUME ServiceInv, NEW c \in Callers, NEW b \in Boots, NEW sample \in Sampled, PageCalls(c, b, sample)
  PROVE  ServiceInv'
<1>1. sample \in Asks /\ (Mints(sample) => sample.request \in Tasks)
  BY ServiceAssumption
<1>2. Bearer(b) \in Credentials /\ Bearer(b).boot = b
  BY DEF Bearer, Credential, Credentials
<1>3. port[b].api \in Ports
  BY Reachable DEF PageCalls, ServiceInv, PortInv
<1>4. b \in holds /\ Calls(c, Made(sample, port[b].api, Bearer(b)))
  BY DEF PageCalls
<1> QED
  BY <1>1, <1>2, <1>3, <1>4, CallsStep

LEMMA AgentCallsStep ==
  ASSUME ServiceInv, NEW c \in Callers, NEW r \in Tasks, NEW sample \in Sampled, AgentCalls(c, r, sample)
  PROVE  ServiceInv'
<1> DEFINE cred == Capability(claimFile[r])
<1>1. sample \in Asks /\ (Mints(sample) => sample.request \in Tasks)
  BY ServiceAssumption
<1>2. cred \in Credentials /\ cred.kind # "bearer"
  BY DEF AgentCalls, Capability, Credential, Credentials, ServiceInv, OneOfEach, ServiceTypeOK
<1>3. port[record].api \in Ports
  BY Reachable DEF AgentCalls, ServiceInv, OneOfEach, ServiceTypeOK
<1>4. Calls(c, Made(sample, port[record].api, cred))
  BY DEF AgentCalls
<1> HIDE DEF cred
<1> QED
  BY <1>1, <1>2, <1>3, <1>4, CallsStep

LEMMA SlashReadsStep ==
  ASSUME ServiceInv, NEW c \in Callers, NEW r \in Tasks \cup {None}, SlashReads(c, r)
  PROVE  ServiceInv'
<1> DEFINE ask == Ask("plain", "none", "GET", "good", Route("fixed", "resolve"), "home", r)
<1>1. ask \in Asks /\ ~Mints(ask) /\ ask.route = Route("fixed", "resolve")
  BY OwnAsks DEF Ask
<1>2. IF record = None
      THEN Calls(c, [Made(ask, None, None) EXCEPT !.pc = IF r = None THEN "offline" ELSE "unavailable"])
      ELSE Calls(c, Made(ask, port[record].api, Bearer(record)))
  BY DEF SlashReads
<1> HIDE DEF ask
<1>3. CASE record = None
  <2> DEFINE pc == IF r = None THEN "offline" ELSE "unavailable"
             n  == Answered(Made(ask, None, None), pc)
  <2>1. pc \in Answers /\ pc \notin {"sent", "accepted", "admitted"}
    BY DEF Answers
  <2>2. Calls(c, n)
    BY <1>2, <1>3 DEF Answered
  <2> HIDE DEF pc
  <2>3. n \in CallRecords /\ n.pc = pc /\ n.cred = None /\ n.route = ask.route
    BY <1>1, <2>1, MadeCall, AnsweredCall
  <2> HIDE DEF n
  <2>4. CallOK(n, holds)
    BY <1>1, <2>1, <2>3 DEF CallOK, Mints
  <2>5. call' = [call EXCEPT ![c] = n] /\ UNCHANGED <<life, port, record, sessions>>
    BY <2>2 DEF Calls
  <2> QED
    BY <2>3, <2>4, <2>5, CallStep
<1>4. CASE record # None
  <2>1. record \in Boots /\ port[record].api \in Ports
    BY <1>4, Reachable DEF ServiceInv, OneOfEach, ServiceTypeOK
  <2>2. Bearer(record) \in Credentials
    BY <2>1 DEF Bearer, Credential, Credentials
  <2> QED
    BY <1>1, <1>2, <1>4, <2>1, <2>2, CallsStep
<1> QED
  BY <1>3, <1>4

-----------------------------------------------------------------------------

\* What becomes of a call once it is sent.
LEMMA ConnectStep ==
  ASSUME ServiceInv, NEW c \in Callers, Connect(c)
  PROVE  ServiceInv'
<1>1. /\ call[c] # None /\ call[c].pc = "sent" /\ call[c] \in CallRecords
      /\ UNCHANGED <<life, port, record, sessions, calls>>
  BY DEF Connect, ServiceInv, OneOfEach, ServiceTypeOK
<1>2. \/ \E pc \in {"offline", "unavailable", "route-not-found"} : call' = [call EXCEPT ![c].pc = pc]
      \/ \E b \in Boots : call' = [call EXCEPT ![c].pc = "accepted", ![c].at = b]
  BY DEF Connect
<1>3. CASE \E pc \in {"offline", "unavailable", "route-not-found"} : call' = [call EXCEPT ![c].pc = pc]
  <2>1. PICK pc \in {"offline", "unavailable", "route-not-found"} : call' = [call EXCEPT ![c].pc = pc]
    BY <1>3
  <2>2. pc \in Answers \ {"sent", "accepted", "admitted"}
    BY DEF Answers, Codes
  <2>3. call[c] \in CallRecords /\ call' = [call EXCEPT ![c] = Answered(call[c], pc)]
    BY <1>1, <2>1, <2>2, AnswerStep
  <2>4. Answered(call[c], pc) \in CallRecords /\ CallOK(Answered(call[c], pc), holds)
    BY <1>1, <2>2, AnsweredCall, AnsweredIsOK DEF ServiceInv, CallInv
  <2> QED
    BY <1>1, <2>3, <2>4, CallStep
<1>4. CASE \E b \in Boots : call' = [call EXCEPT ![c].pc = "accepted", ![c].at = b]
  <2>1. PICK b \in Boots : call' = [call EXCEPT ![c].pc = "accepted", ![c].at = b]
    BY <1>4
  <2> DEFINE n == [call[c] EXCEPT !.pc = "accepted", !.at = b]
  <2>2. call' = [call EXCEPT ![c] = n]
    BY <1>1, <2>1 DEF ServiceInv, OneOfEach, ServiceTypeOK
  <2>3. /\ n \in CallRecords /\ n.pc = "accepted" /\ n.at = b
        /\ n.cred = call[c].cred /\ n.route = call[c].route /\ n.request = call[c].request
    BY <1>1 DEF CallRecords, Answers
  <2> HIDE DEF n
  <2>4. CallOK(n, holds)
    <3>1. CallOK(call[c], holds) /\ b # None
      BY <1>1, ServiceAssumption DEF ServiceInv, CallInv
    <3> QED
      BY <1>1, <2>3, <3>1 DEF CallOK, Mints
  <2> QED
    BY <1>1, <2>2, <2>3, <2>4, CallStep
<1> QED
  BY <1>2, <1>3, <1>4

LEMMA ForgetStep ==
  ASSUME ServiceInv, NEW c \in Callers, Forget(c)
  PROVE  ServiceInv'
BY CallStep DEF Forget

LEMMA CodesOnly ==
  /\ \A check : Code(check) \in Codes
  /\ \A k, capability : PolicyCode(k, capability) \in Codes \cup {"none"}
  /\ \A k, p : Answer(k, p) \in Codes \cup {"accepted"}
<1>1. \A check : Code(check) \in Codes
  BY DEF Code, Codes
<1>2. \A k, capability : PolicyCode(k, capability) \in Codes \cup {"none"}
  BY DEF PolicyCode, Codes
<1>3. \A k, p : Answer(k, p) \in Codes \cup {"accepted"}
  BY <1>1 DEF Answer
<1> QED
  BY <1>1, <1>2, <1>3

\* The answer of Admit, "admitted" if nothing refuses.
Verdict(k) ==
  LET code   == PolicyCode(k, k.cred.kind = "capability")
      answer == IF code # "none" THEN code
                ELSE IF ~Honoured(k.cred, k.at) THEN "unauthorized"
                ELSE Answer(k, Principal(k.cred))
  IN IF answer = "accepted" THEN "admitted" ELSE answer

LEMMA Verdicts ==
  ASSUME NEW k
  PROVE  /\ Verdict(k) \in Answers \ {"sent", "accepted"}
         /\ Verdict(k) = "admitted" =>
              /\ PolicyCode(k, k.cred.kind = "capability") = "none"
              /\ Honoured(k.cred, k.at) /\ Answer(k, Principal(k.cred)) = "accepted"
<1> DEFINE code == PolicyCode(k, k.cred.kind = "capability")
           said == Answer(k, Principal(k.cred))
<1>1. code \in Codes \cup {"none"} /\ said \in Codes \cup {"accepted"}
  BY CodesOnly
<1>2. Verdict(k) = LET answer == IF code # "none" THEN code
                                 ELSE IF ~Honoured(k.cred, k.at) THEN "unauthorized" ELSE said
                   IN IF answer = "accepted" THEN "admitted" ELSE answer
  BY DEF Verdict
<1> HIDE DEF code, said
<1>3. /\ Verdict(k) \in Answers \ {"sent", "accepted"}
      /\ Verdict(k) = "admitted" => code = "none" /\ Honoured(k.cred, k.at) /\ said = "accepted"
  BY <1>1, <1>2 DEF Answers, Codes
<1> QED
  BY <1>3 DEF code, said

LEMMA AdmitStep ==
  ASSUME ServiceInv, NEW c \in Callers, Admit(c)
  PROVE  /\ ServiceInv'
         /\ call[c] \in CallRecords /\ call'[c] = Answered(call[c], Verdict(call[c]))
<1>1. /\ call[c] # None /\ call[c].pc = "accepted" /\ call[c] \in CallRecords
      /\ UNCHANGED <<life, port, record, sessions>>
      /\ call' = [call EXCEPT ![c].pc = Verdict(call[c])]
  BY DEF Admit, Verdict, ServiceInv, OneOfEach, ServiceTypeOK
<1> DEFINE pc == Verdict(call[c])
           n  == Answered(call[c], pc)
<1>2. pc \in Answers \ {"sent", "accepted"}
  BY Verdicts
<1> HIDE DEF pc
<1>3. call' = [call EXCEPT ![c] = n] /\ call'[c] = n
  BY <1>1, <1>2, AnswerStep DEF pc
<1>4. /\ n \in CallRecords /\ n.pc = pc /\ n.cred = call[c].cred /\ n.route = call[c].route
      /\ n.request = call[c].request /\ n.at = call[c].at
  BY <1>1, <1>2, AnsweredCall
<1>5. CallOK(call[c], holds)
  BY <1>1 DEF ServiceInv, CallInv
<1>6. CallOK(n, holds)
  BY <1>1, <1>2, <1>4, <1>5 DEF CallOK, Mints
<1>7. ServiceInv'
  BY <1>1, <1>3, <1>4, <1>6, CallStep
<1> QED
  BY <1>1, <1>3, <1>7 DEF pc

\* What changes credentials together with a call that it answers.
LEMMA CredentialStep ==
  ASSUME ServiceInv, NEW c \in Callers, NEW pc \in Answers \ {"sent", "accepted", "admitted"},
         call[c] # None, call' = [call EXCEPT ![c].pc = pc],
         UNCHANGED <<life, port, record, late>>,
         NEW b \in Boots, SessionOpen(b),
         holds' \subseteq holds \cup {b}, holds \subseteq holds',
         minted' \subseteq minted \cup [boot : {b}, request : Tasks],
         claimFile' \in [Tasks -> [boot : Boots, request : Tasks] \cup {None}],
         \A r \in Tasks : claimFile'[r] \in [boot : Boots, request : {r}] \cup {None},
         \/ UNCHANGED <<spent, handed>>
         \/ b \notin spent /\ spent' = spent \cup {b} /\ handed' = [handed EXCEPT ![b] = @ + 1]
  PROVE  ServiceInv'
<1>1. call[c] \in CallRecords /\ call' \in [Callers -> CallRecords \cup {None}]
  BY AnswerStep
<1>2. \A d \in Callers : call'[d] = IF d = c THEN Answered(call[c], pc) ELSE call[d]
  BY AnswerStep
<1>3. CallOK(Answered(call[c], pc), holds)
  BY <1>1, AnsweredIsOK DEF ServiceInv, CallInv
<1>4. \A d \in Callers : call'[d] # None => CallOK(call'[d], holds)
  BY <1>2, <1>3 DEF ServiceInv, CallInv
<1>5. \A d \in Callers : call'[d] # None => CallOK(call'[d], holds')
  BY <1>4 DEF CallOK
<1>6. life[b] \in {"serving", "closing"}
  BY DEF SessionOpen
<1>7. \A m \in minted' : life[m.boot] \in {"recorded", "serving", "closing"}
  BY <1>6, Minting
<1>8. \A a \in holds' : life[a] # "new"
  BY <1>6 DEF ServiceInv, PortInv
<1>9. handed' \in [Boots -> Nat] /\ HandedInv' /\ (\A a \in Boots : handed'[a] <= 1) /\ spent' \subseteq Boots
  <2>1. CASE UNCHANGED <<spent, handed>>
    BY <2>1 DEF ServiceInv, OneOfEach, ServiceTypeOK, HandedInv
  <2>2. CASE b \notin spent /\ spent' = spent \cup {b} /\ handed' = [handed EXCEPT ![b] = @ + 1]
    <3>1. handed[b] = 0 /\ handed \in [Boots -> Nat]
      BY <2>2 DEF ServiceInv, OneOfEach, ServiceTypeOK, HandedInv
    <3>2. handed' \in [Boots -> Nat] /\ \A a \in Boots : handed'[a] = IF a = b THEN 1 ELSE handed[a]
      BY <2>2, <3>1
    <3> QED
      BY <2>2, <3>2 DEF ServiceInv, OneOfEach, ServiceTypeOK, HandedInv
  <2> QED
    BY <2>1, <2>2
<1>10. ServiceTypeOK'
  <2>1. minted' \subseteq [boot : Boots, request : Tasks] /\ holds' \subseteq Boots
    BY DEF ServiceInv, OneOfEach, ServiceTypeOK
  <2> QED
    BY <1>1, <1>9, <2>1 DEF ServiceInv, OneOfEach, ServiceTypeOK
<1> QED
  BY <1>5, <1>7, <1>8, <1>9, <1>10, SessionStep

LEMMA ExchangeStep ==
  ASSUME ServiceInv, NEW c \in Callers, Exchange(c)
  PROVE  ServiceInv'
<1> DEFINE b == call[c].at
<1>1. /\ call[c] # None /\ b \in Boots
      /\ UNCHANGED <<life, port, record, late, minted, claimFile>>
  BY DEF Exchange, ServiceInv, OneOfEach, ServiceTypeOK, CallInv, CallOK, CallRecords
<1>2. \/ /\ Exchanges(b, call[c].cred)
         /\ spent' = spent \cup {b} /\ handed' = [handed EXCEPT ![b] = @ + 1]
         /\ holds' \in {holds, holds \cup {b}} /\ call' = [call EXCEPT ![c].pc = "done"]
      \/ call' = [call EXCEPT ![c].pc = "unauthorized"] /\ UNCHANGED <<spent, handed, holds>>
  BY DEF Exchange
<1> HIDE DEF b
<1>3. CASE call' = [call EXCEPT ![c].pc = "unauthorized"] /\ UNCHANGED <<spent, handed, holds>>
  <2>1. "unauthorized" \in Answers \ {"sent", "accepted", "admitted"}
    BY DEF Answers, Codes
  <2>2. call' = [call EXCEPT ![c] = Answered(call[c], "unauthorized")] /\ call[c] \in CallRecords
    BY <1>1, <1>3, <2>1, AnswerStep
  <2>3. /\ Answered(call[c], "unauthorized") \in CallRecords
        /\ CallOK(Answered(call[c], "unauthorized"), holds)
    BY <1>1, <2>1, <2>2, AnsweredCall, AnsweredIsOK DEF ServiceInv, CallInv
  <2> QED
    BY <1>1, <1>3, <2>2, <2>3, CallStep DEF sessions
<1>4. CASE /\ Exchanges(b, call[c].cred)
           /\ spent' = spent \cup {b} /\ handed' = [handed EXCEPT ![b] = @ + 1]
           /\ holds' \in {holds, holds \cup {b}} /\ call' = [call EXCEPT ![c].pc = "done"]
  <2>1. SessionOpen(b) /\ b \notin spent
    BY <1>4 DEF Exchanges
  <2>2. "done" \in Answers \ {"sent", "accepted", "admitted"}
    BY DEF Answers
  <2>3. /\ holds' \subseteq holds \cup {b} /\ holds \subseteq holds' /\ minted' \subseteq minted \cup [boot : {b}, request : Tasks]
        /\ claimFile' \in [Tasks -> [boot : Boots, request : Tasks] \cup {None}]
        /\ \A r \in Tasks : claimFile'[r] \in [boot : Boots, request : {r}] \cup {None}
    BY <1>1, <1>4 DEF ServiceInv, OneOfEach, ServiceTypeOK
  <2> QED
    BY <1>1, <1>4, <2>1, <2>2, <2>3, CredentialStep
<1> QED
  BY <1>2, <1>3, <1>4

LEMMA ServeStep ==
  ASSUME ServiceInv, NEW c \in Callers, Serve(c)
  PROVE  ServiceInv'
<1> DEFINE b == call[c].at
           r == call[c].request
           m == [boot |-> b, request |-> r]
           minting == Mints(call[c]) /\ SessionOpen(b)
           pc == IF Mints(call[c]) /\ ~SessionOpen(b) THEN "unauthorized" ELSE "done"
<1>1. /\ call[c] # None /\ b \in Boots /\ (Mints(call[c]) => r \in Tasks)
      /\ UNCHANGED <<life, port, record, spent, late, holds, handed>>
  BY DEF Serve, ServiceInv, OneOfEach, ServiceTypeOK, CallInv, CallOK, CallRecords
<1>2. /\ call' = [call EXCEPT ![c].pc = pc]
      /\ IF minting
         THEN minted' = minted \cup {m} /\ claimFile' = [claimFile EXCEPT ![r] = m]
         ELSE UNCHANGED <<minted, claimFile>>
  BY DEF Serve
<1>3. pc \in Answers \ {"sent", "accepted", "admitted"}
  BY DEF Answers, Codes
<1>4. minting => SessionOpen(b) /\ r \in Tasks
  BY <1>1
<1> HIDE DEF b, r, minting, pc
<1>5. CASE ~minting
  <2>1. call[c] \in CallRecords /\ call' = [call EXCEPT ![c] = Answered(call[c], pc)]
    BY <1>1, <1>2, <1>3, AnswerStep
  <2>2. Answered(call[c], pc) \in CallRecords /\ CallOK(Answered(call[c], pc), holds)
    BY <1>1, <1>3, <2>1, AnsweredCall, AnsweredIsOK DEF ServiceInv, CallInv
  <2> QED
    BY <1>1, <1>2, <1>5, <2>1, <2>2, CallStep DEF sessions
<1>6. CASE minting
  <2>1. m \in [boot : {b}, request : Tasks] /\ m \in [boot : Boots, request : {r}]
    BY <1>1, <1>4, <1>6
  <2> HIDE DEF m
  <2>2. minted' \subseteq minted \cup [boot : {b}, request : Tasks]
    BY <1>2, <1>6, <2>1
  <2>3. claimFile \in [Tasks -> [boot : Boots, request : Tasks] \cup {None}]
    BY DEF ServiceInv, OneOfEach, ServiceTypeOK
  <2>4. m \in [boot : Boots, request : Tasks]
    BY <1>1, <1>4, <1>6 DEF m
  <2>5. /\ claimFile' \in [Tasks -> [boot : Boots, request : Tasks] \cup {None}]
        /\ \A q \in Tasks : claimFile'[q] = IF q = r THEN m ELSE claimFile[q]
    BY <1>2, <1>4, <1>6, <2>3, <2>4
  <2>6. \A q \in Tasks : claimFile'[q] \in [boot : Boots, request : {q}] \cup {None}
    BY <2>1, <2>5 DEF ServiceInv, OneOfEach, ServiceTypeOK
  <2>7. SessionOpen(b) /\ holds' \subseteq holds \cup {b} /\ holds \subseteq holds'
    BY <1>1, <1>4, <1>6
  <2> QED
    BY <1>1, <1>2, <1>3, <2>2, <2>5, <2>6, <2>7, CredentialStep
<1> QED
  BY <1>5, <1>6

LEMMA NextInv == ServiceInv /\ [ServiceNext]_serviceVars => ServiceInv'
<1> SUFFICES ASSUME ServiceInv, [ServiceNext]_serviceVars PROVE ServiceInv'
  OBVIOUS
<1>1. CASE \E b \in Boots, ports \in PortPairs : BindListeners(b, ports)
  BY <1>1, BindListenersStep
<1>2. CASE \E b \in Boots : WriteRecord(b) \/ StartServing(b) \/ CloseListener(b) \/ CloseSession(b) \/ RemoveRecord(b)
  BY <1>2, StartSteps
<1>3. CASE \E b \in Boots : Die(b) \/ CloseStore(b)
  BY <1>3, ProcessEndsStep
<1>4. CASE (\E b \in Boots : SessionExpires(b)) \/ (\E m \in minted : CapabilityExpires(m))
  BY <1>4, ExpiryStep
<1>5. CASE \E c \in Callers, b \in Boots : OpenPage(c, b) \/ \E sample \in Sampled : PageCalls(c, b, sample)
  BY <1>5, OpenPageStep, PageCallsStep
<1>6. CASE \E c \in Callers, r \in Tasks \cup {None} : SlashReads(c, r)
  BY <1>6, SlashReadsStep
<1>7. CASE \E c \in Callers, r \in Tasks, sample \in Sampled : AgentCalls(c, r, sample)
  BY <1>7, AgentCallsStep
<1>8. CASE \E c \in Callers : Connect(c) \/ Admit(c) \/ Exchange(c) \/ Serve(c) \/ Forget(c)
  BY <1>8, ConnectStep, AdmitStep, ExchangeStep, ServeStep, ForgetStep
<1>9. CASE UNCHANGED serviceVars
  <2>1. UNCHANGED <<life, port, record, spent, late, minted, claimFile, holds, call, calls, handed>>
    BY <1>9 DEF serviceVars, sessions
  <2>2. ServiceTypeOK'
    BY <2>1 DEF ServiceInv, OneOfEach, ServiceTypeOK
  <2>3. \A c \in Callers : call'[c] # None => CallOK(call'[c], holds')
    BY <2>1 DEF ServiceInv, CallInv
  <2>4. HandedInv' /\ (\A b \in holds' : life[b] # "new") /\ (\A b \in Boots : handed'[b] <= 1)
    BY <2>1 DEF ServiceInv, HandedInv, PortInv, OneOfEach
  <2> QED
    BY <2>1, <2>2, <2>3, <2>4, Minting, SessionStep
<1> QED
  BY <1>1, <1>2, <1>3, <1>4, <1>5, <1>6, <1>7, <1>8, <1>9 DEF ServiceNext

-----------------------------------------------------------------------------
(* What an admitted call has passed. *)

CheckNames ==
  {"browser", "method", "args", "task", "project", "request", "unbound", "own", "path"}

LEMMA ChecksAreASequence == \A r : Checks(r) \in Seq(CheckNames)
<1>1. \A r :
        Checks(r) \in {<<"browser", "method", "args">>, <<"method", "args", "task", "project">>, <<"method">>,
                       <<"method", "project", "request", "args">>, <<"method", "project", "args">>,
                       <<"browser", "project", "method", "args">>, <<"method", "args", "browser", "project">>,
                       <<"method", "args">>, <<"method", "browser", "project", "args">>,
                       <<"unbound", "project", "method", "args">>, <<"path">>}
  BY DEF Checks
<1>2. /\ <<"browser", "method", "args">> \in Seq(CheckNames)
      /\ <<"method", "args", "task", "project">> \in Seq(CheckNames)
      /\ <<"method">> \in Seq(CheckNames)
      /\ <<"method", "project", "request", "args">> \in Seq(CheckNames)
      /\ <<"method", "project", "args">> \in Seq(CheckNames)
      /\ <<"browser", "project", "method", "args">> \in Seq(CheckNames)
      /\ <<"method", "args", "browser", "project">> \in Seq(CheckNames)
      /\ <<"method", "args">> \in Seq(CheckNames)
      /\ <<"method", "browser", "project", "args">> \in Seq(CheckNames)
      /\ <<"unbound", "project", "method", "args">> \in Seq(CheckNames)
      /\ <<"path">> \in Seq(CheckNames)
  BY DEF CheckNames
<1> QED
  BY <1>1, <1>2

LEMMA AcceptedPassesAll ==
  ASSUME NEW k, NEW p, Answer(k, p) = "accepted"
  PROVE  \A i \in DOMAIN (<<"own">> \o Checks(k.route)) : ~Refuses((<<"own">> \o Checks(k.route))[i], k, p)
<1> DEFINE checks   == <<"own">> \o Checks(k.route)
           refusing == {i \in DOMAIN checks : Refuses(checks[i], k, p)}
<1>1. Answer(k, p) = IF refusing = {} THEN "accepted" ELSE Code(checks[Min(refusing)])
  BY DEF Answer
<1>2. \A check : Code(check) # "accepted"
  BY CodesOnly DEF Codes
<1> HIDE DEF refusing
<1>3. refusing = {}
  <2> HIDE DEF checks
  <2> QED
    BY <1>1, <1>2
<1> QED
  BY <1>3 DEF refusing

\* The check of the capability comes before those of the route.
LEMMA AcceptedIsOwn ==
  ASSUME NEW k, NEW p, Answer(k, p) = "accepted"
  PROVE  InItsRequest(k, p)
<1> DEFINE checks == <<"own">> \o Checks(k.route)
<1>1. 1 \in DOMAIN checks /\ checks[1] = "own"
  <2>1. Checks(k.route) \in Seq(CheckNames)
    BY ChecksAreASequence
  <2>2. "own" \in CheckNames
    BY DEF CheckNames
  <2> QED
    BY <2>1, <2>2
<1>2. ~Refuses("own", k, p)
  BY <1>1, AcceptedPassesAll
<1> QED
  BY <1>2 DEF Refuses

\* A named request is not resolved here.
LEMMA NoTaskIsResolved ==
  ASSUME NEW k, NEW p, k.route = Route("fixed", "resolve"), Answer(k, p) = "accepted"
  PROVE  k.request = None
<1> DEFINE checks == <<"own">> \o Checks(k.route)
<1>1. Checks(k.route) = <<"method", "args", "task", "project">>
  BY DEF Checks, Route, FixedRoutes
<1>2. 4 \in DOMAIN checks /\ checks[4] = "task"
  BY <1>1
<1>3. ~Refuses("task", k, p)
  BY <1>2, AcceptedPassesAll
<1> QED
  BY <1>3 DEF Refuses

\* What passes the policy is plain, and its Origin is the one its credential
\* calls for.
LEMMA PassesThePolicy ==
  ASSUME NEW k, k.form \in Forms, NEW capability \in BOOLEAN, PolicyCode(k, capability) = "none"
  PROVE  k.form = "plain" /\ OriginFits(k, capability)
<1> DEFINE fits == OriginFits(k, capability \/ k.form = "two-credentials")
<1>1. k.form \in {"plain", "two-credentials"}
  BY DEF PolicyCode, Forms
<1>2. (IF ~fits THEN "origin-invalid"
       ELSE IF k.form = "two-credentials" THEN "unauthorized" ELSE "none") = "none"
  BY <1>1 DEF PolicyCode
<1>3. k.form = "plain" /\ fits
  <2> HIDE DEF fits
  <2> QED
    BY <1>1, <1>2
<1>4. (capability \/ k.form = "two-credentials") = capability
  BY <1>3
<1> QED
  BY <1>3, <1>4

\* An accepted call is admitted by Admit and nothing else.
LEMMA OnlyAdmit ==
  ASSUME ServiceInv, NEW c \in Callers, [ServiceNext]_serviceVars,
         call[c] # None, call[c].pc = "accepted", call'[c] # None, call'[c].pc = "admitted"
  PROVE  Admit(c)
<1>1. call \in [Callers -> CallRecords \cup {None}] /\ call[c] \in CallRecords
  BY DEF ServiceInv, OneOfEach, ServiceTypeOK
<1>2. call'[c] # call[c]
  OBVIOUS
<1>3. ASSUME NEW d \in Callers, d # c,
             Connect(d) \/ Admit(d) \/ Exchange(d) \/ Serve(d) \/ Forget(d)
      PROVE  FALSE
  BY <1>1, <1>2, <1>3 DEF Connect, Admit, Exchange, Serve, Forget
<1>4. ASSUME NEW d \in Callers, NEW what, Calls(d, what)
      PROVE  FALSE
  BY <1>1, <1>2, <1>4 DEF Calls
<1>5. CASE \E b \in Boots : Die(b) \/ CloseStore(b)
  <2>1. PICK b \in Boots : ProcessEnds(b, "dead") \/ ProcessEnds(b, "stopped")
    BY <1>5 DEF Die, CloseStore
  <2>2. call'[c] = call[c] \/ call'[c] = [call[c] EXCEPT !.pc = "cut"]
    BY <2>1 DEF ProcessEnds
  <2> QED
    BY <1>1, <1>2, <2>2 DEF CallRecords
<1>6. CASE UNCHANGED call
  BY <1>2, <1>6
<1>7. ~(Connect(c) \/ Serve(c) \/ Forget(c))
  BY DEF Connect, Serve, Forget
<1>8. ~Exchange(c)
  <2> SUFFICES ASSUME Exchange(c) PROVE FALSE
    OBVIOUS
  <2>1. call' = [call EXCEPT ![c].pc = "done"] \/ call' = [call EXCEPT ![c].pc = "unauthorized"]
    BY DEF Exchange
  <2>2. call'[c].pc \in {"done", "unauthorized"}
    BY <1>1, <2>1 DEF CallRecords
  <2> QED
    BY <2>2
<1>9. CASE \E b \in Boots :
             \/ \E ports \in PortPairs : BindListeners(b, ports)
             \/ WriteRecord(b) \/ StartServing(b) \/ SessionExpires(b)
             \/ CloseListener(b) \/ CloseSession(b) \/ RemoveRecord(b)
  BY <1>6, <1>9 DEF BindListeners, WriteRecord, StartServing, SessionExpires, CloseListener,
     CloseSession, RemoveRecord
<1>10. CASE (\E m \in minted : CapabilityExpires(m)) \/ UNCHANGED serviceVars
  BY <1>6, <1>10 DEF CapabilityExpires, serviceVars
<1>11. CASE \E d \in Callers :
              \/ \E b \in Boots : OpenPage(d, b) \/ \E sample \in Sampled : PageCalls(d, b, sample)
              \/ \E r \in Tasks \cup {None} : SlashReads(d, r)
              \/ \E r \in Tasks, sample \in Sampled : AgentCalls(d, r, sample)
  BY <1>4, <1>11 DEF OpenPage, PageCalls, SlashReads, AgentCalls
<1>12. CASE \E d \in Callers : Connect(d) \/ Admit(d) \/ Exchange(d) \/ Serve(d) \/ Forget(d)
  BY <1>3, <1>7, <1>8, <1>12
<1> QED
  BY <1>5, <1>9, <1>10, <1>11, <1>12 DEF ServiceNext

LEMMA Admission ==
  ASSUME ServiceInv, NEW c \in Callers, [ServiceNext]_serviceVars
  PROVE  AdmitsItsOwn(c)
<1> DEFINE k == call[c]
<1> SUFFICES ASSUME k # None, k.pc = "accepted", call'[c] # None, call'[c].pc = "admitted"
             PROVE  LET agent == k.cred.kind = "capability"
                    IN /\ k.form = "plain" /\ k.cred.boot = k.at /\ SessionOpen(k.at)
                       /\ agent => /\ k.origin = "none" /\ k.project = "home" /\ k.request = k.cred.request
                                   /\ Reaches(k) \in {"none", "work"}
                       /\ ~agent => k.cred.boot \in holds \/ k.route = Route("fixed", "resolve")
                       /\ ~agent /\ Reaches(k) # "none" =>
                            k.origin = "own" \/ (k.method = "GET" /\ k.route = Route("fixed", "projects"))
  BY DEF AdmitsItsOwn
<1>1. k \in CallRecords /\ CallOK(k, holds)
  BY DEF ServiceInv, OneOfEach, ServiceTypeOK, CallInv
<1>2. Verdict(k) = "admitted"
  <2>1. Admit(c)
    BY OnlyAdmit
  <2>2. call'[c] = Answered(k, Verdict(k))
    BY <2>1, AdmitStep
  <2>3. Verdict(k) \in Answers
    BY Verdicts
  <2> QED
    BY <1>1, <2>2, <2>3, AnsweredCall
<1> DEFINE agent == k.cred.kind = "capability"
           p     == Principal(k.cred)
<1>3. PolicyCode(k, agent) = "none" /\ Honoured(k.cred, k.at) /\ Answer(k, p) = "accepted"
  BY <1>2, Verdicts
<1>4. k.form = "plain" /\ OriginFits(k, agent)
  <2>1. agent \in BOOLEAN
    OBVIOUS
  <2> QED
    BY <1>1, <1>3, <2>1, PassesThePolicy DEF CallRecords
<1>5. InItsRequest(k, p)
  BY <1>3, AcceptedIsOwn
<1>6. SessionOpen(k.at) /\ k.cred.boot = k.at /\ k.cred.kind \in {"bearer", "capability"}
  BY <1>3 DEF Honoured
<1>7. CASE agent
  <2>1. p = Agent("home", k.cred.request) /\ k.cred # None /\ k.cred \in Credentials
    BY <1>1, <1>7 DEF Principal, CallRecords, CallOK
  <2>2. p.kind = "agent" /\ p.project = "home" /\ p.request = k.cred.request
    BY <2>1 DEF Agent
  <2>3. k.request = k.cred.request /\ k.origin = "none"
    BY <1>4, <1>5, <1>7, <2>2 DEF InItsRequest, OriginFits
  <2>4. k.cred.request \in Tasks
    BY <1>3, <1>7 DEF Honoured, ServiceInv, OneOfEach, ServiceTypeOK
  <2>5. k.route # Route("fixed", "resolve")
    BY <1>3, <2>3, <2>4, NoTaskIsResolved, ServiceAssumption
  <2>6. k.project = "home" /\ (k.route.family = "request" \/ k.route = Route("read", "request"))
    BY <1>5, <2>2, <2>5 DEF InItsRequest
  <2>7. Reaches(k) \in {"none", "work"}
    BY <2>6 DEF Reaches, Route
  <2> QED
    BY <1>4, <1>6, <1>7, <2>3, <2>6, <2>7
<1>8. CASE ~agent
  <2>1. k.cred.boot \in holds \/ k.route = Route("fixed", "resolve")
    BY <1>1, <1>6, <1>8 DEF CallOK
  <2>2. Reaches(k) # "none" =>
          k.origin = "own" \/ (k.method = "GET" /\ k.route = Route("fixed", "projects"))
    BY <1>4, <1>8 DEF OriginFits, Reaches
  <2> QED
    BY <1>4, <1>6, <1>8, <2>1, <2>2
<1> QED
  BY <1>7, <1>8

\* Every service answers only for itself, however many start, stop, crash and
\* take each other's ports: OneOfEach holds, and what is admitted was meant for
\* the start that admits it and goes no further than its credential.
THEOREM ServiceKeepsToItsOwn == ServiceSpec => OnlyItsOwn
<1>1. ServiceInit => ServiceInv
  BY InitInv
<1>2. ServiceInv /\ [ServiceNext]_serviceVars => ServiceInv'
  BY NextInv
<1>3. ServiceInv => OneOfEach
  BY DEF ServiceInv
<1>4. ServiceInv /\ ServiceInv' /\ [ServiceNext]_serviceVars =>
        [OneOfEach' /\ \A c \in Callers : AdmitsItsOwn(c)]_serviceVars
  BY Admission DEF ServiceInv
<1> QED
  BY <1>1, <1>2, <1>3, <1>4, PTL DEF ServiceSpec, OnlyItsOwn

-----------------------------------------------------------------------------
(* The canvas panel of the page: what CanvasWindow promises.                 *)

ReadKinds == {"list", "load"}
PageKinds == ReadKinds \cup {"commands", "undo", "redo", "create", "fork"}

\* The requests the window waits for, those of them that write, and the batches
\* of edits among these.
WaitedFor(R) == {r \in R : ~r.orphan}
Unwritten(R) == {r \in WaitedFor(R) : r.kind \notin ReadKinds}
Batches(R)   == {r \in Unwritten(R) : r.kind = "commands"}

\* Documents of the first m edits and of the edits of others.
EditsOf(m) == (1..m) \cup Theirs
DocsOf(m)  == Seq(EditsOf(m))

Rows(m) ==
  [log : Seq(DocsOf(m)), past : Seq(DocsOf(m)), future : Seq(DocsOf(m)), boards : Nat]

RowOK(m, s) == s \in Rows(m) /\ s.log # <<>>

ServerOK(m, s) == s \in Seq(Rows(m)) /\ \A c \in DOMAIN s : s[c].log # <<>>

\* The canvas c had doc as its n-th version.
Was(s, c, n, doc) == c \in DOMAIN s /\ n \in 1..Len(s[c].log) /\ doc = s[c].log[n]

RefusalOf(reply)    == reply \in {Wrong("conflict"), Wrong("refused")}
ListOf(s, reply)    ==
  /\ reply.ok /\ reply = [ok |-> TRUE, canvases |-> reply.canvases]
  /\ reply.canvases \subseteq DOMAIN s /\ (reply.canvases # {} => 1 \in reply.canvases)
PayloadOf(s, reply) ==
  /\ reply.ok /\ reply = [ok |-> TRUE, canvas |-> reply.canvas, counter |-> reply.counter, document |-> reply.document]
  /\ Was(s, reply.canvas, reply.counter, reply.document)

AnswerOK(s, kind, canvas, reply) ==
  /\ kind = "list" => ListOf(s, reply)
  /\ kind # "list" =>
       \/ RefusalOf(reply) /\ kind \in {"commands", "undo", "redo"}
       \/ PayloadOf(s, reply) /\ (kind \in {"commands", "undo", "redo", "load"} => reply.canvas = canvas)

RequestOK(s, m, r) ==
  /\ r = [kind |-> r.kind, canvas |-> r.canvas, counter |-> r.counter, edits |-> r.edits,
          then |-> r.then, newest |-> r.newest, orphan |-> r.orphan, reply |-> r.reply, n |-> r.n]
  /\ r.kind \in PageKinds /\ r.edits \in DocsOf(m) /\ r.n \in 1..Slots
  /\ r.newest \in BOOLEAN /\ r.orphan \in BOOLEAN
  /\ r.kind \in {"commands", "load", "undo", "redo", "fork"} => r.canvas \in DOMAIN s
  /\ r.kind = "commands" => r.edits \in Seq(1..m) /\ r.edits # <<>>
  /\ r.orphan => r.reply = None
  /\ r.reply # None => AnswerOK(s, r.kind, r.canvas, r.reply)

WindowOK(s, m, w) ==
  /\ w \in [canvas : Nat \cup {None}, counter : Nat, document : DocsOf(m), queue : Seq(1..m),
            label : Labels, options : SUBSET Nat, select : Nat \cup {None},
            readFailed : BOOLEAN, open : BOOLEAN, timer : BOOLEAN]
  /\ w.canvas \in DOMAIN s \cup {None}
  /\ w.options \subseteq DOMAIN s /\ w.select \in w.options \cup {None}

IsRead(r) == r.kind \in ReadKinds /\ r.newest

\* One read at most owns the panel, and the list has what it loads.
ReadsOK(w, R) ==
  /\ \A r, q \in R : IsRead(r) /\ IsRead(q) => r = q
  /\ \A r \in R : r.kind = "load" /\ r.newest => r.canvas \in w.options

\* A panel that got a canvas keeps one: a list without canvases is older than it.
HasCanvas(w, R) ==
  /\ \A r \in R : IsRead(r) /\ r.kind = "list" /\ r.reply # None /\ w.open =>
                 r.reply.canvases # {} \/ w.canvas = None
  /\ w.label = "conflict" => w.canvas # None
  /\ \A r \in R : r.kind \in {"commands", "undo", "redo"} => w.canvas # None

PageOK(s, m, w, R) ==
  /\ ServerOK(m, s) /\ WindowOK(s, m, w)
  /\ \A r \in R : RequestOK(s, m, r)
  /\ ReadsOK(w, R) /\ HasCanvas(w, R)

-----------------------------------------------------------------------------
(* While the window is patient. *)

\* A write is waited for alone.
Alone(R) == \A r \in Unwritten(R) : WaitedFor(R) = {r}

\* The list shows the canvas of the panel, or a read will see to it.
Follows(w, R) ==
  w.open => w.readFailed \/ w.select = w.canvas \/ \E r \in WaitedFor(R) : IsRead(r)

\* The document is the version it was loaded as, with the edits that are on their
\* way and those that are queued.
DraftOK(s, w, R) ==
  /\ IsInjective(w.document)
  /\ w.canvas = None => w.document = <<>> /\ w.queue = <<>> /\ w.label # "saved"
  /\ w.canvas # None => \E base :
       /\ Was(s, w.canvas, w.counter, base)
       /\ Batches(R) = {} => w.document = base \o w.queue
       /\ \A r \in Batches(R) :
            w.canvas = r.canvas /\ w.counter = r.counter /\ w.document = base \o r.edits /\ w.label # "saved"
  /\ w.label = "saved" => w.queue = <<>>

\* What a request may write holds no edit twice, and an answered one wrote it.
FlightOK(s, w, R) ==
  /\ \A r \in R : r.kind = "commands" =>
       \E base : Was(s, r.canvas, r.counter, base) /\ IsInjective(base \o r.edits)
  /\ \A r \in R : r.kind = "fork" => IsInjective(r.edits)
  /\ \A r \in Unwritten(R) : r.kind \in {"commands", "undo", "redo"} =>
       w.queue = <<>> /\ w.canvas # None /\ r.canvas = w.canvas
  /\ \A r \in Unwritten(R) : r.kind = "fork" => ToSet(w.queue) \subseteq ToSet(r.edits)
  /\ \A r \in Unwritten(R) : r.kind \in {"fork", "commands"} /\ r.reply # None /\ r.reply.ok =>
       ToSet(r.edits) \subseteq ToSet(r.reply.document)

\* No document holds an edit twice.
Once(docs) == \A i \in DOMAIN docs : IsInjective(docs[i])
RowOnce(s) == Once(s.log) /\ Once(s.past) /\ Once(s.future)
ServerOnce(s) == \A c \in DOMAIN s : RowOnce(s[c])

InServer(s, e) == \E c \in DOMAIN s : \E i \in DOMAIN s[c].log : e \in ToSet(s[c].log[i])

\* Where an edit is, none of them lost.
Somewhere(s, w, R, d, e) ==
  e \in d \/ e \in ToSet(w.queue) \/ (\E r \in Batches(R) : e \in ToSet(r.edits)) \/ InServer(s, e)

DraftKept(s, m, w, R, d) ==
  /\ Alone(R) /\ DraftOK(s, w, R) /\ FlightOK(s, w, R) /\ ServerOnce(s)
  /\ \A e \in 1..m : Somewhere(s, w, R, d, e)

Patient(s, m, w, R, d) == DraftKept(s, m, w, R, d) /\ Follows(w, R)

PageInv ==
  /\ PageOK(server, Len(origin), window, requests)
  /\ origin \in Seq(Nat \cup {None})
  /\ patient \in BOOLEAN
  /\ patient => Patient(server, Len(origin), window, requests, dropped)

-----------------------------------------------------------------------------
(* Sequences. *)

LEMMA EditsGrow == ASSUME NEW m \in Nat PROVE EditsOf(m) \subseteq EditsOf(m + 1)
BY DEF EditsOf

LEMMA DocsGrow ==
  ASSUME NEW m \in Nat
  PROVE  /\ DocsOf(m) \subseteq DocsOf(m + 1) /\ Seq(DocsOf(m)) \subseteq Seq(DocsOf(m + 1))
         /\ Seq(1..m) \subseteq DocsOf(m) /\ Seq(1..m) \subseteq Seq(1..(m + 1))
<1>1. DocsOf(m) \subseteq DocsOf(m + 1)
  BY EditsGrow, SeqMonotonic DEF DocsOf
<1>2. 1..m \subseteq EditsOf(m) /\ 1..m \subseteq 1..(m + 1)
  BY DEF EditsOf
<1>3. Seq(1..m) \subseteq Seq(EditsOf(m)) /\ Seq(1..m) \subseteq Seq(1..(m + 1))
  BY <1>2, SeqMonotonic
<1>4. Seq(DocsOf(m)) \subseteq Seq(DocsOf(m + 1))
  BY <1>1, SeqMonotonic
<1> QED BY <1>1, <1>3, <1>4 DEF DocsOf

LEMMA SetOfAppend ==
  ASSUME NEW S, NEW s \in Seq(S), NEW e \in S
  PROVE  ToSet(Append(s, e)) = ToSet(s) \cup {e}
BY AppendProperties DEF ToSet

LEMMA SetOfConcat ==
  ASSUME NEW S, NEW s \in Seq(S), NEW t \in Seq(S)
  PROVE  ToSet(s \o t) = ToSet(s) \cup ToSet(t)
<1>1. s \o t \in Seq(S) /\ Len(s \o t) = Len(s) + Len(t)
  BY ConcatProperties
<1>2. \A i \in 1..Len(s) : (s \o t)[i] = s[i]
  BY ConcatProperties
<1>3. \A i \in 1..Len(t) : (s \o t)[Len(s) + i] = t[i]
  BY ConcatProperties
<1>4. \A i \in (Len(s) + 1)..(Len(s) + Len(t)) : i - Len(s) \in 1..Len(t) /\ (s \o t)[i] = t[i - Len(s)]
  BY ConcatProperties
<1>5. DOMAIN s = 1..Len(s) /\ DOMAIN t = 1..Len(t) /\ DOMAIN (s \o t) = 1..(Len(s) + Len(t))
  BY <1>1
<1>6. ToSet(s) \subseteq ToSet(s \o t)
  BY <1>1, <1>2, <1>5 DEF ToSet
<1>7. ToSet(t) \subseteq ToSet(s \o t)
  <2>1. \A i \in 1..Len(t) : Len(s) + i \in 1..(Len(s) + Len(t))
    OBVIOUS
  <2> QED BY <2>1, <1>3, <1>5 DEF ToSet
<1>8. ToSet(s \o t) \subseteq ToSet(s) \cup ToSet(t)
  <2>1. \A i \in 1..(Len(s) + Len(t)) : i \in 1..Len(s) \/ i \in (Len(s) + 1)..(Len(s) + Len(t))
    OBVIOUS
  <2> QED BY <2>1, <1>2, <1>4, <1>5 DEF ToSet
<1> QED BY <1>6, <1>7, <1>8

LEMMA SetOfSeq ==
  ASSUME NEW S, NEW s \in Seq(S) PROVE ToSet(s) \subseteq S
BY DEF ToSet

LEMMA OnceMore ==
  ASSUME NEW S, NEW s \in Seq(S), NEW e \in S, IsInjective(s), e \notin ToSet(s)
  PROVE  IsInjective(Append(s, e))
<1>1. DOMAIN Append(s, e) = 1..(Len(s) + 1) /\ DOMAIN s = 1..Len(s)
  BY AppendProperties
<1>2. \A i \in 1..Len(s) : Append(s, e)[i] = s[i] /\ s[i] # e
  BY AppendProperties DEF ToSet
<1>3. Append(s, e)[Len(s) + 1] = e
  BY AppendProperties
<1> QED BY <1>1, <1>2, <1>3 DEF IsInjective

Joined(s, t) == s \o t
With(s, e)   == Append(s, e)

LEMMA ConcatThenAppend ==
  ASSUME NEW S, NEW s \in Seq(S), NEW t \in Seq(S), NEW e \in S
  PROVE  With(Joined(s, t), e) = Joined(s, With(t, e))
<1>1. s \o t \in Seq(S) /\ <<e>> \in Seq(S)
  BY ConcatProperties
<1>2. Append(s \o t, e) = (s \o t) \o <<e>> /\ Append(t, e) = t \o <<e>>
  BY <1>1, AppendIsConcat
<1>3. (s \o t) \o <<e>> = s \o (t \o <<e>>)
  BY <1>1, ConcatAssociative
<1>4. Append(s \o t, e) = s \o Append(t, e)
  BY <1>2, <1>3
<1> QED BY <1>4, Zenon DEF Joined, With

LEMMA NoneOnce == IsInjective(<<>>)
BY DEF IsInjective

-----------------------------------------------------------------------------
(* The service. *)

\* Versions are only added.
Grows(s, t) ==
  /\ DOMAIN s \subseteq DOMAIN t
  /\ \A c \in DOMAIN s :
       /\ Len(s[c].log) <= Len(t[c].log)
       /\ \A i \in 1..Len(s[c].log) : t[c].log[i] = s[c].log[i]

LEMMA RowFacts ==
  ASSUME NEW m \in Nat, NEW s, ServerOK(m, s), NEW c \in DOMAIN s
  PROVE  /\ RowOK(m, s[c]) /\ s[c].log \in Seq(DocsOf(m)) /\ Len(s[c].log) \in Nat
         /\ DOMAIN s[c].log = 1..Len(s[c].log) /\ Len(s[c].log) > 0
         /\ \A i \in 1..Len(s[c].log) : s[c].log[i] \in DocsOf(m)
         /\ DOMAIN s = 1..Len(s) /\ Len(s) \in Nat /\ c \in 1..Len(s)
<1>1. s[c] \in Rows(m) /\ DOMAIN s = 1..Len(s) /\ Len(s) \in Nat
  BY DEF ServerOK
<1>2. s[c].log \in Seq(DocsOf(m)) /\ s[c].log # <<>>
  BY <1>1 DEF ServerOK, Rows
<1> QED BY <1>1, <1>2 DEF RowOK

LEMMA WasGrows ==
  ASSUME NEW m \in Nat, NEW s, NEW t, ServerOK(m, s), ServerOK(m, t), Grows(s, t),
         NEW c, NEW n, NEW doc, Was(s, c, n, doc)
  PROVE  Was(t, c, n, doc)
<1>1. c \in DOMAIN s /\ c \in DOMAIN t
  BY DEF Grows, Was
<1>2. Len(s[c].log) \in Nat /\ Len(t[c].log) \in Nat
  BY <1>1, RowFacts
<1> QED BY <1>1, <1>2 DEF Grows, Was

LEMMA InServerGrows ==
  ASSUME NEW m \in Nat, NEW s, NEW t, ServerOK(m, s), ServerOK(m, t), Grows(s, t),
         NEW e, InServer(s, e)
  PROVE  InServer(t, e)
<1>0. PICK c \in DOMAIN s : \E i \in DOMAIN s[c].log : e \in ToSet(s[c].log[i])
  BY DEF InServer
<1>1. PICK i \in DOMAIN s[c].log : e \in ToSet(s[c].log[i])
  BY <1>0
<1>2. c \in DOMAIN t
  BY DEF Grows
<1>3. /\ Len(s[c].log) \in Nat /\ Len(t[c].log) \in Nat
      /\ DOMAIN s[c].log = 1..Len(s[c].log) /\ DOMAIN t[c].log = 1..Len(t[c].log)
  BY <1>2, RowFacts
<1>4. i \in DOMAIN t[c].log /\ t[c].log[i] = s[c].log[i]
  BY <1>1, <1>3 DEF Grows
<1> QED BY <1>1, <1>2, <1>4 DEF InServer

LEMMA WasDoc ==
  ASSUME NEW m \in Nat, NEW s, ServerOK(m, s), NEW c, NEW n, NEW doc, Was(s, c, n, doc)
  PROVE  /\ doc \in DocsOf(m) /\ n \in Nat
         /\ ServerOnce(s) => IsInjective(doc)
         /\ \A e \in ToSet(doc) : InServer(s, e)
<1>1. c \in DOMAIN s /\ n \in 1..Len(s[c].log) /\ doc = s[c].log[n]
  BY DEF Was
<1>2. /\ DOMAIN s[c].log = 1..Len(s[c].log) /\ Len(s[c].log) \in Nat
      /\ \A i \in 1..Len(s[c].log) : s[c].log[i] \in DocsOf(m)
  BY <1>1, RowFacts
<1> QED BY <1>1, <1>2 DEF ServerOnce, RowOnce, Once, InServer

LEMMA OnceAppended ==
  ASSUME NEW m, NEW docs \in Seq(DocsOf(m)), NEW doc \in DocsOf(m), Once(docs), IsInjective(doc)
  PROVE  Once(Append(docs, doc))
BY AppendProperties DEF Once

\* What is appended to a log, and what stays of a entry.
LEMMA RowUpdate ==
  ASSUME NEW m, NEW s \in Rows(m), NEW l, NEW p, NEW f
  PROVE  [s EXCEPT !.log = l, !.past = p, !.future = f] =
           [log |-> l, past |-> p, future |-> f, boards |-> s.boards]
<1>1. s = [log |-> s.log, past |-> s.past, future |-> s.future, boards |-> s.boards]
  BY DEF Rows
<1>2. DOMAIN s = {"log", "past", "future", "boards"}
  BY <1>1
<1> DEFINE u == [s EXCEPT !.log = l, !.past = p, !.future = f]
<1>3. /\ DOMAIN u = {"log", "past", "future", "boards"}
      /\ u.log = l /\ u.past = p /\ u.future = f /\ u.boards = s.boards
      /\ u = [x \in {"log", "past", "future", "boards"} |-> u[x]]
  BY <1>2
<1> HIDE DEF u
<1>4. u = [log |-> l, past |-> p, future |-> f, boards |-> s.boards]
  BY <1>3
<1> QED BY <1>4 DEF u

LEMMA EditedRow ==
  ASSUME NEW m \in Nat, NEW s, RowOK(m, s), NEW doc \in DocsOf(m)
  PROVE  LET t == Edited(s, doc)
         IN /\ RowOK(m, t) /\ t.log = Append(s.log, doc)
            /\ RowOnce(s) /\ IsInjective(doc) => RowOnce(t)
<1> DEFINE t == Edited(s, doc)
<1>0. /\ s \in Rows(m) /\ s.log # <<>> /\ s.boards \in Nat
      /\ s.log \in Seq(DocsOf(m)) /\ s.past \in Seq(DocsOf(m)) /\ s.future \in Seq(DocsOf(m))
  BY DEF RowOK, Rows
<1>1. t = [log |-> Append(s.log, doc), past |-> Append(s.past, Last(s.log)), future |-> <<>>, boards |-> s.boards]
  BY <1>0, RowUpdate DEF Edited
<1>2. Last(s.log) \in DocsOf(m) /\ Len(s.log) \in DOMAIN s.log
  BY <1>0 DEF Last
<1>3. Append(s.log, doc) \in Seq(DocsOf(m)) /\ Append(s.past, Last(s.log)) \in Seq(DocsOf(m))
      /\ Append(s.log, doc) # <<>>
  BY <1>0, <1>2, AppendProperties
<1>4. RowOK(m, t)
  BY <1>0, <1>1, <1>3 DEF RowOK, Rows
<1>5. ASSUME RowOnce(s), IsInjective(doc) PROVE RowOnce(t)
  <2>1. Once(Append(s.log, doc))
    BY <1>0, <1>5, OnceAppended DEF RowOnce
  <2>2. IsInjective(Last(s.log))
    BY <1>2, <1>5 DEF RowOnce, Once, Last
  <2>3. Once(Append(s.past, Last(s.log)))
    BY <1>0, <1>2, <1>5, <2>2, OnceAppended DEF RowOnce
  <2> QED BY <1>1, <2>1, <2>3 DEF RowOnce, Once
<1> QED BY <1>1, <1>4, <1>5

LEMMA UndoneRow ==
  ASSUME NEW m \in Nat, NEW s, RowOK(m, s), s.past # <<>>
  PROVE  LET t == Undone(s) doc == Last(s.past)
         IN /\ RowOK(m, t) /\ t.log = Append(s.log, doc) /\ doc \in DocsOf(m)
            /\ RowOnce(s) => RowOnce(t) /\ IsInjective(doc)
<1> DEFINE t == Undone(s)
           doc == Last(s.past)
<1>0. /\ s \in Rows(m) /\ s.log # <<>> /\ s.boards \in Nat
      /\ s.log \in Seq(DocsOf(m)) /\ s.past \in Seq(DocsOf(m)) /\ s.future \in Seq(DocsOf(m))
  BY DEF RowOK, Rows
<1>1. t = [log |-> Append(s.log, doc), past |-> Front(s.past), future |-> <<Last(s.log)>> \o s.future, boards |-> s.boards]
  BY <1>0, RowUpdate DEF Undone
<1>2. Last(s.log) \in DocsOf(m) /\ Len(s.log) \in DOMAIN s.log /\ doc \in DocsOf(m) /\ Len(s.past) \in DOMAIN s.past
  BY <1>0 DEF Last
<1>3. Append(s.log, doc) \in Seq(DocsOf(m)) /\ Append(s.log, doc) # <<>>
  BY <1>0, <1>2, AppendProperties
<1>4. /\ Front(s.past) \in Seq(DocsOf(m)) /\ Len(Front(s.past)) = Len(s.past) - 1
      /\ \A i \in 1..(Len(s.past) - 1) : Front(s.past)[i] = s.past[i]
  <2>1. \A i \in 1..(Len(s.past) - 1) : s.past[i] \in DocsOf(m)
    BY <1>0
  <2>2. Len(s.past) - 1 \in Nat
    BY <1>0, <1>2
  <2> QED BY <2>1, <2>2, SubSeqProperties DEF Front
<1>5. /\ <<Last(s.log)>> \o s.future \in Seq(DocsOf(m))
      /\ Len(<<Last(s.log)>> \o s.future) = Len(s.future) + 1
      /\ \A i \in 1..(Len(s.future) + 1) :
           (<<Last(s.log)>> \o s.future)[i] = IF i <= 1 THEN Last(s.log) ELSE s.future[i - 1]
  <2>1. <<Last(s.log)>> \in Seq(DocsOf(m)) /\ Len(<<Last(s.log)>>) = 1 /\ <<Last(s.log)>>[1] = Last(s.log)
        /\ s.future \in Seq(DocsOf(m))
    BY <1>0, <1>2
  <2> HIDE DEF doc, t
  <2> QED BY <2>1, ConcatProperties
<1>6. RowOK(m, t)
  BY <1>0, <1>1, <1>3, <1>4, <1>5 DEF RowOK, Rows
<1>7. ASSUME RowOnce(s) PROVE RowOnce(t) /\ IsInjective(doc)
  <2>1. IsInjective(doc) /\ IsInjective(Last(s.log))
    BY <1>2, <1>7 DEF RowOnce, Once, Last
  <2>2. Once(Append(s.log, doc))
    BY <1>0, <1>2, <1>7, <2>1, OnceAppended DEF RowOnce
  <2>3. Once(Front(s.past))
    BY <1>0, <1>2, <1>4, <1>7 DEF RowOnce, Once
  <2>4. Once(<<Last(s.log)>> \o s.future)
    <3>1. DOMAIN (<<Last(s.log)>> \o s.future) = 1..(Len(s.future) + 1) /\ Len(s.future) \in Nat
          /\ DOMAIN s.future = 1..Len(s.future)
      BY <1>0, <1>5
    <3>2. \A i \in 1..(Len(s.future) + 1) : i <= 1 \/ i - 1 \in 1..Len(s.future)
      BY <3>1
    <3> QED BY <1>5, <1>7, <2>1, <3>1, <3>2 DEF RowOnce, Once
  <2> QED BY <1>1, <2>1, <2>2, <2>3, <2>4 DEF RowOnce
<1> QED BY <1>1, <1>2, <1>6, <1>7

LEMMA RedoneRow ==
  ASSUME NEW m \in Nat, NEW s, RowOK(m, s), s.future # <<>>
  PROVE  LET t == Redone(s) doc == Head(s.future)
         IN /\ RowOK(m, t) /\ t.log = Append(s.log, doc) /\ doc \in DocsOf(m)
            /\ RowOnce(s) => RowOnce(t) /\ IsInjective(doc)
<1> DEFINE t == Redone(s)
           doc == Head(s.future)
<1>0. /\ s \in Rows(m) /\ s.log # <<>> /\ s.boards \in Nat
      /\ s.log \in Seq(DocsOf(m)) /\ s.past \in Seq(DocsOf(m)) /\ s.future \in Seq(DocsOf(m))
  BY DEF RowOK, Rows
<1>1. t = [log |-> Append(s.log, doc), past |-> Append(s.past, Last(s.log)), future |-> Tail(s.future), boards |-> s.boards]
  BY <1>0, RowUpdate DEF Redone
<1>2. Last(s.log) \in DocsOf(m) /\ Len(s.log) \in DOMAIN s.log /\ doc \in DocsOf(m) /\ doc = s.future[1]
      /\ 1 \in DOMAIN s.future
  BY <1>0 DEF Last
<1>3. Append(s.log, doc) \in Seq(DocsOf(m)) /\ Append(s.log, doc) # <<>>
      /\ Append(s.past, Last(s.log)) \in Seq(DocsOf(m))
  BY <1>0, <1>2, AppendProperties
<1>4. /\ Tail(s.future) \in Seq(DocsOf(m)) /\ Len(Tail(s.future)) = Len(s.future) - 1
      /\ \A i \in 1..(Len(s.future) - 1) : Tail(s.future)[i] = s.future[i + 1]
  BY <1>0, HeadTailProperties
<1>5. RowOK(m, t)
  BY <1>0, <1>1, <1>3, <1>4 DEF RowOK, Rows
<1>6. ASSUME RowOnce(s) PROVE RowOnce(t) /\ IsInjective(doc)
  <2>1. IsInjective(doc) /\ IsInjective(Last(s.log))
    BY <1>2, <1>6 DEF RowOnce, Once, Last
  <2>2. Once(Append(s.log, doc)) /\ Once(Append(s.past, Last(s.log)))
    BY <1>0, <1>2, <1>6, <2>1, OnceAppended DEF RowOnce
  <2>3. Once(Tail(s.future))
    <3>1. DOMAIN Tail(s.future) = 1..(Len(s.future) - 1) /\ Len(s.future) \in Nat
          /\ DOMAIN s.future = 1..Len(s.future)
      BY <1>0, <1>2, <1>4
    <3>2. \A i \in 1..(Len(s.future) - 1) : i + 1 \in 1..Len(s.future)
      BY <3>1
    <3> QED BY <1>4, <1>6, <3>1, <3>2 DEF RowOnce, Once
  <2> QED BY <1>1, <2>2, <2>3, <2>1 DEF RowOnce
<1> QED BY <1>1, <1>2, <1>5, <1>6

\* A canvas that gets a version, and a canvas more.
LEMMA VersionAdded ==
  ASSUME NEW m \in Nat, NEW s, ServerOK(m, s), NEW c \in DOMAIN s, NEW entry, RowOK(m, entry),
         NEW doc \in DocsOf(m), entry.log = Append(s[c].log, doc), NEW t, t = [s EXCEPT ![c] = entry]
  PROVE  /\ ServerOK(m, t) /\ Grows(s, t) /\ Was(t, c, Len(entry.log), doc) /\ Last(entry.log) = doc
         /\ ServerOnce(s) /\ RowOnce(entry) => ServerOnce(t)
<1>0. s \in Seq(Rows(m)) /\ entry \in Rows(m) /\ entry.log # <<>> /\ DOMAIN s = 1..Len(s)
  BY DEF ServerOK, RowOK
<1>1. DOMAIN t = DOMAIN s /\ t[c] = entry /\ (\A b \in DOMAIN s : b # c => t[b] = s[b]) /\ t \in Seq(Rows(m))
  BY <1>0
<1>2. s[c].log \in Seq(DocsOf(m)) /\ Len(s[c].log) \in Nat
  BY RowFacts
<1>3. Len(entry.log) = Len(s[c].log) + 1 /\ entry.log[Len(entry.log)] = doc
      /\ \A i \in 1..Len(s[c].log) : entry.log[i] = s[c].log[i]
  BY <1>2, AppendProperties
<1>4. ServerOK(m, t)
  BY <1>0, <1>1 DEF ServerOK
<1>5. Grows(s, t)
  <2>1. \A b \in DOMAIN s : Len(s[b].log) \in Nat
    BY RowFacts
  <2> QED BY <1>1, <1>2, <1>3, <2>1 DEF Grows
<1>6. Was(t, c, Len(entry.log), doc) /\ Last(entry.log) = doc
  BY <1>1, <1>2, <1>3 DEF Was, Last
<1> QED BY <1>1, <1>4, <1>5, <1>6 DEF ServerOnce

LEMMA CanvasAdded ==
  ASSUME NEW m \in Nat, NEW s, ServerOK(m, s), NEW doc \in DocsOf(m), NEW boards \in Nat,
         NEW t, t = Append(s, NewCanvas(doc, boards))
  PROVE  /\ ServerOK(m, t) /\ Grows(s, t) /\ Was(t, Len(s) + 1, 1, doc) /\ Len(s) + 1 \in DOMAIN t
         /\ ServerOnce(s) /\ IsInjective(doc) => ServerOnce(t)
<1> DEFINE entry == NewCanvas(doc, boards)
<1>1. entry = [log |-> <<doc>>, past |-> <<>>, future |-> <<>>, boards |-> boards]
  BY DEF NewCanvas
<1>2. entry \in Rows(m) /\ entry.log # <<>> /\ Len(entry.log) = 1 /\ entry.log[1] = doc /\ (IsInjective(doc) => RowOnce(entry))
  BY <1>1 DEF Rows, RowOnce, Once
<1> HIDE DEF entry
<1>3. s \in Seq(Rows(m)) /\ DOMAIN s = 1..Len(s) /\ Len(s) \in Nat /\ t = Append(s, entry)
  BY DEF ServerOK, entry
<1>4. /\ DOMAIN t = 1..(Len(s) + 1) /\ t[Len(s) + 1] = entry /\ t \in Seq(Rows(m))
      /\ \A c \in 1..Len(s) : t[c] = s[c]
  BY <1>2, <1>3, AppendProperties
<1>5. ServerOK(m, t)
  BY <1>2, <1>3, <1>4 DEF ServerOK
<1>6. Grows(s, t)
  <2>1. \A b \in DOMAIN s : Len(s[b].log) \in Nat
    BY RowFacts
  <2> QED BY <1>3, <1>4, <2>1 DEF Grows
<1>7. Was(t, Len(s) + 1, 1, doc)
  BY <1>2, <1>3, <1>4 DEF Was
<1>8. ServerOnce(s) /\ IsInjective(doc) => ServerOnce(t)
  BY <1>2, <1>3, <1>4 DEF ServerOnce
<1> QED BY <1>3, <1>4, <1>5, <1>6, <1>7, <1>8

\* What the window and its requests know of the service stays true as it grows.
LEMMA AnswerGrows ==
  ASSUME NEW m \in Nat, NEW s, NEW t, ServerOK(m, s), ServerOK(m, t), Grows(s, t),
         NEW kind, NEW canvas, NEW reply, AnswerOK(s, kind, canvas, reply)
  PROVE  AnswerOK(t, kind, canvas, reply)
<1>1. DOMAIN s \subseteq DOMAIN t
  BY DEF Grows
<1>2. ASSUME PayloadOf(s, reply) PROVE PayloadOf(t, reply)
  BY <1>2, WasGrows DEF PayloadOf
<1>3. ASSUME ListOf(s, reply) PROVE ListOf(t, reply)
  BY <1>1, <1>3 DEF ListOf
<1> QED BY <1>2, <1>3 DEF AnswerOK

LEMMA PageGrows ==
  ASSUME NEW m \in Nat, NEW s, NEW t, NEW w, NEW R, PageOK(s, m, w, R), ServerOK(m, t), Grows(s, t)
  PROVE  PageOK(t, m, w, R)
<1>1. DOMAIN s \subseteq DOMAIN t /\ ServerOK(m, s)
  BY DEF Grows, PageOK
<1>2. WindowOK(t, m, w)
  BY <1>1 DEF PageOK, WindowOK
<1>3. ASSUME NEW r \in R PROVE RequestOK(t, m, r)
  <2>1. RequestOK(s, m, r)
    BY DEF PageOK
  <2>2. r.reply # None => AnswerOK(t, r.kind, r.canvas, r.reply)
    BY <1>1, <2>1, AnswerGrows DEF RequestOK
  <2> QED BY <1>1, <2>1, <2>2 DEF RequestOK
<1> QED BY <1>2, <1>3 DEF PageOK

LEMMA KeptGrows ==
  ASSUME NEW m \in Nat, NEW s, NEW t, NEW w, NEW R, NEW d,
         PageOK(s, m, w, R), DraftKept(s, m, w, R, d), ServerOK(m, t), Grows(s, t), ServerOnce(t)
  PROVE  DraftKept(t, m, w, R, d)
<1>1. ServerOK(m, s)
  BY DEF PageOK
<1>2. DraftOK(t, w, R)
  <2>1. DraftOK(s, w, R)
    BY DEF DraftKept
  <2>2. CASE w.canvas = None
    BY <2>1, <2>2 DEF DraftOK
  <2>3. CASE w.canvas # None
    <3>1. PICK base :
            /\ Was(s, w.canvas, w.counter, base)
            /\ Batches(R) = {} => w.document = base \o w.queue
            /\ \A r \in Batches(R) :
                 w.canvas = r.canvas /\ w.counter = r.counter /\ w.document = base \o r.edits /\ w.label # "saved"
      BY <2>1, <2>3 DEF DraftOK
    <3>2. Was(t, w.canvas, w.counter, base)
      BY <1>1, <3>1, WasGrows
    <3> QED BY <2>1, <2>3, <3>1, <3>2 DEF DraftOK
  <2> QED BY <2>2, <2>3
<1>3. FlightOK(t, w, R)
  <2>1. FlightOK(s, w, R)
    BY DEF DraftKept
  <2>2. ASSUME NEW r \in R, r.kind = "commands"
        PROVE  \E base : Was(t, r.canvas, r.counter, base) /\ IsInjective(base \o r.edits)
    <3>1. PICK base : Was(s, r.canvas, r.counter, base) /\ IsInjective(base \o r.edits)
      BY <2>1, <2>2 DEF FlightOK
    <3>2. Was(t, r.canvas, r.counter, base)
      BY <1>1, <3>1, WasGrows
    <3> QED BY <3>1, <3>2
  <2> QED BY <2>1, <2>2 DEF FlightOK
<1>4. ASSUME NEW e \in 1..m PROVE Somewhere(t, w, R, d, e)
  <2>1. Somewhere(s, w, R, d, e)
    BY DEF DraftKept
  <2>2. InServer(s, e) => InServer(t, e)
    BY <1>1, InServerGrows
  <2> QED BY <2>1, <2>2 DEF Somewhere
<1> QED BY <1>2, <1>3, <1>4 DEF DraftKept

-----------------------------------------------------------------------------
(* A request is served. *)

\* What a request must hold for its service to write no edit twice.
Harmless(s, r) ==
  /\ r.kind = "commands" => \E base : Was(s, r.canvas, r.counter, base) /\ IsInjective(base \o r.edits)
  /\ r.kind = "fork" => IsInjective(r.edits)

\* What serving r makes of the canvases s, and what it answers.
ServedOK(m, s, t, r, reply) ==
  /\ ServerOK(m, t) /\ Grows(s, t)
  /\ AnswerOK(t, r.kind, r.canvas, reply)
  /\ r.kind = "list" => reply.canvases = DOMAIN s
  /\ ServerOnce(s) /\ Harmless(s, r) => ServerOnce(t)
  /\ r.kind \in {"fork", "commands"} /\ reply.ok => ToSet(r.edits) \subseteq ToSet(reply.document)

LEMMA PayloadFacts ==
  ASSUME NEW s, NEW c, NEW n, NEW doc, Was(s, c, n, doc)
  PROVE  PayloadOf(s, [ok |-> TRUE, canvas |-> c, counter |-> n, document |-> doc])
BY DEF PayloadOf

LEMMA ServedReads ==
  ASSUME NEW m \in Nat, ServerOK(m, server), NEW r, RequestOK(server, m, r), r.kind \in ReadKinds
  PROVE  ServedOK(m, server, Served(r)[1], r, Served(r)[2])
<1>1. Grows(server, server)
  BY DEF Grows
<1>2. CASE r.kind = "list"
  <2>1. Served(r) = <<server, [ok |-> TRUE, canvases |-> DOMAIN server]>>
    BY <1>2 DEF Served, Canvases
  <2>2. DOMAIN server = 1..Len(server) /\ Len(server) \in Nat
    BY DEF ServerOK
  <2>3. DOMAIN server # {} => 1 \in DOMAIN server
    BY <2>2
  <2> DEFINE reply == [ok |-> TRUE, canvases |-> DOMAIN server]
  <2>4. ListOf(server, reply) /\ reply.canvases = DOMAIN server
    BY <2>3 DEF ListOf
  <2> HIDE DEF reply
  <2>5. Served(r)[1] = server /\ Served(r)[2] = reply
    BY <2>1 DEF reply
  <2> QED BY <1>1, <1>2, <2>4, <2>5 DEF ServedOK, AnswerOK
<1>3. CASE r.kind = "load"
  <2> DEFINE c == r.canvas
  <2>1. Served(r) = <<server, Shows(c, server[c])>> /\ c \in DOMAIN server
    BY <1>3 DEF Served, RequestOK
  <2> HIDE DEF c
  <2>2. /\ Len(server[c].log) \in Nat /\ Len(server[c].log) > 0
    BY <2>1, RowFacts
  <2>3. Was(server, c, Len(server[c].log), Last(server[c].log))
    BY <2>1, <2>2 DEF Was, Last
  <2>4. PayloadOf(server, Shows(c, server[c]))
    BY <2>3 DEF PayloadOf, Shows
  <2> QED BY <1>1, <1>3, <2>1, <2>4 DEF ServedOK, AnswerOK, Shows, c
<1> QED BY <1>2, <1>3 DEF ReadKinds

LEMMA ServedNew ==
  ASSUME NEW m \in Nat, ServerOK(m, server), NEW r, RequestOK(server, m, r), r.kind \in {"create", "fork"}
  PROVE  ServedOK(m, server, Served(r)[1], r, Served(r)[2])
<1> DEFINE doc == IF r.kind = "create" THEN <<>> ELSE r.edits
           boards == IF r.kind = "create" THEN Len(server) + 1 ELSE server[r.canvas].boards
           entry == NewCanvas(doc, boards)
           t == Append(server, entry)
<1>1. Served(r) = <<t, Shows(Len(server) + 1, entry)>>
  BY DEF Served, Done
<1>2. doc \in DocsOf(m) /\ boards \in Nat /\ Len(server) \in Nat
  <2>1. CASE r.kind = "create"
    BY <2>1 DEF ServerOK, DocsOf
  <2>2. CASE r.kind = "fork"
    <3>1. r.canvas \in DOMAIN server /\ r.edits \in DocsOf(m)
      BY <2>2 DEF RequestOK
    <3>2. RowOK(m, server[r.canvas])
      BY <3>1, RowFacts
    <3> QED BY <2>2, <3>1, <3>2 DEF ServerOK, RowOK, Rows
  <2> QED BY <2>1, <2>2
<1>3. entry = [log |-> <<doc>>, past |-> <<>>, future |-> <<>>, boards |-> boards]
  BY DEF NewCanvas
<1>4. r.kind = "fork" => doc = r.edits
  OBVIOUS
<1>5. IsInjective(<<>>)
  BY NoneOnce
<1>6. Harmless(server, r) => IsInjective(doc)
  BY <1>5 DEF Harmless
<1> HIDE DEF doc, boards
<1>7. /\ ServerOK(m, t) /\ Grows(server, t) /\ Was(t, Len(server) + 1, 1, doc)
      /\ ServerOnce(server) /\ IsInjective(doc) => ServerOnce(t)
  BY <1>2, CanvasAdded
<1>8. Len(entry.log) = 1 /\ Last(entry.log) = doc
  BY <1>3 DEF Last
<1>9. Shows(Len(server) + 1, entry) = [ok |-> TRUE, canvas |-> Len(server) + 1, counter |-> 1, document |-> doc]
  BY <1>8 DEF Shows
<1> HIDE DEF t, entry
<1>10. PayloadOf(t, Shows(Len(server) + 1, entry))
  BY <1>7, <1>9, PayloadFacts
<1> QED BY <1>1, <1>4, <1>6, <1>7, <1>9, <1>10 DEF ServedOK, AnswerOK

LEMMA ServedWrites ==
  ASSUME NEW m \in Nat, ServerOK(m, server), NEW r, RequestOK(server, m, r),
         r.kind \in {"commands", "undo", "redo"}
  PROVE  ServedOK(m, server, Served(r)[1], r, Served(r)[2])
<1> DEFINE c == r.canvas
           s == server[c]
<1>0. c \in DOMAIN server
  BY DEF RequestOK
<1>1. /\ RowOK(m, s) /\ s.log \in Seq(DocsOf(m)) /\ Len(s.log) \in Nat /\ Len(s.log) > 0
      /\ DOMAIN s.log = 1..Len(s.log)
      /\ \A i \in 1..Len(s.log) : s.log[i] \in DocsOf(m)
  BY <1>0, RowFacts
<1>2. ASSUME Served(r) \in {<<server, Wrong("conflict")>>, <<server, Wrong("refused")>>}
      PROVE  ServedOK(m, server, Served(r)[1], r, Served(r)[2])
  <2>1. Grows(server, server)
    BY DEF Grows
  <2>2. Served(r)[1] = server /\ RefusalOf(Served(r)[2]) /\ ~Served(r)[2].ok
    BY <1>2 DEF RefusalOf, Wrong
  <2> QED BY <2>1, <2>2 DEF ServedOK, AnswerOK
<1>3. ASSUME r.counter = Version(c), Possible(r)
      PROVE  ServedOK(m, server, Served(r)[1], r, Served(r)[2])
  <2> DEFINE entry == Written(r)
             t == [server EXCEPT ![c] = entry]
  <2>1. Served(r) = <<t, Shows(c, entry)>>
    BY <1>3 DEF Served, Done
  <2>2. PICK doc \in DocsOf(m) :
          /\ RowOK(m, entry) /\ entry.log = Append(s.log, doc)
          /\ RowOnce(s) /\ Harmless(server, r) => RowOnce(entry)
          /\ r.kind = "commands" => ToSet(r.edits) \subseteq ToSet(doc)
    <3>1. CASE r.kind = "commands"
      <4> DEFINE base == Last(s.log)
                 doc == base \o r.edits
      <4>1. entry = Edited(s, doc)
        BY <3>1 DEF Written
      <4>2. base = s.log[Len(s.log)] /\ base \in DocsOf(m) /\ r.edits \in DocsOf(m)
        BY <1>1 DEF Last, RequestOK
      <4>3. doc \in DocsOf(m)
        BY <4>2, ConcatProperties DEF DocsOf
      <4>4. ToSet(r.edits) \subseteq ToSet(doc)
        BY <4>2, SetOfConcat DEF DocsOf
      <4>5. ASSUME Harmless(server, r) PROVE IsInjective(doc)
        <5>1. PICK b : Was(server, r.canvas, r.counter, b) /\ IsInjective(b \o r.edits)
          BY <3>1, <4>5 DEF Harmless
        <5>2. b = base
          BY <1>3, <4>2, <5>1 DEF Was, Version
        <5> QED BY <5>1, <5>2
      <4> HIDE DEF doc, base
      <4>6. RowOK(m, entry) /\ entry.log = Append(s.log, doc) /\ (RowOnce(s) /\ IsInjective(doc) => RowOnce(entry))
        BY <1>1, <4>1, <4>3, EditedRow
      <4> QED BY <3>1, <4>3, <4>4, <4>5, <4>6
    <3>2. CASE r.kind = "undo"
      <4>1. entry = Undone(s) /\ s.past # <<>>
        BY <1>3, <3>2 DEF Written, Possible
      <4> QED BY <1>1, <3>2, <4>1, UndoneRow
    <3>3. CASE r.kind = "redo"
      <4>1. entry = Redone(s) /\ s.future # <<>>
        BY <1>3, <3>3 DEF Written, Possible
      <4> QED BY <1>1, <3>3, <4>1, RedoneRow
    <3> QED BY <3>1, <3>2, <3>3
  <2>7. t = [server EXCEPT ![c] = entry] /\ entry.log = Append(server[c].log, doc) /\ RowOK(m, entry)
    BY <2>2
  <2> HIDE DEF entry, t, s
  <2>3. /\ ServerOK(m, t) /\ Grows(server, t) /\ Was(t, c, Len(entry.log), doc) /\ Last(entry.log) = doc
        /\ ServerOnce(server) /\ RowOnce(entry) => ServerOnce(t)
    <3> HIDE DEF c
    <3> QED BY <1>0, <2>7, VersionAdded
  <2>4. ServerOnce(server) => RowOnce(s)
    BY <1>0 DEF ServerOnce, s
  <2>5. Shows(c, entry) = [ok |-> TRUE, canvas |-> c, counter |-> Len(entry.log), document |-> doc]
    BY <2>3 DEF Shows
  <2>6. PayloadOf(t, Shows(c, entry)) /\ Shows(c, entry).canvas = r.canvas
    BY <2>3, <2>5 DEF PayloadOf
  <2> QED BY <2>1, <2>2, <2>3, <2>4, <2>5, <2>6 DEF ServedOK, AnswerOK
<1>4. \/ Served(r) \in {<<server, Wrong("conflict")>>, <<server, Wrong("refused")>>}
      \/ r.counter = Version(c) /\ Possible(r)
  BY DEF Served
<1> QED BY <1>2, <1>3, <1>4

LEMMA ServedFacts ==
  ASSUME NEW m \in Nat, ServerOK(m, server), NEW r, RequestOK(server, m, r)
  PROVE  ServedOK(m, server, Served(r)[1], r, Served(r)[2])
<1>1. r.kind \in ReadKinds \/ r.kind \in {"create", "fork"} \/ r.kind \in {"commands", "undo", "redo"}
  BY DEF RequestOK, PageKinds
<1> QED BY <1>1, ServedReads, ServedNew, ServedWrites

\* Fewer requests, and a request that gets its answer.
LEMMA FewerRequests ==
  ASSUME NEW m, NEW s, NEW w, NEW R, PageOK(s, m, w, R), NEW left, left \subseteq R
  PROVE  PageOK(s, m, w, left)
BY DEF PageOK, ReadsOK, HasCanvas

LEMMA AnsweredFields ==
  ASSUME NEW m, NEW s, NEW r, RequestOK(s, m, r), NEW reply, NEW a, a = [r EXCEPT !.reply = reply]
  PROVE  /\ a = [kind |-> r.kind, canvas |-> r.canvas, counter |-> r.counter, edits |-> r.edits,
                 then |-> r.then, newest |-> r.newest, orphan |-> r.orphan, reply |-> reply, n |-> r.n]
         /\ a.kind = r.kind /\ a.canvas = r.canvas /\ a.counter = r.counter /\ a.edits = r.edits
         /\ a.then = r.then /\ a.newest = r.newest /\ a.orphan = r.orphan /\ a.reply = reply /\ a.n = r.n
BY DEF RequestOK

LEMMA AnsweredOK ==
  ASSUME NEW m, NEW s, NEW w, NEW R, PageOK(s, m, w, R), NEW r \in R, ~r.orphan, NEW reply,
         AnswerOK(s, r.kind, r.canvas, reply),
         r.kind = "list" => reply.canvases # {} \/ w.canvas = None,
         NEW a, a = [r EXCEPT !.reply = reply]
  PROVE  PageOK(s, m, w, (R \ {r}) \cup {a})
<1>1. RequestOK(s, m, r)
  BY DEF PageOK
<1>2. /\ a = [kind |-> r.kind, canvas |-> r.canvas, counter |-> r.counter, edits |-> r.edits,
              then |-> r.then, newest |-> r.newest, orphan |-> r.orphan, reply |-> reply, n |-> r.n]
      /\ a.kind = r.kind /\ a.canvas = r.canvas /\ a.counter = r.counter /\ a.edits = r.edits
      /\ a.then = r.then /\ a.newest = r.newest /\ a.orphan = r.orphan /\ a.reply = reply /\ a.n = r.n
  BY <1>1, AnsweredFields
<1> DEFINE R2 == (R \ {r}) \cup {a}
<1>3. ASSUME NEW q \in R2 PROVE RequestOK(s, m, q)
  <2>1. CASE q \in R
    BY <2>1 DEF PageOK
  <2>2. CASE q = a
    BY <1>1, <1>2, <2>2 DEF RequestOK
  <2> QED BY <2>1, <2>2
<1>4. ReadsOK(w, R2)
  <2>1. ReadsOK(w, R) /\ (IsRead(a) <=> IsRead(r))
    BY <1>2 DEF PageOK, IsRead
  <2>2. ASSUME NEW q \in R2, NEW p \in R2, IsRead(q), IsRead(p) PROVE q = p
    <3>1. CASE q \in R /\ p \in R
      BY <2>1, <2>2, <3>1 DEF ReadsOK
    <3>2. CASE q = a /\ p \in R \ {r}
      BY <2>1, <2>2, <3>2 DEF ReadsOK
    <3>3. CASE p = a /\ q \in R \ {r}
      BY <2>1, <2>2, <3>3 DEF ReadsOK
    <3>4. q \in R \ {r} \/ q = a
      BY <2>2
    <3>5. p \in R \ {r} \/ p = a
      BY <2>2
    <3> QED BY <3>1, <3>2, <3>3, <3>4, <3>5
  <2>3. ASSUME NEW q \in R2, q.kind = "load", q.newest PROVE q.canvas \in w.options
    <3>1. CASE q \in R
      BY <2>1, <2>3, <3>1 DEF ReadsOK
    <3>2. CASE q = a
      BY <1>2, <2>1, <2>3, <3>2 DEF ReadsOK
    <3> QED BY <3>1, <3>2
  <2> QED BY <2>2, <2>3 DEF ReadsOK
<1>5. HasCanvas(w, R2)
  BY <1>2 DEF PageOK, HasCanvas, IsRead
<1> QED BY <1>3, <1>4, <1>5 DEF PageOK

LEMMA OrphanServed ==
  ASSUME NEW m, NEW s, NEW w, NEW R, NEW d, NEW r \in R, r.orphan
  PROVE  /\ DraftKept(s, m, w, R, d) => DraftKept(s, m, w, R \ {r}, d)
         /\ Follows(w, R) => Follows(w, R \ {r})
<1>1. WaitedFor(R \ {r}) = WaitedFor(R)
  BY DEF WaitedFor
<1>2. Unwritten(R \ {r}) = Unwritten(R) /\ Batches(R \ {r}) = Batches(R)
  BY <1>1 DEF Unwritten, Batches
<1> QED BY <1>1, <1>2 DEF DraftKept, Follows, Alone, DraftOK, FlightOK, Somewhere

LEMMA AnsweredKept ==
  ASSUME NEW m, NEW s, NEW w, NEW R, NEW d, NEW r \in R, ~r.orphan, RequestOK(s, m, r), NEW reply,
         r.kind \in {"fork", "commands"} /\ reply.ok => ToSet(r.edits) \subseteq ToSet(reply.document),
         NEW a, a = [r EXCEPT !.reply = reply]
  PROVE  /\ DraftKept(s, m, w, R, d) => DraftKept(s, m, w, (R \ {r}) \cup {a}, d)
         /\ Follows(w, R) => Follows(w, (R \ {r}) \cup {a})
<1>2. /\ a.kind = r.kind /\ a.canvas = r.canvas /\ a.counter = r.counter /\ a.edits = r.edits
      /\ a.then = r.then /\ a.newest = r.newest /\ a.orphan = r.orphan /\ a.reply = reply
  BY AnsweredFields
<1> DEFINE R2 == (R \ {r}) \cup {a}
<1>3. /\ WaitedFor(R2) = (WaitedFor(R) \ {r}) \cup {a} /\ r \in WaitedFor(R)
      /\ \A q \in Unwritten(R2) : q \in Unwritten(R) \/ (q = a /\ r \in Unwritten(R))
      /\ \A q \in Batches(R2) : q \in Batches(R) \/ (q = a /\ r \in Batches(R))
      /\ \A q \in Batches(R) : q \in Batches(R2) \/ (q = r /\ a \in Batches(R2))
  BY <1>2 DEF WaitedFor, Unwritten, Batches
<1>4. ASSUME Follows(w, R) PROVE Follows(w, R2)
  BY <1>2, <1>3, <1>4 DEF Follows, IsRead
<1>5. ASSUME DraftKept(s, m, w, R, d) PROVE DraftKept(s, m, w, R2, d)
  <2>1. Alone(R2)
    <3>1. SUFFICES ASSUME NEW q \in Unwritten(R2) PROVE WaitedFor(R2) = {q}
      BY DEF Alone
    <3>2. CASE q = a
      <4>1. r \in Unwritten(R)
        BY <1>2, <1>3, <3>2 DEF Unwritten
      <4> QED BY <1>3, <1>5, <3>2, <4>1 DEF DraftKept, Alone
    <3>3. CASE q \in Unwritten(R) /\ q # a
      <4>1. WaitedFor(R) = {q}
        BY <1>5, <3>3 DEF DraftKept, Alone
      <4>2. q = r
        BY <1>3, <4>1
      <4>3. q \in WaitedFor(R2)
        BY DEF Unwritten
      <4>4. WaitedFor(R2) = {a}
        BY <1>3, <4>1, <4>2
      <4> HIDE DEF R2
      <4> QED BY <3>3, <4>3, <4>4
    <3> QED BY <1>3, <3>2, <3>3
  <2>2. Batches(R2) = {} <=> Batches(R) = {}
    BY <1>3
  <2>3. DraftOK(s, w, R2)
    <3>1. CASE w.canvas = None
      BY <1>5, <3>1 DEF DraftKept, DraftOK
    <3>2. CASE w.canvas # None
      <4>1. PICK base :
              /\ Was(s, w.canvas, w.counter, base)
              /\ Batches(R) = {} => w.document = base \o w.queue
              /\ \A q \in Batches(R) :
                   w.canvas = q.canvas /\ w.counter = q.counter /\ w.document = base \o q.edits /\ w.label # "saved"
        BY <1>5, <3>2 DEF DraftKept, DraftOK
      <4>2. \A q \in Batches(R2) :
              w.canvas = q.canvas /\ w.counter = q.counter /\ w.document = base \o q.edits /\ w.label # "saved"
        <5>1. SUFFICES ASSUME NEW q \in Batches(R2)
                       PROVE  /\ w.canvas = q.canvas /\ w.counter = q.counter
                              /\ w.document = base \o q.edits /\ w.label # "saved"
          OBVIOUS
        <5>2. \E b \in Batches(R) : b.canvas = q.canvas /\ b.counter = q.counter /\ b.edits = q.edits
          BY <1>2, <1>3, <5>1
        <5> HIDE DEF R2
        <5> QED BY <4>1, <5>2
      <4> HIDE DEF R2
      <4> QED BY <1>5, <2>2, <3>2, <4>1, <4>2 DEF DraftKept, DraftOK
    <3> QED BY <3>1, <3>2
  <2>4. FlightOK(s, w, R2)
    <3>1. FlightOK(s, w, R)
      BY <1>5 DEF DraftKept
    <3>2. /\ \A q \in R2 : q.kind = "commands" =>
               \E base : Was(s, q.canvas, q.counter, base) /\ IsInjective(base \o q.edits)
          /\ \A q \in R2 : q.kind = "fork" => IsInjective(q.edits)
      BY <1>2, <3>1 DEF FlightOK
    <3>3. /\ \A q \in Unwritten(R2) : q.kind \in {"commands", "undo", "redo"} =>
               w.queue = <<>> /\ w.canvas # None /\ q.canvas = w.canvas
          /\ \A q \in Unwritten(R2) : q.kind = "fork" => ToSet(w.queue) \subseteq ToSet(q.edits)
      <4>1. SUFFICES ASSUME NEW q \in Unwritten(R2)
                     PROVE  /\ q.kind \in {"commands", "undo", "redo"} =>
                                 w.queue = <<>> /\ w.canvas # None /\ q.canvas = w.canvas
                            /\ q.kind = "fork" => ToSet(w.queue) \subseteq ToSet(q.edits)
        OBVIOUS
      <4>2. PICK p \in Unwritten(R) : p.kind = q.kind /\ p.canvas = q.canvas /\ p.edits = q.edits
        BY <1>2, <1>3
      <4> HIDE DEF R2
      <4> QED BY <3>1, <4>2 DEF FlightOK
    <3>4. \A q \in Unwritten(R2) : q.kind \in {"fork", "commands"} /\ q.reply # None /\ q.reply.ok =>
               ToSet(q.edits) \subseteq ToSet(q.reply.document)
      BY <1>2, <1>3, <3>1 DEF FlightOK
    <3> HIDE DEF R2
    <3> QED BY <3>2, <3>3, <3>4 DEF FlightOK
  <2>5. ASSUME NEW e \in 1..m PROVE Somewhere(s, w, R2, d, e)
    <3>1. Somewhere(s, w, R, d, e)
      BY <1>5 DEF DraftKept
    <3>2. ASSUME NEW q \in Batches(R), e \in ToSet(q.edits)
          PROVE  \E p \in Batches(R2) : e \in ToSet(p.edits)
      BY <1>2, <1>3, <3>2
    <3> HIDE DEF R2
    <3> QED BY <3>1, <3>2 DEF Somewhere
  <2> HIDE DEF R2
  <2> QED BY <1>5, <2>1, <2>3, <2>4, <2>5 DEF DraftKept
<1> QED BY <1>4, <1>5

LEMMA ServeKeepsPage ==
  ASSUME NEW m \in Nat, NEW r \in requests, PageOK(server, m, window, requests), ServeRequest(r)
  PROVE  /\ PageOK(server', m, window, requests')
         /\ Patient(server, m, window, requests, dropped) => Patient(server', m, window, requests', dropped)
<1> DEFINE t == Served(r)[1]
           reply == Served(r)[2]
           a == [r EXCEPT !.reply = reply]
<1>1. /\ RequestOK(server, m, r) /\ ServerOK(m, server) /\ r.reply = None
      /\ server' = t /\ requests' = (requests \ {r}) \cup (IF r.orphan THEN {} ELSE {a})
  BY DEF PageOK, ServeRequest
<1>2. ServedOK(m, server, t, r, reply)
  BY <1>1, ServedFacts
<1> HIDE DEF t, reply
<1>3. PageOK(t, m, window, requests)
  BY <1>2, PageGrows DEF ServedOK
<1>4. r.kind = "list" => reply.canvases # {} \/ window.canvas = None
  <2>1. r.kind = "list" => reply.canvases = DOMAIN server
    BY <1>2 DEF ServedOK
  <2>2. window.canvas \in DOMAIN server \cup {None}
    BY DEF PageOK, WindowOK
  <2> QED BY <2>1, <2>2
<1>5. r.kind \in {"fork", "commands"} /\ reply.ok => ToSet(r.edits) \subseteq ToSet(reply.document)
  BY <1>2 DEF ServedOK
<1>6. ASSUME Patient(server, m, window, requests, dropped)
      PROVE  DraftKept(t, m, window, requests, dropped) /\ Follows(window, requests)
  <2>1. Harmless(server, r) /\ ServerOnce(server)
    BY <1>6 DEF Patient, DraftKept, FlightOK, Harmless
  <2>2. ServerOK(m, t) /\ Grows(server, t) /\ ServerOnce(t)
    BY <1>2, <2>1 DEF ServedOK
  <2> QED BY <1>6, <2>2, KeptGrows DEF Patient
<1>7. RequestOK(t, m, r)
  BY <1>3 DEF PageOK
<1>8. CASE r.orphan
  <2>1. requests' = requests \ {r}
    BY <1>1, <1>8
  <2>2. PageOK(t, m, window, requests')
    BY <1>3, <2>1, FewerRequests
  <2> QED BY <1>1, <1>6, <1>8, <2>1, <2>2, OrphanServed DEF Patient
<1>9. CASE ~r.orphan
  <2>1. requests' = (requests \ {r}) \cup {a}
    BY <1>1, <1>9
  <2>2. AnswerOK(t, r.kind, r.canvas, reply)
    BY <1>2 DEF ServedOK
  <2> HIDE DEF a
  <2>3. a = [r EXCEPT !.reply = reply]
    BY DEF a
  <2>4. PageOK(t, m, window, requests')
    BY <1>3, <1>4, <1>9, <2>1, <2>2, <2>3, AnsweredOK
  <2>5. ASSUME Patient(server, m, window, requests, dropped) PROVE Patient(t, m, window, requests', dropped)
    BY <1>5, <1>6, <1>7, <1>9, <2>1, <2>3, <2>5, AnsweredKept DEF Patient
  <2> QED BY <1>1, <2>4, <2>5
<1> QED BY <1>8, <1>9

LEMMA OtherKeepsPage ==
  ASSUME NEW m \in Nat, NEW c \in Canvases, NEW e \in Theirs, PageOK(server, m, window, requests),
         OtherWindow(c, e)
  PROVE  /\ PageOK(server', m, window, requests)
         /\ Patient(server, m, window, requests, dropped) => Patient(server', m, window, requests, dropped)
<1> DEFINE s == server[c]
           base == Last(s.log)
           doc == Append(base, e)
           entry == Edited(s, doc)
<1>1. /\ ServerOK(m, server) /\ c \in DOMAIN server
      /\ \A b \in DOMAIN server : \A i \in DOMAIN server[b].log : ~Contains(server[b].log[i], e)
      /\ server' = [server EXCEPT ![c] = entry]
  BY DEF PageOK, OtherWindow, Canvases
<1>2. /\ RowOK(m, s) /\ s.log \in Seq(DocsOf(m)) /\ Len(s.log) \in DOMAIN s.log
      /\ \A i \in 1..Len(s.log) : s.log[i] \in DocsOf(m)
  BY <1>1, RowFacts
<1>3. base = s.log[Len(s.log)] /\ base \in DocsOf(m) /\ e \in EditsOf(m)
  BY <1>2 DEF Last, EditsOf
<1>4. doc \in DocsOf(m)
  BY <1>3, AppendProperties DEF DocsOf
<1>5. e \notin ToSet(base)
  <2>1. ~Contains(base, e)
    BY <1>1, <1>2, <1>3
  <2> QED BY <1>3, <2>1 DEF Contains, ToSet, DocsOf
<1>6. IsInjective(base) => IsInjective(doc)
  BY <1>3, <1>5, OnceMore DEF DocsOf
<1> HIDE DEF doc
<1>7. RowOK(m, entry) /\ entry.log = Append(s.log, doc) /\ (RowOnce(s) /\ IsInjective(doc) => RowOnce(entry))
  BY <1>2, <1>4, EditedRow
<1>8. ServerOnce(server) => RowOnce(s) /\ IsInjective(base)
  BY <1>1, <1>2, <1>3 DEF ServerOnce, RowOnce, Once
<1> HIDE DEF entry, base
<1>9. /\ ServerOK(m, server') /\ Grows(server, server')
      /\ ServerOnce(server) /\ RowOnce(entry) => ServerOnce(server')
  BY <1>1, <1>4, <1>7, VersionAdded
<1>10. PageOK(server', m, window, requests)
  BY <1>9, PageGrows
<1>11. ASSUME Patient(server, m, window, requests, dropped)
       PROVE  Patient(server', m, window, requests, dropped)
  <2>1. ServerOnce(server')
    BY <1>6, <1>7, <1>8, <1>9, <1>11 DEF Patient, DraftKept
  <2> QED BY <1>9, <1>11, <2>1, KeptGrows DEF Patient
<1> QED BY <1>10, <1>11

-----------------------------------------------------------------------------
(* The window sends a request, or rests. *)

LEMMA SendWriteOK ==
  ASSUME NEW m, NEW s, NEW w, NEW left, PageOK(s, m, w, left), NEW q, RequestOK(s, m, q),
         q.kind \notin ReadKinds, q.kind \in {"commands", "undo", "redo"} => w.canvas # None
  PROVE  PageOK(s, m, w, left \cup {q})
<1>1. ~IsRead(q) /\ q.kind # "load"
  BY DEF IsRead, ReadKinds
<1>2. ReadsOK(w, left \cup {q})
  BY <1>1 DEF PageOK, ReadsOK
<1>3. HasCanvas(w, left \cup {q})
  BY <1>1 DEF PageOK, HasCanvas
<1> QED BY <1>2, <1>3 DEF PageOK

\* p is the request r, superseded if it reads.
Aged(r, p) ==
  /\ p = [kind |-> r.kind, canvas |-> r.canvas, counter |-> r.counter, edits |-> r.edits,
          then |-> r.then, newest |-> p.newest, orphan |-> r.orphan, reply |-> r.reply, n |-> r.n]
  /\ p.kind = r.kind /\ p.canvas = r.canvas /\ p.counter = r.counter /\ p.edits = r.edits
  /\ p.then = r.then /\ p.orphan = r.orphan /\ p.reply = r.reply /\ p.n = r.n
  /\ p.newest = (p.kind \notin ReadKinds)

LEMMA SupersededFields ==
  ASSUME NEW m, NEW s, NEW left, \A r \in left : RequestOK(s, m, r), NEW p \in Superseded(left)
  PROVE  \E r \in left : Aged(r, p)
<1>1. PICK r \in left : p = [r EXCEPT !.newest = r.kind \notin ReadKinds]
  BY DEF Superseded, ReadKinds
<1>2. RequestOK(s, m, r)
  OBVIOUS
<1>3. Aged(r, p)
  BY <1>1, <1>2 DEF RequestOK, Aged
<1> QED BY <1>3

\* What a read that begins needs of the page: it supersedes the others.
MayRead(s, m, w, R) ==
  /\ ServerOK(m, s) /\ WindowOK(s, m, w)
  /\ \A r \in R : RequestOK(s, m, r)
  /\ w.label = "conflict" => w.canvas # None
  /\ \A r \in R : r.kind \in {"commands", "undo", "redo"} => w.canvas # None

LEMMA SendReadOK ==
  ASSUME NEW m, NEW s, NEW w, NEW left, MayRead(s, m, w, left), NEW q, RequestOK(s, m, q),
         q.kind \in ReadKinds, q.reply = None, q.kind = "load" => q.canvas \in w.options
  PROVE  PageOK(s, m, w, Superseded(left) \cup {q})
<1> DEFINE R2 == Superseded(left) \cup {q}
<1>1. \A r \in left : RequestOK(s, m, r)
  BY DEF MayRead
<1>2. ASSUME NEW p \in Superseded(left) PROVE RequestOK(s, m, p) /\ ~IsRead(p)
  <2>1. PICK r \in left : Aged(r, p)
    BY <1>1, SupersededFields
  <2>2. RequestOK(s, m, r)
    BY <1>1
  <2>3. ~IsRead(p) /\ p.newest \in BOOLEAN
    BY <2>1 DEF IsRead, Aged
  <2> QED BY <2>1, <2>2, <2>3 DEF RequestOK, Aged
<1>3. ReadsOK(w, R2)
  BY <1>2 DEF ReadsOK, IsRead, ReadKinds
<1>4. HasCanvas(w, R2)
  <2>1. ASSUME NEW p \in R2, p.kind \in {"commands", "undo", "redo"} PROVE w.canvas # None
    <3>1. p # q
      BY <2>1 DEF ReadKinds
    <3>2. PICK r \in left : Aged(r, p)
      BY <1>1, <3>1, SupersededFields
    <3>3. p.kind = r.kind
      BY <3>2 DEF Aged
    <3> QED BY <2>1, <3>3 DEF MayRead
  <2>2. ASSUME NEW p \in R2, IsRead(p) PROVE p.reply = None
    BY <1>2, <2>2
  <2>3. w.label = "conflict" => w.canvas # None
    BY DEF MayRead
  <2> HIDE DEF R2
  <2> QED BY <2>1, <2>2, <2>3 DEF HasCanvas
<1>5. \A p \in R2 : RequestOK(s, m, p)
  BY <1>2
<1> QED BY <1>3, <1>4, <1>5 DEF MayRead, PageOK

\* With no write under way a read may begin, and the list will follow it.
LEMMA SendReadKept ==
  ASSUME NEW m, NEW s, NEW w, NEW left, NEW d, MayRead(s, m, w, left), DraftKept(s, m, w, left, d),
         Unwritten(left) = {}, NEW q, q.kind \in ReadKinds, q.newest, ~q.orphan
  PROVE  Patient(s, m, w, Superseded(left) \cup {q}, d)
<1> DEFINE R2 == Superseded(left) \cup {q}
<1>1. \A r \in left : RequestOK(s, m, r)
  BY DEF MayRead
<1>2. ASSUME NEW p \in R2, p # q
      PROVE  \E r \in left : p.kind = r.kind /\ p.canvas = r.canvas /\ p.counter = r.counter
                             /\ p.edits = r.edits /\ p.orphan = r.orphan
  <2>1. PICK r \in left : Aged(r, p)
    BY <1>1, <1>2, SupersededFields
  <2> QED BY <2>1 DEF Aged
<1> HIDE DEF R2
<1>3. Unwritten(R2) = {}
  <2>1. SUFFICES ASSUME NEW p \in Unwritten(R2) PROVE FALSE
    OBVIOUS
  <2>2. p \in R2 /\ ~p.orphan /\ p.kind \notin ReadKinds
    BY DEF Unwritten, WaitedFor
  <2>3. PICK r \in left : p.kind = r.kind /\ p.orphan = r.orphan
    BY <1>2, <2>2
  <2>4. r \in Unwritten(left)
    BY <2>2, <2>3 DEF Unwritten, WaitedFor
  <2> QED BY <2>4
<1>4. Batches(R2) = {} /\ Batches(left) = {}
  BY <1>3 DEF Batches
<1>5. Alone(R2)
  BY <1>3 DEF Alone
<1>6. DraftOK(s, w, R2)
  BY <1>4 DEF DraftKept, DraftOK
<1>7. FlightOK(s, w, R2)
  <2>1. FlightOK(s, w, left)
    BY DEF DraftKept
  <2>2. ASSUME NEW p \in R2, p.kind \in {"commands", "fork"}
        PROVE  \E r \in left : p.kind = r.kind /\ p.canvas = r.canvas /\ p.counter = r.counter /\ p.edits = r.edits
    BY <1>2, <2>2 DEF ReadKinds
  <2>3. \A p \in R2 : p.kind = "commands" =>
          \E base : Was(s, p.canvas, p.counter, base) /\ IsInjective(base \o p.edits)
    BY <2>1, <2>2 DEF FlightOK
  <2>4. \A p \in R2 : p.kind = "fork" => IsInjective(p.edits)
    BY <2>1, <2>2 DEF FlightOK
  <2> QED BY <1>3, <2>3, <2>4 DEF FlightOK
<1>8. \A e \in 1..m : Somewhere(s, w, R2, d, e)
  BY <1>4 DEF DraftKept, Somewhere
<1>9. q \in WaitedFor(R2) /\ IsRead(q)
  BY DEF WaitedFor, IsRead, R2
<1>10. Follows(w, R2)
  BY <1>9 DEF Follows
<1> QED BY <1>5, <1>6, <1>7, <1>8, <1>10 DEF Patient, DraftKept, R2

\* With nothing under way a write that takes no edits along may begin.
LEMMA SendWriteKept ==
  ASSUME NEW m, NEW s, NEW w, NEW left, NEW d, Patient(s, m, w, left, d), WaitedFor(left) = {},
         NEW q, ~q.orphan, q.reply = None, q.kind \in {"undo", "redo", "create", "fork"},
         q.kind \in {"undo", "redo"} => w.queue = <<>> /\ w.canvas # None /\ q.canvas = w.canvas,
         q.kind = "fork" => IsInjective(q.edits) /\ ToSet(w.queue) \subseteq ToSet(q.edits)
  PROVE  Patient(s, m, w, left \cup {q}, d)
<1> DEFINE R2 == left \cup {q}
<1>1. WaitedFor(R2) = {q} /\ Unwritten(R2) = {q} /\ Batches(R2) = {} /\ Unwritten(left) = {} /\ Batches(left) = {}
  BY DEF WaitedFor, Unwritten, Batches, ReadKinds
<1>2. FlightOK(s, w, left) /\ DraftOK(s, w, left)
  BY DEF Patient, DraftKept
<1>3. /\ \A p \in R2 : p.kind = "commands" =>
           \E base : Was(s, p.canvas, p.counter, base) /\ IsInjective(base \o p.edits)
      /\ \A p \in R2 : p.kind = "fork" => IsInjective(p.edits)
  BY <1>2 DEF FlightOK
<1> HIDE DEF R2
<1>4. FlightOK(s, w, R2)
  BY <1>1, <1>3 DEF FlightOK
<1>5. DraftOK(s, w, R2)
  BY <1>1, <1>2 DEF DraftOK
<1>6. \A e \in 1..m : Somewhere(s, w, R2, d, e)
  BY <1>1 DEF Patient, DraftKept, Somewhere
<1>7. Alone(R2) /\ Follows(w, R2)
  BY <1>1 DEF Alone, Patient, Follows
<1> QED BY <1>4, <1>5, <1>6, <1>7 DEF Patient, DraftKept, R2

\* q is the request that a call of Sends adds.
Sent(q, kind, c, counter, edits, then) ==
  /\ q = [kind |-> kind, canvas |-> c, counter |-> counter, edits |-> edits, then |-> then,
          newest |-> TRUE, orphan |-> FALSE, reply |-> None, n |-> q.n]
  /\ q.n \in 1..Slots
  /\ q.kind = kind /\ q.canvas = c /\ q.counter = counter /\ q.edits = edits
  /\ q.then = then /\ q.newest /\ ~q.orphan /\ q.reply = None

LEMMA SendsFacts ==
  ASSUME NEW w, NEW left, NEW kind, NEW c, NEW counter, NEW edits, NEW then,
         Sends(w, left, Request(kind, c, counter, edits, then))
  PROVE  /\ window' = w
         /\ \E q : requests' = left \cup {q} /\ Sent(q, kind, c, counter, edits, then)
<1>1. PICK n \in 1..Slots :
        /\ window' = w
        /\ requests' = left \cup {[Request(kind, c, counter, edits, then) EXCEPT !.n = n]}
  BY DEF Sends
<1>2. PICK q : q = [Request(kind, c, counter, edits, then) EXCEPT !.n = n]
  OBVIOUS
<1>3. q = [kind |-> kind, canvas |-> c, counter |-> counter, edits |-> edits, then |-> then,
           newest |-> TRUE, orphan |-> FALSE, reply |-> None, n |-> n]
  BY <1>2 DEF Request
<1>4. Sent(q, kind, c, counter, edits, then)
  BY <1>3 DEF Sent
<1>5. requests' = left \cup {q}
  BY <1>1, <1>2
<1> QED BY <1>1, <1>4, <1>5

LEMMA NewRequest ==
  ASSUME NEW m \in Nat, NEW s, NEW kind, NEW c, NEW counter, NEW edits, NEW then,
         NEW q, Sent(q, kind, c, counter, edits, then),
         kind \in PageKinds, edits \in DocsOf(m),
         kind \in {"commands", "load", "undo", "redo", "fork"} => c \in DOMAIN s,
         kind = "commands" => edits \in Seq(1..m) /\ edits # <<>>
  PROVE  RequestOK(s, m, q)
<1>1. /\ q = [kind |-> q.kind, canvas |-> q.canvas, counter |-> q.counter, edits |-> q.edits,
              then |-> q.then, newest |-> q.newest, orphan |-> q.orphan, reply |-> q.reply, n |-> q.n]
      /\ q.newest = TRUE /\ q.orphan = FALSE
  BY DEF Sent
<1>2. /\ q.kind = kind /\ q.canvas = c /\ q.edits = edits /\ q.reply = None /\ q.n \in 1..Slots
  BY DEF Sent
<1> QED BY <1>1, <1>2 DEF RequestOK

LEMMA NoEdits == ASSUME NEW m \in Nat PROVE <<>> \in DocsOf(m)
BY DEF DocsOf

\* Fields of the window that do not hold the draft change.
LEMMA TouchedOK ==
  ASSUME NEW m, NEW s, NEW w, NEW R, PageOK(s, m, w, R), NEW u, WindowOK(s, m, u),
         u.canvas = w.canvas, u.options = w.options, u.open => w.open,
         u.label = "conflict" => w.canvas # None
  PROVE  PageOK(s, m, u, R)
<1>1. ReadsOK(u, R) /\ HasCanvas(u, R)
  BY DEF PageOK, ReadsOK, HasCanvas
<1> QED BY <1>1 DEF PageOK

SameDraft(w, u) ==
  /\ u.canvas = w.canvas /\ u.counter = w.counter /\ u.document = w.document /\ u.queue = w.queue
  /\ u.label = "saved" => w.label = "saved"

LEMMA TouchedKept ==
  ASSUME NEW m, NEW s, NEW w, NEW R, NEW d, DraftKept(s, m, w, R, d), NEW u, SameDraft(w, u)
  PROVE  DraftKept(s, m, u, R, d)
<1>1. DraftOK(s, u, R)
  <2>1. DraftOK(s, w, R)
    BY DEF DraftKept
  <2>2. CASE w.canvas = None
    BY <2>1, <2>2 DEF DraftOK, SameDraft
  <2>3. CASE w.canvas # None
    <3>1. PICK base :
            /\ Was(s, w.canvas, w.counter, base)
            /\ Batches(R) = {} => w.document = base \o w.queue
            /\ \A r \in Batches(R) :
                 w.canvas = r.canvas /\ w.counter = r.counter /\ w.document = base \o r.edits /\ w.label # "saved"
      BY <2>1, <2>3 DEF DraftOK
    <3> QED BY <2>1, <2>3, <3>1 DEF DraftOK, SameDraft
  <2> QED BY <2>2, <2>3
<1>2. FlightOK(s, u, R)
  BY DEF DraftKept, FlightOK, SameDraft
<1>3. \A e \in 1..m : Somewhere(s, u, R, d, e)
  BY DEF DraftKept, Somewhere, SameDraft
<1> QED BY <1>1, <1>2, <1>3 DEF DraftKept

LEMMA ReadBegins ==
  ASSUME NEW m \in Nat, NEW s, NEW w, NEW left, MayRead(s, m, w, left), NEW kind \in ReadKinds, NEW c,
         kind = "load" => c \in w.options,
         Sends(w, Superseded(left), Request(kind, c, 0, <<>>, "rest"))
  PROVE  /\ PageOK(s, m, window', requests')
         /\ \A d : DraftKept(s, m, w, left, d) /\ Unwritten(left) = {} => Patient(s, m, window', requests', d)
<1>1. window' = w
  BY SendsFacts
<1>2. PICK q : requests' = Superseded(left) \cup {q} /\ Sent(q, kind, c, 0, <<>>, "rest")
  BY SendsFacts
<1>3. kind \in PageKinds /\ kind # "commands" /\ (kind \in {"commands", "load", "undo", "redo", "fork"} => c \in DOMAIN s)
  BY DEF PageKinds, ReadKinds, MayRead, WindowOK
<1>4. RequestOK(s, m, q)
  BY <1>2, <1>3, NewRequest, NoEdits
<1>7. q.kind = kind /\ q.canvas = c /\ q.newest /\ ~q.orphan /\ q.reply = None
  BY <1>2 DEF Sent
<1>5. PageOK(s, m, window', requests')
  BY <1>1, <1>2, <1>4, <1>7, SendReadOK
<1>6. ASSUME NEW d, DraftKept(s, m, w, left, d), Unwritten(left) = {}
      PROVE  Patient(s, m, window', requests', d)
  BY <1>1, <1>2, <1>6, <1>7, SendReadKept
<1> QED BY <1>5, <1>6

LEMMA ListsKeeps ==
  ASSUME NEW m \in Nat, NEW s, NEW w, NEW left, MayRead(s, m, w, left), w.open \/ PageOK(s, m, w, left), Lists(w, left)
  PROVE  /\ PageOK(s, m, window', requests')
         /\ \A d : DraftKept(s, m, w, left, d) /\ Unwritten(left) = {} => Patient(s, m, window', requests', d)
<1>1. CASE w.open
  BY <1>1, ReadBegins DEF Lists, ReadKinds
<1>2. CASE ~w.open
  <2> DEFINE u == [w EXCEPT !.label = "idle"]
  <2>1. window' = u /\ requests' = left
    BY <1>2 DEF Lists, Rests
  <2>2. WindowOK(s, m, u) /\ SameDraft(w, u) /\ u.options = w.options /\ ~u.open /\ u.label = "idle"
    BY <1>2 DEF MayRead, WindowOK, SameDraft, Labels
  <2> HIDE DEF u
  <2>3. PageOK(s, m, u, left)
    BY <1>2, <2>2, TouchedOK DEF SameDraft
  <2>4. Follows(u, left)
    BY <2>2 DEF Follows
  <2> QED BY <2>1, <2>2, <2>3, <2>4, TouchedKept DEF Patient
<1> QED BY <1>1, <1>2

\* A write begins that takes no edits from the queue.
LEMMA WriteBegins ==
  ASSUME NEW m \in Nat, NEW s, NEW w, NEW left, PageOK(s, m, w, left),
         NEW kind \in {"undo", "redo", "create", "fork"}, NEW c, NEW counter, NEW edits \in DocsOf(m), NEW then,
         kind \in {"undo", "redo", "fork"} => w.canvas # None /\ c = w.canvas,
         Sends(w, left, Request(kind, c, counter, edits, then))
  PROVE  /\ PageOK(s, m, window', requests')
         /\ \A d : /\ Patient(s, m, w, left, d) /\ WaitedFor(left) = {}
                   /\ kind \in {"undo", "redo"} => w.queue = <<>>
                   /\ kind = "fork" => IsInjective(edits) /\ ToSet(w.queue) \subseteq ToSet(edits)
                   => Patient(s, m, window', requests', d)
<1>1. window' = w
  BY SendsFacts
<1>2. PICK q : requests' = left \cup {q} /\ Sent(q, kind, c, counter, edits, then)
  BY SendsFacts
<1>3. kind \in PageKinds /\ kind \notin ReadKinds /\ kind # "commands"
      /\ (kind \in {"commands", "load", "undo", "redo", "fork"} => c \in DOMAIN s)
  BY DEF PageKinds, ReadKinds, PageOK, WindowOK
<1>4. RequestOK(s, m, q)
  BY <1>2, <1>3, NewRequest
<1>7. q.kind = kind /\ q.canvas = c /\ q.edits = edits /\ ~q.orphan /\ q.reply = None
  BY <1>2 DEF Sent
<1>5. PageOK(s, m, window', requests')
  BY <1>1, <1>2, <1>3, <1>4, <1>7, SendWriteOK
<1>6. ASSUME NEW d, Patient(s, m, w, left, d), WaitedFor(left) = {},
             kind \in {"undo", "redo"} => w.queue = <<>>,
             kind = "fork" => IsInjective(edits) /\ ToSet(w.queue) \subseteq ToSet(edits)
      PROVE  Patient(s, m, window', requests', d)
  BY <1>1, <1>2, <1>6, <1>7, SendWriteKept
<1> QED BY <1>5, <1>6

\* The queue leaves the page as a batch that carries the draft on.
LEMMA FlushKeeps ==
  ASSUME NEW m \in Nat, NEW s, NEW w, NEW left, PageOK(s, m, w, left), NEW then, Flush(w, left, then)
  PROVE  /\ PageOK(s, m, window', requests')
         /\ \A d : Patient(s, m, w, left, d) /\ WaitedFor(left) = {} => Patient(s, m, window', requests', d)
<1>0. WindowOK(s, m, w)
  BY DEF PageOK
<1>1. CASE w.canvas = None \/ w.queue = <<>>
  <2> DEFINE u == [w EXCEPT !.timer = FALSE, !.open = @ /\ then # "close"]
  <2>1. window' = u /\ requests' = left
    BY <1>1 DEF Flush, Rests
  <2>2. WindowOK(s, m, u) /\ SameDraft(w, u) /\ u.options = w.options /\ (u.open => w.open) /\ u.label = w.label
        /\ u.select = w.select /\ u.readFailed = w.readFailed
    BY <1>0 DEF WindowOK, SameDraft
  <2> HIDE DEF u
  <2>3. PageOK(s, m, u, left)
    BY <2>2, TouchedOK DEF SameDraft, PageOK, HasCanvas
  <2>4. Follows(w, left) => Follows(u, left)
    BY <2>2 DEF Follows, SameDraft
  <2> QED BY <2>1, <2>2, <2>3, <2>4, TouchedKept DEF Patient
<1>2. CASE w.canvas # None /\ w.queue # <<>>
  <2> DEFINE u == [w EXCEPT !.timer = FALSE, !.queue = <<>>, !.label = "saving"]
  <2>1. Sends(u, left, Request("commands", w.canvas, w.counter, w.queue, then))
    BY <1>2 DEF Flush
  <2>2. w.queue \in Seq(1..m) /\ w.queue \in DocsOf(m) /\ w.canvas \in DOMAIN s /\ w.document \in DocsOf(m)
    BY <1>0, <1>2, DocsGrow DEF WindowOK
  <2> HIDE DEF u
  <2>9. PICK q : requests' = left \cup {q} /\ Sent(q, "commands", w.canvas, w.counter, w.queue, then)
    BY <2>1, SendsFacts
  <2>3. /\ RequestOK(s, m, q) /\ q.kind = "commands" /\ q.canvas = w.canvas /\ q.counter = w.counter
        /\ q.edits = w.queue /\ ~q.orphan /\ q.reply = None
    <3>1. "commands" \in PageKinds
      BY DEF PageKinds
    <3>2. RequestOK(s, m, q)
      BY <1>2, <2>2, <2>9, <3>1, NewRequest
    <3> QED BY <2>9, <3>2 DEF Sent
  <2>4. window' = u /\ requests' = left \cup {q}
    BY <2>1, <2>9, SendsFacts
  <2> USE DEF u
  <2>5. /\ WindowOK(s, m, u) /\ u.canvas = w.canvas /\ u.counter = w.counter /\ u.document = w.document
        /\ u.queue = <<>> /\ u.label = "saving" /\ u.options = w.options /\ u.open = w.open
        /\ u.select = w.select /\ u.readFailed = w.readFailed
    <3>1. <<>> \in Seq(1..m) /\ "saving" \in Labels
      BY DEF Labels
    <3>2. u \in [canvas : Nat \cup {None}, counter : Nat, document : DocsOf(m), queue : Seq(1..m),
                 label : Labels, options : SUBSET Nat, select : Nat \cup {None},
                 readFailed : BOOLEAN, open : BOOLEAN, timer : BOOLEAN]
      BY <1>0, <3>1 DEF WindowOK
    <3>3. /\ u.canvas = w.canvas /\ u.counter = w.counter /\ u.document = w.document
          /\ u.queue = <<>> /\ u.label = "saving" /\ u.options = w.options /\ u.open = w.open
          /\ u.select = w.select /\ u.readFailed = w.readFailed
      BY <1>0 DEF WindowOK
    <3> QED BY <1>0, <3>2, <3>3 DEF WindowOK
  <2> HIDE DEF u
  <2>6. PageOK(s, m, u, left)
    BY <2>5, TouchedOK
  <2>7. PageOK(s, m, u, left \cup {q})
    BY <1>2, <2>3, <2>5, <2>6, SendWriteOK DEF ReadKinds
  <2>8. ASSUME NEW d, Patient(s, m, w, left, d), WaitedFor(left) = {}
        PROVE  Patient(s, m, u, left \cup {q}, d)
    <3> DEFINE R2 == left \cup {q}
    <3>1. WaitedFor(R2) = {q} /\ Unwritten(R2) = {q} /\ Batches(R2) = {q} /\ Batches(left) = {}
      BY <2>3, <2>8 DEF WaitedFor, Unwritten, Batches, ReadKinds
    <3>2. PICK base : Was(s, w.canvas, w.counter, base) /\ w.document = base \o w.queue
      BY <1>2, <2>8, <3>1 DEF Patient, DraftKept, DraftOK
    <3>3. IsInjective(w.document)
      BY <2>8 DEF Patient, DraftKept, DraftOK
    <3>4. FlightOK(s, w, left)
      BY <2>8 DEF Patient, DraftKept
    <3>5. /\ \A p \in R2 : p.kind = "commands" =>
               \E b : Was(s, p.canvas, p.counter, b) /\ IsInjective(b \o p.edits)
          /\ \A p \in R2 : p.kind = "fork" => IsInjective(p.edits)
      BY <2>3, <3>2, <3>3, <3>4 DEF FlightOK
    <3>6. \A e \in ToSet(w.queue) : e \in ToSet(q.edits)
      BY <2>3
    <3> HIDE DEF R2
    <3>7. FlightOK(s, u, R2)
      BY <1>2, <2>3, <2>5, <3>1, <3>5 DEF FlightOK
    <3>8. DraftOK(s, u, R2)
      BY <1>2, <2>3, <2>5, <3>1, <3>2, <3>3 DEF DraftOK
    <3>9. \A e \in 1..m : Somewhere(s, u, R2, d, e)
      BY <2>8, <3>1, <3>6 DEF Patient, DraftKept, Somewhere
    <3>10. Alone(R2) /\ Follows(u, R2)
      BY <2>5, <2>8, <3>1 DEF Alone, Patient, Follows
    <3> QED BY <2>8, <3>7, <3>8, <3>9, <3>10 DEF Patient, DraftKept, R2
  <2> QED BY <2>4, <2>7, <2>8
<1> QED BY <1>1, <1>2

-----------------------------------------------------------------------------
(* The maintainer edits. *)

LEMMA PageWidens ==
  ASSUME NEW m \in Nat, NEW s, NEW w, NEW R, PageOK(s, m, w, R)
  PROVE  PageOK(s, m + 1, w, R)
<1>1. /\ DocsOf(m) \subseteq DocsOf(m + 1) /\ Seq(DocsOf(m)) \subseteq Seq(DocsOf(m + 1))
      /\ Seq(1..m) \subseteq Seq(1..(m + 1))
  BY DocsGrow
<1>2. Rows(m) \subseteq Rows(m + 1)
  BY <1>1 DEF Rows
<1>3. ServerOK(m + 1, s)
  <2>1. Seq(Rows(m)) \subseteq Seq(Rows(m + 1))
    BY <1>2, SeqMonotonic
  <2> QED BY <2>1 DEF PageOK, ServerOK
<1>4. WindowOK(s, m + 1, w)
  BY <1>1 DEF PageOK, WindowOK
<1>5. \A r \in R : RequestOK(s, m + 1, r)
  BY <1>1 DEF PageOK, RequestOK
<1> QED BY <1>3, <1>4, <1>5 DEF PageOK

LEMMA QueuedFields ==
  ASSUME NEW m \in Nat, WindowOK(server, m, window), window.canvas # None, NEW u, u = Queued(m + 1)
  PROVE  /\ WindowOK(server, m + 1, u)
         /\ u.canvas = window.canvas /\ u.counter = window.counter /\ u.options = window.options
         /\ u.document = Append(window.document, m + 1) /\ u.queue = Append(window.queue, m + 1)
         /\ u.select = window.select /\ u.readFailed = window.readFailed /\ u.open = window.open
         /\ u.label # "saved" /\ (u.label = "conflict" <=> window.label = "conflict")
<1>1. window.document \in DocsOf(m + 1) /\ window.queue \in Seq(1..(m + 1))
  BY DocsGrow DEF WindowOK
<1>2. m + 1 \in EditsOf(m + 1) /\ m + 1 \in 1..(m + 1)
  BY DEF EditsOf
<1>3. Append(window.document, m + 1) \in DocsOf(m + 1) /\ Append(window.queue, m + 1) \in Seq(1..(m + 1))
  BY <1>1, <1>2, AppendProperties DEF DocsOf
<1>4. /\ u.canvas = window.canvas /\ u.counter = window.counter /\ u.options = window.options
      /\ u.document = Append(window.document, m + 1) /\ u.queue = Append(window.queue, m + 1)
      /\ u.select = window.select /\ u.readFailed = window.readFailed /\ u.open = window.open
      /\ u.label = (IF window.label = "saved" THEN "dirty" ELSE window.label) /\ u.timer = TRUE
      /\ DOMAIN u = DOMAIN window
  BY DEF Queued, WindowOK
<1>5. u \in [canvas : Nat \cup {None}, counter : Nat, document : DocsOf(m + 1), queue : Seq(1..(m + 1)),
             label : Labels, options : SUBSET Nat, select : Nat \cup {None},
             readFailed : BOOLEAN, open : BOOLEAN, timer : BOOLEAN]
  <2>1. window.label \in Labels /\ u.label \in Labels
    BY <1>4 DEF WindowOK, Labels
  <2>2. u = [canvas |-> u.canvas, counter |-> u.counter, document |-> u.document, queue |-> u.queue,
             label |-> u.label, options |-> u.options, select |-> u.select, readFailed |-> u.readFailed,
             open |-> u.open, timer |-> u.timer]
    BY DEF Queued, WindowOK
  <2> QED BY <1>3, <1>4, <2>1, <2>2 DEF WindowOK
<1> QED BY <1>4, <1>5 DEF WindowOK

LEMMA QueuedKeeps ==
  ASSUME NEW m \in Nat, PageOK(server, m, window, requests), window.canvas # None, NEW u, u = Queued(m + 1)
  PROVE  /\ PageOK(server, m + 1, u, requests)
         /\ Patient(server, m, window, requests, dropped) /\ Unwritten(requests) = {} =>
              Patient(server, m + 1, u, requests, dropped)
<1>1. /\ WindowOK(server, m + 1, u)
      /\ u.canvas = window.canvas /\ u.counter = window.counter /\ u.options = window.options
      /\ u.document = Append(window.document, m + 1) /\ u.queue = Append(window.queue, m + 1)
      /\ u.select = window.select /\ u.readFailed = window.readFailed /\ u.open = window.open
      /\ u.label # "saved" /\ (u.label = "conflict" <=> window.label = "conflict")
  BY QueuedFields DEF PageOK
<1>2. PageOK(server, m + 1, window, requests)
  BY PageWidens
<1>3. PageOK(server, m + 1, u, requests)
  BY <1>1, <1>2, TouchedOK
<1>4. ASSUME Patient(server, m, window, requests, dropped), Unwritten(requests) = {}
      PROVE  Patient(server, m + 1, u, requests, dropped)
  <2>1. Batches(requests) = {}
    BY <1>4 DEF Batches
  <2>2. PICK base : Was(server, window.canvas, window.counter, base) /\ window.document = base \o window.queue
    BY <1>4, <2>1 DEF Patient, DraftKept, DraftOK
  <2>3. base \in DocsOf(m) /\ window.document \in DocsOf(m) /\ window.queue \in DocsOf(m) /\ window.queue \in Seq(1..m)
    BY <2>2, WasDoc, DocsGrow DEF PageOK, WindowOK
  <2>4. m + 1 \notin EditsOf(m)
    BY WindowAssumption DEF EditsOf
  <2>5. IsInjective(u.document)
    <3>1. m + 1 \notin ToSet(window.document)
      BY <2>3, <2>4, SetOfSeq DEF DocsOf
    <3>2. window.document \in Seq(EditsOf(m) \cup {m + 1}) /\ IsInjective(window.document)
      BY <1>4, <2>3, SeqMonotonic DEF DocsOf, Patient, DraftKept, DraftOK
    <3>3. m + 1 \in EditsOf(m) \cup {m + 1}
      OBVIOUS
    <3>4. IsInjective(Append(window.document, m + 1))
      BY <3>1, <3>2, <3>3, OnceMore
    <3> QED BY <1>1, <3>4
  <2>6. u.document = base \o u.queue
    <3> DEFINE S == EditsOf(m) \cup {m + 1}
    <3>1. base \in Seq(S) /\ window.queue \in Seq(S)
      BY <2>3, SeqMonotonic DEF DocsOf
    <3>2. PICK e \in S : e = m + 1
      OBVIOUS
    <3> HIDE DEF S
    <3>3. u.queue = With(window.queue, e) /\ window.document = Joined(base, window.queue)
          /\ u.document = With(window.document, e)
      BY <1>1, <2>2, <3>2 DEF With, Joined
    <3>4. u.document = Joined(base, u.queue)
      BY <3>1, <3>2, <3>3, ConcatThenAppend
    <3> QED BY <3>4 DEF Joined
  <2>7. DraftOK(server, u, requests)
    BY <1>1, <2>1, <2>2, <2>5, <2>6 DEF DraftOK
  <2>8. FlightOK(server, u, requests)
    BY <1>4 DEF Patient, DraftKept, FlightOK
  <2>9. ToSet(u.queue) = ToSet(window.queue) \cup {m + 1}
    <3>1. window.queue \in Seq(1..(m + 1))
      BY <2>3, DocsGrow
    <3>2. m + 1 \in 1..(m + 1)
      OBVIOUS
    <3>3. ToSet(Append(window.queue, m + 1)) = ToSet(window.queue) \cup {m + 1}
      BY <3>1, <3>2, SetOfAppend
    <3> QED BY <1>1, <3>3
  <2>10. ASSUME NEW e \in 1..(m + 1) PROVE Somewhere(server, u, requests, dropped, e)
    <3>1. CASE e = m + 1
      BY <2>9, <3>1 DEF Somewhere
    <3>2. CASE e \in 1..m
      BY <1>4, <2>9, <3>2 DEF Patient, DraftKept, Somewhere
    <3> QED BY <3>1, <3>2
  <2>11. Follows(u, requests)
    BY <1>1, <1>4 DEF Patient, Follows
  <2> QED BY <1>4, <2>7, <2>8, <2>10, <2>11 DEF Patient, DraftKept, Alone
<1> QED BY <1>3, <1>4

-----------------------------------------------------------------------------
(* An answer comes, or is given up. *)

\* What is left of the requests R when r is handled: its answer came, or the page
\* gave it up and it may be served all the same.
LeftOf(R, r, left) ==
  \/ left = R \ {r}
  \/ r.reply = None /\ left = (R \ {r}) \cup {[r EXCEPT !.orphan = TRUE, !.then = "rest"]}

\* o is r, given up.
GivenUp(r, o) ==
  /\ o = [kind |-> r.kind, canvas |-> r.canvas, counter |-> r.counter, edits |-> r.edits,
          then |-> "rest", newest |-> r.newest, orphan |-> TRUE, reply |-> None, n |-> r.n]
  /\ o.kind = r.kind /\ o.canvas = r.canvas /\ o.counter = r.counter /\ o.edits = r.edits
  /\ o.then = "rest" /\ o.newest = r.newest /\ o.orphan /\ o.orphan \in BOOLEAN /\ o.reply = None /\ o.n = r.n

LEMMA GivenUpFacts ==
  ASSUME NEW m, NEW s, NEW r, RequestOK(s, m, r), NEW o, GivenUp(r, o)
  PROVE  RequestOK(s, m, o)
BY DEF RequestOK, GivenUp

LEMMA LeftSplit ==
  ASSUME NEW m, NEW s, NEW R, NEW r \in R, NEW left, RequestOK(s, m, r), LeftOf(R, r, left), NEW p \in left
  PROVE  p \in R \ {r} \/ GivenUp(r, p)
<1>1. p \in R \ {r} \/ (r.reply = None /\ p = [r EXCEPT !.orphan = TRUE, !.then = "rest"])
  BY DEF LeftOf
<1>2. ASSUME r.reply = None, p = [r EXCEPT !.orphan = TRUE, !.then = "rest"] PROVE GivenUp(r, p)
  BY <1>2 DEF RequestOK, GivenUp
<1> QED BY <1>1, <1>2

LEMMA LeftWaited ==
  ASSUME NEW m, NEW s, NEW w, NEW R, PageOK(s, m, w, R), NEW r \in R, ~r.orphan, NEW left, LeftOf(R, r, left)
  PROVE  /\ PageOK(s, m, w, left)
         /\ WaitedFor(left) = WaitedFor(R) \ {r} /\ Unwritten(left) = Unwritten(R) \ {r}
         /\ Batches(left) = Batches(R) \ {r}
         /\ IsRead(r) => \A p \in left : IsRead(p) => p.orphan /\ p.kind = r.kind /\ p.canvas = r.canvas /\ p.reply = None
<1>1. RequestOK(s, m, r) /\ ReadsOK(w, R) /\ HasCanvas(w, R)
  BY DEF PageOK
<1>0. ASSUME NEW p \in left PROVE p \in R \ {r} \/ GivenUp(r, p)
  BY <1>1, LeftSplit
<1>2. ASSUME NEW p \in left PROVE RequestOK(s, m, p)
  <2>1. CASE p \in R \ {r}
    BY <2>1 DEF PageOK
  <2>2. CASE GivenUp(r, p)
    BY <1>1, <2>2, GivenUpFacts
  <2> QED BY <1>0, <2>1, <2>2
<1>3. ASSUME NEW p \in left, NEW q \in left, IsRead(p), IsRead(q) PROVE p = q
  <2>1. CASE p \in R \ {r} /\ q \in R \ {r}
    BY <1>1, <1>3, <2>1 DEF ReadsOK
  <2>2. CASE GivenUp(r, p) /\ GivenUp(r, q)
    BY <2>2 DEF GivenUp
  <2>3. ASSUME NEW a, GivenUp(r, a), IsRead(a), NEW b \in R \ {r}, IsRead(b) PROVE FALSE
    <3>1. IsRead(r)
      BY <2>3 DEF GivenUp, IsRead
    <3> QED BY <1>1, <2>3, <3>1 DEF ReadsOK
  <2> QED BY <1>0, <1>3, <2>1, <2>2, <2>3
<1>4. ASSUME NEW p \in left, p.kind = "load", p.newest PROVE p.canvas \in w.options
  <2>1. CASE p \in R
    BY <1>1, <1>4, <2>1 DEF ReadsOK
  <2>2. CASE GivenUp(r, p)
    BY <1>1, <1>4, <2>2 DEF ReadsOK, GivenUp
  <2> QED BY <1>0, <2>1, <2>2
<1>5. ReadsOK(w, left)
  BY <1>3, <1>4 DEF ReadsOK
<1>6. ASSUME NEW p \in left PROVE p \in R \/ (p.kind = r.kind /\ p.reply = None)
  BY <1>0 DEF GivenUp
<1>7. HasCanvas(w, left)
  BY <1>1, <1>6 DEF HasCanvas
<1>8. PageOK(s, m, w, left)
  BY <1>2, <1>5, <1>7 DEF PageOK
<1>9. WaitedFor(left) = WaitedFor(R) \ {r}
  <2>1. \A p \in left : ~p.orphan => p \in R /\ p # r
    BY <1>0 DEF GivenUp
  <2>2. \A p \in R : p # r => p \in left
    BY DEF LeftOf
  <2> QED BY <2>1, <2>2 DEF WaitedFor
<1>10. Unwritten(left) = Unwritten(R) \ {r} /\ Batches(left) = Batches(R) \ {r}
  BY <1>9 DEF Unwritten, Batches
<1>11. ASSUME IsRead(r), NEW p \in left, IsRead(p)
       PROVE  p.orphan /\ p.kind = r.kind /\ p.canvas = r.canvas /\ p.reply = None
  <2>1. ~(p \in R /\ p # r)
    BY <1>1, <1>11 DEF ReadsOK
  <2> QED BY <1>0, <2>1 DEF GivenUp
<1> QED BY <1>8, <1>9, <1>10, <1>11

\* What the requests that are left may still write.
Settled(s, R) ==
  /\ \A r \in R : r.kind = "commands" =>
       \E base : Was(s, r.canvas, r.counter, base) /\ IsInjective(base \o r.edits)
  /\ \A r \in R : r.kind = "fork" => IsInjective(r.edits)

LEMMA LeftSettled ==
  ASSUME NEW m, NEW s, NEW w, NEW R, PageOK(s, m, w, R), NEW r \in R, NEW left, LeftOf(R, r, left),
         FlightOK(s, w, R)
  PROVE  Settled(s, left)
<1>1. ASSUME NEW p \in left
      PROVE  \E q \in R : p.kind = q.kind /\ p.canvas = q.canvas /\ p.counter = q.counter /\ p.edits = q.edits
  <2>1. RequestOK(s, m, r)
    BY DEF PageOK
  <2>2. p \in R \ {r} \/ GivenUp(r, p)
    BY <2>1, LeftSplit
  <2> QED BY <2>2 DEF GivenUp
<1>2. ASSUME NEW p \in left, p.kind = "commands"
      PROVE  \E base : Was(s, p.canvas, p.counter, base) /\ IsInjective(base \o p.edits)
  BY <1>1, <1>2 DEF FlightOK
<1>3. ASSUME NEW p \in left, p.kind = "fork" PROVE IsInjective(p.edits)
  BY <1>1, <1>3 DEF FlightOK
<1> QED BY <1>2, <1>3 DEF Settled

\* The draft is kept with no write under way.
LEMMA KeptQuietly ==
  ASSUME NEW m, NEW s, NEW w, NEW R, NEW d, Unwritten(R) = {}, Settled(s, R), ServerOnce(s),
         DraftOK(s, w, R), \A e \in 1..m : e \in d \/ e \in ToSet(w.queue) \/ InServer(s, e)
  PROVE  DraftKept(s, m, w, R, d)
<1>1. Alone(R)
  BY DEF Alone
<1>2. FlightOK(s, w, R)
  BY DEF Settled, FlightOK
<1> QED BY <1>1, <1>2 DEF DraftKept, Somewhere

\* adoptCanvasPayload: the window u after w took the answer.
Adopted(w, reply, u) == u = Adopts(w, reply)

AdoptedFields(w, reply, u) ==
  /\ u.canvas = reply.canvas /\ u.counter = reply.counter /\ u.document = reply.document \o w.queue
  /\ u.queue = w.queue /\ u.label = "saved" /\ u.options = w.options /\ u.select = w.select
  /\ u.open = w.open /\ u.readFailed = w.readFailed /\ u.canvas # None

LEMMA AdoptsOK ==
  ASSUME NEW m \in Nat, NEW s, NEW w, NEW R, MayRead(s, m, w, R), NEW reply, PayloadOf(s, reply),
         NEW u, Adopted(w, reply, u)
  PROVE  MayRead(s, m, u, R) /\ (ReadsOK(w, R) => ReadsOK(u, R)) /\ AdoptedFields(w, reply, u)
<1>1. ServerOK(m, s) /\ WindowOK(s, m, w)
  BY DEF MayRead
<1>2. reply.document \in DocsOf(m) /\ reply.counter \in Nat /\ reply.canvas \in DOMAIN s
  BY <1>1, WasDoc DEF PayloadOf, Was
<1>3. reply.canvas \in Nat /\ None \notin Nat
  BY <1>1, <1>2, WindowAssumption DEF ServerOK
<1>4. reply.document \o w.queue \in DocsOf(m)
  <2>1. w.queue \in DocsOf(m)
    BY <1>1, DocsGrow DEF WindowOK
  <2> QED BY <1>2, <2>1, ConcatProperties DEF DocsOf
<1>5. /\ u.canvas = reply.canvas /\ u.counter = reply.counter /\ u.document = reply.document \o w.queue
      /\ u.queue = w.queue /\ u.label = "saved" /\ u.options = w.options /\ u.select = w.select
      /\ u.open = w.open /\ u.readFailed = w.readFailed /\ u.timer = w.timer
  BY <1>1 DEF Adopted, Adopts, WindowOK
<1>6. WindowOK(s, m, u)
  <2>1. u = [canvas |-> u.canvas, counter |-> u.counter, document |-> u.document, queue |-> u.queue,
             label |-> u.label, options |-> u.options, select |-> u.select, readFailed |-> u.readFailed,
             open |-> u.open, timer |-> u.timer]
    BY <1>1 DEF Adopted, Adopts, WindowOK
  <2>2. u.label \in Labels
    BY <1>5 DEF Labels
  <2> QED BY <1>1, <1>2, <1>3, <1>4, <1>5, <2>1, <2>2 DEF WindowOK
<1>7. u.canvas # None
  BY <1>3, <1>5
<1>8. MayRead(s, m, u, R)
  BY <1>5, <1>6, <1>7 DEF MayRead
<1>9. ReadsOK(w, R) => ReadsOK(u, R)
  BY <1>5 DEF ReadsOK
<1>10. AdoptedFields(w, reply, u)
  BY <1>5, <1>7 DEF AdoptedFields
<1> QED BY <1>8, <1>9, <1>10

\* A page that may read is in order if no list without canvases is its own.
LEMMA PageFromReads ==
  ASSUME NEW m, NEW s, NEW w, NEW R, MayRead(s, m, w, R), ReadsOK(w, R),
         \A r \in R : IsRead(r) /\ r.kind = "list" /\ r.reply # None /\ w.open =>
                        r.reply.canvases # {} \/ w.canvas = None
  PROVE  PageOK(s, m, w, R)
BY DEF MayRead, PageOK, HasCanvas

LEMMA PageReads ==
  ASSUME NEW m, NEW s, NEW w, NEW R, PageOK(s, m, w, R)
  PROVE  MayRead(s, m, w, R) /\ ReadsOK(w, R)
BY DEF MayRead, PageOK, HasCanvas

\* A window that adopts a version with nothing queued shows that version.
LEMMA AdoptsDraft ==
  ASSUME NEW m \in Nat, NEW s, ServerOK(m, s), ServerOnce(s), NEW reply, PayloadOf(s, reply), NEW R, Batches(R) = {},
         NEW u, u.canvas = reply.canvas, u.canvas # None, u.counter = reply.counter,
         u.document = reply.document \o <<>>, u.queue = <<>>
  PROVE  DraftOK(s, u, R)
<1>1. Was(s, u.canvas, u.counter, reply.document)
  BY DEF PayloadOf
<1>2. IsInjective(reply.document) /\ reply.document \in DocsOf(m)
  BY <1>1, WasDoc
<1>3. reply.document \o <<>> = reply.document
  BY <1>2, ConcatEmptySeq DEF DocsOf
<1> QED BY <1>1, <1>2, <1>3 DEF DraftOK

\* The answer that is handled: the one that came, or that the page gave up.
Handled(r, reply) == reply = Wrong("timeout") \/ (r.reply # None /\ reply = r.reply)

LEMMA HandledFacts ==
  ASSUME NEW m, NEW s, NEW r, RequestOK(s, m, r), NEW reply, Handled(r, reply)
  PROVE  /\ reply.ok => r.reply # None /\ reply = r.reply /\ AnswerOK(s, r.kind, r.canvas, reply)
         /\ reply.ok /\ r.kind # "list" => PayloadOf(s, reply)
         /\ reply.ok /\ r.kind \in {"commands", "undo", "redo", "load"} => reply.canvas = r.canvas
         /\ reply.ok /\ r.kind = "list" => ListOf(s, reply)
<1>1. reply.ok => r.reply # None /\ reply = r.reply /\ AnswerOK(s, r.kind, r.canvas, reply)
  BY DEF Handled, Wrong, RequestOK
<1>2. ~Wrong("conflict").ok /\ ~Wrong("refused").ok
  BY DEF Wrong
<1>3. reply.ok => ~RefusalOf(reply)
  BY <1>2 DEF RefusalOf
<1> QED BY <1>1, <1>3 DEF AnswerOK

\* A write is handled alone, and nothing is left that is waited for.
LEMMA WriteIsAlone ==
  ASSUME NEW m, NEW s, NEW w, NEW R, NEW d, PageOK(s, m, w, R), Patient(s, m, w, R, d), NEW r \in R, ~r.orphan,
         r.kind \notin ReadKinds, NEW left, LeftOf(R, r, left)
  PROVE  /\ WaitedFor(left) = {} /\ Unwritten(left) = {} /\ Batches(left) = {}
         /\ r \in Unwritten(R) /\ Unwritten(R) = {r} /\ (Batches(R) \subseteq {r}) /\ (r.kind = "commands" => r \in Batches(R))
         /\ w.open => w.readFailed \/ w.select = w.canvas
<1>1. r \in Unwritten(R)
  BY DEF Unwritten, WaitedFor
<1>2. WaitedFor(R) = {r}
  BY <1>1 DEF Patient, DraftKept, Alone
<1>3. Unwritten(R) = {r} /\ (Batches(R) \subseteq {r}) /\ (r.kind = "commands" => r \in Batches(R))
  BY <1>1, <1>2 DEF Unwritten, Batches
<1>4. WaitedFor(left) = {} /\ Unwritten(left) = {} /\ Batches(left) = {}
  BY <1>2, <1>3, LeftWaited
<1>5. w.open => w.readFailed \/ w.select = w.canvas
  BY <1>2 DEF Patient, Follows, IsRead
<1> QED BY <1>1, <1>3, <1>4, <1>5

\* A batch that was not saved is queued again, and the draft is as it was.
Requeues(w, r, why, u) == u = [w EXCEPT !.queue = Requeued(w, r), !.label = FailureLabel(why)]

RequeuedFields(w, r, u) ==
  /\ u.canvas = w.canvas /\ u.counter = w.counter /\ u.document = w.document
  /\ u.queue = Requeued(w, r) /\ u.label # "saved" /\ u.open = w.open /\ u.select = w.select
  /\ u.readFailed = w.readFailed

LEMMA RequeuedOK ==
  ASSUME NEW m \in Nat, NEW s, NEW w, NEW left, PageOK(s, m, w, left), NEW r, RequestOK(s, m, r), r.kind = "commands",
         w.canvas # None, NEW why, NEW u, Requeues(w, r, why, u)
  PROVE  PageOK(s, m, u, left) /\ RequeuedFields(w, r, u)
<1>1. WindowOK(s, m, w) /\ r.edits \in Seq(1..m)
  BY DEF PageOK, RequestOK
<1>2. Requeued(w, r) \in Seq(1..m) /\ FailureLabel(why) \in Labels \ {"saved"}
  BY <1>1 DEF Requeued, FailureLabel, Labels, WindowOK
<1>3. /\ u.canvas = w.canvas /\ u.counter = w.counter /\ u.document = w.document /\ u.options = w.options
      /\ u.queue = Requeued(w, r) /\ u.label = FailureLabel(why) /\ u.open = w.open /\ u.select = w.select
      /\ u.readFailed = w.readFailed
  BY <1>1 DEF Requeues, WindowOK
<1>4. WindowOK(s, m, u)
  BY <1>1, <1>2 DEF Requeues, WindowOK
<1>5. PageOK(s, m, u, left)
  BY <1>3, <1>4, TouchedOK
<1> QED BY <1>2, <1>3, <1>5 DEF RequeuedFields

LEMMA RequeuedKept ==
  ASSUME NEW m \in Nat, NEW s, NEW w, NEW R, NEW d, PageOK(s, m, w, R), Patient(s, m, w, R, d), NEW r \in R, ~r.orphan,
         r.kind = "commands", NEW left, LeftOf(R, r, left), NEW u, RequeuedFields(w, r, u)
  PROVE  Patient(s, m, u, left, d) /\ u.queue # <<>>
<1>1. /\ Batches(left) = {} /\ Unwritten(left) = {} /\ r \in Unwritten(R) /\ r \in Batches(R) /\ Batches(R) \subseteq {r}
      /\ w.open => w.readFailed \/ w.select = w.canvas
  BY WriteIsAlone DEF ReadKinds
<1>2. FlightOK(s, w, R) /\ DraftOK(s, w, R) /\ ServerOnce(s)
  BY DEF Patient, DraftKept
<1>3. w.queue = <<>> /\ w.canvas # None /\ r.canvas = w.canvas
  BY <1>1, <1>2 DEF FlightOK
<1>4. PICK base : Was(s, w.canvas, w.counter, base) /\ w.document = base \o r.edits
  BY <1>1, <1>2, <1>3 DEF DraftOK
<1>5. u.queue = r.edits /\ r.edits # <<>>
  BY <1>3 DEF Requeued, PageOK, RequestOK, RequeuedFields
<1>6. DraftOK(s, u, left)
  BY <1>1, <1>2, <1>3, <1>4, <1>5 DEF DraftOK, RequeuedFields
<1>7. Settled(s, left)
  BY <1>2, LeftSettled
<1>8. \A e \in 1..m : e \in d \/ e \in ToSet(u.queue) \/ InServer(s, e)
  <2>1. SUFFICES ASSUME NEW e \in 1..m, Somewhere(s, w, R, d, e) PROVE e \in d \/ e \in ToSet(u.queue) \/ InServer(s, e)
    BY DEF Patient, DraftKept
  <2>2. e \notin ToSet(w.queue)
    BY <1>3 DEF ToSet
  <2> QED BY <1>1, <1>5, <2>1, <2>2 DEF Somewhere
<1>9. Follows(u, left)
  BY <1>1 DEF Follows, RequeuedFields
<1> QED BY <1>1, <1>2, <1>5, <1>6, <1>7, <1>8, <1>9, KeptQuietly DEF Patient

\* A write that was saved is what the window shows now.
LEMMA AdoptedKept ==
  ASSUME NEW m \in Nat, NEW s, NEW w, NEW R, NEW d, PageOK(s, m, w, R), Patient(s, m, w, R, d), NEW r \in R, ~r.orphan,
         r.kind \in {"commands", "undo", "redo"}, NEW left, LeftOf(R, r, left), NEW reply, Handled(r, reply), reply.ok,
         NEW u, Adopted(w, reply, u)
  PROVE  Patient(s, m, u, left, d) /\ u.queue = <<>>
<1>1. /\ Batches(left) = {} /\ Unwritten(left) = {} /\ r \in Unwritten(R) /\ Batches(R) \subseteq {r}
      /\ w.open => w.readFailed \/ w.select = w.canvas
  BY WriteIsAlone DEF ReadKinds
<1>2. FlightOK(s, w, R) /\ ServerOnce(s) /\ ServerOK(m, s) /\ RequestOK(s, m, r)
  BY DEF Patient, DraftKept, PageOK
<1>3. w.queue = <<>> /\ w.canvas # None /\ r.canvas = w.canvas
  BY <1>1, <1>2 DEF FlightOK
<1>4. PayloadOf(s, reply) /\ reply.canvas = r.canvas /\ r.reply # None /\ reply = r.reply
  BY <1>2, HandledFacts
<1>10. AdoptedFields(w, reply, u)
  BY <1>4, PageReads, AdoptsOK
<1>5. /\ u.canvas = reply.canvas /\ u.counter = reply.counter /\ u.document = reply.document \o <<>>
      /\ u.queue = w.queue /\ u.open = w.open /\ u.select = w.select /\ u.readFailed = w.readFailed
      /\ u.canvas # None
  BY <1>3, <1>10 DEF AdoptedFields
<1>6. DraftOK(s, u, left)
  BY <1>1, <1>2, <1>3, <1>4, <1>5, AdoptsDraft
<1>7. Settled(s, left)
  BY <1>2, LeftSettled
<1>8. \A e \in 1..m : e \in d \/ e \in ToSet(u.queue) \/ InServer(s, e)
  <2>1. SUFFICES ASSUME NEW e \in 1..m, Somewhere(s, w, R, d, e) PROVE e \in d \/ e \in ToSet(u.queue) \/ InServer(s, e)
    BY DEF Patient, DraftKept
  <2>2. e \notin ToSet(w.queue)
    BY <1>3 DEF ToSet
  <2>3. ASSUME r \in Batches(R), e \in ToSet(r.edits) PROVE InServer(s, e)
    <3>1. r.kind = "commands"
      BY <2>3 DEF Batches
    <3>2. e \in ToSet(reply.document)
      BY <1>1, <1>2, <1>4, <2>3, <3>1 DEF FlightOK
    <3>3. Was(s, reply.canvas, reply.counter, reply.document)
      BY <1>4 DEF PayloadOf
    <3> QED BY <1>2, <3>2, <3>3, WasDoc
  <2> QED BY <1>1, <2>1, <2>2, <2>3 DEF Somewhere
<1>9. Follows(u, left)
  BY <1>1, <1>3, <1>4, <1>5 DEF Follows
<1> QED BY <1>1, <1>2, <1>3, <1>5, <1>6, <1>7, <1>8, <1>9, KeptQuietly DEF Patient

LEMMA AdoptedOK ==
  ASSUME NEW m \in Nat, NEW s, NEW w, NEW R, PageOK(s, m, w, R), NEW r \in R, ~r.orphan,
         r.kind \in {"commands", "undo", "redo"}, NEW left, LeftOf(R, r, left), NEW reply, Handled(r, reply), reply.ok,
         NEW u, Adopted(w, reply, u)
  PROVE  PageOK(s, m, u, left) /\ u.canvas # None
<1>1. PageOK(s, m, w, left) /\ RequestOK(s, m, r) /\ w.canvas # None
  BY LeftWaited DEF PageOK, HasCanvas
<1>2. PayloadOf(s, reply)
  BY <1>1, HandledFacts
<1>3. MayRead(s, m, w, left) /\ ReadsOK(w, left)
  BY <1>1, PageReads
<1>6. MayRead(s, m, u, left) /\ ReadsOK(u, left) /\ AdoptedFields(w, reply, u)
  BY <1>2, <1>3, AdoptsOK
<1>4. MayRead(s, m, u, left) /\ ReadsOK(u, left) /\ u.open = w.open /\ u.canvas # None
  BY <1>6 DEF AdoptedFields
<1>5. \A p \in left : IsRead(p) /\ p.kind = "list" /\ p.reply # None /\ u.open =>
                        p.reply.canvases # {} \/ u.canvas = None
  BY <1>1, <1>4 DEF PageOK, HasCanvas
<1> QED BY <1>4, <1>5, PageFromReads

\* Closing the panel, or leaving it as it is.
LEMMA ClosedOK ==
  ASSUME NEW m, NEW s, NEW w, NEW R, PageOK(s, m, w, R), NEW open \in BOOLEAN, open => w.open,
         NEW u, u = [w EXCEPT !.open = open]
  PROVE  /\ PageOK(s, m, u, R)
         /\ \A d : Patient(s, m, w, R, d) => Patient(s, m, u, R, d)
<1>1. WindowOK(s, m, w)
  BY DEF PageOK
<1>2. /\ WindowOK(s, m, u) /\ SameDraft(w, u) /\ u.options = w.options /\ u.open = open /\ u.label = w.label
      /\ u.select = w.select /\ u.readFailed = w.readFailed
  BY <1>1 DEF WindowOK, SameDraft
<1>3. PageOK(s, m, u, R)
  BY <1>2, TouchedOK DEF SameDraft, PageOK, HasCanvas
<1>4. Follows(w, R) => Follows(u, R)
  BY <1>2 DEF Follows, SameDraft
<1> QED BY <1>2, <1>3, <1>4, TouchedKept DEF Patient

LEMMA AfterSaveKeeps ==
  ASSUME NEW m \in Nat, PageOK(server, m, window, requests), NEW r \in requests, ~r.orphan, r.kind = "commands",
         NEW left, LeftOf(requests, r, left), NEW reply, Handled(r, reply), AfterSave(r, reply, left)
  PROVE  /\ PageOK(server, m, window', requests')
         /\ Patient(server, m, window, requests, dropped) => Patient(server, m, window', requests', dropped')
<1> DEFINE w == IF reply.ok THEN Adopts(window, reply)
                ELSE [window EXCEPT !.queue = Requeued(window, r), !.label = FailureLabel(reply.why)]
<1>1. /\ IF r.then \in {"undo", "redo"} /\ w.queue = <<>>
         THEN Sends(w, left, Request(r.then, w.canvas, w.counter, <<>>, "rest"))
         ELSE Rests([w EXCEPT !.open = @ /\ r.then # "close"], left)
      /\ dropped' = dropped
  BY DEF AfterSave
<1>2. RequestOK(server, m, r) /\ window.canvas # None /\ PageOK(server, m, window, left)
  BY LeftWaited DEF PageOK, HasCanvas
<1>7. reply.ok => Adopted(window, reply, w)
  BY DEF Adopted
<1>8. ~reply.ok => Requeues(window, r, reply.why, w)
  BY DEF Requeues
<1> HIDE DEF w
<1>3. PageOK(server, m, w, left) /\ w.canvas # None
  <2>1. CASE reply.ok
    BY <1>7, <2>1, AdoptedOK
  <2>2. CASE ~reply.ok
    <3>1. PageOK(server, m, w, left) /\ RequeuedFields(window, r, w)
      BY <1>2, <1>8, <2>2, RequeuedOK
    <3> QED BY <1>2, <3>1 DEF RequeuedFields
  <2> QED BY <2>1, <2>2
<1>4. Patient(server, m, window, requests, dropped) => Patient(server, m, w, left, dropped) /\ WaitedFor(left) = {}
  <2> SUFFICES ASSUME Patient(server, m, window, requests, dropped)
               PROVE  Patient(server, m, w, left, dropped) /\ WaitedFor(left) = {}
    OBVIOUS
  <2>1. WaitedFor(left) = {}
    BY WriteIsAlone DEF ReadKinds
  <2>2. CASE reply.ok
    BY <1>7, <2>1, <2>2, AdoptedKept
  <2>3. CASE ~reply.ok
    <3>1. RequeuedFields(window, r, w)
      BY <1>2, <1>8, <2>3, RequeuedOK
    <3> QED BY <2>1, <3>1, RequeuedKept
  <2> QED BY <2>2, <2>3
<1>5. CASE r.then \in {"undo", "redo"} /\ w.queue = <<>>
  <2>1. Sends(w, left, Request(r.then, w.canvas, w.counter, <<>>, "rest"))
    BY <1>1, <1>5
  <2> QED BY <1>1, <1>3, <1>4, <1>5, <2>1, WriteBegins, NoEdits
<1>6. CASE ~(r.then \in {"undo", "redo"} /\ w.queue = <<>>)
  <2> DEFINE open == w.open /\ r.then # "close"
             u == [w EXCEPT !.open = open]
  <2>1. window' = u /\ requests' = left
    BY <1>1, <1>6 DEF Rests
  <2>2. open \in BOOLEAN /\ (open => w.open)
    BY <1>3 DEF PageOK, WindowOK
  <2> HIDE DEF open
  <2>3. PageOK(server, m, u, left) /\ \A d : Patient(server, m, w, left, d) => Patient(server, m, u, left, d)
    BY <1>3, <2>2, ClosedOK
  <2> QED BY <1>1, <1>4, <2>1, <2>3
<1> QED BY <1>5, <1>6

\* What is left when another request than a batch is handled still keeps the draft.
LEMMA LeftKept ==
  ASSUME NEW m, NEW s, NEW w, NEW R, NEW d, PageOK(s, m, w, R), Patient(s, m, w, R, d), NEW r \in R, ~r.orphan,
         r.kind # "commands", NEW left, LeftOf(R, r, left)
  PROVE  /\ DraftKept(s, m, w, left, d) /\ Unwritten(left) = {} /\ Batches(left) = {} /\ Settled(s, left)
         /\ \A e \in 1..m : e \in d \/ e \in ToSet(w.queue) \/ InServer(s, e)
<1>1. r \in WaitedFor(R) /\ RequestOK(s, m, r)
  BY DEF WaitedFor, PageOK
<1>2. \A q \in Unwritten(R) : q = r
  BY <1>1 DEF Patient, DraftKept, Alone
<1>3. Batches(R) = {}
  BY <1>2 DEF Batches
<1>4. WaitedFor(left) = WaitedFor(R) \ {r} /\ Unwritten(left) = Unwritten(R) \ {r} /\ Batches(left) = Batches(R) \ {r}
  BY LeftWaited
<1>5. Unwritten(left) = {} /\ Batches(left) = {}
  BY <1>2, <1>3, <1>4
<1>6. Settled(s, left) /\ ServerOnce(s)
  BY LeftSettled DEF Patient, DraftKept
<1>7. DraftOK(s, w, left)
  BY <1>3, <1>5 DEF Patient, DraftKept, DraftOK
<1>8. \A e \in 1..m : e \in d \/ e \in ToSet(w.queue) \/ InServer(s, e)
  BY <1>3 DEF Patient, DraftKept, Somewhere
<1> QED BY <1>5, <1>6, <1>7, <1>8, KeptQuietly

LEMMA AfterStepKeeps ==
  ASSUME NEW m \in Nat, PageOK(server, m, window, requests), NEW r \in requests, ~r.orphan, r.kind \in {"undo", "redo"},
         NEW left, LeftOf(requests, r, left), NEW reply, Handled(r, reply), AfterStep(r, reply, left)
  PROVE  /\ PageOK(server, m, window', requests')
         /\ Patient(server, m, window, requests, dropped) => Patient(server, m, window', requests', dropped')
<1>1. RequestOK(server, m, r) /\ window.canvas # None /\ PageOK(server, m, window, left)
  BY LeftWaited DEF PageOK, HasCanvas
<1>2. requests' = left /\ dropped' = dropped
  BY DEF AfterStep, Rests
<1>3. CASE reply.ok
  <2>1. Adopted(window, reply, window')
    BY <1>3 DEF AfterStep, Rests, Adopted
  <2> QED BY <1>2, <1>3, <2>1, AdoptedOK, AdoptedKept
<1>4. CASE ~reply.ok
  <2> DEFINE label == IF reply.why = "conflict" THEN "conflict" ELSE window.label
             u == [window EXCEPT !.label = label]
  <2>1. window' = u
    BY <1>4 DEF AfterStep, Rests
  <2>2. WindowOK(server, m, window)
    BY DEF PageOK
  <2>3. label \in Labels /\ (label = "saved" => window.label = "saved")
    BY <2>2 DEF WindowOK, Labels
  <2> HIDE DEF label
  <2>4. /\ WindowOK(server, m, u) /\ SameDraft(window, u) /\ u.options = window.options /\ u.open = window.open
        /\ u.select = window.select /\ u.readFailed = window.readFailed
    BY <2>2, <2>3 DEF WindowOK, SameDraft
  <2> HIDE DEF u
  <2>5. PageOK(server, m, u, left)
    BY <1>1, <2>4, TouchedOK DEF SameDraft
  <2>6. ASSUME Patient(server, m, window, requests, dropped) PROVE Patient(server, m, u, left, dropped)
    <3>1. DraftKept(server, m, window, left, dropped)
      BY <2>6, LeftKept
    <3>2. window.open => window.readFailed \/ window.select = window.canvas
      BY <2>6, WriteIsAlone DEF ReadKinds
    <3>3. Follows(u, left)
      BY <2>4, <3>2 DEF Follows, SameDraft
    <3> QED BY <2>4, <3>1, <3>3, TouchedKept DEF Patient
  <2> QED BY <1>2, <2>1, <2>5, <2>6
<1> QED BY <1>3, <1>4

\* A read that is not shown leaves the panel as it was, and says so if it was its own.
LEMMA UnshownReadKeeps ==
  ASSUME NEW m \in Nat, PageOK(server, m, window, requests), NEW r \in requests, ~r.orphan, r.kind \in ReadKinds,
         NEW left, LeftOf(requests, r, left),
         Rests([window EXCEPT !.readFailed = @ \/ IsCurrent(r)], left), dropped' = dropped
  PROVE  /\ PageOK(server, m, window', requests')
         /\ Patient(server, m, window, requests, dropped) => Patient(server, m, window', requests', dropped')
<1> DEFINE failed == window.readFailed \/ IsCurrent(r)
           u == [window EXCEPT !.readFailed = failed]
<1>1. window' = u /\ requests' = left
  BY DEF Rests
<1>2. WindowOK(server, m, window) /\ RequestOK(server, m, r) /\ PageOK(server, m, window, left)
  BY LeftWaited DEF PageOK
<1>3. failed \in BOOLEAN /\ (failed <=> window.readFailed \/ (r.newest /\ window.open))
  BY <1>2 DEF IsCurrent, WindowOK, RequestOK
<1> HIDE DEF failed
<1>4. /\ WindowOK(server, m, u) /\ SameDraft(window, u) /\ u.options = window.options /\ u.open = window.open
      /\ u.select = window.select /\ u.readFailed = failed /\ u.label = window.label
  BY <1>2, <1>3 DEF WindowOK, SameDraft
<1> HIDE DEF u
<1>5. PageOK(server, m, u, left)
  BY <1>2, <1>4, TouchedOK DEF SameDraft, PageOK, HasCanvas
<1>6. ASSUME Patient(server, m, window, requests, dropped) PROVE Patient(server, m, u, left, dropped)
  <2>1. DraftKept(server, m, window, left, dropped)
    BY <1>6, LeftKept DEF ReadKinds
  <2>2. WaitedFor(left) = WaitedFor(requests) \ {r}
    BY LeftWaited
  <2>3. Follows(u, left)
    BY <1>3, <1>4, <1>6, <2>2 DEF Patient, Follows, SameDraft, IsRead
  <2> QED BY <1>4, <2>1, <2>3, TouchedKept DEF Patient
<1> QED BY <1>1, <1>5, <1>6

\* The list of the canvases, and the panel that has none to show.
Listed(w, o, select, u) == u = [w EXCEPT !.options = o, !.readFailed = FALSE, !.select = select]
Emptied(w, u) == u = [w EXCEPT !.canvas = None, !.document = <<>>, !.label = "idle"]

LEMMA ListedFields ==
  ASSUME NEW m, NEW s, NEW w, WindowOK(s, m, w), NEW o \in SUBSET Nat, o \subseteq DOMAIN s,
         NEW select \in Nat \cup {None}, select \in o \cup {None},
         NEW u, Listed(w, o, select, u)
  PROVE  /\ WindowOK(s, m, u) /\ SameDraft(w, u) /\ u.options = o /\ u.open = w.open
         /\ u.select = select /\ u.label = w.label
BY DEF WindowOK, SameDraft, Listed

LEMMA EmptiedFields ==
  ASSUME NEW m \in Nat, NEW s, NEW w, WindowOK(s, m, w),
         NEW u, Emptied(w, u)
  PROVE  /\ WindowOK(s, m, u)
         /\ u.canvas = None /\ u.counter = w.counter /\ u.document = <<>> /\ u.queue = w.queue /\ u.label = "idle"
         /\ u.options = w.options /\ u.select = w.select /\ u.open = w.open
<1>1. <<>> \in DocsOf(m) /\ "idle" \in Labels
  BY NoEdits DEF Labels
<1> QED BY <1>1 DEF WindowOK, Emptied

LEMMA AfterListKeeps ==
  ASSUME NEW m \in Nat, PageOK(server, m, window, requests), NEW r \in requests, ~r.orphan, r.kind = "list",
         NEW left, LeftOf(requests, r, left), NEW reply, Handled(r, reply), AfterList(r, reply, left)
  PROVE  /\ PageOK(server, m, window', requests')
         /\ Patient(server, m, window, requests, dropped) => Patient(server, m, window', requests', dropped')
<1>1. CASE ~IsCurrent(r) \/ ~reply.ok
  BY <1>1, UnshownReadKeeps DEF AfterList, ReadKinds
<1>2. CASE IsCurrent(r) /\ reply.ok
  <2> DEFINE select == IF reply.canvases = {} THEN None ELSE 1
             w == [window EXCEPT !.options = reply.canvases, !.readFailed = FALSE, !.select = select]
             u == [w EXCEPT !.canvas = None, !.document = <<>>, !.label = "idle"]
  <2>1. /\ IF reply.canvases = {} THEN Rests(u, left)
           ELSE Loads(w, left, IF w.canvas \in reply.canvases THEN w.canvas ELSE 1)
        /\ dropped' = dropped
    BY <1>2 DEF AfterList
  <2>2. /\ RequestOK(server, m, r) /\ WindowOK(server, m, window) /\ PageOK(server, m, window, left)
        /\ ServerOK(m, server)
    BY LeftWaited DEF PageOK
  <2>3. r.reply # None /\ reply = r.reply /\ ListOf(server, reply)
    BY <1>2, <2>2, HandledFacts
  <2>4. /\ reply.canvases \subseteq DOMAIN server /\ (reply.canvases # {} => 1 \in reply.canvases)
        /\ reply.canvases \in SUBSET Nat
    BY <2>2, <2>3 DEF ListOf, ServerOK
  <2>5. IsRead(r) /\ window.open
    BY <1>2 DEF IsCurrent, IsRead, ReadKinds
  <2>6. \A p \in left : IsRead(p) => p.kind = "list" /\ p.reply = None
    BY <2>5, LeftWaited
  <2>7. select \in Nat \cup {None} /\ select \in reply.canvases \cup {None}
    BY <2>4
  <2> HIDE DEF select
  <2>8. /\ WindowOK(server, m, w) /\ SameDraft(window, w) /\ w.options = reply.canvases /\ w.open = window.open
        /\ w.select = select /\ w.label = window.label
    <3>1. Listed(window, reply.canvases, select, w)
      BY DEF Listed
    <3> HIDE DEF w
    <3> QED BY <2>2, <2>4, <2>7, <3>1, ListedFields
  <2> HIDE DEF w
  <2>9. MayRead(server, m, w, left)
    BY <2>2, <2>8 DEF PageOK, HasCanvas, MayRead, SameDraft
  <2>10. ASSUME Patient(server, m, window, requests, dropped)
         PROVE  DraftKept(server, m, w, left, dropped) /\ Unwritten(left) = {}
    BY <2>8, <2>10, LeftKept, TouchedKept
  <2>11. CASE reply.canvases # {}
    <3> DEFINE c == IF w.canvas \in reply.canvases THEN w.canvas ELSE 1
    <3>1. c \in w.options
      BY <2>4, <2>8, <2>11
    <3>2. Loads(w, left, c)
      BY <2>1, <2>11
    <3> HIDE DEF c
    <3>3. Sends(w, Superseded(left), Request("load", c, 0, <<>>, "rest"))
      BY <3>2 DEF Loads
    <3>4. /\ PageOK(server, m, window', requests')
          /\ \A d : DraftKept(server, m, w, left, d) /\ Unwritten(left) = {} => Patient(server, m, window', requests', d)
      BY <2>9, <3>1, <3>3, ReadBegins DEF ReadKinds
    <3> QED BY <2>1, <2>10, <3>4
  <2>12. CASE reply.canvases = {}
    <3>1. window' = u /\ requests' = left
      BY <2>1, <2>12 DEF Rests
    <3>2. window.canvas = None
      BY <2>3, <2>5, <2>12 DEF PageOK, HasCanvas
    <3>3. w.options = {} /\ w.canvas = None /\ w.select = None
      BY <2>8, <2>12, <3>2 DEF SameDraft, select
    <3>0. Emptied(w, u)
      BY DEF Emptied
    <3> HIDE DEF u
    <3>4. /\ u.canvas = None /\ u.counter = w.counter /\ u.document = <<>> /\ u.queue = w.queue /\ u.label = "idle"
          /\ u.options = w.options /\ u.select = w.select /\ u.open = w.open /\ WindowOK(server, m, u)
      BY <2>8, <3>0, EmptiedFields
    <3>6. ReadsOK(u, left)
      BY <2>2, <2>6 DEF PageOK, ReadsOK, IsRead, ReadKinds
    <3>7. MayRead(server, m, u, left)
      BY <2>9, <3>3, <3>4 DEF MayRead
    <3>8. PageOK(server, m, u, left)
      BY <2>6, <3>6, <3>7, PageFromReads
    <3>9. ASSUME Patient(server, m, window, requests, dropped) PROVE Patient(server, m, u, left, dropped)
      <4>1. w.document = <<>>
        BY <2>10, <3>3, <3>9 DEF DraftKept, DraftOK
      <4>2. SameDraft(w, u)
        BY <3>3, <3>4, <4>1 DEF SameDraft
      <4>3. Follows(u, left)
        BY <3>3, <3>4 DEF Follows
      <4> QED BY <2>10, <3>9, <4>2, <4>3, TouchedKept DEF Patient
    <3> QED BY <2>1, <3>1, <3>8, <3>9
  <2> QED BY <2>11, <2>12
<1> QED BY <1>1, <1>2

\* The window without its queue, which the answer of a load or a new canvas takes over.
LEMMA TakenOver ==
  ASSUME NEW m \in Nat, NEW s, NEW w, NEW R, MayRead(s, m, w, R), ReadsOK(w, R), NEW reply, PayloadOf(s, reply),
         NEW u, u = TakesOver(w, reply)
  PROVE  /\ MayRead(s, m, u, R) /\ ReadsOK(u, R)
         /\ u.canvas = reply.canvas /\ u.counter = reply.counter /\ u.document = reply.document \o <<>>
         /\ u.queue = <<>> /\ u.label = "saved" /\ u.options = w.options /\ u.select = w.select
         /\ u.open = w.open /\ u.readFailed = w.readFailed /\ u.canvas # None
<1> DEFINE v == [w EXCEPT !.queue = <<>>]
<1>1. WindowOK(s, m, w)
  BY DEF MayRead
<1>2. /\ v.canvas = w.canvas /\ v.label = w.label /\ v.options = w.options /\ v.select = w.select
      /\ v.open = w.open /\ v.readFailed = w.readFailed /\ v.queue = <<>>
  BY <1>1 DEF WindowOK
<1>3. WindowOK(s, m, v)
  <2>1. <<>> \in Seq(1..m)
    OBVIOUS
  <2> QED BY <1>1, <2>1 DEF WindowOK
<1>4. Adopted(v, reply, u)
  BY DEF TakesOver, Adopted
<1> HIDE DEF v
<1>5. MayRead(s, m, v, R) /\ ReadsOK(v, R)
  BY <1>2, <1>3 DEF MayRead, ReadsOK
<1>6. MayRead(s, m, u, R) /\ ReadsOK(u, R) /\ AdoptedFields(v, reply, u)
  BY <1>4, <1>5, AdoptsOK
<1> QED BY <1>2, <1>6 DEF AdoptedFields

\* The select shows the canvas, and no pause is under way.
Selected(w, c, u) == u = [w EXCEPT !.timer = FALSE, !.select = c]

LEMMA SelectedOK ==
  ASSUME NEW m, NEW s, NEW w, NEW R, MayRead(s, m, w, R), ReadsOK(w, R), NEW c \in w.options,
         NEW u, Selected(w, c, u)
  PROVE  /\ MayRead(s, m, u, R) /\ ReadsOK(u, R)
         /\ u.canvas = w.canvas /\ u.counter = w.counter /\ u.document = w.document /\ u.queue = w.queue
         /\ u.select = c /\ u.open = w.open /\ u.readFailed = w.readFailed
<1>1. WindowOK(s, m, w) /\ c \in Nat
  BY DEF MayRead, WindowOK
<1>2. /\ WindowOK(s, m, u) /\ u.options = w.options /\ u.label = w.label
      /\ u.canvas = w.canvas /\ u.counter = w.counter /\ u.document = w.document /\ u.queue = w.queue
      /\ u.select = c /\ u.open = w.open /\ u.readFailed = w.readFailed
  BY <1>1 DEF WindowOK, Selected
<1> QED BY <1>2 DEF MayRead, ReadsOK

LEMMA AfterLoadKeeps ==
  ASSUME NEW m \in Nat, PageOK(server, m, window, requests), NEW r \in requests, ~r.orphan, r.kind = "load",
         NEW left, LeftOf(requests, r, left), NEW reply, Handled(r, reply), AfterLoad(r, reply, left)
  PROVE  /\ PageOK(server, m, window', requests')
         /\ Patient(server, m, window, requests, dropped) => Patient(server, m, window', requests', dropped')
<1>1. CASE ~IsCurrent(r) \/ ~reply.ok
  BY <1>1, UnshownReadKeeps DEF AfterLoad, ReadKinds
<1>2. CASE IsCurrent(r) /\ reply.ok
  <2> DEFINE w == TakesOver(window, reply)
             u == [w EXCEPT !.timer = FALSE, !.select = reply.canvas]
  <2>1. window' = u /\ requests' = left /\ dropped' = dropped \cup ToSet(window.queue)
    BY <1>2 DEF AfterLoad, Rests
  <2>2. /\ RequestOK(server, m, r) /\ ServerOK(m, server) /\ PageOK(server, m, window, left)
        /\ MayRead(server, m, window, left) /\ ReadsOK(window, left)
    BY LeftWaited, PageReads DEF PageOK
  <2>3. PayloadOf(server, reply) /\ reply.canvas = r.canvas
    BY <1>2, <2>2, HandledFacts
  <2>4. IsRead(r) /\ r.canvas \in window.options
    BY <1>2 DEF IsCurrent, IsRead, ReadKinds, PageOK, ReadsOK
  <2>5. \A p \in left : IsRead(p) => p.kind = "load"
    BY <2>4, LeftWaited
  <2>6. w = TakesOver(window, reply) /\ Selected(w, reply.canvas, u)
    BY DEF Selected
  <2> HIDE DEF u
  <2> HIDE DEF w
  <2>7. /\ MayRead(server, m, w, left) /\ ReadsOK(w, left)
        /\ w.canvas = reply.canvas /\ w.counter = reply.counter /\ w.document = reply.document \o <<>>
        /\ w.queue = <<>> /\ w.options = window.options /\ w.canvas # None
    BY <2>2, <2>3, <2>6, TakenOver
  <2>8. reply.canvas \in w.options
    BY <2>3, <2>4, <2>7
  <2>9. /\ MayRead(server, m, u, left) /\ ReadsOK(u, left)
        /\ u.canvas = w.canvas /\ u.counter = w.counter /\ u.document = w.document /\ u.queue = w.queue
        /\ u.select = reply.canvas
    BY <2>6, <2>7, <2>8, SelectedOK
  <2>10. PageOK(server, m, u, left)
    BY <2>5, <2>9, PageFromReads
  <2>11. ASSUME Patient(server, m, window, requests, dropped) PROVE Patient(server, m, u, left, dropped')
    <3>1. /\ Unwritten(left) = {} /\ Batches(left) = {} /\ Settled(server, left)
          /\ \A e \in 1..m : e \in dropped \/ e \in ToSet(window.queue) \/ InServer(server, e)
      BY <2>11, LeftKept
    <3>2. ServerOnce(server)
      BY <2>11 DEF Patient, DraftKept
    <3>3. DraftOK(server, u, left)
      BY <2>2, <2>3, <2>7, <2>9, <3>1, <3>2, AdoptsDraft
    <3>4. \A e \in 1..m : e \in dropped' \/ e \in ToSet(u.queue) \/ InServer(server, e)
      BY <2>1, <3>1
    <3>5. DraftKept(server, m, u, left, dropped')
      BY <3>1, <3>2, <3>3, <3>4, KeptQuietly
    <3>6. Follows(u, left)
      BY <2>7, <2>9 DEF Follows
    <3> QED BY <3>5, <3>6 DEF Patient
  <2> QED BY <2>1, <2>10, <2>11
<1> QED BY <1>1, <1>2

\* A canvas that was created or forked takes the panel over.
LEMMA AfterNewKeeps ==
  ASSUME NEW m \in Nat, PageOK(server, m, window, requests), NEW r \in requests, ~r.orphan, r.kind \in {"create", "fork"},
         NEW left, LeftOf(requests, r, left), NEW reply, Handled(r, reply), AfterNew(r, reply, left)
  PROVE  /\ PageOK(server, m, window', requests')
         /\ Patient(server, m, window, requests, dropped) => Patient(server, m, window', requests', dropped')
<1>0. /\ RequestOK(server, m, r) /\ ServerOK(m, server) /\ PageOK(server, m, window, left)
      /\ MayRead(server, m, window, left) /\ ReadsOK(window, left)
  BY LeftWaited, PageReads DEF PageOK
<1>1. CASE ~reply.ok
  <2>1. window' = window /\ requests' = left /\ dropped' = dropped
    BY <1>1 DEF AfterNew, Rests
  <2>2. ASSUME Patient(server, m, window, requests, dropped) PROVE Patient(server, m, window, left, dropped)
    <3>1. DraftKept(server, m, window, left, dropped)
      BY <2>2, LeftKept
    <3>2. window.open => window.readFailed \/ window.select = window.canvas
      BY <2>2, WriteIsAlone DEF ReadKinds
    <3> QED BY <3>1, <3>2 DEF Patient, Follows
  <2> QED BY <1>0, <2>1, <2>2
<1>2. CASE reply.ok
  <2> DEFINE w == TakesOver(window, reply)
  <2>1. /\ Lists(w, left)
        /\ dropped' = dropped \cup IF r.kind = "fork" THEN {} ELSE ToSet(window.queue)
    BY <1>2 DEF AfterNew
  <2>2. PayloadOf(server, reply) /\ r.reply # None /\ reply = r.reply
    BY <1>0, <1>2, HandledFacts
  <2>3. w = TakesOver(window, reply)
    OBVIOUS
  <2> HIDE DEF w
  <2>4. /\ MayRead(server, m, w, left) /\ ReadsOK(w, left)
        /\ w.canvas = reply.canvas /\ w.counter = reply.counter /\ w.document = reply.document \o <<>>
        /\ w.queue = <<>> /\ w.options = window.options /\ w.canvas # None
    BY <1>0, <2>2, <2>3, TakenOver
  <2>5. w.open \/ PageOK(server, m, w, left)
    BY <2>4, PageFromReads
  <2>6. /\ PageOK(server, m, window', requests')
        /\ \A d : DraftKept(server, m, w, left, d) /\ Unwritten(left) = {} => Patient(server, m, window', requests', d)
    BY <2>1, <2>4, <2>5, ListsKeeps
  <2>7. ASSUME Patient(server, m, window, requests, dropped) PROVE DraftKept(server, m, w, left, dropped') /\ Unwritten(left) = {}
    <3>1. /\ Unwritten(left) = {} /\ Batches(left) = {} /\ Settled(server, left)
          /\ \A e \in 1..m : e \in dropped \/ e \in ToSet(window.queue) \/ InServer(server, e)
      BY <2>7, LeftKept
    <3>2. ServerOnce(server) /\ FlightOK(server, window, requests)
      BY <2>7 DEF Patient, DraftKept
    <3>3. DraftOK(server, w, left)
      BY <1>0, <2>2, <2>4, <3>1, <3>2, AdoptsDraft
    <3>4. ASSUME r.kind = "fork", NEW e \in ToSet(window.queue) PROVE InServer(server, e)
      <4>1. r \in Unwritten(requests)
        BY <2>7, WriteIsAlone DEF ReadKinds
      <4>2. ToSet(window.queue) \subseteq ToSet(r.edits) /\ ToSet(r.edits) \subseteq ToSet(reply.document)
        BY <1>2, <2>2, <3>2, <3>4, <4>1 DEF FlightOK
      <4>3. Was(server, reply.canvas, reply.counter, reply.document)
        BY <2>2 DEF PayloadOf
      <4> QED BY <1>0, <3>4, <4>2, <4>3, WasDoc
    <3>5. \A e \in 1..m : e \in dropped' \/ e \in ToSet(w.queue) \/ InServer(server, e)
      BY <2>1, <3>1, <3>4
    <3> QED BY <3>1, <3>2, <3>3, <3>5, KeptQuietly
  <2> QED BY <2>6, <2>7
<1> QED BY <1>1, <1>2

LEMMA HandleKeeps ==
  ASSUME NEW m \in Nat, PageOK(server, m, window, requests), NEW r \in requests, ~r.orphan,
         NEW left, LeftOf(requests, r, left), NEW reply, Handled(r, reply), Handle(r, reply, left)
  PROVE  /\ PageOK(server, m, window', requests')
         /\ Patient(server, m, window, requests, dropped) => Patient(server, m, window', requests', dropped')
         /\ UNCHANGED <<server, origin, patient>>
<1>0. r.kind \in PageKinds /\ UNCHANGED <<server, origin, patient>>
  BY DEF PageOK, RequestOK, Handle
<1>1. CASE r.kind = "commands"
  BY <1>0, <1>1, AfterSaveKeeps DEF Handle
<1>2. CASE r.kind \in {"undo", "redo"}
  BY <1>0, <1>2, AfterStepKeeps DEF Handle
<1>3. CASE r.kind = "list"
  BY <1>0, <1>3, AfterListKeeps DEF Handle
<1>4. CASE r.kind = "load"
  BY <1>0, <1>4, AfterLoadKeeps DEF Handle
<1>5. CASE r.kind \in {"create", "fork"}
  BY <1>0, <1>5, AfterNewKeeps DEF Handle
<1> QED BY <1>0, <1>1, <1>2, <1>3, <1>4, <1>5 DEF PageKinds, ReadKinds

-----------------------------------------------------------------------------
(* The actions. *)

\* What a step must show: the page is in order, and patient if it still is.
StepKeeps ==
  /\ PageOK(server', Len(origin'), window', requests')
  /\ origin' \in Seq(Nat \cup {None}) /\ patient' \in BOOLEAN
  /\ patient' => Patient(server', Len(origin'), window', requests', dropped')

LEMMA InvFacts ==
  ASSUME PageInv
  PROVE  /\ Len(origin) \in Nat /\ origin \in Seq(Nat \cup {None}) /\ patient \in BOOLEAN
         /\ PageOK(server, Len(origin), window, requests)
         /\ ServerOK(Len(origin), server) /\ WindowOK(server, Len(origin), window)
         /\ MayRead(server, Len(origin), window, requests)
         /\ patient => Patient(server, Len(origin), window, requests, dropped)
         /\ patient => DraftKept(server, Len(origin), window, requests, dropped)
<1>1. /\ Len(origin) \in Nat /\ origin \in Seq(Nat \cup {None}) /\ patient \in BOOLEAN
      /\ PageOK(server, Len(origin), window, requests)
      /\ patient => Patient(server, Len(origin), window, requests, dropped)
  BY DEF PageInv
<1> QED BY <1>1, PageReads DEF PageOK, Patient

LEMMA ServeRequestKeeps ==
  ASSUME PageInv, NEW r \in requests, ServeRequest(r)
  PROVE  StepKeeps
<1>1. UNCHANGED <<origin, window, patient, dropped>>
  BY DEF ServeRequest
<1> QED BY <1>1, InvFacts, ServeKeepsPage DEF StepKeeps

LEMMA OtherWindowKeeps ==
  ASSUME PageInv, NEW c \in Canvases, NEW e \in Theirs, OtherWindow(c, e)
  PROVE  StepKeeps
<1>1. UNCHANGED <<origin, window, requests, patient, dropped>>
  BY DEF OtherWindow
<1> QED BY <1>1, InvFacts, OtherKeepsPage DEF StepKeeps

LEMMA ReceiveKeeps ==
  ASSUME PageInv, NEW r \in requests, Receive(r)
  PROVE  StepKeeps
<1>1. r.reply # None /\ Handle(r, r.reply, requests \ {r})
  BY DEF Receive
<1>2. ~r.orphan
  BY <1>1, InvFacts DEF PageOK, RequestOK
<1>3. LeftOf(requests, r, requests \ {r}) /\ Handled(r, r.reply)
  BY <1>1 DEF LeftOf, Handled
<1> QED BY <1>1, <1>2, <1>3, InvFacts, HandleKeeps DEF StepKeeps

LEMMA TimeOutKeeps ==
  ASSUME PageInv, NEW r \in requests, TimeOut(r)
  PROVE  StepKeeps
<1> DEFINE left == (requests \ {r}) \cup IF r.reply = None THEN {[r EXCEPT !.orphan = TRUE, !.then = "rest"]} ELSE {}
<1>1. ~r.orphan /\ Handle(r, Wrong("timeout"), left)
  BY DEF TimeOut
<1>2. LeftOf(requests, r, left) /\ Handled(r, Wrong("timeout"))
  BY DEF LeftOf, Handled
<1> HIDE DEF left
<1> QED BY <1>1, <1>2, InvFacts, HandleKeeps DEF StepKeeps

\* An edit gets the next number.
LEMMA MakesFacts ==
  ASSUME PageInv, NEW boards \in Nat \cup {None}, Makes(boards)
  PROVE  /\ Len(origin') = Len(origin) + 1 /\ origin' \in Seq(Nat \cup {None})
         /\ window.canvas # None /\ UNCHANGED <<server, dropped>>
<1>1. origin \in Seq(Nat \cup {None}) /\ origin' = Append(origin, boards)
  BY InvFacts DEF Makes
<1> QED BY <1>1, AppendProperties DEF Makes

LEMMA EditKeeps ==
  ASSUME PageInv, Edit
  PROVE  StepKeeps
<1> DEFINE m == Len(origin)
           u == Queued(m + 1)
           boards == server[window.canvas].boards
<1>1. Makes(boards) /\ patient' = (patient /\ Unwritten(requests) = {}) /\ window' = u /\ requests' = requests
  BY DEF Edit, Waits, Rests, NextEdit, Writing, Awaited, Unwritten, WaitedFor, ReadKinds
<1>2. window.canvas \in DOMAIN server
  BY <1>1, InvFacts DEF Makes, WindowOK
<1>3. boards \in Nat \cup {None}
  BY <1>2, InvFacts, RowFacts DEF RowOK, Rows
<1> HIDE DEF boards
<1>4. /\ Len(origin') = m + 1 /\ origin' \in Seq(Nat \cup {None})
      /\ window.canvas # None /\ UNCHANGED <<server, dropped>>
  BY <1>1, <1>3, MakesFacts
<1>5. m \in Nat /\ PageOK(server, m, window, requests) /\ u = Queued(m + 1) /\ patient \in BOOLEAN
      /\ (patient => Patient(server, m, window, requests, dropped))
  BY InvFacts
<1> HIDE DEF u, m
<1>6. /\ PageOK(server, m + 1, u, requests)
      /\ Patient(server, m, window, requests, dropped) /\ Unwritten(requests) = {} =>
           Patient(server, m + 1, u, requests, dropped)
  BY <1>4, <1>5, QueuedKeeps
<1> QED BY <1>1, <1>4, <1>5, <1>6 DEF StepKeeps

LEMMA AddBoardKeeps ==
  ASSUME PageInv, AddBoard
  PROVE  StepKeeps
<1> DEFINE m == Len(origin)
           u == Queued(m + 1)
<1>1. Makes(None) /\ patient' = (patient /\ WaitedFor(requests) = {}) /\ Flush(u, requests, "rest")
  BY DEF AddBoard, Waits, NextEdit, Awaited, WaitedFor
<1>2. /\ Len(origin') = m + 1 /\ origin' \in Seq(Nat \cup {None})
      /\ window.canvas # None /\ UNCHANGED <<server, dropped>>
  BY <1>1, MakesFacts
<1>3. m \in Nat /\ PageOK(server, m, window, requests) /\ u = Queued(m + 1) /\ patient \in BOOLEAN
      /\ (patient => Patient(server, m, window, requests, dropped))
  BY InvFacts
<1> HIDE DEF u, m
<1>4. /\ PageOK(server, m + 1, u, requests)
      /\ Patient(server, m, window, requests, dropped) /\ Unwritten(requests) = {} =>
           Patient(server, m + 1, u, requests, dropped)
  BY <1>2, <1>3, QueuedKeeps
<1>5. m + 1 \in Nat
  BY <1>3
<1>6. /\ PageOK(server, m + 1, window', requests')
      /\ Patient(server, m + 1, u, requests, dropped) /\ WaitedFor(requests) = {} =>
           Patient(server, m + 1, window', requests', dropped)
  BY <1>1, <1>4, <1>5, FlushKeeps
<1>7. WaitedFor(requests) = {} => Unwritten(requests) = {}
  BY DEF Unwritten
<1> QED BY <1>1, <1>2, <1>3, <1>4, <1>6, <1>7 DEF StepKeeps

\* Flushing the window as it is, which Pause, Retry, Close and Step may do.
LEMMA FlushBegins ==
  ASSUME PageInv, Begins(Awaited), NEW then, Flush(window, requests, then)
  PROVE  StepKeeps
<1>1. patient' = (patient /\ WaitedFor(requests) = {}) /\ UNCHANGED <<server, origin, dropped>>
  BY DEF Begins, Waits, Awaited, WaitedFor
<1>2. /\ PageOK(server, Len(origin), window', requests')
      /\ Patient(server, Len(origin), window, requests, dropped) /\ WaitedFor(requests) = {} =>
           Patient(server, Len(origin), window', requests', dropped)
  BY InvFacts, FlushKeeps
<1> QED BY <1>1, <1>2, InvFacts DEF StepKeeps

LEMMA RequestBegins ==
  ASSUME PageInv, Begins(Awaited), NEW kind \in {"undo", "redo", "create", "fork"}, NEW c, NEW counter,
         NEW edits \in DocsOf(Len(origin)), NEW then,
         kind \in {"undo", "redo", "fork"} => window.canvas # None /\ c = window.canvas,
         kind \in {"undo", "redo"} => window.queue = <<>>,
         kind = "fork" /\ Patient(server, Len(origin), window, requests, dropped) /\ WaitedFor(requests) = {} =>
           IsInjective(edits) /\ ToSet(window.queue) \subseteq ToSet(edits),
         Sends(window, requests, Request(kind, c, counter, edits, then))
  PROVE  StepKeeps
<1>1. patient' = (patient /\ WaitedFor(requests) = {}) /\ UNCHANGED <<server, origin, dropped>>
  BY DEF Begins, Waits, Awaited, WaitedFor
<1>2. /\ PageOK(server, Len(origin), window', requests')
      /\ \A d : /\ Patient(server, Len(origin), window, requests, d) /\ WaitedFor(requests) = {}
                /\ kind \in {"undo", "redo"} => window.queue = <<>>
                /\ kind = "fork" => IsInjective(edits) /\ ToSet(window.queue) \subseteq ToSet(edits)
                => Patient(server, Len(origin), window', requests', d)
  BY InvFacts, WriteBegins
<1> QED BY <1>1, <1>2, InvFacts DEF StepKeeps

LEMMA StepAndCreateKeep ==
  ASSUME PageInv, Create \/ \E verb \in {"undo", "redo"} : Step(verb)
  PROVE  StepKeeps
<1>0. Begins(Awaited) /\ <<>> \in DocsOf(Len(origin))
  BY InvFacts, NoEdits DEF Create, Step
<1>1. CASE Create
  <2>1. Sends(window, requests, Request("create", None, 0, <<>>, "rest"))
    BY <1>1 DEF Create
  <2> QED BY <1>0, <2>1, RequestBegins
<1>2. ASSUME NEW verb \in {"undo", "redo"}, Step(verb) PROVE StepKeeps
  <2>1. CASE window.queue # <<>>
    BY <1>0, <1>2, <2>1, FlushBegins DEF Step
  <2>2. CASE window.queue = <<>>
    <3>1. /\ window.canvas # None
          /\ Sends(window, requests, Request(verb, window.canvas, window.counter, <<>>, "rest"))
      BY <1>2, <2>2 DEF Step
    <3> QED BY <1>0, <1>2, <2>2, <3>1, RequestBegins
  <2> QED BY <2>1, <2>2
<1> QED BY <1>1, <1>2

LEMMA ForkKeeps ==
  ASSUME PageInv, Fork
  PROVE  StepKeeps
<1>1. /\ Begins(Awaited) /\ window.label = "conflict"
      /\ Sends(window, requests, Request("fork", window.canvas, 0, window.document, "rest"))
  BY DEF Fork
<1>2. window.document \in DocsOf(Len(origin)) /\ window.canvas # None
  BY <1>1, InvFacts DEF WindowOK, PageOK, HasCanvas
<1>3. ASSUME Patient(server, Len(origin), window, requests, dropped), WaitedFor(requests) = {}
      PROVE  IsInjective(window.document) /\ ToSet(window.queue) \subseteq ToSet(window.document)
  <2>1. Batches(requests) = {} /\ DraftOK(server, window, requests)
    BY <1>3 DEF Batches, Unwritten, Patient, DraftKept
  <2>2. PICK base : /\ Was(server, window.canvas, window.counter, base)
                    /\ window.document = base \o window.queue
    BY <1>2, <2>1 DEF DraftOK
  <2>3. base \in Seq(EditsOf(Len(origin))) /\ window.queue \in Seq(EditsOf(Len(origin)))
    BY <2>2, InvFacts, WasDoc, DocsGrow DEF WindowOK, DocsOf
  <2>4. ToSet(window.document) = ToSet(base) \cup ToSet(window.queue)
    BY <2>2, <2>3, SetOfConcat
  <2> QED BY <2>1, <2>4 DEF DraftOK
<1> QED BY <1>1, <1>2, <1>3, RequestBegins

\* A read begins of a window that shows what it showed.
LEMMA ReadsKeep ==
  ASSUME PageInv, OpenPanel \/ Reload \/ \E c \in Canvases : Choose(c)
  PROVE  StepKeeps
<1> DEFINE m == Len(origin)
<1>0. /\ m \in Nat /\ PageOK(server, m, window, requests) /\ MayRead(server, m, window, requests)
      /\ WindowOK(server, m, window) /\ (patient => DraftKept(server, m, window, requests, dropped))
      /\ origin \in Seq(Nat \cup {None}) /\ patient \in BOOLEAN /\ m = Len(origin)
  BY InvFacts
<1>1. patient' = (patient /\ Unwritten(requests) = {}) /\ UNCHANGED <<server, origin, dropped>>
  BY DEF OpenPanel, Reload, Choose, Begins, Waits, Writing, Awaited, Unwritten, WaitedFor, ReadKinds
<1> HIDE DEF m
<1>2. SUFFICES \E w : /\ patient => DraftKept(server, m, w, requests, dropped)
                      /\ PageOK(server, m, window', requests')
                      /\ \A d : DraftKept(server, m, w, requests, d) /\ Unwritten(requests) = {} =>
                                  Patient(server, m, window', requests', d)
  BY <1>0, <1>1 DEF StepKeeps
<1>3. CASE OpenPanel
  <2> DEFINE w == [window EXCEPT !.open = TRUE]
  <2>1. Lists(w, requests)
    BY <1>3 DEF OpenPanel
  <2>2. /\ WindowOK(server, m, w) /\ SameDraft(window, w) /\ w.label = window.label /\ w.open
    BY <1>0 DEF WindowOK, SameDraft
  <2> HIDE DEF w
  <2>3. MayRead(server, m, w, requests)
    BY <1>0, <2>2 DEF MayRead, SameDraft
  <2>4. patient => DraftKept(server, m, w, requests, dropped)
    BY <1>0, <2>2, TouchedKept
  <2> QED BY <1>0, <2>1, <2>2, <2>3, <2>4, ListsKeeps
<1>4. CASE Reload
  <2>1. Lists(window, requests) /\ window.open
    BY <1>4 DEF Reload, Asking
  <2> QED BY <1>0, <2>1, ListsKeeps
<1>5. ASSUME NEW c \in Canvases, Choose(c) PROVE \E w : /\ patient => DraftKept(server, m, w, requests, dropped)
                      /\ PageOK(server, m, window', requests')
                      /\ \A d : DraftKept(server, m, w, requests, d) /\ Unwritten(requests) = {} =>
                                  Patient(server, m, window', requests', d)
  <2> DEFINE w == [window EXCEPT !.select = c]
  <2>1. c \in window.options /\ Sends(w, Superseded(requests), Request("load", c, 0, <<>>, "rest"))
    BY <1>5 DEF Choose, Loads
  <2>2. /\ WindowOK(server, m, w) /\ SameDraft(window, w) /\ w.label = window.label /\ w.options = window.options
    BY <1>0, <2>1 DEF WindowOK, SameDraft
  <2> HIDE DEF w
  <2>3. MayRead(server, m, w, requests)
    BY <1>0, <2>2 DEF MayRead, SameDraft
  <2>4. patient => DraftKept(server, m, w, requests, dropped)
    BY <1>0, <2>2, TouchedKept
  <2>5. c \in w.options /\ "load" \in ReadKinds
    BY <2>1, <2>2 DEF ReadKinds
  <2> QED BY <1>0, <2>1, <2>3, <2>4, <2>5, ReadBegins
<1> QED BY <1>3, <1>4, <1>5

LEMMA PageBegins == PageInit => PageInv
<1> SUFFICES ASSUME PageInit PROVE PageInv
  OBVIOUS
<1>1. /\ origin = <<>> /\ Len(origin) = 0 /\ origin \in Seq(Nat \cup {None}) /\ requests = {} /\ patient = TRUE
      /\ dropped = {} /\ 1..Len(origin) = {}
  BY DEF PageInit
<1>2. ServerOK(0, <<>>) /\ ServerOnce(<<>>)
  BY DEF ServerOK, ServerOnce
<1>4. /\ <<>> \in DocsOf(0) /\ <<>> \in Seq(1..0) /\ IsInjective(<<>>)
  BY NoEdits, NoneOnce
<1>5. CASE server = <<>> /\ window = Closed
  <2>1. WindowOK(server, 0, window)
    BY <1>4, <1>5 DEF WindowOK, Closed, Labels
  <2>2. PageOK(server, 0, window, requests)
    BY <1>1, <1>2, <1>5, <2>1 DEF PageOK, ReadsOK, HasCanvas, Closed
  <2>3. Patient(server, 0, window, requests, dropped)
    BY <1>1, <1>2, <1>4, <1>5 DEF Patient, DraftKept, Alone, DraftOK, FlightOK, Follows, Unwritten, WaitedFor, Closed
  <2> QED BY <1>1, <2>2, <2>3 DEF PageInv
<1>6. CASE /\ server = <<NewCanvas(<<>>, 1)>>
           /\ window = [Closed EXCEPT !.canvas = 1, !.counter = 1, !.label = "saved",
                                      !.options = {1}, !.select = 1, !.open = TRUE]
  <2> DEFINE first == NewCanvas(<<>>, 1)
  <2>0. /\ first = [log |-> <<<<>>>>, past |-> <<>>, future |-> <<>>, boards |-> 1]
        /\ first.log = <<<<>>>> /\ first.past = <<>> /\ first.future = <<>>
    BY DEF NewCanvas
  <2>1. server = <<first>> /\ DOMAIN server = {1} /\ server[1] = first
    BY <1>6
  <2> HIDE DEF first
  <2>2. /\ ServerOK(0, server) /\ Was(server, 1, 1, <<>>) /\ ServerOnce(server)
    <3>1. <<<<>>>> \in Seq(DocsOf(0)) /\ <<>> \in Seq(DocsOf(0)) /\ <<<<>>>> # <<>>
          /\ DOMAIN <<<<>>>> = {1} /\ <<<<>>>>[1] = <<>> /\ Len(<<<<>>>>) = 1
      BY <1>4
    <3>2. first \in Rows(0)
      BY <2>0, <3>1 DEF Rows
    <3>3. server \in Seq(Rows(0))
      BY <2>1, <3>2
    <3>4. RowOnce(first)
      BY <1>4, <2>0, <3>1 DEF RowOnce, Once
    <3> QED BY <2>0, <2>1, <3>1, <3>3, <3>4 DEF ServerOK, Was, ServerOnce
  <2>3. window = [canvas |-> 1, counter |-> 1, document |-> <<>>, queue |-> <<>>, label |-> "saved",
                  options |-> {1}, select |-> 1, readFailed |-> FALSE, open |-> TRUE, timer |-> FALSE]
    BY <1>6 DEF Closed
  <2>4. WindowOK(server, 0, window)
    BY <1>4, <2>1, <2>3 DEF WindowOK, Labels
  <2>5. PageOK(server, 0, window, requests)
    BY <1>1, <2>2, <2>3, <2>4 DEF PageOK, ReadsOK, HasCanvas
  <2>6. DraftOK(server, window, requests)
    <3>1. window.document = <<>> \o window.queue /\ IsInjective(window.document) /\ window.queue = <<>>
          /\ window.canvas = 1 /\ window.counter = 1 /\ window.canvas # None
      BY <1>4, <2>3, WindowAssumption
    <3>2. Batches(requests) = {}
      BY <1>1 DEF Batches, Unwritten, WaitedFor
    <3> QED BY <2>2, <3>1, <3>2 DEF DraftOK
  <2>7. Patient(server, 0, window, requests, dropped)
    BY <1>1, <2>2, <2>3, <2>6 DEF Patient, DraftKept, Alone, FlightOK, Follows, Unwritten, WaitedFor
  <2> QED BY <1>1, <2>5, <2>7 DEF PageInv
<1> QED BY <1>5, <1>6 DEF PageInit

LEMMA PageStep == PageInv /\ [PageNext]_pageVars => PageInv'
<1> SUFFICES ASSUME PageInv, [PageNext]_pageVars PROVE PageInv'
  OBVIOUS
<1>9. StepKeeps => PageInv'
  BY DEF StepKeeps, PageInv
<1>1. ASSUME NEW r \in requests, ServeRequest(r) \/ Receive(r) \/ TimeOut(r) PROVE StepKeeps
  BY <1>1, ServeRequestKeeps, ReceiveKeeps, TimeOutKeeps
<1>2. ASSUME NEW c \in Canvases, NEW e \in Theirs, OtherWindow(c, e) PROVE StepKeeps
  BY <1>2, OtherWindowKeeps
<1>3. CASE Edit \/ AddBoard
  BY <1>3, <1>9, EditKeeps, AddBoardKeeps
<1>4. CASE Pause \/ Retry \/ Close
  BY <1>4, <1>9, FlushBegins DEF Pause, Retry, Close
<1>5. CASE Create \/ \E verb \in {"undo", "redo"} : Step(verb)
  BY <1>5, <1>9, StepAndCreateKeep
<1>6. CASE Fork
  BY <1>6, <1>9, ForkKeeps
<1>7. CASE OpenPanel \/ Reload \/ \E c \in Canvases : Choose(c)
  BY <1>7, <1>9, ReadsKeep
<1>8. CASE UNCHANGED pageVars
  BY <1>8 DEF pageVars, PageInv
<1> QED BY <1>1, <1>2, <1>3, <1>4, <1>5, <1>6, <1>7, <1>8, <1>9 DEF PageNext

LEMMA ContainsSet ==
  ASSUME NEW S, NEW s \in Seq(S), NEW e \in ToSet(s)
  PROVE  Contains(s, e)
BY DEF ToSet, Contains

\* Every conjunct of what is promised follows from the invariant.
LEMMA PageKeepsDraft == PageInv => DraftIsKept
<1> SUFFICES ASSUME PageInv PROVE DraftIsKept
  OBVIOUS
<1> DEFINE m == Len(origin)
<1>1. /\ m \in Nat /\ PageOK(server, m, window, requests) /\ WindowOK(server, m, window)
      /\ ServerOK(m, server) /\ (patient => Patient(server, m, window, requests, dropped))
      /\ m = Len(origin)
  BY InvFacts
<1> HIDE DEF m
<1>2. PageTypeOK
  <2>1. ToSet(window.queue) \subseteq 1..m
    BY <1>1, SetOfSeq DEF WindowOK
  <2>2. \A r \in requests : r.n \in 1..Slots /\ (r.orphan => r.reply = None)
    BY <1>1 DEF PageOK, RequestOK
  <2> QED BY <1>1, <2>1, <2>2 DEF WindowOK, PageTypeOK, Canvases, Mine
<1>3. ListShowsCanvas
  BY <1>1 DEF ListShowsCanvas, Patient, Follows, Awaited, WaitedFor
<1>4. ASSUME patient PROVE NothingLost
  <2> SUFFICES ASSUME NEW e \in 1..m, e \notin dropped
               PROVE  \/ Contains(window.queue, e)
                      \/ \E r \in requests : Contains(r.edits, e)
                      \/ \E c \in Canvases : \E i \in DOMAIN server[c].log : Contains(server[c].log[i], e)
    BY <1>1 DEF NothingLost, Mine
  <2>1. Somewhere(server, window, requests, dropped, e)
    BY <1>1, <1>4 DEF Patient, DraftKept
  <2>2. CASE e \in ToSet(window.queue)
    BY <1>1, <2>2, ContainsSet DEF WindowOK
  <2>3. CASE \E r \in Batches(requests) : e \in ToSet(r.edits)
    <3>1. PICK r \in requests : e \in ToSet(r.edits)
      BY <2>3 DEF Batches, Unwritten, WaitedFor
    <3>2. r.edits \in Seq(EditsOf(m))
      BY <1>1 DEF PageOK, RequestOK, DocsOf
    <3> QED BY <3>1, <3>2, ContainsSet
  <2>4. CASE InServer(server, e)
    <3>1. PICK c \in DOMAIN server : \E i \in DOMAIN server[c].log : e \in ToSet(server[c].log[i])
      BY <2>4 DEF InServer
    <3>2. PICK i \in DOMAIN server[c].log : e \in ToSet(server[c].log[i])
      BY <3>1
    <3>3. server[c].log[i] \in Seq(EditsOf(m))
      BY <1>1, RowFacts DEF DocsOf
    <3> QED BY <3>2, <3>3, ContainsSet DEF Canvases
  <2> QED BY <2>1, <2>2, <2>3, <2>4 DEF Somewhere
<1>5. ASSUME patient PROVE SavedIsTrue
  <2> SUFFICES ASSUME window.label = "saved"
               PROVE  window.queue = <<>> /\ window.document = server[window.canvas].log[window.counter]
    BY DEF SavedIsTrue
  <2>1. DraftOK(server, window, requests)
    BY <1>1, <1>5 DEF Patient, DraftKept
  <2>2. window.queue = <<>> /\ window.canvas # None /\ Batches(requests) = {}
    BY <2>1 DEF DraftOK
  <2>3. PICK base : Was(server, window.canvas, window.counter, base) /\ window.document = base \o window.queue
    BY <2>1, <2>2 DEF DraftOK
  <2>4. base \in Seq(EditsOf(m)) /\ base = server[window.canvas].log[window.counter]
    BY <1>1, <2>3, WasDoc DEF DocsOf, Was
  <2>5. base \o <<>> = base
    BY <2>4, ConcatEmptySeq
  <2> QED BY <2>2, <2>3, <2>4, <2>5
<1>6. ASSUME patient PROVE NothingTwice
  BY <1>1, <1>6 DEF NothingTwice, Patient, DraftKept, ServerOnce, RowOnce, Once, Canvases
<1> QED BY <1>2, <1>3, <1>4, <1>5, <1>6 DEF DraftIsKept

\* The window stays well formed, its list follows its canvas, and while no save
\* overtakes what is under way every edit of web/app.js's canvas panel is queued,
\* on its way, saved once or given up by the maintainer, and "saved" is true.
THEOREM PageKeepsDrafts == PageSpec => []DraftIsKept
<1>1. PageInit => PageInv
  BY PageBegins
<1>2. PageInv /\ [PageNext]_pageVars => PageInv'
  BY PageStep
<1>3. PageInv => DraftIsKept
  BY PageKeepsDraft
<1> QED BY <1>1, <1>2, <1>3, PTL DEF PageSpec

=============================================================================
