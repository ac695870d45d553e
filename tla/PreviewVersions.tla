-------------------------- MODULE PreviewVersions --------------------------
(***************************************************************************)
(* Named versions of the rounds of a preview directory, and a chain that   *)
(* is forked from one (mcp/preview/versions.py, compatibility.py;          *)
(* ADR-0027).                                                              *)
(*                                                                         *)
(* Version files are appended under the lock of the version writers;       *)
(* log.md, which shows them below the decisions, is rewritten as a whole   *)
(* by them and by every decision, under the projection lock both take. A   *)
(* writer may stop anywhere, and its locks go with it.                     *)
(***************************************************************************)
EXTENDS PreviewDecision, Sequences

Job == [call : Nat, round : Rounds, at : {"lock", "name", "project", "read", "render",
                                          "destination", "rename"}, seq : Nat]

ASSUME JobAssumption == None \notin Job

VARIABLES
  versions,   \* version-<seq>.json by seq: the round and its decision id
  shown,      \* how many of them log.md shows
  found,      \* how many a process found to render log.md
  job,        \* the version call a process serves
  writing,    \* the call that holds .versions.lock
  chain,      \* the forked directory: the decision it starts from, or None
  forking,    \* the call that holds the lock of that directory's name
  told        \* history: versions whose call returned

versionVars == <<versions, shown, found, job, writing, chain, forking, told>>

JobGoes(p, position) == job' = [job EXCEPT ![p].at = position]

JobEnds(p) == job' = [job EXCEPT ![p] = None]

StartJob(p, r, position, id) ==
  /\ pc[p] = "idle" /\ job[p] = None /\ calls < MaxCalls
  /\ calls' = calls + 1
  /\ job' = [job EXCEPT ![p] = [call |-> calls + 1, round |-> r, at |-> position, seq |-> id]]
  /\ UNCHANGED <<disk, fence, process, sleeps, reported>>
  /\ UNCHANGED <<versions, shown, found, writing, chain, forking, told>>

\* Whether process p serves a version call that is there.
At(p, position) == job[p] # None /\ job[p].at = position

-----------------------------------------------------------------------------
(* A named version: create_named_version.                                   *)

StartVersion(p, r) == StartJob(p, r, "lock", 0)

LockVersions(p) ==
  /\ At(p, "lock") /\ writing = None
  /\ writing' = job[p].call
  /\ JobGoes(p, "name")
  /\ UNCHANGED <<vars, versions, shown, found, chain, forking, told>>

\* A round without a decision gets no version.
NameNothing(p) ==
  /\ At(p, "name") /\ entry[job[p].round] = None
  /\ writing' = None
  /\ JobEnds(p)
  /\ UNCHANGED <<vars, versions, shown, found, chain, forking, told>>

\* _next_seq: the next number, and a file of its own.
NameVersion(p) ==
  /\ At(p, "name") /\ entry[job[p].round] # None
  /\ versions' = Append(versions, <<job[p].round, entry[job[p].round].id>>)
  /\ job' = [job EXCEPT ![p].at = "project", ![p].seq = Len(versions) + 1]
  /\ UNCHANGED <<vars, shown, found, writing, chain, forking, told>>

\* refresh_version_projection: the log alone is repaired, without the lock of
\* the writers.
StartRefresh(p) == \E r \in Rounds : StartJob(p, r, "project", 0)

\* Faulty variant: the log is rendered from what was read before its lock was taken.
ReadUnlocked(p) ==
  /\ At(p, "project")
  /\ seen' = [seen EXCEPT ![p] = {<<r, entry[r].id>> : r \in {q \in Rounds : entry[q] # None}}]
  /\ found' = [found EXCEPT ![p] = Len(versions)]
  /\ JobGoes(p, "render")
  /\ UNCHANGED <<disk, fence, pc, run, calls, sleeps, reported>>
  /\ UNCHANGED <<versions, shown, writing, chain, forking, told>>

LockProjection(p) ==
  /\ At(p, "project") /\ fence = None
  /\ fence' = job[p].call
  /\ JobGoes(p, "read")
  /\ UNCHANGED <<disk, process, calls, sleeps, reported>>
  /\ UNCHANGED <<versions, shown, found, writing, chain, forking, told>>

\* render_versions_log reads the decisions, then the versions.
ReadForLog(p) ==
  /\ At(p, "read")
  /\ seen' = [seen EXCEPT ![p] = {<<r, entry[r].id>> : r \in {q \in Rounds : entry[q] # None}}]
  /\ found' = [found EXCEPT ![p] = Len(versions)]
  /\ JobGoes(p, "render")
  /\ UNCHANGED <<disk, fence, pc, run, calls, sleeps, reported>>
  /\ UNCHANGED <<versions, shown, writing, chain, forking, told>>

WriteVersionsLog(p) ==
  /\ At(p, "render")
  /\ log' = seen[p] /\ shown' = found[p]
  /\ seen' = [seen EXCEPT ![p] = {}] /\ found' = [found EXCEPT ![p] = 0]
  /\ fence' = None
  /\ writing' = IF writing = job[p].call THEN None ELSE writing
  /\ told' = IF job[p].seq = 0 THEN told ELSE told \cup {job[p].seq}
  /\ JobEnds(p)
  /\ UNCHANGED <<lock, guard, entry, confirm, ledger, pc, run, calls, sleeps, reported>>
  /\ UNCHANGED <<versions, chain, forking>>

-----------------------------------------------------------------------------
(* fork: a directory that starts with the prototype of a round.             *)

\* state_at: the round has a decision, and the confirm record is the decision's.
StartFork(p, r) ==
  /\ entry[r] # None
  /\ confirm[r] # 0 => confirm[r] = entry[r].id
  /\ StartJob(p, r, "destination", entry[r].id)

LockDestination(p) ==
  /\ At(p, "destination") /\ forking = None /\ chain = None
  /\ forking' = job[p].call
  /\ JobGoes(p, "rename")
  /\ UNCHANGED <<vars, versions, shown, found, writing, chain, told>>

DestinationExists(p) ==
  /\ At(p, "destination") /\ forking = None /\ chain # None
  /\ JobEnds(p)
  /\ UNCHANGED <<vars, versions, shown, found, writing, chain, forking, told>>

\* What was staged appears as a whole.
RenameStaging(p) ==
  /\ At(p, "rename")
  /\ chain' = job[p].seq
  /\ forking' = None
  /\ JobEnds(p)
  /\ UNCHANGED <<vars, versions, shown, found, writing, told>>

\* A write failed, a lock was not free in time, or the process died: what was
\* written stays, and the locks are released.
JobStops(p) ==
  /\ job[p] # None
  /\ fence' = IF fence = job[p].call THEN None ELSE fence
  /\ writing' = IF writing = job[p].call THEN None ELSE writing
  /\ forking' = IF forking = job[p].call THEN None ELSE forking
  /\ seen' = [seen EXCEPT ![p] = {}] /\ found' = [found EXCEPT ![p] = 0]
  /\ JobEnds(p)
  /\ UNCHANGED <<disk, pc, run, calls, sleeps, reported, versions, shown, chain, told>>

-----------------------------------------------------------------------------
(* The decisions, whose projection shows the versions as well.              *)

\* Faulty variant: a decision renders log.md without the versions.
ReadDecisions(p) ==
  /\ ReadEntries(p)
  /\ found' = [found EXCEPT ![p] = 0]
  /\ UNCHANGED <<versions, shown, job, writing, chain, forking, told>>

ReadProjected(p) ==
  /\ ReadEntries(p)
  /\ found' = [found EXCEPT ![p] = Len(versions)]
  /\ UNCHANGED <<versions, shown, job, writing, chain, forking, told>>

WriteProjected(p) ==
  /\ WriteLog(p)
  /\ shown' = found[p]
  /\ found' = [found EXCEPT ![p] = 0]
  /\ UNCHANGED <<versions, job, writing, chain, forking, told>>

VersionsInit ==
  /\ versions = <<>> /\ shown = 0
  /\ found = [p \in Processes |-> 0]
  /\ job = [p \in Processes |-> None]
  /\ writing = None /\ forking = None
  /\ chain = None /\ told = {}

VersionStep(p) ==
  \/ \E r \in Rounds : StartVersion(p, r) \/ StartFork(p, r)
  \/ StartRefresh(p)
  \/ LockVersions(p) \/ NameNothing(p) \/ NameVersion(p)
  \/ LockProjection(p) \/ ReadForLog(p) \/ WriteVersionsLog(p)
  \/ LockDestination(p) \/ DestinationExists(p) \/ RenameStaging(p)
  \/ JobStops(p)

-----------------------------------------------------------------------------
(* Properties.                                                              *)

VersionsTypeOK ==
  /\ versions \in Seq(Rounds \X Nat)
  /\ shown \in 0 .. Len(versions)
  /\ found \in [Processes -> Nat]
  /\ \A p \in Processes : job[p] # None => job[p] \in Job /\ pc[p] = "idle"
  /\ writing \in Nat \cup {None} /\ forking \in Nat \cup {None}
  /\ chain \in Nat \cup {None}
  /\ told \subseteq 1 .. Len(versions)

\* A version names a decision that is there, and what a call returned is shown,
\* although decisions rewrite log.md too (create_named_version, _refresh_log,
\* _commit_projections_unlocked).
VersionsAreShown ==
  /\ VersionsTypeOK
  /\ Punctual => \A n \in 1 .. Len(versions) :
                   LET r == versions[n][1] IN entry[r] # None /\ entry[r].id = versions[n][2]
  /\ \A n \in told : n <= shown

\* Version files are only appended, log.md never forgets one, and a forked
\* directory is not replaced (_next_seq, _refresh_log, fork).
VersionsAreKept ==
  /\ Len(versions') >= Len(versions) /\ SubSeq(versions', 1, Len(versions)) = versions
  /\ shown' >= shown
  /\ chain # None => chain' = chain

=============================================================================
