------------------------------ MODULE Registry ------------------------------
(***************************************************************************)
(* Projects and their folders (service.py, resolver.py, paths.py and the   *)
(* projects and folder_bindings tables of store.py). A project is bound to *)
(* a path and to the identity the folder had when the maintainer saw it.   *)
(* Folders are moved, removed and created while requests are on their way; *)
(* a request probes the disk, reads rows and writes in steps of its own.   *)
(*                                                                         *)
(* Paths are canonical, and two of them may differ in spelling only; roots,*)
(* remote paths and the data directory, which are never a target, are left *)
(* out. A folder that cannot be listed is like a missing one. Ledger,      *)
(* counters and grants are in MutationGate: here any request may end       *)
(* without effect.                                                         *)
(***************************************************************************)
EXTENDS Nothing, Naturals, FiniteSets

CONSTANTS
  Projects,     \* ids of projects, minted when they are registered
  Paths, Folders,
  Normalized,   \* path -> its form in lower case, with slashes, and none at its end
  Clerks,       \* request threads
  MaxMoves,     \* bound: changes of the disk
  MaxJobs       \* bound: requests

ASSUME RegistryAssumption ==
  /\ MaxMoves \in Nat /\ MaxJobs \in Nat
  /\ None \notin [path : Paths, id : Folders]

VARIABLES
  disk,      \* path -> the folder that is there
  row,       \* project -> "none", "registered", "removed" or "deleted"
  binding,   \* project -> the path and the identity of its current binding
  archived,  \* projects.archived
  current,   \* the setting currentProjectId
  shown,     \* the candidates the maintainer was shown
  job,       \* the request each thread serves, how far it is, and what it read;
             \* "was" is the binding by which a target was found
  moves, jobs

registryVars == <<disk, row, binding, archived, current, shown, job, moves, jobs>>

Candidates == [path : Paths, id : Folders]

Registered == {p \in Projects : row[p] = "registered"}

\* Faulty variant: a folder of that name is enough.
SomeFolderThere(b) == disk[b.path] # None

\* connection_state: the path still holds the recorded identity.
Connected(b) == disk[b.path] = b.id

\* binding_conflict: a current binding with the same path or the same identity.
Conflicts(c, but) ==
  \E p \in Projects \ {but} :
    binding[p] # None /\ (binding[p].path = c.path \/ binding[p].id = c.id)

RegistryInit ==
  /\ disk \in {d \in [Paths -> Folders \cup {None}] :
                 \A p, q \in Paths : p # q /\ d[p] = d[q] => d[p] = None}
  /\ row = [p \in Projects |-> "none"] /\ binding = [p \in Projects |-> None]
  /\ archived = {} /\ current = None /\ shown = {}
  /\ job = [c \in Clerks |-> None] /\ moves = 0 /\ jobs = 0

-----------------------------------------------------------------------------
(* The disk. *)

\* A folder goes, comes, or keeps its identity and changes its path.
MoveFolder(f, to) ==
  /\ moves < MaxMoves /\ moves' = moves + 1
  /\ to # None => disk[to] = None
  /\ disk' = [p \in Paths |-> IF p = to THEN f ELSE IF disk[p] = f THEN None ELSE disk[p]]
  /\ disk' # disk
  /\ UNCHANGED <<row, binding, archived, current, shown, job, jobs>>

-----------------------------------------------------------------------------
(* Requests. *)

Starts(c, request) ==
  /\ job[c] = None /\ jobs < MaxJobs
  /\ job' = [job EXCEPT ![c] = request] /\ jobs' = jobs + 1
  /\ UNCHANGED <<disk, row, binding, archived, current, shown, moves>>

\* The next step of a request, which reads only.
GoesOn(c, request) ==
  /\ job' = [job EXCEPT ![c] = request]
  /\ UNCHANGED <<disk, row, binding, archived, current, shown, moves, jobs>>

Doing(c, what) == job[c] # None /\ job[c].do = what

\* The effect of a transaction, if it has one, and the end of the request.
Finishes(c) == job' = [job EXCEPT ![c] = None] /\ UNCHANGED <<disk, shown, moves, jobs>>

\* validate_folder_target: what is found at a path now.
Found(path) == [path |-> path, id |-> disk[path]]

\* probe_folder shows a folder that no other project has.
Probe(path, but) ==
  /\ jobs < MaxJobs /\ jobs' = jobs + 1
  /\ disk[path] # None
  /\ ~Conflicts(Found(path), but)
  /\ shown' = shown \cup {Found(path)}
  /\ UNCHANGED <<disk, row, binding, archived, current, job, moves>>

\* _confirm_candidate: the path still holds the folder that was shown.
Confirm(c, p, candidate) ==
  /\ candidate \in shown
  /\ candidate = Found(candidate.path)
  /\ \/ row[p] = "none" /\ Starts(c, [do |-> "register", p |-> p, candidate |-> candidate])
     \/ row[p] = "registered" /\ Starts(c, [do |-> "rebind", p |-> p, candidate |-> candidate])

\* Faulty variant: the folder is only compared when it is shown.
NoOtherLook(c, p) == TRUE

\* Looked up again inside the transaction.
StillFree(c, p) == ~Conflicts(c, p)

Bind(c) ==
  /\ Doing(c, "register") \/ Doing(c, "rebind")
  /\ LET p == job[c].p
     IN /\ IF Doing(c, "register") THEN row[p] = "none" ELSE row[p] = "registered"
        /\ StillFree(job[c].candidate, p)
        /\ binding' = [binding EXCEPT ![p] = job[c].candidate]
        /\ row' = [row EXCEPT ![p] = "registered"]
  /\ Finishes(c) /\ UNCHANGED <<archived, current>>

\* require_project asks before the gate does.
AskOpen(c, p) ==
  /\ p \in Registered /\ Connected(binding[p])
  /\ Starts(c, [do |-> "open", p |-> p])

\* The answer is an overview, which clears a project that is gone.
Open(c) ==
  /\ Doing(c, "open")
  /\ current' = IF job[c].p \in Registered THEN job[c].p ELSE None
  /\ Finishes(c) /\ UNCHANGED <<row, binding, archived>>

\* Whether it is the current project is read before the transaction.
AskRemove(c, p) ==
  /\ p \in Registered
  /\ Starts(c, [do |-> "remove", p |-> p, was |-> current = p])

RemoveProject(c) ==
  /\ Doing(c, "remove")
  /\ LET p == job[c].p
     IN /\ p \in Registered
        /\ row' = [row EXCEPT ![p] = "removed"] /\ binding' = [binding EXCEPT ![p] = None]
  /\ current' = IF job[c].was THEN None ELSE current
  /\ Finishes(c) /\ UNCHANGED archived

\* Only an unregistered project is deleted.
DeleteData(p) ==
  /\ jobs < MaxJobs /\ jobs' = jobs + 1
  /\ row[p] = "removed" /\ row' = [row EXCEPT ![p] = "deleted"]
  /\ UNCHANGED <<disk, binding, archived, current, shown, job, moves>>

\* archive_project of lifecycle.py.
Archive(p) ==
  /\ jobs < MaxJobs /\ jobs' = jobs + 1
  /\ p \in Registered
  /\ archived' = IF p \in archived THEN archived \ {p} ELSE archived \cup {p}
  /\ UNCHANGED <<disk, row, binding, current, shown, job, moves>>

\* A counter has moved, the connection is cut, the process stops.
EndWithout(c) ==
  /\ job[c] # None
  /\ Finishes(c) /\ UNCHANGED <<row, binding, archived, current>>

\* projects_overview: the rows, their targets, the setting, which is cleared
\* when it names none of them.
AskOverview(c) == Starts(c, [do |-> "overview", listed |-> Registered])

Overview(c) ==
  /\ Doing(c, "overview")
  /\ job[c].listed \subseteq Registered
  /\ \/ current \in job[c].listed \cup {None} /\ Finishes(c)
     \/ current \notin job[c].listed \cup {None} /\ GoesOn(c, [do |-> "clear"])
  /\ UNCHANGED <<row, binding, archived, current>>

ClearCurrent(c) ==
  /\ Doing(c, "clear")
  /\ current' = None
  /\ Finishes(c) /\ UNCHANGED <<row, binding, archived>>

-----------------------------------------------------------------------------
(* Resolving the target of a slash command (resolver.py). *)

AskResolve(c, path) ==
  Starts(c, [do |-> "match", path |-> path, seen |-> disk[path]])

\* Faulty variant: the spelling never matters.
MatchingInAnyCase(p, path, seen) ==
  /\ binding[p] # None
  /\ Normalized[binding[p].path] = Normalized[path] \/ (seen # None /\ binding[p].id = seen)

\* _match_by_directory: by path or identity, and by the spelling of the recorded
\* path when there is no such folder. Any of two that match may come first: they
\* are ordered by the second of their registration, which is read before its
\* transaction, and then by their random ids.
Matching(p, path, seen) ==
  /\ binding[p] # None
  /\ IF seen = None THEN Normalized[binding[p].path] = Normalized[path]
     ELSE binding[p].path = path \/ binding[p].id = seen

MatchTarget(c) ==
  /\ Doing(c, "match")
  /\ \E p \in Registered :
       /\ Matching(p, job[c].path, job[c].seen)
       /\ GoesOn(c, [do |-> "row", path |-> job[c].path, seen |-> job[c].seen,
                      p |-> p, was |-> binding[p]])

\* project_target reads the row and the binding.
ReadTarget(c) ==
  /\ Doing(c, "row")
  /\ job[c].p \in Registered \ archived
  /\ GoesOn(c, [do |-> "state", path |-> job[c].path, seen |-> job[c].seen,
                was |-> job[c].was, target |-> binding[job[c].p]])

\* Its connection state is probed last.
ResolveTarget(c) ==
  /\ Doing(c, "state")
  /\ Connected(job[c].target)
  /\ GoesOn(c, [job[c] EXCEPT !.do = "resolved"])

RegistryNext ==
  \/ \E f \in Folders, to \in Paths \cup {None} : MoveFolder(f, to)
  \/ \E path \in Paths, but \in Projects \cup {None} : Probe(path, but)
  \/ \E p \in Projects : DeleteData(p) \/ Archive(p)
  \/ \E c \in Clerks :
       \/ \E p \in Projects, candidate \in shown : Confirm(c, p, candidate)
       \/ \E p \in Projects : AskOpen(c, p) \/ AskRemove(c, p)
       \/ \E path \in Paths : AskResolve(c, path)
       \/ Bind(c) \/ Open(c) \/ RemoveProject(c) \/ AskOverview(c) \/ Overview(c) \/ ClearCurrent(c)
       \/ MatchTarget(c) \/ ReadTarget(c) \/ ResolveTarget(c) \/ EndWithout(c)

RegistrySpec == RegistryInit /\ [][RegistryNext]_registryVars

-----------------------------------------------------------------------------
(* Properties. *)

RegistryTypeOK ==
  /\ disk \in [Paths -> Folders \cup {None}]
  /\ row \in [Projects -> {"none", "registered", "removed", "deleted"}]
  /\ binding \in [Projects -> Candidates \cup {None}]
  /\ \A p \in Projects : row[p] = "registered" <=> binding[p] # None
  /\ archived \subseteq Projects /\ current \in Projects \cup {None} /\ shown \subseteq Candidates

\* "One project per real directory" (probe_folder), whatever is registered and
\* rebound side by side, and only to what the maintainer was shown.
OneProjectPerFolder ==
  /\ RegistryTypeOK
  /\ \A p \in Registered : binding[p] \in shown
  /\ \A p, q \in Registered :
       p # q => binding[p].path # binding[q].path /\ binding[p].id # binding[q].id

\* A command is told of a project whose folder is where the project has it.
\* Unless that project was rebound meanwhile, it is the project of the folder
\* which was at the path the command named while it asked; and only if there was
\* none may it be one whose path is spelled like the path named: "alternate
\* spellings of the same directory agree" (test_resolver.py; _match_by_directory,
\* connection_state).
TargetIsTheNamedFolder ==
  \A c \in Clerks : Doing(c, "state") /\ Doing(c, "resolved")' =>
    LET t == job[c].target
    IN /\ disk[t.path] = t.id
       /\ t = job[c].was =>
            IF job[c].seen # None THEN t.id \in {job[c].seen, disk[job[c].path]}
            ELSE Normalized[t.path] = Normalized[job[c].path]

\* Both of every step.
FoldersAreTheirs ==
  OneProjectPerFolder /\ [][OneProjectPerFolder' /\ TargetIsTheNamedFolder]_registryVars

=============================================================================
