--------------------------- MODULE ProposalApply ---------------------------
(***************************************************************************)
(* Source proposals of one project and their recoverable application       *)
(* (design_playbook_workbench/proposals.py, the apply_journal and          *)
(* proposals tables of store.py, the authorization gate of service.py).    *)
(*                                                                         *)
(* Request threads of the HTTP server share the database, the project      *)
(* files and one in-process lock per project. A request reads the database *)
(* before it takes that lock; a write of several files is not atomic, so   *)
(* the process may stop, or the operating system may refuse a write,       *)
(* between any two files, and the maintainer's own editor may change any   *)
(* file at any time.                                                       *)
(*                                                                         *)
(* The contents of a file are abstracted to their hash; the binding, the   *)
(* grant and the reviewed digest are those the maintainer confirmed.       *)
(***************************************************************************)
EXTENDS Naturals, Sequences

CONSTANTS
  Paths,        \* project files
  Contents,     \* hashes a file can have
  Absent,       \* stands for the hash None of a file that does not exist
  Proposals,    \* proposal ids
  Changes,      \* what each proposal asks for: a list of [path, content]
  Threads,      \* request threads of the server
  NoThread,
  NoRequest,
  Operations,   \* operation ids; one is recorded per successful mutation
  Files0,       \* the project files at the start
  MaxEdits,     \* bound: edits by the maintainer's own tools
  MaxFaults,    \* bound: writes the operating system refuses
  MaxCrashes    \* bound: stops of the process

Hashes == Contents \cup {Absent}

ASSUME NamesAssumption ==
  /\ Absent \notin Contents
  /\ NoThread \notin Threads

\* _parse_changes refuses an empty list and a path named twice.
ASSUME ChangesAssumption ==
  /\ Changes \in [Proposals -> Seq([path : Paths, content : Hashes])]
  /\ \A p \in Proposals :
       /\ Changes[p] # << >>
       /\ \A i, j \in DOMAIN Changes[p] :
            Changes[p][i].path = Changes[p][j].path => i = j

ASSUME FilesAssumption == Files0 \in [Paths -> Hashes]

ASSUME BoundsAssumption == MaxEdits \in Nat /\ MaxFaults \in Nat /\ MaxCrashes \in Nat

VARIABLES
  file,     \* [Paths -> Hashes]: the project directory
  pstate,   \* proposals.state, "none" before the row exists
  steps,    \* the file operations of each proposal, as its payload binds them
  late,     \* the proposals whose expires_at has passed
  jstate,   \* apply_journal.state of the proposal's one journal
  ledger,   \* operation ids with a row in the mutations table
  lock,     \* holder of the project lock
  pc,       \* where each request thread is
  req,      \* the request each thread serves
  todo,     \* the steps a writing thread has not finished
  touched,  \* history: files edited by the maintainer since the lock was taken
  edits, faults, crashes   \* counters of the bounded events

store   == <<pstate, steps, late, jstate, ledger>>
process == <<lock, pc, req, todo, touched>>
bounds  == <<edits, faults, crashes>>
vars    == <<file, store, process, bounds>>

-----------------------------------------------------------------------------
(* Values *)

Step == [ord : Nat, path : Paths, base : Hashes, result : Hashes, backup : Hashes]

Request == [prop : Proposals, mode : {"apply", "rollback", "finish"}, op : Operations]

ProposalStates == {"none", "awaiting-authorization", "applied", "rejected",
                   "expired", "rolled-back"}

JournalStates == {"none", "writing", "recovery-required", "committed", "rolled-back"}

Incomplete == {"writing", "recovery-required"}

\* The sections under "with self._project_lock(project_id)".
Critical == {"write", "verify", "restore", "restored"}

Positions == Critical \cup {"idle", "expire", "applyWait", "recoverWait"}

\* Faulty variant: an interrupted write whose journal was not marked blocks
\* nothing.
BlockedWhenMarked == \E p \in Proposals : jstate[p] = "recovery-required"

\* Store.incomplete_journal: the project has a journal that is not settled.
Blocked == \E p \in Proposals : jstate[p] \in Incomplete

\* _effective_state: a partial write is the most important thing to show.
EffectiveState(p) ==
  IF jstate[p] \in Incomplete THEN "recovery-required"
  ELSE IF pstate[p] = "awaiting-authorization" /\ p \in late THEN "expired"
  ELSE pstate[p]

\* _classify: each step of a plan is applied, pending or changed by others.
Applied(S)  == {s \in S : file[s.path] = s.result}
Pending(S)  == {s \in S \ Applied(S) : file[s.path] = s.base}
External(S) == S \ (Applied(S) \cup Pending(S))

\* Steps are written in the order of the plan and undone in reverse.
IsFirst(s, S) == s \in S /\ \A r \in S : s.ord <= r.ord
IsLast(s, S)  == s \in S /\ \A r \in S : s.ord >= r.ord

\* Faulty variant: only the existence of the files is checked again.
PlanExists(p) == \A s \in steps[p] : (file[s.path] = Absent) <=> (s.base = Absent)

\* _plan: every file is still the one the proposal was reviewed against.
PlanHolds(p) == \A s \in steps[p] : file[s.path] = s.base

-----------------------------------------------------------------------------
(* Creating proposals: one write transaction of the mutation gate. *)

\* What the staging loop finds when it copies the files it hashed before: the
\* same files, or files the maintainer saved in between.
StagingViews(wanted) ==
  {file} \cup
  {[file EXCEPT ![s.path] = c] :
     s \in {w \in wanted : edits < MaxEdits /\ file[w.path] # Absent},
     c \in Contents}

\* A wanted step names a path and its result. An absent file can only be
\* created, an existing one only updated or deleted (409 otherwise), and a
\* backup is kept of every file the proposal does not create.
Stage(p, wanted, op) ==
  /\ op \notin ledger
  /\ ~Blocked
  /\ pstate[p] = "none"
  /\ \A w \in wanted : file[w.path] # Absent \/ w.result # Absent
  /\ \E seen \in StagingViews(wanted) :
       /\ steps' = [steps EXCEPT ![p] =
            {[ord |-> w.ord, path |-> w.path, base |-> file[w.path],
              result |-> w.result,
              backup |-> IF file[w.path] = Absent THEN Absent ELSE seen[w.path]] :
             w \in wanted}]
       /\ file' = seen
       /\ edits' = IF seen = file THEN edits ELSE edits + 1
       /\ touched' = IF seen = file \/ lock = NoThread THEN touched
                     ELSE touched \cup {w \in Paths : seen[w] # file[w]}
  /\ pstate' = [pstate EXCEPT ![p] = "awaiting-authorization"]
  /\ ledger' = ledger \cup {op}
  /\ UNCHANGED <<late, jstate, lock, pc, req, todo, faults, crashes>>

Create(p, op) ==
  Stage(p, {[ord |-> i, path |-> Changes[p][i].path, result |-> Changes[p][i].content] :
            i \in DOMAIN Changes[p]}, op)

\* A revert is a new proposal q that turns the results of p back into the
\* backups, and only while every file still is the result of p.
Revert(p, q, op) ==
  /\ pstate[p] = "applied"
  /\ \A s \in steps[p] : file[s.path] = s.result
  /\ Stage(q, {[ord |-> s.ord, path |-> s.path, result |-> s.backup] : s \in steps[p]}, op)

\* The row's state is re-read inside the gate's transaction; the journal and
\* the project lock are not looked at.
Reject(p, op) ==
  /\ op \notin ledger
  /\ pstate[p] = "awaiting-authorization"
  /\ pstate' = [pstate EXCEPT ![p] = "rejected"]
  /\ ledger' = ledger \cup {op}
  /\ UNCHANGED <<file, steps, late, jstate, process, bounds>>

-----------------------------------------------------------------------------
(* Serving apply and recover. *)

Starts(t, p, mode, op, position) ==
  /\ pc[t] = "idle"
  /\ op \notin ledger
  /\ pc' = [pc EXCEPT ![t] = position]
  /\ req' = [req EXCEPT ![t] = [prop |-> p, mode |-> mode, op |-> op]]
  /\ UNCHANGED <<file, store, lock, todo, touched, bounds>>

Returns(t) ==
  /\ pc' = [pc EXCEPT ![t] = "idle"]
  /\ req' = [req EXCEPT ![t] = NoRequest]
  /\ todo' = [todo EXCEPT ![t] = {}]

\* Faulty variant: an exit that forgets the lock.
ReturnsHoldingLock(t) ==
  /\ Returns(t)
  /\ UNCHANGED <<lock, touched>>

\* Leaving the critical section, by return or by exception.
ReleasesAndReturns(t) ==
  /\ lock' = NoThread
  /\ touched' = {}
  /\ Returns(t)

Acquires(t, position, S) ==
  /\ lock' = t
  /\ touched' = {}
  /\ pc' = [pc EXCEPT ![t] = position]
  /\ todo' = [todo EXCEPT ![t] = S]
  /\ UNCHANGED req

\* Everything apply checks before it takes the project lock.
ApplyChecked(t, p, op) ==
  /\ pstate[p] = "awaiting-authorization"
  /\ ~Blocked
  /\ p \notin late
  /\ Starts(t, p, "apply", op, "applyWait")

\* The row was read as awaiting and its time is over: the state is written
\* by a later statement, whatever the row is by then.
ApplyTooLate(t, p, op) ==
  /\ pstate[p] = "awaiting-authorization"
  /\ ~Blocked
  /\ p \in late
  /\ Starts(t, p, "apply", op, "expire")

MarkExpired(t) ==
  /\ pc[t] = "expire"
  /\ pstate' = [pstate EXCEPT ![req[t].prop] = "expired"]
  /\ Returns(t)
  /\ UNCHANGED <<file, steps, late, jstate, ledger, lock, touched, bounds>>

ApplyRefused(t) ==
  /\ pc[t] = "applyWait"
  /\ lock = NoThread
  /\ jstate[req[t].prop] # "none" \/ ~PlanHolds(req[t].prop)
  /\ Returns(t)
  /\ UNCHANGED <<file, store, lock, touched, bounds>>

\* Faulty variant: the journal row is left for the commit.
ApplyBeginsUnjournaled(t) ==
  /\ pc[t] = "applyWait"
  /\ lock = NoThread
  /\ jstate[req[t].prop] = "none"
  /\ PlanHolds(req[t].prop)
  /\ Acquires(t, "write", steps[req[t].prop])
  /\ UNCHANGED <<file, store, bounds>>

ApplyBegins(t) ==
  /\ pc[t] = "applyWait"
  /\ lock = NoThread
  /\ jstate[req[t].prop] = "none"
  /\ PlanHolds(req[t].prop)
  /\ jstate' = [jstate EXCEPT ![req[t].prop] = "writing"]
  /\ Acquires(t, "write", steps[req[t].prop])
  /\ UNCHANGED <<file, pstate, steps, late, ledger, bounds>>

\* The journal is read before the lock is taken and not read again.
RecoverChecked(t, p, mode, op) ==
  /\ jstate[p] \in Incomplete
  /\ Starts(t, p, mode, op, "recoverWait")

RecoverRefused(t) ==
  /\ pc[t] = "recoverWait"
  /\ lock = NoThread
  /\ External(steps[req[t].prop]) # {}
  /\ Returns(t)
  /\ UNCHANGED <<file, store, lock, touched, bounds>>

RollbackBegins(t) ==
  /\ pc[t] = "recoverWait"
  /\ req[t].mode = "rollback"
  /\ lock = NoThread
  /\ External(steps[req[t].prop]) = {}
  /\ Acquires(t, "restore", Applied(steps[req[t].prop]))
  /\ UNCHANGED <<file, store, bounds>>

FinishBegins(t) ==
  /\ pc[t] = "recoverWait"
  /\ req[t].mode = "finish"
  /\ lock = NoThread
  /\ External(steps[req[t].prop]) = {}
  /\ Acquires(t, "write", Pending(steps[req[t].prop]))
  /\ UNCHANGED <<file, store, bounds>>

-----------------------------------------------------------------------------
(* _write_steps, shared by apply and by recover(finish). *)

WriteFile(t) ==
  /\ pc[t] = "write"
  /\ \E s \in todo[t] :
       /\ IsFirst(s, todo[t])
       /\ file' = [file EXCEPT ![s.path] = s.result]
  /\ pc' = [pc EXCEPT ![t] = "verify"]
  /\ UNCHANGED <<store, lock, req, todo, touched, bounds>>

\* _fail_journal, then the exception leaves the critical section.
FailsJournal(t) ==
  /\ jstate' = [jstate EXCEPT ![req[t].prop] = "recovery-required"]
  /\ ReleasesAndReturns(t)
  /\ UNCHANGED <<file, pstate, steps, late, ledger, edits, crashes>>

\* Faulty variant: a refused write is skipped.
WriteSkipped(t) ==
  /\ pc[t] = "write"
  /\ faults < MaxFaults
  /\ \E s \in todo[t] :
       /\ IsFirst(s, todo[t])
       /\ todo' = [todo EXCEPT ![t] = @ \ {s}]
  /\ faults' = faults + 1
  /\ UNCHANGED <<file, store, lock, pc, req, touched, edits, crashes>>

WriteRefused(t) ==
  /\ pc[t] = "write"
  /\ todo[t] # {}
  /\ faults < MaxFaults
  /\ faults' = faults + 1
  /\ FailsJournal(t)

\* Durable progress first, then the hash of what was written.
VerifyFile(t) ==
  /\ pc[t] = "verify"
  /\ \E s \in todo[t] :
       /\ IsFirst(s, todo[t])
       /\ file[s.path] = s.result
       /\ todo' = [todo EXCEPT ![t] = @ \ {s}]
  /\ pc' = [pc EXCEPT ![t] = "write"]
  /\ jstate' = [jstate EXCEPT ![req[t].prop] = "writing"]
  /\ UNCHANGED <<file, pstate, steps, late, ledger, lock, req, touched, bounds>>

VerifyFails(t) ==
  /\ pc[t] = "verify"
  /\ \E s \in todo[t] : IsFirst(s, todo[t]) /\ file[s.path] # s.result
  /\ FailsJournal(t)
  /\ UNCHANGED faults

\* Faulty variant: the two states are passed in the wrong order.
SettlesSwapped(t, journal, proposal) ==
  /\ req[t].op \notin ledger
  /\ jstate' = [jstate EXCEPT ![req[t].prop] = proposal]
  /\ pstate' = [pstate EXCEPT ![req[t].prop] = journal]
  /\ ledger' = ledger \cup {req[t].op}
  /\ ReleasesAndReturns(t)
  /\ UNCHANGED <<file, steps, late, bounds>>

\* The last transaction of a request: journal, proposal and ledger together.
\* An operation id recorded meanwhile breaks the primary key of the ledger
\* and rolls the three back.
Settles(t, journal, proposal) ==
  /\ IF req[t].op \in ledger
     THEN UNCHANGED <<jstate, pstate, ledger>>
     ELSE /\ jstate' = [jstate EXCEPT ![req[t].prop] = journal]
          /\ pstate' = [pstate EXCEPT ![req[t].prop] = proposal]
          /\ ledger' = ledger \cup {req[t].op}
  /\ ReleasesAndReturns(t)
  /\ UNCHANGED <<file, steps, late, bounds>>

CommitApply(t) ==
  /\ pc[t] = "write"
  /\ todo[t] = {}
  /\ req[t].mode = "apply"
  /\ Settles(t, "committed", "applied")

\* recover(finish) classifies every file again before it commits.
CommitFinish(t) ==
  /\ pc[t] = "write"
  /\ todo[t] = {}
  /\ req[t].mode = "finish"
  /\ Applied(steps[req[t].prop]) = steps[req[t].prop]
  /\ Settles(t, "committed", "applied")

FinishFails(t) ==
  /\ pc[t] = "write"
  /\ todo[t] = {}
  /\ req[t].mode = "finish"
  /\ Applied(steps[req[t].prop]) # steps[req[t].prop]
  /\ FailsJournal(t)
  /\ UNCHANGED faults

-----------------------------------------------------------------------------
(* recover(rollback). *)

\* Faulty variant: every written file is unlinked.
RestoreUnlinks(t) ==
  /\ pc[t] = "restore"
  /\ \E s \in todo[t] :
       /\ IsLast(s, todo[t])
       /\ file' = [file EXCEPT ![s.path] = Absent]
  /\ pc' = [pc EXCEPT ![t] = "restored"]
  /\ UNCHANGED <<store, lock, req, todo, touched, bounds>>

\* A created file is unlinked (its backup is Absent), any other one is
\* replaced by its backup.
RestoreFile(t) ==
  /\ pc[t] = "restore"
  /\ \E s \in todo[t] :
       /\ IsLast(s, todo[t])
       /\ file' = [file EXCEPT ![s.path] = s.backup]
  /\ pc' = [pc EXCEPT ![t] = "restored"]
  /\ UNCHANGED <<store, lock, req, todo, touched, bounds>>

\* The error leaves the journal as it is.
RestoreRefused(t) ==
  /\ pc[t] = "restore"
  /\ todo[t] # {}
  /\ faults < MaxFaults
  /\ faults' = faults + 1
  /\ ReleasesAndReturns(t)
  /\ UNCHANGED <<file, store, edits, crashes>>

\* Faulty variant: the restored file is not hashed.
RestoreUnverified(t) ==
  /\ pc[t] = "restored"
  /\ \E s \in todo[t] :
       /\ IsLast(s, todo[t])
       /\ todo' = [todo EXCEPT ![t] = @ \ {s}]
  /\ pc' = [pc EXCEPT ![t] = "restore"]
  /\ UNCHANGED <<file, store, lock, req, touched, bounds>>

RestoreVerified(t) ==
  /\ pc[t] = "restored"
  /\ \E s \in todo[t] :
       /\ IsLast(s, todo[t])
       /\ file[s.path] = s.base
       /\ todo' = [todo EXCEPT ![t] = @ \ {s}]
  /\ pc' = [pc EXCEPT ![t] = "restore"]
  /\ UNCHANGED <<file, store, lock, req, touched, bounds>>

RestoreCorrupt(t) ==
  /\ pc[t] = "restored"
  /\ \E s \in todo[t] : IsLast(s, todo[t]) /\ file[s.path] # s.base
  /\ ReleasesAndReturns(t)
  /\ UNCHANGED <<file, store, bounds>>

\* Faulty variant: the proposal is offered again.
CommitRollbackReopens(t) ==
  /\ pc[t] = "restore"
  /\ todo[t] = {}
  /\ Settles(t, "rolled-back", "awaiting-authorization")

CommitRollback(t) ==
  /\ pc[t] = "restore"
  /\ todo[t] = {}
  /\ Settles(t, "rolled-back", "rolled-back")

-----------------------------------------------------------------------------
(* The environment. *)

\* Thirty minutes after its creation a proposal is past its expires_at.
Expiry(p) ==
  /\ pstate[p] = "awaiting-authorization"
  /\ p \notin late
  /\ late' = late \cup {p}
  /\ UNCHANGED <<file, pstate, steps, jstate, ledger, process, bounds>>

\* The maintainer saves, creates or deletes a file with another tool.
ExternalEdit(path, content) ==
  /\ edits < MaxEdits
  /\ content # file[path]
  /\ file' = [file EXCEPT ![path] = content]
  /\ touched' = IF lock = NoThread THEN touched ELSE touched \cup {path}
  /\ edits' = edits + 1
  /\ UNCHANGED <<store, lock, pc, req, todo, faults, crashes>>

\* The process stops with requests in flight and is started again: the
\* threads and the lock are gone, the files and the database stay.
Crash ==
  /\ crashes < MaxCrashes
  /\ \E t \in Threads : pc[t] # "idle"
  /\ lock' = NoThread
  /\ touched' = {}
  /\ pc' = [t \in Threads |-> "idle"]
  /\ req' = [t \in Threads |-> NoRequest]
  /\ todo' = [t \in Threads |-> {}]
  /\ crashes' = crashes + 1
  /\ UNCHANGED <<file, store, edits, faults>>

-----------------------------------------------------------------------------

Init ==
  /\ file = Files0
  /\ pstate = [p \in Proposals |-> "none"]
  /\ steps = [p \in Proposals |-> {}]
  /\ late = {}
  /\ jstate = [p \in Proposals |-> "none"]
  /\ ledger = {}
  /\ lock = NoThread
  /\ pc = [t \in Threads |-> "idle"]
  /\ req = [t \in Threads |-> NoRequest]
  /\ todo = [t \in Threads |-> {}]
  /\ touched = {}
  /\ edits = 0 /\ faults = 0 /\ crashes = 0

\* What a started request does until it returns, short of a refused write.
Serve(t) ==
  \/ MarkExpired(t) \/ ApplyRefused(t) \/ ApplyBegins(t)
  \/ RecoverRefused(t) \/ RollbackBegins(t) \/ FinishBegins(t)
  \/ WriteFile(t) \/ VerifyFile(t) \/ VerifyFails(t)
  \/ CommitApply(t) \/ CommitFinish(t) \/ FinishFails(t)
  \/ RestoreFile(t) \/ RestoreVerified(t) \/ RestoreCorrupt(t) \/ CommitRollback(t)

Refused(t) == WriteRefused(t) \/ RestoreRefused(t)

Start(t) ==
  \E p \in Proposals, op \in Operations :
    \/ ApplyChecked(t, p, op)
    \/ ApplyTooLate(t, p, op)
    \/ \E mode \in {"rollback", "finish"} : RecoverChecked(t, p, mode, op)

\* A request through the mutation gate is one transaction; it is served by a
\* thread that has nothing else to do.
Gate ==
  /\ \E t \in Threads : pc[t] = "idle"
  /\ \E p \in Proposals, op \in Operations :
       \/ Create(p, op)
       \/ Reject(p, op)
       \/ \E q \in Proposals : Revert(p, q, op)

Environment ==
  \/ Crash
  \/ \E p \in Proposals : Expiry(p)
  \/ \E path \in Paths, content \in Hashes : ExternalEdit(path, content)

Next ==
  \/ Gate
  \/ \E t \in Threads : Start(t) \/ Serve(t) \/ Refused(t)
  \/ Environment

Spec == Init /\ [][Next]_vars

\* A thread that can run is run: nothing else decides that a request goes on.
FairSpec == Spec /\ \A t \in Threads : WF_vars(Serve(t))

-----------------------------------------------------------------------------
(* Properties. *)

TypeOK ==
  /\ file \in [Paths -> Hashes]
  /\ pstate \in [Proposals -> ProposalStates]
  /\ steps \in [Proposals -> SUBSET Step]
  /\ late \subseteq Proposals
  /\ jstate \in [Proposals -> JournalStates]
  /\ ledger \subseteq Operations
  /\ lock \in Threads \cup {NoThread}
  /\ pc \in [Threads -> Positions]
  /\ \A t \in Threads : IF pc[t] = "idle" THEN req[t] = NoRequest ELSE req[t] \in Request
  /\ req \in [Threads -> Request \cup {NoRequest}]
  /\ todo \in [Threads -> SUBSET Step]
  /\ touched \subseteq Paths
  /\ edits \in 0 .. MaxEdits
  /\ faults \in 0 .. MaxFaults
  /\ crashes \in 0 .. MaxCrashes

\* At most one proposal of the project is half-written (_block_incomplete,
\* Store.incomplete_journal): an unfinished write blocks every new one until
\* the maintainer resolves it.
OneIncomplete ==
  \A p, q \in Proposals :
    jstate[p] \in Incomplete /\ jstate[q] \in Incomplete => p = q

\* A half-written proposal is the only one of its project, and when nobody is
\* working on it and no other tool touched the project it can be resolved:
\* wherever the process stopped or a write was refused, each of its files is as
\* before or as proposed, and the backup is the file it replaced.
RecoveryOffered ==
  /\ OneIncomplete
  /\ edits = 0 /\ lock = NoThread =>
       \A p \in Proposals : jstate[p] \in Incomplete =>
         /\ External(steps[p]) = {}
         /\ \A s \in steps[p] : s.backup = s.base

\* A step of the workbench, not of another tool, changes the file e.
Writes(e) == file'[e] # file[e] /\ edits' = edits

\* Write-ahead: the workbench changes a project file only in the project's
\* critical section and only while the journal of that proposal says that
\* its files may be half-written (recover, _write_steps).
WriteAheadJournal ==
  [][ \A e \in Paths : Writes(e) =>
        /\ lock \in Threads
        /\ jstate[req[lock].prop] \in Incomplete ]_vars

\* Whatever requests race, a file that some other tool changed before the
\* lock was taken is never overwritten: what is replaced is the reviewed base
\* or the reviewed result of the proposal being served (_plan, _classify).
NeverOverwritesEdit ==
  [][ \A e \in Paths \ touched : Writes(e) =>
        /\ lock \in Threads
        /\ \E s \in steps[req[lock].prop] :
             s.path = e /\ file[e] \in {s.base, s.result} ]_vars

\* A proposal is reported applied only when every one of its files is the
\* reviewed result, also when it was finished after a crash.
CommitMeansResult ==
  [][ \A p \in Proposals : jstate[p] # "committed" /\ jstate'[p] = "committed" =>
        \A s \in steps[p] : file[s.path] = s.result \/ s.path \in touched ]_vars

\* A proposal is reported rolled back only when every one of its files is the
\* one it was reviewed against, even if the backup taken at staging is not.
RollbackMeansBase ==
  [][ \A p \in Proposals : jstate[p] # "rolled-back" /\ jstate'[p] = "rolled-back" =>
        \A s \in steps[p] : file[s.path] = s.base \/ s.path \in touched ]_vars

ShownState == [p \in Proposals |-> EffectiveState(p)]

Shown == INSTANCE ProposalLifecycle WITH shown <- ShownState

\* Requests served one after another, with stops and refused writes anywhere
\* between them, keep the promise of ProposalLifecycle about the state the
\* maintainer is shown (_effective_state).
Lifecycle == Shown!Spec

\* Every started request returns: whatever fails, the project lock is
\* released and nobody waits for it for ever.
RequestsReturn == \A t \in Threads : pc[t] # "idle" ~> pc[t] = "idle"

=============================================================================
