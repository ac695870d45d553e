-------------------------- MODULE PreviewDecision --------------------------
(***************************************************************************)
(* The durable Preview decision of one preview directory                   *)
(* (mcp/preview/transaction.py, locking.py, ledger.py; ADR-0013).          *)
(*                                                                         *)
(* Several processes may run the transaction at the same time, for the     *)
(* same round or for another one, and any of them may die between two file *)
(* operations. What they share is the directory: the round locks, the      *)
(* guard files of a stale takeover, the decision entries, the confirm      *)
(* records, log.md and the ledger outside of the directory.                *)
(*                                                                         *)
(* A prototype that changed, a collector that fails and a persistence      *)
(* error are refusals a process may meet at the places where the code      *)
(* looks for them.                                                         *)
(***************************************************************************)
EXTENDS Naturals, FiniteSets

CONSTANTS
  Processes,   \* the MCP servers that share the directory
  Rounds,      \* preview rounds
  Bindings,    \* binding digests a request can have
  None,
  MaxCalls,    \* bound: calls of the transaction
  MaxSleeps    \* bound: processes that miss three heartbeats and go on

ASSUME BoundsAssumption == MaxCalls \in Nat /\ MaxSleeps \in Nat

\* The owner, the bound digest (None before it is written) and whether three
\* heartbeats were missed.
Lock == [owner : Nat, binding : Bindings \cup {None}, stale : BOOLEAN]

OlderRecord == MaxCalls + 1

\* user_confirmed stands for the whole outcome.
Entry == [id : Nat, binding : Bindings, confirms : BOOLEAN]

\* The number of a call, its request, and the decision it goes by: the id and
\* user_confirmed of the entry it read or wrote.
Call == [call : Nat, round : Rounds, binding : Bindings, id : Nat, confirms : BOOLEAN]

ASSUME NoneAssumption ==
  /\ None \notin Nat /\ None \notin Bindings
  /\ None \notin Lock /\ None \notin Entry /\ None \notin Call

VARIABLES
  lock,      \* decision-round-<n>.lock
  guard,     \* decision-round-<n>.lock.recovery: the call that created it
  entry,     \* decision-round-<n>.json
  confirm,   \* confirm-round-<n>.json: its decision id, 0 without one; a
             \* record from before the entries is OlderRecord
  log,       \* the rounds in log.md with their decision ids
  ledger,    \* the rounds in the ledger
  fence,     \* the call that holds the projection lock
  pc, run,   \* where each process is, and the call it serves
  seen,      \* the entries a process read to render log.md
  calls,     \* calls so far; they number the owners and the decision ids
  sleeps,
  reported   \* history: decision ids whose call returned its result

disk    == <<lock, guard, entry, confirm, log, ledger>>
process == <<pc, run, seen>>
vars    == <<disk, fence, process, calls, sleeps, reported>>

Mine(p) == run[p].call
Round(p) == run[p].round

Alive == {run[p].call : p \in {q \in Processes : pc[q] # "idle"}}

-----------------------------------------------------------------------------
(* The round lock. *)

Goes(p, position) == pc' = [pc EXCEPT ![p] = position]

Starts(p, r, b) ==
  /\ pc[p] = "idle"
  /\ calls < MaxCalls
  /\ calls' = calls + 1
  /\ run' = [run EXCEPT ![p] =
       [call |-> calls + 1, round |-> r, binding |-> b,
        id |-> IF entry[r] = None THEN calls + 1 ELSE entry[r].id, confirms |-> FALSE]]
  /\ Goes(p, "acquire")
  /\ UNCHANGED <<disk, fence, seen, sleeps, reported>>

Ends(p) ==
  /\ pc' = [pc EXCEPT ![p] = "idle"]
  /\ run' = [run EXCEPT ![p] = None]
  /\ seen' = [seen EXCEPT ![p] = {}]
  /\ UNCHANGED <<calls, sleeps>>

CreateLock(p) ==
  /\ pc[p] = "acquire" /\ lock[Round(p)] = None
  /\ lock' = [lock EXCEPT ![Round(p)] = [owner |-> Mine(p), binding |-> None, stale |-> FALSE]]
  /\ Goes(p, "stamp")
  /\ UNCHANGED <<guard, entry, confirm, log, ledger, fence, run, seen, calls, sleeps, reported>>

Owns(p) == lock[Round(p)] # None /\ lock[Round(p)].owner = Mine(p)

\* The metadata goes into the file that was created, also if it is gone.
StampLock(p) ==
  /\ pc[p] = "stamp"
  /\ lock' = IF Owns(p) THEN [lock EXCEPT ![Round(p)].binding = run[p].binding] ELSE lock
  /\ Goes(p, "check")
  /\ UNCHANGED <<guard, entry, confirm, log, ledger, fence, run, seen, calls, sleeps, reported>>

\* Faulty variant: two recoverers at a time.
EnterUnguarded(p) ==
  /\ pc[p] = "acquire" /\ lock[Round(p)] # None
  /\ guard' = [guard EXCEPT ![Round(p)] = Mine(p)]
  /\ Goes(p, "claim")
  /\ UNCHANGED <<lock, entry, confirm, log, ledger, fence, run, seen, calls, sleeps, reported>>

\* _claim_stale_lock: one recoverer at a time.
EnterRecovery(p) ==
  /\ pc[p] = "acquire" /\ lock[Round(p)] # None /\ guard[Round(p)] = None
  /\ guard' = [guard EXCEPT ![Round(p)] = Mine(p)]
  /\ Goes(p, "claim")
  /\ UNCHANGED <<lock, entry, confirm, log, ledger, fence, run, seen, calls, sleeps, reported>>

RecoveryActive(p) ==
  /\ pc[p] = "acquire" /\ lock[Round(p)] # None /\ guard[Round(p)] # None
  /\ Ends(p)
  /\ UNCHANGED <<disk, fence, reported>>

\* Faulty variant: a lock is taken over without a look at its age.
ClaimsAny(p) ==
  /\ lock[Round(p)] # None
  /\ lock[Round(p)].binding = run[p].binding

\* The lock may be taken over.
Claims(p) ==
  /\ lock[Round(p)] # None
  /\ lock[Round(p)].stale
  /\ lock[Round(p)].binding = run[p].binding

Claimed(p) ==
  /\ pc[p] = "claim" /\ Claims(p)
  /\ Goes(p, "unlink")
  /\ UNCHANGED <<disk, fence, run, seen, calls, sleeps, reported>>

\* The lock is fresh, or bound to another request.
ClaimRefused(p) ==
  /\ pc[p] = "claim" /\ lock[Round(p)] # None /\ ~Claims(p)
  /\ guard' = [guard EXCEPT ![Round(p)] = None]
  /\ Ends(p)
  /\ UNCHANGED <<lock, entry, confirm, log, ledger, fence, reported>>

UnlinkLock(p) ==
  /\ pc[p] = "unlink"
  /\ lock' = [lock EXCEPT ![Round(p)] = None]
  /\ Goes(p, "unguard")
  /\ UNCHANGED <<guard, entry, confirm, log, ledger, fence, run, seen, calls, sleeps, reported>>

\* The lock is gone: the guard is removed and the lock is tried again.
LeaveRecovery(p) ==
  /\ pc[p] = "unguard" \/ (pc[p] = "claim" /\ lock[Round(p)] = None)
  /\ guard' = [guard EXCEPT ![Round(p)] = None]
  /\ Goes(p, "acquire")
  /\ UNCHANGED <<lock, entry, confirm, log, ledger, fence, run, seen, calls, sleeps, reported>>

-----------------------------------------------------------------------------
(* Under the round lock: _run_locked. *)

Keeps(p, position) ==
  /\ Goes(p, position)
  /\ UNCHANGED <<disk, fence, run, seen, calls, sleeps, reported>>

Bound(p) == entry[Round(p)] # None /\ entry[Round(p)].binding = run[p].binding

\* Faulty variant: the decision on disk is returned as it is.
RepairNothing(p) ==
  /\ pc[p] = "check" /\ Bound(p)
  /\ reported' = reported \cup {entry[Round(p)].id}
  /\ Goes(p, "release")
  /\ UNCHANGED <<disk, fence, run, seen, calls, sleeps>>

\* The call goes by the decision on disk; a retry repairs its registration
\* and its projections.
Repair(p) ==
  /\ pc[p] = "check" /\ Bound(p)
  /\ run' = [run EXCEPT ![p].id = entry[Round(p)].id, ![p].confirms = entry[Round(p)].confirms]
  /\ Goes(p, "register")
  /\ UNCHANGED <<disk, fence, seen, calls, sleeps, reported>>

Conflict(p) ==
  /\ pc[p] = "check"
  /\ ~Bound(p)
  /\ entry[Round(p)] # None \/ confirm[Round(p)] # 0
  /\ Keeps(p, "release")

\* The browser is opened.
Collect(p) ==
  /\ pc[p] = "check" /\ entry[Round(p)] = None /\ confirm[Round(p)] = 0
  /\ Keeps(p, "collect")

\* The prototype changed, the collector failed or a write did.
Fails(p) ==
  /\ pc[p] \in {"check", "collect", "register", "project", "confirm", "read", "write"}
  /\ fence' = IF fence = Mine(p) THEN None ELSE fence
  /\ Goes(p, "release")
  /\ UNCHANGED <<disk, run, seen, calls, sleeps, reported>>

CommitEntry(p) ==
  /\ pc[p] = "collect"
  /\ \E confirms \in BOOLEAN :
       /\ entry' = [entry EXCEPT ![Round(p)] =
                      [id |-> run[p].id, binding |-> run[p].binding, confirms |-> confirms]]
       /\ run' = [run EXCEPT ![p].confirms = confirms]
  /\ Goes(p, "register")
  /\ UNCHANGED <<lock, guard, confirm, log, ledger, fence, seen, calls, sleeps, reported>>

\* ledger.append_record
Register(p) ==
  /\ pc[p] = "register"
  /\ ledger' = ledger \cup {Round(p)}
  /\ Goes(p, "project")
  /\ UNCHANGED <<lock, guard, entry, confirm, log, fence, run, seen, calls, sleeps, reported>>

-----------------------------------------------------------------------------
(* _commit_projections, under the projection lock: the operating system      *)
(* releases it when its holder dies.                                          *)

EnterProjection(p) ==
  /\ pc[p] = "project" /\ fence = None
  /\ fence' = Mine(p)
  /\ Goes(p, "confirm")
  /\ UNCHANGED <<disk, run, seen, calls, sleeps, reported>>

\* load_confirm_for_entry: what is there is the record of this decision.
ConfirmHolds(p) == confirm[Round(p)] = 0 \/ (confirm[Round(p)] = run[p].id /\ run[p].confirms)

WriteConfirm(p) ==
  /\ pc[p] = "confirm" /\ ConfirmHolds(p)
  /\ confirm' = IF run[p].confirms THEN [confirm EXCEPT ![Round(p)] = run[p].id] ELSE confirm
  /\ Goes(p, "read")
  /\ UNCHANGED <<lock, guard, entry, log, ledger, fence, run, seen, calls, sleeps, reported>>

ConfirmMismatch(p) ==
  /\ pc[p] = "confirm" /\ ~ConfirmHolds(p)
  /\ fence' = None
  /\ Goes(p, "release")
  /\ UNCHANGED <<disk, run, seen, calls, sleeps, reported>>

\* valid_entries, then render_log and its atomic write.
ReadEntries(p) ==
  /\ pc[p] = "read"
  /\ seen' = [seen EXCEPT ![p] = {<<r, entry[r].id>> : r \in {q \in Rounds : entry[q] # None}}]
  /\ Goes(p, "write")
  /\ UNCHANGED <<disk, fence, run, calls, sleeps, reported>>

WriteLog(p) ==
  /\ pc[p] = "write"
  /\ log' = seen[p]
  /\ fence' = None
  /\ reported' = reported \cup {run[p].id}
  /\ Goes(p, "release")
  /\ UNCHANGED <<lock, guard, entry, confirm, ledger, run, seen, calls, sleeps>>

Release(p) ==
  /\ pc[p] = "release"
  /\ lock' = IF Owns(p) THEN [lock EXCEPT ![Round(p)] = None] ELSE lock
  /\ Ends(p)
  /\ UNCHANGED <<guard, entry, confirm, log, ledger, fence, reported>>

-----------------------------------------------------------------------------
(* Time, suspended and dead processes. *)

\* Ninety seconds after the last heartbeat. The heartbeat of a living owner is
\* late only while its machine sleeps or its process is stopped.
LockStale(r) ==
  /\ lock[r] # None /\ ~lock[r].stale
  /\ IF lock[r].owner \in Alive
     THEN sleeps < MaxSleeps /\ sleeps' = sleeps + 1
     ELSE sleeps' = sleeps
  /\ lock' = [lock EXCEPT ![r].stale = TRUE]
  /\ UNCHANGED <<guard, entry, confirm, log, ledger, fence, process, calls, reported>>

Heartbeat(p) ==
  /\ pc[p] \notin {"idle", "acquire", "claim", "unlink", "unguard", "stamp"}
  /\ Owns(p)
  /\ lock' = [lock EXCEPT ![Round(p)].stale = FALSE]
  /\ UNCHANGED <<guard, entry, confirm, log, ledger, fence, process, calls, sleeps, reported>>

Dies(p) ==
  /\ pc[p] # "idle"
  /\ fence' = IF fence = Mine(p) THEN None ELSE fence
  /\ Ends(p)
  /\ UNCHANGED <<disk, reported>>

-----------------------------------------------------------------------------

Init ==
  /\ lock = [r \in Rounds |-> None]
  /\ guard = [r \in Rounds |-> None]
  /\ entry = [r \in Rounds |-> None]
  /\ confirm \in [Rounds -> {0, OlderRecord}]
  /\ log = {} /\ ledger = {}
  /\ fence = None
  /\ pc = [p \in Processes |-> "idle"]
  /\ run = [p \in Processes |-> None]
  /\ seen = [p \in Processes |-> {}]
  /\ calls = 0 /\ sleeps = 0
  /\ reported = {}

\* Every step of a call but those that render log.md.
Transacts(p) ==
  \/ CreateLock(p) \/ StampLock(p)
  \/ EnterRecovery(p) \/ RecoveryActive(p) \/ Claimed(p) \/ ClaimRefused(p)
  \/ UnlinkLock(p) \/ LeaveRecovery(p)
  \/ Repair(p) \/ Conflict(p) \/ Collect(p) \/ Fails(p) \/ CommitEntry(p) \/ Register(p)
  \/ EnterProjection(p) \/ WriteConfirm(p) \/ ConfirmMismatch(p) \/ Release(p)

Serve(p) == Transacts(p) \/ ReadEntries(p) \/ WriteLog(p)

Next ==
  \/ \E p \in Processes :
       \/ \E r \in Rounds, b \in Bindings : Starts(p, r, b)
       \/ Serve(p) \/ Heartbeat(p) \/ Dies(p)
  \/ \E r \in Rounds : LockStale(r)

Spec == Init /\ [][Next]_vars

-----------------------------------------------------------------------------
(* Properties. *)

Locked == {"check", "collect", "register", "project", "confirm", "read", "write", "release"}

Positions == Locked \cup {"idle", "acquire", "stamp", "claim", "unlink", "unguard"}

TypeOK ==
  /\ lock \in [Rounds -> Lock \cup {None}]
  /\ guard \in [Rounds -> Nat \cup {None}]
  /\ entry \in [Rounds -> Entry \cup {None}]
  /\ confirm \in [Rounds -> Nat]
  /\ log \subseteq Rounds \X Nat /\ ledger \subseteq Rounds
  /\ fence \in Nat \cup {None}
  /\ pc \in [Processes -> Positions]
  /\ \A p \in Processes : IF pc[p] = "idle" THEN run[p] = None ELSE run[p] \in Call
  /\ seen \in [Processes -> SUBSET (Rounds \X Nat)]
  /\ calls \in 0 .. MaxCalls /\ sleeps \in 0 .. MaxSleeps
  /\ reported \subseteq Nat

\* Every heartbeat was in time so far: no machine slept and no process was
\* stopped for longer than LOCK_STALE_SECONDS while it held a round lock.
Punctual == sleeps = 0

\* One active transaction per round, also when the lock of a dead process is
\* taken over by several others (_round_lock, _claim_stale_lock).
OneActive ==
  Punctual =>
    \A p, q \in Processes :
      pc[p] \in Locked /\ pc[q] \in Locked /\ Round(p) = Round(q) => p = q

\* What was reported stays: the round is registered outside of the directory,
\* log.md shows the decision, and its confirm record is there exactly if the
\* user confirmed, whatever died before and whoever repaired it (_run_locked).
ReportedIsDurable ==
  Punctual =>
    \A r \in Rounds : entry[r] # None /\ entry[r].id \in reported =>
      /\ r \in ledger
      /\ <<r, entry[r].id>> \in log
      /\ confirm[r] = IF entry[r].confirms THEN entry[r].id ELSE 0

\* There is no confirm record without the decision that authorizes it, but for
\* the older ones, and those never get a decision (_run_locked).
ConfirmNeedsDecision ==
  Punctual =>
    \A r \in Rounds : confirm[r] # 0 =>
      IF confirm[r] = OlderRecord THEN entry[r] = None
      ELSE entry[r] # None /\ entry[r].id = confirm[r] /\ entry[r].confirms

\* While every heartbeat is in time the decision of a round is collected once
\* and never overwritten.
PunctualDecidedOnce ==
  Punctual' => \A r \in Rounds : entry[r] # None => entry'[r] = entry[r]

\* While every heartbeat is in time, a lock that is bound to a request is
\* removed only by a process that serves the same request (_claim_stale_lock).
TakeoverKeepsBinding ==
  Punctual' =>
    \A r \in Rounds : lock[r] # None /\ lock[r].binding # None /\ lock'[r] = None =>
      \E p \in Processes : pc'[p] # pc[p] /\ Round(p) = r /\ run[p].binding = lock[r].binding

Logged == {shown[1] : shown \in log}

\* A round that log.md shows is never dropped from it, although every process
\* renders the whole file from what it read, for another round and also after
\* it was suspended (_commit_projections, directory_lock).
LogKeepsRounds == Logged \subseteq Logged'

\* The state is well formed, and at most one process is between the lock and
\* the release of a round (_round_lock).
Wellformed == TypeOK /\ OneActive

\* The decision, the confirm record, the ledger and log.md tell one story, but
\* for what the one call in progress has still to repair (_run_locked).
RecordsAgree == Wellformed /\ ReportedIsDurable /\ ConfirmNeedsDecision

=============================================================================
