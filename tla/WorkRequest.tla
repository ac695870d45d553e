---------------------------- MODULE WorkRequest ----------------------------
(***************************************************************************)
(* Work requests for an agent and their leases                             *)
(* (design_playbook_workbench/work.py, the work_requests and work_attempts *)
(* tables of store.py, the capabilities of session.py).                    *)
(*                                                                         *)
(* A write of the maintainer is one transaction of the mutation gate. A    *)
(* write of the agent reads the request, the ledger and the attempt one    *)
(* after another before that transaction, and an expired lease is recorded *)
(* by two transactions of their own; other requests, the clock and a       *)
(* restart of the service come between any two of these steps.             *)
(***************************************************************************)
EXTENDS Naturals, FiniteSets, Sequences, SequencesExt

CONSTANTS
  Requests,       \* work requests of one project
  Threads,        \* request threads that serve agents
  NoMessage,
  MaxOperations,  \* bound: operation ids
  MaxBoots        \* bound: starts of the service

ASSUME BoundsAssumption == MaxOperations \in Nat /\ MaxBoots \in Nat

VARIABLES
  state,       \* work_requests.state, "none" before the row exists
  counter,     \* work_requests.counter
  capability,  \* work_requests.capability_id, 0 for NULL
  late,        \* the requests whose expires_at has passed
  attempts,    \* the attempts of each request, by sequence
  ledger,      \* operation ids with a row in the mutations table
  reports,     \* the messages of agents that have one
  claimFile,   \* the capability in claim-<request>.json, 0 without a file
  minted,      \* capabilities issued so far
  live,        \* the capabilities this process still honours
  boot,        \* which start of the service this is
  pc, msg,     \* where each thread is, and the message it serves
  retries      \* history: threads whose operation was on record when they started

table   == <<ledger, reports>>
store   == <<state, counter, capability, late, attempts, table>>
session == <<claimFile, minted, live, boot>>
process == <<pc, msg>>
vars    == <<store, session, process, retries>>

RequestStates ==
  {"none", "awaiting-consent", "waiting-for-agent", "running", "proposal-ready", "failed",
   "cancel-requested", "cancelled", "interrupted", "rejected"}

\* Where a request leaves its agent no authority.
Over == {"cancel-requested", "cancelled", "rejected"}

AttemptStates ==
  {"running", "interrupted", "failed", "cancel-requested", "cancelled",
   "result-submitted", "rejected"}

\* lease is TRUE until lease_expires_at. The lease id names the attempt.
Attempt == [state : AttemptStates, capability : Nat, boot : Nat, lease : BOOLEAN]

Kinds == {"claim", "heartbeat", "result", "fail"}

Operations == 1 .. MaxOperations

Message == [op : Operations, kind : Kinds, request : Requests, attempt : Nat,
            capability : Nat, expected : Nat]

InFlight == {msg[t] : t \in {u \in Threads : pc[u] # "idle"}}

\* An operation id that nobody uses; the ids are numbered as they are minted.
Fresh(op) ==
  LET inUse == ledger \cup {m.op : m \in InFlight}
  IN op = (IF inUse = {} THEN 1 ELSE 1 + Max(inUse))

Latest(r) == Len(attempts[r])

-----------------------------------------------------------------------------
(* The maintainer. *)

\* One accepted write of the maintainer, recorded under a fresh id.
Records(r, op, next, bump) ==
  /\ op \in Operations /\ Fresh(op)
  /\ ledger' = ledger \cup {op}
  /\ reports' = reports
  /\ state' = [state EXCEPT ![r] = next]
  /\ counter' = [counter EXCEPT ![r] = @ + bump]

\* The latest attempt, if it is in one of these states, enters the next one.
LatestBecomes(r, from, next) ==
  attempts' = IF attempts[r] # << >> /\ attempts[r][Latest(r)].state \in from
              THEN [attempts EXCEPT ![r][Latest(r)].state = next]
              ELSE attempts

\* The context is confirmed and the project has room for the request.
Create(r, op) ==
  /\ state[r] = "none"
  /\ Records(r, op, "awaiting-consent", 0)
  /\ UNCHANGED <<capability, late, attempts, session, process, retries>>

\* issue_request_capability and the private claim file.
Mints(r) ==
  /\ minted' = minted + 1
  /\ live' = live \cup {minted + 1}
  /\ claimFile' = [claimFile EXCEPT ![r] = minted + 1]
  /\ capability' = [capability EXCEPT ![r] = minted + 1]
  /\ UNCHANGED boot

MayConsent(r) == state[r] = "awaiting-consent" /\ r \notin late

Consent(r, op) ==
  /\ MayConsent(r)
  /\ Records(r, op, "waiting-for-agent", 1)
  /\ Mints(r)
  /\ UNCHANGED <<late, attempts, process, retries>>

MayRetry(r) == state[r] \in {"failed", "interrupted", "waiting-for-agent"}

Retry(r, op) ==
  /\ MayRetry(r)
  /\ Records(r, op, "waiting-for-agent", 1)
  /\ Mints(r)
  /\ UNCHANGED <<late, attempts, process, retries>>

Cancel(r, op) ==
  /\ state[r] \notin {"none", "cancelled", "rejected"}
  /\ Records(r, op, "cancel-requested", 1)
  /\ LatestBecomes(r, {"running"}, "cancel-requested")
  /\ UNCHANGED <<capability, late, session, process, retries>>

ConfirmCancelled(r, op) ==
  /\ state[r] = "cancel-requested"
  /\ Records(r, op, "cancelled", 1)
  /\ LatestBecomes(r, {"cancel-requested"}, "cancelled")
  /\ claimFile' = [claimFile EXCEPT ![r] = 0]
  /\ UNCHANGED <<capability, late, minted, live, boot, process, retries>>

Reject(r, op) ==
  /\ state[r] = "proposal-ready"
  /\ Records(r, op, "rejected", 1)
  /\ LatestBecomes(r, AttemptStates, "rejected")
  /\ claimFile' = [claimFile EXCEPT ![r] = 0]
  /\ UNCHANGED <<capability, late, minted, live, boot, process, retries>>

-----------------------------------------------------------------------------
(* The agent. *)

\* _require_agent: the capability is honoured and is the one of the request.
Permits(r, c) ==
  /\ c \in live
  /\ c = capability[r]
  /\ state[r] \notin Over
  /\ r \notin late

\* The messages an agent can write now. It expects the counter it just read:
\* one that expects an older counter is refused like this one after a change.
Written ==
  {m \in [op : {o \in Operations : Fresh(o)}, kind : Kinds, request : Requests,
           attempt : 0 .. MaxOperations, capability : Range(capability),
           expected : Range(counter)] :
     /\ m.capability = capability[m.request]
     /\ m.expected = counter[m.request]
     /\ IF m.kind = "claim" THEN m.attempt = 0 ELSE m.attempt \in 1 .. Latest(m.request)}

\* A message arrives for the first time, or again because the agent got no
\* answer.
Arrive(t, m) ==
  /\ pc[t] = "idle"
  /\ Permits(m.request, m.capability)
  /\ pc' = [pc EXCEPT ![t] = IF m.kind = "claim" THEN "transact" ELSE "replay"]
  /\ msg' = [msg EXCEPT ![t] = m]
  /\ retries' = IF m.op \in ledger THEN retries \cup {t} ELSE retries
  /\ UNCHANGED <<store, session>>

Goes(t, position) ==
  /\ pc' = [pc EXCEPT ![t] = position]
  /\ UNCHANGED <<store, session, msg, retries>>

Returns(t) ==
  /\ pc' = [pc EXCEPT ![t] = "idle"]
  /\ msg' = [msg EXCEPT ![t] = NoMessage]
  /\ retries' = retries \ {t}

Refuses(t) == Returns(t) /\ UNCHANGED <<store, session>>

\* Faulty variant: the lease is looked at before the ledger.
ReplayLater(t) == pc[t] = "replay" /\ Goes(t, "lease")

\* _replay_agent.
Replay(t) ==
  /\ pc[t] = "replay"
  /\ IF msg[t].op \in ledger THEN Refuses(t) ELSE Goes(t, "lease")

The(t) == attempts[msg[t].request][msg[t].attempt]

\* _require_live_lease
LeaseRefused(t) ==
  /\ pc[t] = "lease"
  /\ The(t).state # "running"
  /\ Refuses(t)

InTime(a) == a.boot = boot /\ a.lease

LeaseHolds(t) ==
  /\ pc[t] = "lease"
  /\ The(t).state = "running" /\ InTime(The(t))
  /\ Goes(t, "transact")

LeaseOver(t) ==
  /\ pc[t] = "lease"
  /\ The(t).state = "running" /\ ~InTime(The(t))
  /\ Goes(t, "interrupt")

\* _interrupt, whatever the attempt and the request are by now.
InterruptAttempt(t) ==
  /\ pc[t] = "interrupt"
  /\ attempts' = [attempts EXCEPT ![msg[t].request][msg[t].attempt].state = "interrupted"]
  /\ pc' = [pc EXCEPT ![t] = "interrupted"]
  /\ UNCHANGED <<state, counter, capability, late, table, session, msg, retries>>

InterruptRequest(t) ==
  /\ pc[t] = "interrupted"
  /\ state' = [state EXCEPT ![msg[t].request] = "interrupted"]
  /\ counter' = [counter EXCEPT ![msg[t].request] = @ + 1]
  /\ Returns(t)
  /\ UNCHANGED <<capability, late, attempts, table, session>>

\* Faulty variant: the write does not compare the counter.
AcceptsStale(t) == pc[t] = "transact" /\ msg[t].op \notin ledger

\* What the gate checks in the transaction.
Accepts(t) ==
  /\ pc[t] = "transact"
  /\ msg[t].op \notin ledger
  /\ msg[t].expected = counter[msg[t].request]

\* The gate refuses, or the rules of the write itself do.
Refuse(t) == pc[t] = "transact" /\ Refuses(t)

\* Faulty variant: a claim is accepted whatever the request is.
ClaimAgain(t) ==
  LET r == msg[t].request IN
  /\ Accepts(t) /\ msg[t].kind = "claim"
  /\ attempts' = [attempts EXCEPT ![r] = Append(@,
       [state |-> "running", capability |-> capability[r], boot |-> boot, lease |-> TRUE])]
  /\ state' = [state EXCEPT ![r] = "running"]
  /\ counter' = [counter EXCEPT ![r] = @ + 1]
  /\ ledger' = ledger \cup {msg[t].op}
  /\ reports' = reports \cup {msg[t]}
  /\ Returns(t)
  /\ UNCHANGED <<capability, late, session>>

Claim(t) ==
  LET r == msg[t].request IN
  /\ Accepts(t) /\ msg[t].kind = "claim"
  /\ state[r] = "waiting-for-agent" /\ r \notin late
  /\ attempts' = [attempts EXCEPT ![r] = Append(@,
       [state |-> "running", capability |-> capability[r], boot |-> boot, lease |-> TRUE])]
  /\ state' = [state EXCEPT ![r] = "running"]
  /\ counter' = [counter EXCEPT ![r] = @ + 1]
  /\ ledger' = ledger \cup {msg[t].op}
  /\ reports' = reports \cup {msg[t]}
  /\ Returns(t)
  /\ UNCHANGED <<capability, late, session>>

\* The attempt runs again, whatever it had become; the request is left alone.
Heartbeat(t) ==
  LET m == msg[t] IN
  /\ Accepts(t) /\ m.kind = "heartbeat"
  /\ attempts' = [attempts EXCEPT ![m.request][m.attempt] =
       [@ EXCEPT !.state = "running", !.lease = TRUE, !.boot = boot]]
  /\ ledger' = ledger \cup {m.op}
  /\ reports' = reports \cup {m}
  /\ Returns(t)
  /\ UNCHANGED <<state, counter, capability, late, session>>

\* submit_result and fail_attempt.
Ends(t, kind, attemptState, requestState) ==
  LET m == msg[t] IN
  /\ Accepts(t) /\ m.kind = kind
  /\ attempts' = [attempts EXCEPT ![m.request][m.attempt].state = attemptState]
  /\ state' = [state EXCEPT ![m.request] = requestState]
  /\ counter' = [counter EXCEPT ![m.request] = @ + 1]
  /\ ledger' = ledger \cup {m.op}
  /\ reports' = reports \cup {m}
  /\ Returns(t)
  /\ UNCHANGED <<capability, late, session>>

SubmitResult(t) == Ends(t, "result", "result-submitted", "proposal-ready")

FailAttempt(t) == Ends(t, "fail", "failed", "failed")

-----------------------------------------------------------------------------
(* Time and restarts. *)

LeaseExpires(r, i) ==
  /\ attempts[r][i].state = "running" /\ attempts[r][i].lease
  /\ attempts' = [attempts EXCEPT ![r][i].lease = FALSE]
  /\ UNCHANGED <<state, counter, capability, late, table, session, process, retries>>

RequestExpires(r) ==
  /\ state[r] # "none" /\ r \notin late
  /\ late' = late \cup {r}
  /\ UNCHANGED <<state, counter, capability, attempts, table, session, process, retries>>

\* The end of a retired capability changes nothing.
CapabilityExpires(c) ==
  /\ c \in Range(capability)
  /\ live' = live \ {c}
  /\ UNCHANGED <<store, claimFile, minted, boot, process, retries>>

Restarts ==
  /\ boot < MaxBoots
  /\ boot' = boot + 1
  /\ live' = {}
  /\ pc' = [t \in Threads |-> "idle"]
  /\ msg' = [t \in Threads |-> NoMessage]
  /\ retries' = {}
  /\ UNCHANGED store

Restart == Restarts /\ UNCHANGED <<claimFile, minted>>

\* The service stops between the claim file and the commit of the row.
RestartWhileMinting(r) ==
  /\ MayConsent(r) \/ MayRetry(r)
  /\ Restarts
  /\ minted' = minted + 1
  /\ claimFile' = [claimFile EXCEPT ![r] = minted + 1]

-----------------------------------------------------------------------------

Init ==
  /\ state = [r \in Requests |-> "none"]
  /\ counter = [r \in Requests |-> 0]
  /\ capability = [r \in Requests |-> 0]
  /\ late = {}
  /\ attempts = [r \in Requests |-> << >>]
  /\ ledger = {} /\ reports = {}
  /\ claimFile = [r \in Requests |-> 0]
  /\ minted = 0 /\ live = {} /\ boot = 1
  /\ pc = [t \in Threads |-> "idle"]
  /\ msg = [t \in Threads |-> NoMessage]
  /\ retries = {}

Maintainer ==
  \E r \in Requests, op \in Operations :
    \/ Create(r, op) \/ Consent(r, op) \/ Retry(r, op)
    \/ Cancel(r, op) \/ ConfirmCancelled(r, op) \/ Reject(r, op)

Serve(t) ==
  \/ Replay(t) \/ LeaseRefused(t) \/ LeaseHolds(t) \/ LeaseOver(t)
  \/ InterruptAttempt(t) \/ InterruptRequest(t)
  \/ Refuse(t) \/ Claim(t) \/ Heartbeat(t) \/ SubmitResult(t) \/ FailAttempt(t)

Environment ==
  \/ \E r \in Requests : RequestExpires(r) \/ RestartWhileMinting(r)
  \/ \E r \in Requests : \E i \in 1 .. Latest(r) : LeaseExpires(r, i)
  \/ \E c \in live : CapabilityExpires(c)
  \/ Restart

Next ==
  \/ Maintainer
  \/ \E t \in Threads : Serve(t) \/ \E m \in Written \cup reports \cup InFlight : Arrive(t, m)
  \/ Environment

Spec == Init /\ [][Next]_vars

-----------------------------------------------------------------------------
(* Properties. *)

Positions == {"idle", "replay", "lease", "interrupt", "interrupted", "transact"}

TypeOK ==
  /\ state \in [Requests -> RequestStates]
  /\ counter \in [Requests -> Nat]
  /\ capability \in [Requests -> Nat]
  /\ late \subseteq Requests
  /\ attempts \in [Requests -> Seq(Attempt)]
  /\ ledger \subseteq Operations /\ reports \subseteq Message
  /\ claimFile \in [Requests -> Nat]
  /\ minted \in Nat /\ live \subseteq 1 .. minted /\ boot \in Nat
  /\ pc \in [Threads -> Positions]
  /\ msg \in [Threads -> Message \cup {NoMessage}]
  /\ \A t \in Threads : pc[t] # "idle" => msg[t] \in Message
  /\ retries \subseteq Threads

\* The thread that records a message in this step.
RecordedBy(t) == pc'[t] # pc[t] /\ reports' # reports

\* What an agent reports is accepted only under the capability the request has
\* when it is recorded, although the capability is checked earlier
\* (_require_agent, retry).
OnlyCurrentCapability ==
  \A t \in Threads : RecordedBy(t) => msg[t].capability = capability[msg[t].request]

\* Nothing an agent reports is accepted while its request is cancelled or
\* rejected, not even what it had sent before (cancel, reject).
NothingOnceOver ==
  \A t \in Threads : RecordedBy(t) => state[msg[t].request] \notin Over

\* One credential is good for one attempt (claim, retry).
OneAttemptPerCapability ==
  \A r \in Requests : \A i, j \in 1 .. Latest(r) :
    attempts[r][i].capability = attempts[r][j].capability => i = j

\* A cancelled or rejected request is left alone by everything except an
\* expired lease that was found before: _interrupt does not look again.
FinalUnlessInterrupted ==
  \A r \in Requests : state[r] \in {"cancelled", "rejected"} /\ state'[r] # state[r] =>
    \E t \in Threads : pc[t] = "interrupted" /\ msg[t].request = r

\* The retry of a report that is on record never interrupts the attempt, and
\* is never recorded again (_replay_agent).
RetryNeverInterrupts ==
  \A t \in retries : pc[t] \notin {"interrupt", "interrupted"}

\* While a request waits for an agent and its credential is honoured, the
\* agent finds that credential in the claim file (consent, retry).
ClaimIsOffered ==
  \A r \in Requests :
    state[r] = "waiting-for-agent" /\ capability[r] \in live => claimFile[r] = capability[r]

\* The state is well formed, also where a thread holds a message, and a retry
\* is answered from the ledger before the lease is asked (_replay_agent).
Wellformed == TypeOK /\ RetryNeverInterrupts

\* A credential is handed out when the request waits for it, stands for one
\* attempt, and a retry under it is answered in a well-formed state (consent,
\* retry, claim).
CredentialsHold == Wellformed /\ OneAttemptPerCapability /\ ClaimIsOffered

\* No report is accepted under a credential that was replaced, nor while its
\* request is over, and only an interruption that was under way reopens a request
\* that is over (_require_agent, cancel, reject).
ReportsAreCurrent == [][OnlyCurrentCapability /\ NothingOnceOver /\ FinalUnlessInterrupted]_vars

=============================================================================
