---------------------------- MODULE MutationGate ----------------------------
(***************************************************************************)
(* The mutation gate (design_playbook_workbench/mutation.py) under the     *)
(* request threads of the HTTP server: replay, load, counter check,        *)
(* transaction, apply, record. A client that got no answer sends the same  *)
(* operation id again, two windows edit the same row, an operation id is   *)
(* reused for something else, the project's grant changes while a request  *)
(* is on its way, and the process may stop at any time.                    *)
(*                                                                         *)
(* One registered project stands for the rows the gate protects: its own   *)
(* row, and documents that belong to it.                                   *)
(***************************************************************************)
EXTENDS Naturals, FiniteSets

CONSTANTS
  Project,      \* the project's own row
  Documents,    \* ids a document of the project can be given
  Bodies,       \* digests of a payload
  BodiesOf,     \* the payloads clients send in each kind of write
  WriteBody,    \* the payload of set_grants that grants the write scope
  Operations,   \* operation ids, minted by the clients
  Threads,      \* request threads
  None          \* no row, no record, no id, no request

Entities == {Project} \cup Documents

\* edit      a write that compares the counter (canvases, assets, work requests)
\* step      a write that does not (require_counter=False)
\* create    a write that mints its row
\* grants    set_grants; rename and rebind have the same shape
\* remove    remove_project
Kinds == {"edit", "step", "create", "grants", "remove"}

\* The kinds whose caller passes authorize=require_project(scope="write").
Authorized == {"edit", "step", "create"}

\* The kinds that compare the counter of the row.
Counted == {"edit", "grants", "remove"}

ASSUME NamesAssumption ==
  /\ Project \notin Documents
  /\ None \notin Entities
  /\ WriteBody \in Bodies

ASSUME BodiesAssumption == BodiesOf \in [Kinds -> SUBSET Bodies]

VARIABLES
  counter,   \* the counter column of each row, None without a row
  removed,   \* projects.removed
  granted,   \* the project's grants include the write scope
  ledger,    \* the mutations table: what is recorded for each operation id
  pc,        \* where each request thread is
  req,       \* the envelope each thread serves
  before,    \* counter_before of remove_project
  answer,    \* the record a thread is about to answer with, None for an error
  writes,    \* history: the writes that took effect
  allowed,   \* history: threads whose request saw the grant in force
  retries    \* history: threads whose operation was on record when they started

database == <<counter, removed, granted, ledger>>
process  == <<pc, req, before, answer>>
history  == <<writes, allowed, retries>>
vars     == <<database, process, history>>

\* Each operation raises a counter at most once.
Counters == 0 .. Cardinality(Operations)

\* MutationEnvelope, with the target the route names. A create names none.
Envelope ==
  [op : Operations, kind : Kinds, entity : Entities \cup {None},
   expected : Counters, body : Bodies]

Record == [kind : Kinds, entity : Entities, body : Bodies, counter : Nat]

\* None is the absence of a row, a record, a target or a request, and none of them.
ASSUME NoneAssumption == None \notin Nat /\ None \notin Envelope /\ None \notin Record

\* Store.project treats a removed row as gone.
Exists(e) == counter[e] # None /\ (e = Project => ~removed)

\* Faulty variant: the ledger is only asked whether the id was used.
MatchesId(record, envelope) == record # None

\* MutationGate.replay: the envelope is the one the record was made for.
Matches(record, envelope) ==
  /\ record # None
  /\ record.kind = envelope.kind
  /\ record.body = envelope.body
  /\ envelope.entity # None => record.entity = envelope.entity

\* require_project(scope="write").
Authorizes == ~removed /\ granted

-----------------------------------------------------------------------------
(* Clients. *)

\* A client names rows it has seen and expects a counter it has seen.
Honest(m) ==
  /\ m.body \in BodiesOf[m.kind]
  /\ CASE m.kind \in {"grants", "remove"} -> m.entity = Project /\ m.expected <= counter[Project]
       [] m.kind = "edit" ->
            m.entity \in Documents /\ counter[m.entity] # None /\ m.expected <= counter[m.entity]
       [] m.kind = "step" ->
            m.entity \in Documents /\ counter[m.entity] # None /\ m.expected = 0
       [] m.kind = "create" -> m.entity = None /\ m.expected = 0

\* set_grants asks for the project before it asks the gate; remove_project
\* looks for a replay first, to answer the retry of a removal.
Entry(kind) ==
  CASE kind = "grants" -> "exists"
    [] kind = "remove" -> "recorded"
    [] OTHER -> "replay"

Send(t, m) ==
  /\ pc[t] = "idle"
  /\ Honest(m)
  /\ pc' = [pc EXCEPT ![t] = Entry(m.kind)]
  /\ req' = [req EXCEPT ![t] = m]
  /\ allowed' = IF Authorizes THEN allowed \cup {t} ELSE allowed
  /\ retries' = IF Matches(ledger[m.op], m) THEN retries \cup {t} ELSE retries
  /\ UNCHANGED <<database, before, answer, writes>>

\* The answer reaches the client, or it does not and the client asks again.
Reply(t) ==
  /\ pc[t] = "reply"
  /\ pc' = [pc EXCEPT ![t] = "idle"]
  /\ req' = [req EXCEPT ![t] = None]
  /\ before' = [before EXCEPT ![t] = None]
  /\ answer' = [answer EXCEPT ![t] = None]
  /\ allowed' = allowed \ {t}
  /\ retries' = retries \ {t}
  /\ UNCHANGED <<database, writes>>

-----------------------------------------------------------------------------
(* Serving a request. *)

Moves(t, position) ==
  /\ pc' = [pc EXCEPT ![t] = position]
  /\ UNCHANGED <<database, req, before, answer, history>>

Answers(t, record) ==
  /\ pc' = [pc EXCEPT ![t] = "reply"]
  /\ answer' = [answer EXCEPT ![t] = record]
  /\ UNCHANGED <<req, before>>

Fails(t) == Answers(t, None) /\ UNCHANGED <<database, history>>

\* MutationGate.replay, called at a position of its own by remove_project.
Replay(t, position, next) ==
  /\ pc[t] = position
  /\ IF ledger[req[t].op] = None
     THEN Moves(t, next)
     ELSE /\ Answers(t, IF Matches(ledger[req[t].op], req[t]) THEN ledger[req[t].op] ELSE None)
          /\ UNCHANGED <<database, history>>

ReplayRemoval(t) == Replay(t, "recorded", "exists")

\* Faulty variant: the grant is asked for before the ledger.
AuthorizesFirst(t) ==
  IF pc[t] = "replay" /\ req[t].kind \in Authorized /\ ~Authorizes
  THEN Fails(t)
  ELSE Replay(t, "replay", IF req[t].kind \in Authorized THEN "authorize" ELSE "transact")

ReplayFirst(t) ==
  Replay(t, "replay", IF req[t].kind \in Authorized THEN "authorize" ELSE "transact")

\* _require_exists, and the counter remove_project reads outside of the
\* transaction.
RequireExists(t) ==
  /\ pc[t] = "exists"
  /\ IF Exists(Project)
     THEN /\ pc' = [pc EXCEPT ![t] = "replay"]
          /\ before' = [before EXCEPT ![t] = counter[Project]]
          /\ UNCHANGED <<database, req, answer, history>>
     ELSE Fails(t)

\* Faulty variant: no grant is asked for.
AuthorizesAll(t) == pc[t] = "authorize" /\ Moves(t, "transact")

Authorize(t) ==
  /\ pc[t] = "authorize"
  /\ IF Authorizes THEN Moves(t, "transact") ELSE Fails(t)

\* Faulty variant: the ledger is not read again inside the transaction and a
\* second record replaces the first.
AcceptableTwice(m) ==
  /\ m.kind # "create" => Exists(m.entity)
  /\ m.kind \in Counted => m.expected = counter[m.entity]

\* Faulty variant: the counter is not compared.
AcceptableStale(m) ==
  /\ ledger[m.op] = None
  /\ m.kind # "create" => Exists(m.entity)

\* Faulty variant: the row is not looked at again inside the transaction.
AcceptableUnseen(m) == ledger[m.op] = None

\* What the transaction checks before it applies the write.
Acceptable(m) ==
  /\ ledger[m.op] = None
  /\ m.kind # "create" => Exists(m.entity)
  /\ m.kind \in Counted => m.expected = counter[m.entity]

Refuse(t) ==
  /\ pc[t] = "transact"
  /\ ~Acceptable(req[t])
  /\ Fails(t)

\* The write itself is refused by the rules of its document and rolled back.
Raise(t) ==
  /\ pc[t] = "transact"
  /\ Acceptable(req[t])
  /\ Fails(t)

\* Faulty variant: the ledger names the target of the request, which a create
\* does not have.
WritesTarget(t, e, after, reported) ==
  LET m == req[t]
      record == [kind |-> m.kind, entity |-> m.entity, body |-> m.body, counter |-> reported]
  IN /\ counter' = [counter EXCEPT ![e] = after]
     /\ ledger' = [ledger EXCEPT ![m.op] = record]
     /\ writes' = writes
     /\ Answers(t, record)
     /\ UNCHANGED retries

\* Apply and record, one transaction. The result counter of a removal is the
\* one computed from the counter read before.
Writes(t, e, after, reported) ==
  LET m == req[t]
      record == [kind |-> m.kind, entity |-> e, body |-> m.body, counter |-> reported]
  IN /\ counter' = [counter EXCEPT ![e] = after]
     /\ ledger' = [ledger EXCEPT ![m.op] = record]
     /\ writes' = writes \cup {[op |-> m.op, entity |-> e, kind |-> m.kind, body |-> m.body,
                                expected |-> m.expected, after |-> after,
                                authorized |-> t \in allowed]}
     /\ Answers(t, record)
     /\ UNCHANGED retries

Create(t) ==
  /\ pc[t] = "transact"
  /\ req[t].kind = "create"
  /\ Acceptable(req[t])
  /\ \E d \in Documents : counter[d] = None /\ Writes(t, d, 0, 0)
  /\ UNCHANGED <<removed, granted, allowed>>

Edit(t) ==
  /\ pc[t] = "transact"
  /\ req[t].kind \in {"edit", "step"}
  /\ Acceptable(req[t])
  /\ Writes(t, req[t].entity, counter[req[t].entity] + 1, counter[req[t].entity] + 1)
  /\ UNCHANGED <<removed, granted, allowed>>

SetGrants(t) ==
  /\ pc[t] = "transact"
  /\ req[t].kind = "grants"
  /\ Acceptable(req[t])
  /\ granted' = (req[t].body = WriteBody)
  /\ allowed' = IF granted' THEN {u \in Threads : pc[u] # "idle"} ELSE allowed
  /\ Writes(t, Project, counter[Project] + 1, counter[Project] + 1)
  /\ UNCHANGED removed

Remove(t) ==
  /\ pc[t] = "transact"
  /\ req[t].kind = "remove"
  /\ Acceptable(req[t])
  /\ removed' = TRUE
  /\ granted' = FALSE
  /\ Writes(t, Project, counter[Project] + 1, before[t] + 1)
  /\ UNCHANGED allowed

-----------------------------------------------------------------------------

\* The service stops; what is committed stays, nothing else does.
Crash ==
  /\ \E t \in Threads : pc[t] # "idle"
  /\ pc' = [t \in Threads |-> "idle"]
  /\ req' = [t \in Threads |-> None]
  /\ before' = [t \in Threads |-> None]
  /\ answer' = [t \in Threads |-> None]
  /\ allowed' = {}
  /\ retries' = {}
  /\ UNCHANGED <<database, writes>>

Init ==
  /\ counter = [e \in Entities |-> IF e = Project THEN 0 ELSE None]
  /\ removed = FALSE
  /\ granted = TRUE
  /\ ledger = [o \in Operations |-> None]
  /\ pc = [t \in Threads |-> "idle"]
  /\ req = [t \in Threads |-> None]
  /\ before = [t \in Threads |-> None]
  /\ answer = [t \in Threads |-> None]
  /\ writes = {}
  /\ allowed = {}
  /\ retries = {}

Serve(t) ==
  \/ ReplayRemoval(t) \/ RequireExists(t) \/ ReplayFirst(t) \/ Authorize(t)
  \/ Refuse(t) \/ Raise(t) \/ Create(t) \/ Edit(t) \/ SetGrants(t) \/ Remove(t)
  \/ Reply(t)

Next ==
  \/ \E t \in Threads : Serve(t) \/ \E m \in Envelope : Send(t, m)
  \/ Crash

Spec == Init /\ [][Next]_vars


-----------------------------------------------------------------------------
(* Properties. *)

Positions == {"idle", "recorded", "exists", "replay", "authorize", "transact", "reply"}

TypeOK ==
  /\ counter \in [Entities -> Nat \cup {None}]
  /\ removed \in BOOLEAN /\ granted \in BOOLEAN
  /\ ledger \in [Operations -> Record \cup {None}]
  /\ pc \in [Threads -> Positions]
  /\ req \in [Threads -> Envelope \cup {None}]
  /\ \A t \in Threads : IF pc[t] = "idle" THEN req[t] = None ELSE req[t] \in Envelope
  /\ before \in [Threads -> Nat \cup {None}]
  /\ answer \in [Threads -> Record \cup {None}]
  /\ allowed \subseteq Threads /\ retries \subseteq Threads

\* What the clients of the requests being answered are told.
Told == {<<req[t].op, answer[t]>> : t \in {u \in Threads : answer[u] # None}}

Once == INSTANCE ExactlyOnce WITH
          Outcomes <- Record, NoOutcome <- None, outcome <- ledger, answers <- Told

\* Retries, duplicates served side by side, lost answers and stops of the
\* service keep the promise of ExactlyOnce: the ledger is its outcome.
AtMostOnce == Once!Spec

\* No operation id stands for two writes, and a client told of a success is
\* told of the write it asked for: never of another one that used the same id
\* for another row, another kind or another payload (MutationGate.replay).
ToldItsOwn ==
  /\ \A v, w \in writes : v.op = w.op => v = w
  /\ \A t \in Threads : answer[t] # None =>
       \E w \in writes :
         /\ w.op = req[t].op /\ w.kind = req[t].kind /\ w.body = req[t].body
         /\ req[t].entity \in {w.entity, None}

\* No lost update: a write that compares its counter was sent by a client that
\* had seen every earlier write of the row (MutationGate.existing).
NoLostUpdate ==
  \A w \in writes : w.kind \in Counted =>
    \A v \in writes \ {w} : v.entity = w.entity =>
      \/ v.after <= w.expected   \* v came first and had been seen
      \/ v.after > w.after       \* v came later

\* The counter a client is told for a compared write is the one its row has
\* after that write, also for a removal, which computes it before the
\* transaction.
ReportedCounter ==
  \A w \in writes : w.kind \in Counted => ledger[w.op].counter = w.after

\* A write that needs the grant takes effect only if the grant was in force at
\* some moment while its request was being served: one sent after the
\* revocation was answered never does (authorize, require_project).
AppliedUnderGrant == \A w \in writes : w.kind \in Authorized => w.authorized

\* A removed project keeps no grant, whichever of a removal and a change of its
\* grants is served first (unregister_project, set_grants).
RemovedHasNoGrant == removed => ~granted

RetriesOf(kinds) ==
  \A t \in retries : pc[t] = "reply" /\ req[t].kind \in kinds => answer[t] = ledger[req[t].op]

\* A retry of a write that already succeeded gets the recorded result, even if
\* the grant was revoked or the project removed since: the kinds that leave
\* the order of the checks to the gate, and remove_project.
GateRetries == RetriesOf(Kinds \ {"grants"})

=============================================================================
