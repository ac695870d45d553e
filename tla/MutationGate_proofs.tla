------------------------ MODULE MutationGate_proofs ------------------------
(***************************************************************************)
(* What MutationGate promises for every number of clients, operations and  *)
(* documents.                                                              *)
(***************************************************************************)
EXTENDS MutationGate, TLAPS

USE DEF database, process, history

\* An answer of success is only about to be given, and is the record of the
\* operation.
AnswerInv ==
  \A t \in Threads : answer[t] # None =>
    /\ pc[t] = "reply"
    /\ answer[t] = ledger[req[t].op]
    /\ Matches(ledger[req[t].op], req[t])

\* The ledger has one record for each write that took effect.
LedgerInv ==
  /\ \A w \in writes : /\ w.op \in Operations /\ w.entity \in Entities /\ w.after \in Nat
                       /\ ledger[w.op] # None
                       /\ ledger[w.op].kind = w.kind
                       /\ ledger[w.op].entity = w.entity
                       /\ ledger[w.op].body = w.body
  /\ \A o \in Operations : ledger[o] # None => \E w \in writes : w.op = o
  /\ \A v, w \in writes : v.op = w.op => v = w

\* A row's counter is at least what every write of the row left it at.
CounterInv ==
  \A w \in writes : counter[w.entity] \in Nat /\ w.after <= counter[w.entity]

\* A request that may apply without asking for the grant again has seen it.
GrantInv ==
  /\ RemovedHasNoGrant
  /\ \A t \in Threads :
       /\ pc[t] # "idle" /\ Authorizes => t \in allowed
       /\ pc[t] = "transact" /\ req[t].kind \in Authorized => t \in allowed

\* The counter remove_project read is one its client may have seen, and no
\* write has lowered it since.
BeforeInv ==
  \A t \in Threads : pc[t] # "idle" /\ req[t].kind = "remove" =>
    /\ req[t].entity = Project
    /\ req[t].expected <= counter[Project]
    /\ pc[t] \in {"recorded", "exists", "replay", "transact", "reply"}
    /\ pc[t] \in {"replay", "transact"} =>
         before[t] \in Nat /\ req[t].expected <= before[t] /\ before[t] <= counter[Project]

\* Only a create names no target; the others name a row of their kind.
TargetInv ==
  \A t \in Threads : pc[t] # "idle" =>
    /\ req[t].kind = "create" => req[t].entity = None
    /\ req[t].kind \in {"edit", "step"} => req[t].entity \in Documents
    /\ req[t].kind \in {"grants", "remove"} => req[t].entity = Project

IInv ==
  /\ TypeOK /\ TargetInv /\ AnswerInv /\ LedgerInv /\ CounterInv /\ GrantInv /\ BeforeInv
  /\ counter[Project] # None
  /\ NoLostUpdate /\ ReportedCounter /\ AppliedUnderGrant

LEMMA CountersNat == Counters \subseteq Nat
BY DEF Counters

LEMMA InitInv == Init => IInv
<1> SUFFICES ASSUME Init PROVE IInv
  OBVIOUS
<1>1. TypeOK
  BY NamesAssumption DEF Init, TypeOK, Entities, Positions
<1>2. TargetInv /\ AnswerInv /\ LedgerInv /\ CounterInv /\ GrantInv /\ BeforeInv
  BY DEF Init, TargetInv, AnswerInv, LedgerInv, CounterInv, GrantInv, BeforeInv, RemovedHasNoGrant, Authorizes
<1>3. NoLostUpdate /\ ReportedCounter /\ AppliedUnderGrant
  BY DEF Init, NoLostUpdate, ReportedCounter, AppliedUnderGrant
<1>4. counter[Project] # None
  BY NoneAssumption DEF Init, Entities
<1> QED BY <1>1, <1>2, <1>3, <1>4 DEF IInv

-----------------------------------------------------------------------------
(* Steps that change neither the database nor the writes. *)

\* What every step of a thread outside of a transaction looks like.
Quiet(t) ==
  /\ UNCHANGED <<database, writes>>
  /\ \A u \in Threads \ {t} : pc'[u] = pc[u] /\ req'[u] = req[u] /\ answer'[u] = answer[u]

LEMMA QuietKeeps ==
  ASSUME IInv, NEW t \in Threads, Quiet(t), pc[t] # "reply",
         answer'[t] # None =>
           /\ pc'[t] = "reply" /\ answer'[t] = ledger[req'[t].op]
           /\ Matches(ledger[req'[t].op], req'[t])
  PROVE  /\ AnswerInv' /\ LedgerInv' /\ CounterInv' /\ counter'[Project] # None
         /\ NoLostUpdate' /\ ReportedCounter' /\ AppliedUnderGrant' /\ RemovedHasNoGrant'
<1>1. AnswerInv'
  BY DEF IInv, AnswerInv, Quiet, Matches
<1>2. LedgerInv' /\ CounterInv' /\ counter'[Project] # None
  BY DEF IInv, LedgerInv, CounterInv, Quiet
<1>3. NoLostUpdate' /\ ReportedCounter' /\ AppliedUnderGrant' /\ RemovedHasNoGrant'
  BY DEF IInv, Quiet, NoLostUpdate, ReportedCounter, AppliedUnderGrant, GrantInv,
         RemovedHasNoGrant
<1> QED BY <1>1, <1>2, <1>3

\* The facts about the thread whose transaction is accepted.
LEMMA TransactFacts ==
  ASSUME IInv, NEW t \in Threads, pc[t] = "transact", Acceptable(req[t])
  PROVE  /\ req[t] \in Envelope
         /\ req[t].op \in Operations
         /\ ledger[req[t].op] = None
         /\ \A w \in writes : w.op # req[t].op
BY DEF IInv, TypeOK, Envelope, Acceptable, LedgerInv

\* An accepted write, in terms of the row it writes.
AppliesTo(t, e, after, reported) ==
  /\ pc[t] = "transact"
  /\ Acceptable(req[t])
  /\ Writes(t, e, after, reported)
  /\ counter[e] # None => after = counter[e] + 1
  /\ req[t].kind # "create" => counter[e] # None /\ e = req[t].entity
  /\ req[t].kind \in Counted => reported = after

LEMMA WriteKeeps ==
  ASSUME IInv, NEW t \in Threads, NEW e \in Entities, NEW after \in Nat, NEW reported \in Nat,
         AppliesTo(t, e, after, reported)
  PROVE  /\ AnswerInv' /\ LedgerInv' /\ CounterInv' /\ counter'[Project] # None
         /\ NoLostUpdate' /\ ReportedCounter' /\ AppliedUnderGrant'
<1> DEFINE m == req[t]
           record == [kind |-> m.kind, entity |-> e, body |-> m.body, counter |-> reported]
           new == [op |-> m.op, entity |-> e, kind |-> m.kind, body |-> m.body,
                   expected |-> m.expected, after |-> after, authorized |-> t \in allowed]
<1>0. TypeOK /\ AnswerInv /\ LedgerInv /\ CounterInv /\ GrantInv
  BY DEF IInv
<1>1. /\ m \in Envelope /\ m.op \in Operations /\ m.kind \in Kinds /\ m.body \in Bodies
      /\ m.expected \in Nat
      /\ ledger[m.op] = None
      /\ \A w \in writes : w.op # m.op
  BY TransactFacts, CountersNat DEF AppliesTo, Envelope
<1>2. /\ counter' = [counter EXCEPT ![e] = after]
      /\ ledger' = [ledger EXCEPT ![m.op] = record]
      /\ writes' = writes \cup {new}
      /\ answer' = [answer EXCEPT ![t] = record]
      /\ pc' = [pc EXCEPT ![t] = "reply"]
      /\ UNCHANGED <<req, before>>
  BY DEF AppliesTo, Writes, Answers
<1>3. record \in Record /\ record # None
  BY <1>1, NoneAssumption DEF Record
<1>4. /\ counter'[e] = after
      /\ \A f \in Entities \ {e} : counter'[f] = counter[f]
      /\ ledger'[m.op] = record
      /\ \A o \in Operations \ {m.op} : ledger'[o] = ledger[o]
      /\ answer'[t] = record
      /\ \A u \in Threads \ {t} : answer'[u] = answer[u] /\ pc'[u] = pc[u]
      /\ pc'[t] = "reply"
  BY <1>0, <1>1, <1>2 DEF TypeOK
<1>5. /\ new.op = m.op /\ new.entity = e /\ new.kind = m.kind /\ new.body = m.body
      /\ new.expected = m.expected /\ new.after = after /\ new.authorized = (t \in allowed)
      /\ record.kind = m.kind /\ record.entity = e /\ record.body = m.body
      /\ record.counter = reported
  OBVIOUS
<1> HIDE DEF record, new
<1>6. AnswerInv'
  <2> SUFFICES ASSUME NEW u \in Threads, answer'[u] # None
               PROVE  /\ pc'[u] = "reply" /\ answer'[u] = ledger'[req'[u].op]
                      /\ Matches(ledger'[req'[u].op], req'[u])
    BY DEF AnswerInv, Matches
  <2>1. CASE u = t
    <3>1. m.entity # None => e = m.entity
      <4>1. m.kind = "create" \/ e = m.entity
        BY DEF AppliesTo
      <4>2. m.kind = "create" => m.entity = None
        BY <1>0 DEF IInv, TargetInv, AppliesTo
      <4> QED BY <4>1, <4>2
    <3> QED BY <1>2, <1>3, <1>4, <1>5, <2>1, <3>1 DEF Matches
  <2>2. CASE u # t
    <3>1. answer[u] # None /\ pc[u] = "reply"
      BY <1>0, <1>4, <2>2 DEF AnswerInv
    <3>2. req[u].op \in Operations /\ ledger[req[u].op] # None
      BY <1>0, <3>1 DEF AnswerInv, TypeOK, Envelope, Matches
    <3>3. req[u].op # m.op
      BY <1>1, <3>2
    <3> QED BY <1>0, <1>2, <1>4, <2>2, <3>1, <3>2, <3>3 DEF AnswerInv
  <2> QED BY <2>1, <2>2
<1>7. LedgerInv'
  <2>1. \A w \in writes' : /\ w.op \in Operations /\ w.entity \in Entities /\ w.after \in Nat
                           /\ ledger'[w.op] # None /\ ledger'[w.op].kind = w.kind
                           /\ ledger'[w.op].entity = w.entity /\ ledger'[w.op].body = w.body
    BY <1>0, <1>1, <1>2, <1>3, <1>4, <1>5 DEF LedgerInv
  <2>2. \A o \in Operations : ledger'[o] # None => \E w \in writes' : w.op = o
    BY <1>0, <1>2, <1>4, <1>5 DEF LedgerInv
  <2>3. \A v, w \in writes' : v.op = w.op => v = w
    BY <1>0, <1>1, <1>2, <1>5 DEF LedgerInv
  <2> QED BY <2>1, <2>2, <2>3 DEF LedgerInv
<1>8. \A w \in writes : w.entity = e => counter[e] \in Nat /\ after = counter[e] + 1 /\ w.after <= counter[e]
  BY <1>0, NoneAssumption DEF CounterInv, AppliesTo
<1>9. CounterInv' /\ counter'[Project] # None
  <2>1. ASSUME NEW w \in writes' PROVE counter'[w.entity] \in Nat /\ w.after <= counter'[w.entity]
    <3>1. CASE w = new
      BY <1>4, <1>5, <3>1
    <3>2. CASE w \in writes /\ w.entity = e
      BY <1>0, <1>4, <1>8, <3>2 DEF LedgerInv
    <3>3. CASE w \in writes /\ w.entity # e
      BY <1>0, <1>4, <3>3 DEF LedgerInv, CounterInv
    <3> QED BY <1>2, <3>1, <3>2, <3>3
  <2>2. counter'[Project] # None
    BY <1>4, NoneAssumption DEF IInv, Entities
  <2> QED BY <2>1, <2>2 DEF CounterInv
<1>10. NoLostUpdate'
  <2> SUFFICES ASSUME NEW w \in writes', w.kind \in Counted, NEW v \in writes' \ {w},
                      v.entity = w.entity
               PROVE  v.after <= w.expected \/ v.after > w.after
    BY DEF NoLostUpdate
  <2>1. CASE w = new
    <3>1. v \in writes /\ v.entity = e
      BY <1>2, <1>5, <2>1
    <3>2. m.expected = counter[e]
      BY <1>5, <2>1 DEF AppliesTo, Acceptable, Counted
    <3> QED BY <1>5, <1>8, <2>1, <3>1, <3>2
  <2>2. CASE w \in writes /\ v = new
    BY <1>0, <1>5, <1>8, <2>2 DEF LedgerInv
  <2>3. CASE w \in writes /\ v \in writes
    BY <2>3 DEF IInv, NoLostUpdate
  <2> QED BY <1>2, <2>1, <2>2, <2>3
<1>11. ReportedCounter'
  <2> SUFFICES ASSUME NEW w \in writes', w.kind \in Counted
               PROVE  ledger'[w.op].counter = w.after
    BY DEF ReportedCounter
  <2>1. CASE w = new
    BY <1>4, <1>5, <2>1 DEF AppliesTo
  <2>2. CASE w \in writes
    BY <1>0, <1>1, <1>4, <2>2 DEF IInv, LedgerInv, ReportedCounter
  <2> QED BY <1>2, <2>1, <2>2
<1>12. AppliedUnderGrant'
  <2> SUFFICES ASSUME NEW w \in writes', w.kind \in Authorized PROVE w.authorized
    BY DEF AppliedUnderGrant
  <2>1. CASE w = new
    BY <1>0, <1>5, <2>1 DEF AppliesTo, GrantInv
  <2>2. CASE w \in writes
    BY <2>2 DEF IInv, AppliedUnderGrant
  <2> QED BY <1>2, <2>1, <2>2
<1> QED BY <1>6, <1>7, <1>9, <1>10, <1>11, <1>12

LEMMA QuietSteps ==
  ASSUME IInv, NEW t \in Threads,
         ReplayRemoval(t) \/ RequireExists(t) \/ ReplayFirst(t) \/ Authorize(t)
           \/ Refuse(t) \/ Raise(t)
  PROVE  IInv'
<1>0. TypeOK /\ TargetInv /\ AnswerInv /\ GrantInv /\ BeforeInv
  BY DEF IInv
<1>1. ASSUME NEW position, NEW next, Replay(t, position, next), position \notin {"idle", "reply"}
      PROVE  /\ Quiet(t) /\ pc[t] # "reply" /\ pc[t] # "idle" /\ UNCHANGED <<req, before, allowed, retries>>
             /\ pc[t] = position /\ pc'[t] \in {next, "reply"}
             /\ pc' = [pc EXCEPT ![t] = pc'[t]]
             /\ answer'[t] # None =>
                  /\ pc'[t] = "reply" /\ answer'[t] = ledger[req'[t].op]
                  /\ Matches(ledger[req'[t].op], req'[t])
             /\ answer' \in [Threads -> Record \cup {None}]
  <2>1. req[t] \in Envelope /\ req[t].op \in Operations /\ answer[t] = None
    BY <1>0, <1>1 DEF Replay, TypeOK, AnswerInv, Envelope
  <2>2. CASE ledger[req[t].op] = None
    BY <1>0, <1>1, <2>1, <2>2 DEF Replay, Moves, Quiet, TypeOK
  <2>3. CASE ledger[req[t].op] # None
    BY <1>0, <1>1, <2>1, <2>3 DEF Replay, Answers, Quiet, TypeOK
  <2> QED BY <2>2, <2>3
<1>2. ASSUME Fails(t), pc[t] \notin {"idle", "reply"}
      PROVE  /\ Quiet(t) /\ UNCHANGED <<req, before, allowed, retries>>
             /\ pc' = [pc EXCEPT ![t] = "reply"] /\ answer'[t] = None
             /\ answer' \in [Threads -> Record \cup {None}]
  BY <1>0, <1>2 DEF Fails, Answers, Quiet, TypeOK
<1>3. /\ Quiet(t) /\ pc[t] # "reply" /\ pc[t] # "idle"
      /\ UNCHANGED <<req, allowed, retries>>
      /\ pc' = [pc EXCEPT ![t] = pc'[t]]
      /\ pc'[t] \in Positions \ {"idle"}
      /\ before' \in [Threads -> Nat \cup {None}]
      /\ answer' \in [Threads -> Record \cup {None}]
      /\ answer'[t] # None =>
           /\ pc'[t] = "reply" /\ answer'[t] = ledger[req'[t].op]
           /\ Matches(ledger[req'[t].op], req'[t])
      /\ pc'[t] = "transact" /\ req[t].kind \in Authorized => t \in allowed
      /\ req[t].kind = "remove" =>
           /\ pc'[t] \in {"recorded", "exists", "replay", "transact", "reply"}
           /\ pc'[t] \in {"replay", "transact"} =>
                before'[t] \in Nat /\ req[t].expected <= before'[t] /\ before'[t] <= counter[Project]
      /\ \A u \in Threads \ {t} : before'[u] = before[u]
  <2>1. CASE ReplayRemoval(t)
    <3>1. /\ Quiet(t) /\ pc[t] = "recorded" /\ UNCHANGED <<req, before, allowed, retries>>
          /\ pc'[t] \in {"exists", "reply"} /\ pc' = [pc EXCEPT ![t] = pc'[t]]
          /\ answer' \in [Threads -> Record \cup {None}]
          /\ answer'[t] # None =>
               /\ pc'[t] = "reply" /\ answer'[t] = ledger[req'[t].op]
               /\ Matches(ledger[req'[t].op], req'[t])
      BY <1>1, <2>1 DEF ReplayRemoval
    <3> QED BY <1>0, <3>1 DEF Positions, TypeOK
  <2>2. CASE ReplayFirst(t)
    <3>1. pc[t] = "replay" /\ req[t].kind \in Kinds
      BY <1>0, <2>2 DEF ReplayFirst, Replay, TypeOK, Envelope
    <3> QED BY <1>0, <1>1, <2>2, <3>1 DEF ReplayFirst, Positions, TypeOK, BeforeInv, Authorized
  <2>3. CASE RequireExists(t)
    <3>1. CASE Exists(Project)
      <4>1. /\ pc' = [pc EXCEPT ![t] = "replay"]
            /\ before' = [before EXCEPT ![t] = counter[Project]]
            /\ UNCHANGED <<database, req, answer, history>>
        BY <2>3, <3>1 DEF RequireExists
      <4>2. counter[Project] \in Nat /\ answer[t] = None /\ pc[t] = "exists"
        BY <1>0, <2>3, <3>1 DEF RequireExists, Exists, TypeOK, Entities, AnswerInv
      <4>3. req[t].kind = "remove" => req[t].expected <= counter[Project]
        BY <1>0, <4>2 DEF BeforeInv
      <4> QED BY <1>0, <4>1, <4>2, <4>3 DEF Quiet, TypeOK, Positions
    <3>2. CASE ~Exists(Project)
      BY <1>0, <1>2, <2>3, <3>2 DEF RequireExists, TypeOK, Positions
    <3> QED BY <3>1, <3>2
  <2>4. CASE Authorize(t)
    <3>1. CASE Authorizes
      <4>1. answer[t] = None /\ pc[t] = "authorize" /\ req[t].kind # "remove" /\ t \in allowed
        BY <1>0, <2>4, <3>1 DEF Authorize, AnswerInv, BeforeInv, GrantInv
      <4> QED BY <1>0, <2>4, <3>1, <4>1 DEF Authorize, Moves, Quiet, TypeOK, Positions
    <3>2. CASE ~Authorizes
      BY <1>0, <1>2, <2>4, <3>2 DEF Authorize, TypeOK, Positions
    <3> QED BY <3>1, <3>2
  <2>5. CASE Refuse(t) \/ Raise(t)
    BY <1>0, <1>2, <2>5 DEF Refuse, Raise, TypeOK, Positions
  <2> QED BY <2>1, <2>2, <2>3, <2>4, <2>5
<1>4. TypeOK'
  <2>1. pc' \in [Threads -> Positions]
    BY <1>0, <1>3 DEF TypeOK
  <2>2. ASSUME NEW u \in Threads
        PROVE  IF pc'[u] = "idle" THEN req'[u] = None ELSE req'[u] \in Envelope
    BY <1>0, <1>3 DEF TypeOK
  <2> QED BY <1>0, <1>3, <2>1, <2>2 DEF TypeOK, Quiet
<1>5. TargetInv' /\ GrantInv'
  BY <1>0, <1>3 DEF TypeOK, TargetInv, GrantInv, RemovedHasNoGrant, Authorizes, Quiet
<1>6. BeforeInv'
  <2> SUFFICES ASSUME NEW u \in Threads, pc'[u] # "idle", req'[u].kind = "remove"
               PROVE  /\ req'[u].entity = Project /\ req'[u].expected <= counter'[Project]
                      /\ pc'[u] \in {"recorded", "exists", "replay", "transact", "reply"}
                      /\ pc'[u] \in {"replay", "transact"} =>
                           before'[u] \in Nat /\ req'[u].expected <= before'[u]
                             /\ before'[u] <= counter'[Project]
    BY DEF BeforeInv
  <2>1. pc[u] # "idle" /\ req[u] = req'[u] /\ counter' = counter
    BY <1>3 DEF Quiet
  <2> QED BY <1>0, <1>3, <2>1 DEF BeforeInv, Quiet
<1> QED BY <1>3, <1>4, <1>5, <1>6, QuietKeeps DEF IInv

LEMMA SendStep ==
  ASSUME IInv, NEW t \in Threads, NEW m \in Envelope, Send(t, m)
  PROVE  IInv'
<1>0. TypeOK /\ TargetInv /\ AnswerInv /\ GrantInv /\ BeforeInv
  BY DEF IInv
<1>1. answer[t] = None
  BY <1>0 DEF Send, AnswerInv
<1>2. Entry(m.kind) \in {"exists", "recorded", "replay"} /\ (m.kind = "remove" => Entry(m.kind) = "recorded")
  BY DEF Entry
<1>3. /\ pc' = [pc EXCEPT ![t] = Entry(m.kind)] /\ req' = [req EXCEPT ![t] = m]
      /\ pc[t] = "idle" /\ Honest(m)
      /\ allowed' = IF Authorizes THEN allowed \cup {t} ELSE allowed
      /\ retries' \subseteq Threads
      /\ UNCHANGED <<database, before, answer, writes>>
  BY <1>0 DEF Send, TypeOK
<1>4. Quiet(t) /\ answer'[t] = None
  BY <1>0, <1>1, <1>3 DEF Quiet, TypeOK
<1>5. TypeOK'
  <2>1. pc' \in [Threads -> Positions]
    BY <1>0, <1>2, <1>3 DEF TypeOK, Positions
  <2>2. req' \in [Threads -> Envelope \cup {None}] /\ pc'[t] # "idle" /\ req'[t] = m
    BY <1>0, <1>2, <1>3 DEF TypeOK
  <2>3. \A u \in Threads : IF pc'[u] = "idle" THEN req'[u] = None ELSE req'[u] \in Envelope
    BY <1>0, <2>2, <1>3 DEF TypeOK
  <2>4. allowed' \subseteq Threads
    BY <1>0, <1>3 DEF TypeOK
  <2> QED BY <1>0, <1>3, <2>1, <2>2, <2>3, <2>4 DEF TypeOK
<1>6. TargetInv'
  BY <1>0, <1>3 DEF TypeOK, TargetInv, Honest
<1>7. GrantInv'
  BY <1>0, <1>2, <1>3 DEF TypeOK, GrantInv, RemovedHasNoGrant, Authorizes
<1>8. BeforeInv'
  BY <1>0, <1>2, <1>3 DEF TypeOK, BeforeInv, Honest
<1> QED BY <1>1, <1>3, <1>4, <1>5, <1>6, <1>7, <1>8, QuietKeeps DEF IInv

\* The answer is given, or everybody's is lost.
LEMMA ReturnStep ==
  ASSUME IInv, Crash \/ \E t \in Threads : Reply(t)
  PROVE  IInv'
<1>0. TypeOK /\ TargetInv /\ AnswerInv /\ GrantInv /\ BeforeInv
  BY DEF IInv
<1>1. /\ UNCHANGED <<database, writes>>
      /\ \A u \in Threads : \/ pc'[u] = "idle" /\ req'[u] = None /\ before'[u] = None /\ answer'[u] = None
                            \/ /\ pc'[u] = pc[u] /\ req'[u] = req[u] /\ before'[u] = before[u]
                               /\ answer'[u] = answer[u]
                               /\ (u \in allowed' <=> u \in allowed)
  BY <1>0 DEF Crash, Reply, TypeOK
<1>2. /\ pc' \in [Threads -> Positions] /\ req' \in [Threads -> Envelope \cup {None}]
      /\ before' \in [Threads -> Nat \cup {None}] /\ answer' \in [Threads -> Record \cup {None}]
      /\ allowed' \subseteq Threads /\ retries' \subseteq Threads
  BY <1>0 DEF Crash, Reply, TypeOK, Positions
<1>3. TypeOK'
  BY <1>0, <1>1, <1>2 DEF TypeOK
<1>4. TargetInv' /\ GrantInv'
  BY <1>0, <1>1 DEF TargetInv, GrantInv, RemovedHasNoGrant, Authorizes
<1>5. BeforeInv'
  BY <1>0, <1>1 DEF BeforeInv
<1>6. AnswerInv'
  BY <1>0, <1>1 DEF AnswerInv, Matches
<1>7. LedgerInv' /\ CounterInv' /\ counter'[Project] # None
  BY <1>1 DEF IInv, LedgerInv, CounterInv
<1>8. NoLostUpdate' /\ ReportedCounter' /\ AppliedUnderGrant'
  BY <1>1 DEF IInv, NoLostUpdate, ReportedCounter, AppliedUnderGrant
<1> QED BY <1>3, <1>4, <1>5, <1>6, <1>7, <1>8 DEF IInv

-----------------------------------------------------------------------------
(* The writes. *)

LEMMA WriteRest ==
  ASSUME IInv, NEW t \in Threads, NEW e \in Entities, NEW after \in Nat, NEW reported \in Nat,
         AppliesTo(t, e, after, reported),
         removed' \in BOOLEAN, granted' \in BOOLEAN, allowed' \subseteq Threads
  PROVE  TypeOK' /\ TargetInv' /\ BeforeInv'
<1> DEFINE m == req[t]
           record == [kind |-> m.kind, entity |-> e, body |-> m.body, counter |-> reported]
<1>0. TypeOK /\ TargetInv /\ BeforeInv
  BY DEF IInv
<1>1. /\ counter' = [counter EXCEPT ![e] = after]
      /\ ledger' = [ledger EXCEPT ![m.op] = record]
      /\ answer' = [answer EXCEPT ![t] = record]
      /\ pc' = [pc EXCEPT ![t] = "reply"]
      /\ UNCHANGED <<req, before, retries>>
  BY DEF AppliesTo, Writes, Answers
<1>2. m \in Envelope /\ m.op \in Operations /\ record \in Record
  <2>1. m \in Envelope /\ m.op \in Operations
    BY TransactFacts DEF AppliesTo
  <2> QED BY <2>1 DEF Envelope, Record
<1> HIDE DEF record
<1>3. pc[t] = "transact"
  BY DEF AppliesTo
<1>4. TypeOK'
  <2>1. counter' \in [Entities -> Nat \cup {None}]
    BY <1>0, <1>1 DEF TypeOK
  <2>2. ledger' \in [Operations -> Record \cup {None}] /\ answer' \in [Threads -> Record \cup {None}]
    BY <1>0, <1>1, <1>2 DEF TypeOK
  <2>3. pc' \in [Threads -> Positions]
    BY <1>0, <1>1 DEF TypeOK, Positions
  <2>4. \A u \in Threads : IF pc'[u] = "idle" THEN req'[u] = None ELSE req'[u] \in Envelope
    BY <1>0, <1>1, <1>3 DEF TypeOK
  <2> QED BY <1>0, <1>1, <2>1, <2>2, <2>3, <2>4 DEF TypeOK
<1>5. TargetInv'
  BY <1>0, <1>1, <1>3 DEF TypeOK, TargetInv
<1>6. counter[Project] \in Nat /\ counter'[Project] \in Nat /\ counter[Project] <= counter'[Project]
  <2>1. counter[Project] \in Nat
    BY <1>0 DEF IInv, TypeOK, Entities
  <2>2. counter'[Project] = IF e = Project THEN after ELSE counter[Project]
    BY <1>0, <1>1 DEF TypeOK, Entities
  <2>3. e = Project => after = counter[Project] + 1
    BY <2>1, NoneAssumption DEF AppliesTo
  <2> QED BY <2>1, <2>2, <2>3
<1>7. BeforeInv'
  <2> SUFFICES ASSUME NEW u \in Threads, pc'[u] # "idle", req'[u].kind = "remove"
               PROVE  /\ req'[u].entity = Project /\ req'[u].expected <= counter'[Project]
                      /\ pc'[u] \in {"recorded", "exists", "replay", "transact", "reply"}
                      /\ pc'[u] \in {"replay", "transact"} =>
                           before'[u] \in Nat /\ req'[u].expected <= before'[u]
                             /\ before'[u] <= counter'[Project]
    BY DEF BeforeInv
  <2>1. pc[u] # "idle" /\ req[u].kind = "remove" /\ req'[u] = req[u] /\ before'[u] = before[u]
        /\ (pc'[u] = pc[u] \/ pc'[u] = "reply")
    BY <1>0, <1>1, <1>3 DEF TypeOK
  <2>2. req[u].expected \in Nat
    BY <1>0, <2>1, CountersNat DEF TypeOK, Envelope
  <2> QED BY <1>0, <1>6, <2>1, <2>2 DEF BeforeInv
<1> QED BY <1>4, <1>5, <1>7

LEMMA CreateStep ==
  ASSUME IInv, NEW t \in Threads, Create(t)
  PROVE  IInv'
<1>1. PICK d \in Documents : counter[d] = None /\ Writes(t, d, 0, 0)
  BY DEF Create
<1>2. AppliesTo(t, d, 0, 0)
  BY <1>1 DEF Create, AppliesTo, Counted
<1>3. d \in Entities /\ UNCHANGED <<removed, granted, allowed>>
  BY DEF Entities, Create
<1>4. TypeOK' /\ TargetInv' /\ BeforeInv'
  BY <1>2, <1>3, WriteRest DEF IInv, TypeOK
<1>5. GrantInv'
  BY <1>1, <1>3 DEF IInv, TypeOK, GrantInv, RemovedHasNoGrant, Authorizes, Writes, Answers, Create
<1> QED BY <1>2, <1>3, <1>4, <1>5, WriteKeeps DEF IInv

LEMMA EditStep ==
  ASSUME IInv, NEW t \in Threads, Edit(t)
  PROVE  IInv'
<1> DEFINE e == req[t].entity
           after == counter[e] + 1
<1>1. e \in Documents /\ e \in Entities /\ counter[e] \in Nat /\ counter[e] # None
  BY DEF Edit, IInv, TargetInv, TypeOK, Acceptable, Exists, Entities
<1>2. AppliesTo(t, e, after, after) /\ after \in Nat
  BY <1>1 DEF Edit, AppliesTo
<1>3. UNCHANGED <<removed, granted, allowed>>
  BY DEF Edit
<1>4. TypeOK' /\ TargetInv' /\ BeforeInv'
  BY <1>1, <1>2, <1>3, WriteRest DEF IInv, TypeOK
<1>5. GrantInv'
  BY <1>3 DEF IInv, TypeOK, GrantInv, RemovedHasNoGrant, Authorizes, Writes, Answers, Edit
<1> QED BY <1>1, <1>2, <1>3, <1>4, <1>5, WriteKeeps DEF IInv

LEMMA SetGrantsStep ==
  ASSUME IInv, NEW t \in Threads, SetGrants(t)
  PROVE  IInv'
<1> DEFINE after == counter[Project] + 1
<1>1. /\ req[t].entity = Project /\ Project \in Entities /\ counter[Project] \in Nat
      /\ counter[Project] # None /\ ~removed
  BY DEF SetGrants, IInv, TargetInv, TypeOK, Acceptable, Exists, Entities
<1>2. AppliesTo(t, Project, after, after) /\ after \in Nat
  BY <1>1 DEF SetGrants, AppliesTo
<1>3. /\ removed' = removed /\ granted' \in BOOLEAN
      /\ allowed' = IF granted' THEN {u \in Threads : pc[u] # "idle"} ELSE allowed
  BY DEF SetGrants
<1>4. TypeOK' /\ TargetInv' /\ BeforeInv'
  BY <1>1, <1>2, <1>3, WriteRest DEF IInv, TypeOK
<1>5. GrantInv'
  <2>1. \A u \in Threads : /\ req'[u] = req[u] /\ (pc'[u] # "idle" => pc[u] # "idle")
                           /\ (pc'[u] = "transact" => pc[u] = "transact")
    BY DEF SetGrants, Writes, Answers, IInv, TypeOK
  <2> QED BY <1>1, <1>3, <2>1 DEF IInv, GrantInv, RemovedHasNoGrant, Authorizes
<1> QED BY <1>1, <1>2, <1>3, <1>4, <1>5, WriteKeeps DEF IInv

\* The counter the removal reports is right because its client's expected
\* counter is at most the one read before, which is at most the row's.
LEMMA RemoveStep ==
  ASSUME IInv, NEW t \in Threads, Remove(t)
  PROVE  IInv'
<1> DEFINE after == counter[Project] + 1
           reported == before[t] + 1
<1>1. /\ req[t].entity = Project /\ Project \in Entities /\ counter[Project] \in Nat
      /\ counter[Project] # None
  BY DEF Remove, IInv, TargetInv, TypeOK, Acceptable, Exists, Entities
<1>2. before[t] \in Nat /\ before[t] = counter[Project]
  <2>1. req[t].expected = counter[Project]
    BY <1>1 DEF Remove, Acceptable, Counted
  <2>2. before[t] \in Nat /\ req[t].expected <= before[t] /\ before[t] <= counter[Project]
    BY DEF Remove, IInv, BeforeInv
  <2> QED BY <1>1, <2>1, <2>2
<1>3. AppliesTo(t, Project, after, reported) /\ after \in Nat /\ reported \in Nat
  BY <1>1, <1>2 DEF Remove, AppliesTo
<1>4. removed' = TRUE /\ granted' = FALSE /\ allowed' = allowed
  BY DEF Remove
<1>5. TypeOK' /\ TargetInv' /\ BeforeInv'
  BY <1>1, <1>3, <1>4, WriteRest DEF IInv, TypeOK
<1>6. GrantInv'
  <2>1. \A u \in Threads : req'[u] = req[u] /\ (pc'[u] = "transact" => pc[u] = "transact")
    BY DEF Remove, Writes, Answers, IInv, TypeOK
  <2> QED BY <1>4, <2>1 DEF IInv, GrantInv, RemovedHasNoGrant, Authorizes
<1> QED BY <1>1, <1>3, <1>4, <1>5, <1>6, WriteKeeps DEF IInv

LEMMA NextInv == IInv /\ [Next]_vars => IInv'
<1> SUFFICES ASSUME IInv, [Next]_vars PROVE IInv'
  OBVIOUS
<1>1. CASE UNCHANGED vars
  BY <1>1 DEF vars, IInv, TypeOK, TargetInv, AnswerInv, LedgerInv, CounterInv, GrantInv, BeforeInv,
     RemovedHasNoGrant, Authorizes, Matches, NoLostUpdate, ReportedCounter, AppliedUnderGrant
<1>2. ASSUME NEW t \in Threads, Serve(t) PROVE IInv'
  BY <1>2, QuietSteps, ReturnStep, CreateStep, EditStep, SetGrantsStep, RemoveStep DEF Serve
<1>3. ASSUME NEW t \in Threads, NEW m \in Envelope, Send(t, m) PROVE IInv'
  BY <1>3, SendStep
<1>4. CASE Crash
  BY <1>4, ReturnStep
<1> QED BY <1>1, <1>2, <1>3, <1>4 DEF Next

\* The ledger only gets the record of an operation that had none.
LEMMA LedgerGrows ==
  ASSUME IInv, [Next]_vars
  PROVE  UNCHANGED ledger \/ \E o \in Operations : Once!TakeEffect(o)
<1>1. ASSUME NEW t \in Threads, NEW e \in Entities, NEW after, NEW reported \in Nat,
             pc[t] = "transact", Acceptable(req[t]), Writes(t, e, after, reported)
      PROVE  \E o \in Operations : Once!TakeEffect(o)
  <2> DEFINE m == req[t]
             record == [kind |-> m.kind, entity |-> e, body |-> m.body, counter |-> reported]
  <2>1. m \in Envelope /\ m.op \in Operations /\ ledger[m.op] = None
    BY <1>1, TransactFacts
  <2>2. record \in Record
    BY <1>1, <2>1 DEF Envelope, Record
  <2>3. ledger' = [ledger EXCEPT ![m.op] = record]
    BY <1>1 DEF Writes
  <2> HIDE DEF record
  <2>4. ledger'[m.op] = record
    BY <2>1, <2>3 DEF IInv, TypeOK
  <2>5. Once!TakeEffect(m.op)
    BY <2>1, <2>2, <2>3, <2>4 DEF Once!TakeEffect
  <2> QED BY <2>1, <2>5
<1>2. CASE UNCHANGED vars
  BY <1>2 DEF vars
<1>3. ASSUME NEW t \in Threads, Serve(t)
      PROVE  UNCHANGED ledger \/ \E o \in Operations : Once!TakeEffect(o)
  <2>1. CASE ReplayRemoval(t) \/ ReplayFirst(t)
    BY <2>1 DEF ReplayRemoval, ReplayFirst, Replay, Moves
  <2>2. CASE RequireExists(t) \/ Authorize(t) \/ Refuse(t) \/ Raise(t) \/ Reply(t)
    BY <2>2 DEF RequireExists, Authorize, Refuse, Raise, Reply, Fails, Moves
  <2>3. CASE Create(t)
    <3>1. PICK d \in Documents : Writes(t, d, 0, 0)
      BY <2>3 DEF Create
    <3> QED BY <1>1, <2>3, <3>1 DEF Create, Entities
  <2>4. CASE Edit(t)
    <3>1. req[t].entity \in Entities /\ counter[req[t].entity] + 1 \in Nat
      BY <2>4 DEF Edit, IInv, TargetInv, TypeOK, Acceptable, Exists, Entities
    <3> QED BY <1>1, <2>4, <3>1 DEF Edit
  <2>5. CASE SetGrants(t)
    <3>1. Project \in Entities /\ counter[Project] + 1 \in Nat
      BY DEF IInv, TypeOK, Entities
    <3> QED BY <1>1, <2>5, <3>1 DEF SetGrants
  <2>6. CASE Remove(t)
    <3>1. Project \in Entities /\ before[t] + 1 \in Nat
      BY <2>6 DEF IInv, TypeOK, Entities, Remove, BeforeInv
    <3> QED BY <1>1, <2>6, <3>1 DEF Remove
  <2> QED BY <1>3, <2>1, <2>2, <2>3, <2>4, <2>5, <2>6 DEF Serve
<1>4. CASE Crash \/ \E t \in Threads, m \in Envelope : Send(t, m)
  BY <1>4 DEF Crash, Send
<1> QED BY <1>2, <1>3, <1>4 DEF Next

LEMMA Simulation ==
  ASSUME IInv, IInv', [Next]_vars
  PROVE  Once!Next
<1>1. UNCHANGED ledger \/ \E o \in Operations : Once!TakeEffect(o)
  BY LedgerGrows
<1>2. Once!Told'
  BY DEF IInv, AnswerInv, TypeOK, Told, Envelope, Matches, Once!Told
<1> QED BY <1>1, <1>2 DEF Once!Next

LEMMA InitSimulation == Init => Once!Init
BY DEF Init, Told, Once!Init

-----------------------------------------------------------------------------
(* Retries. *)

\* A retry goes no further than the look at the ledger that answers it.
RetryInv ==
  \A t \in retries :
    /\ pc[t] # "idle"
    /\ req[t].kind # "grants" =>
         /\ pc[t] \in {"recorded", "replay", "reply"}
         /\ Matches(ledger[req[t].op], req[t])
         /\ pc[t] = "reply" => answer[t] = ledger[req[t].op]

LEMMA RetryStep ==
  ASSUME IInv, RetryInv, [Next]_vars
  PROVE  RetryInv'
<1>0. TypeOK
  BY DEF IInv
<1>1. \A o \in Operations : ledger[o] # None => ledger'[o] = ledger[o]
  <2>1. CASE UNCHANGED ledger
    BY <2>1
  <2>2. ASSUME NEW o \in Operations, Once!TakeEffect(o)
        PROVE  \A p \in Operations : ledger[p] # None => ledger'[p] = ledger[p]
    BY <1>0, <2>2 DEF Once!TakeEffect, TypeOK
  <2> QED BY <2>1, <2>2, LedgerGrows
<1>2. \A u \in retries : u \in Threads /\ req[u] \in Envelope /\ req[u].op \in Operations
  BY <1>0 DEF TypeOK, RetryInv, Envelope
<1>3. ASSUME NEW u \in retries, pc'[u] = pc[u], req'[u] = req[u], answer'[u] = answer[u]
      PROVE  /\ pc'[u] # "idle"
             /\ req'[u].kind # "grants" =>
                  /\ pc'[u] \in {"recorded", "replay", "reply"}
                  /\ Matches(ledger'[req'[u].op], req'[u])
                  /\ pc'[u] = "reply" => answer'[u] = ledger'[req'[u].op]
  BY <1>1, <1>2, <1>3 DEF RetryInv, Matches
<1>4. CASE UNCHANGED vars
  BY <1>3, <1>4 DEF vars, RetryInv
<1>5. CASE Crash
  BY <1>5 DEF Crash, RetryInv
<1>6. ASSUME NEW t \in Threads, NEW m \in Envelope, Send(t, m) PROVE RetryInv'
  <2>1. t \notin retries
    BY <1>6 DEF Send, RetryInv
  <2>2. /\ pc'[t] = Entry(m.kind) /\ req'[t] = m /\ UNCHANGED ledger
        /\ \A u \in Threads \ {t} : pc'[u] = pc[u] /\ req'[u] = req[u] /\ answer'[u] = answer[u]
        /\ retries' \subseteq retries \cup {t}
        /\ t \in retries' => Matches(ledger[m.op], m)
    BY <1>0, <1>6, <2>1 DEF Send, TypeOK
  <2>3. /\ Entry(m.kind) \in {"exists", "recorded", "replay"}
        /\ m.kind # "grants" => Entry(m.kind) \in {"recorded", "replay"}
    BY DEF Entry
  <2> QED BY <1>2, <1>3, <2>1, <2>2, <2>3 DEF RetryInv
<1>7. ASSUME NEW t \in Threads, Serve(t) PROVE RetryInv'
  <2>1. /\ \A u \in Threads \ {t} : pc'[u] = pc[u] /\ req'[u] = req[u] /\ answer'[u] = answer[u]
        /\ retries' \subseteq retries
        /\ req'[t] = req[t] \/ t \notin retries'
    BY <1>0, <1>7 DEF Serve, ReplayRemoval, ReplayFirst, Replay, RequireExists, Authorize, Refuse,
       Raise, Create, Edit, SetGrants, Remove, Reply, Writes, Fails, Answers, Moves, TypeOK
  <2>2. ASSUME t \in retries'
        PROVE  /\ pc'[t] # "idle"
               /\ req[t].kind # "grants" => pc'[t] = "reply" /\ answer'[t] = ledger[req[t].op]
    <3>1. t \in retries /\ ~Reply(t)
      BY <2>1, <2>2 DEF Reply
    <3>2. CASE ReplayRemoval(t) \/ ReplayFirst(t)
      BY <1>0, <3>1, <3>2 DEF ReplayRemoval, ReplayFirst, Replay, Answers, Moves, TypeOK, RetryInv,
         Matches
    <3>3. CASE RequireExists(t) \/ Authorize(t) \/ Refuse(t) \/ Raise(t) \/ Create(t) \/ Edit(t)
               \/ SetGrants(t) \/ Remove(t)
      <4>1. pc[t] \in {"exists", "authorize", "transact"}
        BY <3>3 DEF RequireExists, Authorize, Refuse, Raise, Create, Edit, SetGrants, Remove
      <4>2. req[t].kind = "grants"
        BY <3>1, <4>1 DEF RetryInv
      <4>3. pc'[t] # "idle"
        BY <1>0, <3>3 DEF RequireExists, Authorize, Refuse, Raise, Create, Edit, SetGrants, Remove,
           Writes, Fails, Answers, Moves, TypeOK
      <4> QED BY <4>2, <4>3
    <3> QED BY <1>7, <3>1, <3>2, <3>3 DEF Serve
  <2> QED BY <1>1, <1>2, <1>3, <2>1, <2>2 DEF RetryInv, Matches
<1> QED BY <1>4, <1>5, <1>6, <1>7 DEF Next

-----------------------------------------------------------------------------
(* The theorems. *)

\* The inductive invariant holds in every reachable state of the gate.
THEOREM InvariantHolds == Spec => []IInv
<1> QED BY InitInv, NextInv, PTL DEF Spec

\* The variables keep their types: a row has a counter, an operation at most
\* one record.
THEOREM TypeCorrect == Spec => []TypeOK
<1>1. IInv => TypeOK
  BY DEF IInv
<1> QED BY <1>1, InvariantHolds, PTL

\* MutationGate.existing loses no update, however many clients race.
THEOREM UpdatesAreKept == Spec => []NoLostUpdate
<1>1. IInv => NoLostUpdate
  BY DEF IInv
<1> QED BY <1>1, InvariantHolds, PTL

\* The counter a compared write reports is its row's, remove_project's
\* included.
THEOREM CountersAreReported == Spec => []ReportedCounter
<1>1. IInv => ReportedCounter
  BY DEF IInv
<1> QED BY <1>1, InvariantHolds, PTL

\* A write that needs the grant saw it in force while it was served.
THEOREM GrantIsRespected == Spec => []AppliedUnderGrant
<1>1. IInv => AppliedUnderGrant
  BY DEF IInv
<1> QED BY <1>1, InvariantHolds, PTL

\* A removed project holds no grant.
THEOREM RemovalRevokes == Spec => []RemovedHasNoGrant
<1>1. IInv => RemovedHasNoGrant
  BY DEF IInv, GrantInv
<1> QED BY <1>1, InvariantHolds, PTL

\* An operation id stands for one write, and an answer is about the write its
\* request asked for.
THEOREM AnswersAreOwn == Spec => []ToldItsOwn
<1>1. IInv => ToldItsOwn
  <2> SUFFICES ASSUME IInv PROVE ToldItsOwn
    OBVIOUS
  <2>1. \A v, w \in writes : v.op = w.op => v = w
    BY DEF IInv, LedgerInv
  <2>2. ASSUME NEW t \in Threads, answer[t] # None
        PROVE  \E w \in writes : /\ w.op = req[t].op /\ w.kind = req[t].kind /\ w.body = req[t].body
                                /\ req[t].entity \in {w.entity, None}
    <3>1. /\ pc[t] = "reply" /\ ledger[req[t].op] # None
          /\ Matches(ledger[req[t].op], req[t])
      BY <2>2 DEF IInv, AnswerInv, Matches
    <3>2. req[t].op \in Operations
      BY <3>1 DEF IInv, TypeOK, Envelope
    <3>3. PICK w \in writes : w.op = req[t].op
      BY <3>1, <3>2 DEF IInv, LedgerInv
    <3>4. ledger[w.op].kind = w.kind /\ ledger[w.op].entity = w.entity /\ ledger[w.op].body = w.body
      BY DEF IInv, LedgerInv
    <3> QED BY <3>1, <3>3, <3>4 DEF Matches
  <2> QED BY <2>1, <2>2 DEF ToldItsOwn
<1> QED BY <1>1, InvariantHolds, PTL

\* The retry of a write on record is answered with the record, whatever became
\* of the project since; set_grants and its like are left out, which ask for the project first.
THEOREM RetriesAreAnswered == Spec => []GateRetries
<1>1. Init => RetryInv
  BY DEF Init, RetryInv
<1>2. RetryInv => GateRetries
  BY DEF RetryInv, GateRetries, RetriesOf
<1> QED BY <1>1, <1>2, RetryStep, InvariantHolds, PTL DEF Spec

\* The gate implements ExactlyOnce.
THEOREM TakesEffectOnce == Spec => AtMostOnce
<1>1. IInv /\ IInv' /\ [Next]_vars => [Once!Next]_<<ledger, Told>>
  BY Simulation
<1> QED BY <1>1, InitSimulation, InvariantHolds, PTL DEF Spec, AtMostOnce, Once!Spec

=============================================================================
