------------------------- MODULE WorkRequest_proofs -------------------------
(***************************************************************************)
(* What WorkRequest promises for every number of requests, threads,        *)
(* operations and restarts.                                                *)
(***************************************************************************)
EXTENDS WorkRequest, TLAPS

USE DEF table, store, session, process

\* A message names an attempt that exists, and only a report about one is
\* looked up in the ledger and asked for its lease.
MessageInv ==
  /\ \A m \in reports : m.kind # "claim" => m.attempt \in 1 .. Latest(m.request)
  /\ \A t \in Threads : pc[t] # "idle" =>
       IF msg[t].kind = "claim" THEN pc[t] = "transact"
       ELSE msg[t].attempt \in 1 .. Latest(msg[t].request)

\* No message expects a counter that is still to come.
CounterInv ==
  /\ \A m \in reports : m.expected <= counter[m.request]
  /\ \A t \in Threads : pc[t] # "idle" => msg[t].expected <= counter[msg[t].request]

\* A message that the gate would accept was permitted in the state the request
\* is still in.
AuthorityInv ==
  \A t \in Threads :
    pc[t] # "idle" /\ msg[t].expected = counter[msg[t].request] =>
      /\ msg[t].capability = capability[msg[t].request]
      /\ state[msg[t].request] \notin Over

\* Only capabilities that were minted are in use, and the one a waiting request
\* offers stands for no attempt yet.
CapabilityInv ==
  \A r \in Requests :
    /\ capability[r] <= minted
    /\ \A i \in 1 .. Latest(r) : attempts[r][i].capability <= minted
    /\ state[r] = "waiting-for-agent" =>
         \A i \in 1 .. Latest(r) : attempts[r][i].capability # capability[r]

\* A retry waits for its answer from the ledger, which still has its operation.
RetryInv ==
  \A t \in retries : pc[t] \in {"replay", "transact"} /\ msg[t].op \in ledger

IInv ==
  /\ TypeOK /\ MessageInv /\ CounterInv /\ AuthorityInv /\ CapabilityInv /\ RetryInv
  /\ OneAttemptPerCapability /\ ClaimIsOffered

-----------------------------------------------------------------------------
(* What a step may do to the state, as the parts of the invariant see it. *)

\* No attempt appears, and each stands for the capability it was claimed under.
SameAttempts ==
  /\ attempts' \in [Requests -> Seq(Attempt)]
  /\ \A r \in Requests :
       /\ Len(attempts'[r]) = Len(attempts[r])
       /\ \A i \in 1 .. Len(attempts[r]) : attempts'[r][i].capability = attempts[r][i].capability

\* Attempts are only added.
AttemptsGrow ==
  /\ attempts' \in [Requests -> Seq(Attempt)]
  /\ \A r \in Requests : Len(attempts[r]) <= Len(attempts'[r])

\* A thread goes on with the message it holds or is done with it, and only a
\* message a thread holds is put on record.
ThreadsGoOn ==
  /\ \A t \in Threads : pc'[t] # "idle" =>
       /\ pc[t] # "idle" /\ msg'[t] = msg[t]
       /\ msg[t].kind = "claim" => pc'[t] = pc[t]
  /\ \A m \in reports' : m \in reports \/ \E t \in Threads : pc[t] # "idle" /\ m = msg[t]

\* What takes the authority of an agent away counts the request up.
AuthorityIsCounted ==
  \A r \in Requests :
    /\ counter[r] <= counter'[r]
    /\ counter'[r] = counter[r] =>
         capability'[r] = capability[r] /\ (state'[r] \in Over => state[r] \in Over)

\* No capability is issued or honoured again, and the file of a waiting request
\* stays where its capability is honoured.
NothingIssued ==
  /\ minted <= minted' /\ live' \subseteq live
  /\ \A r \in Requests :
       /\ capability'[r] = capability[r]
       /\ state'[r] = "waiting-for-agent" =>
            state[r] = "waiting-for-agent" /\ (live' = {} \/ claimFile'[r] = claimFile[r])

\* A retry that is still under way has not moved.
RetriesWait ==
  /\ ledger \subseteq ledger'
  /\ \A t \in retries' : t \in retries /\ pc'[t] = pc[t] /\ msg'[t] = msg[t]

\* Changing one field of an attempt other than its capability.
LEMMA Revision ==
  ASSUME TypeOK,
         NEW r \in Requests, NEW i \in 1 .. Len(attempts[r]), NEW a \in Attempt,
         a.capability = attempts[r][i].capability,
         attempts' = [attempts EXCEPT ![r] = [@ EXCEPT ![i] = a]]
  PROVE  SameAttempts
<1> DEFINE f == attempts[r]
           g == [f EXCEPT ![i] = a]
<1>1. f \in Seq(Attempt)
  BY DEF TypeOK
<1>2. /\ g \in Seq(Attempt) /\ Len(g) = Len(f)
      /\ \A j \in 1 .. Len(f) : g[j] = IF j = i THEN a ELSE f[j]
  BY <1>1
<1>3. attempts' = [attempts EXCEPT ![r] = g]
  OBVIOUS
<1>4. \A s \in Requests : attempts'[s] = IF s = r THEN g ELSE attempts[s]
  BY <1>3 DEF TypeOK
<1>5. attempts' \in [Requests -> Seq(Attempt)]
  BY <1>2, <1>3 DEF TypeOK
<1> QED
  BY <1>2, <1>4, <1>5 DEF SameAttempts

\* A new state for one attempt is such a change.
LEMMA StateRevision ==
  ASSUME TypeOK,
         NEW r \in Requests, NEW i \in 1 .. Len(attempts[r]), NEW next \in AttemptStates,
         attempts' = [attempts EXCEPT ![r][i].state = next]
  PROVE  SameAttempts
<1> DEFINE a == [attempts[r][i] EXCEPT !.state = next]
<1>1. attempts[r][i] \in Attempt
  BY DEF TypeOK
<1>2. a \in Attempt /\ a.capability = attempts[r][i].capability
  BY <1>1 DEF Attempt
<1>3. attempts' = [attempts EXCEPT ![r] = [@ EXCEPT ![i] = a]]
  OBVIOUS
<1> QED
  BY <1>2, <1>3, Revision

LEMMA UnchangedAttempts ==
  ASSUME TypeOK, attempts' = attempts
  PROVE  SameAttempts
BY DEF TypeOK, SameAttempts

\* The messages under way and on record stay as they should be.
LEMMA MessagesKept ==
  ASSUME IInv, TypeOK', AttemptsGrow, ThreadsGoOn, AuthorityIsCounted
  PROVE  MessageInv' /\ CounterInv' /\ AuthorityInv'
<1> USE DEF IInv
<1>1. \A t \in Threads : pc[t] # "idle" => msg[t] \in Message
  BY DEF TypeOK
<1>2. MessageInv'
  <2>1. \A r \in Requests : /\ Len(attempts[r]) \in Nat /\ Len(attempts'[r]) \in Nat
                            /\ Len(attempts[r]) <= Len(attempts'[r])
    BY DEF TypeOK, AttemptsGrow
  <2>2. \A m \in reports' : m.kind # "claim" => m.attempt \in 1 .. Len(attempts'[m.request])
    <3> SUFFICES ASSUME NEW m \in reports', m.kind # "claim"
                 PROVE  m.attempt \in 1 .. Len(attempts'[m.request])
      OBVIOUS
    <3>1. m \in Message
      BY <1>1 DEF ThreadsGoOn, TypeOK
    <3>2. m.attempt \in 1 .. Len(attempts[m.request])
      BY DEF ThreadsGoOn, MessageInv, Latest
    <3>3. m.request \in Requests /\ m.attempt \in Nat
      BY <3>1 DEF Message
    <3> QED
      BY <2>1, <3>2, <3>3
  <2>3. ASSUME NEW t \in Threads, pc'[t] # "idle"
        PROVE  IF msg'[t].kind = "claim" THEN pc'[t] = "transact"
               ELSE msg'[t].attempt \in 1 .. Len(attempts'[msg'[t].request])
    <3>1. pc[t] # "idle" /\ msg'[t] = msg[t] /\ msg[t].request \in Requests
      BY <1>1, <2>3 DEF ThreadsGoOn, Message
    <3> QED
      BY <2>1, <2>3, <3>1 DEF ThreadsGoOn, MessageInv, Latest
  <2> QED
    BY <2>2, <2>3 DEF MessageInv, Latest
<1>3. CounterInv'
  <2>1. \A r \in Requests : counter[r] \in Nat /\ counter'[r] \in Nat /\ counter[r] <= counter'[r]
    BY DEF TypeOK, AuthorityIsCounted
  <2>2. \A m \in reports' : m \in Message /\ m.expected <= counter[m.request]
    BY <1>1 DEF ThreadsGoOn, CounterInv, TypeOK
  <2> QED
    BY <1>1, <2>1, <2>2 DEF CounterInv, ThreadsGoOn, Message
<1>4. AuthorityInv'
  <2> SUFFICES ASSUME NEW t \in Threads, pc'[t] # "idle",
                      msg'[t].expected = counter'[msg'[t].request]
               PROVE  /\ msg'[t].capability = capability'[msg'[t].request]
                      /\ state'[msg'[t].request] \notin Over
    BY DEF AuthorityInv
  <2>1. pc[t] # "idle" /\ msg'[t] = msg[t] /\ msg[t] \in Message
    BY <1>1 DEF ThreadsGoOn
  <2>2. msg[t].request \in Requests /\ msg[t].expected \in Nat
    BY <2>1 DEF Message
  <2>3. msg[t].expected <= counter[msg[t].request]
    BY <2>1 DEF CounterInv
  <2>4. counter'[msg[t].request] = counter[msg[t].request]
    BY <2>1, <2>2, <2>3 DEF AuthorityIsCounted, TypeOK
  <2> QED
    BY <2>1, <2>2, <2>4 DEF AuthorityIsCounted, AuthorityInv
<1> QED
  BY <1>2, <1>3, <1>4

\* A step that issues no capability keeps what is said of them.
LEMMA CredentialsKept ==
  ASSUME IInv, TypeOK', SameAttempts, NothingIssued
  PROVE  CapabilityInv' /\ OneAttemptPerCapability' /\ ClaimIsOffered'
<1> USE DEF IInv
<1>1. \A r \in Requests : Latest(r)' = Latest(r)
  BY DEF SameAttempts, Latest
<1>2. \A r \in Requests : \A i \in 1 .. Latest(r) :
        /\ attempts[r][i] \in Attempt
        /\ attempts'[r][i].capability = attempts[r][i].capability
  BY DEF SameAttempts, Latest, TypeOK
<1>3. minted \in Nat /\ minted' \in Nat
  BY DEF TypeOK
<1>4. CapabilityInv'
  <2> SUFFICES ASSUME NEW r \in Requests
               PROVE  /\ capability'[r] <= minted'
                      /\ \A i \in 1 .. Len(attempts'[r]) : attempts'[r][i].capability <= minted'
                      /\ state'[r] = "waiting-for-agent" =>
                           \A i \in 1 .. Len(attempts'[r]) :
                             attempts'[r][i].capability # capability'[r]
    BY DEF CapabilityInv, Latest
  <2>1. capability'[r] = capability[r] /\ minted <= minted' /\ capability[r] \in Nat
    BY DEF NothingIssued, TypeOK
  <2>2. \A i \in 1 .. Latest(r) : attempts[r][i].capability \in Nat
    BY <1>2 DEF Attempt
  <2> QED
    BY <1>1, <1>2, <1>3, <2>1, <2>2 DEF CapabilityInv, NothingIssued, Latest
<1>5. OneAttemptPerCapability'
  BY <1>1, <1>2 DEF OneAttemptPerCapability
<1>6. ClaimIsOffered'
  BY DEF ClaimIsOffered, NothingIssued
<1> QED
  BY <1>4, <1>5, <1>6

LEMMA RetriesKept ==
  ASSUME IInv, RetriesWait
  PROVE  RetryInv'
BY DEF IInv, RetryInv, RetriesWait

\* What all parts of the invariant together ask of a step that issues nothing.
LEMMA Quiet ==
  ASSUME IInv, TypeOK', SameAttempts, ThreadsGoOn, AuthorityIsCounted, NothingIssued, RetriesWait
  PROVE  IInv'
<1>1. AttemptsGrow
  <2>1. \A r \in Requests : Len(attempts[r]) \in Nat
    BY DEF IInv, TypeOK
  <2> QED
    BY <2>1 DEF SameAttempts, AttemptsGrow
<1> QED
  BY <1>1, MessagesKept, CredentialsKept, RetriesKept DEF IInv

-----------------------------------------------------------------------------
(* The maintainer. *)

LEMMA LatestRevision ==
  ASSUME TypeOK, NEW r \in Requests, NEW from, NEW next \in AttemptStates,
         LatestBecomes(r, from, next)
  PROVE  SameAttempts
<1>1. attempts[r] \in Seq(Attempt)
  BY DEF TypeOK
<1>2. CASE attempts[r] # << >> /\ attempts[r][Latest(r)].state \in from
  <2>1. Latest(r) \in 1 .. Len(attempts[r])
    BY <1>1, <1>2 DEF Latest
  <2> QED
    BY <1>2, <2>1, StateRevision DEF LatestBecomes
<1>3. CASE ~ (attempts[r] # << >> /\ attempts[r][Latest(r)].state \in from)
  BY <1>3, UnchangedAttempts DEF LatestBecomes
<1> QED
  BY <1>2, <1>3

\* A write of the maintainer that mints nothing.
LEMMA WriteStep ==
  ASSUME IInv, SameAttempts, NEW r \in Requests, NEW op \in Operations,
         NEW next \in RequestStates \ {"waiting-for-agent"}, NEW bump \in {0, 1},
         Records(r, op, next, bump),
         bump = 0 => next \notin Over,
         claimFile' \in [Requests -> Nat],
         \A s \in Requests \ {r} : claimFile'[s] = claimFile[s],
         UNCHANGED <<capability, late, minted, live, boot, process, retries>>
  PROVE  IInv'
<1> USE DEF IInv, Records
<1>1. TypeOK'
  <2>1. counter[r] + bump \in Nat /\ next \in RequestStates
    BY DEF TypeOK
  <2>2. state' \in [Requests -> RequestStates] /\ counter' \in [Requests -> Nat]
    BY <2>1 DEF TypeOK
  <2>3. ledger' \subseteq Operations /\ reports' \subseteq Message
    BY DEF TypeOK
  <2> QED
    BY <2>2, <2>3 DEF TypeOK, SameAttempts
<1>2. ThreadsGoOn
  BY DEF ThreadsGoOn
<1>3. AuthorityIsCounted
  BY DEF AuthorityIsCounted, TypeOK
<1>4. NothingIssued
  <2>1. \A s \in Requests : state'[s] = IF s = r THEN next ELSE state[s]
    BY DEF TypeOK
  <2>2. minted \in Nat
    BY DEF TypeOK
  <2> QED
    BY <2>1, <2>2 DEF NothingIssued
<1>5. RetriesWait
  BY DEF RetriesWait
<1> QED
  BY <1>1, <1>2, <1>3, <1>4, <1>5, Quiet

LEMMA CreateStep ==
  ASSUME IInv, NEW r \in Requests, NEW op \in Operations, Create(r, op)
  PROVE  IInv'
<1>1. SameAttempts
  BY UnchangedAttempts DEF Create, IInv
<1> QED
  BY <1>1, WriteStep DEF Create, RequestStates, Over, IInv, TypeOK

LEMMA CancelStep ==
  ASSUME IInv, NEW r \in Requests, NEW op \in Operations, Cancel(r, op)
  PROVE  IInv'
<1>1. SameAttempts
  BY LatestRevision DEF Cancel, IInv, AttemptStates
<1> QED
  BY <1>1, WriteStep DEF Cancel, RequestStates, IInv, TypeOK

LEMMA ConfirmCancelledStep ==
  ASSUME IInv, NEW r \in Requests, NEW op \in Operations, ConfirmCancelled(r, op)
  PROVE  IInv'
<1>1. SameAttempts
  BY LatestRevision DEF ConfirmCancelled, IInv, AttemptStates
<1>2. /\ claimFile' \in [Requests -> Nat]
      /\ \A s \in Requests \ {r} : claimFile'[s] = claimFile[s]
  BY DEF ConfirmCancelled, IInv, TypeOK
<1> QED
  BY <1>1, <1>2, WriteStep DEF ConfirmCancelled, RequestStates

LEMMA RejectStep ==
  ASSUME IInv, NEW r \in Requests, NEW op \in Operations, Reject(r, op)
  PROVE  IInv'
<1>1. SameAttempts
  BY LatestRevision DEF Reject, IInv, AttemptStates
<1>2. /\ claimFile' \in [Requests -> Nat]
      /\ \A s \in Requests \ {r} : claimFile'[s] = claimFile[s]
  BY DEF Reject, IInv, TypeOK
<1> QED
  BY <1>1, <1>2, WriteStep DEF Reject, RequestStates

\* Consent and Retry.
LEMMA MintingStep ==
  ASSUME IInv, NEW r \in Requests, NEW op \in Operations,
         Records(r, op, "waiting-for-agent", 1), Mints(r),
         UNCHANGED <<late, attempts, process, retries>>
  PROVE  IInv'
<1> USE DEF IInv, Records, Mints
<1>1. minted \in Nat /\ capability \in [Requests -> Nat]
  BY DEF TypeOK
<1>2. TypeOK'
  BY <1>1 DEF TypeOK, RequestStates
<1>3. AttemptsGrow
  BY DEF AttemptsGrow, TypeOK
<1>4. ThreadsGoOn
  BY DEF ThreadsGoOn
<1>5. AuthorityIsCounted
  BY DEF AuthorityIsCounted, TypeOK, Over
<1>6. \A s \in Requests : \A i \in 1 .. Latest(s) : attempts[s][i].capability \in Nat
  <2>1. \A s \in Requests : \A i \in 1 .. Latest(s) : attempts[s][i] \in Attempt
    BY DEF TypeOK, Latest
  <2> QED
    BY <2>1 DEF Attempt
<1>7. CapabilityInv'
  <2> USE DEF IInv
  <2>1. \A s \in Requests : /\ capability'[s] = IF s = r THEN minted + 1 ELSE capability[s]
                            /\ state'[s] = IF s = r THEN "waiting-for-agent" ELSE state[s]
                            /\ capability[s] \in Nat
    BY DEF TypeOK
  <2> QED
    BY <1>1, <1>6, <2>1, SMTT(20) DEF CapabilityInv, Latest
<1>8. OneAttemptPerCapability'
  BY DEF OneAttemptPerCapability, Latest
<1>9. ClaimIsOffered'
  BY <1>1 DEF ClaimIsOffered, CapabilityInv, TypeOK
<1>10. RetriesWait
  BY DEF RetriesWait
<1> QED
  BY <1>2, <1>3, <1>4, <1>5, <1>7, <1>8, <1>9, <1>10, MessagesKept, RetriesKept

LEMMA MaintainerStep ==
  ASSUME IInv, Maintainer
  PROVE  IInv'
<1>1. PICK r \in Requests, op \in Operations :
        \/ Create(r, op) \/ Consent(r, op) \/ Retry(r, op)
        \/ Cancel(r, op) \/ ConfirmCancelled(r, op) \/ Reject(r, op)
  BY DEF Maintainer
<1>2. CASE Consent(r, op) \/ Retry(r, op)
  BY <1>2, MintingStep DEF Consent, Retry
<1> QED
  BY <1>1, <1>2, CreateStep, CancelStep, ConfirmCancelledStep, RejectStep

-----------------------------------------------------------------------------
(* The agent. *)

\* What is said of threads and their messages.
ThreadTypes ==
  /\ pc \in [Threads -> Positions] /\ msg \in [Threads -> Message \cup {NoMessage}]
  /\ \A t \in Threads : pc[t] # "idle" => msg[t] \in Message
  /\ retries \subseteq Threads

\* A thread that is done with its message, on record now or not.
LEMMA ReturnFacts ==
  ASSUME TypeOK, NEW t \in Threads, pc[t] # "idle", Returns(t),
         reports' \subseteq reports \cup {msg[t]}, ledger \subseteq ledger'
  PROVE  ThreadsGoOn /\ RetriesWait /\ ThreadTypes'
<1>1. \A u \in Threads : /\ pc'[u] = IF u = t THEN "idle" ELSE pc[u]
                         /\ msg'[u] = IF u = t THEN NoMessage ELSE msg[u]
  BY DEF Returns, TypeOK
<1>2. ThreadsGoOn
  BY <1>1 DEF ThreadsGoOn
<1>3. RetriesWait
  BY <1>1 DEF RetriesWait, Returns, TypeOK
<1>4. pc' \in [Threads -> Positions] /\ msg' \in [Threads -> Message \cup {NoMessage}]
  BY DEF Returns, TypeOK, Positions
<1> QED
  BY <1>1, <1>2, <1>3, <1>4 DEF ThreadTypes, Returns, TypeOK

\* A thread that keeps its message, and is no retry where it moves.
LEMMA GoFacts ==
  ASSUME TypeOK, NEW t \in Threads, pc[t] # "idle", NEW position \in Positions,
         pc' = [pc EXCEPT ![t] = position], msg[t].kind # "claim", t \notin retries,
         UNCHANGED <<msg, retries, table>>
  PROVE  ThreadsGoOn /\ RetriesWait /\ ThreadTypes'
<1>1. \A u \in Threads : pc'[u] = IF u = t THEN position ELSE pc[u]
  BY DEF TypeOK
<1>2. ThreadsGoOn
  BY <1>1 DEF ThreadsGoOn
<1>3. RetriesWait
  BY <1>1 DEF RetriesWait, TypeOK
<1>4. pc' \in [Threads -> Positions]
  BY DEF TypeOK
<1> QED
  BY <1>1, <1>2, <1>3, <1>4 DEF ThreadTypes, TypeOK

\* A step of a thread that leaves the request as it is.
LEMMA AsideStep ==
  ASSUME IInv, SameAttempts, ThreadsGoOn, RetriesWait, ThreadTypes',
         ledger' \subseteq Operations,
         UNCHANGED <<state, counter, capability, late, session>>
  PROVE  IInv'
<1>1. TypeOK'
  <2>1. \A m \in reports' : m \in Message
    BY DEF IInv, TypeOK, ThreadsGoOn
  <2> QED
    BY <2>1 DEF IInv, TypeOK, SameAttempts, ThreadTypes
<1>2. AuthorityIsCounted
  BY DEF AuthorityIsCounted, IInv, TypeOK
<1>3. NothingIssued
  BY DEF NothingIssued, IInv, TypeOK
<1> QED
  BY <1>1, <1>2, <1>3, Quiet

\* A step of a thread that moves its request to another state.
LEMMA RequestStep ==
  ASSUME IInv, SameAttempts, ThreadsGoOn, RetriesWait, ThreadTypes',
         NEW r \in Requests, NEW next \in RequestStates \ {"waiting-for-agent"},
         state' = [state EXCEPT ![r] = next],
         counter' = [counter EXCEPT ![r] = @ + 1],
         ledger' \subseteq Operations,
         UNCHANGED <<capability, late, session>>
  PROVE  IInv'
<1>1. TypeOK'
  <2>1. \A m \in reports' : m \in Message
    BY DEF IInv, TypeOK, ThreadsGoOn
  <2> QED
    BY <2>1 DEF IInv, TypeOK, SameAttempts, ThreadTypes
<1>2. AuthorityIsCounted
  BY DEF AuthorityIsCounted, IInv, TypeOK
<1>3. NothingIssued
  BY DEF NothingIssued, IInv, TypeOK
<1> QED
  BY <1>1, <1>2, <1>3, Quiet

\* Where a thread serves a report on an attempt that exists.
LEMMA ServedFacts ==
  ASSUME IInv, NEW t \in Threads, pc[t] # "idle"
  PROVE  /\ msg[t] \in Message /\ msg[t].request \in Requests /\ msg[t].op \in Operations
         /\ pc[t] \in {"lease", "interrupt", "interrupted"} =>
              msg[t].kind # "claim" /\ t \notin retries
         /\ pc[t] = "replay" => msg[t].kind # "claim"
         /\ msg[t].kind # "claim" => msg[t].attempt \in 1 .. Len(attempts[msg[t].request])
<1>1. msg[t] \in Message
  BY DEF IInv, TypeOK
<1> QED
  BY <1>1 DEF IInv, Message, MessageInv, RetryInv, Latest

LEMMA RefusesStep ==
  ASSUME IInv, NEW t \in Threads, pc[t] # "idle", Refuses(t)
  PROVE  IInv'
<1>1. ThreadsGoOn /\ RetriesWait /\ ThreadTypes'
  BY ReturnFacts DEF Refuses, IInv
<1>2. SameAttempts
  BY UnchangedAttempts DEF Refuses, IInv
<1> QED
  BY <1>1, <1>2, AsideStep DEF Refuses, IInv, TypeOK

LEMMA GoesStep ==
  ASSUME IInv, NEW t \in Threads, pc[t] # "idle", NEW position \in Positions, Goes(t, position),
         msg[t].kind # "claim", t \notin retries
  PROVE  IInv'
<1>1. ThreadsGoOn /\ RetriesWait /\ ThreadTypes'
  BY GoFacts DEF Goes, IInv
<1>2. SameAttempts
  BY UnchangedAttempts DEF Goes, IInv
<1> QED
  BY <1>1, <1>2, AsideStep DEF Goes, IInv, TypeOK

LEMMA InterruptAttemptStep ==
  ASSUME IInv, NEW t \in Threads, InterruptAttempt(t)
  PROVE  IInv'
<1>1. SameAttempts
  BY ServedFacts, StateRevision DEF InterruptAttempt, IInv, AttemptStates
<1>2. ThreadsGoOn /\ RetriesWait /\ ThreadTypes'
  BY ServedFacts, GoFacts DEF InterruptAttempt, IInv, Positions
<1> QED
  BY <1>1, <1>2, AsideStep DEF InterruptAttempt, IInv, TypeOK

LEMMA InterruptRequestStep ==
  ASSUME IInv, NEW t \in Threads, InterruptRequest(t)
  PROVE  IInv'
<1>1. SameAttempts
  BY UnchangedAttempts DEF InterruptRequest, IInv
<1>2. ThreadsGoOn /\ RetriesWait /\ ThreadTypes'
  BY ReturnFacts DEF InterruptRequest, IInv
<1> QED
  BY <1>1, <1>2, ServedFacts, RequestStep
  DEF InterruptRequest, IInv, TypeOK, RequestStates

LEMMA HeartbeatStep ==
  ASSUME IInv, NEW t \in Threads, Heartbeat(t)
  PROVE  IInv'
<1> DEFINE m == msg[t]
           old == attempts[m.request][m.attempt]
           new == [old EXCEPT !.state = "running", !.lease = TRUE, !.boot = boot]
<1>1. pc[t] # "idle"
  BY DEF Heartbeat, Accepts
<1>2. m \in Message /\ m.request \in Requests /\ m.op \in Operations
      /\ m.attempt \in 1 .. Len(attempts[m.request])
  BY <1>1, ServedFacts DEF Heartbeat
<1>3. old \in Attempt
  BY <1>2 DEF IInv, TypeOK
<1>4. new \in Attempt /\ new.capability = old.capability
  BY <1>3 DEF Attempt, AttemptStates, IInv, TypeOK
<1>5. attempts' = [attempts EXCEPT ![m.request] = [@ EXCEPT ![m.attempt] = new]]
  BY DEF Heartbeat
<1>6. SameAttempts
  BY <1>2, <1>4, <1>5, Revision DEF IInv
<1>7. ThreadsGoOn /\ RetriesWait /\ ThreadTypes'
  BY <1>1, ReturnFacts DEF Heartbeat, IInv
<1> QED
  BY <1>2, <1>6, <1>7, AsideStep DEF Heartbeat, IInv, TypeOK

LEMMA EndsStep ==
  ASSUME IInv, NEW t \in Threads, NEW kind \in Kinds \ {"claim"},
         NEW attemptState \in AttemptStates,
         NEW requestState \in RequestStates \ {"waiting-for-agent"},
         Ends(t, kind, attemptState, requestState)
  PROVE  IInv'
<1>1. pc[t] # "idle" /\ msg[t].kind # "claim"
  BY DEF Ends, Accepts
<1>2. /\ msg[t].request \in Requests /\ msg[t].op \in Operations
      /\ msg[t].attempt \in 1 .. Len(attempts[msg[t].request])
  BY <1>1, ServedFacts
<1>3. SameAttempts
  BY <1>2, StateRevision DEF Ends, IInv
<1>4. ThreadsGoOn /\ RetriesWait /\ ThreadTypes'
  BY <1>1, ReturnFacts DEF Ends, IInv
<1>5. ledger' \subseteq Operations
  BY <1>2 DEF Ends, IInv, TypeOK
<1> QED
  BY <1>2, <1>3, <1>4, <1>5, RequestStep DEF Ends

LEMMA ClaimStep ==
  ASSUME IInv, NEW t \in Threads, Claim(t)
  PROVE  IInv'
<1> DEFINE r == msg[t].request
           a == [state |-> "running", capability |-> capability[r], boot |-> boot, lease |-> TRUE]
<1>1. pc[t] # "idle"
  BY DEF Claim, Accepts
<1>2. r \in Requests /\ msg[t].op \in Operations
  BY <1>1, ServedFacts
<1>3. a \in Attempt
  BY <1>2 DEF Attempt, AttemptStates, IInv, TypeOK
<1>4. attempts[r] \in Seq(Attempt)
  BY <1>2 DEF IInv, TypeOK
<1>5. /\ Append(attempts[r], a) \in Seq(Attempt)
      /\ Len(Append(attempts[r], a)) = Len(attempts[r]) + 1
      /\ \A i \in 1 .. Len(attempts[r]) + 1 :
           Append(attempts[r], a)[i] = IF i = Len(attempts[r]) + 1 THEN a ELSE attempts[r][i]
  BY <1>3, <1>4
<1>6. \A s \in Requests : attempts'[s] = IF s = r THEN Append(attempts[r], a) ELSE attempts[s]
  BY <1>2 DEF Claim, IInv, TypeOK
<1>7. attempts' \in [Requests -> Seq(Attempt)]
  BY <1>5 DEF Claim, IInv, TypeOK
<1>8. ThreadsGoOn /\ RetriesWait /\ ThreadTypes'
  BY <1>1, ReturnFacts DEF Claim, IInv
<1>9. TypeOK'
  <2>1. \A m \in reports' : m \in Message
    BY <1>8 DEF IInv, TypeOK, ThreadsGoOn
  <2>2. ledger' \subseteq Operations
    BY <1>2 DEF Claim, IInv, TypeOK
  <2>3. state' \in [Requests -> RequestStates] /\ counter' \in [Requests -> Nat]
    BY <1>2 DEF Claim, IInv, TypeOK, RequestStates
  <2> QED
    BY <1>7, <1>8, <2>1, <2>2, <2>3 DEF Claim, IInv, TypeOK, ThreadTypes
<1>10. \A s \in Requests : /\ Len(attempts[s]) \in Nat
                           /\ Len(attempts'[s]) = IF s = r THEN Len(attempts[r]) + 1
                                                  ELSE Len(attempts[s])
  <2>1. \A s \in Requests : attempts[s] \in Seq(Attempt)
    BY DEF IInv, TypeOK
  <2>2. \A s \in Requests : Len(attempts[s]) \in Nat
    BY <2>1
  <2> QED
    BY <1>5, <1>6, <2>2, Zenon
<1>11. AttemptsGrow
  <2>1. \A s \in Requests : Len(attempts[s]) <= Len(attempts'[s])
    BY <1>10
  <2> QED
    BY <1>7, <2>1 DEF AttemptsGrow
<1>12. AuthorityIsCounted
  BY <1>2 DEF Claim, AuthorityIsCounted, IInv, TypeOK
<1>13. \A s \in Requests : \A i \in 1 .. Len(attempts'[s]) :
         attempts'[s][i] = IF s = r /\ i = Len(attempts[r]) + 1 THEN a ELSE attempts[s][i]
  BY <1>5, <1>6
<1>14. \A s \in Requests : state'[s] = "waiting-for-agent" => s # r /\ state[s] = "waiting-for-agent"
  BY <1>2 DEF Claim, IInv, TypeOK
<1>15. CapabilityInv'
  BY <1>2, <1>10, <1>13, <1>14 DEF Claim, IInv, CapabilityInv, Latest
<1>16. OneAttemptPerCapability'
  <2> SUFFICES ASSUME NEW s \in Requests,
                      NEW i \in 1 .. Len(attempts'[s]), NEW j \in 1 .. Len(attempts'[s]),
                      attempts'[s][i].capability = attempts'[s][j].capability
               PROVE  i = j
    BY DEF OneAttemptPerCapability, Latest
  <2>1. CASE s = r
    <3> DEFINE n == Len(attempts[r])
    <3>1. n \in Nat /\ i \in 1 .. n + 1 /\ j \in 1 .. n + 1
      BY <1>2, <1>10, <2>1
    <3>2. \A k \in 1 .. n : attempts[r][k].capability # a.capability
      BY <1>2 DEF Claim, IInv, CapabilityInv, Latest
    <3>3. \A k, l \in 1 .. n : attempts[r][k].capability = attempts[r][l].capability => k = l
      BY <1>2 DEF IInv, OneAttemptPerCapability, Latest
    <3>4. \A k \in 1 .. n + 1 : attempts'[r][k] = IF k = n + 1 THEN a ELSE attempts[r][k]
      BY <1>2, <1>5, <1>6
    <3>5. attempts'[r][i].capability = attempts'[r][j].capability
      BY <2>1
    <3> HIDE DEF n, a, r
    <3>6. CASE i # n + 1 /\ j # n + 1
      BY <3>1, <3>3, <3>4, <3>5, <3>6
    <3>7. CASE i = n + 1 /\ j # n + 1
      BY <3>1, <3>2, <3>4, <3>5, <3>7
    <3>8. CASE i # n + 1 /\ j = n + 1
      BY <3>1, <3>2, <3>4, <3>5, <3>8
    <3> QED
      BY <3>6, <3>7, <3>8
  <2>2. CASE s # r
    <3>1. attempts'[s] = attempts[s]
      BY <1>6, <2>2
    <3> QED
      BY <3>1 DEF IInv, OneAttemptPerCapability, Latest
  <2> QED
    BY <2>1, <2>2
<1>17. ClaimIsOffered'
  BY <1>14 DEF Claim, IInv, ClaimIsOffered
<1> QED
  BY <1>8, <1>9, <1>11, <1>12, <1>15, <1>16, <1>17, MessagesKept, RetriesKept DEF IInv

\* A message arrives while its capability is the one of a request that is not
\* over, whether it is new, on record or still served by another thread.
LEMMA ArriveStep ==
  ASSUME IInv, NEW t \in Threads, NEW m \in Written \cup reports \cup InFlight, Arrive(t, m)
  PROVE  IInv'
<1> USE DEF IInv
<1>1. /\ m \in Message /\ m.expected <= counter[m.request]
      /\ m.kind # "claim" => m.attempt \in 1 .. Len(attempts[m.request])
  <2>1. CASE m \in Written
    <3>1. m \in [op : {o \in Operations : Fresh(o)}, kind : Kinds, request : Requests,
                 attempt : 0 .. MaxOperations, capability : Range(capability),
                 expected : Range(counter)]
      BY <2>1 DEF Written
    <3>2. /\ m.op \in Operations /\ m.kind \in Kinds /\ m.request \in Requests
          /\ m.attempt \in 0 .. MaxOperations
          /\ m = [op |-> m.op, kind |-> m.kind, request |-> m.request, attempt |-> m.attempt,
                  capability |-> m.capability, expected |-> m.expected]
      BY <3>1
    <3>3. /\ m.capability = capability[m.request] /\ m.expected = counter[m.request]
          /\ m.kind # "claim" => m.attempt \in 1 .. Len(attempts[m.request])
      BY <2>1 DEF Written, Latest
    <3>4. m.capability \in Nat /\ m.expected \in Nat /\ m.attempt \in Nat
      BY <3>2, <3>3 DEF TypeOK
    <3>5. m \in Message
      BY <3>2, <3>4 DEF Message
    <3> QED
      BY <3>3, <3>4, <3>5
  <2>2. CASE m \in reports
    BY <2>2 DEF TypeOK, CounterInv, MessageInv, Latest
  <2>3. CASE m \in InFlight
    <3>1. PICK u \in Threads : pc[u] # "idle" /\ m = msg[u]
      BY <2>3 DEF InFlight
    <3> QED
      BY <3>1, ServedFacts DEF CounterInv
  <2> QED
    BY <2>1, <2>2, <2>3
<1>2. m.request \in Requests
  BY <1>1 DEF Message
<1>3. \A u \in Threads :
        /\ pc'[u] = IF u = t THEN IF m.kind = "claim" THEN "transact" ELSE "replay" ELSE pc[u]
        /\ msg'[u] = IF u = t THEN m ELSE msg[u]
  BY DEF Arrive, TypeOK
<1>4. TypeOK'
  <2>1. pc' \in [Threads -> Positions] /\ msg' \in [Threads -> Message \cup {NoMessage}]
    BY <1>1 DEF Arrive, TypeOK, Positions
  <2> QED
    BY <1>1, <1>3, <2>1 DEF Arrive, TypeOK
<1>5. MessageInv'
  BY <1>1, <1>3 DEF Arrive, MessageInv, Latest
<1>6. CounterInv'
  BY <1>1, <1>3 DEF Arrive, CounterInv
<1>7. AuthorityInv'
  BY <1>3 DEF Arrive, Permits, AuthorityInv
<1>8. CapabilityInv' /\ OneAttemptPerCapability' /\ ClaimIsOffered'
  BY DEF Arrive, CapabilityInv, OneAttemptPerCapability, ClaimIsOffered, Latest
<1>9. RetryInv'
  <2>1. t \notin retries
    BY DEF Arrive, RetryInv
  <2>2. \A u \in retries' : u \in retries \/ (u = t /\ m.op \in ledger)
    BY DEF Arrive
  <2> QED
    BY <1>3, <2>1, <2>2 DEF Arrive, RetryInv, TypeOK
<1> QED
  BY <1>4, <1>5, <1>6, <1>7, <1>8, <1>9

LEMMA ServeStep ==
  ASSUME IInv, NEW t \in Threads, Serve(t)
  PROVE  IInv'
<1> USE ServedFacts DEF Positions
<1>1. CASE Replay(t)
  <2>1. msg[t].op \notin ledger => t \notin retries
    BY DEF IInv, RetryInv
  <2> QED
    BY <1>1, <2>1, RefusesStep, GoesStep DEF Replay
<1>2. CASE LeaseRefused(t)
  BY <1>2, RefusesStep DEF LeaseRefused
<1>3. CASE LeaseHolds(t)
  BY <1>3, GoesStep DEF LeaseHolds
<1>4. CASE LeaseOver(t)
  BY <1>4, GoesStep DEF LeaseOver
<1>5. CASE Refuse(t)
  BY <1>5, RefusesStep DEF Refuse
<1>6. CASE SubmitResult(t)
  BY <1>6, EndsStep DEF SubmitResult, Kinds, AttemptStates, RequestStates
<1>7. CASE FailAttempt(t)
  BY <1>7, EndsStep DEF FailAttempt, Kinds, AttemptStates, RequestStates
<1> QED
  BY <1>1, <1>2, <1>3, <1>4, <1>5, <1>6, <1>7, InterruptAttemptStep, InterruptRequestStep,
     ClaimStep, HeartbeatStep
  DEF Serve

-----------------------------------------------------------------------------
(* Time and restarts. *)

LEMMA LeaseExpiresStep ==
  ASSUME IInv, NEW r \in Requests, NEW i \in 1 .. Latest(r), LeaseExpires(r, i)
  PROVE  IInv'
<1> DEFINE new == [attempts[r][i] EXCEPT !.lease = FALSE]
<1>1. attempts[r][i] \in Attempt
  BY DEF IInv, TypeOK, Latest
<1>2. new \in Attempt /\ new.capability = attempts[r][i].capability
  BY <1>1 DEF Attempt
<1>3. attempts' = [attempts EXCEPT ![r] = [@ EXCEPT ![i] = new]]
  BY DEF LeaseExpires
<1>4. SameAttempts
  BY <1>2, <1>3, Revision DEF IInv, Latest
<1>5. ThreadsGoOn /\ RetriesWait /\ ThreadTypes'
  BY DEF LeaseExpires, ThreadsGoOn, RetriesWait, ThreadTypes, IInv, TypeOK
<1> QED
  BY <1>4, <1>5, AsideStep DEF LeaseExpires, IInv, TypeOK

LEMMA RequestExpiresStep ==
  ASSUME IInv, NEW r \in Requests, RequestExpires(r)
  PROVE  IInv'
<1>1. SameAttempts
  BY UnchangedAttempts DEF RequestExpires, IInv
<1>2. TypeOK'
  BY DEF RequestExpires, IInv, TypeOK
<1>3. ThreadsGoOn /\ RetriesWait /\ AuthorityIsCounted /\ NothingIssued
  BY DEF RequestExpires, ThreadsGoOn, RetriesWait, AuthorityIsCounted, NothingIssued, IInv, TypeOK
<1> QED
  BY <1>1, <1>2, <1>3, Quiet

LEMMA CapabilityExpiresStep ==
  ASSUME IInv, NEW c \in live, CapabilityExpires(c)
  PROVE  IInv'
<1>1. SameAttempts
  BY UnchangedAttempts DEF CapabilityExpires, IInv
<1>2. TypeOK'
  BY DEF CapabilityExpires, IInv, TypeOK
<1>3. ThreadsGoOn /\ RetriesWait /\ AuthorityIsCounted /\ NothingIssued
  BY DEF CapabilityExpires, ThreadsGoOn, RetriesWait, AuthorityIsCounted, NothingIssued, IInv,
         TypeOK
<1> QED
  BY <1>1, <1>2, <1>3, Quiet

\* Restart and RestartWhileMinting.
LEMMA RestartsStep ==
  ASSUME IInv, Restarts, minted' \in Nat, minted <= minted', claimFile' \in [Requests -> Nat]
  PROVE  IInv'
<1>1. SameAttempts
  BY UnchangedAttempts DEF Restarts, IInv
<1>2. TypeOK'
  BY DEF Restarts, IInv, TypeOK, Positions
<1>3. ThreadsGoOn /\ RetriesWait /\ AuthorityIsCounted /\ NothingIssued
  BY DEF Restarts, ThreadsGoOn, RetriesWait, AuthorityIsCounted, NothingIssued, IInv, TypeOK
<1> QED
  BY <1>1, <1>2, <1>3, Quiet

LEMMA EnvironmentStep ==
  ASSUME IInv, Environment
  PROVE  IInv'
<1>1. minted \in Nat /\ claimFile \in [Requests -> Nat]
  BY DEF IInv, TypeOK
<1>2. ASSUME NEW r \in Requests, RestartWhileMinting(r) PROVE IInv'
  BY <1>1, <1>2, RestartsStep DEF RestartWhileMinting
<1>3. CASE Restart
  BY <1>1, <1>3, RestartsStep DEF Restart
<1> QED
  BY <1>2, <1>3, LeaseExpiresStep, RequestExpiresStep, CapabilityExpiresStep DEF Environment

LEMMA InitInv == Init => IInv
BY DEF Init, IInv, TypeOK, RequestStates, Positions, MessageInv, CounterInv, AuthorityInv,
       CapabilityInv, RetryInv, OneAttemptPerCapability, ClaimIsOffered, Latest

LEMMA NextInv == IInv /\ [Next]_vars => IInv'
<1> SUFFICES ASSUME IInv, [Next]_vars PROVE IInv'
  OBVIOUS
<1>1. CASE UNCHANGED vars
  BY <1>1 DEF vars, IInv, TypeOK, MessageInv, CounterInv, AuthorityInv, CapabilityInv, RetryInv,
              OneAttemptPerCapability, ClaimIsOffered, Latest
<1> QED
  BY <1>1, MaintainerStep, ServeStep, ArriveStep, EnvironmentStep DEF Next

-----------------------------------------------------------------------------
(* The results. *)

\* The parts of the invariant hold in every reachable state (work.py,
\* session.py).
THEOREM InvariantHolds == Spec => []IInv
BY InitInv, NextInv, PTL DEF Spec

\* A credential is handed out when the request waits for it, stands for one
\* attempt, and a retry under it never interrupts the attempt (consent, claim,
\* retry, _replay_agent).
THEOREM CredentialsAreSound == Spec => []CredentialsHold
<1>1. IInv => CredentialsHold
  BY DEF IInv, CredentialsHold, Wellformed, RetryInv, RetryNeverInterrupts
<1> QED
  BY <1>1, InvariantHolds, PTL

\* What a thread puts on record was accepted by the gate in that step.
LEMMA RecordedIsAccepted ==
  ASSUME IInv, Next, NEW t \in Threads, RecordedBy(t)
  PROVE  Accepts(t)
<1>1. ~ Maintainer /\ ~ Environment
  BY DEF RecordedBy, Maintainer, Environment, Create, Consent, Retry, Cancel, ConfirmCancelled,
         Reject, Records, RequestExpires, RestartWhileMinting, LeaseExpires, CapabilityExpires,
         Restart, Restarts
<1>2. PICK u \in Threads : Serve(u) \/ \E m \in Written \cup reports \cup InFlight : Arrive(u, m)
  BY <1>1 DEF Next
<1>3. u = t
  BY <1>2 DEF RecordedBy, Serve, Arrive, Replay, LeaseRefused, LeaseHolds, LeaseOver,
     InterruptAttempt, InterruptRequest, Refuse, Claim, Heartbeat, SubmitResult, FailAttempt,
     Ends, Refuses, Returns, Goes, IInv, TypeOK
<1> QED
  BY <1>2, <1>3 DEF RecordedBy, Serve, Arrive, Replay, LeaseRefused, LeaseHolds, LeaseOver,
     InterruptAttempt, InterruptRequest, Refuse, Claim, Heartbeat, SubmitResult, FailAttempt,
     Ends, Refuses, Goes

\* A request that is over is left alone, but for an interruption under way.
LEMMA OverIsFinal ==
  ASSUME IInv, Next
  PROVE  FinalUnlessInterrupted
<1> SUFFICES ASSUME NEW r \in Requests, state[r] \in {"cancelled", "rejected"}, state'[r] # state[r]
             PROVE  \E t \in Threads : pc[t] = "interrupted" /\ msg[t].request = r
  BY DEF FinalUnlessInterrupted
<1>1. ASSUME NEW s \in Requests, NEW next, state' = [state EXCEPT ![s] = next] PROVE s = r
  BY <1>1 DEF IInv, TypeOK
<1>2. ~ Maintainer
  <2>1. ASSUME NEW s \in Requests, NEW op \in Operations,
               \/ Create(s, op) \/ Consent(s, op) \/ Retry(s, op)
               \/ Cancel(s, op) \/ ConfirmCancelled(s, op) \/ Reject(s, op)
        PROVE  FALSE
    <3>1. s = r
      BY <1>1, <2>1 DEF Create, Consent, Retry, Cancel, ConfirmCancelled, Reject, Records
    <3> QED
      BY <2>1, <3>1 DEF Create, Consent, MayConsent, Retry, MayRetry, Cancel, ConfirmCancelled,
                        Reject
  <2> QED
    BY <2>1 DEF Maintainer
<1>3. ~ Environment
  BY DEF Environment, RequestExpires, RestartWhileMinting, LeaseExpires, CapabilityExpires,
         Restart, Restarts
<1>4. PICK t \in Threads : Serve(t) \/ \E m \in Written \cup reports \cup InFlight : Arrive(t, m)
  BY <1>2, <1>3 DEF Next
<1>5. CASE InterruptRequest(t)
  <2>1. msg[t].request = r
    BY <1>1, <1>5, ServedFacts DEF InterruptRequest
  <2> QED
    BY <1>5, <2>1 DEF InterruptRequest
<1>6. ASSUME Accepts(t), NEW next, state' = [state EXCEPT ![msg[t].request] = next]
      PROVE  FALSE
  <2>1. pc[t] # "idle"
    BY <1>6 DEF Accepts
  <2>2. msg[t].request = r
    BY <1>1, <1>6, <2>1, ServedFacts
  <2> QED
    BY <1>6, <2>1, <2>2 DEF Accepts, IInv, AuthorityInv, Over
<1> QED
  BY <1>4, <1>5, <1>6 DEF Serve, Arrive, Replay, LeaseRefused, LeaseHolds, LeaseOver,
     InterruptAttempt, Refuse, Claim, Heartbeat, SubmitResult, FailAttempt, Ends, Refuses, Goes

\* No report is accepted under a credential that was replaced or while its
\* request is over, and a request that is over stays as it is unless an
\* interruption was under way (_require_agent, cancel, reject, _interrupt).
THEOREM ReportsStayCurrent == Spec => ReportsAreCurrent
<1>1. IInv /\ [Next]_vars =>
        [OnlyCurrentCapability /\ NothingOnceOver /\ FinalUnlessInterrupted]_vars
  <2> SUFFICES ASSUME IInv, Next
               PROVE  OnlyCurrentCapability /\ NothingOnceOver /\ FinalUnlessInterrupted
    OBVIOUS
  <2>1. ASSUME NEW t \in Threads, RecordedBy(t)
        PROVE  /\ msg[t].capability = capability[msg[t].request]
               /\ state[msg[t].request] \notin Over
    BY <2>1, RecordedIsAccepted DEF Accepts, IInv, AuthorityInv
  <2> QED
    BY <2>1, OverIsFinal DEF OnlyCurrentCapability, NothingOnceOver
<1> QED
  BY <1>1, InvariantHolds, PTL DEF Spec, ReportsAreCurrent

=============================================================================
