------------------------- MODULE PreviewRound_proofs -------------------------
(***************************************************************************)
(* What a round of the preview promises, for every number of processes,    *)
(* rounds, calls, versions and posted forms, and for the next-state        *)
(* relation that does not keep the two scenarios of the run apart: numbers *)
(* are given once, log.md has one writer at a time, decisions and versions *)
(* are added and never changed, and, while every heartbeat is in time, a   *)
(* lock is lost only with its owner, so that what was reported is on disk  *)
(* and only the user's form decides.                                       *)
(***************************************************************************)
EXTENDS PreviewRound, SequenceTheorems, TLAPS

(* What a call is known by.                                                  *)

\* The number of the call a process serves, 0 without one.
CallOf(p) == IF pc[p] # "idle" THEN run[p].call ELSE IF job[p] # None THEN job[p].call ELSE 0

\* Numbers are given once: to a call, then to its lock and to its decision.
NumbersInv ==
  /\ run = [p \in Processes |-> run[p]] /\ job = [p \in Processes |-> job[p]]
  /\ \A p \in Processes : /\ CallOf(p) \in 0 .. calls
                          /\ pc[p] # "idle" \/ job[p] # None => CallOf(p) # 0
                          /\ pc[p] # "idle" => run[p].id \in 1 .. calls
  /\ \A p, q \in Processes : CallOf(p) = CallOf(q) /\ CallOf(p) # 0 => p = q
  /\ \A r \in Rounds : lock[r] # None => lock[r].owner \in 1 .. calls
  /\ \A r \in Rounds : entry[r] # None => entry[r].id \in 1 .. calls

Early == {"acquire", "stamp", "claim", "unlink", "unguard", "check", "collect"}

\* The decision a call is about to write has a number no decision has.
DecisionsInv ==
  /\ \A p \in Processes : pc[p] \in Early =>
       /\ \A r \in Rounds : entry[r] # None => entry[r].id # Mine(p)
       /\ run[p].id = Mine(p) \/ entry[Round(p)] # None
  /\ \A p \in Processes : pc[p] = "collect" => run[p].id = Mine(p)
  /\ \A r, s \in Rounds :
       entry[r] # None /\ entry[s] # None /\ entry[r].id = entry[s].id => r = s

(* Who may write what.                                                       *)

\* Whoever reads or renders log.md holds the projection lock.
FenceInv ==
  \A p \in Processes :
    /\ pc[p] \in {"confirm", "read", "write"} => fence = run[p].call
    /\ At(p, "read") \/ At(p, "render") => fence = job[p].call

RoundsOf(shows) == {line[1] : line \in shows}

\* What a process is about to render shows what log.md shows.
LogInv ==
  /\ \A r \in Logged : entry[r] # None
  /\ \A p \in Processes :
       /\ \A r \in RoundsOf(seen[p]) : entry[r] # None
       /\ found[p] <= Len(versions)
       /\ pc[p] = "write" \/ At(p, "render") => Logged \subseteq RoundsOf(seen[p]) /\ shown <= found[p]
       /\ At(p, "project") \/ At(p, "read") => job[p].seq <= Len(versions)
       /\ At(p, "render") => job[p].seq <= found[p]
  /\ \A n \in told : n <= shown

\* One writer stages the forked directory, and it is not there yet.
ForkInv ==
  \A p \in Processes : At(p, "rename") => forking = job[p].call /\ chain = None

GuardInv ==
  \A p \in Processes : pc[p] \in {"claim", "unlink", "unguard"} => guard[Round(p)] = Mine(p)

(* While every heartbeat is in time.                                         *)

\* A lock is stale only after its owner, who holds it from its creation to its
\* release; and what is about to be removed is stale.
LockInv ==
  /\ \A r \in Rounds : lock[r] # None /\ lock[r].stale => lock[r].owner \notin Alive
  /\ \A p \in Processes :
       /\ pc[p] \in Locked \cup {"stamp"} => Owns(p)
       /\ pc[p] \in Locked => lock[Round(p)].binding = run[p].binding
       /\ pc[p] = "unlink" => Claims(p)

Decided == {"register", "project", "confirm", "read", "write"}

\* How far the call under the lock of a round has come.
CourseInv ==
  \A p \in Processes :
    /\ pc[p] = "collect" => entry[Round(p)] = None /\ confirm[Round(p)] = 0
    /\ pc[p] \in Decided => /\ entry[Round(p)] # None
                            /\ entry[Round(p)].id = run[p].id
                            /\ entry[Round(p)].confirms = run[p].confirms
    /\ pc[p] \in Decided \ {"register"} => Round(p) \in ledger
    /\ pc[p] \in {"read", "write"} =>
         confirm[Round(p)] = IF run[p].confirms THEN run[p].id ELSE 0
    /\ pc[p] = "write" => <<Round(p), run[p].id>> \in seen[p]

Decisions == {<<r, entry[r].id>> : r \in {s \in Rounds : entry[s] # None}}

\* What log.md shows, and is about to show, are the decisions that are there.
ShownInv ==
  /\ log \subseteq Decisions
  /\ \A p \in Processes :
       pc[p] = "write" \/ At(p, "render") => log \subseteq seen[p] /\ seen[p] \subseteq Decisions
  /\ \A id \in reported : \E r \in Rounds : entry[r] # None /\ entry[r].id = id

NamedInv ==
  \A n \in 1 .. Len(versions) :
    LET r == versions[n][1] IN entry[r] # None /\ entry[r].id = versions[n][2]

PunctualInv == LockInv /\ CourseInv /\ ShownInv /\ NamedInv

HistoryInv ==
  /\ TypeOK /\ VersionsTypeOK
  /\ NumbersInv /\ DecisionsInv /\ FenceInv /\ LogInv /\ ForkInv /\ GuardInv
  /\ Punctual => PunctualInv /\ ReportedIsDurable /\ ConfirmNeedsDecision

(* The review.                                                               *)

\* The place of the token and of what was made of it.
TokenInv ==
  /\ post = [p \in Posts |-> post[p]]
  /\ spent # NoPost =>
       /\ post[spent] # NoPost /\ post[spent].form.token /\ Usable(spent)
       /\ post[spent].at \in {"accepts", "answers", "ends", "gone"}
       /\ post[spent].at # "accepts" => slot.kind # "nothing"
  /\ slot.kind = "accepted" => slot.by = spent /\ spent # NoPost
  /\ \A p \in Posts : post[p] # NoPost =>
       /\ post[p].valid => spent = p
       /\ post[p].at = "accepts" => spent = p
       /\ post[p].proven => post[p].form.token
       /\ post[p].after => /\ spent \notin {NoPost, p} /\ ~post[p].proven
                           /\ post[p].at \notin {"observe", "judge", "refuses", "accepts"}
  /\ ended => \E p \in Posts : /\ post[p] # NoPost /\ post[p].form.token /\ post[p].at = "gone"
                              /\ \/ post[p].stale
                                 \/ p = spent /\ slot.kind # "nothing"

-----------------------------------------------------------------------------
(* Steps of the transaction.                                                 *)

\* One call at a time is under the lock of a round.
LEMMA PunctualActive == HistoryInv /\ Punctual => OneActive
<1> SUFFICES ASSUME HistoryInv, Punctual, NEW p \in Processes, NEW q \in Processes,
                    pc[p] \in Locked, pc[q] \in Locked, Round(p) = Round(q)
             PROVE  p = q
  BY DEF OneActive
<1>1. Owns(p) /\ Owns(q) /\ Mine(p) = Mine(q)
  BY DEF HistoryInv, PunctualInv, LockInv, Owns, Round, Mine
<1> QED BY <1>1 DEF HistoryInv, NumbersInv, CallOf, Mine, Locked

\* Nobody else has the number of a call.
LEMMA OwnNumber ==
  ASSUME HistoryInv, NEW p \in Processes, pc[p] # "idle"
  PROVE  /\ run[p] \in Call /\ run[p].call \in 1 .. calls /\ run[p].call # None
         /\ \A q \in Processes \ {p} : /\ pc[q] # "idle" => run[q].call # run[p].call
                                       /\ job[q] # None => job[q].call # run[p].call
BY NoneAssumption DEF HistoryInv, NumbersInv, CallOf, TypeOK, VersionsTypeOK, Call

LEMMA OwnJobNumber ==
  ASSUME HistoryInv, NEW p \in Processes, job[p] # None
  PROVE  /\ job[p] \in Job /\ pc[p] = "idle" /\ job[p].call \in 1 .. calls /\ job[p].call # None
         /\ \A q \in Processes \ {p} : /\ pc[q] # "idle" => run[q].call # job[p].call
                                       /\ job[q] # None => job[q].call # job[p].call
BY NoneAssumption DEF HistoryInv, NumbersInv, CallOf, TypeOK, VersionsTypeOK, Job

LEMMA CreateLockStep ==
  ASSUME HistoryInv, NEW p \in Processes, job[p] = None, CreateLock(p), UNCHANGED versionVars
  PROVE  HistoryInv'
<1>1. TypeOK' /\ NumbersInv'
  BY NoneAssumption, BoundsAssumption DEF HistoryInv, Call, CallOf, CreateLock, Entry, Goes, Lock, Locked,
     Mine, NumbersInv, OlderRecord, Positions, Round, TypeOK, versionVars
<1>2. DecisionsInv' /\ FenceInv' /\ GuardInv'
  BY NoneAssumption DEF HistoryInv, At, Call, CallOf, CreateLock, DecisionsInv, Early, Entry, FenceInv, Goes,
     GuardInv, Mine, NumbersInv, Round, TypeOK, versionVars
<1>3. LogInv' /\ VersionsTypeOK' /\ ForkInv'
  BY DEF HistoryInv, At, CreateLock, Entry, ForkInv, Goes, LogInv, Logged, Mine, NumbersInv, Round, RoundsOf,
     TypeOK, VersionsTypeOK, versionVars
<1>4. ASSUME Punctual' PROVE PunctualInv' /\ ReportedIsDurable' /\ ConfirmNeedsDecision'
  <2>0. PunctualInv /\ ReportedIsDurable /\ ConfirmNeedsDecision /\ OneActive
    BY <1>4, PunctualActive DEF CreateLock, HistoryInv, Punctual, TypeOK
  <2>1. LockInv'
    <3> DEFINE new == [owner |-> Mine(p), binding |-> None, stale |-> FALSE]
    <3>0. new \in Lock /\ Round(p) \in Rounds
      BY OwnNumber DEF HistoryInv, TypeOK, CreateLock, Mine, Round, Call, Lock
    <3>1. lock'[Round(p)].owner = Mine(p) /\ ~lock'[Round(p)].stale /\ lock'[Round(p)] # None
      BY <3>0, NoneAssumption DEF HistoryInv, TypeOK, CreateLock
    <3>2. /\ Alive' = Alive /\ pc'[p] = "stamp"
          /\ \A r \in Rounds \ {Round(p)} : lock'[r] = lock[r]
          /\ \A q \in Processes \ {p} : pc'[q] = pc[q]
          /\ run' = run
      BY DEF HistoryInv, TypeOK, NumbersInv, Alive, CreateLock, Goes, Round
    <3>3. \A q \in Processes \ {p} : pc[q] \in Locked \cup {"stamp", "unlink"} => Round(q) # Round(p)
      BY <2>0 DEF PunctualInv, LockInv, Owns, Claims, CreateLock
    <3>4. \A q \in Processes \ {p} : pc[q] # "idle" => run[q].call # run[p].call
      BY OwnNumber DEF CreateLock
    <3>5. Mine(p) \in Alive /\ pc[p] = "acquire"
      BY DEF Alive, CreateLock, Mine
    <3>6. \A q \in Processes \ {p} :
            /\ pc'[q] \in Locked \cup {"stamp"} => Owns(q)'
            /\ pc'[q] \in Locked => lock'[Round(q)'].binding = run'[q].binding
            /\ pc'[q] = "unlink" => Claims(q)'
      BY <2>0, <3>2, <3>3 DEF HistoryInv, TypeOK, PunctualInv, LockInv, Owns, Claims, Mine, Round, Locked, Call
    <3>7. \A r \in Rounds : lock'[r] # None /\ lock'[r].stale => lock'[r].owner \notin Alive'
      BY <2>0, <3>1, <3>2 DEF PunctualInv, LockInv
    <3> QED BY <3>1, <3>2, <3>6, <3>7 DEF LockInv, Owns, Mine, Round, Locked
  <2>2. CourseInv'
    BY <1>4, <2>0, NoneAssumption DEF HistoryInv, PunctualInv, Call, CourseInv, CreateLock, Decided,
       DecisionsInv, Entry, Goes, Locked, Mine, NumbersInv, OneActive, Punctual, Round, TypeOK, versionVars
  <2>3. ShownInv' /\ NamedInv'
    BY <1>4, <2>0 DEF HistoryInv, PunctualInv, At, CourseInv, CreateLock, Decisions, Entry, Goes, Mine,
       NamedInv, NumbersInv, Round, ShownInv, TypeOK, VersionsTypeOK, versionVars
  <2>4. ReportedIsDurable' /\ ConfirmNeedsDecision'
    BY <1>4, <2>0, NoneAssumption, BoundsAssumption DEF HistoryInv, PunctualInv, Call, ConfirmNeedsDecision,
       CourseInv, CreateLock, Entry, Goes, Mine, NumbersInv, OlderRecord, Punctual, ReportedIsDurable, Round,
       TypeOK, versionVars
  <2> QED BY <2>1, <2>2, <2>3, <2>4 DEF PunctualInv
<1> QED BY <1>1, <1>2, <1>3, <1>4 DEF HistoryInv

LEMMA StampLockStep ==
  ASSUME HistoryInv, NEW p \in Processes, job[p] = None, StampLock(p), UNCHANGED versionVars
  PROVE  HistoryInv'
<1>a. /\ run[p] \in Call /\ Round(p) \in Rounds /\ pc[p] = "stamp"
      /\ pc' = [pc EXCEPT ![p] = "check"]
      /\ UNCHANGED <<guard, entry, confirm, log, ledger, fence, run, seen, calls, sleeps, reported>>
  BY OwnNumber DEF StampLock, Goes, Round, Call
<1>b. /\ lock' \in [Rounds -> Lock \cup {None}]
      /\ \A r \in Rounds : (r # Round(p) \/ ~Owns(p)) => lock'[r] = lock[r]
      /\ Owns(p) => /\ lock'[Round(p)] \in Lock /\ lock'[Round(p)] # None
                    /\ lock'[Round(p)].owner = lock[Round(p)].owner
                    /\ lock'[Round(p)].stale = lock[Round(p)].stale
                    /\ lock'[Round(p)].binding = run[p].binding
  <2>1. CASE ~Owns(p)
    BY <2>1 DEF StampLock, HistoryInv, TypeOK
  <2>2. CASE Owns(p)
    <3>1. lock' = [lock EXCEPT ![Round(p)].binding = run[p].binding] /\ lock[Round(p)] \in Lock
      BY <1>a, <2>2 DEF StampLock, Owns, HistoryInv, TypeOK
    <3>2. [lock[Round(p)] EXCEPT !.binding = run[p].binding] \in Lock
      BY <1>a, <3>1 DEF Lock, Call
    <3>3. /\ lock'[Round(p)] = [lock[Round(p)] EXCEPT !.binding = run[p].binding]
          /\ \A r \in Rounds \ {Round(p)} : lock'[r] = lock[r]
          /\ lock' = [r \in Rounds |-> lock'[r]]
      BY <1>a, <3>1 DEF HistoryInv, TypeOK
    <3>4. lock' \in [Rounds -> Lock \cup {None}]
      BY <3>2, <3>3 DEF HistoryInv, TypeOK
    <3>5. /\ lock'[Round(p)].owner = lock[Round(p)].owner
          /\ lock'[Round(p)].stale = lock[Round(p)].stale
          /\ lock'[Round(p)].binding = run[p].binding
      BY <3>1, <3>3 DEF Lock
    <3>6. lock'[Round(p)] \in Lock /\ lock'[Round(p)] # None
      BY <3>2, <3>3, NoneAssumption
    <3> QED BY <2>2, <3>3, <3>4, <3>5, <3>6
  <2> QED BY <2>1, <2>2
<1>1. TypeOK' /\ NumbersInv'
  <2>1. pc' \in [Processes -> Positions] /\ \A q \in Processes : (pc'[q] = "idle" <=> pc[q] = "idle")
    <3>1. pc \in [Processes -> Positions]
      BY DEF HistoryInv, TypeOK
    <3>2. "check" \in Positions
      BY DEF Positions, Locked
    <3>3. \A q \in Processes : pc'[q] = IF q = p THEN "check" ELSE pc[q]
      BY <1>a, <3>1
    <3> QED BY <1>a, <3>1, <3>2, <3>3
  <2>2. TypeOK'
    BY <1>a, <1>b, <2>1 DEF HistoryInv, TypeOK
  <2>3. UNCHANGED <<run, job, calls, entry>> /\ \A q \in Processes : CallOf(q)' = CallOf(q)
    <3>1. UNCHANGED <<run, job, calls, entry>>
      BY <1>a DEF versionVars
    <3> QED BY <2>1, <3>1 DEF CallOf
  <2>4. \A r \in Rounds : lock'[r] # None => lock[r] # None /\ lock'[r].owner = lock[r].owner
    <3>1. TAKE r \in Rounds
    <3>2. CASE r = Round(p) /\ Owns(p)
      BY <1>b, <3>2 DEF Owns
    <3>3. CASE ~(r = Round(p) /\ Owns(p))
      BY <1>b, <3>3
    <3> QED BY <3>2, <3>3
  <2>5. NumbersInv'
    BY <2>1, <2>3, <2>4 DEF HistoryInv, NumbersInv
  <2> QED BY <2>2, <2>5
<1>2. DecisionsInv' /\ FenceInv' /\ GuardInv'
  BY NoneAssumption, <1>a, <1>b DEF HistoryInv, At, Call, CallOf, DecisionsInv, Early, Entry, FenceInv,
     GuardInv, Mine, NumbersInv, Owns, Round, TypeOK, versionVars
<1>3. LogInv' /\ VersionsTypeOK' /\ ForkInv'
  BY <1>a, <1>b DEF HistoryInv, At, Entry, ForkInv, LogInv, Logged, Mine, NumbersInv, Owns, Round, RoundsOf,
     TypeOK, VersionsTypeOK, versionVars
<1>4. ASSUME Punctual' PROVE PunctualInv' /\ ReportedIsDurable' /\ ConfirmNeedsDecision'
  <2>0. PunctualInv /\ ReportedIsDurable /\ ConfirmNeedsDecision /\ OneActive
    BY <1>4, PunctualActive DEF HistoryInv, Punctual, StampLock, TypeOK
  <2>1. LockInv'
    <3>1. Owns(p) /\ Alive' = Alive /\ UNCHANGED run
      BY <2>0, <1>a DEF PunctualInv, LockInv, Alive, HistoryInv, TypeOK
    <3>2. ASSUME NEW q \in Processes, q # p
          PROVE  /\ pc'[q] = pc[q] /\ (pc[q] # "idle" /\ Owns(q) => Owns(q)')
                 /\ pc[q] \in Locked \cup {"stamp", "unlink"} =>
                      Round(q) \in Rounds /\ lock'[Round(q)] = lock[Round(q)]
      <4>1. pc'[q] = pc[q] /\ (pc[q] # "idle" => Round(q) \in Rounds)
        BY <3>2, <1>a, OwnNumber DEF HistoryInv, TypeOK, Round, Call
      <4>2. pc[q] # "idle" => run[q].call # run[p].call
        BY <3>2, <1>a, OwnNumber
      <4>3. pc[q] \in Locked \cup {"stamp", "unlink"} => Round(q) # Round(p)
        BY <2>0, <3>1, <4>2, <1>a DEF PunctualInv, LockInv, Owns, Claims, Mine, Round, Locked, Alive
      <4>4. pc[q] # "idle" /\ Owns(q) => Owns(q)'
        <5>1. UNCHANGED run /\ Round(q)' = Round(q)
          BY <3>1 DEF Round
        <5>2. CASE Round(q) = Round(p)
          BY <1>a, <1>b, <3>1, <5>1, <5>2 DEF Owns, Mine
        <5>3. CASE Round(q) # Round(p)
          <6>1. pc[q] # "idle" => lock'[Round(q)] = lock[Round(q)]
            BY <1>b, <4>1, <5>3
          <6> QED BY <5>1, <6>1 DEF Owns, Mine
        <5> QED BY <5>2, <5>3
      <4> QED BY <4>1, <4>3, <4>4, <1>b DEF Locked
    <3>3. \A r \in Rounds : lock'[r] # None /\ lock'[r].stale => lock'[r].owner \notin Alive'
      <4>1. \A r \in Rounds : lock[r] # None /\ lock[r].stale => lock[r].owner \notin Alive
        BY <2>0 DEF PunctualInv, LockInv
      <4>2. lock[Round(p)] # None
        BY <3>1 DEF Owns
      <4>3. TAKE r \in Rounds
      <4>4. CASE r = Round(p)
        BY <1>b, <3>1, <4>1, <4>2, <4>4
      <4>5. CASE r # Round(p)
        BY <1>b, <3>1, <4>1, <4>5
      <4> QED BY <4>4, <4>5
    <3>4. Owns(p)' /\ pc'[p] = "check" /\ lock'[Round(p)].binding = run[p].binding
      BY <1>a, <1>b, <3>1 DEF Owns, Mine, Round, HistoryInv, TypeOK
    <3> QED BY <2>0, <3>1, <3>2, <3>3, <3>4 DEF PunctualInv, LockInv, Claims, Owns, Mine, Round, Locked
  <2>2. CourseInv'
    BY <1>4, <2>0, NoneAssumption, <1>a, <1>b DEF HistoryInv, PunctualInv, Call, CourseInv, Decided,
       DecisionsInv, Entry, Locked, Mine, NumbersInv, OneActive, Owns, Punctual, Round, TypeOK, versionVars
  <2>3. ShownInv' /\ NamedInv'
    BY <1>4, <2>0, <1>a, <1>b DEF HistoryInv, PunctualInv, At, CourseInv, Decisions, Entry, Mine, NamedInv,
       NumbersInv, Owns, Round, ShownInv, TypeOK, VersionsTypeOK, versionVars
  <2>4. ReportedIsDurable' /\ ConfirmNeedsDecision'
    BY <1>4, <2>0, NoneAssumption, BoundsAssumption, <1>a, <1>b DEF HistoryInv, PunctualInv, Call,
       ConfirmNeedsDecision, CourseInv, Entry, Mine, NumbersInv, OlderRecord, Owns, Punctual,
       ReportedIsDurable, Round, TypeOK, versionVars
  <2> QED BY <2>1, <2>2, <2>3, <2>4 DEF PunctualInv
<1> QED BY <1>1, <1>2, <1>3, <1>4 DEF HistoryInv

LEMMA EnterRecoveryStep ==
  ASSUME HistoryInv, NEW p \in Processes, job[p] = None, EnterRecovery(p), UNCHANGED versionVars
  PROVE  HistoryInv'
<1>1. TypeOK' /\ NumbersInv'
  BY NoneAssumption, BoundsAssumption DEF HistoryInv, Call, CallOf, EnterRecovery, Entry, Goes, Lock, Locked,
     Mine, NumbersInv, OlderRecord, Positions, Round, TypeOK, versionVars
<1>2. DecisionsInv' /\ FenceInv' /\ GuardInv'
  BY NoneAssumption DEF HistoryInv, At, Call, CallOf, DecisionsInv, Early, EnterRecovery, Entry, FenceInv,
     Goes, GuardInv, Mine, NumbersInv, Round, TypeOK, versionVars
<1>3. LogInv' /\ VersionsTypeOK' /\ ForkInv'
  BY DEF HistoryInv, At, EnterRecovery, Entry, ForkInv, Goes, LogInv, Logged, Mine, NumbersInv, Round,
     RoundsOf, TypeOK, VersionsTypeOK, versionVars
<1>4. ASSUME Punctual' PROVE PunctualInv' /\ ReportedIsDurable' /\ ConfirmNeedsDecision'
  <2>0. PunctualInv /\ ReportedIsDurable /\ ConfirmNeedsDecision /\ OneActive
    BY <1>4, PunctualActive DEF EnterRecovery, HistoryInv, Punctual, TypeOK
  <2>1. LockInv'
    BY <1>4, <2>0, NoneAssumption DEF HistoryInv, PunctualInv, Alive, Call, CallOf, Claims, EnterRecovery,
       Goes, GuardInv, Lock, LockInv, Locked, Mine, NumbersInv, Owns, Round, TypeOK, versionVars
  <2>2. CourseInv'
    BY <1>4, <2>0, NoneAssumption DEF HistoryInv, PunctualInv, Call, CourseInv, Decided, DecisionsInv,
       EnterRecovery, Entry, Goes, Locked, Mine, NumbersInv, OneActive, Punctual, Round, TypeOK, versionVars
  <2>3. ShownInv' /\ NamedInv'
    BY <1>4, <2>0 DEF HistoryInv, PunctualInv, At, CourseInv, Decisions, EnterRecovery, Entry, Goes, Mine,
       NamedInv, NumbersInv, Round, ShownInv, TypeOK, VersionsTypeOK, versionVars
  <2>4. ReportedIsDurable' /\ ConfirmNeedsDecision'
    BY <1>4, <2>0, NoneAssumption, BoundsAssumption DEF HistoryInv, PunctualInv, Call, ConfirmNeedsDecision,
       CourseInv, EnterRecovery, Entry, Goes, Mine, NumbersInv, OlderRecord, Punctual, ReportedIsDurable,
       Round, TypeOK, versionVars
  <2> QED BY <2>1, <2>2, <2>3, <2>4 DEF PunctualInv
<1> QED BY <1>1, <1>2, <1>3, <1>4 DEF HistoryInv

LEMMA RecoveryActiveStep ==
  ASSUME HistoryInv, NEW p \in Processes, job[p] = None, RecoveryActive(p), UNCHANGED versionVars
  PROVE  HistoryInv'
<1>1. TypeOK' /\ NumbersInv'
  BY NoneAssumption, BoundsAssumption DEF HistoryInv, Call, CallOf, Ends, Entry, Lock, Locked, Mine,
     NumbersInv, OlderRecord, Positions, RecoveryActive, Round, TypeOK, disk, versionVars
<1>2. DecisionsInv' /\ FenceInv' /\ GuardInv'
  BY NoneAssumption DEF HistoryInv, At, Call, CallOf, DecisionsInv, Early, Ends, Entry, FenceInv, GuardInv,
     Mine, NumbersInv, RecoveryActive, Round, TypeOK, disk, versionVars
<1>3. LogInv' /\ VersionsTypeOK' /\ ForkInv'
  BY DEF HistoryInv, At, Ends, Entry, ForkInv, LogInv, Logged, Mine, NumbersInv, RecoveryActive, Round,
     RoundsOf, TypeOK, VersionsTypeOK, disk, versionVars
<1>4. ASSUME Punctual' PROVE PunctualInv' /\ ReportedIsDurable' /\ ConfirmNeedsDecision'
  <2>0. PunctualInv /\ ReportedIsDurable /\ ConfirmNeedsDecision /\ OneActive
    BY <1>4, PunctualActive DEF Ends, HistoryInv, Punctual, RecoveryActive, TypeOK, disk
  <2>1. LockInv'
    BY <1>4, <2>0, NoneAssumption DEF HistoryInv, PunctualInv, Alive, Call, CallOf, Claims, Ends, GuardInv,
       Lock, LockInv, Locked, Mine, NumbersInv, Owns, RecoveryActive, Round, TypeOK, disk, versionVars
  <2>2. CourseInv'
    BY <1>4, <2>0, NoneAssumption DEF HistoryInv, PunctualInv, Call, CourseInv, Decided, DecisionsInv, Ends,
       Entry, Locked, Mine, NumbersInv, OneActive, Punctual, RecoveryActive, Round, TypeOK, disk, versionVars
  <2>3. ShownInv' /\ NamedInv'
    BY <1>4, <2>0 DEF HistoryInv, PunctualInv, At, CourseInv, Decisions, Ends, Entry, Mine, NamedInv,
       NumbersInv, RecoveryActive, Round, ShownInv, TypeOK, VersionsTypeOK, disk, versionVars
  <2>4. ReportedIsDurable' /\ ConfirmNeedsDecision'
    BY <1>4, <2>0, NoneAssumption, BoundsAssumption DEF HistoryInv, PunctualInv, Call, ConfirmNeedsDecision,
       CourseInv, Ends, Entry, Mine, NumbersInv, OlderRecord, Punctual, RecoveryActive, ReportedIsDurable,
       Round, TypeOK, disk, versionVars
  <2> QED BY <2>1, <2>2, <2>3, <2>4 DEF PunctualInv
<1> QED BY <1>1, <1>2, <1>3, <1>4 DEF HistoryInv

LEMMA ClaimedStep ==
  ASSUME HistoryInv, NEW p \in Processes, job[p] = None, Claimed(p), UNCHANGED versionVars
  PROVE  HistoryInv'
<1>1. TypeOK' /\ NumbersInv'
  BY NoneAssumption, BoundsAssumption DEF HistoryInv, Call, CallOf, Claimed, Claims, Entry, Goes, Lock,
     Locked, Mine, NumbersInv, OlderRecord, Positions, Round, TypeOK, disk, versionVars
<1>2. DecisionsInv' /\ FenceInv' /\ GuardInv'
  BY NoneAssumption DEF HistoryInv, At, Call, CallOf, Claimed, Claims, DecisionsInv, Early, Entry, FenceInv,
     Goes, GuardInv, Mine, NumbersInv, Round, TypeOK, disk, versionVars
<1>3. LogInv' /\ VersionsTypeOK' /\ ForkInv'
  BY DEF HistoryInv, At, Claimed, Claims, Entry, ForkInv, Goes, LogInv, Logged, Mine, NumbersInv, Round,
     RoundsOf, TypeOK, VersionsTypeOK, disk, versionVars
<1>4. ASSUME Punctual' PROVE PunctualInv' /\ ReportedIsDurable' /\ ConfirmNeedsDecision'
  <2>0. PunctualInv /\ ReportedIsDurable /\ ConfirmNeedsDecision /\ OneActive
    BY <1>4, PunctualActive DEF Claimed, HistoryInv, Punctual, TypeOK, disk
  <2>1. LockInv'
    BY <1>4, <2>0, NoneAssumption DEF HistoryInv, PunctualInv, Alive, Call, CallOf, Claimed, Claims, Goes,
       GuardInv, Lock, LockInv, Locked, Mine, NumbersInv, Owns, Round, TypeOK, disk, versionVars
  <2>2. CourseInv'
    BY <1>4, <2>0, NoneAssumption DEF HistoryInv, PunctualInv, Call, Claimed, Claims, CourseInv, Decided,
       DecisionsInv, Entry, Goes, Locked, Mine, NumbersInv, OneActive, Punctual, Round, TypeOK, disk,
       versionVars
  <2>3. ShownInv' /\ NamedInv'
    BY <1>4, <2>0 DEF HistoryInv, PunctualInv, At, Claimed, Claims, CourseInv, Decisions, Entry, Goes, Mine,
       NamedInv, NumbersInv, Round, ShownInv, TypeOK, VersionsTypeOK, disk, versionVars
  <2>4. ReportedIsDurable' /\ ConfirmNeedsDecision'
    BY <1>4, <2>0, NoneAssumption, BoundsAssumption DEF HistoryInv, PunctualInv, Call, Claimed, Claims,
       ConfirmNeedsDecision, CourseInv, Entry, Goes, Mine, NumbersInv, OlderRecord, Punctual,
       ReportedIsDurable, Round, TypeOK, disk, versionVars
  <2> QED BY <2>1, <2>2, <2>3, <2>4 DEF PunctualInv
<1> QED BY <1>1, <1>2, <1>3, <1>4 DEF HistoryInv

LEMMA ClaimRefusedStep ==
  ASSUME HistoryInv, NEW p \in Processes, job[p] = None, ClaimRefused(p), UNCHANGED versionVars
  PROVE  HistoryInv'
<1>1. TypeOK' /\ NumbersInv'
  BY NoneAssumption, BoundsAssumption DEF HistoryInv, Call, CallOf, ClaimRefused, Claims, Ends, Entry, Lock,
     Locked, Mine, NumbersInv, OlderRecord, Positions, Round, TypeOK, versionVars
<1>2. DecisionsInv' /\ FenceInv' /\ GuardInv'
  BY NoneAssumption DEF HistoryInv, At, Call, CallOf, ClaimRefused, Claims, DecisionsInv, Early, Ends, Entry,
     FenceInv, GuardInv, Mine, NumbersInv, Round, TypeOK, versionVars
<1>3. LogInv' /\ VersionsTypeOK' /\ ForkInv'
  BY DEF HistoryInv, At, ClaimRefused, Claims, Ends, Entry, ForkInv, LogInv, Logged, Mine, NumbersInv, Round,
     RoundsOf, TypeOK, VersionsTypeOK, versionVars
<1>4. ASSUME Punctual' PROVE PunctualInv' /\ ReportedIsDurable' /\ ConfirmNeedsDecision'
  <2>0. PunctualInv /\ ReportedIsDurable /\ ConfirmNeedsDecision /\ OneActive
    BY <1>4, PunctualActive DEF ClaimRefused, Ends, HistoryInv, Punctual, TypeOK
  <2>1. LockInv'
    BY <1>4, <2>0, NoneAssumption DEF HistoryInv, PunctualInv, Alive, Call, CallOf, ClaimRefused, Claims,
       Ends, GuardInv, Lock, LockInv, Locked, Mine, NumbersInv, Owns, Round, TypeOK, versionVars
  <2>2. CourseInv'
    BY <1>4, <2>0, NoneAssumption DEF HistoryInv, PunctualInv, Call, ClaimRefused, Claims, CourseInv,
       Decided, DecisionsInv, Ends, Entry, Locked, Mine, NumbersInv, OneActive, Punctual, Round, TypeOK,
       versionVars
  <2>3. ShownInv' /\ NamedInv'
    BY <1>4, <2>0 DEF HistoryInv, PunctualInv, At, ClaimRefused, Claims, CourseInv, Decisions, Ends, Entry,
       Mine, NamedInv, NumbersInv, Round, ShownInv, TypeOK, VersionsTypeOK, versionVars
  <2>4. ReportedIsDurable' /\ ConfirmNeedsDecision'
    BY <1>4, <2>0, NoneAssumption, BoundsAssumption DEF HistoryInv, PunctualInv, Call, ClaimRefused, Claims,
       ConfirmNeedsDecision, CourseInv, Ends, Entry, Mine, NumbersInv, OlderRecord, Punctual,
       ReportedIsDurable, Round, TypeOK, versionVars
  <2> QED BY <2>1, <2>2, <2>3, <2>4 DEF PunctualInv
<1> QED BY <1>1, <1>2, <1>3, <1>4 DEF HistoryInv

LEMMA UnlinkLockStep ==
  ASSUME HistoryInv, NEW p \in Processes, job[p] = None, UnlinkLock(p), UNCHANGED versionVars
  PROVE  HistoryInv'
<1>1. TypeOK' /\ NumbersInv'
  BY NoneAssumption, BoundsAssumption DEF HistoryInv, Call, CallOf, Entry, Goes, Lock, Locked, Mine,
     NumbersInv, OlderRecord, Positions, Round, TypeOK, UnlinkLock, versionVars
<1>2. DecisionsInv' /\ FenceInv' /\ GuardInv'
  BY NoneAssumption DEF HistoryInv, At, Call, CallOf, DecisionsInv, Early, Entry, FenceInv, Goes, GuardInv,
     Mine, NumbersInv, Round, TypeOK, UnlinkLock, versionVars
<1>3. LogInv' /\ VersionsTypeOK' /\ ForkInv'
  BY DEF HistoryInv, At, Entry, ForkInv, Goes, LogInv, Logged, Mine, NumbersInv, Round, RoundsOf, TypeOK,
     UnlinkLock, VersionsTypeOK, versionVars
<1>4. ASSUME Punctual' PROVE PunctualInv' /\ ReportedIsDurable' /\ ConfirmNeedsDecision'
  <2>0. PunctualInv /\ ReportedIsDurable /\ ConfirmNeedsDecision /\ OneActive
    BY <1>4, PunctualActive DEF HistoryInv, Punctual, TypeOK, UnlinkLock
  <2>1. LockInv'
    BY <1>4, <2>0, NoneAssumption DEF HistoryInv, PunctualInv, Alive, Call, CallOf, Claims, Goes, GuardInv,
       Lock, LockInv, Locked, Mine, NumbersInv, Owns, Round, TypeOK, UnlinkLock, versionVars
  <2>2. CourseInv'
    BY <1>4, <2>0, NoneAssumption DEF HistoryInv, PunctualInv, Call, CourseInv, Decided, DecisionsInv, Entry,
       Goes, Locked, Mine, NumbersInv, OneActive, Punctual, Round, TypeOK, UnlinkLock, versionVars
  <2>3. ShownInv' /\ NamedInv'
    BY <1>4, <2>0 DEF HistoryInv, PunctualInv, At, CourseInv, Decisions, Entry, Goes, Mine, NamedInv,
       NumbersInv, Round, ShownInv, TypeOK, UnlinkLock, VersionsTypeOK, versionVars
  <2>4. ReportedIsDurable' /\ ConfirmNeedsDecision'
    BY <1>4, <2>0, NoneAssumption, BoundsAssumption DEF HistoryInv, PunctualInv, Call, ConfirmNeedsDecision,
       CourseInv, Entry, Goes, Mine, NumbersInv, OlderRecord, Punctual, ReportedIsDurable, Round, TypeOK,
       UnlinkLock, versionVars
  <2> QED BY <2>1, <2>2, <2>3, <2>4 DEF PunctualInv
<1> QED BY <1>1, <1>2, <1>3, <1>4 DEF HistoryInv

LEMMA LeaveRecoveryStep ==
  ASSUME HistoryInv, NEW p \in Processes, job[p] = None, LeaveRecovery(p), UNCHANGED versionVars
  PROVE  HistoryInv'
<1>1. TypeOK' /\ NumbersInv'
  BY NoneAssumption, BoundsAssumption DEF HistoryInv, Call, CallOf, Entry, Goes, LeaveRecovery, Lock, Locked,
     Mine, NumbersInv, OlderRecord, Positions, Round, TypeOK, versionVars
<1>2. DecisionsInv' /\ FenceInv' /\ GuardInv'
  BY NoneAssumption DEF HistoryInv, At, Call, CallOf, DecisionsInv, Early, Entry, FenceInv, Goes, GuardInv,
     LeaveRecovery, Mine, NumbersInv, Round, TypeOK, versionVars
<1>3. LogInv' /\ VersionsTypeOK' /\ ForkInv'
  BY DEF HistoryInv, At, Entry, ForkInv, Goes, LeaveRecovery, LogInv, Logged, Mine, NumbersInv, Round,
     RoundsOf, TypeOK, VersionsTypeOK, versionVars
<1>4. ASSUME Punctual' PROVE PunctualInv' /\ ReportedIsDurable' /\ ConfirmNeedsDecision'
  <2>0. PunctualInv /\ ReportedIsDurable /\ ConfirmNeedsDecision /\ OneActive
    BY <1>4, PunctualActive DEF HistoryInv, LeaveRecovery, Punctual, TypeOK
  <2>1. LockInv'
    BY <1>4, <2>0, NoneAssumption DEF HistoryInv, PunctualInv, Alive, Call, CallOf, Claims, Goes, GuardInv,
       LeaveRecovery, Lock, LockInv, Locked, Mine, NumbersInv, Owns, Round, TypeOK, versionVars
  <2>2. CourseInv'
    BY <1>4, <2>0, NoneAssumption DEF HistoryInv, PunctualInv, Call, CourseInv, Decided, DecisionsInv, Entry,
       Goes, LeaveRecovery, Locked, Mine, NumbersInv, OneActive, Punctual, Round, TypeOK, versionVars
  <2>3. ShownInv' /\ NamedInv'
    BY <1>4, <2>0 DEF HistoryInv, PunctualInv, At, CourseInv, Decisions, Entry, Goes, LeaveRecovery, Mine,
       NamedInv, NumbersInv, Round, ShownInv, TypeOK, VersionsTypeOK, versionVars
  <2>4. ReportedIsDurable' /\ ConfirmNeedsDecision'
    BY <1>4, <2>0, NoneAssumption, BoundsAssumption DEF HistoryInv, PunctualInv, Call, ConfirmNeedsDecision,
       CourseInv, Entry, Goes, LeaveRecovery, Mine, NumbersInv, OlderRecord, Punctual, ReportedIsDurable,
       Round, TypeOK, versionVars
  <2> QED BY <2>1, <2>2, <2>3, <2>4 DEF PunctualInv
<1> QED BY <1>1, <1>2, <1>3, <1>4 DEF HistoryInv

LEMMA RepairStep ==
  ASSUME HistoryInv, NEW p \in Processes, job[p] = None, Repair(p), UNCHANGED versionVars
  PROVE  HistoryInv'
<1>a. /\ entry[Round(p)] \in Entry /\ run[p] \in Call /\ Round(p) \in Rounds /\ pc[p] = "check"
  BY OwnNumber DEF Repair, Bound, HistoryInv, TypeOK, Round, Call
<1>b. /\ run'[p] \in Call /\ run'[p].call = run[p].call /\ run'[p].round = run[p].round
      /\ run'[p].binding = run[p].binding
      /\ run'[p].id = entry[Round(p)].id /\ run'[p].confirms = entry[Round(p)].confirms
  BY <1>a DEF Repair, HistoryInv, NumbersInv, Entry, Call, Round
<1>c. /\ \A q \in Processes \ {p} : run'[q] = run[q]
      /\ run' = [q \in Processes |-> run'[q]]
  BY DEF Repair, HistoryInv, NumbersInv
<1>d. /\ pc' = [pc EXCEPT ![p] = "register"] /\ Bound(p)
      /\ UNCHANGED <<lock, guard, entry, confirm, log, ledger, fence, seen, calls, sleeps, reported>>
  BY DEF Repair, Goes, disk
<1>e. run'[p].id \in 1 .. calls
  BY <1>a, <1>b, NoneAssumption DEF HistoryInv, NumbersInv, Bound, Round
<1>1. TypeOK' /\ NumbersInv'
  BY NoneAssumption, BoundsAssumption, <1>a, <1>b, <1>c, <1>d, <1>e DEF HistoryInv, Bound, Call, CallOf,
     Entry, Lock, Locked, Mine, NumbersInv, OlderRecord, Positions, Round, TypeOK, versionVars
<1>2. DecisionsInv' /\ FenceInv' /\ GuardInv'
  BY NoneAssumption, <1>a, <1>b, <1>c, <1>d, <1>e DEF HistoryInv, At, Bound, Call, CallOf, DecisionsInv,
     Early, Entry, FenceInv, GuardInv, Mine, NumbersInv, Round, TypeOK, versionVars
<1>3. LogInv' /\ VersionsTypeOK' /\ ForkInv'
  BY <1>a, <1>b, <1>c, <1>d, <1>e DEF HistoryInv, At, Bound, Entry, ForkInv, LogInv, Logged, Mine,
     NumbersInv, Round, RoundsOf, TypeOK, VersionsTypeOK, versionVars
<1>4. ASSUME Punctual' PROVE PunctualInv' /\ ReportedIsDurable' /\ ConfirmNeedsDecision'
  <2>0. PunctualInv /\ ReportedIsDurable /\ ConfirmNeedsDecision /\ OneActive
    BY <1>4, PunctualActive DEF HistoryInv, Punctual, Repair, TypeOK, disk
  <2>1. LockInv'
    BY <1>4, <2>0, NoneAssumption, <1>a, <1>b, <1>c, <1>d, <1>e DEF HistoryInv, PunctualInv, Alive, Bound,
       Call, CallOf, Claims, GuardInv, Lock, LockInv, Locked, Mine, NumbersInv, Owns, Round, TypeOK,
       versionVars
  <2>2. CourseInv'
    <3>1. \A q \in Processes \ {p} : pc'[q] = pc[q] /\ run'[q] = run[q] /\ Round(q)' = Round(q)
      BY <1>c, <1>d DEF HistoryInv, TypeOK, Round
    <3>2. /\ pc'[p] = "register" /\ Round(p)' = Round(p) /\ entry[Round(p)] # None
          /\ entry[Round(p)].id = run'[p].id /\ entry[Round(p)].confirms = run'[p].confirms
      BY <1>a, <1>b, <1>d DEF HistoryInv, TypeOK, Round, Bound
    <3>3. UNCHANGED <<entry, confirm, ledger, seen>>
      BY <1>d
    <3> QED BY <2>0, <3>1, <3>2, <3>3 DEF PunctualInv, CourseInv, Decided
  <2>3. ShownInv' /\ NamedInv'
    BY <1>4, <2>0, <1>a, <1>b, <1>c, <1>d, <1>e DEF HistoryInv, PunctualInv, At, Bound, CourseInv, Decisions,
       Entry, Mine, NamedInv, NumbersInv, Round, ShownInv, TypeOK, VersionsTypeOK, versionVars
  <2>4. ReportedIsDurable' /\ ConfirmNeedsDecision'
    BY <1>4, <2>0, NoneAssumption, BoundsAssumption, <1>a, <1>b, <1>c, <1>d, <1>e DEF HistoryInv,
       PunctualInv, Bound, Call, ConfirmNeedsDecision, CourseInv, Entry, Mine, NumbersInv, OlderRecord,
       Punctual, ReportedIsDurable, Round, TypeOK, versionVars
  <2> QED BY <2>1, <2>2, <2>3, <2>4 DEF PunctualInv
<1> QED BY <1>1, <1>2, <1>3, <1>4 DEF HistoryInv

LEMMA ConflictStep ==
  ASSUME HistoryInv, NEW p \in Processes, job[p] = None, Conflict(p), UNCHANGED versionVars
  PROVE  HistoryInv'
<1>1. TypeOK' /\ NumbersInv'
  BY NoneAssumption, BoundsAssumption DEF HistoryInv, Bound, Call, CallOf, Conflict, Entry, Goes, Keeps,
     Lock, Locked, Mine, NumbersInv, OlderRecord, Positions, Round, TypeOK, disk, versionVars
<1>2. DecisionsInv' /\ FenceInv' /\ GuardInv'
  BY NoneAssumption DEF HistoryInv, At, Bound, Call, CallOf, Conflict, DecisionsInv, Early, Entry, FenceInv,
     Goes, GuardInv, Keeps, Mine, NumbersInv, Round, TypeOK, disk, versionVars
<1>3. LogInv' /\ VersionsTypeOK' /\ ForkInv'
  BY DEF HistoryInv, At, Bound, Conflict, Entry, ForkInv, Goes, Keeps, LogInv, Logged, Mine, NumbersInv,
     Round, RoundsOf, TypeOK, VersionsTypeOK, disk, versionVars
<1>4. ASSUME Punctual' PROVE PunctualInv' /\ ReportedIsDurable' /\ ConfirmNeedsDecision'
  <2>0. PunctualInv /\ ReportedIsDurable /\ ConfirmNeedsDecision /\ OneActive
    BY <1>4, PunctualActive DEF Conflict, HistoryInv, Keeps, Punctual, TypeOK, disk
  <2>1. LockInv'
    BY <1>4, <2>0, NoneAssumption DEF HistoryInv, PunctualInv, Alive, Bound, Call, CallOf, Claims, Conflict,
       Goes, GuardInv, Keeps, Lock, LockInv, Locked, Mine, NumbersInv, Owns, Round, TypeOK, disk, versionVars
  <2>2. CourseInv'
    BY <1>4, <2>0, NoneAssumption DEF HistoryInv, PunctualInv, Bound, Call, Conflict, CourseInv, Decided,
       DecisionsInv, Entry, Goes, Keeps, Locked, Mine, NumbersInv, OneActive, Punctual, Round, TypeOK, disk,
       versionVars
  <2>3. ShownInv' /\ NamedInv'
    BY <1>4, <2>0 DEF HistoryInv, PunctualInv, At, Bound, Conflict, CourseInv, Decisions, Entry, Goes, Keeps,
       Mine, NamedInv, NumbersInv, Round, ShownInv, TypeOK, VersionsTypeOK, disk, versionVars
  <2>4. ReportedIsDurable' /\ ConfirmNeedsDecision'
    BY <1>4, <2>0, NoneAssumption, BoundsAssumption DEF HistoryInv, PunctualInv, Bound, Call,
       ConfirmNeedsDecision, Conflict, CourseInv, Entry, Goes, Keeps, Mine, NumbersInv, OlderRecord,
       Punctual, ReportedIsDurable, Round, TypeOK, disk, versionVars
  <2> QED BY <2>1, <2>2, <2>3, <2>4 DEF PunctualInv
<1> QED BY <1>1, <1>2, <1>3, <1>4 DEF HistoryInv

LEMMA CollectStep ==
  ASSUME HistoryInv, NEW p \in Processes, job[p] = None, Collect(p), UNCHANGED versionVars
  PROVE  HistoryInv'
<1>1. TypeOK' /\ NumbersInv'
  BY NoneAssumption, BoundsAssumption DEF HistoryInv, Call, CallOf, Collect, Entry, Goes, Keeps, Lock,
     Locked, Mine, NumbersInv, OlderRecord, Positions, Round, TypeOK, disk, versionVars
<1>2. DecisionsInv' /\ FenceInv' /\ GuardInv'
  BY NoneAssumption DEF HistoryInv, At, Call, CallOf, Collect, DecisionsInv, Early, Entry, FenceInv, Goes,
     GuardInv, Keeps, Mine, NumbersInv, Round, TypeOK, disk, versionVars
<1>3. LogInv' /\ VersionsTypeOK' /\ ForkInv'
  BY DEF HistoryInv, At, Collect, Entry, ForkInv, Goes, Keeps, LogInv, Logged, Mine, NumbersInv, Round,
     RoundsOf, TypeOK, VersionsTypeOK, disk, versionVars
<1>4. ASSUME Punctual' PROVE PunctualInv' /\ ReportedIsDurable' /\ ConfirmNeedsDecision'
  <2>0. PunctualInv /\ ReportedIsDurable /\ ConfirmNeedsDecision /\ OneActive
    BY <1>4, PunctualActive DEF Collect, HistoryInv, Keeps, Punctual, TypeOK, disk
  <2>1. LockInv'
    BY <1>4, <2>0, NoneAssumption DEF HistoryInv, PunctualInv, Alive, Call, CallOf, Claims, Collect, Goes,
       GuardInv, Keeps, Lock, LockInv, Locked, Mine, NumbersInv, Owns, Round, TypeOK, disk, versionVars
  <2>2. CourseInv'
    BY <1>4, <2>0, NoneAssumption DEF HistoryInv, PunctualInv, Call, Collect, CourseInv, Decided,
       DecisionsInv, Entry, Goes, Keeps, Locked, Mine, NumbersInv, OneActive, Punctual, Round, TypeOK, disk,
       versionVars
  <2>3. ShownInv' /\ NamedInv'
    BY <1>4, <2>0 DEF HistoryInv, PunctualInv, At, Collect, CourseInv, Decisions, Entry, Goes, Keeps, Mine,
       NamedInv, NumbersInv, Round, ShownInv, TypeOK, VersionsTypeOK, disk, versionVars
  <2>4. ReportedIsDurable' /\ ConfirmNeedsDecision'
    BY <1>4, <2>0, NoneAssumption, BoundsAssumption DEF HistoryInv, PunctualInv, Call, Collect,
       ConfirmNeedsDecision, CourseInv, Entry, Goes, Keeps, Mine, NumbersInv, OlderRecord, Punctual,
       ReportedIsDurable, Round, TypeOK, disk, versionVars
  <2> QED BY <2>1, <2>2, <2>3, <2>4 DEF PunctualInv
<1> QED BY <1>1, <1>2, <1>3, <1>4 DEF HistoryInv

LEMMA FailsStep ==
  ASSUME HistoryInv, NEW p \in Processes, job[p] = None, Fails(p), UNCHANGED versionVars
  PROVE  HistoryInv'
<1>1. TypeOK' /\ NumbersInv'
  BY NoneAssumption, BoundsAssumption DEF HistoryInv, Call, CallOf, Entry, Fails, Goes, Lock, Locked, Mine,
     NumbersInv, OlderRecord, Positions, Round, TypeOK, disk, versionVars
<1>2. DecisionsInv' /\ GuardInv'
  BY NoneAssumption DEF HistoryInv, Call, CallOf, DecisionsInv, Early, Entry, Fails, Goes, GuardInv, Mine,
     NumbersInv, Round, TypeOK, disk, versionVars
<1>3. FenceInv'
  <2>1. pc[p] # "idle"
    BY DEF Fails
  <2> QED BY <2>1, OwnNumber DEF HistoryInv, TypeOK, NumbersInv, FenceInv, At, Fails, Goes, Mine, disk, versionVars
<1>4. LogInv' /\ VersionsTypeOK' /\ ForkInv'
  BY DEF HistoryInv, At, Entry, Fails, ForkInv, Goes, LogInv, Logged, Mine, NumbersInv, Round, RoundsOf,
     TypeOK, VersionsTypeOK, disk, versionVars
<1>5. ASSUME Punctual' PROVE PunctualInv' /\ ReportedIsDurable' /\ ConfirmNeedsDecision'
  <2>0. PunctualInv /\ ReportedIsDurable /\ ConfirmNeedsDecision /\ OneActive
    BY <1>5, PunctualActive DEF Fails, HistoryInv, Punctual, TypeOK, disk
  <2>1. LockInv'
    BY <1>5, <2>0, NoneAssumption DEF HistoryInv, PunctualInv, Alive, Call, CallOf, Claims, Fails, Goes,
       GuardInv, Lock, LockInv, Locked, Mine, NumbersInv, Owns, Round, TypeOK, disk, versionVars
  <2>2. CourseInv'
    BY <1>5, <2>0, NoneAssumption DEF HistoryInv, PunctualInv, Call, CourseInv, Decided, DecisionsInv, Entry,
       Fails, Goes, Locked, Mine, NumbersInv, OneActive, Punctual, Round, TypeOK, disk, versionVars
  <2>3. ShownInv' /\ NamedInv'
    BY <1>5, <2>0 DEF HistoryInv, PunctualInv, At, CourseInv, Decisions, Entry, Fails, Goes, Mine, NamedInv,
       NumbersInv, Round, ShownInv, TypeOK, VersionsTypeOK, disk, versionVars
  <2>4. ReportedIsDurable' /\ ConfirmNeedsDecision'
    BY <1>5, <2>0, NoneAssumption, BoundsAssumption DEF HistoryInv, PunctualInv, Call, ConfirmNeedsDecision,
       CourseInv, Entry, Fails, Goes, Mine, NumbersInv, OlderRecord, Punctual, ReportedIsDurable, Round,
       TypeOK, disk, versionVars
  <2> QED BY <2>1, <2>2, <2>3, <2>4 DEF PunctualInv
<1> QED BY <1>1, <1>2, <1>3, <1>4, <1>5 DEF HistoryInv

LEMMA CommitEntryStep ==
  ASSUME HistoryInv, NEW p \in Processes, job[p] = None, CommitEntry(p), UNCHANGED versionVars
  PROVE  HistoryInv'
<1>a. PICK confirms \in BOOLEAN :
        /\ entry' = [entry EXCEPT ![Round(p)] =
                       [id |-> run[p].id, binding |-> run[p].binding, confirms |-> confirms]]
        /\ run' = [run EXCEPT ![p].confirms = confirms]
  BY DEF CommitEntry
<1>b. /\ run[p] \in Call /\ Round(p) \in Rounds /\ pc[p] = "collect"
      /\ run[p].id = run[p].call /\ run[p].id \in 1 .. calls
  BY OwnNumber DEF CommitEntry, HistoryInv, DecisionsInv, Round, Mine, Call
<1>c. /\ entry'[Round(p)] \in Entry /\ entry'[Round(p)] # None
      /\ entry'[Round(p)].id = run[p].id /\ entry'[Round(p)].confirms = confirms
      /\ \A r \in Rounds \ {Round(p)} : entry'[r] = entry[r]
      /\ entry' \in [Rounds -> Entry \cup {None}]
  BY <1>a, <1>b, NoneAssumption DEF HistoryInv, TypeOK, Entry, Call
<1>d. /\ run'[p] \in Call /\ run'[p].call = run[p].call /\ run'[p].round = run[p].round
      /\ run'[p].binding = run[p].binding
      /\ run'[p].id = run[p].id /\ run'[p].confirms = confirms
      /\ \A q \in Processes \ {p} : run'[q] = run[q]
      /\ run' = [q \in Processes |-> run'[q]]
  BY <1>a, <1>b DEF HistoryInv, NumbersInv, Call
<1>e. /\ pc' = [pc EXCEPT ![p] = "register"]
      /\ UNCHANGED <<lock, guard, confirm, log, ledger, fence, seen, calls, sleeps, reported>>
  BY DEF CommitEntry, Goes
<1>f. \A r \in Rounds : entry[r] # None => entry[r].id # run[p].id
  BY <1>b DEF HistoryInv, DecisionsInv, Early, Mine
<1>g. \A r \in Rounds : entry[r] # None => entry'[r] # None
  BY <1>c
<1>1. TypeOK'
  BY NoneAssumption, BoundsAssumption, <1>b, <1>c, <1>d, <1>e, <1>f DEF HistoryInv, Call, Entry, Lock,
     Locked, Mine, NumbersInv, OlderRecord, Positions, Round, TypeOK, versionVars
<1>2. NumbersInv'
  BY NoneAssumption, <1>b, <1>c, <1>d, <1>e, <1>f DEF HistoryInv, Call, CallOf, Entry, Lock, Mine,
     NumbersInv, Round, TypeOK, versionVars
<1>3. FenceInv' /\ GuardInv'
  BY NoneAssumption, <1>b, <1>c, <1>d, <1>e, <1>f DEF HistoryInv, At, Call, CallOf, FenceInv, GuardInv, Mine,
     NumbersInv, Round, TypeOK, versionVars
<1>4. DecisionsInv'
  <2>1. \A q \in Processes \ {p} : pc[q] # "idle" => run[q].call # run[p].call
    BY <1>b, OwnNumber
  <2>2. \A q \in Processes : pc'[q] \in Early => q # p /\ pc'[q] = pc[q] /\ run'[q] = run[q]
    BY <1>d, <1>e DEF HistoryInv, TypeOK, Early
  <2>3. \A q \in Processes : pc'[q] \in Early =>
          \A r \in Rounds : entry'[r] # None => entry'[r].id # run'[q].call
    <3> SUFFICES ASSUME NEW q \in Processes, pc'[q] \in Early, NEW r \in Rounds, entry'[r] # None
                 PROVE  entry'[r].id # run[q].call
      BY <2>2
    <3>1. q # p /\ pc[q] \in Early
      BY <2>2
    <3>2. CASE r = Round(p)
      BY <1>b, <1>c, <2>1, <3>1, <3>2 DEF Early
    <3>3. CASE r # Round(p)
      BY <1>c, <3>1, <3>3 DEF HistoryInv, DecisionsInv, Mine
    <3> QED BY <3>2, <3>3
  <2>4. \A q \in Processes : pc'[q] \in Early => run'[q].id = run'[q].call \/ entry'[run'[q].round] # None
    BY <2>2, <1>g DEF HistoryInv, DecisionsInv, TypeOK, Mine, Round, Call, Early
  <2>5. \A q \in Processes : pc'[q] = "collect" => run'[q].id = run'[q].call
    BY <2>2 DEF HistoryInv, DecisionsInv, Mine, Early
  <2>6. \A r, s \in Rounds : entry'[r] # None /\ entry'[s] # None /\ entry'[r].id = entry'[s].id => r = s
    BY <1>c, <1>f DEF HistoryInv, DecisionsInv
  <2> QED BY <2>3, <2>4, <2>5, <2>6 DEF DecisionsInv, Mine, Round
<1>5. VersionsTypeOK' /\ ForkInv'
  BY <1>b, <1>c, <1>d, <1>e, <1>f DEF HistoryInv, At, ForkInv, Mine, NumbersInv, Round, TypeOK,
     VersionsTypeOK, versionVars
<1>6. LogInv'
  <2>1. /\ \A q \in Processes : pc'[q] = "write" => pc[q] = "write"
        /\ UNCHANGED <<log, seen, versions, found, shown, told, job>> /\ Logged' = Logged
    BY <1>b, <1>e DEF HistoryInv, TypeOK, Logged, versionVars
  <2>2. Logged \subseteq Rounds /\ \A q \in Processes : RoundsOf(seen[q]) \subseteq Rounds
    BY DEF HistoryInv, TypeOK, Logged, RoundsOf
  <2>3. \A q \in Processes : RoundsOf(seen'[q]) = RoundsOf(seen[q])
    BY <2>1
  <2> QED BY <2>1, <2>2, <2>3, <1>g DEF HistoryInv, LogInv, At
<1>7. ASSUME Punctual' PROVE PunctualInv' /\ ReportedIsDurable' /\ ConfirmNeedsDecision'
  <2>0. PunctualInv /\ ReportedIsDurable /\ ConfirmNeedsDecision /\ OneActive
    BY <1>7, PunctualActive DEF CommitEntry, HistoryInv, Punctual, TypeOK
  <2>a. /\ entry[Round(p)] = None /\ confirm[Round(p)] = 0
        /\ \A r \in Rounds : entry[r] # None => r # Round(p) /\ entry'[r] = entry[r]
    BY <2>0, <1>b, <1>c DEF PunctualInv, CourseInv
  <2>b. \A q \in Processes \ {p} : pc[q] \in Locked => Round(q) # Round(p)
    BY <1>7, <2>0, <1>b, <1>e DEF OneActive, Punctual, Locked
  <2>1. LockInv'
    BY <1>7, <2>0, NoneAssumption, <1>b, <1>c, <1>d, <1>e, <1>f DEF HistoryInv, PunctualInv, Alive, Call,
       CallOf, Claims, GuardInv, Lock, LockInv, Locked, Mine, NumbersInv, Owns, Round, TypeOK, versionVars
  <2>2. CourseInv'
    <3>1. \A q \in Processes \ {p} : pc'[q] = pc[q] /\ run'[q] = run[q] /\ Round(q)' = Round(q)
      BY <1>d, <1>e DEF HistoryInv, TypeOK, Round
    <3>2. \A q \in Processes \ {p} : pc[q] \in Locked => entry'[Round(q)] = entry[Round(q)]
      BY <2>b, <1>c DEF HistoryInv, TypeOK, Round, Call, Locked
    <3>3. Decided \cup {"collect"} \subseteq Locked /\ "collect" \notin Decided /\ "register" \notin {"read", "write"}
      BY DEF Decided, Locked
    <3>4. Round(p)' = Round(p) /\ pc'[p] = "register" /\ UNCHANGED <<confirm, ledger, seen>>
      BY <1>b, <1>d, <1>e DEF HistoryInv, TypeOK, Round
    <3> SUFFICES ASSUME NEW q \in Processes
                 PROVE  /\ pc'[q] = "collect" => entry'[Round(q)'] = None /\ confirm'[Round(q)'] = 0
                        /\ pc'[q] \in Decided => /\ entry'[Round(q)'] # None
                                                 /\ entry'[Round(q)'].id = run'[q].id
                                                 /\ entry'[Round(q)'].confirms = run'[q].confirms
                        /\ pc'[q] \in Decided \ {"register"} => Round(q)' \in ledger'
                        /\ pc'[q] \in {"read", "write"} =>
                             confirm'[Round(q)'] = IF run'[q].confirms THEN run'[q].id ELSE 0
                        /\ pc'[q] = "write" => <<Round(q)', run'[q].id>> \in seen'[q]
      BY DEF CourseInv
    <3>5. CASE q = p
      BY <3>3, <3>4, <3>5, <1>c, <1>d
    <3>6. CASE q # p
      BY <2>0, <3>1, <3>2, <3>3, <3>4, <3>6 DEF PunctualInv, CourseInv, Decided
    <3> QED BY <3>5, <3>6
  <2>3. ShownInv'
    <3>1. Decisions \subseteq Decisions'
      BY <2>a, NoneAssumption DEF Decisions
    <3>2. \A q \in Processes : pc'[q] = "write" => pc[q] = "write"
      BY <1>b, <1>e DEF HistoryInv, TypeOK
    <3> QED BY <2>0, <2>a, <3>1, <3>2, <1>e DEF PunctualInv, ShownInv, At, versionVars
  <2>4. NamedInv'
    BY <2>0, <2>a DEF HistoryInv, PunctualInv, NamedInv, VersionsTypeOK, versionVars
  <2>5. ReportedIsDurable'
    <3>1. run[p].id \notin reported /\ Punctual
      BY <1>7, <2>0, <1>e, <1>f DEF PunctualInv, ShownInv, Punctual
    <3>2. UNCHANGED <<confirm, ledger, log, reported>>
      BY <1>e
    <3> QED BY <2>0, <2>a, <3>1, <3>2, <1>c DEF ReportedIsDurable
  <2>6. ConfirmNeedsDecision'
    <3>1. Punctual /\ UNCHANGED confirm
      BY <1>7, <1>e DEF Punctual
    <3>2. \A r \in Rounds : confirm[r] # 0 => r # Round(p)
      BY <2>a
    <3> QED BY <2>0, <2>a, <3>1, <3>2, <1>c DEF ConfirmNeedsDecision, OlderRecord
  <2> QED BY <2>1, <2>2, <2>3, <2>4, <2>5, <2>6 DEF PunctualInv
<1> QED BY <1>1, <1>2, <1>3, <1>4, <1>5, <1>6, <1>7 DEF HistoryInv

LEMMA RegisterStep ==
  ASSUME HistoryInv, NEW p \in Processes, job[p] = None, Register(p), UNCHANGED versionVars
  PROVE  HistoryInv'
<1>1. TypeOK' /\ NumbersInv'
  BY NoneAssumption, BoundsAssumption DEF HistoryInv, Call, CallOf, Entry, Goes, Lock, Locked, Mine,
     NumbersInv, OlderRecord, Positions, Register, Round, TypeOK, versionVars
<1>2. DecisionsInv' /\ FenceInv' /\ GuardInv'
  BY NoneAssumption DEF HistoryInv, At, Call, CallOf, DecisionsInv, Early, Entry, FenceInv, Goes, GuardInv,
     Mine, NumbersInv, Register, Round, TypeOK, versionVars
<1>3. LogInv' /\ VersionsTypeOK' /\ ForkInv'
  BY DEF HistoryInv, At, Entry, ForkInv, Goes, LogInv, Logged, Mine, NumbersInv, Register, Round, RoundsOf,
     TypeOK, VersionsTypeOK, versionVars
<1>4. ASSUME Punctual' PROVE PunctualInv' /\ ReportedIsDurable' /\ ConfirmNeedsDecision'
  <2>0. PunctualInv /\ ReportedIsDurable /\ ConfirmNeedsDecision /\ OneActive
    BY <1>4, PunctualActive DEF HistoryInv, Punctual, Register, TypeOK
  <2>1. LockInv'
    BY <1>4, <2>0, NoneAssumption DEF HistoryInv, PunctualInv, Alive, Call, CallOf, Claims, Goes, GuardInv,
       Lock, LockInv, Locked, Mine, NumbersInv, Owns, Register, Round, TypeOK, versionVars
  <2>2. CourseInv'
    BY <1>4, <2>0, NoneAssumption DEF HistoryInv, PunctualInv, Call, CourseInv, Decided, DecisionsInv, Entry,
       Goes, Locked, Mine, NumbersInv, OneActive, Punctual, Register, Round, TypeOK, versionVars
  <2>3. ShownInv' /\ NamedInv'
    BY <1>4, <2>0 DEF HistoryInv, PunctualInv, At, CourseInv, Decisions, Entry, Goes, Mine, NamedInv,
       NumbersInv, Register, Round, ShownInv, TypeOK, VersionsTypeOK, versionVars
  <2>4. ReportedIsDurable' /\ ConfirmNeedsDecision'
    BY <1>4, <2>0, NoneAssumption, BoundsAssumption DEF HistoryInv, PunctualInv, Call, ConfirmNeedsDecision,
       CourseInv, Entry, Goes, Mine, NumbersInv, OlderRecord, Punctual, Register, ReportedIsDurable, Round,
       TypeOK, versionVars
  <2> QED BY <2>1, <2>2, <2>3, <2>4 DEF PunctualInv
<1> QED BY <1>1, <1>2, <1>3, <1>4 DEF HistoryInv

LEMMA EnterProjectionStep ==
  ASSUME HistoryInv, NEW p \in Processes, job[p] = None, EnterProjection(p), UNCHANGED versionVars
  PROVE  HistoryInv'
<1>1. TypeOK' /\ NumbersInv'
  BY NoneAssumption, BoundsAssumption DEF HistoryInv, Call, CallOf, EnterProjection, Entry, Goes, Lock,
     Locked, Mine, NumbersInv, OlderRecord, Positions, Round, TypeOK, disk, versionVars
<1>2. DecisionsInv' /\ GuardInv'
  BY NoneAssumption DEF HistoryInv, Call, CallOf, DecisionsInv, Early, EnterProjection, Entry, Goes,
     GuardInv, Mine, NumbersInv, Round, TypeOK, disk, versionVars
<1>3. FenceInv'
  <2>1. fence = None /\ run[p].call # None /\ pc[p] = "project"
    BY OwnNumber DEF EnterProjection
  <2>2. \A q \in Processes \ {p} : pc[q] # "idle" => run[q].call # None
    BY OwnNumber
  <2>3. \A q \in Processes : job[q] # None => job[q].call # None
    BY OwnJobNumber
  <2> QED BY <2>1, <2>2, <2>3 DEF HistoryInv, TypeOK, FenceInv, At, EnterProjection, Goes, Mine, disk, versionVars
<1>4. LogInv' /\ VersionsTypeOK' /\ ForkInv'
  BY DEF HistoryInv, At, EnterProjection, Entry, ForkInv, Goes, LogInv, Logged, Mine, NumbersInv, Round,
     RoundsOf, TypeOK, VersionsTypeOK, disk, versionVars
<1>5. ASSUME Punctual' PROVE PunctualInv' /\ ReportedIsDurable' /\ ConfirmNeedsDecision'
  <2>0. PunctualInv /\ ReportedIsDurable /\ ConfirmNeedsDecision /\ OneActive
    BY <1>5, PunctualActive DEF EnterProjection, HistoryInv, Punctual, TypeOK, disk
  <2>1. LockInv'
    BY <1>5, <2>0, NoneAssumption DEF HistoryInv, PunctualInv, Alive, Call, CallOf, Claims, EnterProjection,
       Goes, GuardInv, Lock, LockInv, Locked, Mine, NumbersInv, Owns, Round, TypeOK, disk, versionVars
  <2>2. CourseInv'
    BY <1>5, <2>0, NoneAssumption DEF HistoryInv, PunctualInv, Call, CourseInv, Decided, DecisionsInv,
       EnterProjection, Entry, Goes, Locked, Mine, NumbersInv, OneActive, Punctual, Round, TypeOK, disk,
       versionVars
  <2>3. ShownInv' /\ NamedInv'
    BY <1>5, <2>0 DEF HistoryInv, PunctualInv, At, CourseInv, Decisions, EnterProjection, Entry, Goes, Mine,
       NamedInv, NumbersInv, Round, ShownInv, TypeOK, VersionsTypeOK, disk, versionVars
  <2>4. ReportedIsDurable' /\ ConfirmNeedsDecision'
    BY <1>5, <2>0, NoneAssumption, BoundsAssumption DEF HistoryInv, PunctualInv, Call, ConfirmNeedsDecision,
       CourseInv, EnterProjection, Entry, Goes, Mine, NumbersInv, OlderRecord, Punctual, ReportedIsDurable,
       Round, TypeOK, disk, versionVars
  <2> QED BY <2>1, <2>2, <2>3, <2>4 DEF PunctualInv
<1> QED BY <1>1, <1>2, <1>3, <1>4, <1>5 DEF HistoryInv

LEMMA WriteConfirmStep ==
  ASSUME HistoryInv, NEW p \in Processes, job[p] = None, WriteConfirm(p), UNCHANGED versionVars
  PROVE  HistoryInv'
<1>a. /\ confirm' = IF run[p].confirms THEN [confirm EXCEPT ![Round(p)] = run[p].id] ELSE confirm
      /\ ConfirmHolds(p) /\ run[p] \in Call /\ Round(p) \in Rounds /\ pc[p] = "confirm"
  BY OwnNumber DEF WriteConfirm, HistoryInv, Round, Call
<1>b. /\ run[p].confirms => confirm'[Round(p)] = run[p].id
      /\ ~run[p].confirms => confirm'[Round(p)] = confirm[Round(p)] /\ confirm[Round(p)] = 0
      /\ \A r \in Rounds \ {Round(p)} : confirm'[r] = confirm[r]
  BY <1>a DEF HistoryInv, TypeOK, ConfirmHolds, Call
<1>1. TypeOK' /\ NumbersInv'
  BY NoneAssumption, BoundsAssumption DEF HistoryInv, Call, CallOf, ConfirmHolds, Entry, Goes, Lock, Locked,
     Mine, NumbersInv, OlderRecord, Positions, Round, TypeOK, WriteConfirm, versionVars
<1>2. DecisionsInv' /\ FenceInv' /\ GuardInv'
  BY NoneAssumption DEF HistoryInv, At, Call, CallOf, ConfirmHolds, DecisionsInv, Early, Entry, FenceInv,
     Goes, GuardInv, Mine, NumbersInv, Round, TypeOK, WriteConfirm, versionVars
<1>3. LogInv' /\ VersionsTypeOK' /\ ForkInv'
  BY DEF HistoryInv, At, ConfirmHolds, Entry, ForkInv, Goes, LogInv, Logged, Mine, NumbersInv, Round,
     RoundsOf, TypeOK, VersionsTypeOK, WriteConfirm, versionVars
<1>4. ASSUME Punctual' PROVE PunctualInv' /\ ReportedIsDurable' /\ ConfirmNeedsDecision'
  <2>0. PunctualInv /\ ReportedIsDurable /\ ConfirmNeedsDecision /\ OneActive
    BY <1>4, PunctualActive DEF HistoryInv, Punctual, TypeOK, WriteConfirm
  <2>a. /\ UNCHANGED <<entry, log, ledger, reported, run>>
        /\ entry[Round(p)] # None /\ entry[Round(p)].id = run[p].id
        /\ entry[Round(p)].confirms = run[p].confirms /\ run[p].confirms \in BOOLEAN
    BY <2>0, <1>a DEF WriteConfirm, PunctualInv, CourseInv, Decided, Call
  <2>b. run[p].id \in 1 .. calls /\ run[p].id # OlderRecord /\ run[p].id # 0
    BY <1>a, BoundsAssumption DEF HistoryInv, NumbersInv, TypeOK, OlderRecord
  <2>c. \A q \in Processes \ {p} : /\ pc'[q] = pc[q]
                                   /\ pc[q] \in Locked => confirm'[Round(q)] = confirm[Round(q)]
    <3>1. Punctual /\ pc[p] \in Locked /\ pc' = [pc EXCEPT ![p] = "read"]
      BY <1>4, <1>a DEF WriteConfirm, Goes, Punctual, Locked
    <3>2. \A q \in Processes : pc[q] \in Locked => Round(q) \in Rounds
      BY OwnNumber DEF Round, Call, Locked
    <3> QED BY <2>0, <1>b, <3>1, <3>2 DEF OneActive, HistoryInv, TypeOK
  <2>1. LockInv'
    BY <1>4, <2>0, NoneAssumption DEF HistoryInv, PunctualInv, Alive, Call, CallOf, Claims, ConfirmHolds,
       Goes, GuardInv, Lock, LockInv, Locked, Mine, NumbersInv, Owns, Round, TypeOK, WriteConfirm,
       versionVars
  <2>2. CourseInv'
    <3>1. pc'[p] = "read" /\ UNCHANGED <<run, seen>> /\ \A q \in Processes : Round(q)' = Round(q)
      BY DEF WriteConfirm, Goes, Round, HistoryInv, TypeOK
    <3>2. confirm'[Round(p)] = IF run[p].confirms THEN run[p].id ELSE 0
      BY <1>b
    <3>3. Decided \cup {"collect"} \subseteq Locked
      BY DEF Decided, Locked
    <3>4. Round(p) \in ledger
      BY <2>0, <1>a DEF PunctualInv, CourseInv, Decided
    <3> QED BY <2>0, <2>a, <2>c, <3>1, <3>2, <3>3, <3>4 DEF PunctualInv, CourseInv, Decided
  <2>3. ShownInv' /\ NamedInv'
    BY <1>4, <2>0 DEF HistoryInv, PunctualInv, At, ConfirmHolds, CourseInv, Decisions, Entry, Goes, Mine,
       NamedInv, NumbersInv, Round, ShownInv, TypeOK, VersionsTypeOK, WriteConfirm, versionVars
  <2>4. ReportedIsDurable'
    <3> SUFFICES ASSUME NEW r \in Rounds, entry[r] # None, entry[r].id \in reported
                 PROVE  /\ r \in ledger /\ <<r, entry[r].id>> \in log
                        /\ confirm'[r] = IF entry[r].confirms THEN entry[r].id ELSE 0
      BY <2>a DEF ReportedIsDurable
    <3>1. CASE r = Round(p)
      BY <1>4, <2>0, <2>a, <1>a, <1>b, <3>1 DEF ReportedIsDurable, WriteConfirm, Punctual
    <3>2. CASE r # Round(p)
      BY <1>4, <2>0, <1>b, <3>2 DEF ReportedIsDurable, WriteConfirm, Punctual
    <3> QED BY <3>1, <3>2
  <2>5. ConfirmNeedsDecision'
    <3> SUFFICES ASSUME NEW r \in Rounds, confirm'[r] # 0
                 PROVE  IF confirm'[r] = OlderRecord THEN entry[r] = None
                        ELSE entry[r] # None /\ entry[r].id = confirm'[r] /\ entry[r].confirms
      BY <2>a DEF ConfirmNeedsDecision, OlderRecord
    <3>1. CASE r = Round(p)
      BY <2>a, <2>b, <1>b, <3>1
    <3>2. CASE r # Round(p)
      BY <1>4, <2>0, <1>b, <3>2 DEF ConfirmNeedsDecision, WriteConfirm, Punctual
    <3> QED BY <3>1, <3>2
  <2> QED BY <2>1, <2>2, <2>3, <2>4, <2>5 DEF PunctualInv
<1> QED BY <1>1, <1>2, <1>3, <1>4 DEF HistoryInv

LEMMA ConfirmMismatchStep ==
  ASSUME HistoryInv, NEW p \in Processes, job[p] = None, ConfirmMismatch(p), UNCHANGED versionVars
  PROVE  HistoryInv'
<1>1. TypeOK' /\ NumbersInv'
  BY NoneAssumption, BoundsAssumption DEF HistoryInv, Call, CallOf, ConfirmHolds, ConfirmMismatch, Entry,
     Goes, Lock, Locked, Mine, NumbersInv, OlderRecord, Positions, Round, TypeOK, disk, versionVars
<1>2. DecisionsInv' /\ GuardInv'
  BY NoneAssumption DEF HistoryInv, Call, CallOf, ConfirmHolds, ConfirmMismatch, DecisionsInv, Early, Entry,
     Goes, GuardInv, Mine, NumbersInv, Round, TypeOK, disk, versionVars
<1>3. FenceInv'
  <2>1. pc[p] # "idle"
    BY DEF ConfirmMismatch
  <2> QED BY <2>1, OwnNumber DEF HistoryInv, TypeOK, NumbersInv, FenceInv, At, ConfirmMismatch, Goes, disk, versionVars
<1>4. LogInv' /\ VersionsTypeOK' /\ ForkInv'
  BY DEF HistoryInv, At, ConfirmHolds, ConfirmMismatch, Entry, ForkInv, Goes, LogInv, Logged, Mine,
     NumbersInv, Round, RoundsOf, TypeOK, VersionsTypeOK, disk, versionVars
<1>5. ASSUME Punctual' PROVE PunctualInv' /\ ReportedIsDurable' /\ ConfirmNeedsDecision'
  <2>0. PunctualInv /\ ReportedIsDurable /\ ConfirmNeedsDecision /\ OneActive
    BY <1>5, PunctualActive DEF ConfirmMismatch, HistoryInv, Punctual, TypeOK, disk
  <2>1. LockInv'
    BY <1>5, <2>0, NoneAssumption DEF HistoryInv, PunctualInv, Alive, Call, CallOf, Claims, ConfirmHolds,
       ConfirmMismatch, Goes, GuardInv, Lock, LockInv, Locked, Mine, NumbersInv, Owns, Round, TypeOK, disk,
       versionVars
  <2>2. CourseInv'
    BY <1>5, <2>0, NoneAssumption DEF HistoryInv, PunctualInv, Call, ConfirmHolds, ConfirmMismatch,
       CourseInv, Decided, DecisionsInv, Entry, Goes, Locked, Mine, NumbersInv, OneActive, Punctual, Round,
       TypeOK, disk, versionVars
  <2>3. ShownInv' /\ NamedInv'
    BY <1>5, <2>0 DEF HistoryInv, PunctualInv, At, ConfirmHolds, ConfirmMismatch, CourseInv, Decisions,
       Entry, Goes, Mine, NamedInv, NumbersInv, Round, ShownInv, TypeOK, VersionsTypeOK, disk, versionVars
  <2>4. ReportedIsDurable' /\ ConfirmNeedsDecision'
    BY <1>5, <2>0, NoneAssumption, BoundsAssumption DEF HistoryInv, PunctualInv, Call, ConfirmHolds,
       ConfirmMismatch, ConfirmNeedsDecision, CourseInv, Entry, Goes, Mine, NumbersInv, OlderRecord,
       Punctual, ReportedIsDurable, Round, TypeOK, disk, versionVars
  <2> QED BY <2>1, <2>2, <2>3, <2>4 DEF PunctualInv
<1> QED BY <1>1, <1>2, <1>3, <1>4, <1>5 DEF HistoryInv

LEMMA ReleaseStep ==
  ASSUME HistoryInv, NEW p \in Processes, job[p] = None, Release(p), UNCHANGED versionVars
  PROVE  HistoryInv'
<1>1. TypeOK' /\ NumbersInv'
  BY NoneAssumption, BoundsAssumption DEF HistoryInv, Call, CallOf, Ends, Entry, Lock, Locked, Mine,
     NumbersInv, OlderRecord, Owns, Positions, Release, Round, TypeOK, versionVars
<1>2. DecisionsInv' /\ FenceInv' /\ GuardInv'
  BY NoneAssumption DEF HistoryInv, At, Call, CallOf, DecisionsInv, Early, Ends, Entry, FenceInv, GuardInv,
     Mine, NumbersInv, Owns, Release, Round, TypeOK, versionVars
<1>3. LogInv' /\ VersionsTypeOK' /\ ForkInv'
  BY DEF HistoryInv, At, Ends, Entry, ForkInv, LogInv, Logged, Mine, NumbersInv, Owns, Release, Round,
     RoundsOf, TypeOK, VersionsTypeOK, versionVars
<1>4. ASSUME Punctual' PROVE PunctualInv' /\ ReportedIsDurable' /\ ConfirmNeedsDecision'
  <2>0. PunctualInv /\ ReportedIsDurable /\ ConfirmNeedsDecision /\ OneActive
    BY <1>4, PunctualActive DEF Ends, HistoryInv, Punctual, Release, TypeOK
  <2>1. LockInv'
    BY <1>4, <2>0, NoneAssumption DEF HistoryInv, PunctualInv, Alive, Call, CallOf, Claims, Ends, GuardInv,
       Lock, LockInv, Locked, Mine, NumbersInv, Owns, Release, Round, TypeOK, versionVars
  <2>2. CourseInv'
    BY <1>4, <2>0, NoneAssumption DEF HistoryInv, PunctualInv, Call, CourseInv, Decided, DecisionsInv, Ends,
       Entry, Locked, Mine, NumbersInv, OneActive, Owns, Punctual, Release, Round, TypeOK, versionVars
  <2>3. ShownInv' /\ NamedInv'
    BY <1>4, <2>0 DEF HistoryInv, PunctualInv, At, CourseInv, Decisions, Ends, Entry, Mine, NamedInv,
       NumbersInv, Owns, Release, Round, ShownInv, TypeOK, VersionsTypeOK, versionVars
  <2>4. ReportedIsDurable' /\ ConfirmNeedsDecision'
    BY <1>4, <2>0, NoneAssumption, BoundsAssumption DEF HistoryInv, PunctualInv, Call, ConfirmNeedsDecision,
       CourseInv, Ends, Entry, Mine, NumbersInv, OlderRecord, Owns, Punctual, Release, ReportedIsDurable,
       Round, TypeOK, versionVars
  <2> QED BY <2>1, <2>2, <2>3, <2>4 DEF PunctualInv
<1> QED BY <1>1, <1>2, <1>3, <1>4 DEF HistoryInv

LEMMA HeartbeatStep ==
  ASSUME HistoryInv, NEW p \in Processes, job[p] = None, Heartbeat(p), UNCHANGED versionVars
  PROVE  HistoryInv'
<1>a. /\ lock[Round(p)] \in Lock /\ run[p] \in Call /\ Round(p) \in Rounds
      /\ pc[p] \notin {"idle", "acquire", "claim", "unlink", "unguard", "stamp"} /\ Owns(p)
  BY OwnNumber DEF Heartbeat, Owns, HistoryInv, TypeOK, Round, Call
<1>b. /\ lock'[Round(p)] \in Lock /\ lock'[Round(p)] # None
      /\ lock'[Round(p)].owner = lock[Round(p)].owner
      /\ lock'[Round(p)].binding = lock[Round(p)].binding /\ ~lock'[Round(p)].stale
      /\ \A r \in Rounds \ {Round(p)} : lock'[r] = lock[r]
      /\ lock' \in [Rounds -> Lock \cup {None}]
  BY <1>a, NoneAssumption DEF Heartbeat, HistoryInv, TypeOK, Lock
<1>c. UNCHANGED <<guard, entry, confirm, log, ledger, fence, pc, run, seen, calls, sleeps, reported>>
  BY DEF Heartbeat, process
<1>1. TypeOK' /\ NumbersInv'
  BY NoneAssumption, BoundsAssumption, <1>a, <1>b, <1>c DEF HistoryInv, Call, CallOf, Entry, Lock, Locked,
     Mine, NumbersInv, OlderRecord, Owns, Positions, Round, TypeOK, versionVars
<1>2. DecisionsInv' /\ FenceInv' /\ GuardInv'
  BY NoneAssumption, <1>a, <1>b, <1>c DEF HistoryInv, At, Call, CallOf, DecisionsInv, Early, Entry, FenceInv,
     GuardInv, Mine, NumbersInv, Owns, Round, TypeOK, versionVars
<1>3. LogInv' /\ VersionsTypeOK' /\ ForkInv'
  BY <1>a, <1>b, <1>c DEF HistoryInv, At, Entry, ForkInv, LogInv, Logged, Mine, NumbersInv, Owns, Round,
     RoundsOf, TypeOK, VersionsTypeOK, versionVars
<1>4. ASSUME Punctual' PROVE PunctualInv' /\ ReportedIsDurable' /\ ConfirmNeedsDecision'
  <2>0. PunctualInv /\ ReportedIsDurable /\ ConfirmNeedsDecision /\ OneActive
    BY <1>4, PunctualActive DEF Heartbeat, HistoryInv, Punctual, TypeOK, process
  <2>1. LockInv'
    <3>1. Mine(p) \in Alive /\ Alive' = Alive
      BY <1>a, <1>c DEF Alive, Mine
    <3>2. \A q \in Processes : pc[q] = "unlink" => Round(q) # Round(p)
      BY <2>0, <3>1, <1>a DEF HistoryInv, TypeOK, PunctualInv, LockInv, Claims, Owns, Round, Call
    <3> QED BY <2>0, <3>1, <3>2, <1>a, <1>b, <1>c
      DEF HistoryInv, TypeOK, PunctualInv, LockInv, Claims, Owns, Mine, Round, Locked, Call
  <2>2. CourseInv'
    BY <1>4, <2>0, NoneAssumption, <1>a, <1>b, <1>c DEF HistoryInv, PunctualInv, Call, CourseInv, Decided,
       DecisionsInv, Entry, Locked, Mine, NumbersInv, OneActive, Owns, Punctual, Round, TypeOK, versionVars
  <2>3. ShownInv' /\ NamedInv'
    BY <1>4, <2>0, <1>a, <1>b, <1>c DEF HistoryInv, PunctualInv, At, CourseInv, Decisions, Entry, Mine,
       NamedInv, NumbersInv, Owns, Round, ShownInv, TypeOK, VersionsTypeOK, versionVars
  <2>4. ReportedIsDurable' /\ ConfirmNeedsDecision'
    BY <1>4, <2>0, NoneAssumption, BoundsAssumption, <1>a, <1>b, <1>c DEF HistoryInv, PunctualInv, Call,
       ConfirmNeedsDecision, CourseInv, Entry, Mine, NumbersInv, OlderRecord, Owns, Punctual,
       ReportedIsDurable, Round, TypeOK, versionVars
  <2> QED BY <2>1, <2>2, <2>3, <2>4 DEF PunctualInv
<1> QED BY <1>1, <1>2, <1>3, <1>4 DEF HistoryInv

LEMMA DiesStep ==
  ASSUME HistoryInv, NEW p \in Processes, job[p] = None, Dies(p), UNCHANGED versionVars
  PROVE  HistoryInv'
<1>1. TypeOK' /\ NumbersInv'
  BY NoneAssumption, BoundsAssumption DEF HistoryInv, Call, CallOf, Dies, Ends, Entry, Lock, Locked, Mine,
     NumbersInv, OlderRecord, Positions, Round, TypeOK, disk, versionVars
<1>2. DecisionsInv' /\ GuardInv'
  BY NoneAssumption DEF HistoryInv, Call, CallOf, DecisionsInv, Dies, Early, Ends, Entry, GuardInv, Mine,
     NumbersInv, Round, TypeOK, disk, versionVars
<1>3. FenceInv'
  <2>1. pc[p] # "idle"
    BY DEF Dies
  <2> QED BY <2>1, OwnNumber DEF HistoryInv, TypeOK, NumbersInv, FenceInv, At, Dies, Ends, Mine, disk, versionVars
<1>4. LogInv' /\ VersionsTypeOK' /\ ForkInv'
  BY DEF HistoryInv, At, Dies, Ends, Entry, ForkInv, LogInv, Logged, Mine, NumbersInv, Round, RoundsOf,
     TypeOK, VersionsTypeOK, disk, versionVars
<1>5. ASSUME Punctual' PROVE PunctualInv' /\ ReportedIsDurable' /\ ConfirmNeedsDecision'
  <2>0. PunctualInv /\ ReportedIsDurable /\ ConfirmNeedsDecision /\ OneActive
    BY <1>5, PunctualActive DEF Dies, Ends, HistoryInv, Punctual, TypeOK, disk
  <2>1. LockInv'
    BY <1>5, <2>0, NoneAssumption DEF HistoryInv, PunctualInv, Alive, Call, CallOf, Claims, Dies, Ends,
       GuardInv, Lock, LockInv, Locked, Mine, NumbersInv, Owns, Round, TypeOK, disk, versionVars
  <2>2. CourseInv'
    BY <1>5, <2>0, NoneAssumption DEF HistoryInv, PunctualInv, Call, CourseInv, Decided, DecisionsInv, Dies,
       Ends, Entry, Locked, Mine, NumbersInv, OneActive, Punctual, Round, TypeOK, disk, versionVars
  <2>3. ShownInv' /\ NamedInv'
    BY <1>5, <2>0 DEF HistoryInv, PunctualInv, At, CourseInv, Decisions, Dies, Ends, Entry, Mine, NamedInv,
       NumbersInv, Round, ShownInv, TypeOK, VersionsTypeOK, disk, versionVars
  <2>4. ReportedIsDurable' /\ ConfirmNeedsDecision'
    BY <1>5, <2>0, NoneAssumption, BoundsAssumption DEF HistoryInv, PunctualInv, Call, ConfirmNeedsDecision,
       CourseInv, Dies, Ends, Entry, Mine, NumbersInv, OlderRecord, Punctual, ReportedIsDurable, Round,
       TypeOK, disk, versionVars
  <2> QED BY <2>1, <2>2, <2>3, <2>4 DEF PunctualInv
<1> QED BY <1>1, <1>2, <1>3, <1>4, <1>5 DEF HistoryInv

-----------------------------------------------------------------------------
(* Steps of the version history, and of the calls that render log.md.        *)

\* One process at a time reads and renders log.md.
LEMMA OneRenders ==
  ASSUME HistoryInv, NEW p \in Processes,
         pc[p] \in {"confirm", "read", "write"} \/ At(p, "read") \/ At(p, "render")
  PROVE  \A q \in Processes \ {p} :
           pc[q] \notin {"confirm", "read", "write"} /\ ~At(q, "read") /\ ~At(q, "render")
<1>1. CASE pc[p] \in {"confirm", "read", "write"}
  BY <1>1, OwnNumber DEF HistoryInv, FenceInv, At
<1>2. CASE At(p, "read") \/ At(p, "render")
  BY <1>2, OwnJobNumber DEF HistoryInv, FenceInv, At
<1> QED BY <1>1, <1>2

LEMMA DecisionRounds ==
  ASSUME TypeOK
  PROVE  /\ RoundsOf(Decisions) = {r \in Rounds : entry[r] # None}
         /\ Decisions \subseteq Rounds \X Nat
<1>1. \A r \in Rounds : entry[r] # None => entry[r].id \in Nat
  BY DEF TypeOK, Entry
<1>2. \A line \in Decisions : \E r \in Rounds : entry[r] # None /\ line = <<r, entry[r].id>>
  BY DEF Decisions
<1>3. \A r \in Rounds : entry[r] # None => <<r, entry[r].id>> \in Decisions
  BY DEF Decisions
<1>4. RoundsOf(Decisions) \subseteq {r \in Rounds : entry[r] # None}
  BY <1>2 DEF RoundsOf
<1>5. ASSUME NEW r \in Rounds, entry[r] # None PROVE r \in RoundsOf(Decisions)
  <2>1. <<r, entry[r].id>>[1] = r /\ <<r, entry[r].id>> \in Decisions
    BY <1>3, <1>5
  <2> QED BY <2>1 DEF RoundsOf
<1> QED BY <1>1, <1>2, <1>4, <1>5

\* What the version call of a process is after one of its steps.
LEMMA JobGoesOn ==
  ASSUME HistoryInv, NEW p \in Processes, job[p] # None,
         NEW position \in {"lock", "name", "project", "read", "render", "destination", "rename"},
         JobGoes(p, position)
  PROVE  /\ job'[p] \in Job /\ job'[p] # None
         /\ job'[p].call = job[p].call /\ job'[p].seq = job[p].seq /\ job'[p].at = position
         /\ job' = [job EXCEPT ![p] = job'[p]]
<1>1. job[p] \in Job
  BY OwnJobNumber
<1>2. job'[p] = [job[p] EXCEPT !.at = position] /\ job' = [job EXCEPT ![p] = job'[p]]
  BY DEF HistoryInv, NumbersInv, JobGoes
<1> QED BY <1>1, <1>2, JobAssumption DEF Job

\* Nobody gets another number by a step of a version call.
LEMMA JobNumbers ==
  ASSUME HistoryInv, NEW p \in Processes, job[p] # None,
         UNCHANGED <<lock, entry, calls, pc, run>>, job' = [job EXCEPT ![p] = job'[p]],
         job'[p] = None \/ job'[p].call = job[p].call
  PROVE  NumbersInv'
<1>1. /\ \A q \in Processes \ {p} : job'[q] = job[q] /\ CallOf(q)' = CallOf(q)
      /\ job' = [q \in Processes |-> job'[q]]
  BY DEF HistoryInv, NumbersInv, CallOf
<1>2. pc[p] = "idle" /\ CallOf(p)' = IF job'[p] = None THEN 0 ELSE CallOf(p)
  BY OwnJobNumber DEF CallOf
<1>3. \A q \in Processes : CallOf(q)' = CallOf(q) \/ (CallOf(q)' = 0 /\ q = p /\ job'[p] = None)
  BY <1>1, <1>2
<1>4. \A q \in Processes : /\ CallOf(q)' \in 0 .. calls
                           /\ pc'[q] # "idle" \/ job'[q] # None => CallOf(q)' # 0
                           /\ pc'[q] # "idle" => run'[q].id \in 1 .. calls
  BY <1>1, <1>2, <1>3 DEF HistoryInv, NumbersInv, TypeOK
<1>5. \A q, s \in Processes : CallOf(q)' = CallOf(s)' /\ CallOf(q)' # 0 => q = s
  BY <1>3 DEF HistoryInv, NumbersInv
<1> QED BY <1>1, <1>4, <1>5 DEF HistoryInv, NumbersInv

LEMMA StartsStep ==
  ASSUME HistoryInv, NEW p \in Processes, NEW r \in Rounds, NEW b \in Bindings, job[p] = None, Starts(p, r, b), UNCHANGED versionVars
  PROVE  HistoryInv'
<1>1. TypeOK'
  <2> DEFINE new == [call |-> calls + 1, round |-> r, binding |-> b,
                     id |-> IF entry[r] = None THEN calls + 1 ELSE entry[r].id, confirms |-> FALSE]
  <2>1. new \in Call
    BY DEF HistoryInv, TypeOK, Entry, Call
  <2>2. run' = [run EXCEPT ![p] = new] /\ pc' = [pc EXCEPT ![p] = "acquire"]
    BY DEF Starts, Goes
  <2>3. \A q \in Processes : IF pc'[q] = "idle" THEN run'[q] = None ELSE run'[q] \in Call
    BY <2>1, <2>2 DEF HistoryInv, TypeOK, NumbersInv
  <2>4. calls' \in 0 .. MaxCalls /\ pc' \in [Processes -> Positions]
    BY <2>2, BoundsAssumption DEF Starts, HistoryInv, TypeOK, Positions
  <2> QED BY <2>3, <2>4 DEF Starts, HistoryInv, TypeOK, disk
<1>2. NumbersInv'
  <2>1. /\ run'[p].call = calls + 1 /\ pc'[p] = "acquire" /\ calls' = calls + 1
        /\ run'[p].id = IF entry[r] = None THEN calls + 1 ELSE entry[r].id
        /\ \A q \in Processes \ {p} : run'[q] = run[q] /\ pc'[q] = pc[q]
        /\ run' = [q \in Processes |-> run'[q]]
    BY DEF HistoryInv, TypeOK, NumbersInv, Starts, Goes
  <2>2. CallOf(p)' = calls' /\ \A q \in Processes \ {p} : CallOf(q)' = CallOf(q)
    BY <2>1 DEF CallOf, versionVars
  <2>3. UNCHANGED <<lock, entry, job>> /\ calls \in Nat
    BY DEF Starts, disk, versionVars, HistoryInv, TypeOK
  <2>4. run'[p].id \in 1 .. calls'
    BY <2>1, <2>3 DEF HistoryInv, NumbersInv
  <2> QED BY <2>1, <2>2, <2>3, <2>4 DEF HistoryInv, NumbersInv
<1>3. DecisionsInv' /\ FenceInv' /\ GuardInv'
  BY NoneAssumption DEF HistoryInv, At, Call, CallOf, DecisionsInv, Early, Entry, FenceInv, Goes, GuardInv,
     Job, Mine, NumbersInv, Round, Starts, TypeOK, VersionsTypeOK, disk, versionVars
<1>4. LogInv' /\ VersionsTypeOK' /\ ForkInv'
  BY DEF HistoryInv, At, CallOf, Entry, ForkInv, Goes, Job, LogInv, Logged, Mine, NumbersInv, Round,
     RoundsOf, Starts, TypeOK, VersionsTypeOK, disk, versionVars
<1>5. ASSUME Punctual' PROVE PunctualInv' /\ ReportedIsDurable' /\ ConfirmNeedsDecision'
  <2>0. PunctualInv /\ ReportedIsDurable /\ ConfirmNeedsDecision /\ OneActive
    BY <1>5, PunctualActive DEF HistoryInv, Punctual, Starts, TypeOK, disk
  <2>1. LockInv'
    BY <1>5, <2>0, NoneAssumption DEF HistoryInv, PunctualInv, Alive, Call, CallOf, Claims, Goes, GuardInv,
       Lock, LockInv, Locked, Mine, NumbersInv, Owns, Round, Starts, TypeOK, disk, versionVars
  <2>2. CourseInv'
    BY <1>5, <2>0, NoneAssumption DEF HistoryInv, PunctualInv, Call, CourseInv, Decided, DecisionsInv, Entry,
       Goes, Locked, Mine, NumbersInv, OneActive, Punctual, Round, Starts, TypeOK, disk, versionVars
  <2>3. ShownInv' /\ NamedInv'
    BY <1>5, <2>0 DEF HistoryInv, PunctualInv, At, CourseInv, Decisions, Entry, Goes, Mine, NamedInv,
       NumbersInv, Round, ShownInv, Starts, TypeOK, VersionsTypeOK, disk, versionVars
  <2>4. ReportedIsDurable' /\ ConfirmNeedsDecision'
    BY <1>5, <2>0, NoneAssumption, BoundsAssumption DEF HistoryInv, PunctualInv, Call, ConfirmNeedsDecision,
       CourseInv, Entry, Goes, Mine, NumbersInv, OlderRecord, Punctual, ReportedIsDurable, Round, Starts,
       TypeOK, disk, versionVars
  <2> QED BY <2>1, <2>2, <2>3, <2>4 DEF PunctualInv
<1> QED BY <1>1, <1>2, <1>3, <1>4, <1>5 DEF HistoryInv

LEMMA ReadProjectedStep ==
  ASSUME HistoryInv, NEW p \in Processes, ReadProjected(p)
  PROVE  HistoryInv'
<1>a. /\ pc[p] = "read" /\ pc' = [pc EXCEPT ![p] = "write"]
      /\ seen' = [seen EXCEPT ![p] = Decisions] /\ found' = [found EXCEPT ![p] = Len(versions)]
      /\ UNCHANGED <<disk, fence, run, calls, sleeps, reported>>
      /\ UNCHANGED <<versions, shown, job, told>>
  BY DEF ReadProjected, ReadEntries, Goes, Decisions
<1>b. \A q \in Processes \ {p} : /\ pc'[q] = pc[q] /\ seen'[q] = seen[q] /\ found'[q] = found[q]
                                 /\ pc[q] # "write" /\ ~At(q, "render")
  BY <1>a, OneRenders DEF HistoryInv, TypeOK, VersionsTypeOK
<1>c. seen'[p] = Decisions /\ found'[p] = Len(versions) /\ pc'[p] = "write" /\ job[p] = None
  BY <1>a DEF HistoryInv, TypeOK, VersionsTypeOK
<1>1. TypeOK' /\ NumbersInv'
  BY NoneAssumption, BoundsAssumption DEF HistoryInv, Call, CallOf, Entry, Goes, Job, Lock, Locked, Mine,
     NumbersInv, OlderRecord, Positions, ReadEntries, ReadProjected, Round, TypeOK, VersionsTypeOK, disk,
     versionVars
<1>2. DecisionsInv' /\ FenceInv' /\ GuardInv'
  BY NoneAssumption DEF HistoryInv, At, Call, CallOf, DecisionsInv, Early, Entry, FenceInv, Goes, GuardInv,
     Job, Mine, NumbersInv, ReadEntries, ReadProjected, Round, TypeOK, VersionsTypeOK, disk, versionVars
<1>3. VersionsTypeOK' /\ ForkInv'
  BY DEF HistoryInv, At, CallOf, ForkInv, Goes, Job, Mine, NumbersInv, ReadEntries, ReadProjected, Round,
     TypeOK, VersionsTypeOK, disk, versionVars
<1>4. LogInv'
  <2>1. Logged' = Logged /\ Logged \subseteq RoundsOf(Decisions)
    <3>1. Logged \subseteq Rounds
      BY DEF HistoryInv, TypeOK, Logged
    <3> QED BY <1>a, <3>1, DecisionRounds DEF HistoryInv, LogInv, disk, Logged
  <2>2. /\ RoundsOf(seen'[p]) = RoundsOf(Decisions)
        /\ \A q \in Processes \ {p} : RoundsOf(seen'[q]) = RoundsOf(seen[q])
    BY <1>b, <1>c
  <2>3. \A r \in RoundsOf(Decisions) : entry[r] # None
    BY DecisionRounds DEF HistoryInv
  <2>4. \A q \in Processes : /\ At(q, "project")' = At(q, "project") /\ At(q, "read")' = At(q, "read")
                             /\ ~At(q, "render")'
    BY <1>a, <1>b, <1>c DEF At
  <2>5. UNCHANGED <<entry, versions, shown, told, job>> /\ shown <= Len(versions) /\ Len(versions) \in Nat
    BY <1>a DEF disk, HistoryInv, VersionsTypeOK
  <2>6. \A q \in Processes \ {p} : pc'[q] # "write"
    BY <1>b
  <2> QED BY <1>b, <1>c, <2>1, <2>2, <2>3, <2>4, <2>5, <2>6 DEF HistoryInv, LogInv
<1>5. ASSUME Punctual' PROVE PunctualInv' /\ ReportedIsDurable' /\ ConfirmNeedsDecision'
  <2>0. PunctualInv /\ ReportedIsDurable /\ ConfirmNeedsDecision /\ OneActive
    BY <1>5, PunctualActive DEF HistoryInv, Punctual, ReadEntries, ReadProjected, TypeOK, disk
  <2>1. LockInv'
    BY <1>5, <2>0, NoneAssumption DEF HistoryInv, PunctualInv, Alive, Call, CallOf, Claims, Goes, GuardInv,
       Lock, LockInv, Locked, Mine, NumbersInv, Owns, ReadEntries, ReadProjected, Round, TypeOK, disk,
       versionVars
  <2>2. CourseInv'
    <3>1. <<Round(p), run[p].id>> \in Decisions
      BY <2>0, <1>a, OwnNumber DEF PunctualInv, CourseInv, Decided, Decisions, Round, Call
    <3>2. \A q \in Processes : Round(q)' = Round(q)
      BY <1>a DEF Round
    <3>3. UNCHANGED <<entry, confirm, ledger, run>>
      BY <1>a DEF disk
    <3> QED BY <2>0, <1>a, <1>b, <1>c, <3>1, <3>2, <3>3 DEF PunctualInv, CourseInv, Decided
  <2>3. ShownInv' /\ NamedInv'
    BY <1>5, <2>0 DEF HistoryInv, PunctualInv, At, CourseInv, Decisions, Entry, Goes, Mine, NamedInv,
       NumbersInv, ReadEntries, ReadProjected, Round, ShownInv, TypeOK, VersionsTypeOK, disk, versionVars
  <2>4. ReportedIsDurable' /\ ConfirmNeedsDecision'
    BY <1>5, <2>0, NoneAssumption, BoundsAssumption DEF HistoryInv, PunctualInv, Call, ConfirmNeedsDecision,
       CourseInv, Entry, Goes, Mine, NumbersInv, OlderRecord, Punctual, ReadEntries, ReadProjected,
       ReportedIsDurable, Round, TypeOK, disk, versionVars
  <2> QED BY <2>1, <2>2, <2>3, <2>4 DEF PunctualInv
<1> QED BY <1>1, <1>2, <1>3, <1>4, <1>5 DEF HistoryInv

LEMMA WriteProjectedStep ==
  ASSUME HistoryInv, NEW p \in Processes, WriteProjected(p)
  PROVE  HistoryInv'
<1>a. /\ pc[p] = "write" /\ pc' = [pc EXCEPT ![p] = "release"]
      /\ log' = seen[p] /\ shown' = found[p] /\ found' = [found EXCEPT ![p] = 0]
      /\ reported' = reported \cup {run[p].id}
      /\ UNCHANGED <<lock, guard, entry, confirm, ledger, run, seen, calls, sleeps>>
      /\ UNCHANGED <<versions, job, writing, chain, forking, told>>
  BY DEF WriteProjected, WriteLog, Goes
<1>b. \A q \in Processes : pc'[q] # "write" /\ ~At(q, "render") /\ found'[q] \in {0, found[q]}
  BY <1>a, OneRenders DEF HistoryInv, TypeOK, VersionsTypeOK, At
<1>1. NumbersInv'
  BY NoneAssumption DEF HistoryInv, Call, CallOf, Entry, Goes, Job, Lock, Mine, NumbersInv, Round, TypeOK,
     VersionsTypeOK, WriteLog, WriteProjected, versionVars
<1>2. TypeOK'
  <2>1. run[p].id \in Nat
    BY <1>a, OwnNumber DEF Call
  <2>2. log' \subseteq Rounds \X Nat /\ reported' \subseteq Nat /\ pc' \in [Processes -> Positions]
    BY <1>a, <2>1 DEF HistoryInv, TypeOK, Positions, Locked
  <2>3. fence' = None /\ \A q \in Processes : IF pc'[q] = "idle" THEN run'[q] = None ELSE run'[q] \in Call
    BY <1>a DEF WriteProjected, WriteLog, HistoryInv, TypeOK
  <2> QED BY <1>a, <2>2, <2>3 DEF HistoryInv, TypeOK
<1>3. DecisionsInv'
  BY NoneAssumption DEF HistoryInv, Call, CallOf, DecisionsInv, Early, Entry, Goes, Mine, NumbersInv, Round,
     TypeOK, WriteLog, WriteProjected, versionVars
<1>4. FenceInv'
  BY NoneAssumption DEF HistoryInv, At, Call, CallOf, FenceInv, Goes, Job, Mine, NumbersInv, Round, TypeOK,
     VersionsTypeOK, WriteLog, WriteProjected, versionVars
<1>5. GuardInv'
  BY NoneAssumption DEF HistoryInv, Call, CallOf, Goes, GuardInv, Mine, NumbersInv, Round, TypeOK, WriteLog,
     WriteProjected, versionVars
<1>6. LogInv'
  <2>1. Logged' = RoundsOf(seen[p])
    BY <1>a DEF Logged, RoundsOf
  <2>2. \A q \in Processes : RoundsOf(seen'[q]) = RoundsOf(seen[q])
    BY <1>a
  <2>3. shown \in Nat /\ found[p] \in Nat /\ shown <= found[p] /\ told \subseteq Nat
    BY <1>a DEF HistoryInv, LogInv, VersionsTypeOK
  <2>4. UNCHANGED <<entry, versions, job, told>> /\ shown' = found[p] /\ Len(versions) \in Nat
    BY <1>a DEF HistoryInv, VersionsTypeOK
  <2>5. \A q \in Processes : /\ ~At(q, "render")' /\ At(q, "project")' = At(q, "project")
                             /\ At(q, "read")' = At(q, "read")
    BY <1>a, <1>b DEF At
  <2>6. \A r \in Logged' : entry'[r] # None
    BY <2>1, <2>4 DEF HistoryInv, LogInv
  <2>7. \A n \in told' : n <= shown'
    BY <2>3, <2>4 DEF HistoryInv, LogInv
  <2>8. \A q \in Processes : found'[q] <= Len(versions')
    BY <1>b, <2>4 DEF HistoryInv, LogInv
  <2>9. \A q \in Processes : At(q, "project")' \/ At(q, "read")' => job'[q].seq <= Len(versions')
    BY <2>4, <2>5 DEF HistoryInv, LogInv
  <2>10. \A q \in Processes : \A r \in RoundsOf(seen'[q]) : entry'[r] # None
    BY <2>2, <2>4 DEF HistoryInv, LogInv
  <2> QED BY <1>b, <2>5, <2>6, <2>7, <2>8, <2>9, <2>10 DEF LogInv
<1>7. VersionsTypeOK' /\ ForkInv'
  <2>1. found[p] \in 0 .. Len(versions) /\ versions \in Seq(Rounds \X Nat)
    BY DEF HistoryInv, LogInv, VersionsTypeOK
  <2>2. \A q \in Processes : job[q] # None => pc'[q] = pc[q]
    BY <1>a DEF HistoryInv, TypeOK, VersionsTypeOK
  <2> QED BY <1>a, <2>1, <2>2 DEF HistoryInv, VersionsTypeOK, ForkInv, At
<1>8. ASSUME Punctual' PROVE PunctualInv' /\ ReportedIsDurable' /\ ConfirmNeedsDecision'
  <2>0. PunctualInv /\ ReportedIsDurable /\ ConfirmNeedsDecision /\ OneActive
    BY <1>8, PunctualActive DEF HistoryInv, Punctual, TypeOK, WriteLog, WriteProjected
  <2>1. LockInv'
    BY <1>8, <2>0, NoneAssumption DEF HistoryInv, PunctualInv, Alive, Call, CallOf, Claims, Goes, GuardInv,
       Lock, LockInv, Locked, Mine, NumbersInv, Owns, Round, TypeOK, WriteLog, WriteProjected, versionVars
  <2>2. CourseInv'
    BY <1>8, <2>0, NoneAssumption DEF HistoryInv, PunctualInv, Call, CourseInv, Decided, DecisionsInv, Entry,
       Goes, Locked, Mine, NumbersInv, OneActive, Punctual, Round, TypeOK, WriteLog, WriteProjected,
       versionVars
  <2>3. NamedInv'
    BY <1>8, <2>0 DEF HistoryInv, PunctualInv, CourseInv, Entry, Goes, Mine, NamedInv, NumbersInv, Round,
       TypeOK, VersionsTypeOK, WriteLog, WriteProjected, versionVars
  <2>4. ShownInv'
    <3>1. Decisions' = Decisions
      BY <1>a DEF Decisions
    <3>2. Round(p) \in Rounds /\ entry[Round(p)] # None /\ entry[Round(p)].id = run[p].id
      BY <2>0, <1>a, OwnNumber DEF PunctualInv, CourseInv, Decided, Round, Call
    <3>3. \A q \in Processes : At(q, "render")' = At(q, "render")
      BY <1>a DEF At
    <3> QED BY <2>0, <1>a, <1>b, <3>1, <3>2, <3>3 DEF PunctualInv, ShownInv
  <2>5. ConfirmNeedsDecision'
    BY <1>8, <2>0, NoneAssumption, BoundsAssumption DEF HistoryInv, PunctualInv, Call, ConfirmNeedsDecision,
       CourseInv, Entry, Goes, Mine, NumbersInv, OlderRecord, Punctual, Round, TypeOK, WriteLog,
       WriteProjected, versionVars
  <2>6. ReportedIsDurable'
    <3>1. /\ Round(p) \in ledger /\ <<Round(p), run[p].id>> \in seen[p]
          /\ entry[Round(p)].id = run[p].id /\ entry[Round(p)].confirms = run[p].confirms
          /\ confirm[Round(p)] = IF run[p].confirms THEN run[p].id ELSE 0
          /\ Round(p) \in Rounds /\ entry[Round(p)] # None
      BY <2>0, <1>a, OwnNumber DEF PunctualInv, CourseInv, Decided, Round, Call
    <3>2. log \subseteq seen[p] /\ Punctual
      BY <1>8, <2>0, <1>a DEF PunctualInv, ShownInv, Punctual
    <3> SUFFICES ASSUME NEW r \in Rounds, entry[r] # None, entry[r].id \in reported'
                 PROVE  /\ r \in ledger /\ <<r, entry[r].id>> \in seen[p]
                        /\ confirm[r] = IF entry[r].confirms THEN entry[r].id ELSE 0
      BY <1>a DEF ReportedIsDurable
    <3>3. CASE entry[r].id = run[p].id
      <4>1. r = Round(p)
        BY <3>1, <3>3 DEF HistoryInv, DecisionsInv
      <4> QED BY <3>1, <4>1
    <3>4. CASE entry[r].id # run[p].id
      BY <2>0, <1>a, <3>2, <3>4 DEF ReportedIsDurable
    <3> QED BY <3>3, <3>4
  <2> QED BY <2>1, <2>2, <2>3, <2>4, <2>5, <2>6 DEF PunctualInv
<1> QED BY <1>1, <1>2, <1>3, <1>4, <1>5, <1>6, <1>7, <1>8 DEF HistoryInv

LEMMA LockStaleStep ==
  ASSUME HistoryInv, NEW r \in Rounds, LockStale(r), UNCHANGED versionVars
  PROVE  HistoryInv'
<1>a. /\ lock[r] \in Lock /\ lock[r] # None /\ ~lock[r].stale
      /\ lock' = [lock EXCEPT ![r].stale = TRUE]
  BY DEF LockStale, HistoryInv, TypeOK
<1>b. /\ lock'[r] \in Lock /\ lock'[r] # None
      /\ lock'[r].owner = lock[r].owner /\ lock'[r].binding = lock[r].binding /\ lock'[r].stale
      /\ \A s \in Rounds \ {r} : lock'[s] = lock[s]
      /\ lock' \in [Rounds -> Lock \cup {None}]
  BY <1>a, NoneAssumption DEF HistoryInv, TypeOK, Lock
<1>c. /\ UNCHANGED <<guard, entry, confirm, log, ledger, fence, pc, run, seen, calls, reported>>
      /\ lock[r].owner \in Alive => sleeps < MaxSleeps /\ sleeps' = sleeps + 1
      /\ lock[r].owner \notin Alive => sleeps' = sleeps
  BY DEF LockStale, process
<1>1. NumbersInv'
  BY NoneAssumption DEF HistoryInv, Call, CallOf, Entry, Job, Lock, LockStale, Mine, NumbersInv, Round,
     TypeOK, VersionsTypeOK, process, versionVars
<1>2. TypeOK'
  <2>1. sleeps' \in 0 .. MaxSleeps
    BY <1>c, BoundsAssumption DEF HistoryInv, TypeOK
  <2> QED BY <1>b, <1>c, <2>1 DEF HistoryInv, TypeOK
<1>3. DecisionsInv' /\ FenceInv' /\ GuardInv'
  BY NoneAssumption DEF HistoryInv, At, Call, CallOf, DecisionsInv, Early, Entry, FenceInv, GuardInv, Job,
     LockStale, Mine, NumbersInv, Round, TypeOK, VersionsTypeOK, process, versionVars
<1>4. LogInv' /\ VersionsTypeOK' /\ ForkInv'
  BY DEF HistoryInv, At, CallOf, Entry, ForkInv, Job, LockStale, LogInv, Logged, Mine, NumbersInv, Round,
     RoundsOf, TypeOK, VersionsTypeOK, process, versionVars
<1>5. ASSUME Punctual' PROVE PunctualInv' /\ ReportedIsDurable' /\ ConfirmNeedsDecision'
  <2>0. PunctualInv /\ ReportedIsDurable /\ ConfirmNeedsDecision /\ OneActive
    BY <1>5, PunctualActive DEF HistoryInv, LockStale, Punctual, TypeOK, process
  <2>1. LockInv'
    <3>1. Alive' = Alive /\ lock[r].owner \notin Alive
      BY <1>5, <1>c DEF Alive, Punctual, HistoryInv, TypeOK
    <3>2. ASSUME NEW q \in Processes, pc[q] # "idle"
          PROVE  (Owns(q) => Owns(q)') /\ (Claims(q) => Claims(q)')
      <4>1. Round(q) \in Rounds /\ UNCHANGED <<run[q], Round(q), Mine(q)>>
        BY <3>2, <1>c, OwnNumber DEF Round, Mine, Call
      <4>2. CASE Round(q) = r
        BY <4>1, <4>2, <1>b DEF Owns, Claims
      <4>3. CASE Round(q) # r
        BY <4>1, <4>3, <1>b DEF Owns, Claims
      <4> QED BY <4>2, <4>3
    <3>3. \A q \in Processes : pc[q] \in Locked => lock'[Round(q)].binding = lock[Round(q)].binding
      BY <2>0, <1>b, OwnNumber DEF PunctualInv, LockInv, Owns, Locked, Round, Call
    <3>4. \A q \in Processes : Round(q)' = Round(q)
      BY <1>c DEF Round
    <3>5. \A s \in Rounds : lock'[s] # None /\ lock'[s].stale => lock'[s].owner \notin Alive'
      BY <2>0, <1>b, <3>1 DEF PunctualInv, LockInv
    <3> QED BY <2>0, <1>c, <3>2, <3>3, <3>4, <3>5 DEF PunctualInv, LockInv, Locked
  <2>2. CourseInv'
    BY <1>5, <2>0, NoneAssumption DEF HistoryInv, PunctualInv, Call, CourseInv, Decided, DecisionsInv, Entry,
       LockStale, Locked, Mine, NumbersInv, OneActive, Punctual, Round, TypeOK, process, versionVars
  <2>3. ShownInv' /\ NamedInv'
    BY <1>5, <2>0 DEF HistoryInv, PunctualInv, At, CourseInv, Decisions, Entry, LockStale, Mine, NamedInv,
       NumbersInv, Round, ShownInv, TypeOK, VersionsTypeOK, process, versionVars
  <2>4. ReportedIsDurable' /\ ConfirmNeedsDecision'
    BY <1>5, <2>0, NoneAssumption, BoundsAssumption DEF HistoryInv, PunctualInv, Call, ConfirmNeedsDecision,
       CourseInv, Entry, LockStale, Mine, NumbersInv, OlderRecord, Punctual, ReportedIsDurable, Round,
       TypeOK, process, versionVars
  <2> QED BY <2>1, <2>2, <2>3, <2>4 DEF PunctualInv
<1> QED BY <1>1, <1>2, <1>3, <1>4, <1>5 DEF HistoryInv

LEMMA StartJobStep ==
  ASSUME HistoryInv, NEW p \in Processes, NEW r \in Rounds, NEW position, NEW id \in Nat, StartJob(p, r, position, id), position \in {"lock", "project", "destination"}, position = "project" => id = 0
  PROVE  HistoryInv'
<1> DEFINE new == [call |-> calls + 1, round |-> r, at |-> position, seq |-> id]
<1>0. new \in Job /\ calls \in Nat
  BY DEF HistoryInv, TypeOK, Job
<1>a. /\ job'[p] \in Job /\ job'[p] # None /\ job'[p].call = calls + 1 /\ job'[p].seq = id
      /\ job'[p].at = position /\ pc[p] = "idle"
      /\ \A q \in Processes \ {p} : job'[q] = job[q]
      /\ job' = [q \in Processes |-> job'[q]]
      /\ calls' = calls + 1 /\ calls \in Nat
      /\ UNCHANGED <<lock, entry, pc, run>>
  <2>1. job' = [job EXCEPT ![p] = new]
    BY DEF StartJob
  <2>2. /\ job'[p] = new /\ \A q \in Processes \ {p} : job'[q] = job[q]
        /\ job' = [q \in Processes |-> job'[q]]
    BY <2>1 DEF HistoryInv, NumbersInv
  <2>3. pc[p] = "idle" /\ calls' = calls + 1 /\ UNCHANGED <<lock, entry, pc, run>>
    BY DEF StartJob, disk, process
  <2> QED BY <1>0, <2>2, <2>3, JobAssumption
<1>1. TypeOK'
  <2>1. calls' \in 0 .. MaxCalls
    BY BoundsAssumption DEF StartJob, HistoryInv, TypeOK
  <2> QED BY <2>1 DEF StartJob, HistoryInv, TypeOK, disk, process
<1>2. NumbersInv'
  <2>1. CallOf(p)' = calls' /\ \A q \in Processes \ {p} : CallOf(q)' = CallOf(q)
    BY <1>a DEF CallOf
  <2> QED BY <1>a, <2>1 DEF HistoryInv, NumbersInv
<1>3. DecisionsInv' /\ FenceInv' /\ GuardInv'
  BY NoneAssumption, JobAssumption DEF HistoryInv, At, Call, CallOf, DecisionsInv, Early, Entry, FenceInv,
     GuardInv, Job, Mine, NumbersInv, Round, StartJob, TypeOK, VersionsTypeOK, disk, process, versionVars
<1>4. VersionsTypeOK' /\ ForkInv'
  BY JobAssumption DEF HistoryInv, At, CallOf, ForkInv, Job, Mine, NumbersInv, Round, StartJob, TypeOK,
     VersionsTypeOK, disk, process, versionVars
<1>5. LogInv'
  <2>1. /\ UNCHANGED <<log, entry, seen, pc, shown, found, versions, told>> /\ Logged' = Logged
        /\ \A q \in Processes : RoundsOf(seen[q])' = RoundsOf(seen[q])
    BY DEF StartJob, disk, process, Logged
  <2>2. \A q \in Processes \ {p}, at \in {"project", "read", "render"} : At(q, at)' = At(q, at)
    BY <1>a DEF At
  <2>3. ~At(p, "render")' /\ ~At(p, "read")' /\ pc[p] # "write" /\ (At(p, "project")' => job'[p].seq = 0)
    BY <1>a DEF At
  <2> QED BY <1>a, <2>1, <2>2, <2>3 DEF HistoryInv, LogInv, VersionsTypeOK
<1>6. ASSUME Punctual' PROVE PunctualInv' /\ ReportedIsDurable' /\ ConfirmNeedsDecision'
  <2>0. PunctualInv /\ ReportedIsDurable /\ ConfirmNeedsDecision /\ OneActive
    BY <1>6, PunctualActive DEF HistoryInv, Punctual, StartJob, TypeOK, disk, process
  <2>1. LockInv'
    BY <1>6, <2>0, NoneAssumption DEF HistoryInv, PunctualInv, Alive, Call, CallOf, Claims, GuardInv, Lock,
       LockInv, Locked, Mine, NumbersInv, Owns, Round, StartJob, TypeOK, disk, process, versionVars
  <2>2. CourseInv'
    BY <1>6, <2>0, NoneAssumption DEF HistoryInv, PunctualInv, Call, CourseInv, Decided, DecisionsInv, Entry,
       Locked, Mine, NumbersInv, OneActive, Punctual, Round, StartJob, TypeOK, disk, process, versionVars
  <2>3. ShownInv' /\ NamedInv'
    BY <1>6, <2>0 DEF HistoryInv, PunctualInv, At, CourseInv, Decisions, Entry, Mine, NamedInv, NumbersInv,
       Round, ShownInv, StartJob, TypeOK, VersionsTypeOK, disk, process, versionVars
  <2>4. ReportedIsDurable' /\ ConfirmNeedsDecision'
    BY <1>6, <2>0, NoneAssumption, BoundsAssumption DEF HistoryInv, PunctualInv, Call, ConfirmNeedsDecision,
       CourseInv, Entry, Mine, NumbersInv, OlderRecord, Punctual, ReportedIsDurable, Round, StartJob, TypeOK,
       disk, process, versionVars
  <2> QED BY <2>1, <2>2, <2>3, <2>4 DEF PunctualInv
<1> QED BY <1>1, <1>2, <1>3, <1>4, <1>5, <1>6 DEF HistoryInv

LEMMA LockVersionsStep ==
  ASSUME HistoryInv, NEW p \in Processes, LockVersions(p)
  PROVE  HistoryInv'
<1>a. job[p] # None /\ JobGoes(p, "name")
  BY DEF LockVersions, At
<1>b. /\ job'[p] \in Job /\ job'[p] # None
      /\ job'[p].call = job[p].call /\ job'[p].seq = job[p].seq /\ job'[p].at = "name"
      /\ job' = [job EXCEPT ![p] = job'[p]]
  BY <1>a, JobGoesOn
<1>1. TypeOK'
  BY NoneAssumption, BoundsAssumption, JobAssumption DEF HistoryInv, At, Call, Entry, Job, JobGoes, Lock,
     LockVersions, Locked, Mine, NumbersInv, OlderRecord, Positions, Round, TypeOK, VersionsTypeOK, disk,
     process, vars, versionVars
<1>2. NumbersInv'
  BY <1>a, <1>b, JobNumbers DEF LockVersions, vars, disk, process
<1>3. DecisionsInv' /\ FenceInv' /\ GuardInv'
  BY NoneAssumption, JobAssumption DEF HistoryInv, At, Call, CallOf, DecisionsInv, Early, Entry, FenceInv,
     GuardInv, Job, JobGoes, LockVersions, Mine, NumbersInv, Round, TypeOK, VersionsTypeOK, disk, process,
     vars, versionVars
<1>4. LogInv'
  BY JobAssumption DEF HistoryInv, At, Entry, Job, JobGoes, LockVersions, LogInv, Logged, Mine, NumbersInv,
     Round, RoundsOf, TypeOK, VersionsTypeOK, disk, process, vars, versionVars
<1>5. VersionsTypeOK' /\ ForkInv'
  <2>1. \A q \in Processes \ {p} : job'[q] = job[q]
    BY <1>b DEF HistoryInv, NumbersInv
  <2>2. \A q \in Processes : job'[q] # None => job'[q] \in Job /\ pc[q] = "idle"
    BY <1>a, <1>b, <2>1, OwnJobNumber DEF HistoryInv, VersionsTypeOK
  <2>3. \A q \in Processes : At(q, "rename")' => q # p /\ At(q, "rename")
    BY <1>a, <1>b, <2>1 DEF At
  <2>4. job[p].call \in Nat /\ (job[p].seq \in Nat) /\ \A q \in Processes \ {p} : job[q] # None => job[q].call # job[p].call
    BY <1>a, OwnJobNumber DEF HistoryInv, TypeOK, Job
  <2>5. writing' \in Nat \cup {None} /\ UNCHANGED pc /\ UNCHANGED <<entry, versions, shown, found, chain, forking, told>>
    BY <2>4 DEF LockVersions, vars, disk, process
  <2>6. VersionsTypeOK'
    BY <2>2, <2>5 DEF HistoryInv, VersionsTypeOK
  <2>7. ForkInv'
    BY <2>1, <2>3, <2>5 DEF HistoryInv, ForkInv
  <2> QED BY <2>6, <2>7
<1>6. ASSUME Punctual' PROVE PunctualInv' /\ ReportedIsDurable' /\ ConfirmNeedsDecision'
  <2>0. PunctualInv /\ ReportedIsDurable /\ ConfirmNeedsDecision /\ OneActive
    BY <1>6, PunctualActive DEF HistoryInv, LockVersions, Punctual, TypeOK, disk, process, vars
  <2>1. LockInv'
    BY <1>6, <2>0, NoneAssumption DEF HistoryInv, PunctualInv, Alive, At, Call, CallOf, Claims, GuardInv,
       JobGoes, Lock, LockInv, LockVersions, Locked, Mine, NumbersInv, Owns, Round, TypeOK, disk, process,
       vars, versionVars
  <2>2. CourseInv'
    BY <1>6, <2>0, NoneAssumption DEF HistoryInv, PunctualInv, At, Call, CourseInv, Decided, DecisionsInv,
       Entry, JobGoes, LockVersions, Locked, Mine, NumbersInv, OneActive, Punctual, Round, TypeOK, disk,
       process, vars, versionVars
  <2>3. ShownInv'
    BY <1>6, <2>0 DEF HistoryInv, PunctualInv, At, CourseInv, Decisions, Entry, JobGoes, LockVersions, Mine,
       NumbersInv, Round, ShownInv, TypeOK, disk, process, vars, versionVars
  <2>4. NamedInv'
    BY <1>6, <2>0 DEF HistoryInv, PunctualInv, At, CourseInv, Entry, JobGoes, LockVersions, Mine, NamedInv,
       NumbersInv, Round, TypeOK, VersionsTypeOK, disk, process, vars, versionVars
  <2>5. ReportedIsDurable' /\ ConfirmNeedsDecision'
    BY <1>6, <2>0, NoneAssumption, BoundsAssumption DEF HistoryInv, PunctualInv, At, Call,
       ConfirmNeedsDecision, CourseInv, Entry, JobGoes, LockVersions, Mine, NumbersInv, OlderRecord,
       Punctual, ReportedIsDurable, Round, TypeOK, disk, process, vars, versionVars
  <2> QED BY <2>1, <2>2, <2>3, <2>4, <2>5 DEF PunctualInv
<1> QED BY <1>1, <1>2, <1>3, <1>4, <1>5, <1>6 DEF HistoryInv

LEMMA NameNothingStep ==
  ASSUME HistoryInv, NEW p \in Processes, NameNothing(p)
  PROVE  HistoryInv'
<1>a. /\ job[p] # None /\ job'[p] = None
      /\ job' = [job EXCEPT ![p] = job'[p]]
  BY DEF HistoryInv, NumbersInv, NameNothing, At, JobEnds
<1>1. TypeOK'
  BY NoneAssumption, BoundsAssumption, JobAssumption DEF HistoryInv, At, Call, Entry, Job, JobEnds, Lock,
     Locked, Mine, NameNothing, NumbersInv, OlderRecord, Positions, Round, TypeOK, VersionsTypeOK, disk,
     process, vars, versionVars
<1>2. NumbersInv'
  BY <1>a, JobNumbers DEF NameNothing, vars, disk, process
<1>3. DecisionsInv' /\ FenceInv' /\ GuardInv'
  BY NoneAssumption, JobAssumption DEF HistoryInv, At, Call, CallOf, DecisionsInv, Early, Entry, FenceInv,
     GuardInv, Job, JobEnds, Mine, NameNothing, NumbersInv, Round, TypeOK, VersionsTypeOK, disk, process,
     vars, versionVars
<1>4. LogInv' /\ VersionsTypeOK' /\ ForkInv'
  BY JobAssumption DEF HistoryInv, At, CallOf, Entry, ForkInv, Job, JobEnds, LogInv, Logged, Mine,
     NameNothing, NumbersInv, Round, RoundsOf, TypeOK, VersionsTypeOK, disk, process, vars, versionVars
<1>5. ASSUME Punctual' PROVE PunctualInv' /\ ReportedIsDurable' /\ ConfirmNeedsDecision'
  <2>0. PunctualInv /\ ReportedIsDurable /\ ConfirmNeedsDecision /\ OneActive
    BY <1>5, PunctualActive DEF HistoryInv, NameNothing, Punctual, TypeOK, disk, process, vars
  <2>1. LockInv'
    BY <1>5, <2>0, NoneAssumption DEF HistoryInv, PunctualInv, Alive, At, Call, CallOf, Claims, GuardInv,
       JobEnds, Lock, LockInv, Locked, Mine, NameNothing, NumbersInv, Owns, Round, TypeOK, disk, process,
       vars, versionVars
  <2>2. CourseInv'
    BY <1>5, <2>0, NoneAssumption DEF HistoryInv, PunctualInv, At, Call, CourseInv, Decided, DecisionsInv,
       Entry, JobEnds, Locked, Mine, NameNothing, NumbersInv, OneActive, Punctual, Round, TypeOK, disk,
       process, vars, versionVars
  <2>3. ShownInv' /\ NamedInv'
    BY <1>5, <2>0 DEF HistoryInv, PunctualInv, At, CourseInv, Decisions, Entry, JobEnds, Mine, NameNothing,
       NamedInv, NumbersInv, Round, ShownInv, TypeOK, VersionsTypeOK, disk, process, vars, versionVars
  <2>4. ReportedIsDurable' /\ ConfirmNeedsDecision'
    BY <1>5, <2>0, NoneAssumption, BoundsAssumption DEF HistoryInv, PunctualInv, At, Call,
       ConfirmNeedsDecision, CourseInv, Entry, JobEnds, Mine, NameNothing, NumbersInv, OlderRecord, Punctual,
       ReportedIsDurable, Round, TypeOK, disk, process, vars, versionVars
  <2> QED BY <2>1, <2>2, <2>3, <2>4 DEF PunctualInv
<1> QED BY <1>1, <1>2, <1>3, <1>4, <1>5 DEF HistoryInv

LEMMA NameVersionStep ==
  ASSUME HistoryInv, NEW p \in Processes, NameVersion(p)
  PROVE  HistoryInv'
<1>a. /\ job[p] # None /\ job[p].at = "name" /\ job[p] \in Job /\ entry[job[p].round] # None
      /\ job[p].round \in Rounds
  BY OwnJobNumber DEF NameVersion, At, Job
<1>b. /\ job'[p] \in Job /\ job'[p] # None /\ job'[p].call = job[p].call
      /\ job'[p].at = "project" /\ job'[p].seq = Len(versions) + 1
      /\ job' = [job EXCEPT ![p] = job'[p]]
      /\ \A q \in Processes \ {p} : job'[q] = job[q]
  <2>1. /\ job'[p] = [job[p] EXCEPT !.at = "project", !.seq = Len(versions) + 1]
        /\ job' = [job EXCEPT ![p] = job'[p]]
    BY DEF NameVersion, HistoryInv, NumbersInv
  <2>2. Len(versions) + 1 \in Nat
    BY DEF HistoryInv, VersionsTypeOK
  <2>3. job'[p] \in Job
    BY <1>a, <2>1, <2>2 DEF Job
  <2>4. job'[p].call = job[p].call /\ job'[p].at = "project" /\ job'[p].seq = Len(versions) + 1
    BY <1>a, <2>1 DEF Job
  <2> QED BY <2>1, <2>3, <2>4, JobAssumption DEF HistoryInv, NumbersInv
<1>c. <<job[p].round, entry[job[p].round].id>> \in Rounds \X Nat
  BY <1>a DEF HistoryInv, TypeOK, Entry
<1>d. /\ versions' \in Seq(Rounds \X Nat) /\ Len(versions') = Len(versions) + 1 /\ Len(versions) \in Nat
      /\ \A n \in 1 .. Len(versions) : versions'[n] = versions[n]
      /\ versions'[Len(versions) + 1] = <<job[p].round, entry[job[p].round].id>>
  BY <1>c DEF NameVersion, HistoryInv, VersionsTypeOK
<1>e. UNCHANGED <<vars, shown, found, writing, chain, forking, told>>
  BY DEF NameVersion
<1>1. TypeOK'
  BY NoneAssumption, BoundsAssumption, JobAssumption DEF HistoryInv, At, Call, Entry, Job, Lock, Locked,
     Mine, NameVersion, NumbersInv, OlderRecord, Positions, Round, TypeOK, VersionsTypeOK, disk, process,
     vars, versionVars
<1>2. NumbersInv'
  BY <1>a, <1>b, <1>e, JobNumbers DEF vars, disk, process
<1>3. DecisionsInv' /\ GuardInv'
  BY NoneAssumption, JobAssumption DEF HistoryInv, At, Call, CallOf, DecisionsInv, Early, Entry, GuardInv,
     Mine, NameVersion, NumbersInv, Round, TypeOK, disk, process, vars, versionVars
<1>4. FenceInv'
  <2>1. \A q \in Processes \ {p} : At(q, "read")' = At(q, "read") /\ At(q, "render")' = At(q, "render")
    BY <1>b DEF At
  <2>2. ~At(p, "read")' /\ ~At(p, "render")' /\ UNCHANGED <<pc, run, fence>>
    BY <1>b, <1>e DEF At, vars, process
  <2> QED BY <1>b, <2>1, <2>2 DEF HistoryInv, FenceInv
<1>5. LogInv'
  <2>1. /\ UNCHANGED <<log, entry, seen, pc, shown, found, told>> /\ Logged' = Logged
        /\ \A q \in Processes : RoundsOf(seen'[q]) = RoundsOf(seen[q])
    BY <1>e DEF vars, disk, process, Logged
  <2>2. \A q \in Processes \ {p}, at \in {"project", "read", "render"} : At(q, at)' = At(q, at)
    BY <1>b DEF At
  <2>3. ~At(p, "render")' /\ ~At(p, "read")' /\ pc[p] # "write"
    BY <1>a, <1>b, OwnJobNumber DEF At
  <2>4. \A q \in Processes : found[q] \in Nat /\ (job[q] # None => job[q].seq \in Nat)
    BY DEF HistoryInv, VersionsTypeOK, Job
  <2> QED BY <1>b, <1>d, <2>1, <2>2, <2>3, <2>4 DEF HistoryInv, LogInv, At
<1>6. VersionsTypeOK' /\ ForkInv'
  <2>1. \A q \in Processes : job'[q] # None => job'[q] \in Job /\ pc'[q] = "idle"
    <3>1. pc' = pc /\ pc[p] = "idle"
      BY <1>a, <1>e, OwnJobNumber DEF vars, process
    <3> QED BY <1>b, <3>1 DEF HistoryInv, VersionsTypeOK
  <2>2. ~At(p, "rename")' /\ \A q \in Processes \ {p} : At(q, "rename")' = At(q, "rename")
    BY <1>b DEF At
  <2>3. shown \in 0 .. Len(versions') /\ told \subseteq 1 .. Len(versions')
    BY <1>d DEF HistoryInv, VersionsTypeOK
  <2> QED BY <1>b, <1>d, <1>e, <2>1, <2>2, <2>3 DEF HistoryInv, VersionsTypeOK, ForkInv
<1>7. ASSUME Punctual' PROVE PunctualInv' /\ ReportedIsDurable' /\ ConfirmNeedsDecision'
  <2>0. PunctualInv /\ ReportedIsDurable /\ ConfirmNeedsDecision /\ OneActive
    BY <1>7, PunctualActive DEF HistoryInv, NameVersion, Punctual, TypeOK, disk, process, vars
  <2>1. LockInv'
    BY <1>7, <2>0, NoneAssumption DEF HistoryInv, PunctualInv, Alive, At, Call, CallOf, Claims, GuardInv,
       Lock, LockInv, Locked, Mine, NameVersion, NumbersInv, Owns, Round, TypeOK, disk, process, vars,
       versionVars
  <2>2. CourseInv'
    BY <1>7, <2>0, NoneAssumption DEF HistoryInv, PunctualInv, At, Call, CourseInv, Decided, DecisionsInv,
       Entry, Locked, Mine, NameVersion, NumbersInv, OneActive, Punctual, Round, TypeOK, disk, process, vars,
       versionVars
  <2>3. ShownInv'
    BY <1>7, <2>0 DEF HistoryInv, PunctualInv, At, CourseInv, Decisions, Entry, Mine, NameVersion,
       NumbersInv, Round, ShownInv, TypeOK, disk, process, vars, versionVars
  <2>4. NamedInv'
    BY <1>7, <2>0 DEF HistoryInv, PunctualInv, At, CourseInv, Entry, Mine, NameVersion, NamedInv, NumbersInv,
       Round, TypeOK, VersionsTypeOK, disk, process, vars, versionVars
  <2>5. ReportedIsDurable' /\ ConfirmNeedsDecision'
    BY <1>7, <2>0, NoneAssumption, BoundsAssumption DEF HistoryInv, PunctualInv, At, Call,
       ConfirmNeedsDecision, CourseInv, Entry, Mine, NameVersion, NumbersInv, OlderRecord, Punctual,
       ReportedIsDurable, Round, TypeOK, disk, process, vars, versionVars
  <2> QED BY <2>1, <2>2, <2>3, <2>4, <2>5 DEF PunctualInv
<1> QED BY <1>1, <1>2, <1>3, <1>4, <1>5, <1>6, <1>7 DEF HistoryInv

LEMMA LockProjectionStep ==
  ASSUME HistoryInv, NEW p \in Processes, LockProjection(p)
  PROVE  HistoryInv'
<1>a. job[p] # None /\ JobGoes(p, "read")
  BY DEF LockProjection, At
<1>b. /\ job'[p] \in Job /\ job'[p] # None
      /\ job'[p].call = job[p].call /\ job'[p].seq = job[p].seq /\ job'[p].at = "read"
      /\ job' = [job EXCEPT ![p] = job'[p]]
  BY <1>a, JobGoesOn
<1>1. TypeOK'
  BY NoneAssumption, BoundsAssumption, JobAssumption DEF HistoryInv, At, Call, Entry, Job, JobGoes, Lock,
     LockProjection, Locked, Mine, NumbersInv, OlderRecord, Positions, Round, TypeOK, VersionsTypeOK, disk,
     process, versionVars
<1>2. NumbersInv'
  BY <1>a, <1>b, JobNumbers DEF LockProjection, vars, disk, process
<1>3. DecisionsInv' /\ FenceInv' /\ GuardInv'
  BY NoneAssumption, JobAssumption DEF HistoryInv, At, Call, CallOf, DecisionsInv, Early, Entry, FenceInv,
     GuardInv, Job, JobGoes, LockProjection, Mine, NumbersInv, Round, TypeOK, VersionsTypeOK, disk, process,
     versionVars
<1>4. LogInv'
  BY JobAssumption DEF HistoryInv, At, Entry, Job, JobGoes, LockProjection, LogInv, Logged, Mine, NumbersInv,
     Round, RoundsOf, TypeOK, VersionsTypeOK, disk, process, versionVars
<1>5. VersionsTypeOK' /\ ForkInv'
  <2>1. \A q \in Processes \ {p} : job'[q] = job[q]
    BY <1>b DEF HistoryInv, NumbersInv
  <2>2. \A q \in Processes : job'[q] # None => job'[q] \in Job /\ pc[q] = "idle"
    BY <1>a, <1>b, <2>1, OwnJobNumber DEF HistoryInv, VersionsTypeOK
  <2>3. \A q \in Processes : At(q, "rename")' => q # p /\ At(q, "rename")
    BY <1>a, <1>b, <2>1 DEF At
  <2>4. job[p].call \in Nat /\ (job[p].seq \in Nat) /\ \A q \in Processes \ {p} : job[q] # None => job[q].call # job[p].call
    BY <1>a, OwnJobNumber DEF HistoryInv, TypeOK, Job
  <2>5. UNCHANGED <<pc, writing>> /\ UNCHANGED <<entry, versions, shown, found, chain, forking, told>>
    BY <2>4 DEF LockProjection, vars, disk, process
  <2>6. VersionsTypeOK'
    BY <2>2, <2>5 DEF HistoryInv, VersionsTypeOK
  <2>7. ForkInv'
    BY <2>1, <2>3, <2>5 DEF HistoryInv, ForkInv
  <2> QED BY <2>6, <2>7
<1>6. ASSUME Punctual' PROVE PunctualInv' /\ ReportedIsDurable' /\ ConfirmNeedsDecision'
  <2>0. PunctualInv /\ ReportedIsDurable /\ ConfirmNeedsDecision /\ OneActive
    BY <1>6, PunctualActive DEF HistoryInv, LockProjection, Punctual, TypeOK, disk, process
  <2>1. LockInv'
    BY <1>6, <2>0, NoneAssumption DEF HistoryInv, PunctualInv, Alive, At, Call, CallOf, Claims, GuardInv,
       JobGoes, Lock, LockInv, LockProjection, Locked, Mine, NumbersInv, Owns, Round, TypeOK, disk, process,
       versionVars
  <2>2. CourseInv'
    BY <1>6, <2>0, NoneAssumption DEF HistoryInv, PunctualInv, At, Call, CourseInv, Decided, DecisionsInv,
       Entry, JobGoes, LockProjection, Locked, Mine, NumbersInv, OneActive, Punctual, Round, TypeOK, disk,
       process, versionVars
  <2>3. ShownInv' /\ NamedInv'
    BY <1>6, <2>0 DEF HistoryInv, PunctualInv, At, CourseInv, Decisions, Entry, JobGoes, LockProjection,
       Mine, NamedInv, NumbersInv, Round, ShownInv, TypeOK, VersionsTypeOK, disk, process, versionVars
  <2>4. ReportedIsDurable' /\ ConfirmNeedsDecision'
    BY <1>6, <2>0, NoneAssumption, BoundsAssumption DEF HistoryInv, PunctualInv, At, Call,
       ConfirmNeedsDecision, CourseInv, Entry, JobGoes, LockProjection, Mine, NumbersInv, OlderRecord,
       Punctual, ReportedIsDurable, Round, TypeOK, disk, process, versionVars
  <2> QED BY <2>1, <2>2, <2>3, <2>4 DEF PunctualInv
<1> QED BY <1>1, <1>2, <1>3, <1>4, <1>5, <1>6 DEF HistoryInv

LEMMA ReadForLogStep ==
  ASSUME HistoryInv, NEW p \in Processes, ReadForLog(p)
  PROVE  HistoryInv'
<1>a. job[p] # None /\ JobGoes(p, "render")
  BY DEF ReadForLog, At
<1>b. /\ job'[p] \in Job /\ job'[p] # None
      /\ job'[p].call = job[p].call /\ job'[p].seq = job[p].seq /\ job'[p].at = "render"
      /\ job' = [job EXCEPT ![p] = job'[p]]
  BY <1>a, JobGoesOn
<1>c. /\ job[p].at = "read" /\ pc[p] = "idle"
      /\ seen' = [seen EXCEPT ![p] = Decisions] /\ found' = [found EXCEPT ![p] = Len(versions)]
      /\ UNCHANGED <<disk, fence, pc, run, calls, sleeps, reported>>
      /\ UNCHANGED <<versions, shown, writing, chain, forking, told>>
  BY <1>a, OwnJobNumber DEF ReadForLog, Decisions, At
<1>d. \A q \in Processes \ {p} : /\ job'[q] = job[q] /\ seen'[q] = seen[q] /\ found'[q] = found[q]
                                 /\ pc[q] # "write" /\ ~At(q, "render") /\ ~At(q, "read")
  BY <1>a, <1>b, <1>c, OneRenders DEF HistoryInv, TypeOK, VersionsTypeOK, NumbersInv, At
<1>e. seen'[p] = Decisions /\ found'[p] = Len(versions)
  BY <1>c DEF HistoryInv, TypeOK, VersionsTypeOK
<1>1. TypeOK'
  <2>1. seen' \in [Processes -> SUBSET (Rounds \X Nat)]
    BY <1>c, DecisionRounds DEF HistoryInv, TypeOK
  <2> QED BY <1>c, <2>1 DEF HistoryInv, TypeOK, disk
<1>2. NumbersInv'
  BY <1>a, <1>b, JobNumbers DEF ReadForLog, vars, disk, process
<1>3. DecisionsInv' /\ FenceInv' /\ GuardInv'
  BY NoneAssumption, JobAssumption DEF HistoryInv, At, Call, CallOf, DecisionsInv, Early, Entry, FenceInv,
     GuardInv, Job, JobGoes, Mine, NumbersInv, ReadForLog, Round, TypeOK, VersionsTypeOK, disk, versionVars
<1>4. LogInv'
  <2>1. Logged' = Logged /\ Logged \subseteq RoundsOf(Decisions)
    <3>1. Logged \subseteq Rounds
      BY DEF HistoryInv, TypeOK, Logged
    <3> QED BY <1>c, <3>1, DecisionRounds DEF HistoryInv, LogInv, disk, Logged
  <2>2. /\ RoundsOf(seen'[p]) = RoundsOf(Decisions)
        /\ \A q \in Processes \ {p} : RoundsOf(seen'[q]) = RoundsOf(seen[q])
    BY <1>d, <1>e
  <2>3. \A s \in RoundsOf(Decisions) : entry[s] # None
    BY DecisionRounds DEF HistoryInv
  <2>4. At(p, "read") /\ ~At(p, "read")' /\ ~At(p, "project")' /\ At(p, "render")'
    BY <1>a, <1>b, <1>c DEF At
  <2>5. \A q \in Processes \ {p}, at \in {"project", "read", "render"} : At(q, at)' = At(q, at)
    BY <1>d DEF At
  <2>6. UNCHANGED <<entry, versions, shown, told, pc>> /\ shown <= Len(versions) /\ Len(versions) \in Nat
    BY <1>c DEF disk, HistoryInv, VersionsTypeOK
  <2> QED BY <1>b, <1>c, <1>d, <1>e, <2>1, <2>2, <2>3, <2>4, <2>5, <2>6 DEF HistoryInv, LogInv
<1>5. VersionsTypeOK' /\ ForkInv'
  <2>1. \A q \in Processes : job'[q] # None => job'[q] \in Job /\ pc'[q] = "idle"
    BY <1>b, <1>c, <1>d DEF HistoryInv, VersionsTypeOK
  <2>2. ~At(p, "rename")' /\ \A q \in Processes \ {p} : At(q, "rename")' = At(q, "rename")
    BY <1>b, <1>d DEF At
  <2>3. Len(versions) \in Nat
    BY DEF HistoryInv, VersionsTypeOK
  <2> QED BY <1>c, <1>d, <2>1, <2>2, <2>3 DEF HistoryInv, VersionsTypeOK, ForkInv
<1>6. ASSUME Punctual' PROVE PunctualInv' /\ ReportedIsDurable' /\ ConfirmNeedsDecision'
  <2>0. PunctualInv /\ ReportedIsDurable /\ ConfirmNeedsDecision /\ OneActive
    BY <1>6, PunctualActive DEF HistoryInv, Punctual, ReadForLog, TypeOK, disk
  <2>1. LockInv'
    BY <1>6, <2>0, NoneAssumption DEF HistoryInv, PunctualInv, Alive, At, Call, CallOf, Claims, GuardInv,
       JobGoes, Lock, LockInv, Locked, Mine, NumbersInv, Owns, ReadForLog, Round, TypeOK, disk, versionVars
  <2>2. CourseInv'
    BY <1>6, <2>0, NoneAssumption DEF HistoryInv, PunctualInv, At, Call, CourseInv, Decided, DecisionsInv,
       Entry, JobGoes, Locked, Mine, NumbersInv, OneActive, Punctual, ReadForLog, Round, TypeOK, disk,
       versionVars
  <2>3. ShownInv' /\ NamedInv'
    BY <1>6, <2>0 DEF HistoryInv, PunctualInv, At, CourseInv, Decisions, Entry, JobGoes, Mine, NamedInv,
       NumbersInv, ReadForLog, Round, ShownInv, TypeOK, VersionsTypeOK, disk, versionVars
  <2>4. ReportedIsDurable' /\ ConfirmNeedsDecision'
    BY <1>6, <2>0, NoneAssumption, BoundsAssumption DEF HistoryInv, PunctualInv, At, Call,
       ConfirmNeedsDecision, CourseInv, Entry, JobGoes, Mine, NumbersInv, OlderRecord, Punctual, ReadForLog,
       ReportedIsDurable, Round, TypeOK, disk, versionVars
  <2> QED BY <2>1, <2>2, <2>3, <2>4 DEF PunctualInv
<1> QED BY <1>1, <1>2, <1>3, <1>4, <1>5, <1>6 DEF HistoryInv

LEMMA WriteVersionsLogStep ==
  ASSUME HistoryInv, NEW p \in Processes, WriteVersionsLog(p)
  PROVE  HistoryInv'
<1>a. /\ job[p] # None /\ job'[p] = None
      /\ job' = [job EXCEPT ![p] = job'[p]]
  BY DEF HistoryInv, NumbersInv, WriteVersionsLog, At, JobEnds
<1>b. /\ At(p, "render") /\ pc[p] = "idle" /\ log' = seen[p] /\ shown' = found[p]
      /\ seen' = [seen EXCEPT ![p] = {}] /\ found' = [found EXCEPT ![p] = 0]
      /\ told' = IF job[p].seq = 0 THEN told ELSE told \cup {job[p].seq}
      /\ UNCHANGED <<lock, guard, entry, confirm, ledger, pc, run, calls, sleeps, reported>>
      /\ UNCHANGED <<versions, chain, forking>>
  BY <1>a, OwnJobNumber DEF WriteVersionsLog
<1>c. \A q \in Processes \ {p} : /\ job'[q] = job[q] /\ seen'[q] = seen[q] /\ found'[q] = found[q]
                                 /\ pc[q] # "write" /\ ~At(q, "render") /\ ~At(q, "read")
  BY <1>a, <1>b, OneRenders DEF HistoryInv, TypeOK, VersionsTypeOK, NumbersInv
<1>d. seen'[p] = {} /\ found'[p] = 0
  BY <1>b DEF HistoryInv, TypeOK, VersionsTypeOK
<1>e. /\ job[p].seq \in Nat /\ job[p].seq <= found[p] /\ found[p] \in 0 .. Len(versions)
      /\ Len(versions) \in Nat /\ shown <= found[p] /\ told \subseteq 1 .. Len(versions)
  BY <1>b, OwnJobNumber DEF HistoryInv, LogInv, VersionsTypeOK, At, Job
<1>f. \A q \in Processes, at \in {"project", "read", "render", "rename"} :
        At(q, at)' => q # p /\ At(q, at)
  BY <1>a, <1>c DEF At
<1>1. TypeOK'
  BY NoneAssumption, BoundsAssumption, JobAssumption DEF HistoryInv, At, Call, Entry, Job, JobEnds, Lock,
     Locked, Mine, NumbersInv, OlderRecord, Positions, Round, TypeOK, VersionsTypeOK, WriteVersionsLog,
     versionVars
<1>2. NumbersInv'
  BY <1>a, JobNumbers DEF WriteVersionsLog, vars, disk, process
<1>3. DecisionsInv' /\ FenceInv' /\ GuardInv'
  BY NoneAssumption, JobAssumption DEF HistoryInv, At, Call, CallOf, DecisionsInv, Early, Entry, FenceInv,
     GuardInv, Job, JobEnds, Mine, NumbersInv, Round, TypeOK, VersionsTypeOK, WriteVersionsLog, versionVars
<1>4. LogInv'
  <2>1. Logged' = RoundsOf(seen[p])
    BY <1>b DEF Logged, RoundsOf
  <2>2. /\ RoundsOf(seen'[p]) = {} /\ \A q \in Processes \ {p} : RoundsOf(seen'[q]) = RoundsOf(seen[q])
    BY <1>c, <1>d DEF RoundsOf
  <2>3. \A n \in told' : n <= shown'
    BY <1>b, <1>e DEF HistoryInv, LogInv, VersionsTypeOK
  <2>4. \A q \in Processes : pc'[q] # "write" /\ ~At(q, "render")'
    BY <1>a, <1>b, <1>c, <1>f
  <2>5. UNCHANGED <<entry, versions>>
    BY <1>b
  <2>6. \A r \in Logged' : entry'[r] # None
    BY <2>1, <2>5 DEF HistoryInv, LogInv
  <2>7. \A q \in Processes : found'[q] <= Len(versions')
    BY <1>c, <1>d, <1>e, <2>5 DEF HistoryInv, LogInv
  <2>8. \A q \in Processes : At(q, "project")' \/ At(q, "read")' => job'[q].seq <= Len(versions')
    BY <1>c, <1>f, <2>5 DEF HistoryInv, LogInv
  <2>9. \A q \in Processes : \A r \in RoundsOf(seen'[q]) : entry'[r] # None
    BY <2>2, <2>5 DEF HistoryInv, LogInv
  <2> QED BY <2>3, <2>4, <2>6, <2>7, <2>8, <2>9 DEF LogInv
<1>5. VersionsTypeOK' /\ ForkInv'
  <2>1. \A q \in Processes : job'[q] # None => job'[q] \in Job /\ pc'[q] = "idle"
    BY <1>a, <1>b, <1>c DEF HistoryInv, VersionsTypeOK
  <2>2. told' \subseteq 1 .. Len(versions) /\ shown' \in 0 .. Len(versions)
    BY <1>b, <1>e
  <2>3. writing' \in Nat \cup {None} /\ found' \in [Processes -> Nat]
    BY <1>b DEF WriteVersionsLog, HistoryInv, VersionsTypeOK
  <2>4. ForkInv'
    BY <1>b, <1>c, <1>f DEF HistoryInv, ForkInv
  <2> QED BY <1>b, <2>1, <2>2, <2>3, <2>4 DEF HistoryInv, VersionsTypeOK
<1>6. ASSUME Punctual' PROVE PunctualInv' /\ ReportedIsDurable' /\ ConfirmNeedsDecision'
  <2>0. PunctualInv /\ ReportedIsDurable /\ ConfirmNeedsDecision /\ OneActive
    BY <1>6, PunctualActive DEF HistoryInv, Punctual, TypeOK, WriteVersionsLog
  <2>1. LockInv'
    BY <1>6, <2>0, NoneAssumption DEF HistoryInv, PunctualInv, Alive, At, Call, CallOf, Claims, GuardInv,
       JobEnds, Lock, LockInv, Locked, Mine, NumbersInv, Owns, Round, TypeOK, WriteVersionsLog, versionVars
  <2>2. CourseInv'
    <3>1. \A q \in Processes : Round(q)' = Round(q) /\ (pc[q] # "idle" => seen'[q] = seen[q])
      BY <1>b, <1>c DEF Round
    <3> QED BY <2>0, <1>b, <3>1 DEF PunctualInv, CourseInv, Decided
  <2>3. NamedInv'
    BY <1>6, <2>0 DEF HistoryInv, PunctualInv, At, CourseInv, Entry, JobEnds, Mine, NamedInv, NumbersInv,
       Round, TypeOK, VersionsTypeOK, WriteVersionsLog, versionVars
  <2>4. ShownInv'
    <3>1. Decisions' = Decisions
      BY <1>b DEF Decisions
    <3>2. \A q \in Processes : pc'[q] # "write" /\ ~At(q, "render")'
      BY <1>a, <1>b, <1>c, <1>f
    <3> QED BY <2>0, <1>b, <3>1, <3>2 DEF PunctualInv, ShownInv
  <2>5. ConfirmNeedsDecision'
    BY <1>6, <2>0, NoneAssumption, BoundsAssumption DEF HistoryInv, PunctualInv, At, Call,
       ConfirmNeedsDecision, CourseInv, Entry, JobEnds, Mine, NumbersInv, OlderRecord, Punctual, Round,
       TypeOK, WriteVersionsLog, versionVars
  <2>6. ReportedIsDurable'
    BY <1>6, <2>0, <1>b DEF PunctualInv, ShownInv, ReportedIsDurable, Punctual
  <2> QED BY <2>1, <2>2, <2>3, <2>4, <2>5, <2>6 DEF PunctualInv
<1> QED BY <1>1, <1>2, <1>3, <1>4, <1>5, <1>6 DEF HistoryInv

LEMMA LockDestinationStep ==
  ASSUME HistoryInv, NEW p \in Processes, LockDestination(p)
  PROVE  HistoryInv'
<1>a. job[p] # None /\ JobGoes(p, "rename")
  BY DEF LockDestination, At
<1>b. /\ job'[p] \in Job /\ job'[p] # None
      /\ job'[p].call = job[p].call /\ job'[p].seq = job[p].seq /\ job'[p].at = "rename"
      /\ job' = [job EXCEPT ![p] = job'[p]]
  BY <1>a, JobGoesOn
<1>1. TypeOK'
  BY NoneAssumption, BoundsAssumption, JobAssumption DEF HistoryInv, At, Call, Entry, Job, JobGoes, Lock,
     LockDestination, Locked, Mine, NumbersInv, OlderRecord, Positions, Round, TypeOK, VersionsTypeOK, disk,
     process, vars, versionVars
<1>2. NumbersInv'
  BY <1>a, <1>b, JobNumbers DEF LockDestination, vars, disk, process
<1>3. DecisionsInv' /\ FenceInv' /\ GuardInv'
  BY NoneAssumption, JobAssumption DEF HistoryInv, At, Call, CallOf, DecisionsInv, Early, Entry, FenceInv,
     GuardInv, Job, JobGoes, LockDestination, Mine, NumbersInv, Round, TypeOK, VersionsTypeOK, disk, process,
     vars, versionVars
<1>4. LogInv'
  BY JobAssumption DEF HistoryInv, At, Entry, Job, JobGoes, LockDestination, LogInv, Logged, Mine,
     NumbersInv, Round, RoundsOf, TypeOK, VersionsTypeOK, disk, process, vars, versionVars
<1>5. VersionsTypeOK' /\ ForkInv'
  <2>1. /\ \A q \in Processes \ {p} : job'[q] = job[q]
        /\ forking = None /\ chain = None /\ forking' = job[p].call /\ chain' = chain
        /\ UNCHANGED <<vars, versions, shown, found, writing, told>>
    BY <1>b DEF LockDestination, HistoryInv, NumbersInv
  <2>2. job[p].call \in Nat /\ pc[p] = "idle"
    BY <1>a, OwnJobNumber DEF HistoryInv, TypeOK
  <2>3. \A q \in Processes \ {p} : ~At(q, "rename")
    BY <2>1, OwnJobNumber DEF HistoryInv, ForkInv, At
  <2>4. ForkInv'
    BY <1>b, <2>1, <2>3 DEF ForkInv, At
  <2>5. \A q \in Processes : job'[q] # None => job'[q] \in Job /\ pc'[q] = "idle"
    BY <1>b, <2>1, <2>2 DEF HistoryInv, VersionsTypeOK, vars, process
  <2> QED BY <2>1, <2>2, <2>4, <2>5 DEF HistoryInv, VersionsTypeOK
<1>6. ASSUME Punctual' PROVE PunctualInv' /\ ReportedIsDurable' /\ ConfirmNeedsDecision'
  <2>0. PunctualInv /\ ReportedIsDurable /\ ConfirmNeedsDecision /\ OneActive
    BY <1>6, PunctualActive DEF HistoryInv, LockDestination, Punctual, TypeOK, disk, process, vars
  <2>1. LockInv'
    BY <1>6, <2>0, NoneAssumption DEF HistoryInv, PunctualInv, Alive, At, Call, CallOf, Claims, GuardInv,
       JobGoes, Lock, LockDestination, LockInv, Locked, Mine, NumbersInv, Owns, Round, TypeOK, disk, process,
       vars, versionVars
  <2>2. CourseInv'
    BY <1>6, <2>0, NoneAssumption DEF HistoryInv, PunctualInv, At, Call, CourseInv, Decided, DecisionsInv,
       Entry, JobGoes, LockDestination, Locked, Mine, NumbersInv, OneActive, Punctual, Round, TypeOK, disk,
       process, vars, versionVars
  <2>3. ShownInv'
    BY <1>6, <2>0 DEF HistoryInv, PunctualInv, At, CourseInv, Decisions, Entry, JobGoes, LockDestination,
       Mine, NumbersInv, Round, ShownInv, TypeOK, disk, process, vars, versionVars
  <2>4. NamedInv'
    BY <1>6, <2>0 DEF HistoryInv, PunctualInv, At, CourseInv, Entry, JobGoes, LockDestination, Mine,
       NamedInv, NumbersInv, Round, TypeOK, VersionsTypeOK, disk, process, vars, versionVars
  <2>5. ReportedIsDurable' /\ ConfirmNeedsDecision'
    BY <1>6, <2>0, NoneAssumption, BoundsAssumption DEF HistoryInv, PunctualInv, At, Call,
       ConfirmNeedsDecision, CourseInv, Entry, JobGoes, LockDestination, Mine, NumbersInv, OlderRecord,
       Punctual, ReportedIsDurable, Round, TypeOK, disk, process, vars, versionVars
  <2> QED BY <2>1, <2>2, <2>3, <2>4, <2>5 DEF PunctualInv
<1> QED BY <1>1, <1>2, <1>3, <1>4, <1>5, <1>6 DEF HistoryInv

LEMMA DestinationExistsStep ==
  ASSUME HistoryInv, NEW p \in Processes, DestinationExists(p)
  PROVE  HistoryInv'
<1>a. /\ job[p] # None /\ job'[p] = None
      /\ job' = [job EXCEPT ![p] = job'[p]]
  BY DEF HistoryInv, NumbersInv, DestinationExists, At, JobEnds
<1>1. TypeOK'
  BY NoneAssumption, BoundsAssumption, JobAssumption DEF HistoryInv, At, Call, DestinationExists, Entry, Job,
     JobEnds, Lock, Locked, Mine, NumbersInv, OlderRecord, Positions, Round, TypeOK, VersionsTypeOK, disk,
     process, vars, versionVars
<1>2. NumbersInv'
  BY <1>a, JobNumbers DEF DestinationExists, vars, disk, process
<1>3. DecisionsInv' /\ FenceInv' /\ GuardInv'
  BY NoneAssumption, JobAssumption DEF HistoryInv, At, Call, CallOf, DecisionsInv, DestinationExists, Early,
     Entry, FenceInv, GuardInv, Job, JobEnds, Mine, NumbersInv, Round, TypeOK, VersionsTypeOK, disk, process,
     vars, versionVars
<1>4. LogInv' /\ VersionsTypeOK' /\ ForkInv'
  BY JobAssumption DEF HistoryInv, At, CallOf, DestinationExists, Entry, ForkInv, Job, JobEnds, LogInv,
     Logged, Mine, NumbersInv, Round, RoundsOf, TypeOK, VersionsTypeOK, disk, process, vars, versionVars
<1>5. ASSUME Punctual' PROVE PunctualInv' /\ ReportedIsDurable' /\ ConfirmNeedsDecision'
  <2>0. PunctualInv /\ ReportedIsDurable /\ ConfirmNeedsDecision /\ OneActive
    BY <1>5, PunctualActive DEF DestinationExists, HistoryInv, Punctual, TypeOK, disk, process, vars
  <2>1. LockInv'
    BY <1>5, <2>0, NoneAssumption DEF HistoryInv, PunctualInv, Alive, At, Call, CallOf, Claims,
       DestinationExists, GuardInv, JobEnds, Lock, LockInv, Locked, Mine, NumbersInv, Owns, Round, TypeOK,
       disk, process, vars, versionVars
  <2>2. CourseInv'
    BY <1>5, <2>0, NoneAssumption DEF HistoryInv, PunctualInv, At, Call, CourseInv, Decided, DecisionsInv,
       DestinationExists, Entry, JobEnds, Locked, Mine, NumbersInv, OneActive, Punctual, Round, TypeOK, disk,
       process, vars, versionVars
  <2>3. ShownInv' /\ NamedInv'
    BY <1>5, <2>0 DEF HistoryInv, PunctualInv, At, CourseInv, Decisions, DestinationExists, Entry, JobEnds,
       Mine, NamedInv, NumbersInv, Round, ShownInv, TypeOK, VersionsTypeOK, disk, process, vars, versionVars
  <2>4. ReportedIsDurable' /\ ConfirmNeedsDecision'
    BY <1>5, <2>0, NoneAssumption, BoundsAssumption DEF HistoryInv, PunctualInv, At, Call,
       ConfirmNeedsDecision, CourseInv, DestinationExists, Entry, JobEnds, Mine, NumbersInv, OlderRecord,
       Punctual, ReportedIsDurable, Round, TypeOK, disk, process, vars, versionVars
  <2> QED BY <2>1, <2>2, <2>3, <2>4 DEF PunctualInv
<1> QED BY <1>1, <1>2, <1>3, <1>4, <1>5 DEF HistoryInv

LEMMA RenameStagingStep ==
  ASSUME HistoryInv, NEW p \in Processes, RenameStaging(p)
  PROVE  HistoryInv'
<1>a. /\ job[p] # None /\ job'[p] = None
      /\ job' = [job EXCEPT ![p] = job'[p]]
  BY DEF HistoryInv, NumbersInv, RenameStaging, At, JobEnds
<1>1. TypeOK'
  BY NoneAssumption, BoundsAssumption, JobAssumption DEF HistoryInv, At, Call, Entry, Job, JobEnds, Lock,
     Locked, Mine, NumbersInv, OlderRecord, Positions, RenameStaging, Round, TypeOK, VersionsTypeOK, disk,
     process, vars, versionVars
<1>2. NumbersInv'
  BY <1>a, JobNumbers DEF RenameStaging, vars, disk, process
<1>3. DecisionsInv' /\ FenceInv' /\ GuardInv'
  BY NoneAssumption, JobAssumption DEF HistoryInv, At, Call, CallOf, DecisionsInv, Early, Entry, FenceInv,
     GuardInv, Job, JobEnds, Mine, NumbersInv, RenameStaging, Round, TypeOK, VersionsTypeOK, disk, process,
     vars, versionVars
<1>4. LogInv'
  <2>1. /\ Logged' = Logged /\ UNCHANGED <<entry, seen, pc, versions, shown, found, told>>
        /\ \A q \in Processes : RoundsOf(seen'[q]) = RoundsOf(seen[q])
    BY DEF RenameStaging, vars, disk, process, Logged
  <2>2. \A q \in Processes \ {p} : job'[q] = job[q]
    BY <1>a DEF HistoryInv, NumbersInv
  <2>3. \A q \in Processes : /\ At(q, "project")' => q # p /\ At(q, "project")
                             /\ At(q, "read")' => q # p /\ At(q, "read")
                             /\ At(q, "render")' => q # p /\ At(q, "render")
    BY <1>a, <2>2 DEF At
  <2> QED BY <2>1, <2>2, <2>3 DEF HistoryInv, LogInv
<1>5. VersionsTypeOK' /\ ForkInv'
  <2>1. \A q \in Processes \ {p} : job'[q] = job[q]
    BY <1>a DEF HistoryInv, NumbersInv
  <2>2. \A q \in Processes : job'[q] # None => job'[q] \in Job /\ pc[q] = "idle"
    BY <1>a, <2>1, OwnJobNumber DEF HistoryInv, VersionsTypeOK
  <2>3. \A q \in Processes : At(q, "rename")' => q # p /\ At(q, "rename")
    BY <1>a, <2>1 DEF At
  <2>4. job[p].call \in Nat /\ (job[p].seq \in Nat) /\ \A q \in Processes \ {p} : job[q] # None => job[q].call # job[p].call
    BY <1>a, OwnJobNumber DEF HistoryInv, TypeOK, Job
  <2> QED BY <2>2, <2>3, <2>4 DEF RenameStaging, HistoryInv, VersionsTypeOK, ForkInv, At, vars, disk, process
<1>6. ASSUME Punctual' PROVE PunctualInv' /\ ReportedIsDurable' /\ ConfirmNeedsDecision'
  <2>0. PunctualInv /\ ReportedIsDurable /\ ConfirmNeedsDecision /\ OneActive
    BY <1>6, PunctualActive DEF HistoryInv, Punctual, RenameStaging, TypeOK, disk, process, vars
  <2>1. LockInv'
    BY <1>6, <2>0, NoneAssumption DEF HistoryInv, PunctualInv, Alive, At, Call, CallOf, Claims, GuardInv,
       JobEnds, Lock, LockInv, Locked, Mine, NumbersInv, Owns, RenameStaging, Round, TypeOK, disk, process,
       vars, versionVars
  <2>2. CourseInv'
    BY <1>6, <2>0, NoneAssumption DEF HistoryInv, PunctualInv, At, Call, CourseInv, Decided, DecisionsInv,
       Entry, JobEnds, Locked, Mine, NumbersInv, OneActive, Punctual, RenameStaging, Round, TypeOK, disk,
       process, vars, versionVars
  <2>3. ShownInv' /\ NamedInv'
    BY <1>6, <2>0 DEF HistoryInv, PunctualInv, At, CourseInv, Decisions, Entry, JobEnds, Mine, NamedInv,
       NumbersInv, RenameStaging, Round, ShownInv, TypeOK, VersionsTypeOK, disk, process, vars, versionVars
  <2>4. ReportedIsDurable' /\ ConfirmNeedsDecision'
    BY <1>6, <2>0, NoneAssumption, BoundsAssumption DEF HistoryInv, PunctualInv, At, Call,
       ConfirmNeedsDecision, CourseInv, Entry, JobEnds, Mine, NumbersInv, OlderRecord, Punctual,
       RenameStaging, ReportedIsDurable, Round, TypeOK, disk, process, vars, versionVars
  <2> QED BY <2>1, <2>2, <2>3, <2>4 DEF PunctualInv
<1> QED BY <1>1, <1>2, <1>3, <1>4, <1>5, <1>6 DEF HistoryInv

LEMMA JobStopsStep ==
  ASSUME HistoryInv, NEW p \in Processes, JobStops(p)
  PROVE  HistoryInv'
<1>a. /\ job[p] # None /\ job'[p] = None
      /\ job' = [job EXCEPT ![p] = job'[p]]
  BY DEF HistoryInv, NumbersInv, JobStops, At, JobEnds
<1>b. /\ pc[p] = "idle" /\ seen' = [seen EXCEPT ![p] = {}] /\ found' = [found EXCEPT ![p] = 0]
      /\ UNCHANGED <<disk, pc, run, calls, sleeps, reported, versions, shown, chain, told>>
  BY OwnJobNumber DEF JobStops
<1>c. /\ \A q \in Processes \ {p} : job'[q] = job[q] /\ seen'[q] = seen[q] /\ found'[q] = found[q]
      /\ seen'[p] = {} /\ found'[p] = 0
  BY <1>a, <1>b DEF HistoryInv, TypeOK, VersionsTypeOK, NumbersInv
<1>d. \A q \in Processes, at \in {"project", "read", "render", "rename"} :
        At(q, at)' => q # p /\ At(q, at)
  BY <1>a, <1>c DEF At
<1>1. TypeOK'
  BY NoneAssumption, BoundsAssumption, JobAssumption DEF HistoryInv, Call, Entry, Job, JobEnds, JobStops,
     Lock, Locked, Mine, NumbersInv, OlderRecord, Positions, Round, TypeOK, VersionsTypeOK, disk, versionVars
<1>2. NumbersInv'
  BY <1>a, JobNumbers DEF JobStops, vars, disk, process
<1>3. DecisionsInv' /\ FenceInv' /\ GuardInv'
  BY NoneAssumption, JobAssumption DEF HistoryInv, At, Call, CallOf, DecisionsInv, Early, Entry, FenceInv,
     GuardInv, Job, JobEnds, JobStops, Mine, NumbersInv, Round, TypeOK, VersionsTypeOK, disk, versionVars
<1>4. VersionsTypeOK' /\ ForkInv'
  BY JobAssumption DEF HistoryInv, At, CallOf, ForkInv, Job, JobEnds, JobStops, Mine, NumbersInv, Round,
     TypeOK, VersionsTypeOK, disk, versionVars
<1>5. LogInv'
  <2>1. Logged' = Logged /\ UNCHANGED <<entry, versions, shown, told, pc>> /\ Len(versions) \in Nat
    BY <1>b DEF Logged, disk, HistoryInv, VersionsTypeOK
  <2>2. /\ RoundsOf(seen'[p]) = {} /\ \A q \in Processes \ {p} : RoundsOf(seen'[q]) = RoundsOf(seen[q])
    BY <1>c DEF RoundsOf
  <2> QED BY <1>b, <1>c, <1>d, <2>1, <2>2 DEF HistoryInv, LogInv
<1>6. ASSUME Punctual' PROVE PunctualInv' /\ ReportedIsDurable' /\ ConfirmNeedsDecision'
  <2>0. PunctualInv /\ ReportedIsDurable /\ ConfirmNeedsDecision /\ OneActive
    BY <1>6, PunctualActive DEF HistoryInv, JobStops, Punctual, TypeOK, disk
  <2>1. LockInv'
    BY <1>6, <2>0, NoneAssumption DEF HistoryInv, PunctualInv, Alive, Call, CallOf, Claims, GuardInv,
       JobEnds, JobStops, Lock, LockInv, Locked, Mine, NumbersInv, Owns, Round, TypeOK, disk, versionVars
  <2>2. CourseInv'
    <3>1. \A q \in Processes : Round(q)' = Round(q) /\ (pc[q] # "idle" => seen'[q] = seen[q])
      BY <1>b, <1>c DEF Round
    <3> QED BY <2>0, <1>b, <3>1 DEF PunctualInv, CourseInv, Decided, disk
  <2>3. NamedInv'
    BY <1>6, <2>0 DEF HistoryInv, PunctualInv, CourseInv, Entry, JobEnds, JobStops, Mine, NamedInv,
       NumbersInv, Round, TypeOK, VersionsTypeOK, disk, versionVars
  <2>4. ShownInv'
    <3>1. Decisions' = Decisions /\ UNCHANGED <<log, pc, reported, entry>>
      BY <1>b DEF Decisions, disk
    <3>2. \A q \in Processes : pc'[q] = "write" \/ At(q, "render")' => seen'[q] = seen[q]
      BY <1>b, <1>c, <1>d
    <3> QED BY <2>0, <1>d, <3>1, <3>2 DEF PunctualInv, ShownInv
  <2>5. ReportedIsDurable' /\ ConfirmNeedsDecision'
    BY <1>6, <2>0, NoneAssumption, BoundsAssumption DEF HistoryInv, PunctualInv, Call, ConfirmNeedsDecision,
       CourseInv, Entry, JobEnds, JobStops, Mine, NumbersInv, OlderRecord, Punctual, ReportedIsDurable,
       Round, TypeOK, disk, versionVars
  <2> QED BY <2>1, <2>2, <2>3, <2>4, <2>5 DEF PunctualInv
<1> QED BY <1>1, <1>2, <1>3, <1>4, <1>5, <1>6 DEF HistoryInv

-----------------------------------------------------------------------------
(* The round as a whole.                                                     *)

LEMMA VersionStepStep == ASSUME HistoryInv, NEW p \in Processes, VersionStep(p) PROVE HistoryInv'
<1>1. ASSUME NEW r \in Rounds, StartVersion(p, r) PROVE HistoryInv'
  BY <1>1, StartJobStep DEF StartVersion
<1>2. ASSUME NEW r \in Rounds, StartFork(p, r) PROVE HistoryInv'
  <2>1. entry[r].id \in Nat
    BY <1>2 DEF StartFork, HistoryInv, TypeOK, Entry
  <2> QED BY <1>2, <2>1, StartJobStep DEF StartFork
<1>3. ASSUME StartRefresh(p) PROVE HistoryInv'
  BY <1>3, StartJobStep DEF StartRefresh
<1> QED BY <1>1, <1>2, <1>3, LockVersionsStep, NameNothingStep, NameVersionStep, LockProjectionStep,
       ReadForLogStep, WriteVersionsLogStep, LockDestinationStep, DestinationExistsStep,
       RenameStagingStep, JobStopsStep DEF VersionStep

LEMMA TransactsStep ==
  ASSUME HistoryInv, NEW p \in Processes, job[p] = None, Transacts(p), UNCHANGED versionVars
  PROVE  HistoryInv'
BY CreateLockStep, StampLockStep, EnterRecoveryStep, RecoveryActiveStep, ClaimedStep, ClaimRefusedStep,
   UnlinkLockStep, LeaveRecoveryStep, RepairStep, ConflictStep, CollectStep, FailsStep, CommitEntryStep,
   RegisterStep, EnterProjectionStep, WriteConfirmStep, ConfirmMismatchStep, ReleaseStep DEF Transacts

LEMMA TransactStep == ASSUME HistoryInv, NEW p \in Processes, Transact(p) PROVE HistoryInv'
BY StartsStep, TransactsStep, HeartbeatStep, DiesStep, ReadProjectedStep, WriteProjectedStep DEF Transact

LEMMA DecideStep == ASSUME HistoryInv, NEW p \in Processes, Decide(p) PROVE HistoryInv'
<1>1. job[p] = None
  BY DEF Decide, Collects, HistoryInv, VersionsTypeOK
<1> QED BY <1>1, CommitEntryStep, FailsStep DEF Decide, CommitReview, ReviewFails

LEMMA HistoryUntouched == ASSUME HistoryInv, UNCHANGED <<vars, versionVars>> PROVE HistoryInv'
<1>1. TypeOK' /\ VersionsTypeOK'
  BY DEF HistoryInv, TypeOK, VersionsTypeOK, vars, disk, process, versionVars
<1>2. NumbersInv' /\ DecisionsInv' /\ FenceInv' /\ ForkInv' /\ GuardInv'
  BY DEF HistoryInv, NumbersInv, CallOf, DecisionsInv, FenceInv, ForkInv, GuardInv, At, Mine, Round,
     vars, disk, process, versionVars
<1>3. LogInv'
  BY DEF HistoryInv, LogInv, Logged, RoundsOf, At, vars, disk, process, versionVars
<1>4. Punctual' => PunctualInv' /\ ReportedIsDurable' /\ ConfirmNeedsDecision'
  BY DEF HistoryInv, Punctual, PunctualInv, LockInv, CourseInv, ShownInv, NamedInv, ReportedIsDurable,
     ConfirmNeedsDecision, Alive, Owns, Claims, Decisions, At, Mine, Round, vars, disk, process, versionVars
<1> QED BY <1>1, <1>2, <1>3, <1>4 DEF HistoryInv

LEMMA HistoryInit == RoundInit => HistoryInv
<1> SUFFICES ASSUME RoundInit PROVE HistoryInv
  OBVIOUS
<1> USE DEF RoundInit, Init, VersionsInit
<1>1. TypeOK
  BY BoundsAssumption, NoneAssumption DEF TypeOK, Positions, OlderRecord
<1>2. VersionsTypeOK
  BY DEF VersionsTypeOK
<1>3. NumbersInv /\ DecisionsInv /\ FenceInv /\ ForkInv /\ GuardInv
  BY DEF NumbersInv, CallOf, DecisionsInv, Early, FenceInv, ForkInv, GuardInv, At
<1>4. LogInv
  BY DEF LogInv, Logged, RoundsOf, At
<1>5. PunctualInv
  BY DEF PunctualInv, LockInv, CourseInv, ShownInv, NamedInv, Decided, Locked, At
<1>6. ReportedIsDurable /\ ConfirmNeedsDecision
  BY DEF ReportedIsDurable, ConfirmNeedsDecision, OlderRecord
<1> QED BY <1>1, <1>2, <1>3, <1>4, <1>5, <1>6 DEF HistoryInv

LEMMA HistoryNext == HistoryInv /\ [RoundNext]_roundVars => HistoryInv'
<1> SUFFICES ASSUME HistoryInv, [RoundNext]_roundVars PROVE HistoryInv'
  OBVIOUS
<1>1. ASSUME NEW p \in Processes, Ask(p) PROVE HistoryInv'
  BY <1>1, HistoryUntouched DEF Ask
<1>2. ASSUME ReviewGoesOn PROVE HistoryInv'
  BY <1>2, HistoryUntouched DEF ReviewGoesOn
<1>3. ASSUME KeepVersions PROVE HistoryInv'
  BY <1>3, VersionStepStep DEF KeepVersions
<1>4. ASSUME NEW r \in Rounds, LockStale(r), UNCHANGED <<versionVars, reviewVars, reviewer, verdict>>
      PROVE  HistoryInv'
  BY <1>4, LockStaleStep
<1>5. CASE UNCHANGED roundVars
  BY <1>5, HistoryUntouched DEF roundVars
<1> QED BY <1>1, <1>2, <1>3, <1>4, <1>5, DecideStep, TransactStep DEF RoundNext

LEMMA HistoryAgreesInv == HistoryInv => HistoryAgrees
<1> SUFFICES ASSUME HistoryInv PROVE HistoryAgrees
  OBVIOUS
<1>1. OneActive
  BY PunctualActive DEF OneActive
<1>2. RecordsAgree
  BY <1>1 DEF HistoryInv, RecordsAgree, Wellformed, ReportedIsDurable, ConfirmNeedsDecision
<1>3. VersionsAreShown
  BY DEF HistoryInv, VersionsAreShown, PunctualInv, NamedInv, LogInv
<1> QED BY <1>2, <1>3 DEF HistoryAgrees

\* The decision, the confirm record, the ledger, log.md and the versions tell
\* one story, whoever died, whoever slept, and however many processes, rounds and
\* calls there are (_run_locked, _round_lock, create_named_version).
THEOREM HistoriesAgree == RoundSpec => []HistoryAgrees
<1>1. RoundSpec => []HistoryInv
  BY HistoryInit, HistoryNext, PTL DEF RoundSpec
<1> QED BY <1>1, HistoryAgreesInv, PTL

-----------------------------------------------------------------------------
(* What a step may take away.                                                *)

\* Which steps change the records, the locks, log.md and the versions.
Writes(p) ==
  \/ /\ CreateLock(p) \/ StampLock(p) \/ UnlinkLock(p) \/ Release(p) \/ Heartbeat(p) \/ CommitEntry(p)
     /\ UNCHANGED versionVars
  \/ WriteProjected(p) \/ NameVersion(p) \/ WriteVersionsLog(p) \/ RenameStaging(p)

Records == <<entry, lock, log, versions, shown, chain>>

LEMMA WhatWrites ==
  ASSUME RoundNext
  PROVE  \/ UNCHANGED Records
         \/ \E p \in Processes : Writes(p)
         \/ \E r \in Rounds : LockStale(r) /\ UNCHANGED versionVars
<1>1. ASSUME NEW p \in Processes, Transacts(p), UNCHANGED versionVars PROVE UNCHANGED Records \/ Writes(p)
  BY <1>1 DEF Transacts, Writes, Records, EnterRecovery, RecoveryActive, Claimed, ClaimRefused,
     LeaveRecovery, Repair, Conflict, Collect, Fails, Register, EnterProjection, WriteConfirm,
     ConfirmMismatch, Ends, Keeps, disk, versionVars
<1>2. ASSUME NEW p \in Processes, Transact(p) PROVE UNCHANGED Records \/ Writes(p)
  BY <1>1, <1>2 DEF Transact, Writes, Records, Starts, Dies, Ends, ReadProjected, ReadEntries, disk, versionVars
<1>3. ASSUME NEW p \in Processes, Decide(p) PROVE UNCHANGED Records \/ Writes(p)
  BY <1>3 DEF Decide, CommitReview, ReviewFails, Writes, Records, Fails, disk, versionVars
<1>4. ASSUME NEW p \in Processes, VersionStep(p) PROVE UNCHANGED Records \/ Writes(p)
  BY <1>4 DEF VersionStep, Writes, Records, StartVersion, StartFork, StartRefresh, StartJob, LockVersions,
     NameNothing, LockProjection, ReadForLog, LockDestination, DestinationExists, JobStops, vars, disk
<1>5. ASSUME NEW p \in Processes, Ask(p) PROVE UNCHANGED Records
  BY <1>5 DEF Ask, Records, vars, disk, versionVars
<1>6. ASSUME ReviewGoesOn PROVE UNCHANGED Records
  BY <1>6 DEF ReviewGoesOn, Records, vars, disk, versionVars
<1> QED BY <1>2, <1>3, <1>4, <1>5, <1>6 DEF RoundNext, KeepVersions

LEMMA KeepsDecided == ASSUME HistoryInv, RoundNext PROVE PunctualDecidedOnce
<1> SUFFICES ASSUME Punctual', NEW r \in Rounds, entry[r] # None PROVE entry'[r] = entry[r]
  BY DEF PunctualDecidedOnce
<1>1. ASSUME NEW p \in Processes, CommitEntry(p) PROVE entry'[r] = entry[r]
  <2>1. PunctualInv /\ pc[p] = "collect"
    BY <1>1 DEF HistoryInv, Punctual, CommitEntry
  <2>2. entry[Round(p)] = None
    BY <2>1 DEF PunctualInv, CourseInv
  <2> QED BY <1>1, <2>2 DEF CommitEntry, HistoryInv, TypeOK
<1>2. ASSUME NEW p \in Processes, Writes(p) PROVE entry'[r] = entry[r]
  BY <1>1, <1>2 DEF Writes, CreateLock, StampLock, UnlinkLock, Release, Heartbeat, WriteProjected, WriteLog,
     NameVersion, WriteVersionsLog, RenameStaging, vars, disk
<1>3. ASSUME NEW s \in Rounds, LockStale(s) PROVE entry'[r] = entry[r]
  BY <1>3 DEF LockStale
<1> QED BY <1>2, <1>3, WhatWrites DEF Records

LEMMA KeepsBinding == ASSUME HistoryInv, RoundNext PROVE TakeoverKeepsBinding
<1> SUFFICES ASSUME Punctual', NEW r \in Rounds, lock[r] # None, lock[r].binding # None, lock'[r] = None
             PROVE  \E p \in Processes : pc'[p] # pc[p] /\ Round(p) = r /\ run[p].binding = lock[r].binding
  BY DEF TakeoverKeepsBinding
<1>1. ASSUME NEW p \in Processes, UnlinkLock(p)
      PROVE  pc'[p] # pc[p] /\ Round(p) = r /\ run[p].binding = lock[r].binding
  <2>1. PunctualInv /\ pc[p] = "unlink" /\ pc'[p] = "unguard" /\ lock' = [lock EXCEPT ![Round(p)] = None]
    BY <1>1 DEF HistoryInv, TypeOK, Punctual, UnlinkLock, Goes
  <2>2. Round(p) = r
    BY <2>1 DEF HistoryInv, TypeOK
  <2> QED BY <2>1, <2>2 DEF PunctualInv, LockInv, Claims
<1>2. ASSUME NEW p \in Processes, Release(p)
      PROVE  pc'[p] # pc[p] /\ Round(p) = r /\ run[p].binding = lock[r].binding
  <2>1. PunctualInv /\ pc[p] = "release" /\ pc'[p] = "idle"
    BY <1>2 DEF HistoryInv, TypeOK, Punctual, Release, Ends
  <2>2. Round(p) = r
    BY <1>2 DEF Release, HistoryInv, TypeOK
  <2> QED BY <2>1, <2>2 DEF PunctualInv, LockInv, Locked
<1>3. ASSUME NEW p \in Processes, CreateLock(p) \/ StampLock(p) \/ Heartbeat(p) PROVE FALSE
  <2>1. pc[p] # "idle" /\ run[p].call \in Nat /\ run[p] \in Call /\ Round(p) \in Rounds
    BY <1>3, OwnNumber DEF CreateLock, StampLock, Heartbeat, Round, Call
  <2>2. [owner |-> Mine(p), binding |-> None, stale |-> FALSE] \in Lock
    BY <2>1 DEF Lock, Mine
  <2>3. CASE CreateLock(p)
    BY <2>1, <2>2, <2>3, NoneAssumption DEF CreateLock, HistoryInv, TypeOK
  <2>4. CASE StampLock(p)
    <3>1. lock[r] \in Lock /\ [lock[r] EXCEPT !.binding = run[p].binding] \in Lock
      BY <2>1 DEF HistoryInv, TypeOK, Lock, Call
    <3> QED BY <2>1, <2>4, <3>1, NoneAssumption DEF StampLock, HistoryInv, TypeOK
  <2>5. CASE Heartbeat(p)
    <3>0. lock[r] \in Lock
      BY DEF HistoryInv, TypeOK
    <3>1. lock[r] \in Lock /\ [lock[r] EXCEPT !.stale = FALSE] \in Lock
      BY <3>0 DEF Lock
    <3> QED BY <2>1, <2>5, <3>1, NoneAssumption DEF Heartbeat, HistoryInv, TypeOK
  <2> QED BY <1>3, <2>3, <2>4, <2>5
<1>4. ASSUME NEW p \in Processes,
             CommitEntry(p) \/ WriteProjected(p) \/ NameVersion(p) \/ WriteVersionsLog(p) \/ RenameStaging(p)
      PROVE  FALSE
  BY <1>4 DEF CommitEntry, WriteProjected, WriteLog, NameVersion, WriteVersionsLog, RenameStaging, vars, disk
<1>5. ASSUME NEW s \in Rounds, LockStale(s) PROVE FALSE
  <2>1. lock[r] \in Lock /\ [lock[r] EXCEPT !.stale = TRUE] \in Lock
    BY DEF HistoryInv, TypeOK, Lock
  <2> QED BY <1>5, <2>1, NoneAssumption DEF LockStale, HistoryInv, TypeOK
<1> QED BY <1>1, <1>2, <1>3, <1>4, <1>5, WhatWrites DEF Writes, Records

LEMMA KeepsRounds == ASSUME HistoryInv, RoundNext PROVE LogKeepsRounds
<1>1. ASSUME NEW p \in Processes, WriteProjected(p) \/ WriteVersionsLog(p) PROVE Logged \subseteq Logged'
  <2>1. pc[p] = "write" \/ At(p, "render")
    BY <1>1 DEF WriteProjected, WriteLog, WriteVersionsLog
  <2>2. log' = seen[p]
    BY <1>1 DEF WriteProjected, WriteLog, WriteVersionsLog
  <2>3. Logged' = RoundsOf(seen[p])
    BY <2>2 DEF Logged, RoundsOf
  <2> QED BY <2>1, <2>3 DEF HistoryInv, LogInv
<1>2. ASSUME NEW p \in Processes, Writes(p) PROVE Logged \subseteq Logged'
  BY <1>1, <1>2 DEF Writes, CreateLock, StampLock, UnlinkLock, Release, Heartbeat, CommitEntry,
     NameVersion, RenameStaging, Logged, vars, disk
<1>3. ASSUME NEW s \in Rounds, LockStale(s) PROVE Logged \subseteq Logged'
  BY <1>3 DEF LockStale, Logged
<1> QED BY <1>2, <1>3, WhatWrites DEF LogKeepsRounds, Logged, Records

LEMMA KeepsVersions == ASSUME HistoryInv, RoundNext PROVE VersionsAreKept
<1>1. /\ versions \in Seq(Rounds \X Nat) /\ Len(versions) \in Nat /\ shown \in Nat
      /\ SubSeq(versions, 1, Len(versions)) = versions
  BY SubSeqFull DEF HistoryInv, VersionsTypeOK
<1>2. ASSUME NEW p \in Processes, NameVersion(p) PROVE VersionsAreKept
  <2>1. PICK line \in Rounds \X Nat : versions' = Append(versions, line)
    <3>1. job[p].round \in Rounds /\ entry[job[p].round].id \in Nat
      BY <1>2, OwnJobNumber DEF NameVersion, At, Job, HistoryInv, TypeOK, Entry
    <3> QED BY <1>2, <3>1 DEF NameVersion
  <2>2. /\ versions' \in Seq(Rounds \X Nat) /\ Len(versions') = Len(versions) + 1
        /\ \A n \in 1 .. Len(versions) : versions'[n] = versions[n] /\ versions'[n] \in Rounds \X Nat
    BY <1>1, <2>1
  <2>3. /\ SubSeq(versions', 1, Len(versions)) \in Seq(Rounds \X Nat)
        /\ Len(SubSeq(versions', 1, Len(versions))) = Len(versions)
        /\ \A n \in 1 .. Len(versions) : SubSeq(versions', 1, Len(versions))[n] = versions[n]
    <3>1. /\ SubSeq(versions', 1, Len(versions)) \in Seq(Rounds \X Nat)
          /\ Len(SubSeq(versions', 1, Len(versions))) =
               IF 1 <= Len(versions) THEN Len(versions) - 1 + 1 ELSE 0
          /\ \A n \in 1 .. Len(versions) - 1 + 1 : SubSeq(versions', 1, Len(versions))[n] = versions'[1 + n - 1]
      BY <1>1, <2>2, SubSeqProperties
    <3> QED BY <1>1, <2>2, <3>1
  <2>4. SubSeq(versions', 1, Len(versions)) = versions
    BY <1>1, <2>3, SeqEqual
  <2>5. UNCHANGED <<shown, chain>>
    BY <1>2 DEF NameVersion
  <2> QED BY <1>1, <2>2, <2>4, <2>5 DEF VersionsAreKept
<1>3. ASSUME NEW p \in Processes, WriteProjected(p) \/ WriteVersionsLog(p) PROVE VersionsAreKept
  <2>1. shown <= found[p] /\ shown' = found[p] /\ UNCHANGED <<versions, chain>> /\ found[p] \in Nat
    BY <1>3 DEF HistoryInv, LogInv, VersionsTypeOK, WriteProjected, WriteLog, WriteVersionsLog
  <2> QED BY <1>1, <2>1 DEF VersionsAreKept
<1>4. ASSUME NEW p \in Processes, RenameStaging(p) PROVE VersionsAreKept
  BY <1>1, <1>4 DEF VersionsAreKept, RenameStaging, HistoryInv, ForkInv
<1>5. ASSUME UNCHANGED <<versions, shown, chain>> PROVE VersionsAreKept
  BY <1>1, <1>5 DEF VersionsAreKept
<1> QED BY <1>2, <1>3, <1>4, <1>5, WhatWrites DEF Writes, Records, versionVars

\* What a round has is not taken away, by any process, in any order and also
\* after others died in between (_run_locked, _claim_stale_lock,
\* _commit_projections, _refresh_log).
THEOREM HistoriesAreKept == RoundSpec => HistoryIsKept
<1>1. RoundSpec => []HistoryInv
  BY HistoryInit, HistoryNext, PTL DEF RoundSpec
<1>2. HistoryInv /\ [RoundNext]_roundVars =>
        [PunctualDecidedOnce /\ TakeoverKeepsBinding /\ LogKeepsRounds /\ VersionsAreKept]_roundVars
  BY KeepsDecided, KeepsBinding, KeepsRounds, KeepsVersions
<1> QED BY <1>1, <1>2, PTL DEF RoundSpec, HistoryIsKept

-----------------------------------------------------------------------------
(* Steps of the review.                                                      *)

ReviewInv == ReviewTypeOK /\ TokenInv

\* The submission the token was spent on stays what it is.
SpentStays ==
  spent # NoPost => /\ spent' = spent
                    /\ post'[spent].form = post[spent].form
                    /\ post'[spent].stale = post[spent].stale

\* What every step of the review leaves.
ReviewIsKept == ReviewInv' /\ SpentStays /\ LaterChangesNothing

\* What the thread of a submission is after it moved.
LEMMA ThreadMoves ==
  ASSUME ReviewInv, NEW p \in Posts, post[p] # NoPost, NEW position \in Places, MovesTo(p, position)
  PROVE  /\ post'[p] \in Thread /\ post'[p] # NoPost /\ post'[p].at = position
         /\ post'[p].form = post[p].form /\ post'[p].proven = post[p].proven
         /\ post'[p].stale = post[p].stale /\ post'[p].valid = post[p].valid
         /\ post'[p].after = post[p].after
         /\ \A q \in Posts \ {p} : post'[q] = post[q]
         /\ post' = [q \in Posts |-> post'[q]]
<1>1. post[p] \in Thread
  BY DEF ReviewInv, ReviewTypeOK
<1>2. /\ post'[p] = [post[p] EXCEPT !.at = position]
      /\ \A q \in Posts \ {p} : post'[q] = post[q]
      /\ post' = [q \in Posts |-> post'[q]]
  BY DEF ReviewInv, TokenInv, MovesTo
<1> QED BY <1>1, <1>2, PostsAssumption DEF Thread

\* A step that leaves the submissions and the token alone, and the slot or the
\* end of the wait as they are or later.
LEMMA CallMoves ==
  ASSUME ReviewInv, ReviewTypeOK', UNCHANGED <<spent, ended, post>>,
         slot' = slot \/ (slot'.kind = "timeout")
  PROVE  ReviewIsKept
BY DEF ReviewInv, TokenInv, ReviewIsKept, SpentStays, LaterChangesNothing, Usable

LEMMA ArriveStep ==
  ASSUME ReviewInv, NEW p \in Posts, NEW form \in Forms, Arrive(p, form)
  PROVE  ReviewIsKept
<1>a. /\ post'[p] \in Thread /\ post'[p] # NoPost /\ post'[p].at = "prove"
      /\ post'[p].form = form /\ ~post'[p].proven /\ ~post'[p].stale /\ ~post'[p].valid
      /\ (post'[p].after <=> spent # NoPost) /\ post[p] = NoPost
      /\ \A q \in Posts \ {p} : post'[q] = post[q]
      /\ post' = [q \in Posts |-> post'[q]]
  <2> DEFINE new == [at |-> "prove", form |-> form, proven |-> FALSE,
                     stale |-> FALSE, valid |-> FALSE, after |-> spent # NoPost]
  <2>1. new \in Thread
    BY DEF Thread, Places
  <2>2. /\ post'[p] = new /\ \A q \in Posts \ {p} : post'[q] = post[q]
        /\ post' = [q \in Posts |-> post'[q]] /\ post[p] = NoPost
    BY DEF Arrive, ReviewInv, TokenInv
  <2>3. /\ new.at = "prove" /\ new.form = form /\ ~new.proven /\ ~new.stale /\ ~new.valid
        /\ (new.after <=> spent # NoPost)
    OBVIOUS
  <2> HIDE DEF new
  <2> QED BY <2>1, <2>2, <2>3, PostsAssumption
<1>1. ReviewTypeOK'
  BY <1>a, FormsAssumption, PostsAssumption DEF ReviewInv, ReviewTypeOK, Slot, Thread, Arrive
<1>2. TokenInv'
  <2>1. spent # p /\ UNCHANGED <<spent, slot, ended>>
    <3>1. p # NoPost
      BY PostsAssumption
    <3>2. spent # NoPost => post[spent] # NoPost
      BY DEF ReviewInv, TokenInv
    <3>3. spent # p
      BY <1>a, <3>1, <3>2
    <3> QED BY <3>3 DEF Arrive
  <2>2. \A q \in Posts : post[q] # NoPost => q # p /\ post'[q] = post[q]
    BY <1>a
  <2>3. spent # NoPost => post'[spent] = post[spent] /\ (Usable(spent)' <=> Usable(spent))
    BY <1>a, <2>1 DEF Usable, ReviewInv, ReviewTypeOK
  <2> QED BY <1>a, <2>1, <2>2, <2>3, PostsAssumption DEF ReviewInv, TokenInv
<1>3. SpentStays /\ LaterChangesNothing
  BY <1>a, PostsAssumption DEF ReviewInv, ReviewTypeOK, TokenInv, SpentStays, LaterChangesNothing, Thread, Arrive
<1> QED BY <1>1, <1>2, <1>3 DEF ReviewIsKept, ReviewInv

LEMMA ProveStep ==
  ASSUME ReviewInv, NEW p \in Posts, Prove(p)
  PROVE  ReviewIsKept
<1>a. post[p] # NoPost /\ post[p] \in Thread
  BY DEF Prove, ReviewInv, ReviewTypeOK
<1>b. /\ post'[p] \in Thread /\ post'[p] # NoPost
      /\ (post'[p].proven <=> post[p].form.token /\ spent = NoPost)
      /\ post'[p].at = IF post'[p].proven /\ post[p].form.notes # "unusable" THEN "observe" ELSE "validate"
      /\ post'[p].form = post[p].form /\ post'[p].stale = post[p].stale /\ post'[p].valid = post[p].valid /\ post'[p].after = post[p].after
      /\ \A q \in Posts \ {p} : post'[q] = post[q]
      /\ post' = [q \in Posts |-> post'[q]]
  <2>1. /\ post'[p] = [post[p] EXCEPT !.proven = post[p].form.token /\ spent = NoPost,
                             !.at = IF (post[p].form.token /\ spent = NoPost) /\ post[p].form.notes # "unusable"
                                    THEN "observe" ELSE "validate"]
        /\ \A q \in Posts \ {p} : post'[q] = post[q]
        /\ post' = [q \in Posts |-> post'[q]]
    BY DEF Prove, ReviewInv, TokenInv
  <2>2. post'[p] \in Thread
    BY <1>a, <2>1, FormsAssumption DEF Thread, Places, Form
  <2>3. /\ (post'[p].proven <=> post[p].form.token /\ spent = NoPost)
        /\ post'[p].at = IF post'[p].proven /\ post[p].form.notes # "unusable" THEN "observe" ELSE "validate"
        /\ post'[p].form = post[p].form /\ post'[p].stale = post[p].stale /\ post'[p].valid = post[p].valid /\ post'[p].after = post[p].after
    BY <1>a, <2>1 DEF Thread
  <2> QED BY <2>1, <2>2, <2>3, PostsAssumption
<1>1. ReviewTypeOK'
  BY <1>b DEF Prove, ReviewInv, ReviewTypeOK
<1>2. TokenInv'
  <2>1. spent # p /\ post[p].at = "prove" /\ UNCHANGED <<spent, slot, ended>>
    BY <1>a, PostsAssumption DEF Prove, ReviewInv, TokenInv
  <2>2. spent' # NoPost =>
          /\ post'[spent'] # NoPost /\ post'[spent'].form.token /\ Usable(spent)'
          /\ post'[spent'].at \in {"accepts", "answers", "ends", "gone"}
          /\ post'[spent'].at # "accepts" => slot'.kind # "nothing"
    BY <1>a, <1>b, <2>1, PostsAssumption DEF ReviewInv, ReviewTypeOK, TokenInv, Usable
  <2>3. slot'.kind = "accepted" => slot'.by = spent' /\ spent' # NoPost
    BY <1>a, <1>b, <2>1, PostsAssumption DEF ReviewInv, ReviewTypeOK, TokenInv, Usable
  <2>4. \A q \in Posts : post'[q] # NoPost =>
          /\ post'[q].valid => spent' = q
          /\ post'[q].at = "accepts" => spent' = q
          /\ post'[q].proven => post'[q].form.token
          /\ post'[q].after => /\ spent' \notin {NoPost, q} /\ ~post'[q].proven
                               /\ post'[q].at \notin {"observe", "judge", "refuses", "accepts"}
    <3> SUFFICES ASSUME NEW q \in Posts, post'[q] # NoPost
                 PROVE  /\ post'[q].valid => spent' = q
                        /\ post'[q].at = "accepts" => spent' = q
                        /\ post'[q].proven => post'[q].form.token
                        /\ post'[q].after => /\ spent' \notin {NoPost, q} /\ ~post'[q].proven
                                             /\ post'[q].at \notin {"observe", "judge", "refuses", "accepts"}
      OBVIOUS
    <3>1. CASE q = p
      BY <1>a, <1>b, <2>1, <3>1, PostsAssumption DEF ReviewInv, ReviewTypeOK, TokenInv
    <3>2. CASE q # p
      BY <1>a, <1>b, <2>1, <3>2, PostsAssumption DEF ReviewInv, ReviewTypeOK, TokenInv
    <3> QED BY <3>1, <3>2
  <2>5. ended' => \E q \in Posts : /\ post'[q] # NoPost /\ post'[q].form.token /\ post'[q].at = "gone"
                                 /\ \/ post'[q].stale
                                    \/ q = spent' /\ slot'.kind # "nothing"
    BY <1>a, <1>b, <2>1, PostsAssumption DEF ReviewInv, ReviewTypeOK, TokenInv, Usable
  <2> QED BY <1>b, <2>2, <2>3, <2>4, <2>5 DEF TokenInv
<1>3. SpentStays /\ LaterChangesNothing
  BY <1>a, <1>b, PostsAssumption DEF ReviewInv, ReviewTypeOK, TokenInv, SpentStays, LaterChangesNothing, Thread, Prove
<1> QED BY <1>1, <1>2, <1>3 DEF ReviewIsKept, ReviewInv

LEMMA ObserveStep ==
  ASSUME ReviewInv, NEW p \in Posts, Observe(p)
  PROVE  ReviewIsKept
<1>a. post[p] # NoPost /\ post[p] \in Thread
  BY DEF Observe, ReviewInv, ReviewTypeOK
<1>b. /\ post'[p] \in Thread /\ post'[p] # NoPost /\ post'[p].at = "judge"
      /\ post'[p].form = post[p].form /\ post'[p].proven = post[p].proven
      /\ post'[p].stale = post[p].stale /\ post'[p].valid = post[p].valid
      /\ post'[p].after = post[p].after
      /\ \A q \in Posts \ {p} : post'[q] = post[q]
      /\ post' = [q \in Posts |-> post'[q]]
  BY <1>a, ThreadMoves DEF Observe, Places
<1>1. ReviewTypeOK'
  BY <1>a, <1>b, FormsAssumption, PostsAssumption DEF ReviewInv, ReviewTypeOK, Slot, Thread, Observe
<1>2. TokenInv'
  BY <1>a, <1>b, PostsAssumption DEF ReviewInv, ReviewTypeOK, TokenInv, Usable, Thread, Observe
<1>3. SpentStays /\ LaterChangesNothing
  BY <1>a, <1>b, PostsAssumption DEF ReviewInv, ReviewTypeOK, TokenInv, SpentStays, LaterChangesNothing,
     Thread, Observe
<1> QED BY <1>1, <1>2, <1>3 DEF ReviewIsKept, ReviewInv

LEMMA ObserveFailsStep ==
  ASSUME ReviewInv, NEW p \in Posts, ObserveFails(p)
  PROVE  ReviewIsKept
<1>a. post[p] # NoPost /\ post[p] \in Thread
  BY DEF ObserveFails, ReviewInv, ReviewTypeOK
<1>b. /\ post'[p] \in Thread /\ post'[p] # NoPost
      /\ post'[p].stale /\ post'[p].at = "refused"
      /\ post'[p].form = post[p].form /\ post'[p].proven = post[p].proven /\ post'[p].valid = post[p].valid /\ post'[p].after = post[p].after
      /\ \A q \in Posts \ {p} : post'[q] = post[q]
      /\ post' = [q \in Posts |-> post'[q]]
  <2>1. /\ post'[p] = [post[p] EXCEPT !.stale = TRUE, !.at = "refused"]
        /\ \A q \in Posts \ {p} : post'[q] = post[q]
        /\ post' = [q \in Posts |-> post'[q]]
    BY DEF ObserveFails, ReviewInv, TokenInv
  <2>2. post'[p] \in Thread
    BY <1>a, <2>1, FormsAssumption DEF Thread, Places, Form
  <2>3. /\ post'[p].stale /\ post'[p].at = "refused"
        /\ post'[p].form = post[p].form /\ post'[p].proven = post[p].proven /\ post'[p].valid = post[p].valid /\ post'[p].after = post[p].after
    BY <1>a, <2>1 DEF Thread
  <2> QED BY <2>1, <2>2, <2>3, PostsAssumption
<1>1. ReviewTypeOK'
  BY <1>a, <1>b, FormsAssumption, PostsAssumption DEF ReviewInv, ReviewTypeOK, Slot, Thread, ObserveFails
<1>2. TokenInv'
  BY <1>a, <1>b, PostsAssumption DEF ReviewInv, ReviewTypeOK, TokenInv, Usable, Thread, ObserveFails
<1>3. SpentStays /\ LaterChangesNothing
  BY <1>a, <1>b, PostsAssumption DEF ReviewInv, ReviewTypeOK, TokenInv, SpentStays, LaterChangesNothing,
     Thread, ObserveFails
<1> QED BY <1>1, <1>2, <1>3 DEF ReviewIsKept, ReviewInv

LEMMA JudgeStep ==
  ASSUME ReviewInv, NEW p \in Posts, Judge(p)
  PROVE  ReviewIsKept
<1>a. post[p] # NoPost /\ post[p] \in Thread
  BY DEF Judge, ReviewInv, ReviewTypeOK
<1>b. /\ post'[p] \in Thread /\ post'[p] # NoPost
      /\ post'[p].at = "validate"
      /\ post'[p].form = post[p].form /\ post'[p].proven = post[p].proven /\ post'[p].valid = post[p].valid /\ post'[p].after = post[p].after
      /\ \A q \in Posts \ {p} : post'[q] = post[q]
      /\ post' = [q \in Posts |-> post'[q]]
  <2>1. /\ post'[p] = [post[p] EXCEPT !.stale = post[p].form.edits # "none" /\ observed # bound, !.at = "validate"]
        /\ \A q \in Posts \ {p} : post'[q] = post[q]
        /\ post' = [q \in Posts |-> post'[q]]
    BY DEF Judge, ReviewInv, TokenInv
  <2>2. post'[p] \in Thread
    BY <1>a, <2>1, FormsAssumption DEF Thread, Places, Form
  <2>3. /\ post'[p].at = "validate"
        /\ post'[p].form = post[p].form /\ post'[p].proven = post[p].proven /\ post'[p].valid = post[p].valid /\ post'[p].after = post[p].after
    BY <1>a, <2>1 DEF Thread
  <2> QED BY <2>1, <2>2, <2>3, PostsAssumption
<1>1. ReviewTypeOK'
  BY <1>b DEF Judge, ReviewInv, ReviewTypeOK
<1>2. TokenInv'
  <2>1. spent # p /\ post[p].at = "judge" /\ UNCHANGED <<spent, slot, ended>>
    BY <1>a, PostsAssumption DEF Judge, ReviewInv, TokenInv
  <2>2. spent' # NoPost =>
          /\ post'[spent'] # NoPost /\ post'[spent'].form.token /\ Usable(spent)'
          /\ post'[spent'].at \in {"accepts", "answers", "ends", "gone"}
          /\ post'[spent'].at # "accepts" => slot'.kind # "nothing"
    BY <1>b, <2>1, PostsAssumption DEF ReviewInv, ReviewTypeOK, TokenInv, Usable
  <2>3. slot'.kind = "accepted" => slot'.by = spent' /\ spent' # NoPost
    BY <1>b, <2>1, PostsAssumption DEF ReviewInv, ReviewTypeOK, TokenInv, Usable
  <2>4. \A q \in Posts : post'[q] # NoPost =>
          /\ post'[q].valid => spent' = q
          /\ post'[q].at = "accepts" => spent' = q
          /\ post'[q].proven => post'[q].form.token
          /\ post'[q].after => /\ spent' \notin {NoPost, q} /\ ~post'[q].proven
                               /\ post'[q].at \notin {"observe", "judge", "refuses", "accepts"}
    <3> SUFFICES ASSUME NEW q \in Posts, post'[q] # NoPost
                 PROVE  /\ post'[q].valid => spent' = q
                        /\ post'[q].at = "accepts" => spent' = q
                        /\ post'[q].proven => post'[q].form.token
                        /\ post'[q].after => /\ spent' \notin {NoPost, q} /\ ~post'[q].proven
                                             /\ post'[q].at \notin {"observe", "judge", "refuses", "accepts"}
      OBVIOUS
    <3>1. CASE q = p
      BY <1>a, <1>b, <2>1, <3>1, PostsAssumption DEF ReviewInv, ReviewTypeOK, TokenInv
    <3>2. CASE q # p
      BY <1>a, <1>b, <2>1, <3>2, PostsAssumption DEF ReviewInv, ReviewTypeOK, TokenInv
    <3> QED BY <3>1, <3>2
  <2>5. ended' => \E q \in Posts : /\ post'[q] # NoPost /\ post'[q].form.token /\ post'[q].at = "gone"
                                 /\ \/ post'[q].stale
                                    \/ q = spent' /\ slot'.kind # "nothing"
    BY <1>b, <2>1, PostsAssumption DEF ReviewInv, ReviewTypeOK, TokenInv, Usable
  <2> QED BY <1>b, <2>2, <2>3, <2>4, <2>5 DEF TokenInv
<1>3. SpentStays /\ LaterChangesNothing
  BY <1>a, <1>b, PostsAssumption DEF ReviewInv, ReviewTypeOK, TokenInv, SpentStays, LaterChangesNothing, Thread, Judge
<1> QED BY <1>1, <1>2, <1>3 DEF ReviewIsKept, ReviewInv

LEMMA ValidateStep ==
  ASSUME ReviewInv, NEW p \in Posts, Validate(p)
  PROVE  ReviewIsKept
<1>a. post[p] # NoPost /\ post[p] \in Thread
  BY DEF Validate, ReviewInv, ReviewTypeOK
<1>b. /\ post'[p] \in Thread /\ post'[p] # NoPost
      /\ (post'[p].valid <=> Spends(p))
      /\ post'[p].at = IF Spends(p) THEN "accepts" ELSE "refused"
      /\ post'[p].form = post[p].form /\ post'[p].proven = post[p].proven /\ post'[p].stale = post[p].stale /\ post'[p].after = post[p].after
      /\ \A q \in Posts \ {p} : post'[q] = post[q]
      /\ post' = [q \in Posts |-> post'[q]]
  <2>1. /\ post'[p] = [post[p] EXCEPT !.valid = Spends(p), !.at = IF Spends(p) THEN "accepts" ELSE "refused"]
        /\ \A q \in Posts \ {p} : post'[q] = post[q]
        /\ post' = [q \in Posts |-> post'[q]]
    BY DEF Validate, ReviewInv, TokenInv
  <2>2. post'[p] \in Thread
    BY <1>a, <2>1, FormsAssumption DEF Thread, Places, Form, Spends, Usable
  <2>3. /\ (post'[p].valid <=> Spends(p))
        /\ post'[p].at = IF Spends(p) THEN "accepts" ELSE "refused"
        /\ post'[p].form = post[p].form /\ post'[p].proven = post[p].proven /\ post'[p].stale = post[p].stale /\ post'[p].after = post[p].after
    BY <1>a, <2>1 DEF Thread, Spends, Usable
  <2> QED BY <2>1, <2>2, <2>3, PostsAssumption
<1>1. ReviewTypeOK'
  BY <1>a, <1>b, FormsAssumption, PostsAssumption DEF ReviewInv, ReviewTypeOK, Slot, Thread, Validate, Spends
<1>2. TokenInv'
  <2>1. /\ spent # p /\ post[p].at = "validate" /\ UNCHANGED <<slot, ended>>
        /\ spent' = IF Spends(p) THEN p ELSE spent
        /\ Spends(p) => spent = NoPost /\ Usable(p) /\ post[p].form.token
    BY <1>a, PostsAssumption DEF Validate, ReviewInv, TokenInv, Spends
  <2>2. spent' # NoPost =>
          /\ post'[spent'] # NoPost /\ post'[spent'].form.token /\ Usable(spent)'
          /\ post'[spent'].at \in {"accepts", "answers", "ends", "gone"}
          /\ post'[spent'].at # "accepts" => slot'.kind # "nothing"
    BY <1>a, <1>b, <2>1, PostsAssumption DEF ReviewInv, ReviewTypeOK, TokenInv, Usable
  <2>3. slot'.kind = "accepted" => slot'.by = spent' /\ spent' # NoPost
    BY <1>a, <1>b, <2>1, PostsAssumption DEF ReviewInv, ReviewTypeOK, TokenInv, Usable
  <2>4. \A q \in Posts : post'[q] # NoPost =>
          /\ post'[q].valid => spent' = q
          /\ post'[q].at = "accepts" => spent' = q
          /\ post'[q].proven => post'[q].form.token
          /\ post'[q].after => /\ spent' \notin {NoPost, q} /\ ~post'[q].proven
                               /\ post'[q].at \notin {"observe", "judge", "refuses", "accepts"}
    <3> SUFFICES ASSUME NEW q \in Posts, post'[q] # NoPost
                 PROVE  /\ post'[q].valid => spent' = q
                        /\ post'[q].at = "accepts" => spent' = q
                        /\ post'[q].proven => post'[q].form.token
                        /\ post'[q].after => /\ spent' \notin {NoPost, q} /\ ~post'[q].proven
                                             /\ post'[q].at \notin {"observe", "judge", "refuses", "accepts"}
      OBVIOUS
    <3>1. CASE q = p
      BY <1>a, <1>b, <2>1, <3>1, PostsAssumption DEF ReviewInv, ReviewTypeOK, TokenInv
    <3>2. CASE q # p
      BY <1>a, <1>b, <2>1, <3>2, PostsAssumption DEF ReviewInv, ReviewTypeOK, TokenInv
    <3> QED BY <3>1, <3>2
  <2>5. ended' => \E q \in Posts : /\ post'[q] # NoPost /\ post'[q].form.token /\ post'[q].at = "gone"
                                 /\ \/ post'[q].stale
                                    \/ q = spent' /\ slot'.kind # "nothing"
    BY <1>a, <1>b, <2>1, PostsAssumption DEF ReviewInv, ReviewTypeOK, TokenInv, Usable
  <2> QED BY <1>b, <2>2, <2>3, <2>4, <2>5 DEF TokenInv
<1>3. SpentStays /\ LaterChangesNothing
  BY <1>a, <1>b, PostsAssumption DEF ReviewInv, ReviewTypeOK, TokenInv, SpentStays, LaterChangesNothing,
     Thread, Validate, Spends
<1> QED BY <1>1, <1>2, <1>3 DEF ReviewIsKept, ReviewInv

LEMMA LookBeforeRefusingStep ==
  ASSUME ReviewInv, NEW p \in Posts, LookBeforeRefusing(p)
  PROVE  ReviewIsKept
<1> DEFINE position == IF spent = NoPost THEN "refuses" ELSE "answers"
<1>a. post[p] # NoPost /\ post[p] \in Thread /\ post[p].at = "refused"
  BY DEF LookBeforeRefusing, ReviewInv, ReviewTypeOK
<1>b. /\ post'[p] \in Thread /\ post'[p] # NoPost /\ post'[p].at = position
      /\ post'[p].form = post[p].form /\ post'[p].proven = post[p].proven
      /\ post'[p].stale = post[p].stale /\ post'[p].valid = post[p].valid
      /\ post'[p].after = post[p].after
      /\ \A q \in Posts \ {p} : post'[q] = post[q]
      /\ post' = [q \in Posts |-> post'[q]]
  BY <1>a, ThreadMoves DEF LookBeforeRefusing, Places
<1>1. ReviewTypeOK'
  BY <1>b DEF LookBeforeRefusing, ReviewInv, ReviewTypeOK
<1>2. TokenInv'
  BY <1>a, <1>b, PostsAssumption DEF LookBeforeRefusing, ReviewInv, ReviewTypeOK, TokenInv, Usable
<1>3. SpentStays /\ LaterChangesNothing
  BY <1>a, <1>b DEF LookBeforeRefusing, ReviewInv, ReviewTypeOK, TokenInv, SpentStays, LaterChangesNothing
<1> QED BY <1>1, <1>2, <1>3 DEF ReviewIsKept, ReviewInv

LEMMA RefuseStep ==
  ASSUME ReviewInv, NEW p \in Posts, Refuse(p)
  PROVE  ReviewIsKept
<1>a. post[p] # NoPost /\ post[p] \in Thread
  BY DEF Refuse, ReviewInv, ReviewTypeOK
<1>b. /\ post'[p] \in Thread /\ post'[p] # NoPost /\ post'[p].at = "answers"
      /\ post'[p].form = post[p].form /\ post'[p].proven = post[p].proven
      /\ post'[p].stale = post[p].stale /\ post'[p].valid = post[p].valid
      /\ post'[p].after = post[p].after
      /\ \A q \in Posts \ {p} : post'[q] = post[q]
      /\ post' = [q \in Posts |-> post'[q]]
  BY <1>a, ThreadMoves DEF Refuse, Places
<1>1. ReviewTypeOK'
  BY <1>a, <1>b, FormsAssumption, PostsAssumption DEF ReviewInv, ReviewTypeOK, Slot, Thread, Refuse
<1>2. TokenInv'
  BY <1>a, <1>b, PostsAssumption DEF ReviewInv, ReviewTypeOK, TokenInv, Usable, Thread, Refuse
<1>3. SpentStays /\ LaterChangesNothing
  BY <1>a, <1>b, PostsAssumption DEF ReviewInv, ReviewTypeOK, TokenInv, SpentStays, LaterChangesNothing,
     Thread, Refuse
<1> QED BY <1>1, <1>2, <1>3 DEF ReviewIsKept, ReviewInv

LEMMA AcceptStep ==
  ASSUME ReviewInv, NEW p \in Posts, Accept(p)
  PROVE  ReviewIsKept
<1>a. post[p] # NoPost /\ post[p] \in Thread
  BY DEF Accept, ReviewInv, ReviewTypeOK
<1>b. /\ post'[p] \in Thread /\ post'[p] # NoPost /\ post'[p].at = "answers"
      /\ post'[p].form = post[p].form /\ post'[p].proven = post[p].proven
      /\ post'[p].stale = post[p].stale /\ post'[p].valid = post[p].valid
      /\ post'[p].after = post[p].after
      /\ \A q \in Posts \ {p} : post'[q] = post[q]
      /\ post' = [q \in Posts |-> post'[q]]
  BY <1>a, ThreadMoves DEF Accept, Places
<1>1. ReviewTypeOK'
  BY <1>a, <1>b, FormsAssumption, PostsAssumption DEF ReviewInv, ReviewTypeOK, Slot, Thread, Accept
<1>2. TokenInv'
  BY <1>a, <1>b, PostsAssumption DEF ReviewInv, ReviewTypeOK, TokenInv, Usable, Thread, Accept
<1>3. SpentStays /\ LaterChangesNothing
  BY <1>a, <1>b, PostsAssumption DEF ReviewInv, ReviewTypeOK, TokenInv, SpentStays, LaterChangesNothing,
     Thread, Accept
<1> QED BY <1>1, <1>2, <1>3 DEF ReviewIsKept, ReviewInv

LEMMA AnswerStep ==
  ASSUME ReviewInv, NEW p \in Posts, Answer(p)
  PROVE  ReviewIsKept
<1>a. post[p] # NoPost /\ post[p] \in Thread
  BY DEF Answer, ReviewInv, ReviewTypeOK
<1>b. /\ post'[p] \in Thread /\ post'[p] # NoPost /\ post'[p].at = "ends"
      /\ post'[p].form = post[p].form /\ post'[p].proven = post[p].proven
      /\ post'[p].stale = post[p].stale /\ post'[p].valid = post[p].valid
      /\ post'[p].after = post[p].after
      /\ \A q \in Posts \ {p} : post'[q] = post[q]
      /\ post' = [q \in Posts |-> post'[q]]
  BY <1>a, ThreadMoves DEF Answer, Places
<1>1. ReviewTypeOK'
  BY <1>a, <1>b, FormsAssumption, PostsAssumption DEF ReviewInv, ReviewTypeOK, Slot, Thread, Answer
<1>2. TokenInv'
  BY <1>a, <1>b, PostsAssumption DEF ReviewInv, ReviewTypeOK, TokenInv, Usable, Thread, Answer
<1>3. SpentStays /\ LaterChangesNothing
  BY <1>a, <1>b, PostsAssumption DEF ReviewInv, ReviewTypeOK, TokenInv, SpentStays, LaterChangesNothing,
     Thread, Answer
<1> QED BY <1>1, <1>2, <1>3 DEF ReviewIsKept, ReviewInv

LEMMA AnswerLostStep ==
  ASSUME ReviewInv, NEW p \in Posts, AnswerLost(p)
  PROVE  ReviewIsKept
<1>a. post[p] # NoPost /\ post[p] \in Thread
  BY DEF AnswerLost, ReviewInv, ReviewTypeOK
<1>b. /\ post'[p] \in Thread /\ post'[p] # NoPost /\ post'[p].at = "gone"
      /\ post'[p].form = post[p].form /\ post'[p].proven = post[p].proven
      /\ post'[p].stale = post[p].stale /\ post'[p].valid = post[p].valid
      /\ post'[p].after = post[p].after
      /\ \A q \in Posts \ {p} : post'[q] = post[q]
      /\ post' = [q \in Posts |-> post'[q]]
  BY <1>a, ThreadMoves DEF AnswerLost, Places
<1>1. ReviewTypeOK'
  BY <1>a, <1>b, FormsAssumption, PostsAssumption DEF ReviewInv, ReviewTypeOK, Slot, Thread, AnswerLost
<1>2. TokenInv'
  BY <1>a, <1>b, PostsAssumption DEF ReviewInv, ReviewTypeOK, TokenInv, Usable, Thread, AnswerLost
<1>3. SpentStays /\ LaterChangesNothing
  BY <1>a, <1>b, PostsAssumption DEF ReviewInv, ReviewTypeOK, TokenInv, SpentStays, LaterChangesNothing,
     Thread, AnswerLost
<1> QED BY <1>1, <1>2, <1>3 DEF ReviewIsKept, ReviewInv

LEMMA EndSessionStep ==
  ASSUME ReviewInv, NEW p \in Posts, EndSession(p)
  PROVE  ReviewIsKept
<1>a. post[p] # NoPost /\ post[p] \in Thread
  BY DEF EndSession, ReviewInv, ReviewTypeOK
<1>b. /\ post'[p] \in Thread /\ post'[p] # NoPost /\ post'[p].at = "gone"
      /\ post'[p].form = post[p].form /\ post'[p].proven = post[p].proven
      /\ post'[p].stale = post[p].stale /\ post'[p].valid = post[p].valid
      /\ post'[p].after = post[p].after
      /\ \A q \in Posts \ {p} : post'[q] = post[q]
      /\ post' = [q \in Posts |-> post'[q]]
  BY <1>a, ThreadMoves DEF EndSession, Places
<1>1. ReviewTypeOK'
  BY <1>a, <1>b, FormsAssumption, PostsAssumption DEF ReviewInv, ReviewTypeOK, Slot, Thread, EndSession
<1>2. TokenInv'
  BY <1>a, <1>b, PostsAssumption DEF ReviewInv, ReviewTypeOK, TokenInv, Usable, Thread, EndSession
<1>3. SpentStays /\ LaterChangesNothing
  BY <1>a, <1>b, PostsAssumption DEF ReviewInv, ReviewTypeOK, TokenInv, SpentStays, LaterChangesNothing,
     Thread, EndSession
<1> QED BY <1>1, <1>2, <1>3 DEF ReviewIsKept, ReviewInv

LEMMA OpenReviewStep ==
  ASSUME ReviewInv, NEW owned \in BOOLEAN, OpenReview(owned)
  PROVE  ReviewIsKept
<1>1. ReviewTypeOK'
  BY PostsAssumption DEF ReviewInv, ReviewTypeOK, Slot, OpenReview
<1> QED BY <1>1, CallMoves DEF OpenReview

LEMMA WaitEndsStep ==
  ASSUME ReviewInv, WaitEnds
  PROVE  ReviewIsKept
<1>1. ReviewTypeOK'
  BY PostsAssumption DEF ReviewInv, ReviewTypeOK, Slot, WaitEnds
<1> QED BY <1>1, CallMoves DEF WaitEnds

LEMMA TimesOutStep ==
  ASSUME ReviewInv, TimesOut
  PROVE  ReviewIsKept
<1>1. ReviewTypeOK'
  BY PostsAssumption DEF ReviewInv, ReviewTypeOK, Slot, TimesOut
<1> QED BY <1>1, CallMoves DEF TimesOut

LEMMA RecordTimeoutStep ==
  ASSUME ReviewInv, RecordTimeout
  PROVE  ReviewIsKept
<1>1. ReviewTypeOK'
  BY PostsAssumption DEF ReviewInv, ReviewTypeOK, Slot, RecordTimeout
<1> QED BY <1>1, CallMoves DEF RecordTimeout

LEMMA CloseWindowStep ==
  ASSUME ReviewInv, NEW killed \in BOOLEAN, CloseWindow(killed)
  PROVE  ReviewIsKept
<1>1. ReviewTypeOK'
  BY PostsAssumption DEF ReviewInv, ReviewTypeOK, Slot, CloseWindow
<1> QED BY <1>1, CallMoves DEF CloseWindow

LEMMA StopServerStep ==
  ASSUME ReviewInv, StopServer
  PROVE  ReviewIsKept
<1>1. ReviewTypeOK'
  BY PostsAssumption DEF ReviewInv, ReviewTypeOK, Slot, StopServer
<1> QED BY <1>1, CallMoves DEF StopServer

LEMMA StopFailsStep ==
  ASSUME ReviewInv, StopFails
  PROVE  ReviewIsKept
<1>1. ReviewTypeOK'
  BY PostsAssumption DEF ReviewInv, ReviewTypeOK, Slot, StopFails
<1> QED BY <1>1, CallMoves DEF StopFails

LEMMA SourceMovesStep ==
  ASSUME ReviewInv, SourceMoves
  PROVE  ReviewIsKept
<1>1. ReviewTypeOK'
  BY PostsAssumption DEF ReviewInv, ReviewTypeOK, Slot, SourceMoves
<1> QED BY <1>1, CallMoves DEF SourceMoves


LEMMA ReviewStep == ASSUME ReviewInv, ReviewNext PROVE ReviewIsKept
<1>1. ASSUME NEW p \in Posts, Handle(p) PROVE ReviewIsKept
  BY <1>1, ArriveStep, ProveStep, ObserveStep, ObserveFailsStep, JudgeStep, ValidateStep,
     LookBeforeRefusingStep, RefuseStep, AcceptStep, AnswerStep, AnswerLostStep, EndSessionStep DEF Handle
<1> QED BY <1>1, OpenReviewStep, WaitEndsStep, TimesOutStep, RecordTimeoutStep, CloseWindowStep,
           StopServerStep, StopFailsStep, SourceMovesStep DEF ReviewNext

-----------------------------------------------------------------------------
(* Who decides.                                                              *)

\* What the decision of a review says is what the user's submission says.
VerdictHolds ==
  verdict # None =>
    LET form == post[spent].form
    IN /\ verdict.confirmed => verdict.passed /\ spent # NoPost /\ form.choice = "confirm"
       /\ verdict.passed => /\ spent # NoPost
                            /\ form.token /\ ~post[spent].stale
                            /\ \/ form.choice = "skip" \/ form.notes = "good"
                               \/ form.notes = "none" /\ form.edits = "real"

\* A decision that confirms on behalf of the review is the user's.
EntryHolds ==
  \A r \in Rounds : entry[r] # None /\ entry[r].confirms /\ entry[r].id = reviewer =>
    spent # NoPost /\ post[spent].form.choice = "confirm"

RoundInv == HistoryInv /\ ReviewInv /\ reviewer \in 0 .. calls /\ VerdictHolds /\ EntryHolds

LEMMA TokenDecides == ReviewInv => OneDecision
BY DEF ReviewInv, TokenInv, OneDecision

LEMMA RoundInvDecides == RoundInv => DecidedByTheUser
BY TokenDecides DEF RoundInv, VerdictHolds, EntryHolds, DecidedByTheUser

LEMMA RoundInitInv == RoundInit => RoundInv
<1> SUFFICES ASSUME RoundInit PROVE RoundInv
  OBVIOUS
<1>1. ReviewTypeOK
  <2>1. slot \in Slot
    BY DEF RoundInit, ReviewInit, Slot
  <2>2. moves \in 0 .. MaxMoves /\ source \in 1 .. 2 /\ bound \in 0 .. 2 /\ observed \in 0 .. 2
    BY PostsAssumption DEF RoundInit, ReviewInit
  <2> QED BY <2>1, <2>2 DEF RoundInit, ReviewInit, ReviewTypeOK
<1>2. TokenInv
  BY DEF RoundInit, ReviewInit, TokenInv
<1>3. reviewer \in 0 .. calls /\ VerdictHolds /\ EntryHolds
  BY DEF RoundInit, Init, VerdictHolds, EntryHolds
<1> QED BY <1>1, <1>2, <1>3, HistoryInit DEF RoundInv, ReviewInv

LEMMA ReviewUntouched ==
  ASSUME ReviewInv, UNCHANGED reviewVars
  PROVE  ReviewIsKept
<1>1. UNCHANGED <<spent, ended, post, slot>>
  BY DEF reviewVars
<1>2. ReviewTypeOK'
  BY DEF ReviewInv, ReviewTypeOK, reviewVars
<1> QED BY <1>1, <1>2, CallMoves

\* The verdict stays true while it stays.
LEMMA VerdictStays ==
  ASSUME ReviewInv, VerdictHolds, ReviewIsKept, verdict' = verdict
  PROVE  VerdictHolds'
BY DEF ReviewIsKept, SpentStays, VerdictHolds, ReviewInv, TokenInv

\* The number of calls does not shrink.
LEMMA CallsGrow == ASSUME HistoryInv, RoundNext PROVE calls' \in Nat /\ calls \in Nat /\ calls <= calls'
<1>1. calls \in Nat
  BY DEF HistoryInv, TypeOK
<1>2. ASSUME NEW p \in Processes, Transacts(p) PROVE calls' = calls
  BY <1>2 DEF Transacts, CreateLock, StampLock, EnterRecovery, RecoveryActive, Claimed, ClaimRefused,
     UnlinkLock, LeaveRecovery, Repair, Conflict, Collect, Fails, CommitEntry, Register, EnterProjection,
     WriteConfirm, ConfirmMismatch, Release, Ends, Keeps
<1>3. ASSUME NEW p \in Processes, Transact(p) PROVE calls' \in {calls, calls + 1}
  BY <1>2, <1>3 DEF Transact, Starts, Heartbeat, Dies, Ends, ReadProjected, ReadEntries, WriteProjected, WriteLog
<1>4. ASSUME NEW p \in Processes, Decide(p) PROVE calls' = calls
  BY <1>4 DEF Decide, CommitReview, ReviewFails, Fails, CommitEntry
<1>5. ASSUME NEW p \in Processes, VersionStep(p) PROVE calls' \in {calls, calls + 1}
  BY <1>5 DEF VersionStep, StartVersion, StartFork, StartRefresh, StartJob, LockVersions, NameNothing,
     NameVersion, LockProjection, ReadForLog, WriteVersionsLog, LockDestination, DestinationExists,
     RenameStaging, JobStops, vars
<1>6. ASSUME NEW p \in Processes, Ask(p) PROVE calls' = calls
  BY <1>6 DEF Ask, vars
<1>7. ASSUME ReviewGoesOn PROVE calls' = calls
  BY <1>7 DEF ReviewGoesOn, vars
<1>8. ASSUME NEW r \in Rounds, LockStale(r) PROVE calls' = calls
  BY <1>8 DEF LockStale
<1> QED BY <1>1, <1>3, <1>4, <1>5, <1>6, <1>7, <1>8 DEF RoundNext, KeepVersions

\* Only a call that does not wait for the review, or the review's own, commits.
LEMMA WhoCommits ==
  ASSUME RoundNext
  PROVE  \/ entry' = entry
         \/ \E p \in Processes : CommitEntry(p) /\ ~Collects(p) /\ reviewer' = reviewer
         \/ \E p \in Processes : Decide(p) /\ CommitReview(p)
<1>1. ASSUME NEW p \in Processes, Transact(p) PROVE entry' = entry \/ (CommitEntry(p) /\ ~Collects(p))
  BY <1>1 DEF Transact, Transacts, Starts, CreateLock, StampLock, EnterRecovery, RecoveryActive, Claimed,
     ClaimRefused, UnlinkLock, LeaveRecovery, Repair, Conflict, Collect, Fails, Register, EnterProjection,
     WriteConfirm, ConfirmMismatch, Release, Heartbeat, Dies, Ends, Keeps, ReadProjected, ReadEntries,
     WriteProjected, WriteLog, disk
<1>2. ASSUME NEW p \in Processes, Decide(p) PROVE entry' = entry \/ CommitReview(p)
  BY <1>2 DEF Decide, ReviewFails, Fails, disk
<1>3. ASSUME NEW p \in Processes, VersionStep(p) PROVE entry' = entry
  BY <1>3 DEF VersionStep, StartVersion, StartFork, StartRefresh, StartJob, LockVersions, NameNothing,
     NameVersion, LockProjection, ReadForLog, WriteVersionsLog, LockDestination, DestinationExists,
     RenameStaging, JobStops, vars, disk
<1>4. ASSUME NEW p \in Processes, Ask(p) PROVE entry' = entry
  BY <1>4 DEF Ask, vars, disk
<1>5. ASSUME ReviewGoesOn PROVE entry' = entry
  BY <1>5 DEF ReviewGoesOn, vars, disk
<1>6. ASSUME NEW r \in Rounds, LockStale(r) PROVE entry' = entry
  BY <1>6 DEF LockStale
<1>7. ASSUME NEW p \in Processes, Transact(p) PROVE reviewer' = reviewer
  BY <1>7 DEF Transact
<1> QED BY <1>1, <1>2, <1>3, <1>4, <1>5, <1>6, <1>7 DEF RoundNext, KeepVersions

\* The decision a call commits has the number of the call.
LEMMA CommittedEntry ==
  ASSUME HistoryInv, NEW p \in Processes, CommitEntry(p)
  PROVE  /\ Round(p) \in Rounds /\ entry'[Round(p)].id = run[p].call
         /\ \A r \in Rounds \ {Round(p)} : entry'[r] = entry[r]
<1>1. Round(p) \in Rounds /\ run[p].id = run[p].call
  BY OwnNumber DEF CommitEntry, HistoryInv, DecisionsInv, Round, Mine, Call
<1> QED BY <1>1 DEF CommitEntry, HistoryInv, TypeOK

LEMMA AskStep == ASSUME RoundInv, NEW p \in Processes, Ask(p), HistoryInv' PROVE RoundInv'
<1>1. ReviewIsKept
  BY OpenReviewStep DEF Ask, RoundInv
<1>2. /\ reviewer' = run[p].call /\ pc[p] = "collect" /\ run[p].call \in 1 .. calls
      /\ UNCHANGED <<entry, calls, verdict>>
  BY OwnNumber DEF Ask, RoundInv, Mine, vars, disk
<1>3. \A r \in Rounds : entry[r] # None => entry[r].id # run[p].call
  BY <1>2 DEF RoundInv, HistoryInv, DecisionsInv, Early, Mine
<1>4. VerdictHolds'
  BY <1>1, <1>2, VerdictStays DEF RoundInv
<1>5. EntryHolds'
  BY <1>2, <1>3 DEF EntryHolds
<1> QED BY <1>1, <1>2, <1>4, <1>5 DEF RoundInv, ReviewIsKept, HistoryInv, TypeOK

LEMMA CommitReviewStep ==
  ASSUME RoundInv, NEW p \in Processes, Collects(p), CommitReview(p), HistoryInv'
  PROVE  RoundInv' /\ ReviewIsKept
<1>1. ReviewIsKept /\ UNCHANGED <<slot, post, spent, bound, reviewer, calls>>
  BY ReviewUntouched DEF CommitReview, CommitEntry, RoundInv, reviewVars
<1>2. UserConfirms(slot) => spent # NoPost /\ slot.by = spent /\ post[spent].form.choice = "confirm"
  BY DEF UserConfirms, RoundInv, ReviewInv, TokenInv
<1>3. slot.kind = "accepted" /\ FloorPasses(slot) =>
        /\ spent # NoPost /\ post[spent].form.token /\ ~post[spent].stale
        /\ \/ post[spent].form.choice = "skip" \/ post[spent].form.notes = "good"
           \/ post[spent].form.notes = "none" /\ post[spent].form.edits = "real"
  BY DEF FloorPasses, EditsCount, RoundInv, ReviewInv, TokenInv, Usable
<1>4. /\ verdict'.confirmed <=> Confirms(slot)
      /\ verdict'.passed <=> slot.kind = "accepted" /\ FloorPasses(slot)
  BY DEF CommitReview
<1>5. VerdictHolds'
  BY <1>1, <1>2, <1>3, <1>4 DEF VerdictHolds, Confirms, UserConfirms
<1>6. entry'[Round(p)].confirms <=> UserConfirms(slot)
  BY DEF CommitReview
<1>7. EntryHolds'
  <2> SUFFICES ASSUME NEW r \in Rounds, entry'[r] # None, entry'[r].confirms, entry'[r].id = reviewer
               PROVE  spent # NoPost /\ post[spent].form.choice = "confirm"
    BY <1>1 DEF EntryHolds
  <2>1. CASE r = Round(p)
    BY <1>2, <1>6, <2>1
  <2>2. CASE r # Round(p)
    BY <2>2, CommittedEntry DEF RoundInv, EntryHolds, CommitReview
  <2> QED BY <2>1, <2>2
<1> QED BY <1>1, <1>5, <1>7 DEF RoundInv, ReviewIsKept

\* A step after which the review still answers the same call, with the same verdict.
LEMMA BesideTheReview ==
  ASSUME RoundInv, RoundNext, HistoryInv', UNCHANGED <<reviewer, verdict>>, ReviewIsKept
  PROVE  RoundInv'
<1>1. reviewer' \in 0 .. calls'
  BY CallsGrow DEF RoundInv
<1>2. VerdictHolds'
  BY VerdictStays DEF RoundInv
<1>3. ASSUME entry' = entry \/ \E p \in Processes : CommitEntry(p) /\ ~Collects(p) PROVE EntryHolds'
  <2> SUFFICES ASSUME NEW r \in Rounds, entry'[r] # None, entry'[r].confirms, entry'[r].id = reviewer
               PROVE  spent' # NoPost /\ post'[spent'].form.choice = "confirm"
    BY DEF EntryHolds
  <2>1. entry'[r] = entry[r]
    <3>1. ASSUME NEW p \in Processes, CommitEntry(p), ~Collects(p) PROVE entry'[r] = entry[r]
      <4>1. entry'[Round(p)].id = run[p].call /\ run[p].call # reviewer
        BY <3>1, CommittedEntry DEF Collects, CommitEntry, RoundInv
      <4>2. r # Round(p)
        BY <4>1
      <4> QED BY <3>1, <4>2, CommittedEntry DEF RoundInv
    <3> QED BY <1>3, <3>1
  <2>2. spent # NoPost /\ post[spent].form.choice = "confirm"
    BY <2>1 DEF RoundInv, EntryHolds
  <2> QED BY <2>2 DEF ReviewIsKept, SpentStays
<1>4. ASSUME NEW p \in Processes, Decide(p), CommitReview(p) PROVE RoundInv'
  BY <1>4, CommitReviewStep DEF Decide
<1> QED BY <1>1, <1>2, <1>3, <1>4, WhoCommits DEF RoundInv, ReviewIsKept

LEMMA RoundNextInv == RoundInv /\ [RoundNext]_roundVars => RoundInv' /\ [LaterChangesNothing]_roundVars
<1> SUFFICES ASSUME RoundInv, [RoundNext]_roundVars
             PROVE  RoundInv' /\ [LaterChangesNothing]_roundVars
  OBVIOUS
<1>1. HistoryInv'
  BY HistoryNext DEF RoundInv
<1>2. CASE UNCHANGED roundVars
  <2>1. ReviewIsKept
    BY <1>2, ReviewUntouched DEF RoundInv, roundVars
  <2>2. UNCHANGED <<verdict, reviewer, entry, calls, spent, post>>
    BY <1>2 DEF roundVars, vars, disk, reviewVars
  <2>3. VerdictHolds' /\ EntryHolds'
    BY <2>2 DEF RoundInv, VerdictHolds, EntryHolds
  <2> QED BY <1>1, <1>2, <2>1, <2>2, <2>3 DEF RoundInv, ReviewIsKept
<1>3. ASSUME NEW p \in Processes, Ask(p) PROVE RoundInv' /\ LaterChangesNothing
  BY <1>1, <1>3, AskStep, OpenReviewStep DEF Ask, RoundInv, ReviewIsKept
<1>4. ASSUME NEW p \in Processes, Decide(p), CommitReview(p) PROVE RoundInv' /\ LaterChangesNothing
  BY <1>1, <1>4, CommitReviewStep DEF Decide, ReviewIsKept
<1>5. ASSUME RoundNext, UNCHANGED <<reviewVars, reviewer, verdict>> PROVE RoundInv' /\ LaterChangesNothing
  BY <1>1, <1>5, ReviewUntouched, BesideTheReview DEF RoundInv, ReviewIsKept
<1>6. ASSUME RoundNext, ReviewGoesOn PROVE RoundInv' /\ LaterChangesNothing
  BY <1>1, <1>6, ReviewStep, BesideTheReview DEF ReviewGoesOn, RoundInv, ReviewIsKept
<1>7. ASSUME NEW p \in Processes, Decide(p), ~CommitReview(p) PROVE UNCHANGED <<reviewVars, reviewer, verdict>>
  BY <1>7 DEF Decide, ReviewFails
<1>8. ASSUME NEW p \in Processes, Transact(p) PROVE UNCHANGED <<reviewVars, reviewer, verdict>>
  BY <1>8 DEF Transact
<1>9. ASSUME KeepVersions PROVE UNCHANGED <<reviewVars, reviewer, verdict>>
  BY <1>9 DEF KeepVersions
<1>10. CASE RoundNext
  BY <1>3, <1>4, <1>5, <1>6, <1>7, <1>8, <1>9, <1>10 DEF RoundNext
<1> QED BY <1>2, <1>10

\* A round is confirmed only by the user's own form, and nothing that is posted
\* after the decision changes what the call returns, however many submissions,
\* threads and processes there are (do_POST, _floor_verdict, _run_locked).
THEOREM OnlyTheUserDecides == RoundSpec => DecisionIsTheUsers
<1>1. RoundSpec => []RoundInv
  BY RoundInitInv, RoundNextInv, PTL DEF RoundSpec
<1> QED BY <1>1, RoundInvDecides, RoundNextInv, PTL DEF RoundSpec, DecisionIsTheUsers

=============================================================================
