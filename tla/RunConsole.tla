----------------------------- MODULE RunConsole -----------------------------
(***************************************************************************)
(* The Run Console (mcp/run_console): a session serves one snapshot of a   *)
(* run directory that other tools go on writing, and exports reviewed      *)
(* pairs of files below trial-export/.                                     *)
(*                                                                         *)
(* Every request holds the session's lock from its first read to its last  *)
(* write, so one call is under way at a time; what interleaves with it is  *)
(* the directory, and a stop of the process. A build reads each source     *)
(* twice. A hash is the content it is computed from. The content of a file *)
(* is the number of the edit that wrote it: no file gets back a content it *)
(* had, and a report binds the evidence artifact whenever both exist.      *)
(* Profile, contract bind, preview and package metadata are read and       *)
(* verified as the specification is, and left out; so are the locators and *)
(* excerpts of sources, and malformed text.                                *)
(***************************************************************************)
EXTENDS Integers, Sequences, FiniteSets, SequencesExt

CONSTANTS
  Refs,      \* participant references
  None,
  MaxEdits,  \* bound: edits of the run directory by other tools
  MaxFaults, \* bound: failing builds and refused file operations
  MaxStops,  \* bound: stops of the process
  MaxTicks,  \* bound: seconds that matter
  MaxReviews \* bound: previews shown

Files == {"spec", "pointback", "baseline", "artifact"}

\* What a source hashes: a content, the list of what exists, or both.
Endings == {"json", "md", "json.staged", "md.staged"}
Listing  == [run : SUBSET Files, exports : SUBSET (Nat \X Endings)]
Hashes   == Nat \cup Listing \cup (Listing \X Nat \X Nat)

SourceNames == {"specification", "report", "manifest", "run-facts", "run-status", "artifact"}

Documents ==
  [process : Nat, builtAt : Nat, state : {"current", "degraded"},
   sources : UNION {[S -> Hashes \X Hashes] : S \in SUBSET SourceNames}]

Candidates == [document : Documents, ref : Refs]

ASSUME RunConsoleAssumption ==
  /\ MaxEdits \in Nat /\ MaxFaults \in Nat /\ MaxStops \in Nat
  /\ MaxTicks \in Nat /\ MaxReviews \in Nat
  /\ None \notin Documents

VARIABLES
  tree,      \* the content of each file of the run, 0 when it is missing
  exports,   \* the files below trial-export/: numbers of names, with a suffix
  names,     \* the candidates that file names were made of
  session,   \* number of the process, whether it is closed, what it serves
  call,      \* the request under way
  read,      \* what its build has read: both passes
  clock,
  reviewed,  \* the candidates participants were shown
  held,      \* history: the contents the run had while the build was under way
  torn,      \* history: names whose write was stopped, or could not be undone
  edits, faults, stops

bounds == <<edits, faults, stops>>
vars   == <<tree, exports, names, session, call, read, clock, reviewed, held, torn, bounds>>

Parts == <<"json", "md">>

Staged(part) == IF part = "json" THEN "json.staged" ELSE "md.staged"
Finals(n)    == {<<n, part>> : part \in ToSet(Parts)}
Temps(n)     == {<<n, Staged(part)>> : part \in ToSet(Parts)}

-----------------------------------------------------------------------------
(* The sources of a run and what a snapshot says of them.                  *)

\* What a build reads, in its order; the artifact is read while projecting.
Reads == <<"spec", "pointback", "baseline", "paths", "artifact">>

\* existing_paths lists whatever exists below the run root.
Run == [f \in Files \cup {"paths"} |->
  IF f = "paths" THEN [run |-> {g \in Files : tree[g] # 0}, exports |-> exports] ELSE tree[f]]

\* Criteria are evaluated when a specification and a report were read, and the
\* artifact the report names is bound then.
Evaluated(run) == run.spec # 0 /\ run.pointback # 0
Bound(run)     == Evaluated(run) /\ run.artifact # 0

Sources(run) ==
  {"specification", "report", "manifest", "run-facts", "run-status"}
    \cup (IF Bound(run) THEN {"artifact"} ELSE {})

\* What a source hashes, None when it has nothing to hash. An artifact that is
\* bound but missing degrades the manifest.
Observed(run, s) ==
  CASE s = "specification" -> run.spec
    [] s = "report"     -> run.pointback
    [] s = "artifact"   -> run.artifact
    [] s = "manifest"   -> IF Evaluated(run) /\ run.artifact = 0 THEN 0 ELSE 1
    [] s = "run-facts"  -> run.paths
    [] s = "run-status" -> <<run.paths, run.baseline, run.pointback>>

\* Only sources with a content of their own can have none.
Hashed(run, s) == s \in {"run-facts", "run-status"} \/ Observed(run, s) # 0

\* Faulty variant: what was read first is taken for verified.
VerifiedOnce(first, second, s) == Observed(first, s)

\* The second pass asks for the artifact the first one bound, and takes the
\* state of the manifest from the first.
Verified(first, second, s) == IF s = "manifest" THEN Observed(first, s) ELSE Observed(second, s)

Freshness(first, second, s) ==
  IF ~Hashed(first, s) \/ (s # "manifest" /\ ~Hashed(second, s)) THEN "unverified"
  ELSE IF Observed(first, s) = Verified(first, second, s) THEN "current" ELSE "changed"

\* The assertions of a snapshot, with the sources each one is bound to.
Bindings == [summary  |-> {"specification"}, progress |-> {"run-facts"},
             action   |-> {"run-status"},    verdict  |-> {"report"},
             coverage |-> {"report"},        criteria |-> {"report", "manifest"}]

Known(run, a) ==
  CASE a = "summary" -> run.spec # 0
    [] a \in {"verdict", "coverage"} -> Evaluated(run)
    [] OTHER -> TRUE

Availability(first, second, a) ==
  IF \E s \in Bindings[a] : Freshness(first, second, s) = "changed" THEN "stale"
  ELSE IF Known(first, a) THEN "known" ELSE "unknown"

BuildState(first, second) ==
  IF /\ \A s \in Sources(first) : Freshness(first, second, s) = "current"
     /\ \A a \in DOMAIN Bindings : Availability(first, second, a) = "known"
  THEN "current" ELSE "degraded"

\* The document keeps, of what was read, the records of the sources and the
\* time of the build; its run is named with the secret of the session.
Document(process, first, second, now) ==
  [process |-> process, builtAt |-> now, state |-> BuildState(first, second),
   sources |-> [s \in Sources(first) |-> <<Observed(first, s), Verified(first, second, s)>>]]

SourceSet(document) == document.sources
Baseline(document)  == document.sources["run-status"][1][2]

Candidate(document, ref) == [document |-> document, ref |-> ref]

-----------------------------------------------------------------------------
(* Calls. A call is a record of what it was asked and the step it is at.   *)

Idle == [op |-> "none", step |-> "none", ref |-> None, wanted |-> None,
         startedAt |-> 0, number |-> 0, todo |-> <<>>]

Building == call.step = "build"
Writing  == call.step \in {"stage", "place", "undo"}

Reading == Len(read) < 2 * Len(Reads)
Position(f) == CHOOSE i \in DOMAIN Reads : Reads[i] = f
Pass(k) == [f \in ToSet(Reads) |-> read[k * Len(Reads) + Position(f)]]

Init ==
  /\ tree = [f \in Files |-> 1]
  /\ exports = {} /\ names = <<>>
  /\ session = [process |-> 1, closed |-> FALSE, document |-> None]
  /\ call = Idle /\ read = <<>> /\ clock = 0
  /\ reviewed = {} /\ held = {} /\ torn = {}
  /\ edits = 0 /\ faults = 0 /\ stops = 0

\* Another tool writes or removes a file of the run.
Edit ==
  /\ edits < MaxEdits
  /\ edits' = edits + 1
  /\ \E f \in Files, c \in {0, edits + 2} : tree[f] # c /\ tree' = [tree EXCEPT ![f] = c]
  /\ UNCHANGED <<exports, names, session, call, read, clock, reviewed, torn, faults, stops>>
  /\ held' = IF Building THEN held \cup {Run'} ELSE held

\* A build has read the clock when it starts.
Tick ==
  /\ clock < MaxTicks /\ ~Building
  /\ clock' = clock + 1
  /\ UNCHANGED <<tree, exports, names, session, call, read, reviewed, held, torn, bounds>>

\* A request takes the lock. A refresh drops the document first; a document
\* that is there is used; the others build one, and so does the rebuild that
\* ends a write.
Enter(c, document) ==
  /\ session' = [session EXCEPT !.document = document]
  /\ call' = [c EXCEPT !.step = IF document = None THEN "build" ELSE "use", !.startedAt = clock]
  /\ read' = <<>>
  /\ held' = IF document = None THEN {Run} ELSE held

Request(op, ref, wanted) ==
  /\ call = Idle /\ ~session.closed
  /\ Enter([Idle EXCEPT !.op = op, !.ref = ref, !.wanted = wanted],
           IF op = "refresh" THEN None ELSE session.document)
  /\ UNCHANGED <<tree, exports, names, clock, reviewed, torn, bounds>>

Ask ==
  \/ Request("snapshot", None, None)
  \/ Request("refresh", None, None)
  \/ /\ Cardinality(reviewed) < MaxReviews
     /\ \E ref \in Refs : Request("preview", ref, None)
  \/ \E ref \in Refs, c \in reviewed : Request("write", ref, c)

\* Both passes go through the sources in the same order.
ReadNext ==
  /\ Building /\ Reading
  /\ read' = Append(read, Run[Reads[(Len(read) % Len(Reads)) + 1]])
  /\ UNCHANGED <<tree, exports, names, session, call, clock, reviewed, held, torn, bounds>>

\* The document is published together with the registry of its locators.
FinishBuild ==
  /\ Building /\ ~Reading
  /\ session' = [session EXCEPT !.document = Document(session.process, Pass(0), Pass(1), call.startedAt)]
  /\ call' = IF call.op \in {"preview", "write"} THEN [call EXCEPT !.step = "use"] ELSE Idle
  /\ read' = <<>>
  /\ UNCHANGED <<tree, exports, names, clock, reviewed, held, torn, bounds>>

\* A failed build installs nothing, and the request answers an error.
FailBuild ==
  /\ Building /\ faults < MaxFaults
  /\ faults' = faults + 1
  /\ call' = Idle /\ read' = <<>> /\ held' = {}
  /\ UNCHANGED <<tree, exports, names, session, clock, reviewed, torn, edits, stops>>

\* The participant is shown the pair the served document projects to.
Preview ==
  /\ call.op = "preview" /\ call.step = "use"
  /\ reviewed' = reviewed \cup {Candidate(session.document, call.ref)}
  /\ call' = Idle
  /\ UNCHANGED <<tree, exports, names, session, read, clock, held, torn, bounds>>

Answer ==
  /\ call.op = "snapshot" /\ call.step = "use"
  /\ call' = Idle
  /\ UNCHANGED <<tree, exports, names, session, read, clock, reviewed, held, torn, bounds>>

-----------------------------------------------------------------------------
(* The write of a reviewed pair.                                           *)

\* Faulty variant: the source set is compared, the digest of the pair is not.
SourcesHold == SourceSet(session.document) = SourceSet(call.wanted.document)

\* The bindings are derived again from the served document.
BindingHolds ==
  LET candidate == Candidate(session.document, call.ref) IN
  /\ SourceSet(session.document) = SourceSet(call.wanted.document)
  /\ candidate = call.wanted

\* File names are made of the digest of the candidate.
Number(candidate) ==
  IF Contains(names, candidate) THEN CHOOSE n \in DOMAIN names : names[n] = candidate
  ELSE Len(names) + 1

\* A pair, or a part of one, with that name is never overwritten.
Taken(n) == exports \cap (Finals(n) \cup Temps(n)) # {}

Bind ==
  LET candidate == Candidate(session.document, call.ref)
      n         == Number(candidate) IN
  /\ call.op = "write" /\ call.step = "use"
  /\ IF BindingHolds /\ ~Taken(n)
     THEN /\ names' = IF n > Len(names) THEN Append(names, candidate) ELSE names
          /\ call' = [call EXCEPT !.step = "stage", !.number = n, !.todo = Parts]
     ELSE call' = Idle /\ UNCHANGED names
  /\ UNCHANGED <<tree, exports, session, read, clock, reviewed, held, torn, bounds>>

Stage ==
  /\ call.step = "stage"
  /\ exports' = exports \cup {<<call.number, Staged(Head(call.todo))>>}
  /\ call' = IF Len(call.todo) > 1 THEN [call EXCEPT !.todo = Tail(@)]
             ELSE [call EXCEPT !.step = "place", !.todo = Parts]
  /\ UNCHANGED <<tree, names, session, read, clock, reviewed, held, torn, bounds>>

\* The second rename is followed by the rebuild of the served document.
Place ==
  LET part == Head(call.todo) IN
  /\ call.step = "place"
  /\ UNCHANGED <<tree, names, clock, reviewed, torn, bounds>>
  /\ exports' = (exports \ {<<call.number, Staged(part)>>}) \cup {<<call.number, part>>}
  /\ IF Len(call.todo) > 1
     THEN call' = [call EXCEPT !.todo = Tail(@)] /\ UNCHANGED <<session, read, held>>
     ELSE /\ session' = [session EXCEPT !.document = None]
          /\ call' = [Idle EXCEPT !.op = "commit", !.step = "build", !.startedAt = clock]
          /\ read' = <<>>
          /\ held' = {Run'}

\* Faulty variant: the rollback forgets the file that was already placed.
StagedLeftovers == <<"json.staged", "md.staged">>

\* The rollback removes what was placed, then what was staged.
Leftovers ==
  IF call.step = "place" /\ call.todo # Parts THEN <<"json", "json.staged", "md.staged">>
  ELSE <<"json.staged", "md.staged">>

\* The disk refuses a staged file, which may be there in part, or a rename.
Refuse ==
  /\ call.step \in {"stage", "place"} /\ faults < MaxFaults
  /\ faults' = faults + 1
  /\ \/ UNCHANGED exports
     \/ /\ call.step = "stage"
        /\ exports' = exports \cup {<<call.number, Staged(Head(call.todo))>>}
  /\ call' = [call EXCEPT !.step = "undo", !.todo = Leftovers]
  /\ UNCHANGED <<tree, names, session, read, clock, reviewed, held, torn, edits, stops>>

\* A file that is not there, and a refused unlink, are passed over.
Undo ==
  LET file == <<call.number, Head(call.todo)>> IN
  /\ call.step = "undo" /\ call.todo # <<>>
  /\ call' = [call EXCEPT !.todo = Tail(@)]
  /\ \/ exports' = exports \ {file} /\ UNCHANGED <<torn, faults>>
     \/ /\ file \in exports /\ faults < MaxFaults
        /\ faults' = faults + 1
        /\ torn' = torn \cup {call.number}
        /\ UNCHANGED exports
  /\ UNCHANGED <<tree, names, session, read, clock, reviewed, held, edits, stops>>

Undone ==
  /\ call.step = "undo" /\ call.todo = <<>>
  /\ call' = Idle
  /\ UNCHANGED <<tree, exports, names, session, read, clock, reviewed, held, torn, bounds>>

-----------------------------------------------------------------------------
(* The life of the process.                                                *)

Closed == [session EXCEPT !.closed = TRUE, !.document = None]

\* The session is closed between requests, or the process is killed in one.
Close ==
  /\ call = Idle /\ ~session.closed /\ stops < MaxStops
  /\ stops' = stops + 1
  /\ session' = Closed /\ held' = {}
  /\ UNCHANGED <<tree, exports, names, call, read, clock, reviewed, torn, edits, faults>>

Kill ==
  /\ call # Idle /\ stops < MaxStops
  /\ stops' = stops + 1
  /\ session' = Closed
  /\ torn' = IF Writing THEN torn \cup {call.number} ELSE torn
  /\ call' = Idle /\ read' = <<>> /\ held' = {}
  /\ UNCHANGED <<tree, exports, names, clock, reviewed, edits, faults>>

\* A process has a token and a secret of its own.
Launch ==
  /\ session.closed
  /\ session' = [process |-> session.process + 1, closed |-> FALSE, document |-> None]
  /\ UNCHANGED <<tree, exports, names, call, read, clock, reviewed, held, torn, bounds>>

Next ==
  \/ Edit \/ Tick
  \/ Ask \/ ReadNext \/ FinishBuild \/ FailBuild \/ Answer \/ Preview
  \/ Bind \/ Stage \/ Place \/ Refuse \/ Undo \/ Undone
  \/ Close \/ Kill \/ Launch

Spec == Init /\ [][Next]_vars

-----------------------------------------------------------------------------
(* Properties.                                                             *)

TypeOK ==
  /\ tree \in [Files -> 0 .. MaxEdits + 1]
  /\ exports \subseteq UNION {Finals(n) \cup Temps(n) : n \in DOMAIN names}
  /\ ToSet(names) \subseteq reviewed
  /\ IsFiniteSet(reviewed) /\ Cardinality(reviewed) <= MaxReviews
  /\ session.process \in 1 .. MaxStops + 1
  /\ session.closed => session.document = None /\ call = Idle
  /\ call.step \in {"none", "build", "use", "stage", "place", "undo"}
  /\ call.step = "use" => session.document # None
  /\ Building => session.document = None
  /\ call.number \in 0 .. Len(names) /\ torn \subseteq DOMAIN names
  /\ Len(read) <= 2 * Len(Reads)
  /\ clock \in 0 .. MaxTicks

\* Below trial-export/ there are both files of a name or none, and nothing
\* staged, but for the write under way and for names whose write was killed or
\* whose removal the disk refused: the commit and rollback of perform_write.
PairsAreWhole ==
  \A n \in DOMAIN names :
    \/ Writing /\ call.number = n
    \/ n \in torn
    \/ exports \cap (Finals(n) \cup Temps(n)) \in {{}, Finals(n)}

\* The state is well formed and every pair on disk is whole (perform_write).
Wellformed == TypeOK /\ PairsAreWhole

\* In a snapshot that says it is current, the specification, the report, the
\* artifact and the baseline are contents the run had at one and the same moment
\* of the build, though no source was locked: the two passes of _Builder.build.
\* (What is missing, and the list of what exists, may be of another moment: a
\* file that comes and goes between the passes is not noticed.)
CurrentIsOneState ==
  session.document # None /\ session.document.state = "current" =>
    \E run \in held :
      /\ \A s \in {"specification", "report", "artifact"} \cap DOMAIN session.document.sources :
           session.document.sources[s][1] = Observed(run, s)
      /\ Baseline(session.document) \in {0, run.baseline}

\* Between requests the served snapshot lists every pair this session has
\* exported: the rebuild that ends perform_write. A file a rollback could not
\* remove is the exception.
ServedKnowsItsExports ==
  session.document # None /\ call = Idle =>
    session.document.sources["run-facts"][1].exports \subseteq exports
    /\ \A file \in exports \ session.document.sources["run-facts"][1].exports : file[1] \in torn

\* What the session serves is true of the directory: a current snapshot shows
\* contents the run had together, no pair exported since is missing from it, and the pairs
\* on disk are whole.
ServedIsTrue == Wellformed /\ CurrentIsOneState /\ ServedKnowsItsExports

\* A file is put under its export name only if a participant was shown exactly
\* that candidate, by this process, and it still is what the served snapshot
\* projects to (the bindings of perform_write under transaction_lock).
OnlyReviewedIsWritten ==
  [][\A n \in DOMAIN names' : Finals(n) \cap (exports' \ exports) # {} =>
       /\ names'[n] \in reviewed
       /\ names'[n] = Candidate(session.document, names'[n].ref)
       /\ names'[n].document.process = session.process]_vars
=============================================================================
