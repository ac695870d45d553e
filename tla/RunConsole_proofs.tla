-------------------------- MODULE RunConsole_proofs --------------------------
(***************************************************************************)
(* What the Run Console promises for every number of edits, faults, stops, *)
(* reviews and participants: ServedIsTrue and OnlyReviewedIsWritten.       *)
(***************************************************************************)
EXTENDS RunConsole, FiniteSetTheorems, TLAPS

WriteLists == {<<"json", "md">>, <<"md">>}
UndoLists  == {<<"json", "json.staged", "md.staged">>, <<"json.staged", "md.staged">>,
               <<"md.staged">>, <<>>}

Calls ==
  [op : {"none", "snapshot", "refresh", "preview", "write", "commit"},
   step : {"none", "build", "use", "stage", "place", "undo"},
   ref : Refs \cup {None}, wanted : Candidates \cup {None},
   startedAt : Nat, number : Nat, todo : WriteLists \cup UndoLists]

Types ==
  /\ TypeOK
  /\ session \in [process : Nat, closed : BOOLEAN, document : Documents \cup {None}]
  /\ call \in Calls
  /\ read \in Seq(Nat \cup Listing)
  /\ names \in Seq(Candidates) /\ reviewed \subseteq Candidates
  /\ exports \subseteq Nat \X Endings
  /\ edits \in 0 .. MaxEdits /\ faults \in Nat /\ stops \in 0 .. MaxStops

\* A process is begun after a stop.
StopsInv ==
  /\ session.process <= stops + 1
  /\ session.closed => session.process <= stops

\* What a request carries from one step to the next. A write was bound to the
\* document that is served until it is over.
CallInv ==
  /\ call.op = "preview" /\ call.step \in {"build", "use"} => Cardinality(reviewed) < MaxReviews
  /\ call.op \in {"preview", "write"} => call.ref \in Refs
  /\ call.op = "write" => call.wanted \in reviewed
  /\ Writing => call.op = "write" /\ session.document # None /\ call.number \in DOMAIN names
  /\ call.step \in {"stage", "place"} =>
       /\ call.todo \in WriteLists
       /\ names[call.number] = Candidate(session.document, call.ref)
  /\ call.step = "undo" => call.todo \in UndoLists

\* A build has the run of this moment among those it saw, and what it read is a
\* content that was written or the list of the files there are.
ReadInv ==
  Building =>
    /\ Run \in held
    /\ \A p \in {1, 2, 3, 5, 6, 7, 8, 10} : p <= Len(read) => read[p] \in 0 .. edits + 1
    /\ \A p \in {4, 9} : p <= Len(read) => read[p] \in Listing /\ read[p].exports = exports

\* Contents are numbers of edits, and the first.
Bounded == \A f \in Files : tree[f] \in 0 .. edits + 1

\* A content that a run seen between the passes did not have is not read again:
\* it is overwritten, and no content comes back.
Kept(run, p) ==
  read[p] # 0 /\ run[Reads[p]] # read[p] =>
    /\ tree[Reads[p]] # read[p]
    /\ p + 5 <= Len(read) => read[p + 5] # read[p]

MidInv ==
  Building /\ 5 <= Len(read) =>
    \E run \in held : \A p \in {1, 2, 3, 5} : Kept(run, p)

\* The files of the write under way, by the step it is at. A name whose rollback
\* the disk refused is torn.
Has(s) == <<call.number, s>> \in exports

WriteInv ==
  /\ call.step = "stage" =>
       \A s \in Endings : Has(s) <=> call.todo = <<"md">> /\ s = "json.staged"
  /\ call.step = "place" =>
       \A s \in Endings :
         Has(s) <=> s = "md.staged" \/ s = IF call.todo = <<"md">> THEN "json" ELSE "json.staged"
  /\ call.step = "undo" =>
       \/ call.number \in torn
       \/ \A s \in Endings : Has(s) => \E i \in 1 .. Len(call.todo) : call.todo[i] = s

\* The served document is of this process and lists the files there are, but for
\* those of the write under way and of names that are torn.
Seen(document) == document.sources["run-facts"][1].exports

ExportsInv ==
  session.document # None =>
    /\ session.document.process = session.process
    /\ Seen(session.document) \subseteq exports
    /\ \A file \in exports \ Seen(session.document) :
         file[1] \in torn \/ (Writing /\ file[1] = call.number)
    /\ Writing => \A s \in Endings : <<call.number, s>> \notin Seen(session.document)

IInv ==
  /\ Types /\ Bounded /\ StopsInv /\ CallInv /\ ReadInv /\ MidInv /\ WriteInv /\ ExportsInv
  /\ PairsAreWhole /\ CurrentIsOneState

-----------------------------------------------------------------------------
(* Names, parts and sources.                                               *)

LEMMA PartsSet == ToSet(Parts) = {"json", "md"}
BY DEF Parts, ToSet

LEMMA FilesOfName ==
  ASSUME NEW n
  PROVE  /\ Finals(n) = {<<n, "json">>, <<n, "md">>}
         /\ Temps(n) = {<<n, "json.staged">>, <<n, "md.staged">>}
BY PartsSet DEF Finals, Temps, Staged

\* No file of the name, or exactly the pair.
Whole(n, files) ==
  \/ \A s \in Endings : <<n, s>> \notin files
  \/ \A s \in Endings : <<n, s>> \in files <=> s \in {"json", "md"}

LEMMA WholeMeans ==
  ASSUME NEW n, NEW files
  PROVE  files \cap (Finals(n) \cup Temps(n)) \in {{}, Finals(n)} <=> Whole(n, files)
<1>1. ASSUME files \cap (Finals(n) \cup Temps(n)) = {} PROVE Whole(n, files)
  BY <1>1, FilesOfName DEF Whole, Endings
<1>2. ASSUME files \cap (Finals(n) \cup Temps(n)) = Finals(n) PROVE Whole(n, files)
  <2>1. \A s \in {"json", "md"} : <<n, s>> \in files
    BY <1>2, FilesOfName
  <2>2. \A s \in {"json.staged", "md.staged"} : <<n, s>> \notin files
    BY <1>2, FilesOfName
  <2> QED
    BY <2>1, <2>2 DEF Whole, Endings
<1>3. ASSUME \A s \in Endings : <<n, s>> \notin files
      PROVE  files \cap (Finals(n) \cup Temps(n)) = {}
  BY <1>3, FilesOfName DEF Endings
<1>4. ASSUME \A s \in Endings : <<n, s>> \in files <=> s \in {"json", "md"}
      PROVE  files \cap (Finals(n) \cup Temps(n)) = Finals(n)
  BY <1>4, FilesOfName DEF Endings
<1> QED
  BY <1>1, <1>2, <1>3, <1>4 DEF Whole

LEMMA ReadsAre ==
  /\ Len(Reads) = 5 /\ DOMAIN Reads = 1 .. 5
  /\ Reads[1] = "spec" /\ Reads[2] = "pointback" /\ Reads[3] = "baseline"
  /\ Reads[4] = "paths" /\ Reads[5] = "artifact"
  /\ ToSet(Reads) = {"spec", "pointback", "baseline", "paths", "artifact"}
BY DEF Reads, ToSet

LEMMA Positions ==
  /\ Position("spec") = 1 /\ Position("pointback") = 2 /\ Position("baseline") = 3
  /\ Position("paths") = 4 /\ Position("artifact") = 5
<1>1. \A i \in DOMAIN Reads : /\ Reads[i] = "spec" <=> i = 1
                              /\ Reads[i] = "pointback" <=> i = 2
                              /\ Reads[i] = "baseline" <=> i = 3
                              /\ Reads[i] = "paths" <=> i = 4
                              /\ Reads[i] = "artifact" <=> i = 5
  <2> SUFFICES ASSUME NEW i \in 1 .. 5
      PROVE /\ Reads[i] = "spec" <=> i = 1
            /\ Reads[i] = "pointback" <=> i = 2
            /\ Reads[i] = "baseline" <=> i = 3
            /\ Reads[i] = "paths" <=> i = 4
            /\ Reads[i] = "artifact" <=> i = 5
    BY ReadsAre
  <2>1. i = 1 \/ i = 2 \/ i = 3 \/ i = 4 \/ i = 5
    OBVIOUS
  <2> QED
    BY <2>1, ReadsAre
<1> QED
  BY <1>1, ReadsAre DEF Position

Passes == [spec : Nat, pointback : Nat, baseline : Nat, paths : Listing, artifact : Nat]

\* What a pass has read.
LEMMA PassIs ==
  ASSUME NEW k \in {0, 1}
  PROVE  /\ Pass(k).spec = read[k * 5 + 1] /\ Pass(k).pointback = read[k * 5 + 2]
         /\ Pass(k).baseline = read[k * 5 + 3] /\ Pass(k).paths = read[k * 5 + 4]
         /\ Pass(k).artifact = read[k * 5 + 5]
         /\ Pass(k) = [f \in {"spec", "pointback", "baseline", "paths", "artifact"} |-> Pass(k)[f]]
<1> DEFINE At(f) == read[k * Len(Reads) + Position(f)]
<1>1. Pass(k) = [f \in ToSet(Reads) |-> At(f)]
  BY DEF Pass
<1>2. At("spec") = read[k * 5 + 1] /\ At("pointback") = read[k * 5 + 2]
      /\ At("baseline") = read[k * 5 + 3] /\ At("paths") = read[k * 5 + 4]
      /\ At("artifact") = read[k * 5 + 5]
  BY Positions, ReadsAre
<1> HIDE DEF At
<1>3. Pass(k) = [f \in {"spec", "pointback", "baseline", "paths", "artifact"} |-> At(f)]
  BY <1>1, ReadsAre
<1>4. \A f \in {"spec", "pointback", "baseline", "paths", "artifact"} : Pass(k)[f] = At(f)
  BY <1>3
<1>5. Pass(k).spec = At("spec") /\ Pass(k).pointback = At("pointback")
      /\ Pass(k).baseline = At("baseline") /\ Pass(k).paths = At("paths")
      /\ Pass(k).artifact = At("artifact")
  BY <1>4
<1>6. Pass(k) = [f \in {"spec", "pointback", "baseline", "paths", "artifact"} |-> Pass(k)[f]]
  BY <1>3, <1>4, Zenon
<1> QED
  BY <1>2, <1>5, <1>6

LEMMA PassType ==
  ASSUME Types, ReadInv, Building, Len(read) = 10
  PROVE  Pass(0) \in Passes /\ Pass(1) \in Passes
<1>0. edits + 1 \in Nat
  BY RunConsoleAssumption DEF Types
<1>1. \A p \in {1, 2, 3, 5, 6, 7, 8, 10} : read[p] \in Nat
  BY <1>0 DEF ReadInv
<1>2. read[4] \in Listing /\ read[9] \in Listing
  BY DEF ReadInv
<1>3. Pass(0) \in Passes
  BY <1>1, <1>2, PassIs DEF Passes
<1>4. Pass(1) \in Passes
  BY <1>1, <1>2, PassIs DEF Passes
<1> QED
  BY <1>3, <1>4

LEMMA RunIs ==
  /\ \A f \in Files : Run[f] = tree[f]
  /\ Run.paths = [run |-> {g \in Files : tree[g] # 0}, exports |-> exports]
BY DEF Run, Files

-----------------------------------------------------------------------------
(* The document of a build.                                                *)

LEMMA ObservedType ==
  ASSUME NEW run \in Passes, NEW s \in SourceNames
  PROVE  Observed(run, s) \in Hashes
<1>1. CASE s \in {"specification", "report", "artifact", "manifest"}
  BY <1>1 DEF Observed, Hashes, Passes
<1>2. CASE s = "run-facts"
  BY <1>2 DEF Observed, Hashes, Passes
<1>3. CASE s = "run-status"
  <2>1. <<run.paths, run.baseline, run.pointback>> \in Listing \X Nat \X Nat
    BY DEF Passes
  <2> QED
    BY <1>3, <2>1 DEF Observed, Hashes
<1> QED
  BY <1>1, <1>2, <1>3 DEF SourceNames

LEMMA SourcesType == \A run : Sources(run) \subseteq SourceNames
BY DEF Sources, SourceNames

LEMMA DocumentType ==
  ASSUME NEW first \in Passes, NEW second \in Passes, NEW process \in Nat, NEW now \in Nat
  PROVE  Document(process, first, second, now) \in Documents
<1> DEFINE sources == [s \in Sources(first) |-> <<Observed(first, s), Verified(first, second, s)>>]
<1>1. \A s \in Sources(first) : <<Observed(first, s), Verified(first, second, s)>> \in Hashes \X Hashes
  BY ObservedType, SourcesType DEF Verified
<1>2. sources \in [Sources(first) -> Hashes \X Hashes]
  BY <1>1
<1>3. sources \in UNION {[S -> Hashes \X Hashes] : S \in SUBSET SourceNames}
  BY <1>2, SourcesType
<1>4. BuildState(first, second) \in {"current", "degraded"}
  BY DEF BuildState
<1> HIDE DEF sources
<1> QED
  BY <1>3, <1>4 DEF Document, Documents, sources

\* What a document says of what was read.
LEMMA DocumentIs ==
  ASSUME NEW first, NEW second, NEW process, NEW now
  PROVE  LET document == Document(process, first, second, now) IN
         /\ document.process = process
         /\ document.state = BuildState(first, second)
         /\ DOMAIN document.sources = Sources(first)
         /\ \A s \in Sources(first) : document.sources[s][1] = Observed(first, s)
         /\ Seen(document) = first.paths.exports
         /\ Baseline(document) = first.baseline
BY DEF Document, Seen, Baseline, Sources, Observed

\* In a current build both passes read the same contents.
LEMMA CurrentMeans ==
  ASSUME NEW first, NEW second, BuildState(first, second) = "current"
  PROVE  /\ first.spec # 0 /\ second.spec = first.spec
         /\ first.pointback # 0 /\ second.pointback = first.pointback
         /\ "artifact" \in Sources(first) => first.artifact # 0 /\ second.artifact = first.artifact
         /\ second.baseline = first.baseline
<1>1. \A s \in Sources(first) : Freshness(first, second, s) = "current"
  BY DEF BuildState
<1>2. \A s \in Sources(first) : Hashed(first, s) /\ Observed(first, s) = Verified(first, second, s)
  BY <1>1 DEF Freshness
<1>3. {"specification", "report", "run-status"} \subseteq Sources(first)
  BY DEF Sources
<1>4. first.spec # 0 /\ second.spec = first.spec
  BY <1>2, <1>3 DEF Hashed, Observed, Verified
<1>5. first.pointback # 0 /\ second.pointback = first.pointback
  BY <1>2, <1>3 DEF Hashed, Observed, Verified
<1>6. "artifact" \in Sources(first) => first.artifact # 0 /\ second.artifact = first.artifact
  BY <1>2 DEF Hashed, Observed, Verified
<1>7. <<second.paths, second.baseline, second.pointback>> = <<first.paths, first.baseline, first.pointback>>
  BY <1>2, <1>3 DEF Observed, Verified
<1>8. second.baseline = first.baseline
  BY <1>7
<1> QED
  BY <1>4, <1>5, <1>6, <1>8

-----------------------------------------------------------------------------
(* Steps that leave the files below trial-export/ alone.                   *)

LEMMA InitInv == Init => IInv
<1> SUFFICES ASSUME Init PROVE IInv
  OBVIOUS
<1>1. names = <<>> /\ DOMAIN names = {} /\ ToSet(names) = {}
  BY DEF Init, ToSet
<1>2. Types
  <2>1. IsFiniteSet(reviewed) /\ Cardinality(reviewed) = 0
    BY FS_EmptySet DEF Init
  <2>2. session \in [process : Nat, closed : BOOLEAN, document : Documents \cup {None}] /\ call \in Calls
    BY DEF Init, Idle, Calls, UndoLists
  <2>3. TypeOK
    BY <1>1, <2>1, RunConsoleAssumption DEF Init, TypeOK, Idle, Building, Files, Reads
  <2> QED
    BY <1>1, <2>2, <2>3, RunConsoleAssumption DEF Init, Types, Endings
<1>3. StopsInv /\ CallInv /\ ReadInv /\ MidInv /\ WriteInv /\ ExportsInv
  BY DEF Init, StopsInv, CallInv, ReadInv, MidInv, WriteInv, ExportsInv, Idle, Building, Writing
<1>4. PairsAreWhole /\ CurrentIsOneState /\ Bounded
  BY <1>1 DEF Init, PairsAreWhole, CurrentIsOneState, Bounded
<1> QED
  BY <1>2, <1>3, <1>4 DEF IInv

LEMMA EditStep ==
  ASSUME IInv, Edit
  PROVE  IInv'
<1>1. PICK f \in Files, c \in {0, edits + 2} : tree[f] # c /\ tree' = [tree EXCEPT ![f] = c]
  BY DEF Edit
<1>2. edits \in Nat /\ edits' = edits + 1 /\ edits' \in 0 .. MaxEdits
  BY RunConsoleAssumption DEF Edit, IInv, Types
<1>3. UNCHANGED <<exports, names, session, call, read, clock, reviewed, torn, faults, stops>>
  BY DEF Edit
<1>4. tree' \in [Files -> 0 .. MaxEdits + 1]
  BY <1>1, <1>2, RunConsoleAssumption DEF IInv, Types, TypeOK
<1>5. Types'
  BY <1>2, <1>3, <1>4 DEF IInv, Types, TypeOK, Building
<1>6. held \subseteq held' /\ (Building => Run' \in held') /\ (~Building => held' = held)
  BY DEF Edit
<1>7. ReadInv'
  <2> SUFFICES ASSUME Building PROVE ReadInv'
    BY <1>3 DEF ReadInv, Building
  <2>1. \A p \in {1, 2, 3, 5, 6, 7, 8, 10} : p <= Len(read) => read[p] \in 0 .. edits' + 1
    BY <1>2 DEF IInv, ReadInv
  <2> QED
    BY <1>3, <1>6, <2>1 DEF IInv, ReadInv
<1>8. MidInv'
  <2> SUFFICES ASSUME Building, 5 <= Len(read) PROVE MidInv'
    BY <1>3 DEF MidInv, Building
  <2>1. PICK run \in held : \A p \in {1, 2, 3, 5} : Kept(run, p)
    BY DEF IInv, MidInv
  <2>2. ASSUME NEW p \in {1, 2, 3, 5} PROVE Kept(run, p)'
    <3>1. read[p] \in 0 .. edits + 1
      BY DEF IInv, ReadInv
    <3>2. tree[Reads[p]] # read[p] /\ read[p] # 0 => tree'[Reads[p]] # read[p]
      <4>1. Reads[p] \in Files
        BY ReadsAre DEF Files
      <4>2. tree'[Reads[p]] \in {tree[Reads[p]], 0, edits + 2}
        BY <1>1, <4>1 DEF IInv, Types, TypeOK
      <4> QED
        BY <1>2, <3>1, <4>2
    <3> QED
      BY <1>3, <2>1, <3>2 DEF Kept
  <2> QED
    BY <1>6, <2>1, <2>2 DEF MidInv
<1>9. StopsInv' /\ CallInv' /\ WriteInv' /\ ExportsInv' /\ PairsAreWhole'
  BY <1>3 DEF IInv, StopsInv, CallInv, WriteInv, ExportsInv, PairsAreWhole, Writing, Has
<1>10. CurrentIsOneState'
  BY <1>3, <1>6 DEF IInv, CurrentIsOneState, Types, TypeOK
<1>11. Bounded'
  BY <1>1, <1>2 DEF IInv, Types, TypeOK, Bounded
<1> QED
  BY <1>5, <1>7, <1>8, <1>9, <1>10, <1>11 DEF IInv

\* What the files, and the parts that speak of them, do not notice.
LEMMA Elsewhere ==
  ASSUME IInv, UNCHANGED <<tree, exports, names, torn, edits, faults, stops>>, ~Writing, ~Writing'
  PROVE  WriteInv' /\ PairsAreWhole' /\ Bounded'
BY DEF IInv, WriteInv, PairsAreWhole, Writing, Bounded

LEMMA TickStep ==
  ASSUME IInv, Tick
  PROVE  IInv'
<1>1. UNCHANGED <<tree, exports, names, session, call, read, reviewed, held, torn, bounds>> /\ ~Building
  BY DEF Tick
<1>2. clock' \in 0 .. MaxTicks
  BY RunConsoleAssumption DEF Tick, IInv, Types, TypeOK
<1>3. Types'
  BY <1>1, <1>2 DEF IInv, Types, TypeOK, Building, bounds
<1> QED
  BY <1>1, <1>3 DEF IInv, StopsInv, CallInv, ReadInv, MidInv, WriteInv, ExportsInv, PairsAreWhole,
     CurrentIsOneState, Building, Writing, Has, bounds, Bounded

LEMMA RequestStep ==
  ASSUME IInv, NEW op \in {"snapshot", "refresh", "preview", "write"},
         NEW ref \in Refs \cup {None}, NEW wanted \in Candidates \cup {None},
         Request(op, ref, wanted),
         op = "preview" => Cardinality(reviewed) < MaxReviews,
         op \in {"preview", "write"} => ref \in Refs,
         op = "write" => wanted \in reviewed
  PROVE  IInv'
<1> DEFINE document == IF op = "refresh" THEN None ELSE session.document
           next == IF document = None THEN "build" ELSE "use"
<1>1. /\ call = Idle /\ ~session.closed
      /\ session' = [session EXCEPT !.document = document]
      /\ call' = [[Idle EXCEPT !.op = op, !.ref = ref, !.wanted = wanted]
                    EXCEPT !.step = next, !.startedAt = clock]
      /\ read' = <<>> /\ held' = IF document = None THEN {Run} ELSE held
      /\ UNCHANGED <<tree, exports, names, clock, reviewed, torn, edits, faults, stops>>
  BY DEF Request, Enter, bounds
<1>2. document \in Documents \cup {None}
  BY DEF IInv, Types
<1> HIDE DEF document
<1>3. /\ call'.op = op /\ call'.ref = ref /\ call'.wanted = wanted /\ call'.step = next
      /\ call'.number = 0 /\ call' \in Calls
  <2>1. clock \in Nat /\ next \in {"build", "use"}
    BY RunConsoleAssumption DEF IInv, Types, TypeOK
  <2> QED
    BY <1>1, <2>1 DEF Idle, Calls, UndoLists
<1>4. session'.process = session.process /\ ~session'.closed /\ session'.document = document
      /\ session' \in [process : Nat, closed : BOOLEAN, document : Documents \cup {None}]
  BY <1>1, <1>2 DEF IInv, Types
<1>5. ~Writing /\ ~Writing' /\ (Building' <=> document = None)
  BY <1>1, <1>3 DEF Writing, Building, Idle
<1>6. Types'
  <2>1. read' \in Seq(Nat \cup Listing) /\ Len(read') = 0
    BY <1>1
  <2>2. TypeOK'
    BY <1>1, <1>3, <1>4, <1>5, <2>1, ReadsAre DEF IInv, Types, TypeOK, Building
  <2> QED
    BY <1>1, <1>3, <1>4, <2>1, <2>2 DEF IInv, Types
<1>7. StopsInv' /\ CallInv'
  BY <1>1, <1>3, <1>4, <1>5 DEF IInv, StopsInv, CallInv, Writing
<1>8. ReadInv' /\ MidInv'
  <2>1. Run' = Run
    BY <1>1 DEF Run
  <2> QED
    BY <1>1, <1>5, <2>1 DEF ReadInv, MidInv
<1>9. ExportsInv'
  <2>1. CASE document = None
    BY <1>4, <2>1 DEF ExportsInv
  <2>2. CASE document # None
    <3>1. document = session.document
      BY <2>2 DEF document
    <3> QED
      BY <1>1, <1>4, <1>5, <3>1 DEF IInv, ExportsInv
  <2> QED
    BY <2>1, <2>2
<1>10. CurrentIsOneState'
  <2>1. CASE document = None
    BY <1>4, <2>1 DEF CurrentIsOneState
  <2>2. CASE document # None
    <3>1. document = session.document
      BY <2>2 DEF document
    <3> QED
      BY <1>1, <1>4, <2>2, <3>1 DEF IInv, CurrentIsOneState
  <2> QED
    BY <2>1, <2>2
<1> QED
  BY <1>1, <1>5, <1>6, <1>7, <1>8, <1>9, <1>10, Elsewhere DEF IInv

LEMMA AskStep ==
  ASSUME IInv, Ask
  PROVE  IInv'
<1>1. reviewed \subseteq Candidates
  BY DEF IInv, Types
<1>2. CASE Request("snapshot", None, None)
  BY <1>2, RequestStep
<1>3. CASE Request("refresh", None, None)
  BY <1>3, RequestStep
<1>4. ASSUME NEW ref \in Refs, Request("preview", ref, None), Cardinality(reviewed) < MaxReviews
      PROVE  IInv'
  BY <1>4, RequestStep
<1>5. ASSUME NEW ref \in Refs, NEW c \in reviewed, Request("write", ref, c) PROVE IInv'
  BY <1>1, <1>5, RequestStep
<1> QED
  BY <1>2, <1>3, <1>4, <1>5 DEF Ask

LEMMA LenIsNat == ASSUME NEW S, NEW s \in Seq(S) PROVE Len(s) \in Nat
OBVIOUS

\* What a build reads next, and where.
LEMMA NextRead ==
  ASSUME IInv, Building, Reading
  PROVE  /\ Len(read) \in 0 .. 9
         /\ Len(read) < 5 => Len(read) % Len(Reads) = Len(read)
         /\ Len(read) >= 5 => Len(read) % Len(Reads) = Len(read) - 5
<1>0. \A n \in Nat : n < 10 => n \in 0 .. 9
  OBVIOUS
<1>1. Len(read) < 10
  BY ReadsAre DEF Reading
<1>2. Len(read) \in Nat
  BY LenIsNat DEF IInv, Types
<1>3. PICK n \in 0 .. 9 : n = Len(read)
  BY <1>0, <1>1, <1>2, Zenon
<1>4. n < 5 => n % 5 = n
  OBVIOUS
<1>5. n >= 5 => n % 5 = n - 5
  OBVIOUS
<1> QED
  BY <1>3, <1>4, <1>5, ReadsAre

LEMMA ReadNextStep ==
  ASSUME IInv, ReadNext
  PROVE  IInv'
<1> DEFINE n == Len(read)
           source == Reads[(n % Len(Reads)) + 1]
<1>1. /\ Building /\ Reading /\ read' = Append(read, Run[source])
      /\ UNCHANGED <<tree, exports, names, session, call, clock, reviewed, held, torn, edits, faults, stops>>
  BY DEF ReadNext, bounds
<1>2. /\ n \in 0 .. 9 /\ (n < 5 => source = Reads[n + 1]) /\ (n >= 5 => source = Reads[n - 4])
      /\ read \in Seq(Nat \cup Listing) /\ DOMAIN read = 1 .. n
  BY <1>1, NextRead DEF IInv, Types
<1> HIDE DEF n, source
<1>3. n \in {3, 8} => source = "paths"
  BY <1>2, ReadsAre
<1>4. n \notin {3, 8} => source \in Files
  <2>1. n = 0 \/ n = 1 \/ n = 2 \/ n = 3 \/ n = 4 \/ n = 5 \/ n = 6 \/ n = 7 \/ n = 8 \/ n = 9
    BY <1>2
  <2> QED
    BY <1>2, <2>1, ReadsAre DEF Files
<1>5. Run.paths \in Listing /\ Run.paths.exports = exports
  <2>1. exports \subseteq Nat \X Endings
    BY DEF IInv, Types
  <2>2. {g \in Files : tree[g] # 0} \in SUBSET Files
    OBVIOUS
  <2>3. [run |-> {g \in Files : tree[g] # 0}, exports |-> exports] \in Listing
    BY <2>1, <2>2 DEF Listing
  <2> QED
    BY <2>3, RunIs
<1>6. source \in Files => Run[source] = tree[source] /\ tree[source] \in Nat
  BY RunIs, RunConsoleAssumption DEF IInv, Types, TypeOK
<1>7. Run[source] \in Nat \cup Listing
  BY <1>3, <1>4, <1>5, <1>6
<1>8. /\ read' \in Seq(Nat \cup Listing) /\ Len(read') = n + 1
      /\ read'[n + 1] = Run[source] /\ \A i \in 1 .. n : read'[i] = read[i]
  BY <1>1, <1>2, <1>7 DEF n
<1>9. Types'
  BY <1>1, <1>2, <1>8, ReadsAre DEF IInv, Types, TypeOK, Building
<1>10. Building' /\ Run' = Run
  BY <1>1 DEF Building, Run
<1>11. ReadInv'
  <2>1. ASSUME NEW p \in {1, 2, 3, 5, 6, 7, 8, 10}, p <= n + 1 PROVE read'[p] \in 0 .. edits + 1
    <3>1. CASE p <= n
      <4>1. read'[p] = read[p]
        BY <1>2, <1>8, <3>1
      <4>2. read[p] \in 0 .. edits + 1
        BY <1>1, <3>1 DEF IInv, ReadInv, n
      <4> QED
        BY <1>1, <4>1, <4>2
    <3>2. CASE p = n + 1
      <4>1. source \in Files
        BY <1>4, <3>2
      <4>2. tree[source] \in 0 .. edits + 1
        BY <1>1, <4>1 DEF IInv, Bounded
      <4> QED
        BY <1>6, <1>8, <3>2, <4>1, <4>2
    <3> QED
      BY <1>2, <2>1, <3>1, <3>2
  <2>2. ASSUME NEW p \in {4, 9}, p <= n + 1 PROVE read'[p] \in Listing /\ read'[p].exports = exports
    <3>1. CASE p <= n
      <4>1. read'[p] = read[p]
        BY <1>2, <1>8, <3>1
      <4>2. read[p] \in Listing /\ read[p].exports = exports
        BY <1>1, <3>1 DEF IInv, ReadInv, n
      <4> QED
        BY <1>1, <4>1, <4>2
    <3>2. CASE p = n + 1
      <4>1. source = "paths"
        BY <1>2, <1>3, <3>2
      <4> QED
        BY <1>5, <1>8, <3>2, <4>1
    <3> QED
      BY <1>2, <2>2, <3>1, <3>2
  <2> QED
    BY <1>1, <1>8, <1>10, <2>1, <2>2 DEF IInv, ReadInv
<1>12. MidInv'
  <2>1. CASE n < 4
    BY <1>2, <1>8, <2>1 DEF MidInv
  <2>2. CASE n = 4
    <3>1. ASSUME NEW p \in {1, 2, 3, 5} PROVE Kept(Run, p)'
      <4>1. Run[Reads[p]] = tree[Reads[p]]
        BY RunIs, ReadsAre DEF Files
      <4>2. ~(p + 5 <= Len(read'))
        BY <1>8, <2>2
      <4> QED
        BY <1>1, <1>10, <4>1, <4>2 DEF Kept
    <3>2. Run' \in held'
      BY <1>1, <1>10 DEF IInv, ReadInv
    <3>3. \A p \in {1, 2, 3, 5} : Kept(Run, p)'
      BY <3>1
    <3> QED
      BY <1>10, <3>2, <3>3 DEF MidInv
  <2>3. CASE n >= 5
    <3>1. PICK run \in held : \A p \in {1, 2, 3, 5} : Kept(run, p)
      BY <1>1, <2>3 DEF IInv, MidInv, n
    <3>2. ASSUME NEW p \in {1, 2, 3, 5} PROVE Kept(run, p)'
      <4>1. p \in 1 .. n /\ read'[p] = read[p]
        BY <1>2, <1>8, <2>3
      <4>2. CASE p + 5 <= n
        <5>1. read'[p + 5] = read[p + 5]
          BY <1>2, <1>8, <4>2
        <5> QED
          BY <1>1, <3>1, <4>1, <4>2, <5>1 DEF Kept, n
      <4>3. CASE p + 5 = n + 1
        <5>1. source = Reads[p]
          BY <1>2, <4>3
        <5>2. read'[p + 5] = tree[Reads[p]]
          BY <1>6, <1>8, <4>3, <5>1, ReadsAre DEF Files
        <5> QED
          BY <1>1, <3>1, <4>1, <5>2 DEF Kept
      <4>4. CASE p + 5 > n + 1
        BY <1>1, <1>2, <1>8, <3>1, <4>1, <4>4 DEF Kept
      <4> QED
        BY <1>2, <4>2, <4>3, <4>4
    <3> QED
      BY <1>1, <3>1, <3>2 DEF MidInv
  <2> QED
    BY <1>2, <2>1, <2>2, <2>3
<1>13. ~Writing /\ ~Writing'
  BY <1>1 DEF Writing, Building
<1>14. StopsInv' /\ CallInv' /\ ExportsInv' /\ CurrentIsOneState'
  BY <1>1, <1>13 DEF IInv, StopsInv, CallInv, ExportsInv, CurrentIsOneState, Writing
<1> QED
  BY <1>1, <1>9, <1>11, <1>12, <1>13, <1>14, Elsewhere DEF IInv

\* The contents a finished build found the same in both passes were those of one
\* run it saw between them.
LEMMA OneRun ==
  ASSUME IInv, Building, ~Reading, BuildState(Pass(0), Pass(1)) = "current"
  PROVE  \E run \in held :
           /\ \A s \in {"specification", "report", "artifact"} \cap Sources(Pass(0)) :
                Observed(Pass(0), s) = Observed(run, s)
           /\ Pass(0).baseline \in {0, run.baseline}
<1>1. Len(read) = 10
  <2>1. \A n \in Nat : n <= 10 /\ ~(n < 10) => n = 10
    OBVIOUS
  <2>2. Len(read) \in Nat
    BY LenIsNat DEF IInv, Types
  <2>3. Len(read) <= 10 /\ ~(Len(read) < 10)
    BY ReadsAre DEF IInv, Types, TypeOK, Reading
  <2> QED
    BY <2>1, <2>2, <2>3, Zenon
<1>2. PICK run \in held : \A p \in {1, 2, 3, 5} : Kept(run, p)
  BY <1>1 DEF IInv, MidInv
<1>3. \A p \in {1, 2, 3, 5} : read[p] # 0 /\ read[p + 5] = read[p] => run[Reads[p]] = read[p]
  BY <1>1, <1>2 DEF Kept
<1>4. /\ read[1] # 0 /\ read[6] = read[1] => run.spec = read[1]
      /\ read[2] # 0 /\ read[7] = read[2] => run.pointback = read[2]
      /\ read[3] # 0 /\ read[8] = read[3] => run.baseline = read[3]
      /\ read[5] # 0 /\ read[10] = read[5] => run.artifact = read[5]
  BY <1>3, ReadsAre
<1>5. /\ Pass(0).spec = read[1] /\ Pass(0).pointback = read[2] /\ Pass(0).baseline = read[3]
      /\ Pass(0).artifact = read[5]
      /\ Pass(1).spec = read[6] /\ Pass(1).pointback = read[7] /\ Pass(1).baseline = read[8]
      /\ Pass(1).artifact = read[10]
  BY PassIs
<1>6. /\ run.spec = Pass(0).spec /\ run.pointback = Pass(0).pointback
      /\ "artifact" \in Sources(Pass(0)) => run.artifact = Pass(0).artifact
      /\ Pass(0).baseline \in {0, run.baseline}
  BY <1>4, <1>5, CurrentMeans
<1> QED
  BY <1>6 DEF Observed

LEMMA FinishBuildStep ==
  ASSUME IInv, FinishBuild
  PROVE  IInv'
<1> DEFINE document == Document(session.process, Pass(0), Pass(1), call.startedAt)
<1>1. /\ Building /\ ~Reading /\ read' = <<>>
      /\ session' = [session EXCEPT !.document = document]
      /\ call' = IF call.op \in {"preview", "write"} THEN [call EXCEPT !.step = "use"] ELSE Idle
      /\ UNCHANGED <<tree, exports, names, clock, reviewed, held, torn, edits, faults, stops>>
  BY DEF FinishBuild, bounds
<1>2. Len(read) = 10
  <2>1. \A n \in Nat : n <= 10 /\ ~(n < 10) => n = 10
    OBVIOUS
  <2>2. Len(read) \in Nat
    BY LenIsNat DEF IInv, Types
  <2>3. Len(read) <= 10 /\ ~(Len(read) < 10)
    BY <1>1, ReadsAre DEF IInv, Types, TypeOK, Reading
  <2> QED
    BY <2>1, <2>2, <2>3, Zenon
<1>3. document \in Documents
  <2>1. Pass(0) \in Passes /\ Pass(1) \in Passes
    BY <1>1, <1>2, PassType DEF IInv
  <2>2. session.process \in Nat /\ call.startedAt \in Nat
    BY DEF IInv, Types, Calls
  <2> QED
    BY <2>1, <2>2, DocumentType
<1>4. /\ document.process = session.process
      /\ document.state = BuildState(Pass(0), Pass(1))
      /\ DOMAIN document.sources = Sources(Pass(0))
      /\ \A s \in Sources(Pass(0)) : document.sources[s][1] = Observed(Pass(0), s)
      /\ Seen(document) = exports /\ Baseline(document) = Pass(0).baseline
  <2>1. Pass(0).paths.exports = exports
    BY <1>1, <1>2, PassIs DEF IInv, ReadInv
  <2> QED
    BY <2>1, DocumentIs
<1> HIDE DEF document
<1>5. document # None
  BY <1>3, RunConsoleAssumption
<1>6. /\ session'.process = session.process /\ session'.closed = session.closed
      /\ session'.document = document
      /\ session' \in [process : Nat, closed : BOOLEAN, document : Documents \cup {None}]
  BY <1>1, <1>3 DEF IInv, Types
<1>7. ~session.closed
  BY <1>1 DEF IInv, Types, TypeOK, Building, Idle
<1>8. /\ call' \in Calls /\ call'.step \in {"use", "none"} /\ call'.number \in {0, call.number}
      /\ call'.op \in {call.op, "none"} /\ (call'.op # "none" => call'.ref = call.ref /\ call'.wanted = call.wanted)
  BY <1>1 DEF IInv, Types, Calls, Idle, UndoLists
<1>9. ~Writing /\ ~Writing' /\ ~Building'
  BY <1>1, <1>8 DEF Writing, Building
<1>10. Types'
  <2>1. read' \in Seq(Nat \cup Listing) /\ Len(read') = 0
    BY <1>1
  <2>2. call'.number \in 0 .. Len(names)
    <3>1. names \in Seq(Candidates)
      BY DEF IInv, Types
    <3> QED
      BY <1>8, <3>1 DEF IInv, Types, TypeOK
  <2>3. TypeOK'
    BY <1>1, <1>5, <1>6, <1>7, <1>8, <1>9, <2>1, <2>2, ReadsAre DEF IInv, Types, TypeOK, Building
  <2> QED
    BY <1>1, <1>6, <1>8, <2>1, <2>3 DEF IInv, Types
<1>11. StopsInv' /\ CallInv' /\ ReadInv' /\ MidInv'
  BY <1>1, <1>6, <1>7, <1>8, <1>9 DEF IInv, StopsInv, CallInv, ReadInv, MidInv, Building
<1>12. ExportsInv'
  BY <1>1, <1>4, <1>6, <1>9 DEF ExportsInv
<1>13. CurrentIsOneState'
  <2> SUFFICES ASSUME BuildState(Pass(0), Pass(1)) = "current" PROVE CurrentIsOneState'
    BY <1>4, <1>6 DEF CurrentIsOneState
  <2>1. PICK run \in held :
           /\ \A s \in {"specification", "report", "artifact"} \cap Sources(Pass(0)) :
                Observed(Pass(0), s) = Observed(run, s)
           /\ Pass(0).baseline \in {0, run.baseline}
    BY <1>1, OneRun
  <2> QED
    BY <1>1, <1>4, <1>6, <2>1 DEF CurrentIsOneState
<1> QED
  BY <1>1, <1>9, <1>10, <1>11, <1>12, <1>13, Elsewhere DEF IInv

\* A request that ends without a write, and leaves the served document.
LEMMA EndStep ==
  ASSUME IInv, ~Writing, call' = Idle, UNCHANGED <<tree, exports, names, session, torn, clock, edits, stops>>,
         faults' \in Nat, read' = read \/ read' = <<>>,
         reviewed \subseteq reviewed', reviewed' \subseteq Candidates, IsFiniteSet(reviewed'),
         Cardinality(reviewed') <= MaxReviews,
         session.document # None => held' = held
  PROVE  IInv'
<1>1. ~Building' /\ ~Writing' /\ call'.number = 0 /\ call' \in Calls /\ call'.step = "none"
      /\ call'.op = "none"
  BY DEF Idle, Building, Writing, Calls, UndoLists
<1>2. read' \in Seq(Nat \cup Listing) /\ Len(read') <= 2 * Len(Reads)
  <2>1. CASE read' = read
    BY <2>1 DEF IInv, Types, TypeOK
  <2>2. CASE read' = <<>>
    BY <2>2, ReadsAre
  <2> QED
    BY <2>1, <2>2
<1>3. Types'
  <2>1. 0 \in 0 .. Len(names)
    BY LenIsNat DEF IInv, Types
  <2> QED
    BY <1>1, <1>2, <2>1 DEF IInv, Types, TypeOK
<1>4. StopsInv' /\ CallInv' /\ ReadInv' /\ MidInv' /\ WriteInv' /\ Bounded'
  BY <1>1 DEF IInv, StopsInv, CallInv, ReadInv, MidInv, WriteInv, Bounded
<1>5. ExportsInv' /\ PairsAreWhole' /\ CurrentIsOneState'
  BY <1>1 DEF IInv, ExportsInv, PairsAreWhole, CurrentIsOneState
<1> QED
  BY <1>3, <1>4, <1>5 DEF IInv

LEMMA AnswersStep ==
  ASSUME IInv, FailBuild \/ Preview \/ Answer
  PROVE  IInv'
<1>1. CASE FailBuild
  <2>1. ~Writing /\ session.document = None
    BY <1>1 DEF FailBuild, Building, Writing, IInv, Types, TypeOK
  <2>2. faults' \in Nat
    BY <1>1 DEF FailBuild, IInv, Types
  <2> QED
    BY <1>1, <2>1, <2>2, EndStep DEF FailBuild, IInv, Types, TypeOK
<1>2. CASE Answer
  BY <1>2, EndStep DEF Answer, IInv, Types, TypeOK, Writing, bounds
<1>3. CASE Preview
  <2> DEFINE candidate == Candidate(session.document, call.ref)
  <2>1. candidate \in Candidates
    BY <1>3 DEF Preview, IInv, Types, TypeOK, CallInv, Candidate, Candidates
  <2>2. Cardinality(reviewed) < MaxReviews /\ IsFiniteSet(reviewed)
    BY <1>3 DEF Preview, IInv, CallInv, Types, TypeOK
  <2> HIDE DEF candidate
  <2>3. reviewed' = reviewed \cup {candidate}
    BY <1>3 DEF Preview, candidate
  <2>4. IsFiniteSet(reviewed') /\ Cardinality(reviewed') <= MaxReviews
    <3>1. IsFiniteSet(reviewed') /\ Cardinality(reviewed') \in {Cardinality(reviewed), Cardinality(reviewed) + 1}
      BY <2>2, <2>3, FS_AddElement
    <3>2. Cardinality(reviewed) \in Nat
      BY <2>2, FS_CardinalityType
    <3> QED
      BY <2>2, <3>1, <3>2, RunConsoleAssumption
  <2>5. reviewed \subseteq reviewed' /\ reviewed' \subseteq Candidates
    BY <2>1, <2>3 DEF IInv, Types
  <2> QED
    BY <1>3, <2>4, <2>5, EndStep DEF Preview, IInv, Types, Writing, bounds
<1> QED
  BY <1>1, <1>2, <1>3

-----------------------------------------------------------------------------
(* The write of a pair.                                                    *)

LEMMA LeftoversAre ==
  ASSUME call.step \in {"stage", "place"}, call.todo \in WriteLists
  PROVE  Leftovers = IF call.step = "place" /\ call.todo = <<"md">>
                     THEN <<"json", "json.staged", "md.staged">>
                     ELSE <<"json.staged", "md.staged">>
BY DEF Leftovers, WriteLists, Parts

\* A pair is whole but for the write under way and torn names.
LEMMA PairsMean ==
  PairsAreWhole <=>
    \A n \in DOMAIN names : (Writing /\ call.number = n) \/ n \in torn \/ Whole(n, exports)
BY WholeMeans DEF PairsAreWhole

LEMMA TakenMeans ==
  ASSUME NEW n
  PROVE  Taken(n) <=> \E s \in Endings : <<n, s>> \in exports
BY FilesOfName DEF Taken, Endings

LEMMA NumberIs ==
  ASSUME NEW candidate, names \in Seq(Candidates)
  PROVE  \/ Number(candidate) \in DOMAIN names /\ names[Number(candidate)] = candidate
         \/ Number(candidate) = Len(names) + 1
BY DEF Number, Contains

LEMMA BindStep ==
  ASSUME IInv, Bind
  PROVE  IInv'
<1> DEFINE candidate == Candidate(session.document, call.ref)
           n == Number(candidate)
<1>1. /\ call.op = "write" /\ call.step = "use" /\ ~Writing /\ ~Building
      /\ UNCHANGED <<tree, exports, session, read, clock, reviewed, held, torn, edits, faults, stops>>
  BY DEF Bind, Writing, Building, bounds
<1>2. /\ candidate \in Candidates /\ names \in Seq(Candidates)
      /\ BindingHolds => candidate \in reviewed
  BY <1>1 DEF IInv, Types, TypeOK, CallInv, Candidate, Candidates, BindingHolds
<1>3. (n \in DOMAIN names /\ names[n] = candidate) \/ n = Len(names) + 1
  BY <1>2, NumberIs
<1>4. (BindingHolds /\ ~Taken(n)) \/ ~(BindingHolds /\ ~Taken(n))
  OBVIOUS
<1>5. CASE ~(BindingHolds /\ ~Taken(n))
  <2>1. call' = Idle /\ UNCHANGED names
    BY <1>5 DEF Bind
  <2> QED
    BY <1>1, <2>1, EndStep DEF IInv, Types, TypeOK
<1>6. CASE BindingHolds /\ ~Taken(n)
  <2>1. /\ names' = IF n > Len(names) THEN Append(names, candidate) ELSE names
        /\ call' = [call EXCEPT !.step = "stage", !.number = n, !.todo = Parts]
    BY <1>6 DEF Bind
  <2> HIDE DEF n, candidate
  <2>2. /\ Len(names) \in Nat /\ DOMAIN names = 1 .. Len(names)
        /\ \A i \in 1 .. Len(names) : names[i] \in Candidates
    BY <1>2
  <2>3. /\ names' \in Seq(Candidates) /\ n \in DOMAIN names' /\ names'[n] = candidate
        /\ DOMAIN names \subseteq DOMAIN names' /\ DOMAIN names' \subseteq DOMAIN names \cup {n}
        /\ \A i \in DOMAIN names : names'[i] = names[i]
        /\ \A i \in DOMAIN names' : names'[i] \in reviewed
    <3>1. \A i \in DOMAIN names : names[i] \in reviewed
      BY <2>2 DEF IInv, Types, TypeOK, ToSet
    <3>2. CASE n = Len(names) + 1
      <4>0. n > Len(names)
        BY <2>2, <3>2
      <4>1. names' = Append(names, candidate)
        BY <2>1, <4>0
      <4>2. /\ names' \in Seq(Candidates) /\ Len(names') = Len(names) + 1
            /\ names'[Len(names) + 1] = candidate
            /\ \A i \in 1 .. Len(names) : names'[i] = names[i]
        BY <1>2, <4>1
      <4>3. DOMAIN names' = 1 .. Len(names) + 1
        BY <4>2
      <4> QED
        BY <1>2, <1>6, <2>2, <3>1, <3>2, <4>2, <4>3
    <3>3. CASE n \in DOMAIN names /\ names[n] = candidate
      <4>0. ~(n > Len(names))
        BY <2>2, <3>3
      <4>1. names' = names
        BY <2>1, <4>0
      <4> QED
        BY <1>2, <3>1, <3>3, <4>1
    <3> QED
      BY <1>3, <3>2, <3>3
  <2>4. n \in Nat /\ n \in 0 .. Len(names')
    BY <1>3, <2>2, <2>3
  <2>5. /\ call' \in Calls /\ call'.step = "stage" /\ call'.number = n
        /\ call'.todo = <<"json", "md">> /\ call'.op = "write" /\ call'.ref = call.ref
        /\ call'.wanted = call.wanted
    BY <1>1, <2>1, <2>4 DEF IInv, Types, Calls, Parts, WriteLists
  <2>6. session.document # None /\ ~session.closed
    BY <1>1 DEF IInv, Types, TypeOK, Idle
  <2>7. \A s \in Endings : <<n, s>> \notin exports
    BY <1>6, TakenMeans DEF n
  <2>8. ~Building' /\ Writing'
    BY <2>5 DEF Building, Writing
  <2>9. Types'
    <3>1. ToSet(names') \subseteq reviewed
      BY <2>3 DEF ToSet
    <3>2. exports \subseteq UNION {Finals(k) \cup Temps(k) : k \in DOMAIN names'}
      BY <2>3 DEF IInv, Types, TypeOK
    <3>3. torn \subseteq DOMAIN names'
      BY <2>3 DEF IInv, Types, TypeOK
    <3> QED
      BY <1>1, <2>3, <2>4, <2>5, <2>6, <2>8, <3>1, <3>2, <3>3 DEF IInv, Types, TypeOK
  <2>10. CallInv'
    BY <1>1, <2>3, <2>5, <2>6 DEF IInv, CallInv, WriteLists, candidate
  <2>11. WriteInv'
    <3>1. \A s \in Endings : ~Has(s)'
      BY <1>1, <2>5, <2>7 DEF Has
    <3>2. <<"json", "md">> # <<"md">>
      OBVIOUS
    <3> QED
      BY <2>5, <3>1, <3>2 DEF WriteInv
  <2>12. ExportsInv'
    BY <1>1, <2>5, <2>7, <2>8 DEF IInv, ExportsInv
  <2>13. PairsAreWhole'
    <3>1. ASSUME NEW i \in DOMAIN names', i # n PROVE i \in torn \/ Whole(i, exports)
      BY <1>1, <2>3, <3>1, PairsMean DEF IInv
    <3>2. \A i \in DOMAIN names' : (Writing' /\ call'.number = i) \/ i \in torn' \/ Whole(i, exports')
      BY <1>1, <2>5, <2>8, <3>1
    <3> QED
      BY <3>2, WholeMeans DEF PairsAreWhole
  <2>14. StopsInv' /\ ReadInv' /\ MidInv' /\ CurrentIsOneState' /\ Bounded'
    BY <1>1, <2>8 DEF IInv, StopsInv, ReadInv, MidInv, CurrentIsOneState, Bounded
  <2> QED
    BY <2>9, <2>10, <2>11, <2>12, <2>13, <2>14 DEF IInv
<1> QED
  BY <1>5, <1>6

\* What a step of a write that goes on does not disturb: it touches the files of
\* its own name.
LEMMA FilesStep ==
  ASSUME IInv, Writing, NEW step \in {"stage", "place", "undo"}, NEW todo \in WriteLists \cup UndoLists,
         call' = [call EXCEPT !.step = step, !.todo = todo],
         UNCHANGED <<tree, names, session, read, clock, reviewed, held, edits, stops>>,
         faults' \in Nat, torn \subseteq torn', torn' \subseteq torn \cup {call.number},
         \A file \in exports' : file \in exports \/ \E s \in Endings : file = <<call.number, s>>,
         \A file \in exports : file \in exports' \/ \E s \in Endings : file = <<call.number, s>>,
         step \in {"stage", "place"} => todo \in WriteLists /\ call.step # "undo",
         step = "undo" => todo \in UndoLists,
         WriteInv'
  PROVE  IInv'
<1>1. /\ call' \in Calls /\ call'.step = step /\ call'.todo = todo
      /\ call'.number = call.number /\ call'.op = call.op /\ call'.ref = call.ref
      /\ call'.wanted = call.wanted
  BY DEF IInv, Types, Calls
<1>2. /\ call.op = "write" /\ session.document # None /\ call.number \in DOMAIN names
      /\ call.number \in Nat /\ ~Building /\ ~Building' /\ Writing' /\ call # Idle
  BY <1>1 DEF IInv, CallInv, Types, Calls, Writing, Building, Idle
<1>3. ~session.closed
  BY <1>2 DEF IInv, Types, TypeOK
<1>4. \A s \in Endings : <<call.number, s>> \in Finals(call.number) \cup Temps(call.number)
  BY FilesOfName DEF Endings
<1>5. Types'
  <2>1. exports' \subseteq Nat \X Endings
    BY <1>2 DEF IInv, Types
  <2>2. exports' \subseteq UNION {Finals(n) \cup Temps(n) : n \in DOMAIN names}
    <3> SUFFICES ASSUME NEW file \in exports'
                 PROVE  \E n \in DOMAIN names : file \in Finals(n) \cup Temps(n)
      OBVIOUS
    <3>1. CASE file \in exports
      BY <3>1 DEF IInv, Types, TypeOK
    <3>2. CASE \E s \in Endings : file = <<call.number, s>>
      BY <1>2, <1>4, <3>2
    <3> QED
      BY <3>1, <3>2
  <2>3. torn' \subseteq DOMAIN names
    BY <1>2 DEF IInv, Types, TypeOK
  <2> QED
    BY <1>1, <1>2, <1>3, <2>1, <2>2, <2>3 DEF IInv, Types, TypeOK
<1>6. StopsInv' /\ ReadInv' /\ MidInv' /\ CurrentIsOneState' /\ Bounded'
  BY <1>2 DEF IInv, StopsInv, ReadInv, MidInv, CurrentIsOneState, Bounded
<1>7. CallInv'
  BY <1>1, <1>2 DEF IInv, CallInv, Writing
<1>8. ExportsInv'
  <2>1. /\ Seen(session.document) \subseteq exports /\ session.document.process = session.process
        /\ \A file \in exports \ Seen(session.document) : file[1] \in torn \/ file[1] = call.number
        /\ \A s \in Endings : <<call.number, s>> \notin Seen(session.document)
    BY <1>2 DEF IInv, ExportsInv
  <2>2. Seen(session.document) \subseteq exports'
    BY <2>1
  <2>3. ASSUME NEW file \in exports' \ Seen(session.document)
        PROVE  file[1] \in torn' \/ file[1] = call.number
    BY <2>1, <2>3
  <2> QED
    BY <1>1, <1>2, <2>1, <2>2, <2>3 DEF ExportsInv
<1>9. PairsAreWhole'
  <2>1. ASSUME NEW n \in DOMAIN names, n # call.number PROVE n \in torn' \/ Whole(n, exports')
    <3>1. n \in torn \/ Whole(n, exports)
      BY <2>1, PairsMean DEF IInv
    <3>2. \A s \in Endings : <<n, s>> \in exports <=> <<n, s>> \in exports'
      BY <2>1
    <3> QED
      BY <3>1, <3>2 DEF Whole
  <2>2. \A n \in DOMAIN names' : (Writing' /\ call'.number = n) \/ n \in torn' \/ Whole(n, exports')
    BY <1>1, <1>2, <2>1
  <2> QED
    BY <2>2, WholeMeans DEF PairsAreWhole
<1> QED
  BY <1>5, <1>6, <1>7, <1>8, <1>9 DEF IInv

LEMMA StageStep ==
  ASSUME IInv, Stage
  PROVE  IInv'
<1>1. call.step = "stage" /\ call.todo \in WriteLists /\ Writing
  BY DEF Stage, IInv, CallInv, Writing
<1>2. UNCHANGED <<tree, names, session, read, clock, reviewed, held, torn, edits, faults, stops>>
  BY DEF Stage, bounds
<1>3. call \in Calls /\ faults \in Nat
  BY DEF IInv, Types
<1>4. CASE call.todo = <<"json", "md">>
  <2>1. exports' = exports \cup {<<call.number, "json.staged">>}
    BY <1>4 DEF Stage, Staged
  <2>2. call' = [call EXCEPT !.step = "stage", !.todo = <<"md">>]
    <3>1. Len(call.todo) > 1 /\ Tail(call.todo) = <<"md">>
      BY <1>4
    <3>2. call' = [call EXCEPT !.todo = Tail(@)]
      BY <3>1 DEF Stage
    <3> QED
      BY <1>1, <1>3, <3>1, <3>2 DEF Calls
  <2>3. WriteInv'
    <3>1. \A s \in Endings : ~Has(s)
      BY <1>1, <1>4 DEF IInv, WriteInv
    <3>2. call'.number = call.number /\ call'.step = "stage" /\ call'.todo = <<"md">>
      BY <1>3, <2>2 DEF Calls
    <3> QED
      BY <2>1, <3>1, <3>2 DEF WriteInv, Has
  <2> QED
    BY <1>1, <1>2, <1>3, <2>1, <2>2, <2>3, FilesStep DEF Endings, WriteLists
<1>5. CASE call.todo = <<"md">>
  <2>1. exports' = exports \cup {<<call.number, "md.staged">>}
    BY <1>5 DEF Stage, Staged
  <2>2. call' = [call EXCEPT !.step = "place", !.todo = <<"json", "md">>]
    <3>1. ~(Len(call.todo) > 1)
      BY <1>5
    <3> QED
      BY <3>1 DEF Stage, Parts
  <2>3. WriteInv'
    <3>1. \A s \in Endings : Has(s) <=> s = "json.staged"
      BY <1>1, <1>5 DEF IInv, WriteInv
    <3>2. call'.number = call.number /\ call'.step = "place" /\ call'.todo = <<"json", "md">>
      BY <1>3, <2>2 DEF Calls
    <3>3. call'.todo # <<"md">>
      BY <3>2
    <3> QED
      BY <2>1, <3>1, <3>2, <3>3 DEF WriteInv, Has
  <2> QED
    BY <1>1, <1>2, <1>3, <2>1, <2>2, <2>3, FilesStep DEF Endings, WriteLists
<1> QED
  BY <1>1, <1>4, <1>5 DEF WriteLists

LEMMA RefuseStep ==
  ASSUME IInv, Refuse
  PROVE  IInv'
<1>1. call.step \in {"stage", "place"} /\ call.todo \in WriteLists /\ Writing
  BY DEF Refuse, IInv, CallInv, Writing
<1>2. UNCHANGED <<tree, names, session, read, clock, reviewed, held, torn, edits, stops>> /\ faults' \in Nat
  BY DEF Refuse, IInv, Types
<1>3. call \in Calls
  BY DEF IInv, Types
<1>4. Leftovers \in UndoLists /\ call' = [call EXCEPT !.step = "undo", !.todo = Leftovers]
  BY <1>1, LeftoversAre DEF Refuse, UndoLists
<1>5. call'.number = call.number /\ call'.step = "undo" /\ call'.todo = Leftovers
  BY <1>3, <1>4 DEF Calls
<1>6. \/ exports' = exports
      \/ /\ call.step = "stage"
         /\ exports' = exports \cup {<<call.number, Staged(Head(call.todo))>>}
  BY DEF Refuse
<1>7. Head(call.todo) \in {"json", "md"}
  BY <1>1 DEF WriteLists
<1>8. Staged(Head(call.todo)) \in {"json.staged", "md.staged"}
  BY <1>7 DEF Staged
<1>9. WriteInv'
  <2>1. ASSUME NEW s \in Endings, Has(s)' PROVE \E i \in 1 .. Len(Leftovers) : Leftovers[i] = s
    <3>1. CASE call.step = "place" /\ call.todo = <<"md">>
      <4>1. Has(s)
        BY <1>5, <1>6, <2>1, <3>1 DEF Has
      <4>2. s \in {"json", "md.staged"}
        BY <3>1, <4>1 DEF IInv, WriteInv
      <4>3. Leftovers = <<"json", "json.staged", "md.staged">>
        BY <1>1, <3>1, LeftoversAre
      <4>4. Leftovers[1] = "json" /\ Leftovers[3] = "md.staged" /\ Len(Leftovers) = 3
        BY <4>3
      <4> QED
        BY <4>2, <4>4
    <3>2. CASE ~(call.step = "place" /\ call.todo = <<"md">>)
      <4>1. s \in {"json.staged", "md.staged"}
        BY <1>1, <1>5, <1>6, <1>8, <2>1, <3>2 DEF IInv, WriteInv, Has
      <4>2. Leftovers = <<"json.staged", "md.staged">>
        BY <1>1, <3>2, LeftoversAre
      <4>3. Leftovers[1] = "json.staged" /\ Leftovers[2] = "md.staged" /\ Len(Leftovers) = 2
        BY <4>2
      <4> QED
        BY <4>1, <4>3
    <3> QED
      BY <3>1, <3>2
  <2> QED
    BY <1>5, <2>1 DEF WriteInv
<1>10. Staged(Head(call.todo)) \in Endings
  BY <1>8 DEF Endings
<1>11. Leftovers \in WriteLists \cup UndoLists
  BY <1>4
<1> HIDE DEF Leftovers
<1> QED
  BY <1>1, <1>2, <1>4, <1>6, <1>9, <1>10, <1>11, FilesStep

\* The files a rollback has still to look for.
LEMMA UndoTail ==
  ASSUME NEW todo \in UndoLists, todo # <<>>
  PROVE  /\ Tail(todo) \in UndoLists /\ Head(todo) \in Endings
         /\ \A i \in 1 .. Len(todo) :
              todo[i] = Head(todo) \/ \E j \in 1 .. Len(Tail(todo)) : Tail(todo)[j] = todo[i]
<1>1. CASE todo = <<"json", "json.staged", "md.staged">>
  <2>1. /\ Tail(todo) = <<"json.staged", "md.staged">> /\ Head(todo) = "json" /\ Len(todo) = 3
        /\ todo[1] = "json" /\ todo[2] = "json.staged" /\ todo[3] = "md.staged"
    BY <1>1
  <2>2. \A i \in 1 .. 3 : i = 1 \/ i = 2 \/ i = 3
    OBVIOUS
  <2>3. Tail(todo)[1] = "json.staged" /\ Tail(todo)[2] = "md.staged" /\ Len(Tail(todo)) = 2
    BY <2>1
  <2>4. Tail(todo) \in UndoLists /\ Head(todo) \in Endings
    BY <2>1 DEF UndoLists, Endings
  <2>5. ASSUME NEW i \in 1 .. 3, i # 1
        PROVE  \E j \in 1 .. 2 : Tail(todo)[j] = todo[i]
    BY <2>1, <2>2, <2>3, <2>5
  <2> QED
    BY <2>1, <2>3, <2>4, <2>5
<1>2. CASE todo = <<"json.staged", "md.staged">>
  <2>1. /\ Tail(todo) = <<"md.staged">> /\ Head(todo) = "json.staged" /\ Len(todo) = 2
        /\ todo[1] = "json.staged" /\ todo[2] = "md.staged"
    BY <1>2
  <2>2. \A i \in 1 .. 2 : i = 1 \/ i = 2
    OBVIOUS
  <2>3. Tail(todo)[1] = "md.staged" /\ Len(Tail(todo)) = 1
    BY <2>1
  <2> QED
    BY <2>1, <2>2, <2>3 DEF UndoLists, Endings
<1>3. CASE todo = <<"md.staged">>
  <2>1. Tail(todo) = <<>> /\ Head(todo) = "md.staged" /\ Len(todo) = 1 /\ todo[1] = "md.staged"
    BY <1>3
  <2>2. \A i \in 1 .. 1 : i = 1
    OBVIOUS
  <2> QED
    BY <2>1, <2>2 DEF UndoLists, Endings
<1> QED
  BY <1>1, <1>2, <1>3 DEF UndoLists

LEMMA UndoStep ==
  ASSUME IInv, Undo
  PROVE  IInv'
<1> DEFINE file == <<call.number, Head(call.todo)>>
<1>1. call.step = "undo" /\ call.todo # <<>> /\ call.todo \in UndoLists /\ Writing
  BY DEF Undo, IInv, CallInv, Writing
<1>2. UNCHANGED <<tree, names, session, read, clock, reviewed, held, edits, stops>>
  BY DEF Undo
<1>3. call \in Calls /\ faults \in Nat /\ call' = [call EXCEPT !.todo = Tail(@)]
  BY DEF Undo, IInv, Types
<1>4. call' = [call EXCEPT !.step = "undo", !.todo = Tail(call.todo)]
  BY <1>1, <1>3 DEF Calls
<1>5. call'.number = call.number /\ call'.step = "undo" /\ call'.todo = Tail(call.todo)
  BY <1>3, <1>4 DEF Calls
<1>6. \/ exports' = exports \ {file} /\ torn' = torn /\ faults' = faults
      \/ exports' = exports /\ torn' = torn \cup {call.number} /\ faults' = faults + 1
  BY DEF Undo
<1>7. faults' \in Nat /\ torn \subseteq torn' /\ torn' \subseteq torn \cup {call.number}
  BY <1>3, <1>6
<1>8. Head(call.todo) \in Endings /\ Tail(call.todo) \in UndoLists
  BY <1>1, UndoTail
<1>9. WriteInv'
  <2>1. CASE call.number \in torn'
    BY <1>5, <2>1 DEF WriteInv
  <2>2. CASE call.number \notin torn'
    <3>1. exports' = exports \ {file} /\ call.number \notin torn
      BY <1>6, <1>7, <2>2
    <3>2. ASSUME NEW s \in Endings, Has(s)'
          PROVE  \E j \in 1 .. Len(Tail(call.todo)) : Tail(call.todo)[j] = s
      <4>1. Has(s) /\ s # Head(call.todo)
        BY <1>5, <3>1, <3>2 DEF Has
      <4>2. PICK i \in 1 .. Len(call.todo) : call.todo[i] = s
        BY <1>1, <3>1, <4>1 DEF IInv, WriteInv
      <4> QED
        BY <1>1, <4>1, <4>2, UndoTail
    <3> QED
      BY <1>5, <3>2 DEF WriteInv
  <2> QED
    BY <2>1, <2>2
<1>10. Tail(call.todo) \in WriteLists \cup UndoLists
  BY <1>8
<1> HIDE DEF file
<1>11. /\ \A f \in exports' : f \in exports
       /\ \A f \in exports : f \in exports' \/ f = file
  BY <1>6
<1>12. /\ \A f \in exports' : f \in exports \/ \E s \in Endings : f = <<call.number, s>>
       /\ \A f \in exports : f \in exports' \/ \E s \in Endings : f = <<call.number, s>>
  BY <1>8, <1>11 DEF file
<1> QED
  BY <1>1, <1>2, <1>4, <1>7, <1>8, <1>9, <1>10, <1>12, FilesStep

LEMMA UndoneStep ==
  ASSUME IInv, Undone
  PROVE  IInv'
<1>1. /\ call.step = "undo" /\ call.todo = <<>> /\ Writing /\ ~Building /\ call' = Idle
      /\ UNCHANGED <<tree, exports, names, session, read, clock, reviewed, held, torn, edits, faults, stops>>
  BY DEF Undone, Writing, Building, bounds
<1>2. ~Building' /\ ~Writing' /\ call'.number = 0 /\ call' \in Calls /\ call'.step = "none" /\ call'.op = "none"
  BY <1>1 DEF Idle, Building, Writing, Calls, UndoLists
<1>3. call.number \in torn \/ \A s \in Endings : <<call.number, s>> \notin exports
  <2>1. ~ \E i \in 1 .. Len(call.todo) : TRUE
    BY <1>1
  <2> QED
    BY <1>1, <2>1 DEF IInv, WriteInv, Has
<1>4. /\ Seen(session.document) \subseteq exports /\ session.document.process = session.process
      /\ \A file \in exports \ Seen(session.document) : file[1] \in torn \/ file[1] = call.number
      /\ call.number \in DOMAIN names /\ exports \subseteq Nat \X Endings
  BY <1>1 DEF IInv, ExportsInv, CallInv, Types
<1>5. Types'
  <2>1. 0 \in 0 .. Len(names)
    BY LenIsNat DEF IInv, Types
  <2> QED
    BY <1>1, <1>2, <2>1 DEF IInv, Types, TypeOK
<1>6. StopsInv' /\ CallInv' /\ ReadInv' /\ MidInv' /\ WriteInv' /\ Bounded' /\ CurrentIsOneState'
  BY <1>1, <1>2 DEF IInv, StopsInv, CallInv, ReadInv, MidInv, WriteInv, Bounded, CurrentIsOneState
<1>7. ExportsInv'
  <2>1. ASSUME NEW file \in exports \ Seen(session.document), file[1] \notin torn PROVE FALSE
    <3>1. file[1] = call.number
      BY <1>4, <2>1
    <3>2. PICK n \in Nat, s \in Endings : file = <<n, s>>
      BY <1>4, <2>1
    <3> QED
      BY <1>3, <2>1, <3>1, <3>2
  <2> QED
    BY <1>1, <1>2, <1>4, <2>1 DEF ExportsInv
<1>8. PairsAreWhole'
  <2>1. \A n \in DOMAIN names : n # call.number => n \in torn \/ Whole(n, exports)
    BY PairsMean DEF IInv
  <2>2. call.number \in torn \/ Whole(call.number, exports)
    BY <1>3 DEF Whole
  <2>3. \A n \in DOMAIN names' : n \in torn' \/ Whole(n, exports')
    BY <1>1, <2>1, <2>2
  <2> QED
    BY <2>3, WholeMeans DEF PairsAreWhole
<1> QED
  BY <1>5, <1>6, <1>7, <1>8 DEF IInv

\* The second rename, after which the served document is built again.
LEMMA PlaceStep ==
  ASSUME IInv, Place
  PROVE  IInv'
<1>1. /\ call.step = "place" /\ call.todo \in WriteLists /\ Writing /\ ~Building
      /\ UNCHANGED <<tree, names, clock, reviewed, torn, edits, faults, stops>>
  BY DEF Place, IInv, CallInv, Writing, Building, bounds
<1>2. call \in Calls /\ faults \in Nat
  BY DEF IInv, Types
<1>3. CASE call.todo = <<"json", "md">>
  <2>1. Head(call.todo) = "json" /\ Len(call.todo) > 1 /\ Tail(call.todo) = <<"md">>
    BY <1>3
  <2>2. exports' = (exports \ {<<call.number, "json.staged">>}) \cup {<<call.number, "json">>}
    BY <2>1 DEF Place, Staged
  <2>3. call' = [call EXCEPT !.step = "place", !.todo = <<"md">>] /\ UNCHANGED <<session, read, held>>
    <3>1. call' = [call EXCEPT !.todo = Tail(@)] /\ UNCHANGED <<session, read, held>>
      BY <2>1 DEF Place
    <3> QED
      BY <1>1, <1>2, <2>1, <3>1 DEF Calls
  <2>4. WriteInv'
    <3>1. \A s \in Endings : Has(s) <=> s \in {"json.staged", "md.staged"}
      <4>1. call.todo # <<"md">>
        BY <1>3
      <4> QED
        BY <1>1, <4>1 DEF IInv, WriteInv
    <3>2. call'.number = call.number /\ call'.step = "place" /\ call'.todo = <<"md">>
      BY <1>2, <2>3 DEF Calls
    <3> QED
      BY <2>2, <3>1, <3>2 DEF WriteInv, Has, Endings
  <2>5. /\ \A f \in exports' : f \in exports \/ \E s \in Endings : f = <<call.number, s>>
        /\ \A f \in exports : f \in exports' \/ \E s \in Endings : f = <<call.number, s>>
    BY <2>2 DEF Endings
  <2>6. <<"md">> \in WriteLists
    BY DEF WriteLists
  <2> QED
    BY <1>1, <1>2, <2>3, <2>4, <2>5, <2>6, FilesStep
<1>4. CASE call.todo = <<"md">>
  <2>1. Head(call.todo) = "md" /\ ~(Len(call.todo) > 1)
    BY <1>4
  <2>2. exports' = (exports \ {<<call.number, "md.staged">>}) \cup {<<call.number, "md">>}
    BY <2>1 DEF Place, Staged
  <2>3. /\ session' = [session EXCEPT !.document = None]
        /\ call' = [Idle EXCEPT !.op = "commit", !.step = "build", !.startedAt = clock]
        /\ read' = <<>> /\ held' = {Run'}
    BY <2>1 DEF Place
  <2>4. \A s \in Endings : Has(s) <=> s \in {"json", "md.staged"}
    BY <1>1, <1>4 DEF IInv, WriteInv
  <2>5. /\ call.number \in DOMAIN names /\ call.number \in Nat /\ clock \in Nat
        /\ ~session.closed /\ session \in [process : Nat, closed : BOOLEAN, document : Documents \cup {None}]
    BY <1>1, RunConsoleAssumption DEF IInv, CallInv, Types, TypeOK, Calls, Idle
  <2>6. /\ call' \in Calls /\ call'.step = "build" /\ call'.op = "commit" /\ call'.number = 0
        /\ ~Writing' /\ Building'
    BY <2>3, <2>5 DEF Idle, Calls, UndoLists, Writing, Building
  <2>7. /\ session'.process = session.process /\ session'.closed = FALSE /\ session'.document = None
        /\ session' \in [process : Nat, closed : BOOLEAN, document : Documents \cup {None}]
    BY <2>3, <2>5
  <2>8. Types'
    <3>1. exports' \subseteq Nat \X Endings
      BY <2>2, <2>5 DEF IInv, Types, Endings
    <3>2. exports' \subseteq UNION {Finals(n) \cup Temps(n) : n \in DOMAIN names}
      <4>1. SUFFICES ASSUME NEW file \in exports'
                     PROVE  \E n \in DOMAIN names : file \in Finals(n) \cup Temps(n)
        OBVIOUS
      <4>2. CASE file \in exports
        BY <1>1, <4>2 DEF IInv, Types, TypeOK
      <4>3. CASE file = <<call.number, "md">>
        <5>1. <<call.number, "md">> \in Finals(call.number)
          BY FilesOfName
        <5> QED
          BY <2>5, <4>3, <5>1
      <4> QED
        BY <2>2, <4>2, <4>3
    <3>3. read' \in Seq(Nat \cup Listing) /\ Len(read') = 0
      BY <2>3
    <3>4. 0 \in 0 .. Len(names)
      BY LenIsNat DEF IInv, Types
    <3> QED
      BY <1>1, <2>6, <2>7, <3>1, <3>2, <3>3, <3>4, ReadsAre DEF IInv, Types, TypeOK
  <2>9. StopsInv' /\ CallInv' /\ WriteInv' /\ ExportsInv' /\ CurrentIsOneState' /\ Bounded'
    BY <1>1, <2>6, <2>7 DEF IInv, StopsInv, CallInv, WriteInv, ExportsInv, CurrentIsOneState, Bounded
  <2>10. ReadInv' /\ MidInv'
    <3>1. Len(read') = 0 /\ Run' \in held'
      BY <2>3
    <3> QED
      BY <3>1 DEF ReadInv, MidInv
  <2>11. PairsAreWhole'
    <3>1. ASSUME NEW n \in DOMAIN names PROVE n \in torn \/ Whole(n, exports')
      <4>1. CASE n = call.number
        <5>1. \A s \in Endings : <<n, s>> \in exports <=> s \in {"json", "md.staged"}
          BY <2>4, <4>1 DEF Has
        <5>2. ASSUME NEW s \in Endings
              PROVE  <<n, s>> \in exports' <=> (<<n, s>> \in exports /\ s # "md.staged") \/ s = "md"
          BY <2>2, <4>1
        <5>3. \A s \in Endings : <<n, s>> \in exports' <=> s \in {"json", "md"}
          BY <5>1, <5>2 DEF Endings
        <5> QED
          BY <5>3 DEF Whole
      <4>2. CASE n # call.number
        <5>1. n \in torn \/ Whole(n, exports)
          BY <4>2, PairsMean DEF IInv
        <5>2. \A s \in Endings : <<n, s>> \in exports <=> <<n, s>> \in exports'
          BY <2>2, <4>2
        <5> QED
          BY <5>1, <5>2 DEF Whole
      <4> QED
        BY <4>1, <4>2
    <3> QED
      BY <1>1, <3>1, WholeMeans DEF PairsAreWhole
  <2> QED
    BY <2>8, <2>9, <2>10, <2>11 DEF IInv
<1> QED
  BY <1>1, <1>3, <1>4 DEF WriteLists

-----------------------------------------------------------------------------
(* The life of the process.                                                *)

LEMMA StopStep ==
  ASSUME IInv, Close \/ Kill
  PROVE  IInv'
<1>1. /\ ~session.closed /\ stops' = stops + 1 /\ stops < MaxStops
      /\ session' = [session EXCEPT !.closed = TRUE, !.document = None]
      /\ call' = Idle /\ (read' = read \/ read' = <<>>)
      /\ UNCHANGED <<tree, exports, names, clock, reviewed, edits, faults>>
  BY DEF Close, Kill, Closed, IInv, Types, TypeOK
<1>2. torn \subseteq torn' /\ torn' \subseteq DOMAIN names /\ (Writing => call.number \in torn')
  <2>1. Writing => call.number \in DOMAIN names
    BY DEF IInv, CallInv
  <2>2. CASE Kill
    BY <2>1, <2>2 DEF Kill, IInv, Types, TypeOK
  <2>3. CASE Close
    BY <2>3 DEF Close, IInv, Types, TypeOK, Writing, Idle
  <2> QED
    BY <2>2, <2>3
<1>3. /\ session'.process = session.process /\ session'.closed /\ session'.document = None
      /\ session' \in [process : Nat, closed : BOOLEAN, document : Documents \cup {None}]
  BY <1>1 DEF IInv, Types
<1>4. /\ ~Building' /\ ~Writing' /\ call'.number = 0 /\ call' \in Calls /\ call'.step = "none"
      /\ call'.op = "none" /\ call' = Idle
  BY <1>1 DEF Idle, Building, Writing, Calls, UndoLists
<1>5. read' \in Seq(Nat \cup Listing) /\ Len(read') <= 2 * Len(Reads)
  <2>1. CASE read' = read
    BY <2>1 DEF IInv, Types, TypeOK
  <2>2. CASE read' = <<>>
    BY <2>2, ReadsAre
  <2> QED
    BY <1>1, <2>1, <2>2
<1>6. stops \in Nat /\ stops' \in 0 .. MaxStops /\ session.process <= stops'
  BY <1>1, RunConsoleAssumption DEF IInv, StopsInv, Types
<1>7. Types'
  <2>1. 0 \in 0 .. Len(names)
    BY LenIsNat DEF IInv, Types
  <2> QED
    BY <1>1, <1>2, <1>3, <1>4, <1>5, <1>6, <2>1 DEF IInv, Types, TypeOK
<1>8. StopsInv'
  BY <1>3, <1>6 DEF IInv, Types, StopsInv
<1>9. CallInv' /\ ReadInv' /\ MidInv' /\ WriteInv' /\ Bounded' /\ CurrentIsOneState' /\ ExportsInv'
  BY <1>1, <1>3, <1>4 DEF IInv, CallInv, ReadInv, MidInv, WriteInv, Bounded, CurrentIsOneState, ExportsInv
<1>10. PairsAreWhole'
  BY <1>1, <1>2 DEF IInv, PairsAreWhole
<1> QED
  BY <1>7, <1>8, <1>9, <1>10 DEF IInv

LEMMA LaunchStep ==
  ASSUME IInv, Launch
  PROVE  IInv'
<1>1. /\ session.closed /\ session' = [process |-> session.process + 1, closed |-> FALSE, document |-> None]
      /\ UNCHANGED <<tree, exports, names, call, read, clock, reviewed, held, torn, edits, faults, stops>>
  BY DEF Launch, bounds
<1>2. call = Idle /\ session.process \in Nat /\ session.process <= stops /\ stops \in 0 .. MaxStops
  BY <1>1 DEF IInv, Types, TypeOK, StopsInv
<1>3. /\ session'.process = session.process + 1 /\ ~session'.closed /\ session'.document = None
      /\ session' \in [process : Nat, closed : BOOLEAN, document : Documents \cup {None}]
  BY <1>1, <1>2
<1>4. session'.process \in 1 .. MaxStops + 1 /\ session'.process <= stops' + 1
  BY <1>1, <1>2, <1>3, RunConsoleAssumption
<1>5. ~Building /\ ~Writing /\ call.step = "none"
  BY <1>2 DEF Idle, Building, Writing
<1>6. Types'
  BY <1>1, <1>2, <1>3, <1>4, <1>5 DEF IInv, Types, TypeOK, Building
<1>7. StopsInv' /\ CallInv' /\ ReadInv' /\ MidInv' /\ WriteInv' /\ Bounded' /\ CurrentIsOneState' /\ ExportsInv'
  BY <1>1, <1>3, <1>4, <1>5 DEF IInv, StopsInv, CallInv, ReadInv, MidInv, WriteInv, Bounded,
     CurrentIsOneState, ExportsInv, Building, Writing
<1>8. PairsAreWhole'
  BY <1>1, <1>5 DEF IInv, PairsAreWhole, Writing
<1> QED
  BY <1>6, <1>7, <1>8 DEF IInv

-----------------------------------------------------------------------------
(* What holds.                                                             *)

LEMMA NextInv == IInv /\ [Next]_vars => IInv'
<1> SUFFICES ASSUME IInv, [Next]_vars PROVE IInv'
  OBVIOUS
<1>1. CASE UNCHANGED vars
  <2>1. Run' = Run
    BY <1>1 DEF vars, Run
  <2>2. Types' /\ Bounded' /\ StopsInv' /\ CallInv' /\ WriteInv'
    BY <1>1 DEF vars, bounds, IInv, Types, TypeOK, StopsInv, CallInv, WriteInv, Bounded, Building, Writing, Has
  <2>3. ReadInv' /\ MidInv'
    BY <1>1, <2>1 DEF vars, bounds, IInv, ReadInv, MidInv, Building, Kept
  <2>4. ExportsInv' /\ PairsAreWhole' /\ CurrentIsOneState'
    BY <1>1 DEF vars, IInv, ExportsInv, PairsAreWhole, CurrentIsOneState, Writing
  <2> QED
    BY <2>2, <2>3, <2>4 DEF IInv
<1> QED
  BY <1>1, EditStep, TickStep, AskStep, ReadNextStep, FinishBuildStep, AnswersStep, BindStep, StageStep,
     PlaceStep, RefuseStep, UndoStep, UndoneStep, StopStep, LaunchStep DEF Next

\* A snapshot that says it is current shows contents the run had together, and
\* the one served between requests lists every pair exported since; below
\* trial-export/ there are whole pairs, but for a write under way or one that a
\* stop or the disk did not let be undone.
THEOREM ServesTheTruth == Spec => []ServedIsTrue
<1>1. IInv => ServedIsTrue
  <2>1. IInv => ServedKnowsItsExports
    BY DEF IInv, ExportsInv, ServedKnowsItsExports, Seen, Writing, Idle
  <2> QED
    BY <2>1 DEF IInv, Types, ServedIsTrue, Wellformed
<1> QED
  BY <1>1, InitInv, NextInv, PTL DEF Spec

\* A file gets an export name only if a participant was shown that candidate by
\* this process, and it is what the served snapshot still projects to.
THEOREM WritesTheReviewed == Spec => OnlyReviewedIsWritten
<1>1. ASSUME IInv, [Next]_vars, NEW n \in DOMAIN names', Finals(n) \cap (exports' \ exports) # {}
      PROVE  /\ names'[n] \in reviewed
             /\ names'[n] = Candidate(session.document, names'[n].ref)
             /\ names'[n].document.process = session.process
  <2>1. PICK s \in {"json", "md"} : <<n, s>> \in exports' \ exports
    BY <1>1, FilesOfName
  <2>2. CASE Place
    <3>1. call.step = "place" /\ call.todo \in WriteLists /\ names' = names /\ Writing
      BY <1>1, <2>2 DEF Place, IInv, CallInv, Writing
    <3>2. n = call.number
      BY <2>1, <2>2 DEF Place
    <3>3. names[n] = Candidate(session.document, call.ref) /\ session.document.process = session.process
      BY <1>1, <3>1, <3>2 DEF IInv, CallInv, ExportsInv
    <3>4. names[n] \in reviewed
      <4>1. names \in Seq(Candidates)
        BY <1>1 DEF IInv, Types
      <4> QED
        BY <1>1, <3>1 DEF IInv, Types, TypeOK, ToSet
    <3> QED
      BY <3>1, <3>3, <3>4 DEF Candidate
  <2>3. CASE Stage \/ Refuse
    <3>1. call.todo \in WriteLists
      BY <1>1, <2>3 DEF Stage, Refuse, IInv, CallInv
    <3>2. Head(call.todo) \in {"json", "md"}
      BY <3>1 DEF WriteLists
    <3>3. Staged(Head(call.todo)) \in {"json.staged", "md.staged"}
      BY <3>2 DEF Staged
    <3> QED
      BY <2>1, <2>3, <3>3 DEF Stage, Refuse
  <2>4. CASE Undo
    BY <2>1, <2>4 DEF Undo
  <2> QED
    BY <1>1, <2>1, <2>2, <2>3, <2>4 DEF Next, vars, Edit, Tick, Ask, Request, ReadNext, FinishBuild,
       FailBuild, Answer, Preview, Bind, Undone, Close, Kill, Launch
<1>2. IInv /\ [Next]_vars =>
        [\A n \in DOMAIN names' : Finals(n) \cap (exports' \ exports) # {} =>
           /\ names'[n] \in reviewed
           /\ names'[n] = Candidate(session.document, names'[n].ref)
           /\ names'[n].document.process = session.process]_vars
  BY <1>1
<1> QED
  BY <1>2, InitInv, NextInv, PTL DEF Spec, OnlyReviewedIsWritten

=============================================================================
