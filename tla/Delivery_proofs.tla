--------------------------- MODULE Delivery_proofs ---------------------------
(***************************************************************************)
(* What evidence, a delivery and the workbench's owner facts may claim of*)
(* a run, for every number of artifacts, criteria, rounds, viewports,    *)
(* deliveries and backflow requests, and every order of their steps; and,*)
(* from the patches on, what a canvas and its undo history show and what a *)
(* consent stands for, for every document, every batch of commands and   *)
(* every number of windows. The two share no state.                      *)
(***************************************************************************)
EXTENDS Delivery, Orchestration, SequenceTheorems, FiniteSetTheorems,
        NaturalsInduction, WellFoundedInduction, TLAPS

-----------------------------------------------------------------------------
(* Evidence. Versions of the page only grow, and so do those an artifact *)
(* and its sidecar show; the sidecar is never ahead of its screenshot.   *)

CaptureInv ==
  /\ \A a \in Artifacts :
       /\ image[a] # None => image[a] <= page
       /\ sidecar[a] # None => image[a] # None /\ sidecar[a] <= image[a]
  /\ camera # None =>
       /\ image[camera.artifact] # None => image[camera.artifact] <= camera.version
       /\ camera.shot => image[camera.artifact] = camera.version

\* A capture that succeeded and is not being repeated has its probe beside it.
ToldInv ==
  \A a \in Artifacts :
    told[a] = "captured" /\ (camera # None => camera.artifact # a) =>
      image[a] # None /\ sidecar[a] = image[a]

\* A binding of a captured artifact is not newer than the artifact's probe.
BoundInv ==
  \A n \in DOMAIN manifest :
    manifest[n].result = "captured" =>
      /\ sidecar[manifest[n].artifact] # None
      /\ manifest[n].hash <= sidecar[manifest[n].artifact]

EvidenceInv == EvidenceTypeOK /\ CaptureInv /\ ToldInv /\ BoundInv

-----------------------------------------------------------------------------
(* The delivery. *)

\* No file tells of a later page than the version v.
OutUpTo(v) ==
  /\ out.json # None => out.json.version <= v
  /\ out.copy # None => out.copy <= v
  /\ out.zip # None => out.zip.payload.version <= v
  /\ out.index # None => out.index.version <= v

SnapsInv == \A v \in Shown : snaps[v] # None => snaps[v] <= page

\* The order of a build: captures, gates, confirmation, verdict, files.
OrderInv ==
  build # None =>
    /\ build.gates # None => build.todo = <<>>
    /\ build.confirmed # None => build.gates # None
    /\ build.verdict # None => build.confirmed # None
    /\ build.wrote # {} => build.verdict # None

\* A build that is not blocked has captured what is no longer to do, since it
\* read the page.
MatrixInv ==
  build # None =>
    /\ ~build.blocked => /\ build.matrix
                         /\ \A v \in Shown \ Range(build.todo) :
                              snaps[v] # None /\ snaps[v] >= build.bytes
    /\ build.verdict = "Pass" => ~build.blocked

\* What is there is not newer than the build that replaces it, file by file.
FilesInv ==
  /\ IF build = None THEN OutUpTo(page) ELSE OutUpTo(build.bytes)
  /\ build # None =>
       /\ "json" \in build.wrote => out.json = Payload
       /\ "copy" \in build.wrote => out.copy = build.bytes
       /\ "zip" \in build.wrote => out.zip # None /\ out.zip.payload = Payload

\* What an undisturbed build has found is still so.
StillInv ==
  build # None /\ build.still =>
    /\ page = build.bytes
    /\ build.gates # None /\ Resolved(build.gates) =>
         report # None /\ PointbackHolds(report) /\ PreviewHolds /\ EvidenceHolds(report)
    /\ build.confirmed = TRUE => Confirmed(build.round)
    /\ build.verdict = "Pass" =>
         build.confirmed = TRUE /\ Resolved(build.gates) /\ OwnerVerdict(report) = "pass"

HandoffInv ==
  HandoffTypeOK /\ SnapsInv /\ OrderInv /\ MatrixInv /\ FilesInv /\ StillInv /\ DeliveredIsWhole

-----------------------------------------------------------------------------
(* Owner facts. *)

BoundHash(hash) == \E n \in DOMAIN manifest : manifest[n].hash = hash

\* A hash that was read, projected or published is one of the manifest.
StatedInv ==
  /\ publisher # None => \A a \in Artifacts : publisher[a] # None => BoundHash(publisher[a])
  /\ \A fact \in stated : fact.hash # None => BoundHash(fact.hash)
  /\ projection # None =>
       \A c \in Criteria : projection[c] \in stated /\ projection[c].criterion = c
  /\ \A v \in verified :
       /\ [criterion |-> v.criterion, verdict |-> "pass", hash |-> v.hash] \in stated
       /\ BoundHash(v.hash)

\* One candidate for each request; a delivery under way works on it.
FlowInv ==
  /\ \A m, n \in DOMAIN candidates : candidates[m].op = candidates[n].op => m = n
  /\ \A d \in Operations \X Deliveries : flow[d] # None =>
       /\ flow[d].fact \in stated /\ flow[d].fact.verdict # "pass"
       /\ flow[d].candidate # None => flow[d].candidate \in CandidateOf(d[1])
       /\ flow[d].text # None => flow[d].candidate # None
  /\ \A op \in recorded : \E n \in CandidateOf(op) :
       candidates[n].fact \in stated /\ candidates[n].fact.verdict # "pass"

FactsInv == FactsTypeOK /\ StatedInv /\ FlowInv

-----------------------------------------------------------------------------
(* Evidence: one lemma for each operation that disturbs the invariant.   *)

\* A capture is a record of its three fields, which an update keeps.
LEMMA CameraType ==
  ASSUME EvidenceTypeOK, camera # None
  PROVE  /\ camera.artifact \in Artifacts /\ camera.version \in 1..page /\ camera.shot \in BOOLEAN
         /\ camera = [artifact |-> camera.artifact, version |-> camera.version, shot |-> camera.shot]
BY DEF EvidenceTypeOK

LEMMA LineType ==
  ASSUME EvidenceTypeOK, NEW n \in DOMAIN manifest
  PROVE  manifest[n].artifact \in Artifacts /\ manifest[n].hash \in Nat
<1>1. manifest[n] \in Binding
  BY DEF EvidenceTypeOK
<1> QED
  BY <1>1 DEF Binding, Hashes

LEMMA FillKeeps == ASSUME EvidenceInv, Fill PROVE EvidenceInv'
<1>1. page' \in Nat \ {0} /\ page' > page
  BY DEF Fill, EvidenceInv, EvidenceTypeOK
<1>2. EvidenceTypeOK'
  <2>1. camera = None \/ camera \in [artifact : Artifacts, version : 1..page', shot : BOOLEAN]
    BY <1>1 DEF EvidenceInv, EvidenceTypeOK
  <2> QED
    BY <1>1, <2>1 DEF Fill, EvidenceInv, EvidenceTypeOK
<1>3. CaptureInv'
  BY <1>1 DEF Fill, EvidenceInv, EvidenceTypeOK, CaptureInv, Hashes
<1>4. ToldInv' /\ BoundInv'
  BY DEF Fill, EvidenceInv, ToldInv, BoundInv
<1> QED
  BY <1>2, <1>3, <1>4 DEF EvidenceInv

LEMMA RefusedKeeps ==
  ASSUME EvidenceInv, NEW a \in Artifacts, CaptureRefused(a)
  PROVE  EvidenceInv'
<1>1. /\ told' = [told EXCEPT ![a] = "failed"]
      /\ UNCHANGED <<page, image, sidecar, camera, manifest, report>>
  BY DEF CaptureRefused
<1>2. EvidenceTypeOK' /\ CaptureInv' /\ BoundInv'
  BY <1>1 DEF EvidenceInv, EvidenceTypeOK, CaptureInv, BoundInv
<1>3. ToldInv'
  BY <1>1 DEF EvidenceInv, EvidenceTypeOK, ToldInv
<1> QED
  BY <1>2, <1>3 DEF EvidenceInv

LEMMA LoadsKeeps ==
  ASSUME EvidenceInv, NEW a \in Artifacts, NEW overwrite, CaptureLoads(a, overwrite)
  PROVE  EvidenceInv'
<1>1. /\ camera = None /\ camera' = [artifact |-> a, version |-> page, shot |-> FALSE]
      /\ UNCHANGED <<page, image, sidecar, told, manifest, report>>
  BY DEF CaptureLoads
<1>2. EvidenceTypeOK' /\ CaptureInv'
  BY <1>1 DEF EvidenceInv, EvidenceTypeOK, CaptureInv
<1>3. ToldInv' /\ BoundInv'
  BY <1>1 DEF EvidenceInv, ToldInv, BoundInv
<1> QED
  BY <1>2, <1>3 DEF EvidenceInv

LEMMA ShootsKeeps == ASSUME EvidenceInv, CaptureShoots PROVE EvidenceInv'
<1>1. /\ camera # None
      /\ image' = [image EXCEPT ![camera.artifact] = camera.version]
      /\ camera' = [camera EXCEPT !.shot = TRUE]
      /\ UNCHANGED <<page, sidecar, told, manifest, report>>
  BY DEF CaptureShoots
<1>2. /\ camera.artifact \in Artifacts /\ camera.version \in 1..page /\ page \in Nat
      /\ camera' = [artifact |-> camera.artifact, version |-> camera.version, shot |-> TRUE]
  BY <1>1, CameraType DEF EvidenceInv, EvidenceTypeOK
<1>3. EvidenceTypeOK'
  <2>1. image' \in [Artifacts -> Hashes \cup {None}]
    BY <1>1, <1>2 DEF EvidenceInv, EvidenceTypeOK, Hashes
  <2>2. camera' \in [artifact : Artifacts, version : 1..page, shot : BOOLEAN]
    BY <1>2
  <2> QED
    BY <1>1, <2>1, <2>2 DEF EvidenceInv, EvidenceTypeOK
<1>0. camera' # None
  <2>1. camera.version \in Nat
    BY <1>2
  <2>2. camera' \in [artifact : Artifacts, version : Nat, shot : BOOLEAN]
    BY <1>2, <2>1
  <2> QED
    BY <2>2, DeliveryAssumption
<1>4. CaptureInv'
  BY <1>1, <1>2, DeliveryAssumption DEF EvidenceInv, EvidenceTypeOK, CaptureInv, Hashes
<1>5. ToldInv' /\ BoundInv'
  <2>1. \A a \in Artifacts \ {camera.artifact} : image'[a] = image[a]
    BY <1>1, <1>2 DEF EvidenceInv, EvidenceTypeOK
  <2>2. BoundInv'
    BY <1>1 DEF EvidenceInv, BoundInv
  <2>3. \A a \in Artifacts : (camera' # None => camera'.artifact # a) => a # camera.artifact
    BY <1>0, <1>2
  <2>4. ToldInv'
    BY <1>1, <2>1, <2>3 DEF EvidenceInv, ToldInv
  <2> QED
    BY <2>2, <2>4
<1> QED
  BY <1>3, <1>4, <1>5 DEF EvidenceInv

LEMMA ProbedKeeps == ASSUME EvidenceInv, CaptureProbed PROVE EvidenceInv'
<1>1. /\ camera # None /\ camera.shot /\ camera' = None
      /\ sidecar' = [sidecar EXCEPT ![camera.artifact] = camera.version]
      /\ told' = [told EXCEPT ![camera.artifact] = "captured"]
      /\ UNCHANGED <<page, image, manifest, report>>
  BY DEF CaptureProbed, Answers
<1>2. /\ camera.artifact \in Artifacts /\ camera.version \in 1..page /\ page \in Nat
      /\ image[camera.artifact] = camera.version
  BY <1>1, CameraType DEF EvidenceInv, EvidenceTypeOK, CaptureInv
<1>3. EvidenceTypeOK' /\ CaptureInv'
  BY <1>1, <1>2, DeliveryAssumption DEF EvidenceInv, EvidenceTypeOK, CaptureInv, Hashes
<1>4. ToldInv'
  BY <1>1, <1>2, DeliveryAssumption DEF EvidenceInv, EvidenceTypeOK, ToldInv
<1>5. BoundInv'
  <2> SUFFICES ASSUME NEW n \in DOMAIN manifest, manifest[n].result = "captured"
               PROVE  /\ sidecar'[manifest[n].artifact] # None
                      /\ manifest[n].hash <= sidecar'[manifest[n].artifact]
    BY <1>1 DEF BoundInv
  <2>1. manifest[n].artifact \in Artifacts /\ manifest[n].hash \in Nat
    BY LineType DEF EvidenceInv
  <2>2. /\ sidecar[manifest[n].artifact] # None
        /\ manifest[n].hash <= sidecar[manifest[n].artifact]
    BY DEF EvidenceInv, BoundInv
  <2>3. sidecar[manifest[n].artifact] \in Nat /\ sidecar[manifest[n].artifact] <= image[manifest[n].artifact]
    BY <2>1, <2>2 DEF EvidenceInv, EvidenceTypeOK, CaptureInv, Hashes
  <2> QED
    BY <1>1, <1>2, <2>1, <2>2, <2>3, DeliveryAssumption DEF EvidenceInv, EvidenceTypeOK
<1> QED
  BY <1>3, <1>4, <1>5 DEF EvidenceInv

LEMMA FailsKeeps == ASSUME EvidenceInv, CaptureFails PROVE EvidenceInv'
<1>1. /\ camera # None /\ camera' = None
      /\ told' = [told EXCEPT ![camera.artifact] = "failed"]
      /\ UNCHANGED <<page, image, sidecar, manifest, report>>
  BY DEF CaptureFails, Answers
<1>2. camera.artifact \in Artifacts
  BY <1>1, CameraType DEF EvidenceInv
<1>3. EvidenceTypeOK' /\ CaptureInv' /\ BoundInv'
  BY <1>1, <1>2 DEF EvidenceInv, EvidenceTypeOK, CaptureInv, BoundInv
<1>4. ToldInv'
  BY <1>1, <1>2 DEF EvidenceInv, EvidenceTypeOK, ToldInv
<1> QED
  BY <1>3, <1>4 DEF EvidenceInv

LEMMA BindKeeps ==
  ASSUME EvidenceInv, NEW a \in Artifacts, NEW c \in Criteria, Bind(a, c)
  PROVE  EvidenceInv'
<1>1. PICK pause \in 0..1 :
        /\ camera = None /\ image[a] # None
        /\ manifest' = Append(manifest,
             [criterion |-> c, artifact |-> a, hash |-> image[a], result |-> told[a],
              at |-> pause + IF manifest = <<>> THEN 0 ELSE Last(manifest).at])
        /\ UNCHANGED <<page, image, sidecar, camera, told, report>>
  BY DEF Bind
<1> DEFINE at == pause + IF manifest = <<>> THEN 0 ELSE Last(manifest).at
           line == [criterion |-> c, artifact |-> a, hash |-> image[a], result |-> told[a], at |-> at]
<1>2. manifest \in Seq(Binding)
  BY DEF EvidenceInv, EvidenceTypeOK
<1>3. at \in Nat
  <2>1. CASE manifest = <<>>
    BY <2>1
  <2>2. CASE manifest # <<>>
    <3>1. manifest[Len(manifest)] \in Binding
      BY <1>2, <2>2
    <3> QED
      BY <2>2, <3>1 DEF Last, Binding
  <2> QED
    BY <2>1, <2>2
<1> HIDE DEF at
<1>4. line \in Binding
  BY <1>1, <1>3 DEF EvidenceInv, EvidenceTypeOK, Binding
<1>5. line.artifact = a /\ line.hash = image[a] /\ line.result = told[a]
  OBVIOUS
<1>6. manifest' = Append(manifest, line)
  BY <1>1 DEF at
<1> HIDE DEF line
<1>7. manifest' \in Seq(Binding)
  BY <1>2, <1>4, <1>6
<1>8. EvidenceTypeOK' /\ CaptureInv' /\ ToldInv'
  BY <1>1, <1>7 DEF EvidenceInv, EvidenceTypeOK, CaptureInv, ToldInv
<1>9. BoundInv'
  <2> SUFFICES ASSUME NEW n \in DOMAIN manifest', manifest'[n].result = "captured"
               PROVE  /\ sidecar[manifest'[n].artifact] # None
                      /\ manifest'[n].hash <= sidecar[manifest'[n].artifact]
    BY <1>1 DEF BoundInv
  <2>1. CASE n \in DOMAIN manifest
    <3>1. manifest'[n] = manifest[n]
      BY <1>2, <1>6, <2>1
    <3> QED
      BY <2>1, <3>1 DEF EvidenceInv, BoundInv
  <2>2. CASE n \notin DOMAIN manifest
    <3>1. manifest'[n] = line
      BY <1>2, <1>6, <2>2
    <3>2. sidecar[a] = image[a] /\ image[a] \in Nat
      BY <1>1, <1>5, <3>1 DEF EvidenceInv, EvidenceTypeOK, ToldInv, Hashes
    <3> QED
      BY <1>1, <1>5, <3>1, <3>2
  <2> QED
    BY <2>1, <2>2
<1> QED
  BY <1>8, <1>9 DEF EvidenceInv

LEMMA JudgeKeeps ==
  ASSUME EvidenceInv, NEW r \in Reports, Judge(r)
  PROVE  EvidenceInv'
BY DeliveryAssumption DEF Judge, EvidenceInv, EvidenceTypeOK, CaptureInv, ToldInv, BoundInv

LEMMA EvidenceNext ==
  ASSUME EvidenceInv, [DeliveryNext]_deliveryVars
  PROVE  EvidenceInv'
<1>1. CASE UNCHANGED evidenceVars
  BY <1>1 DEF evidenceVars, EvidenceInv, EvidenceTypeOK, CaptureInv, ToldInv, BoundInv
<1>2. CASE EvidenceStep
  BY <1>2, FillKeeps, RefusedKeeps, LoadsKeeps, ShootsKeeps, ProbedKeeps, FailsKeeps, BindKeeps,
     JudgeKeeps DEF EvidenceStep
<1> QED
  BY <1>1, <1>2 DEF DeliveryNext, PreviewStep, HandoffStep, OwnerStep, deliveryVars

LEMMA EvidenceInitially == DeliveryInit => EvidenceInv
BY DeliveryAssumption DEF DeliveryInit, EvidenceInit, EvidenceInv, EvidenceTypeOK, CaptureInv, ToldInv, BoundInv

LEMMA EvidenceHoldsAlways == DeliverySpec => []EvidenceInv
BY EvidenceInitially, EvidenceNext, PTL DEF DeliverySpec

\* Whatever captures fail, are retried or replace others, an artifact that is
\* what somebody bound as captured has a probe of the same page beside it.
THEOREM EvidencePairs == DeliverySpec => []EvidenceIsPaired
<1>1. EvidenceInv => EvidenceIsPaired
  <2> SUFFICES ASSUME EvidenceInv, NEW b \in Range(manifest), b.result = "captured",
                      b.hash = image[b.artifact], camera = None
               PROVE  sidecar[b.artifact] = image[b.artifact]
    BY DEF EvidenceIsPaired
  <2>1. PICK n \in DOMAIN manifest : b = manifest[n]
    BY DEF Range
  <2>2. b.artifact \in Artifacts /\ b.hash \in Nat
    BY <2>1, LineType DEF EvidenceInv
  <2>3. sidecar[b.artifact] # None /\ b.hash <= sidecar[b.artifact]
    BY <2>1 DEF EvidenceInv, BoundInv
  <2>4. sidecar[b.artifact] \in Nat /\ sidecar[b.artifact] <= image[b.artifact]
    BY <2>2, <2>3 DEF EvidenceInv, EvidenceTypeOK, CaptureInv, Hashes
  <2> QED
    BY <2>2, <2>3, <2>4
<1> QED
  BY <1>1, EvidenceHoldsAlways, PTL

-----------------------------------------------------------------------------
(* The delivery.                                                         *)

\* What a delivery reads of the run is the same while the run stands still.
LEMMA SameRun ==
  ASSUME UNCHANGED <<evidenceVars, previewVars>>
  PROVE  /\ PreviewHolds' <=> PreviewHolds
         /\ \A r \in Rounds : Confirmed(r)' <=> Confirmed(r)
         /\ EvidenceHolds(report)' <=> EvidenceHolds(report)
         /\ PointbackHolds(report)' <=> PointbackHolds(report)
         /\ OwnerVerdict(report)' = OwnerVerdict(report)
         /\ report' = report /\ page' = page
<1>1. UNCHANGED <<page, image, manifest, report, prototype, confirm, logged, registered>>
  BY DEF evidenceVars, previewVars
<1>2. RoundsSeen' = RoundsSeen /\ (PreviewOccurred' <=> PreviewOccurred)
  BY <1>1 DEF RoundsSeen, PreviewOccurred
<1>3. \A r : Confirmed(r)' <=> Confirmed(r)
  BY <1>1, <1>2 DEF Confirmed
<1>4. PreviewHolds' <=> PreviewHolds
  BY <1>1, <1>2, <1>3 DEF PreviewHolds
<1>5. \A c, a : Selected(c, a)' = Selected(c, a)
  BY <1>1 DEF Selected, Latest, Bindings
<1>6. EvidenceHolds(report)' <=> EvidenceHolds(report)
  BY <1>1, <1>5 DEF EvidenceHolds
<1> QED
  BY <1>1, <1>3, <1>4, <1>6 DEF PointbackHolds, OwnerVerdict

\* Nothing was delivered anew, and no screenshot became an older one.
LEMMA WholeFrame ==
  ASSUME HandoffTypeOK, DeliveredIsWhole, out' = out,
         build # None, build'.wrote = build.wrote,
         \A v \in Shown : snaps[v] # None => snaps'[v] # None /\ snaps'[v] \in Nat /\ snaps'[v] >= snaps[v]
  PROVE  DeliveredIsWhole'
<1>1. \A v \in Shown : snaps[v] # None => snaps[v] \in Nat
  BY DEF HandoffTypeOK, Hashes
<1>2. out.json # None => out.json.version \in Nat
  BY DEF HandoffTypeOK, Payloads, Hashes
<1>3. out'.json # None /\ out'.json.verdict = "Pass" =>
        \A v \in Shown : snaps'[v] # None /\ snaps'[v] >= out'.json.version
  BY <1>1, <1>2 DEF DeliveredIsWhole
<1> QED
  BY <1>3 DEF DeliveredIsWhole

\* What the files tell of is there when a build ends or none was begun.
LEMMA EndedKeeps ==
  ASSUME HandoffTypeOK', SnapsInv', OutUpTo(page)', DeliveredIsWhole', build' = None
  PROVE  HandoffInv'
BY DEF HandoffInv, OrderInv, MatrixInv, FilesInv, StillInv

LEMMA OutGrows ==
  ASSUME HandoffTypeOK, NEW v \in Nat, NEW w \in Nat, v <= w, OutUpTo(v)
  PROVE  OutUpTo(w)
BY DEF HandoffTypeOK, OutUpTo, Payloads, Archives, Hashes

LEMMA OutBelow ==
  ASSUME HandoffInv, page \in Nat
  PROVE  OutUpTo(page)
BY OutGrows DEF HandoffInv, HandoffTypeOK, FilesInv, Builds, Hashes

\* The run changes under a delivery.
LEMMA DisturbedKeeps ==
  ASSUME HandoffInv, page \in Nat, page' \in Nat, page' >= page,
         build' = Disturbed, UNCHANGED <<snaps, out>>, PreviewTypeOK'
  PROVE  HandoffInv'
<1>1. SnapsInv'
  BY DEF HandoffInv, HandoffTypeOK, SnapsInv, Hashes
<1>2. build' # None => build # None /\ build'.wrote = build.wrote
  BY DEF Disturbed, HandoffInv, HandoffTypeOK, Builds
<1>a. DeliveredIsWhole'
  BY <1>2 DEF HandoffInv, HandoffTypeOK, DeliveredIsWhole
<1>3. CASE build = None
  <2>1. build' = None
    BY <1>3 DEF Disturbed
  <2>2. HandoffTypeOK'
    BY <2>1 DEF HandoffInv, HandoffTypeOK
  <2>3. OutUpTo(page')
    BY OutBelow, OutGrows DEF HandoffInv
  <2>4. OutUpTo(page)'
    BY <2>3 DEF OutUpTo
  <2> QED
    BY <1>1, <1>a, <2>1, <2>2, <2>4, EndedKeeps
<1>4. CASE build # None
  <2>1. build \in Builds /\ build.bytes <= page /\ build.bytes \in Nat
    BY <1>4 DEF HandoffInv, HandoffTypeOK, Builds, Hashes
  <2>2. build' = [build EXCEPT !.still = FALSE]
    BY <1>4 DEF Disturbed
  <2>3. /\ build'.bytes = build.bytes /\ build'.todo = build.todo /\ build'.blocked = build.blocked
        /\ build'.matrix = build.matrix /\ build'.gates = build.gates
        /\ build'.confirmed = build.confirmed /\ build'.verdict = build.verdict
        /\ build'.wrote = build.wrote /\ build'.still = FALSE
    BY <2>1, <2>2 DEF Builds
  <2>4. build' \in Builds
    BY <2>1, <2>2 DEF Builds
  <2>5. HandoffTypeOK'
    BY <2>1, <2>3, <2>4 DEF HandoffInv, HandoffTypeOK
  <2>6. OrderInv' /\ MatrixInv' /\ StillInv'
    BY <1>4, <2>3 DEF HandoffInv, OrderInv, MatrixInv, StillInv
  <2>7. OutUpTo(build.bytes) /\ OutUpTo(page')
    BY <1>4, <2>1, OutBelow, OutGrows DEF HandoffInv, FilesInv
  <2>8. FilesInv'
    BY <1>4, <2>3, <2>7 DEF HandoffInv, FilesInv, OutUpTo, Payload
  <2> QED
    BY <1>1, <1>a, <2>5, <2>6, <2>8 DEF HandoffInv
<1> QED
  BY <1>3, <1>4

LEMMA BeginKeeps ==
  ASSUME HandoffInv, page \in Nat, NEW round \in Rounds, Begin(round), UNCHANGED evidenceVars
  PROVE  HandoffInv'
<1> DEFINE fires == {g \in Conditional : \/ g = "preview" /\ PreviewOccurred
                                         \/ g = "evidence" /\ manifest # <<>>}
<1>1. /\ build = None
      /\ build' = [round |-> round, bytes |-> page, todo |-> Viewports, blocked |-> FALSE,
                   matrix |-> TRUE, fires |-> fires, gates |-> None, confirmed |-> None,
                   verdict |-> None, wrote |-> {}, still |-> TRUE]
      /\ UNCHANGED <<previewVars, snaps, out, page>>
  BY DEF Begin, evidenceVars
<1>2. fires \subseteq Conditional
  OBVIOUS
<1> HIDE DEF fires
<1>3. Viewports \in Seq(Shown)
  BY HandoffAssumption DEF Shown
<1>4. build' \in Builds /\ build'.bytes = page'
  BY <1>1, <1>2, <1>3 DEF Builds, Hashes
<1>5. HandoffTypeOK' /\ SnapsInv'
  BY <1>1, <1>4 DEF HandoffInv, HandoffTypeOK, SnapsInv, PreviewTypeOK, previewVars
<1>6. None \notin {"Pass", TRUE}
  BY DeliveryAssumption DEF Verdicts
<1>7. OrderInv' /\ MatrixInv' /\ StillInv'
  BY <1>1, <1>6 DEF OrderInv, MatrixInv, StillInv, Shown
<1>8. FilesInv'
  BY <1>1, OutBelow DEF FilesInv, OutUpTo
<1>9. DeliveredIsWhole'
  BY <1>1 DEF HandoffInv, DeliveredIsWhole
<1> QED
  BY <1>5, <1>7, <1>8, <1>9 DEF HandoffInv

LEMMA CaptureKeeps ==
  ASSUME HandoffInv, page \in Nat, NEW shot \in BOOLEAN, NEW measured \in BOOLEAN,
         CaptureViewport(shot, measured), UNCHANGED evidenceVars
  PROVE  HandoffInv'
<1>1. /\ build # None /\ build.todo # <<>> /\ (measured => shot)
      /\ snaps' = IF shot THEN [snaps EXCEPT ![Head(build.todo)] = page] ELSE snaps
      /\ build' = [build EXCEPT !.todo = Tail(build.todo), !.blocked = build.blocked \/ ~measured]
      /\ UNCHANGED <<previewVars, out, page>>
  BY DEF CaptureViewport, evidenceVars
<1>2. build \in Builds /\ build.bytes \in Nat /\ build.bytes <= page
  BY <1>1 DEF HandoffInv, HandoffTypeOK, Builds, Hashes
<1>3. build.todo \in Seq(Shown) /\ Head(build.todo) \in Shown /\ Tail(build.todo) \in Seq(Shown)
  <2>1. build.todo \in Seq(Shown)
    BY <1>2 DEF Builds
  <2> QED
    BY <1>1, <2>1
<1>4. build' \in Builds
  BY <1>1, <1>2, <1>3 DEF Builds
<1>5. /\ build'.bytes = build.bytes /\ build'.todo = Tail(build.todo)
      /\ build'.blocked = (build.blocked \/ ~measured)
      /\ build'.matrix = build.matrix /\ build'.gates = build.gates
      /\ build'.confirmed = build.confirmed /\ build'.verdict = build.verdict
      /\ build'.wrote = build.wrote /\ build'.still = build.still /\ build'.round = build.round
  BY <1>1, <1>2 DEF Builds
<1>6. snaps' \in [Shown -> Hashes \cup {None}]
  BY <1>1, <1>3 DEF HandoffInv, HandoffTypeOK, Hashes
<1>7. \A v \in Shown : snaps'[v] = snaps[v] \/ snaps'[v] = page
  BY <1>1, <1>3 DEF HandoffInv, HandoffTypeOK
<1>8. HandoffTypeOK' /\ SnapsInv'
  BY <1>1, <1>2, <1>4, <1>5, <1>6, <1>7 DEF HandoffInv, HandoffTypeOK, SnapsInv, PreviewTypeOK, previewVars
<1>9. build.gates = None /\ build.verdict = None /\ build.confirmed = None /\ build.wrote = {}
  BY <1>1 DEF HandoffInv, OrderInv
<1>10. OrderInv'
  BY <1>5, <1>9 DEF OrderInv
<1>11. MatrixInv'
  <2>1. build'.verdict # "Pass"
    BY <1>5, <1>9, DeliveryAssumption DEF Verdicts
  <2> SUFFICES ASSUME ~build'.blocked
               PROVE  /\ build'.matrix
                      /\ \A v \in Shown \ Range(build'.todo) :
                           snaps'[v] # None /\ snaps'[v] >= build'.bytes
    BY <2>1 DEF MatrixInv
  <2>2. ~build.blocked /\ shot
    BY <1>1, <1>5, <1>2 DEF Builds
  <2>3. build.matrix /\ \A v \in Shown \ Range(build.todo) : snaps[v] # None /\ snaps[v] >= build.bytes
    BY <1>1, <2>2 DEF HandoffInv, MatrixInv
  <2>4. \A v \in Range(build.todo) : v = Head(build.todo) \/ v \in Range(Tail(build.todo))
    <3> SUFFICES ASSUME NEW n \in DOMAIN build.todo, n # 1
                 PROVE  build.todo[n] \in Range(Tail(build.todo))
      BY <1>1, <1>3 DEF Range
    <3>1. n - 1 \in DOMAIN Tail(build.todo) /\ Tail(build.todo)[n - 1] = build.todo[n]
      BY <1>1, <1>3
    <3> QED
      BY <3>1 DEF Range
  <2>5. snaps'[Head(build.todo)] = page
    BY <1>1, <1>3, <2>2 DEF HandoffInv, HandoffTypeOK
  <2>6. \A v \in Shown : snaps[v] # None => snaps[v] \in Nat
    BY DEF HandoffInv, HandoffTypeOK, Hashes
  <2> QED
    BY <1>2, <1>5, <1>7, <2>3, <2>4, <2>5, DeliveryAssumption
<1>12. StillInv'
  BY <1>1, <1>5, <1>9, DeliveryAssumption DEF Verdicts, HandoffInv, StillInv
<1>13. FilesInv'
  BY <1>1, <1>2, <1>4, <1>5, <1>9, OutBelow DEF HandoffInv, FilesInv, OutUpTo
<1>14. DeliveredIsWhole'
  <2>1. \A v \in Shown : snaps[v] # None => snaps'[v] # None /\ snaps'[v] \in Nat /\ snaps'[v] >= snaps[v]
    BY <1>7, DeliveryAssumption DEF HandoffInv, HandoffTypeOK, SnapsInv, Hashes
  <2> QED
    BY <1>1, <1>5, <2>1, WholeFrame DEF HandoffInv
<1> QED
  BY <1>8, <1>10, <1>11, <1>12, <1>13, <1>14 DEF HandoffInv

\* A step of the build that reads, and writes no file.
LEMMA ReadKeeps ==
  ASSUME HandoffInv, page \in Nat, build # None, build' \in Builds,
         UNCHANGED <<evidenceVars, previewVars, snaps, out>>,
         build'.bytes = build.bytes, build'.round = build.round, build'.still = build.still,
         build'.wrote = build.wrote, build.wrote = {},
         OrderInv', MatrixInv', StillInv'
  PROVE  HandoffInv'
<1>1. UNCHANGED <<page, snaps, out>> /\ PreviewTypeOK'
  BY DEF evidenceVars, previewVars, HandoffInv, HandoffTypeOK, PreviewTypeOK
<1>2. HandoffTypeOK' /\ SnapsInv'
  BY <1>1 DEF HandoffInv, HandoffTypeOK, SnapsInv
<1>3. FilesInv'
  BY <1>1, OutBelow DEF HandoffInv, FilesInv, OutUpTo
<1>4. DeliveredIsWhole'
  BY <1>1 DEF HandoffInv, DeliveredIsWhole
<1> QED
  BY <1>2, <1>3, <1>4 DEF HandoffInv

LEMMA NoCapturesKeeps ==
  ASSUME HandoffInv, page \in Nat, NoCaptures, UNCHANGED evidenceVars
  PROVE  HandoffInv'
<1>1. /\ build # None /\ build.todo # <<>>
      /\ build' = [build EXCEPT !.todo = <<>>, !.blocked = TRUE, !.matrix = FALSE]
      /\ UNCHANGED <<previewVars, snaps, out>>
  BY HandoffAssumption DEF NoCaptures
<1>2. build \in Builds
  BY <1>1 DEF HandoffInv, HandoffTypeOK
<1>3. /\ build'.bytes = build.bytes /\ build'.todo = <<>> /\ build'.blocked = TRUE
      /\ build'.gates = build.gates /\ build'.round = build.round
      /\ build'.confirmed = build.confirmed /\ build'.verdict = build.verdict
      /\ build'.wrote = build.wrote /\ build'.still = build.still
  BY <1>1, <1>2 DEF Builds
<1>4. build' \in Builds
  <2>1. <<>> \in Seq(Shown)
    OBVIOUS
  <2> QED
    BY <1>1, <1>2, <2>1 DEF Builds
<1>5. /\ build.gates = None /\ build.confirmed = None /\ build.verdict = None /\ build.wrote = {}
      /\ build.verdict # "Pass"
  BY <1>1, DeliveryAssumption DEF HandoffInv, OrderInv, Verdicts
<1>6. OrderInv' /\ MatrixInv'
  BY <1>3, <1>5 DEF OrderInv, MatrixInv
<1>7. StillInv'
  BY <1>1, <1>3, <1>5, DeliveryAssumption, SameRun DEF HandoffInv, StillInv
<1> QED
  BY <1>1, <1>3, <1>4, <1>5, <1>6, <1>7, ReadKeeps

\* What the gates found, whether or not they could fire.
LEMMA GatesTell ==
  ASSUME report # None, NEW others \in BOOLEAN, NEW fires \in SUBSET Conditional,
         Resolved(Conditioned(GateStatuses(others), fires))
  PROVE  PointbackHolds(report) /\ PreviewHolds /\ EvidenceHolds(report)
<1> DEFINE holds == [report |-> PointbackHolds(report), preview |-> PreviewHolds,
                     evidence |-> EvidenceHolds(report), others |-> others]
           found == [g \in Gates |-> IF holds[g] THEN "pass" ELSE "fail"]
<1>1. GateStatuses(others) = found
  BY DEF GateStatuses
<1>2. ASSUME NEW g \in Gates PROVE holds[g]
  <2>1. Conditioned(found, fires)[g] \in {"pass", "n/a"}
    BY <1>1, <1>2 DEF Resolved
  <2>2. found[g] = IF holds[g] THEN "pass" ELSE "fail"
    BY <1>2
  <2>3. Conditioned(found, fires)[g] = IF g \in Conditional \ fires /\ found[g] # "fail" THEN "n/a" ELSE found[g]
    BY <1>2 DEF Conditioned
  <2> HIDE DEF found, holds
  <2> QED
    BY <2>1, <2>2, <2>3
<1>3. holds["report"] /\ holds["preview"] /\ holds["evidence"]
  BY <1>2 DEF Gates
<1> QED
  BY <1>3

LEMMA GatesType ==
  ASSUME NEW others \in BOOLEAN, NEW fires \in SUBSET Conditional
  PROVE  /\ GateStatuses(others) \in [Gates -> {"pass", "fail", "n/a", "pending"}]
         /\ Conditioned(GateStatuses(others), fires) \in [Gates -> {"pass", "fail", "n/a", "pending"}]
         /\ report = None => ~Resolved(GateStatuses(others))
<1>1. GateStatuses(others) \in [Gates -> {"pass", "fail", "n/a", "pending"}]
  BY DEF GateStatuses
<1>2. Conditioned(GateStatuses(others), fires) \in [Gates -> {"pass", "fail", "n/a", "pending"}]
  BY <1>1 DEF Conditioned
<1>3. report = None => ~Resolved(GateStatuses(others))
  BY DEF GateStatuses, Resolved, Gates
<1> QED
  BY <1>1, <1>2, <1>3

LEMMA ValidateKeeps ==
  ASSUME HandoffInv, page \in Nat, NEW others \in BOOLEAN, ValidateGates(others), UNCHANGED evidenceVars
  PROVE  HandoffInv'
<1> DEFINE found == IF report = None THEN GateStatuses(others)
                    ELSE Conditioned(GateStatuses(others), build.fires)
<1>1. /\ build # None /\ build.todo = <<>> /\ build.gates = None
      /\ build' = [build EXCEPT !.gates = found]
      /\ UNCHANGED <<previewVars, snaps, out>>
  BY DEF ValidateGates
<1>2. build \in Builds /\ build.fires \in SUBSET Conditional
  BY <1>1 DEF HandoffInv, HandoffTypeOK, Builds
<1>3. found \in [Gates -> {"pass", "fail", "n/a", "pending"}]
  BY <1>2, GatesType
<1>4. Resolved(found) => report # None /\ PointbackHolds(report) /\ PreviewHolds /\ EvidenceHolds(report)
  BY <1>2, GatesType, GatesTell
<1> HIDE DEF found
<1>5. build' \in Builds
  BY <1>1, <1>2, <1>3 DEF Builds
<1>6. /\ build'.bytes = build.bytes /\ build'.todo = <<>> /\ build'.blocked = build.blocked
      /\ build'.matrix = build.matrix /\ build'.gates = found /\ build'.round = build.round
      /\ build'.confirmed = build.confirmed /\ build'.verdict = build.verdict
      /\ build'.wrote = build.wrote /\ build'.still = build.still
  BY <1>1, <1>2 DEF Builds
<1>7. /\ build.confirmed = None /\ build.verdict = None /\ build.wrote = {}
      /\ build.verdict # "Pass" /\ build.confirmed # TRUE
  BY <1>1, DeliveryAssumption DEF HandoffInv, OrderInv, Verdicts
<1>8. OrderInv' /\ MatrixInv'
  BY <1>1, <1>6, <1>7 DEF HandoffInv, OrderInv, MatrixInv
<1>9. StillInv'
  BY <1>1, <1>4, <1>6, <1>7, SameRun DEF HandoffInv, StillInv
<1> QED
  BY <1>1, <1>5, <1>6, <1>7, <1>8, <1>9, ReadKeeps

LEMMA ReadConfirmationKeeps ==
  ASSUME HandoffInv, page \in Nat, ReadConfirmation, UNCHANGED evidenceVars
  PROVE  HandoffInv'
<1>1. /\ build # None /\ build.gates # None /\ build.confirmed = None
      /\ build' = [build EXCEPT !.confirmed = Confirmed(build.round)]
      /\ UNCHANGED <<previewVars, snaps, out>>
  BY DEF ReadConfirmation
<1>2. build \in Builds /\ build.round \in Rounds
  BY <1>1 DEF HandoffInv, HandoffTypeOK, Builds
<1>3. Confirmed(build.round) \in BOOLEAN
  <2>1. \A r \in Rounds : confirm[r] # None => confirm[r].valid \in BOOLEAN
    BY DEF HandoffInv, HandoffTypeOK, PreviewTypeOK
  <2> QED
    BY <1>2, <2>1 DEF Confirmed
<1>4. build' \in Builds
  BY <1>1, <1>2, <1>3 DEF Builds
<1>5. /\ build'.bytes = build.bytes /\ build'.todo = build.todo /\ build'.blocked = build.blocked
      /\ build'.matrix = build.matrix /\ build'.gates = build.gates /\ build'.round = build.round
      /\ build'.confirmed = Confirmed(build.round) /\ build'.verdict = build.verdict
      /\ build'.wrote = build.wrote /\ build'.still = build.still
  BY <1>1, <1>2 DEF Builds
<1>6. build.verdict = None /\ build.wrote = {} /\ build.verdict # "Pass"
  BY <1>1, DeliveryAssumption DEF HandoffInv, OrderInv, Verdicts
<1>7. OrderInv' /\ MatrixInv'
  BY <1>1, <1>5, <1>6 DEF HandoffInv, OrderInv, MatrixInv
<1>8. StillInv'
  BY <1>1, <1>2, <1>5, <1>6, SameRun DEF HandoffInv, StillInv
<1> QED
  BY <1>1, <1>4, <1>5, <1>6, <1>7, <1>8, ReadKeeps

LEMMA ReadVerdictKeeps ==
  ASSUME HandoffInv, page \in Nat, ReadVerdict, UNCHANGED evidenceVars
  PROVE  HandoffInv'
<1> DEFINE said == IF ~build.confirmed THEN "Pending"
                   ELSE IF OwnerVerdict(report) = "pass" /\ MatrixComplete(build) /\ Resolved(build.gates)
                        THEN "Pass" ELSE "Recirculate"
<1>1. /\ build # None /\ build.confirmed # None /\ build.verdict = None
      /\ build' = [build EXCEPT !.verdict = said]
      /\ UNCHANGED <<previewVars, snaps, out>>
  BY DEF ReadVerdict
<1>2. build \in Builds /\ build.confirmed \in BOOLEAN /\ build.round \in Rounds
  BY <1>1 DEF HandoffInv, HandoffTypeOK, Builds
<1>3. said \in Verdicts
  BY DEF Verdicts
<1>4. said = "Pass" => /\ build.confirmed = TRUE /\ Resolved(build.gates) /\ ~build.blocked
                       /\ OwnerVerdict(report) = "pass"
  BY <1>2 DEF MatrixComplete
<1> HIDE DEF said
<1>5. build' \in Builds
  BY <1>1, <1>2, <1>3 DEF Builds
<1>6. /\ build'.bytes = build.bytes /\ build'.todo = build.todo /\ build'.blocked = build.blocked
      /\ build'.matrix = build.matrix /\ build'.gates = build.gates /\ build'.round = build.round
      /\ build'.confirmed = build.confirmed /\ build'.verdict = said
      /\ build'.wrote = build.wrote /\ build'.still = build.still
  BY <1>1, <1>2 DEF Builds
<1>7. build.wrote = {}
  BY <1>1 DEF HandoffInv, OrderInv
<1>8. OrderInv' /\ MatrixInv'
  BY <1>1, <1>4, <1>6, <1>7 DEF HandoffInv, OrderInv, MatrixInv
<1>9. StillInv'
  BY <1>1, <1>2, <1>4, <1>6, SameRun DEF HandoffInv, StillInv
<1> QED
  BY <1>1, <1>5, <1>6, <1>7, <1>8, <1>9, ReadKeeps

\* Writing one of the first three files, after those in the set after.
Written(file, after, content) ==
  /\ build \in Builds /\ build.bytes \in Nat /\ build.bytes <= page /\ build.wrote = after
  /\ build # None /\ build.verdict \in Verdicts /\ Payload \in Payloads
  /\ build' \in Builds /\ build'.bytes = build.bytes /\ build'.verdict = build.verdict
  /\ build'.wrote = after \cup {file}
  /\ out' = [out EXCEPT ![file] = content, !.torn = out.torn \ {file}]
  /\ UNCHANGED <<page, snaps>>
  /\ PreviewTypeOK' /\ SnapsInv' /\ OrderInv' /\ MatrixInv' /\ StillInv'
  /\ build.verdict = "Pass" =>
       /\ build.matrix
       /\ \A v \in Shown : snaps[v] # None /\ snaps[v] \in Nat /\ snaps[v] >= build.bytes

LEMMA WriteFrame ==
  ASSUME HandoffInv, page \in Nat, UNCHANGED evidenceVars,
         NEW file, NEW after, NEW content, Write(file, after, content),
         after \cup {file} \in {{"json"}, {"json", "copy"}, {"json", "copy", "zip"}}
  PROVE  Written(file, after, content)
<1>a. build # None /\ build.verdict # None
  BY DEF Write, Put
<1>1. /\ build # None /\ build.verdict # None /\ build.wrote = after
      /\ out' = [out EXCEPT ![file] = content, !.torn = out.torn \ {file}]
      /\ build' = [build EXCEPT !.wrote = build.wrote \cup {file}]
      /\ UNCHANGED <<previewVars, snaps, page>>
  BY DEF Write, Put, evidenceVars
<1>2. build \in Builds /\ build.bytes \in Nat /\ build.bytes <= page /\ build.verdict \in Verdicts
      /\ build.round \in Rounds
  BY <1>1 DEF HandoffInv, HandoffTypeOK, Builds, Hashes
<1>3. build' \in Builds
  BY <1>1, <1>2 DEF Builds
<1>4. /\ build'.bytes = build.bytes /\ build'.todo = build.todo /\ build'.blocked = build.blocked
      /\ build'.matrix = build.matrix /\ build'.gates = build.gates /\ build'.round = build.round
      /\ build'.confirmed = build.confirmed /\ build'.verdict = build.verdict
      /\ build'.wrote = after \cup {file} /\ build'.still = build.still
  BY <1>1, <1>2 DEF Builds
<1>5. PreviewTypeOK' /\ SnapsInv'
  BY <1>1 DEF HandoffInv, HandoffTypeOK, PreviewTypeOK, SnapsInv, previewVars
<1>6. OrderInv' /\ MatrixInv'
  BY <1>1, <1>4 DEF HandoffInv, OrderInv, MatrixInv
<1>7. StillInv'
  BY <1>1, <1>2, <1>4, SameRun DEF HandoffInv, StillInv
<1>8. Payload \in Payloads
  BY <1>2 DEF Payload, Payloads, Hashes
<1>9. build.verdict = "Pass" =>
        /\ build.matrix
        /\ \A v \in Shown : snaps[v] # None /\ snaps[v] \in Nat /\ snaps[v] >= build.bytes
  <2>1. build.todo = <<>>
    BY <1>a DEF HandoffInv, OrderInv
  <2>2. Range(build.todo) = {}
    BY <2>1 DEF Range
  <2> QED
    BY <1>a, <2>2 DEF HandoffInv, MatrixInv, HandoffTypeOK, Hashes
<1> QED
  BY <1>1, <1>2, <1>3, <1>4, <1>5, <1>6, <1>7, <1>8, <1>9 DEF Written

LEMMA WriteJsonKeeps ==
  ASSUME HandoffInv, page \in Nat, WriteJson, UNCHANGED evidenceVars
  PROVE  HandoffInv'
<1>1. /\ build \in Builds /\ build.bytes \in Nat /\ build.bytes <= page /\ build.wrote = {}
      /\ build # None /\ build.verdict \in Verdicts /\ Payload \in Payloads
      /\ build' \in Builds /\ build'.bytes = build.bytes /\ build'.verdict = build.verdict
      /\ build'.wrote = {"json"}
      /\ out' = [out EXCEPT !["json"] = Payload, !.torn = out.torn \ {"json"}]
      /\ UNCHANGED <<page, snaps>>
      /\ PreviewTypeOK' /\ SnapsInv' /\ OrderInv' /\ MatrixInv' /\ StillInv'
      /\ build.verdict = "Pass" =>
           \A v \in Shown : snaps[v] # None /\ snaps[v] \in Nat /\ snaps[v] >= build.bytes
  <2>1. Write("json", {}, Payload)
    BY DEF WriteJson
  <2>2. {} \cup {"json"} = {"json"}
    OBVIOUS
  <2>3. Written("json", {}, Payload)
    BY <2>1, <2>2, WriteFrame
  <2> QED
    BY <2>2, <2>3 DEF Written
<1>2. /\ out'.json = Payload /\ out'.copy = out.copy /\ out'.zip = out.zip /\ out'.index = out.index
      /\ out'.torn = out.torn \ {"json"}
  BY <1>1 DEF HandoffInv, HandoffTypeOK
<1>b. out' \in [json : Payloads \cup {None}, copy : Hashes \cup {None},
              zip : Archives \cup {None}, index : Payloads \cup {None},
              torn : SUBSET {"json", "copy", "zip", "index"}]
  BY <1>1 DEF HandoffInv, HandoffTypeOK
<1>3. HandoffTypeOK'
  BY <1>1, <1>b, <1>2 DEF HandoffInv, HandoffTypeOK
<1>4. Payload.version = build.bytes /\ Payload.verdict = build.verdict /\ Payload' = Payload
  BY <1>1 DEF Payload
<1>5. OutUpTo(build.bytes)
  BY <1>1 DEF HandoffInv, FilesInv
<1>6. FilesInv'
  <2>1. /\ build.bytes \in Nat /\ build.bytes <= page /\ page' = page
        /\ build'.bytes = build.bytes /\ build'.wrote = {"json"}
    BY <1>1
  <2>2. OutUpTo(build.bytes)'
    BY <1>2, <1>4, <1>5, <2>1 DEF OutUpTo
  <2>3. OutUpTo(page)'
    BY <1>2, <1>4, <2>1, OutBelow DEF OutUpTo
  <2> QED
    BY <1>2, <1>4, <2>1, <2>2, <2>3 DEF FilesInv
<1>7. DeliveredIsWhole'
  <2>1. Payload # None
    BY <1>1, DeliveryAssumption
  <2>2. out.index # None => out.index.version <= build.bytes
    BY <1>5 DEF OutUpTo
  <2> QED
    BY <1>1, <1>2, <1>4, <2>1, <2>2 DEF HandoffInv, DeliveredIsWhole
<1> QED
  BY <1>1, <1>3, <1>6, <1>7 DEF HandoffInv

LEMMA WriteCopyKeeps ==
  ASSUME HandoffInv, page \in Nat, WriteCopy, UNCHANGED evidenceVars
  PROVE  HandoffInv'
<1>1. /\ build \in Builds /\ build.bytes \in Nat /\ build.bytes <= page /\ build.wrote = {"json"}
      /\ build # None
      /\ build' \in Builds /\ build'.bytes = build.bytes /\ build'.verdict = build.verdict
      /\ build'.wrote = {"json", "copy"}
      /\ out' = [out EXCEPT !["copy"] = build.bytes, !.torn = out.torn \ {"copy"}]
      /\ UNCHANGED <<page, snaps>>
      /\ PreviewTypeOK' /\ SnapsInv' /\ OrderInv' /\ MatrixInv' /\ StillInv'
  <2>1. Write("copy", {"json"}, build.bytes)
    BY DEF WriteCopy
  <2>2. {"json"} \cup {"copy"} = {"json", "copy"}
    OBVIOUS
  <2>3. Written("copy", {"json"}, build.bytes)
    BY <2>1, <2>2, WriteFrame
  <2> QED
    BY <2>2, <2>3 DEF Written
<1>2. /\ out'.json = out.json /\ out'.copy = build.bytes /\ out'.zip = out.zip /\ out'.index = out.index
      /\ out'.torn = out.torn \ {"copy"}
  BY <1>1 DEF HandoffInv, HandoffTypeOK, Hashes
<1>b. out' \in [json : Payloads \cup {None}, copy : Hashes \cup {None},
              zip : Archives \cup {None}, index : Payloads \cup {None},
              torn : SUBSET {"json", "copy", "zip", "index"}]
  BY <1>1 DEF HandoffInv, HandoffTypeOK, Hashes
<1>3. HandoffTypeOK'
  BY <1>1, <1>b, <1>2 DEF HandoffInv, HandoffTypeOK
<1>4. Payload' = Payload /\ out.json = Payload
  BY <1>1 DEF HandoffInv, FilesInv, Payload
<1>5. OutUpTo(build.bytes)
  BY <1>1 DEF HandoffInv, FilesInv
<1>6. FilesInv'
  <2>1. /\ build.bytes \in Nat /\ build.bytes <= page /\ page' = page
        /\ build'.bytes = build.bytes /\ build'.wrote = {"json", "copy"}
    BY <1>1
  <2>2. OutUpTo(build.bytes)'
    BY <1>2, <1>4, <1>5, <2>1 DEF OutUpTo
  <2>3. OutUpTo(page)'
    BY <1>2, <1>4, <2>1, OutBelow DEF OutUpTo
  <2> QED
    BY <1>2, <1>4, <2>1, <2>2, <2>3 DEF FilesInv
<1>7. DeliveredIsWhole'
  <2>1. build.bytes # None
    BY <1>1, DeliveryAssumption
  <2>2. out.index # None => out.index.version <= build.bytes
    BY <1>5 DEF OutUpTo
  <2> QED
    BY <1>1, <1>2, <2>1, <2>2 DEF HandoffInv, DeliveredIsWhole
<1> QED
  BY <1>1, <1>3, <1>6, <1>7 DEF HandoffInv

LEMMA WriteZipKeeps ==
  ASSUME HandoffInv, page \in Nat, WriteZip, UNCHANGED evidenceVars
  PROVE  HandoffInv'
<1> DEFINE shots == [v \in Shown |-> IF build.matrix THEN snaps[v] ELSE None]
           archive == [payload |-> Payload, shots |-> shots]
<1>1. /\ build \in Builds /\ build.bytes \in Nat /\ build.bytes <= page /\ build.wrote = {"json", "copy"}
      /\ build # None /\ build.verdict \in Verdicts /\ Payload \in Payloads
      /\ build' \in Builds /\ build'.bytes = build.bytes /\ build'.verdict = build.verdict
      /\ build'.wrote = {"json", "copy", "zip"}
      /\ out' = [out EXCEPT !["zip"] = archive, !.torn = out.torn \ {"zip"}]
      /\ UNCHANGED <<page, snaps>>
      /\ PreviewTypeOK' /\ SnapsInv' /\ OrderInv' /\ MatrixInv' /\ StillInv'
      /\ build.verdict = "Pass" =>
           /\ build.matrix
           /\ \A v \in Shown : snaps[v] # None /\ snaps[v] \in Nat /\ snaps[v] >= build.bytes
  <2>1. Write("zip", {"json", "copy"}, archive)
    BY DEF WriteZip, Bundle
  <2> HIDE DEF archive
  <2>2. {"json", "copy"} \cup {"zip"} = {"json", "copy", "zip"}
    OBVIOUS
  <2>3. Written("zip", {"json", "copy"}, archive)
    BY <2>1, <2>2, WriteFrame
  <2> QED
    BY <2>2, <2>3 DEF Written
<1>2. shots \in [Shown -> Hashes \cup {None}]
  BY DEF HandoffInv, HandoffTypeOK
<1>3. build.verdict = "Pass" => \A v \in Shown : shots[v] # None /\ shots[v] >= build.bytes
  BY <1>1
<1> HIDE DEF shots
<1>4. archive \in Archives /\ archive.payload = Payload /\ archive.shots = shots
  BY <1>1, <1>2 DEF Archives
<1> HIDE DEF archive
<1>5. /\ out'.json = out.json /\ out'.copy = out.copy /\ out'.zip = archive /\ out'.index = out.index
      /\ out'.torn = out.torn \ {"zip"}
  BY <1>1, <1>4 DEF HandoffInv, HandoffTypeOK
<1>b. out' \in [json : Payloads \cup {None}, copy : Hashes \cup {None},
              zip : Archives \cup {None}, index : Payloads \cup {None},
              torn : SUBSET {"json", "copy", "zip", "index"}]
  BY <1>1, <1>4 DEF HandoffInv, HandoffTypeOK
<1>6. HandoffTypeOK'
  BY <1>1, <1>b, <1>5 DEF HandoffInv, HandoffTypeOK
<1>7. /\ Payload' = Payload /\ out.json = Payload /\ out.copy = build.bytes
      /\ Payload.version = build.bytes /\ Payload.verdict = build.verdict /\ archive # None
  BY <1>1, <1>4, DeliveryAssumption DEF HandoffInv, FilesInv, Payload
<1>8. OutUpTo(build.bytes)
  BY <1>1 DEF HandoffInv, FilesInv
<1>9. FilesInv'
  <2>1. /\ build.bytes \in Nat /\ build.bytes <= page /\ page' = page
        /\ build'.bytes = build.bytes /\ build'.wrote = {"json", "copy", "zip"}
    BY <1>1
  <2>2. OutUpTo(build.bytes)'
    BY <1>4, <1>5, <1>7, <1>8, <2>1 DEF OutUpTo
  <2>3. OutUpTo(page)'
    BY <1>4, <1>5, <1>7, <2>1, OutBelow DEF OutUpTo
  <2> QED
    BY <1>4, <1>5, <1>7, <2>1, <2>2, <2>3 DEF FilesInv
<1>10. DeliveredIsWhole'
  <2>1. out.index # None => out.index.version <= build.bytes
    BY <1>8 DEF OutUpTo
  <2>2. /\ build # None /\ build.bytes \in Nat /\ build.wrote = {"json", "copy"}
        /\ build'.wrote = {"json", "copy", "zip"} /\ snaps' = snaps
    BY <1>1
  <2> QED
    BY <1>3, <1>4, <1>5, <1>7, <2>1, <2>2 DEF HandoffInv, DeliveredIsWhole
<1> QED
  BY <1>1, <1>6, <1>9, <1>10 DEF HandoffInv

LEMMA WriteIndexKeeps ==
  ASSUME HandoffInv, page \in Nat, WriteIndex, UNCHANGED evidenceVars
  PROVE  HandoffInv'
<1>1. /\ build # None /\ build.wrote = {"json", "copy", "zip"} /\ build' = None
      /\ out' = [out EXCEPT !["index"] = Payload, !.torn = out.torn \ {"index"}]
      /\ UNCHANGED <<previewVars, snaps, page>>
  BY DEF WriteIndex, Put, evidenceVars
<1>2. /\ build \in Builds /\ build.bytes \in Nat /\ build.bytes <= page /\ build.verdict \in Verdicts
      /\ Payload \in Payloads /\ Payload.version = build.bytes
  <2>1. build \in Builds /\ build.bytes \in Nat /\ build.bytes <= page /\ build.verdict \in Verdicts \cup {None}
    BY <1>1 DEF HandoffInv, HandoffTypeOK, Builds, Hashes
  <2>2. build.verdict # None
    BY <1>1 DEF HandoffInv, OrderInv
  <2> QED
    BY <2>1, <2>2 DEF Payload, Payloads, Hashes
<1>3. /\ out'.json = out.json /\ out'.copy = out.copy /\ out'.zip = out.zip /\ out'.index = Payload
      /\ out'.torn = out.torn \ {"index"}
  BY <1>1, <1>2 DEF HandoffInv, HandoffTypeOK
<1>b. out' \in [json : Payloads \cup {None}, copy : Hashes \cup {None},
              zip : Archives \cup {None}, index : Payloads \cup {None},
              torn : SUBSET {"json", "copy", "zip", "index"}]
  BY <1>1, <1>2 DEF HandoffInv, HandoffTypeOK
<1>4. HandoffTypeOK' /\ SnapsInv'
  BY <1>1, <1>b, <1>3 DEF HandoffInv, HandoffTypeOK, PreviewTypeOK, SnapsInv, previewVars
<1>5. /\ out.json = Payload /\ out.copy = build.bytes /\ out.zip # None /\ out.zip.payload = Payload
      /\ out.json # None /\ out.copy # None
  BY <1>1, <1>2, DeliveryAssumption DEF HandoffInv, FilesInv
<1>6. OutUpTo(page)'
  BY <1>1, <1>2, <1>3, OutBelow DEF OutUpTo
<1>7. DeliveredIsWhole'
  <2>1. build' = None /\ snaps' = snaps
    BY <1>1
  <2> QED
    BY <1>2, <1>3, <1>5, <2>1 DEF HandoffInv, DeliveredIsWhole
<1> QED
  BY <1>1, <1>4, <1>6, <1>7, EndedKeeps

\* What a delivery with a verdict is about to write.
LEMMA AboutToWrite ==
  ASSUME HandoffInv, page \in Nat, build # None, build.verdict # None
  PROVE  /\ build.bytes \in Nat /\ build.bytes <= page /\ build.bytes # None
         /\ Payload \in Payloads /\ Payload # None /\ Payload.version = build.bytes
         /\ Bundle \in Archives /\ Bundle # None /\ Bundle.payload = Payload
         /\ Payload.verdict = "Pass" => \A v \in Shown :
              /\ snaps[v] # None /\ snaps[v] >= build.bytes
              /\ Bundle.shots[v] # None /\ Bundle.shots[v] >= build.bytes
<1>1. build \in Builds /\ build.bytes \in Nat /\ build.bytes <= page /\ build.verdict \in Verdicts
  BY DEF HandoffInv, HandoffTypeOK, Builds, Hashes
<1>2. Payload \in Payloads /\ Payload.version = build.bytes /\ Payload.verdict = build.verdict
  BY <1>1 DEF Payload, Payloads, Hashes
<1>3. build.verdict = "Pass" =>
        build.matrix /\ \A v \in Shown : snaps[v] # None /\ snaps[v] >= build.bytes
  <2>1. build.todo = <<>> /\ Range(build.todo) = {}
    BY DEF HandoffInv, OrderInv, Range
  <2> QED
    BY <2>1 DEF HandoffInv, MatrixInv
<1> DEFINE shots == [v \in Shown |-> IF build.matrix THEN snaps[v] ELSE None]
<1>4. shots \in [Shown -> Hashes \cup {None}]
  BY DEF HandoffInv, HandoffTypeOK
<1>5. build.verdict = "Pass" => \A v \in Shown : shots[v] # None /\ shots[v] >= build.bytes
  BY <1>3
<1>6. Bundle = [payload |-> Payload, shots |-> shots]
  BY DEF Bundle
<1> HIDE DEF shots
<1>7. Bundle \in Archives /\ Bundle.payload = Payload /\ Bundle.shots = shots
  BY <1>2, <1>4, <1>6 DEF Archives
<1> QED
  BY <1>1, <1>2, <1>3, <1>5, <1>7, DeliveryAssumption

LEMMA StopsKeeps ==
  ASSUME HandoffInv, page \in Nat, BuildStops, UNCHANGED evidenceVars
  PROVE  HandoffInv'
<1>1. build # None /\ build' = None /\ UNCHANGED <<previewVars, snaps, page>>
  BY DEF BuildStops, Tears, Put, evidenceVars
<1>2. /\ PreviewTypeOK' /\ SnapsInv' /\ snaps' \in [Shown -> Hashes \cup {None}]
      /\ OutUpTo(build.bytes) /\ OutUpTo(page)
  BY <1>1, OutBelow DEF HandoffInv, HandoffTypeOK, PreviewTypeOK, SnapsInv, FilesInv, previewVars
<1>3. CASE UNCHANGED out
  <2>1. HandoffTypeOK' /\ SnapsInv' /\ DeliveredIsWhole' /\ OutUpTo(page)'
    BY <1>1, <1>2, <1>3 DEF HandoffInv, HandoffTypeOK, DeliveredIsWhole, OutUpTo
  <2> QED
    BY <1>1, <2>1, EndedKeeps
<1>4. CASE Tears("json", {}, Payload)
  <2>1. build.verdict # None /\ out' = [out EXCEPT !["json"] = Payload, !.torn = out.torn \cup {"json"}]
    BY <1>4 DEF Tears, Put
  <2>2. HandoffTypeOK'
    BY <1>1, <1>2, <2>1, AboutToWrite DEF HandoffInv, HandoffTypeOK
  <2>3. out'.json = Payload /\ out'.copy = out.copy /\ out'.zip = out.zip /\ out'.index = out.index
    BY <2>1 DEF HandoffInv, HandoffTypeOK
  <2>4. OutUpTo(page)'
    BY <1>1, <1>2, <2>1, <2>3, AboutToWrite DEF OutUpTo
  <2>5. DeliveredIsWhole'
    BY <1>1, <1>2, <2>1, <2>3, AboutToWrite DEF HandoffInv, OutUpTo, DeliveredIsWhole
  <2> QED
    BY <1>1, <1>2, <2>2, <2>4, <2>5, EndedKeeps
<1>5. CASE Tears("copy", {"json"}, build.bytes)
  <2>1. /\ build.verdict # None
        /\ out' = [out EXCEPT !["copy"] = build.bytes, !.torn = out.torn \cup {"copy"}]
    BY <1>5 DEF Tears, Put
  <2>2. HandoffTypeOK'
    BY <1>1, <1>2, <2>1, AboutToWrite DEF HandoffInv, HandoffTypeOK, Hashes
  <2>3. out'.json = out.json /\ out'.copy = build.bytes /\ out'.zip = out.zip /\ out'.index = out.index
    BY <2>1 DEF HandoffInv, HandoffTypeOK
  <2>4. OutUpTo(page)'
    BY <1>1, <1>2, <2>1, <2>3, AboutToWrite DEF OutUpTo
  <2>5. DeliveredIsWhole'
    BY <1>1, <1>2, <2>1, <2>3, AboutToWrite DEF HandoffInv, OutUpTo, DeliveredIsWhole
  <2> QED
    BY <1>1, <1>2, <2>2, <2>4, <2>5, EndedKeeps
<1>6. CASE Tears("zip", {"json", "copy"}, Bundle)
  <2>1. /\ build.verdict # None
        /\ out' = [out EXCEPT !["zip"] = Bundle, !.torn = out.torn \cup {"zip"}]
    BY <1>6 DEF Tears, Put
  <2>2. HandoffTypeOK'
    BY <1>1, <1>2, <2>1, AboutToWrite DEF HandoffInv, HandoffTypeOK
  <2>3. out'.json = out.json /\ out'.copy = out.copy /\ out'.zip = Bundle /\ out'.index = out.index
    BY <2>1 DEF HandoffInv, HandoffTypeOK
  <2>4. OutUpTo(page)'
    BY <1>1, <1>2, <2>1, <2>3, AboutToWrite DEF OutUpTo
  <2>5. DeliveredIsWhole'
    BY <1>1, <1>2, <2>1, <2>3, AboutToWrite DEF HandoffInv, OutUpTo, DeliveredIsWhole
  <2> QED
    BY <1>1, <1>2, <2>2, <2>4, <2>5, EndedKeeps
<1>7. CASE Tears("index", {"json", "copy", "zip"}, Payload)
  <2>1. /\ build.verdict # None /\ build.wrote = {"json", "copy", "zip"}
        /\ out' = [out EXCEPT !["index"] = Payload, !.torn = out.torn \cup {"index"}]
    BY <1>7 DEF Tears, Put
  <2>2. HandoffTypeOK'
    BY <1>1, <1>2, <2>1, AboutToWrite DEF HandoffInv, HandoffTypeOK
  <2>3. out'.json = out.json /\ out'.copy = out.copy /\ out'.zip = out.zip /\ out'.index = Payload
    BY <2>1 DEF HandoffInv, HandoffTypeOK
  <2>4. OutUpTo(page)'
    BY <1>1, <1>2, <2>1, <2>3, AboutToWrite DEF OutUpTo
  <2>5. /\ out.json = Payload /\ out.copy = build.bytes
        /\ out.zip # None /\ out.zip.payload = Payload
    BY <1>1, <2>1 DEF HandoffInv, FilesInv
  <2>6. DeliveredIsWhole'
    <3>1. build' = None /\ snaps' = snaps
      BY <1>1
    <3>2. build.bytes \in Nat /\ build.bytes # None /\ Payload # None /\ Payload.version = build.bytes
      BY <1>1, <2>1, AboutToWrite
    <3> QED
      BY <2>3, <2>5, <3>1, <3>2 DEF HandoffInv, DeliveredIsWhole
  <2> QED
    BY <1>1, <1>2, <2>2, <2>4, <2>6, EndedKeeps
<1> QED
  BY <1>3, <1>4, <1>5, <1>6, <1>7 DEF BuildStops

LEMMA PreviewKeeps ==
  ASSUME HandoffInv, page \in Nat, PreviewStep
  PROVE  HandoffInv'
<1>1. build' = Disturbed /\ UNCHANGED <<snaps, out, page>>
  BY DEF PreviewStep, WritePrototype, DecideRound, RemovePreview, evidenceVars
<1>2. PreviewTypeOK
  BY DEF HandoffInv, HandoffTypeOK
<1>3. ASSUME NEW r \in Rounds, WritePrototype(r) PROVE PreviewTypeOK'
  BY <1>2, <1>3, DeliveryAssumption DEF WritePrototype, PreviewTypeOK
<1>4. ASSUME NEW r \in Rounds, NEW flag \in BOOLEAN, DecideRound(r, flag) PROVE PreviewTypeOK'
  <2>1. prototype[r] \in Nat \ {0}
    BY <1>2, <1>4 DEF DecideRound, PreviewTypeOK
  <2> QED
    BY <1>2, <1>4, <2>1 DEF DecideRound, PreviewTypeOK
<1>5. ASSUME NEW r \in Rounds, NEW flag \in BOOLEAN, RemovePreview(r, flag) PROVE PreviewTypeOK'
  BY <1>2, <1>5 DEF RemovePreview, PreviewTypeOK
<1>6. PreviewTypeOK'
  BY <1>3, <1>4, <1>5 DEF PreviewStep
<1> QED
  BY <1>1, <1>6, DisturbedKeeps

LEMMA HandoffNext ==
  ASSUME EvidenceInv, HandoffInv, [DeliveryNext]_deliveryVars
  PROVE  HandoffInv'
<1>1. page \in Nat
  BY DEF EvidenceInv, EvidenceTypeOK
<1>2. CASE UNCHANGED <<evidenceVars, handoffVars>>
  <2>1. UNCHANGED <<page, evidenceVars, previewVars, snaps, build, out>>
    BY <1>2 DEF evidenceVars, handoffVars
  <2>2. HandoffTypeOK' /\ SnapsInv' /\ DeliveredIsWhole' /\ OrderInv' /\ MatrixInv'
    BY <2>1 DEF HandoffInv, HandoffTypeOK, PreviewTypeOK, SnapsInv, DeliveredIsWhole, OrderInv,
       MatrixInv, previewVars
  <2>3. FilesInv'
    BY <2>1 DEF HandoffInv, FilesInv, OutUpTo, Payload
  <2>4. StillInv'
    <3>1. build # None => build.round \in Rounds
      BY DEF HandoffInv, HandoffTypeOK, Builds
    <3> QED
      BY <2>1, <3>1, SameRun DEF HandoffInv, StillInv
  <2> QED
    BY <2>2, <2>3, <2>4 DEF HandoffInv
<1>3. CASE EvidenceStep
  <2>1. page' = page \/ page' = page + 1
    BY <1>3 DEF EvidenceStep, Fill, CaptureShoots, CaptureProbed, CaptureFails, CaptureRefused,
       CaptureLoads, Bind, Judge
  <2>2. build' = Disturbed /\ UNCHANGED <<previewVars, snaps, out>>
    BY <1>3 DEF EvidenceStep, Meanwhile
  <2>3. PreviewTypeOK'
    BY <2>2 DEF HandoffInv, HandoffTypeOK, PreviewTypeOK, previewVars
  <2> QED
    BY <1>1, <2>1, <2>2, <2>3, DisturbedKeeps
<1>4. CASE HandoffStep
  BY <1>1, <1>4, BeginKeeps, CaptureKeeps, NoCapturesKeeps, ValidateKeeps, ReadConfirmationKeeps,
     ReadVerdictKeeps, WriteJsonKeeps, WriteCopyKeeps, WriteZipKeeps, WriteIndexKeeps, StopsKeeps
     DEF HandoffStep, BuildStep
<1> QED
  BY <1>1, <1>2, <1>3, <1>4, PreviewKeeps DEF DeliveryNext, OwnerStep, deliveryVars

LEMMA HandoffInitially == DeliveryInit => HandoffInv
<1> SUFFICES ASSUME HandoffInit PROVE HandoffInv
  BY DEF DeliveryInit
<1>1. /\ HandoffTypeOK /\ SnapsInv /\ OutUpTo(page) /\ DeliveredIsWhole /\ build = None
  BY DEF HandoffInit, HandoffTypeOK, PreviewTypeOK, SnapsInv, OutUpTo, DeliveredIsWhole
<1> QED
  BY <1>1 DEF HandoffInv, OrderInv, MatrixInv, FilesInv, StillInv

LEMMA HandoffHoldsAlways == DeliverySpec => []HandoffInv
BY HandoffInitially, HandoffNext, EvidenceHoldsAlways, PTL DEF DeliverySpec

\* A delivery that nothing disturbed says Pass only of a run that deserves it,
\* however many gates, viewports and rounds it looks at one after another.
THEOREM PassesAreEarned == DeliverySpec => []PassIsEarned
<1>1. EvidenceInv /\ HandoffInv => PassIsEarned
  <2> SUFFICES ASSUME HandoffInv, build # None, build.still, build.verdict = "Pass"
               PROVE  /\ PreviewHolds /\ Confirmed(build.round)
                      /\ registered # {} => prototype[build.round] = confirm[build.round].hash
                      /\ OwnerVerdict(report) = "pass"
                      /\ PointbackHolds(report) /\ EvidenceHolds(report)
                      /\ \A v \in Shown : snaps[v] = build.bytes
    BY DEF PassIsEarned, HandoffInv
  <2>1. build.confirmed # None /\ build.gates # None /\ build.todo = <<>>
    BY DeliveryAssumption DEF HandoffInv, OrderInv, Verdicts
  <2>2. /\ page = build.bytes /\ Confirmed(build.round) /\ OwnerVerdict(report) = "pass"
        /\ report # None /\ PointbackHolds(report) /\ PreviewHolds /\ EvidenceHolds(report)
    BY <2>1 DEF HandoffInv, StillInv
  <2>3. registered # {} => prototype[build.round] = confirm[build.round].hash
    BY <2>2 DEF PreviewHolds, Confirmed
  <2>4. ASSUME NEW v \in Shown PROVE snaps[v] = build.bytes
    <3>1. Range(build.todo) = {}
      BY <2>1 DEF Range
    <3>2. snaps[v] # None /\ snaps[v] >= build.bytes /\ snaps[v] <= page
      BY <3>1 DEF HandoffInv, MatrixInv, SnapsInv
    <3>3. snaps[v] \in Nat /\ build.bytes \in Nat
      BY <3>2 DEF HandoffInv, HandoffTypeOK, Builds, Hashes
    <3> QED
      BY <2>2, <3>2, <3>3
  <2> QED
    BY <2>2, <2>3, <2>4
<1> QED
  BY <1>1, EvidenceHoldsAlways, HandoffHoldsAlways, PTL

\* Whatever stops, is repeated or changes meanwhile, a disclosure that says Pass
\* lies beside no screenshot of an older page, and a delivery page beside no
\* older page, archive or disclosure.
THEOREM DeliveriesAreWhole == DeliverySpec => []DeliveredIsWhole
<1>1. HandoffInv => DeliveredIsWhole
  BY DEF HandoffInv
<1> QED
  BY <1>1, HandoffHoldsAlways, PTL

-----------------------------------------------------------------------------
(* Owner facts.                                                          *)

\* The manifest only grows, so a hash bound once is bound for good.
LEMMA ManifestGrows ==
  ASSUME EvidenceInv, [DeliveryNext]_deliveryVars, NEW hash, BoundHash(hash)
  PROVE  BoundHash(hash)'
<1>1. manifest \in Seq(Binding)
  BY DEF EvidenceInv, EvidenceTypeOK
<1>2. CASE manifest' = manifest
  BY <1>2 DEF BoundHash
<1>3. ASSUME NEW a \in Artifacts, NEW c \in Criteria, Bind(a, c)
      PROVE  BoundHash(hash)'
  <2>1. PICK line : manifest' = Append(manifest, line)
    BY <1>3 DEF Bind
  <2>2. PICK n \in DOMAIN manifest : manifest[n].hash = hash
    BY DEF BoundHash
  <2>3. n \in DOMAIN manifest' /\ manifest'[n] = manifest[n]
    BY <1>1, <2>1
  <2> QED
    BY <2>2, <2>3 DEF BoundHash
<1>4. CASE EvidenceStep
  BY <1>2, <1>3, <1>4 DEF EvidenceStep, Fill, CaptureShoots, CaptureProbed, CaptureFails,
     CaptureRefused, CaptureLoads, Judge
<1> QED
  BY <1>2, <1>4 DEF DeliveryNext, PreviewStep, HandoffStep, OwnerStep, deliveryVars, evidenceVars

\* What the publisher reads of the manifest is bound there.
LEMMA IndexedBound ==
  ASSUME EvidenceTypeOK, NEW a \in Artifacts
  PROVE  /\ Indexed(a) \in Hashes \cup {None}
         /\ Indexed(a) # None => BoundHash(Indexed(a))
<1>1. CASE LastLine(a) = {}
  BY <1>1 DEF Indexed
<1>2. CASE LastLine(a) # {}
  <2>1. PICK n \in LastLine(a) : Indexed(a) = manifest[n].hash
    BY <1>2 DEF Indexed
  <2>2. n \in DOMAIN manifest
    BY <2>1 DEF LastLine
  <2> QED
    BY <2>1, <2>2, LineType DEF BoundHash, Hashes
<1> QED
  BY <1>1, <1>2

\* The rest of the facts, when a publication or a confirmation is made.
LEMMA FlowFrame ==
  ASSUME FlowInv, UNCHANGED <<candidates, flow, recorded>>, stated \subseteq stated'
  PROVE  FlowInv'
BY DEF FlowInv, CandidateOf

LEMMA StatedFrame ==
  ASSUME StatedInv, UNCHANGED <<publisher, stated, projection, verified, manifest>>
  PROVE  StatedInv'
BY DEF StatedInv, BoundHash

LEMMA ReadsKeeps ==
  ASSUME EvidenceTypeOK, FactsInv, ProjectionReads, UNCHANGED evidenceVars
  PROVE  FactsInv'
<1>1. /\ publisher' = [a \in Artifacts |-> Indexed(a)] /\ manifest' = manifest
      /\ UNCHANGED <<projection, stated, confirmations, draft, verified, candidates, recorded, flow>>
  BY DEF ProjectionReads, evidenceVars
<1>2. publisher' \in [Artifacts -> Hashes \cup {None}]
  BY <1>1, IndexedBound
<1>3. \A a \in Artifacts : publisher'[a] # None => BoundHash(publisher'[a])
  BY <1>1, IndexedBound
<1>4. FactsTypeOK'
  BY <1>1, <1>2 DEF FactsInv, FactsTypeOK
<1>5. StatedInv'
  BY <1>1, <1>3 DEF FactsInv, StatedInv, BoundHash
<1> QED
  BY <1>1, <1>4, <1>5, FlowFrame DEF FactsInv

LEMMA WritesKeeps ==
  ASSUME EvidenceTypeOK, FactsInv, ProjectionWrites, UNCHANGED evidenceVars
  PROVE  FactsInv'
<1> DEFINE fact(c) == FactOf(report.rows[c], c, publisher)
<1>1. /\ publisher # None /\ report # None /\ publisher' = None /\ manifest' = manifest
      /\ projection' = [c \in Criteria |-> fact(c)]
      /\ stated' = stated \cup {fact(c) : c \in Criteria}
      /\ UNCHANGED <<confirmations, draft, verified, candidates, recorded, flow>>
  BY DEF ProjectionWrites, evidenceVars
<1>2. publisher \in [Artifacts -> Hashes \cup {None}] /\ report \in Report
  BY <1>1 DEF FactsInv, FactsTypeOK, EvidenceTypeOK
<1>3. ASSUME NEW c \in Criteria
      PROVE  /\ fact(c) \in Fact /\ fact(c).criterion = c
             /\ fact(c).hash # None => BoundHash(fact(c).hash)
  <2>1. report.rows[c] \in Row
    BY <1>2 DEF Report
  <2>2. report.rows[c].artifact # None => report.rows[c].artifact \in Artifacts
    BY <2>1 DEF Row
  <2>3. report.rows[c].result \in {"pass", "fail", "n/a"}
    BY <2>1 DEF Row
  <2>4. fact(c).hash # None => report.rows[c].artifact # None /\ fact(c).hash = publisher[report.rows[c].artifact]
    BY DEF FactOf
  <2>5. fact(c) \in Fact
    BY <1>2, <2>2, <2>3 DEF FactOf, Fact
  <2> QED
    BY <1>1, <2>2, <2>4, <2>5 DEF FactOf, FactsInv, StatedInv
<1> HIDE DEF fact
<1>4. FactsTypeOK'
  <2>1. projection' \in [Criteria -> Fact] /\ stated' \subseteq Fact
    BY <1>1, <1>3 DEF FactsInv, FactsTypeOK
  <2> QED
    BY <1>1, <2>1 DEF FactsInv, FactsTypeOK
<1>5. StatedInv'
  BY <1>1, <1>3 DEF FactsInv, StatedInv, BoundHash
<1> QED
  BY <1>1, <1>4, <1>5, FlowFrame DEF FactsInv

LEMMA ConfirmKeeps ==
  ASSUME FactsInv, UNCHANGED evidenceVars,
         NEW c \in Criteria, NEW role \in Roles, NEW hash \in Hashes, Confirm(c, hash, role)
  PROVE  FactsInv'
<1>1. /\ confirmations' = confirmations \cup {[criterion |-> c, hash |-> hash, role |-> role]}
      /\ UNCHANGED <<projection, publisher, stated, draft, verified, candidates, recorded, flow, manifest>>
  BY DEF Confirm, evidenceVars
<1>2. FactsTypeOK'
  BY <1>1 DEF FactsInv, FactsTypeOK
<1> QED
  BY <1>1, <1>2, StatedFrame, FlowFrame DEF FactsInv

LEMMA PublishKeeps ==
  ASSUME FactsInv, UNCHANGED evidenceVars,
         NEW c \in Criteria, NEW role \in Roles, PublishVerified(c, role)
  PROVE  FactsInv'
<1> DEFINE row == [criterion |-> c, hash |-> draft, role |-> role]
<1>1. /\ projection # None /\ projection[c].verdict = "pass" /\ projection[c].hash = draft
      /\ row \in confirmations /\ verified' = verified \cup {row}
      /\ UNCHANGED <<projection, publisher, stated, confirmations, draft, candidates, recorded, flow, manifest>>
  BY DEF PublishVerified, Passing, evidenceVars
<1>2. projection[c] \in stated /\ projection[c] \in Fact /\ projection[c].criterion = c /\ draft \in Nat
  BY <1>1 DEF FactsInv, FactsTypeOK, StatedInv, Hashes
<1>3. projection[c] = [criterion |-> c, verdict |-> "pass", hash |-> draft]
  BY <1>1, <1>2 DEF Fact
<1>4. BoundHash(draft)
  BY <1>1, <1>2, DeliveryAssumption DEF FactsInv, StatedInv
<1>5. FactsTypeOK'
  BY <1>1 DEF FactsInv, FactsTypeOK
<1>6. StatedInv'
  BY <1>1, <1>2, <1>3, <1>4 DEF FactsInv, StatedInv, BoundHash
<1> QED
  BY <1>1, <1>5, <1>6, FlowFrame DEF FactsInv

Candidate == [op : Operations, fact : Fact \cup {None}, text : Nat]

LEMMA ChecksKeeps ==
  ASSUME FactsInv, UNCHANGED evidenceVars,
         NEW d \in Operations \X Deliveries, NEW c \in Criteria, BackflowChecks(d, c)
  PROVE  FactsInv'
<1> DEFINE next == [fact |-> projection[c], candidate |-> None, text |-> None]
<1>1. /\ projection # None /\ projection[c].verdict # "pass" /\ flow' = [flow EXCEPT ![d] = next]
      /\ UNCHANGED <<projection, publisher, stated, confirmations, draft, verified, candidates, recorded, manifest>>
  BY DEF BackflowChecks, Serves, evidenceVars
<1>2. projection[c] \in Fact /\ projection[c] \in stated
  BY <1>1 DEF FactsInv, FactsTypeOK, StatedInv
<1>3. next \in Flows /\ next.fact = projection[c] /\ next.candidate = None /\ next.text = None
  BY <1>2 DEF Flows
<1> HIDE DEF next
<1>4. FactsTypeOK'
  BY <1>1, <1>3 DEF FactsInv, FactsTypeOK
<1>5. FlowInv'
  BY <1>1, <1>2, <1>3 DEF FactsInv, FactsTypeOK, FlowInv, CandidateOf
<1> QED
  BY <1>1, <1>4, <1>5, StatedFrame DEF FactsInv

LEMMA FlowFields ==
  ASSUME FactsInv, NEW d \in Operations \X Deliveries, flow[d] # None
  PROVE  /\ flow[d] \in Flows
         /\ \A n \in Nat : /\ [flow[d] EXCEPT !.candidate = n]
                                = [fact |-> flow[d].fact, candidate |-> n, text |-> flow[d].text]
                           /\ [flow[d] EXCEPT !.text = n]
                                = [fact |-> flow[d].fact, candidate |-> flow[d].candidate, text |-> n]
<1>1. flow[d] \in Flows
  BY DEF FactsInv, FactsTypeOK
<1> QED
  BY <1>1 DEF Flows

\* A delivery of a request goes on: the component it works on is known, or the
\* text of its attributes.
LEMMA GoesOn ==
  ASSUME FactsInv, NEW d \in Operations \X Deliveries, flow[d] # None,
         NEW next \in Flows, next.fact = flow[d].fact,
         next.candidate # None => next.candidate \in CandidateOf(d[1])',
         next.text # None => next.candidate # None,
         flow' = [flow EXCEPT ![d] = next], UNCHANGED <<stated, recorded>>,
         \A n \in DOMAIN candidates :
           n \in DOMAIN candidates' /\ candidates'[n] = candidates[n],
         \A m, n \in DOMAIN candidates' : candidates'[m].op = candidates'[n].op => m = n
  PROVE  FlowInv'
<1>1. \A op : CandidateOf(op) \subseteq CandidateOf(op)'
  BY DEF CandidateOf
<1>2. \A op \in recorded : \E n \in CandidateOf(op)' :
        candidates'[n].fact \in stated /\ candidates'[n].fact.verdict # "pass"
  BY <1>1 DEF FactsInv, FlowInv, CandidateOf
<1>3. ASSUME NEW e \in Operations \X Deliveries, flow'[e] # None
      PROVE  /\ flow'[e].fact \in stated /\ flow'[e].fact.verdict # "pass"
             /\ flow'[e].candidate # None => flow'[e].candidate \in CandidateOf(e[1])'
             /\ flow'[e].text # None => flow'[e].candidate # None
  BY <1>1, <1>3 DEF FactsInv, FactsTypeOK, FlowInv
<1> QED
  BY <1>2, <1>3 DEF FlowInv

LEMMA CreatesKeeps ==
  ASSUME FactsInv, UNCHANGED evidenceVars,
         NEW d \in Operations \X Deliveries, BackflowCreates(d)
  PROVE  FactsInv'
<1>1. /\ flow[d] # None /\ flow[d].candidate = None
      /\ UNCHANGED <<projection, publisher, stated, confirmations, draft, verified, recorded, manifest>>
  BY DEF BackflowCreates, evidenceVars
<1>2. candidates \in Seq(Candidate) /\ flow[d] \in Flows /\ flow[d].text = None
  BY <1>1, FlowFields DEF FactsInv, FactsTypeOK, FlowInv, Candidate
<1>3. ASSUME NEW n \in Nat, flow' = [flow EXCEPT ![d] = [flow[d] EXCEPT !.candidate = n]],
             candidates' \in Seq(Candidate), n \in CandidateOf(d[1])',
             \A k \in DOMAIN candidates : k \in DOMAIN candidates' /\ candidates'[k] = candidates[k],
             \A k, m \in DOMAIN candidates' : candidates'[k].op = candidates'[m].op => k = m
      PROVE  FactsInv'
  <2> DEFINE next == [fact |-> flow[d].fact, candidate |-> n, text |-> flow[d].text]
  <2>1. flow' = [flow EXCEPT ![d] = next]
    BY <1>1, <1>3, FlowFields
  <2>2. next \in Flows /\ next.fact = flow[d].fact /\ next.candidate = n /\ next.text = None
    BY <1>2 DEF Flows
  <2> HIDE DEF next
  <2>3. FlowInv'
    BY <1>1, <1>3, <2>1, <2>2, GoesOn
  <2>4. FactsTypeOK'
    <3>1. flow' \in [Operations \X Deliveries -> Flows \cup {None}]
      BY <2>1, <2>2 DEF FactsInv, FactsTypeOK
    <3> QED
      BY <1>1, <1>3, <3>1 DEF FactsInv, FactsTypeOK, Candidate
  <2> QED
    BY <1>1, <2>3, <2>4, StatedFrame DEF FactsInv
<1>4. CASE Nested(d[1]) # {}
  <2>1. PICK n \in Nested(d[1]) : flow' = [flow EXCEPT ![d] = [flow[d] EXCEPT !.candidate = n]]
    BY <1>4 DEF BackflowCreates, Serves
  <2>2. candidates' = candidates
    BY <1>4 DEF BackflowCreates
  <2>3. n \in CandidateOf(d[1])' /\ n \in Nat
    BY <1>2, <2>1, <2>2 DEF Nested, CandidateOf
  <2> QED
    BY <1>2, <1>3, <2>1, <2>2, <2>3 DEF FactsInv, FlowInv
<1>5. CASE Nested(d[1]) = {}
  <2> DEFINE row == [op |-> d[1], fact |-> None, text |-> 0]
             n   == Len(candidates) + 1
  <2>1. candidates' = Append(candidates, row) /\ flow' = [flow EXCEPT ![d] = [flow[d] EXCEPT !.candidate = n]]
    BY <1>5 DEF BackflowCreates, Serves
  <2>2. row \in Candidate /\ row.op = d[1]
    BY DEF Candidate
  <2> HIDE DEF row
  <2>3. candidates' \in Seq(Candidate) /\ n \in Nat /\ n \in DOMAIN candidates' /\ candidates'[n] = row
    BY <1>2, <2>1, <2>2
  <2>4. \A k \in DOMAIN candidates : k \in DOMAIN candidates' /\ candidates'[k] = candidates[k]
    BY <1>2, <2>1
  <2>5. \A k \in DOMAIN candidates' : k \in DOMAIN candidates \/ k = n
    BY <1>2, <2>1
  <2> HIDE DEF n
  <2>6. \A k \in DOMAIN candidates : candidates[k].op # d[1]
    BY <1>5 DEF Nested, CandidateOf
  <2>7. \A k, m \in DOMAIN candidates' : candidates'[k].op = candidates'[m].op => k = m
    BY <2>2, <2>3, <2>4, <2>5, <2>6 DEF FactsInv, FlowInv
  <2>8. n \in CandidateOf(d[1])'
    BY <2>2, <2>3 DEF CandidateOf
  <2> QED
    BY <1>3, <2>1, <2>3, <2>4, <2>7, <2>8
<1> QED
  BY <1>4, <1>5

LEMMA TextKeeps ==
  ASSUME FactsInv, UNCHANGED evidenceVars,
         NEW d \in Operations \X Deliveries, BackflowReads(d)
  PROVE  FactsInv'
<1> DEFINE n    == flow[d].candidate
           text == candidates[n].text
           next == [fact |-> flow[d].fact, candidate |-> n, text |-> text]
<1>1. /\ flow[d] # None /\ n # None
      /\ flow' = [flow EXCEPT ![d] = [flow[d] EXCEPT !.text = text]]
      /\ UNCHANGED <<projection, publisher, stated, confirmations, draft, verified, candidates, recorded, manifest>>
  BY DEF BackflowReads, Serves, evidenceVars
<1>2. candidates \in Seq(Candidate) /\ flow[d] \in Flows
  BY <1>1, FlowFields DEF FactsInv, FactsTypeOK, Candidate
<1>3. n \in CandidateOf(d[1]) /\ n \in DOMAIN candidates
  BY <1>1 DEF FactsInv, FlowInv, CandidateOf
<1>4. text \in Nat
  <2>1. candidates[n] \in Candidate
    BY <1>2, <1>3
  <2> QED
    BY <2>1 DEF Candidate
<1>5. flow' = [flow EXCEPT ![d] = next]
  BY <1>1, <1>4, FlowFields
<1>6. next \in Flows /\ next.fact = flow[d].fact /\ next.candidate = n
  BY <1>2, <1>4 DEF Flows
<1>7. CandidateOf(d[1])' = CandidateOf(d[1])
  BY <1>1 DEF CandidateOf
<1> HIDE DEF next, text
<1>8. FlowInv'
  <2>1. \A k \in DOMAIN candidates : k \in DOMAIN candidates' /\ candidates'[k] = candidates[k]
    BY <1>1
  <2>2. \A k, m \in DOMAIN candidates' : candidates'[k].op = candidates'[m].op => k = m
    BY <1>1 DEF FactsInv, FlowInv
  <2>3. next.candidate \in CandidateOf(d[1])' /\ next.candidate # None
    BY <1>1, <1>3, <1>6, <1>7
  <2> QED
    BY <1>1, <1>5, <1>6, <2>1, <2>2, <2>3, GoesOn
<1>9. FactsTypeOK'
  BY <1>1, <1>5, <1>6 DEF FactsInv, FactsTypeOK
<1> QED
  BY <1>1, <1>8, <1>9, StatedFrame DEF FactsInv

LEMMA RecordsKeeps ==
  ASSUME FactsInv, UNCHANGED evidenceVars,
         NEW d \in Operations \X Deliveries, BackflowRecords(d)
  PROVE  FactsInv'
<1> DEFINE n   == flow[d].candidate
           row == [op |-> d[1], fact |-> flow[d].fact, text |-> flow[d].text]
<1>1. /\ flow[d] # None /\ flow[d].text # None /\ d[1] \notin recorded
      /\ candidates' = [candidates EXCEPT ![n] = row]
      /\ recorded' = recorded \cup {d[1]} /\ flow' = [flow EXCEPT ![d] = None]
      /\ UNCHANGED <<projection, publisher, stated, confirmations, draft, verified, manifest>>
  BY DEF BackflowRecords, Serves, evidenceVars
<1>2. candidates \in Seq(Candidate) /\ flow[d] \in Flows
  BY <1>1, FlowFields DEF FactsInv, FactsTypeOK, Candidate
<1>3. n # None /\ n \in DOMAIN candidates /\ candidates[n].op = d[1]
  BY <1>1 DEF FactsInv, FlowInv, CandidateOf
<1>4. row \in Candidate /\ row.op = d[1] /\ row.fact \in stated /\ row.fact.verdict # "pass"
  BY <1>1, <1>2 DEF FactsInv, FlowInv, Flows, Candidate
<1> HIDE DEF n, row
<1>5. /\ candidates' \in Seq(Candidate) /\ DOMAIN candidates' = DOMAIN candidates
      /\ candidates'[n] = row /\ \A k \in DOMAIN candidates \ {n} : candidates'[k] = candidates[k]
  BY <1>1, <1>2, <1>3, <1>4
<1>6. \A k \in DOMAIN candidates : candidates'[k].op = candidates[k].op
  BY <1>3, <1>4, <1>5
<1>7. \A op : CandidateOf(op)' = CandidateOf(op)
  BY <1>5, <1>6 DEF CandidateOf
<1>8. ASSUME NEW op \in recorded'
      PROVE  \E k \in CandidateOf(op)' : candidates'[k].fact \in stated /\ candidates'[k].fact.verdict # "pass"
  <2>1. CASE op = d[1]
    BY <1>3, <1>4, <1>5, <1>7, <2>1 DEF CandidateOf
  <2>2. CASE op # d[1]
    <3>1. PICK k \in CandidateOf(op) : candidates[k].fact \in stated /\ candidates[k].fact.verdict # "pass"
      BY <1>1, <2>2 DEF FactsInv, FlowInv
    <3>2. k # n /\ k \in DOMAIN candidates
      BY <1>3, <2>2, <3>1 DEF CandidateOf
    <3> QED
      BY <1>5, <1>7, <3>1, <3>2
  <2> QED
    BY <2>1, <2>2
<1>9. \A e \in Operations \X Deliveries : flow'[e] # None => flow'[e] = flow[e]
  BY <1>1 DEF FactsInv, FactsTypeOK
<1>10. FlowInv'
  <2>1. \A k, m \in DOMAIN candidates' : candidates'[k].op = candidates'[m].op => k = m
    BY <1>5, <1>6 DEF FactsInv, FlowInv
  <2>2. \A e \in Operations \X Deliveries : flow'[e] # None =>
          /\ flow'[e].fact \in stated /\ flow'[e].fact.verdict # "pass"
          /\ flow'[e].candidate # None => flow'[e].candidate \in CandidateOf(e[1])'
          /\ flow'[e].text # None => flow'[e].candidate # None
    BY <1>7, <1>9 DEF FactsInv, FlowInv
  <2> QED
    BY <1>1, <1>8, <2>1, <2>2 DEF FlowInv
<1>11. FactsTypeOK'
  BY <1>1, <1>5 DEF FactsInv, FactsTypeOK, Candidate
<1> QED
  BY <1>1, <1>10, <1>11, StatedFrame DEF FactsInv

LEMMA EditKeeps ==
  ASSUME FactsInv, UNCHANGED evidenceVars, NEW n, EditCandidate(n)
  PROVE  FactsInv'
<1>1. /\ n \in DOMAIN candidates
      /\ candidates' = [candidates EXCEPT ![n] = [candidates[n] EXCEPT !.text = candidates[n].text + 1]]
      /\ UNCHANGED <<projection, publisher, stated, confirmations, draft, verified, recorded, flow, manifest>>
  BY DEF EditCandidate, evidenceVars
<1>2. candidates \in Seq(Candidate) /\ candidates[n] \in Candidate
  <2>1. candidates \in Seq(Candidate)
    BY DEF FactsInv, FactsTypeOK, Candidate
  <2> QED
    BY <1>1, <2>1
<1> DEFINE row == [candidates[n] EXCEPT !.text = candidates[n].text + 1]
<1>3. row \in Candidate /\ row.op = candidates[n].op /\ row.fact = candidates[n].fact
  BY <1>2 DEF Candidate
<1>4. candidates' = [candidates EXCEPT ![n] = row]
  BY <1>1
<1> HIDE DEF row
<1>5. /\ candidates' \in Seq(Candidate) /\ DOMAIN candidates' = DOMAIN candidates
      /\ \A k \in DOMAIN candidates : candidates'[k].op = candidates[k].op /\ candidates'[k].fact = candidates[k].fact
  BY <1>1, <1>2, <1>3, <1>4
<1>6. \A op : CandidateOf(op)' = CandidateOf(op)
  BY <1>5 DEF CandidateOf
<1>7. FlowInv'
  <2>1. \A k, m \in DOMAIN candidates' : candidates'[k].op = candidates'[m].op => k = m
    BY <1>5 DEF FactsInv, FlowInv
  <2>2. \A op \in recorded' : \E k \in CandidateOf(op)' :
          candidates'[k].fact \in stated' /\ candidates'[k].fact.verdict # "pass"
    BY <1>1, <1>5, <1>6 DEF FactsInv, FlowInv, CandidateOf
  <2> QED
    BY <1>1, <1>6, <2>1, <2>2 DEF FactsInv, FlowInv
<1>8. FactsTypeOK'
  BY <1>1, <1>5 DEF FactsInv, FactsTypeOK, Candidate
<1> QED
  BY <1>1, <1>7, <1>8, StatedFrame DEF FactsInv

LEMMA FactsNext ==
  ASSUME EvidenceInv, FactsInv, [DeliveryNext]_deliveryVars
  PROVE  FactsInv'
<1>0. EvidenceTypeOK
  BY DEF EvidenceInv
<1>1. CASE UNCHANGED factsVars
  <2>1. UNCHANGED <<projection, publisher, stated, confirmations, draft, verified, candidates, recorded, flow>>
    BY <1>1 DEF factsVars
  <2>2. FactsTypeOK'
    BY <2>1 DEF FactsInv, FactsTypeOK
  <2>3. \A hash : BoundHash(hash) => BoundHash(hash)'
    BY ManifestGrows
  <2>4. StatedInv'
    BY <2>1, <2>3 DEF FactsInv, StatedInv
  <2> QED
    BY <2>1, <2>2, <2>4, FlowFrame DEF FactsInv
<1>2. CASE FactsStep /\ UNCHANGED evidenceVars
  <2>1. CASE ProjectionStops
    <3>1. publisher' = None /\ manifest' = manifest
          /\ UNCHANGED <<projection, stated, confirmations, draft, verified, candidates, recorded, flow>>
      BY <1>2, <2>1 DEF ProjectionStops, evidenceVars
    <3>2. FactsTypeOK' /\ StatedInv'
      BY <3>1 DEF FactsInv, FactsTypeOK, StatedInv, BoundHash
    <3> QED
      BY <3>1, <3>2, FlowFrame DEF FactsInv
  <2>2. ASSUME NEW content \in 1..page, UpdateDraft(content) PROVE FactsInv'
    <3>1. draft' = content /\ manifest' = manifest
          /\ UNCHANGED <<projection, publisher, stated, confirmations, verified, candidates, recorded, flow>>
      BY <1>2, <2>2 DEF UpdateDraft, evidenceVars
    <3>2. content \in Nat
      BY <1>0 DEF EvidenceTypeOK
    <3>3. FactsTypeOK'
      BY <3>1, <3>2 DEF FactsInv, FactsTypeOK, Hashes
    <3> QED
      BY <3>1, <3>3, StatedFrame, FlowFrame DEF FactsInv
  <2>3. ASSUME NEW d \in Operations \X Deliveries, BackflowStops(d) PROVE FactsInv'
    <3>1. flow' = [flow EXCEPT ![d] = None] /\ manifest' = manifest
          /\ UNCHANGED <<projection, publisher, stated, confirmations, draft, verified, candidates, recorded>>
      BY <1>2, <2>3 DEF BackflowStops, Serves, evidenceVars
    <3>2. \A e \in Operations \X Deliveries : flow'[e] # None => flow'[e] = flow[e]
      BY <3>1 DEF FactsInv, FactsTypeOK
    <3>3. FactsTypeOK' /\ FlowInv'
      BY <3>1, <3>2 DEF FactsInv, FactsTypeOK, FlowInv, CandidateOf
    <3> QED
      BY <3>1, <3>3, StatedFrame DEF FactsInv
  <2>4. \A hash \in 1..page : hash \in Hashes
    BY <1>0 DEF EvidenceTypeOK, Hashes
  <2> QED
    BY <1>0, <1>2, <2>1, <2>2, <2>3, <2>4, ReadsKeeps, WritesKeeps, ConfirmKeeps, PublishKeeps,
       ChecksKeeps, CreatesKeeps, TextKeeps, RecordsKeeps, EditKeeps DEF FactsStep
<1> QED
  BY <1>1, <1>2 DEF DeliveryNext, EvidenceStep, PreviewStep, HandoffStep, OwnerStep, deliveryVars

LEMMA FactsInitially == DeliveryInit => FactsInv
<1> SUFFICES ASSUME FactsInit PROVE FactsInv
  BY DEF DeliveryInit
<1>1. FactsTypeOK
  BY DEF FactsInit, FactsTypeOK, Hashes
<1>2. StatedInv /\ FlowInv
  BY DEF FactsInit, StatedInv, FlowInv
<1> QED
  BY <1>1, <1>2 DEF FactsInv

LEMMA FactsHoldAlways == DeliverySpec => []FactsInv
BY FactsInitially, FactsNext, EvidenceHoldsAlways, PTL DEF DeliverySpec

\* A revision is published as verified only of a content that was confirmed,
\* judged and bound, however those four change between the steps.
THEOREM VerifiedIsJudged == DeliverySpec => []VerifiedWasJudged
<1>1. FactsInv => VerifiedWasJudged
  BY DEF FactsInv, StatedInv, VerifiedWasJudged, BoundHash, Range
<1> QED
  BY <1>1, FactsHoldAlways, PTL

\* A backflow request leaves one candidate, however often it is delivered and
\* wherever it stopped, and a recorded one names a fact that did not pass.
THEOREM BackflowIsOnce == DeliverySpec => []BackflowsOnce
<1>1. FactsInv => BackflowsOnce
  <2> SUFFICES ASSUME FactsInv, NEW op \in Operations PROVE Cardinality(CandidateOf(op)) <= 1
    BY DEF BackflowsOnce, FactsInv, FlowInv
  <2>1. CASE CandidateOf(op) = {}
    BY <2>1, FS_EmptySet
  <2>2. CASE CandidateOf(op) # {}
    <3>1. PICK n : CandidateOf(op) = {n}
      BY <2>2 DEF FactsInv, FlowInv, CandidateOf
    <3>2. Cardinality({n}) = 1
      BY FS_Singleton
    <3> QED
      BY <3>1, <3>2
  <2> QED
    BY <2>1, <2>2
<1> QED
  BY <1>1, FactsHoldAlways, PTL

-----------------------------------------------------------------------------
(* Documents: what a patch restores.                                     *)

Nodes(N) == N \subseteq Node /\ Distinct(N) /\ \A n \in N : n.kids \subseteq Ids(N)

LEMMA FindIs ==
  ASSUME NEW S, Distinct(S), NEW x \in S
  PROVE  Find(S, x.id) = x /\ x.id \in Ids(S) /\ Lookup(S, x.id) = x
BY DEF Find, Distinct, Lookup, Ids

LEMMA FindIn ==
  ASSUME NEW S, NEW id \in Ids(S)
  PROVE  Find(S, id) \in S /\ Find(S, id).id = id /\ Lookup(S, id) = Find(S, id)
BY DEF Find, Lookup, Ids

LEMMA NodeKept ==
  ASSUME NEW n \in Node, NEW ids, n.kids \cap ids = {}
  PROVE  [n EXCEPT !.kids = @ \ ids] = n
<1>1. n.kids \ ids = n.kids
  OBVIOUS
<1> QED BY <1>1 DEF Node

\* The entries of a board's nodes that a patch has.
Entries(N, K, b) == {[board |-> b, id |-> n, node |-> Lookup(K, n)] : n \in Changed(N, K)}

LEMMA NodesRestored ==
  ASSUME NEW N, NEW K, NEW b, Nodes(N), Nodes(K)
  PROVE  ApplyNodes(N, Entries(N, K, b)) = K
<1> DEFINE E == Entries(N, K, b)
           gone == Ids({e \in E : e.node = None})
<1>1. None \notin Node
  BY CanvasAssumption
<1>2. ASSUME NEW id PROVE Lookup(K, id) = None <=> id \notin Ids(K)
  BY <1>1, FindIn DEF Lookup, Nodes
<1> DEFINE entry(n) == [board |-> b, id |-> n, node |-> Lookup(K, n)]
<1>e. \A n : entry(n).id = n /\ entry(n).node = Lookup(K, n)
  OBVIOUS
<1>f. E = {entry(n) : n \in Changed(N, K)}
  BY DEF Entries
<1> HIDE DEF entry, E
<1>3. gone = Changed(N, K) \ Ids(K)
  <2>1. gone = {n \in Changed(N, K) : Lookup(K, n) = None}
    BY <1>e, <1>f DEF Ids
  <2> QED BY <2>1, <1>2
<1>4. Ids(E) = Changed(N, K)
  BY <1>e, <1>f DEF Ids
<1>5. Without(N, Ids(E)) = {k \in K : k.id \notin Changed(N, K)}
  <2>1. ASSUME NEW n \in N, n.id \notin Changed(N, K) PROVE n \in K
    BY <2>1, <1>1, <1>2, FindIs, FindIn DEF Changed, Nodes
  <2>2. ASSUME NEW k \in K, k.id \notin Changed(N, K) PROVE k \in N
    <3>1. Lookup(K, k.id) = k /\ k.id \in Ids(K) /\ k \in Node
      BY FindIs DEF Nodes
    <3>2. Lookup(N, k.id) = k
      BY <2>2, <3>1 DEF Changed
    <3> QED BY <3>1, <3>2, <1>1, FindIn DEF Lookup
  <2> QED BY <2>1, <2>2, <1>4 DEF Without
<1>6. Orphan(Without(N, Ids(E)), gone, {}) = {k \in K : k.id \notin Changed(N, K)}
  <2>1. \A k \in K : [k EXCEPT !.kids = @ \ gone] = k
    <3> TAKE k \in K
    <3>1. k \in Node /\ k.kids \cap gone = {}
      BY <1>3 DEF Nodes
    <3> HIDE DEF gone
    <3> QED BY <3>1, NodeKept
  <2> HIDE DEF gone, E
  <2> QED BY <1>5, <2>1 DEF Orphan
<1>7. {e.node : e \in {d \in E : d.node # None}} = {k \in K : k.id \in Changed(N, K)}
  <2>1. ASSUME NEW id \in Changed(N, K), Lookup(K, id) # None
        PROVE  Lookup(K, id) \in K /\ Lookup(K, id).id = id
    BY <2>1, <1>2, FindIn
  <2>2. ASSUME NEW k \in K, k.id \in Changed(N, K)
        PROVE  \E id \in Changed(N, K) : Lookup(K, id) = k /\ Lookup(K, id) # None
    BY <2>2, <1>1, FindIs DEF Nodes
  <2>3. {e.node : e \in {d \in E : d.node # None}}
          = {Lookup(K, id) : id \in {i \in Changed(N, K) : Lookup(K, i) # None}}
    BY <1>e, <1>f
  <2> QED BY <2>1, <2>2, <2>3
<1>8. ApplyNodes(N, E) = Orphan(Without(N, Ids(E)), gone, {}) \cup {e.node : e \in {d \in E : d.node # None}}
  BY DEF ApplyNodes
<1> HIDE DEF gone, E
<1>9. ApplyNodes(N, E) = K
  BY <1>6, <1>7, <1>8
<1> QED BY <1>9 DEF E

LEMMA NoEntries ==
  ASSUME NEW N, Nodes(N)
  PROVE  ApplyNodes(N, {}) = N
<1>1. Entries(N, N, 0) = {}
  BY DEF Entries, Changed
<1> QED BY <1>1, NodesRestored

LEMMA Merged ==
  ASSUME NEW c \in Board, NEW t \in Board, c.id = t.id
  PROVE  Merge(c, [f \in {g \in Fields : c[g] # t[g]} |-> t[f]]) = [t EXCEPT !.nodes = c.nodes]
<1> DEFINE v == [f \in {g \in Fields : c[g] # t[g]} |-> t[f]]
           M == Merge(c, v)
<1>1. DOMAIN c = {"id", "name", "edges", "from", "nodes"} /\ DOMAIN t = DOMAIN c
  BY DEF Board
<1>2. DOMAIN v = {g \in Fields : c[g] # t[g]} /\ \A f \in DOMAIN v : v[f] = t[f]
  OBVIOUS
<1> HIDE DEF v
<1>3. M = [f \in DOMAIN c |-> IF f \in DOMAIN v THEN v[f] ELSE c[f]]
  BY DEF Merge
<1>4. \A f \in DOMAIN c : M[f] = IF f = "nodes" THEN c.nodes ELSE t[f]
  BY <1>1, <1>2, <1>3 DEF Fields
<1>5. M = [f \in DOMAIN t |-> IF f = "nodes" THEN c.nodes ELSE t[f]]
  BY <1>1, <1>3, <1>4
<1>6. [t EXCEPT !.nodes = c.nodes] = [f \in DOMAIN t |-> IF f = "nodes" THEN c.nodes ELSE t[f]]
  BY <1>1 DEF Board
<1> HIDE DEF M
<1>7. M = [t EXCEPT !.nodes = c.nodes]
  BY <1>5, <1>6
<1> QED BY <1>7 DEF M, v


\* What applying the entries of boards leaves a board with, before those of its nodes.
Half(S, t) == IF t.id \in Ids(S) THEN [t EXCEPT !.nodes = NodesOf(S, t.id)] ELSE t

LEMMA SoundFind ==
  ASSUME NEW S, Sound(S), NEW x \in S
  PROVE  /\ x \in Board /\ x # None /\ x.id \in Ids(S) /\ x.id \in BoardIds
         /\ Find(S, x.id) = x /\ Lookup(S, x.id) = x /\ NodesOf(S, x.id) = x.nodes
         /\ Nodes(x.nodes)
<1>1. x \in Board /\ Distinct(S)
  BY DEF Sound
<1>2. Find(S, x.id) = x /\ x.id \in Ids(S) /\ Lookup(S, x.id) = x
  BY <1>1, FindIs
<1>3. x.nodes \subseteq Node /\ x.id \in BoardIds /\ x # None
  BY <1>1, CanvasAssumption DEF Board
<1>4. Nodes(x.nodes)
  BY <1>3 DEF Sound, Nodes
<1> QED BY <1>1, <1>2, <1>3, <1>4 DEF NodesOf

LEMMA SoundLookup ==
  ASSUME NEW S, Sound(S), NEW id
  PROVE  /\ Lookup(S, id) = None <=> id \notin Ids(S)
         /\ id \in Ids(S) => Lookup(S, id) \in S /\ Lookup(S, id).id = id /\ Find(S, id) = Lookup(S, id)
<1>1. CASE id \in Ids(S)
  BY <1>1, FindIn, SoundFind
<1>2. CASE id \notin Ids(S)
  BY <1>2 DEF Lookup
<1> QED BY <1>1, <1>2

LEMMA FieldTypes ==
  ASSUME NEW x \in Board, NEW f \in Fields
  PROVE  x[f] \in Names \cup (SUBSET Nat) \cup BoardIds \cup {None}
<1>1. x.name \in Names /\ x.edges \in SUBSET Nat /\ x.from \in BoardIds \cup {None}
  BY DEF Board
<1>2. CASE f = "name"
  BY <1>1, <1>2
<1>3. CASE f = "edges"
  BY <1>1, <1>3
<1>4. CASE f = "from"
  <2>1. x[f] = x.from
    BY <1>4
  <2>2. x[f] \in BoardIds \cup {None}
    BY <1>1, <2>1
  <2> QED BY <2>2
<1> QED BY <1>2, <1>3, <1>4 DEF Fields

LEMMA EntryOf ==
  ASSUME NEW S, NEW T, Sound(S), Sound(T), NEW id \in Changed(S, T)
  PROVE  LET entries == Patch(S, T).boards
             value   == Find(entries, id).value
         IN /\ id \in Ids(entries) /\ Find(entries, id) \in entries
            /\ id \notin Ids(T) => value = None
            /\ id \in Ids(T) /\ id \notin Ids(S) => value = Lookup(T, id)
            /\ id \in Ids(T) /\ id \in Ids(S) =>
                 /\ value = [f \in {g \in Fields : Lookup(S, id)[g] # Lookup(T, id)[g]} |-> Lookup(T, id)[f]]
                 /\ value # None
<1> DEFINE entry(i) == BoardEntry(i, Lookup(S, i), Lookup(T, i))
           entries == Patch(S, T).boards
<1>1. entries = {entry(i) : i \in Changed(S, T)}
  BY DEF Patch
<1>2. \A i : entry(i).id = i
  BY DEF BoardEntry
<1>3. entry(id).value = IF None \in {Lookup(S, id), Lookup(T, id)} THEN Lookup(T, id)
                        ELSE [f \in {g \in Fields : Lookup(S, id)[g] # Lookup(T, id)[g]} |-> Lookup(T, id)[f]]
  BY DEF BoardEntry
<1>4. Find(entries, id) = entry(id) /\ id \in Ids(entries) /\ Find(entries, id) \in entries
  <2> HIDE DEF entry, entries
  <2>1. \A e \in entries : e.id = id => e = entry(id)
    BY <1>1, <1>2
  <2>2. entry(id) \in entries /\ entry(id).id = id
    BY <1>1, <1>2
  <2> QED BY <2>1, <2>2 DEF Find, Ids
<1>5. Lookup(S, id) = None <=> id \notin Ids(S)
  BY SoundLookup
<1>6. Lookup(T, id) = None <=> id \notin Ids(T)
  BY SoundLookup
<1>7. ASSUME id \in Ids(S), id \in Ids(T)
      PROVE  [f \in {g \in Fields : Lookup(S, id)[g] # Lookup(T, id)[g]} |-> Lookup(T, id)[f]] # None
  <2> DEFINE F == {g \in Fields : Lookup(S, id)[g] # Lookup(T, id)[g]}
  <2>1. Lookup(T, id) \in Board
    BY <1>7, SoundLookup DEF Sound
  <2>2. ASSUME NEW f \in Fields
        PROVE  Lookup(T, id)[f] \in Names \cup (SUBSET Nat) \cup BoardIds \cup {None}
    BY <2>1, FieldTypes
  <2>3. F \in SUBSET Fields
    OBVIOUS
  <2> HIDE DEF F
  <2>4. [f \in F |-> Lookup(T, id)[f]] \in Changes(F)
    BY <2>2, <2>3 DEF Changes
  <2>5. [f \in F |-> Lookup(T, id)[f]] # None
    BY <2>3, <2>4, CanvasAssumption
  <2> QED BY <2>5 DEF F
<1> HIDE DEF entry, entries
<1>8. /\ id \notin Ids(T) => Find(entries, id).value = None
      /\ id \in Ids(T) /\ id \notin Ids(S) => Find(entries, id).value = Lookup(T, id)
  BY <1>3, <1>4, <1>5, <1>6
<1>9. id \in Ids(T) /\ id \in Ids(S) =>
        Find(entries, id).value = [f \in {g \in Fields : Lookup(S, id)[g] # Lookup(T, id)[g]} |-> Lookup(T, id)[f]]
  BY <1>3, <1>4, <1>5, <1>6
<1> QED BY <1>4, <1>7, <1>8, <1>9 DEF entries

LEMMA HalfOf ==
  ASSUME NEW S, Sound(S), NEW t \in Board
  PROVE  /\ Half(S, t) \in [id : {t.id}, name : {t.name}, edges : {t.edges}, from : {t.from}, nodes : {Half(S, t).nodes}]
         /\ Half(S, t).nodes = IF t.id \in Ids(S) THEN NodesOf(S, t.id) ELSE t.nodes
         /\ [Half(S, t) EXCEPT !.nodes = t.nodes] = t
         /\ t \in S => Half(S, t) = t
<1>1. ASSUME NEW N
      PROVE  /\ [t EXCEPT !.nodes = N] \in [id : {t.id}, name : {t.name}, edges : {t.edges}, from : {t.from}, nodes : {N}]
             /\ [t EXCEPT !.nodes = N].nodes = N
             /\ [[t EXCEPT !.nodes = N] EXCEPT !.nodes = t.nodes] = t
             /\ N = t.nodes => [t EXCEPT !.nodes = N] = t
  BY DEF Board
<1>2. t \in [id : {t.id}, name : {t.name}, edges : {t.edges}, from : {t.from}, nodes : {t.nodes}]
      /\ [t EXCEPT !.nodes = t.nodes] = t
  BY DEF Board
<1>3. t \in S => t.id \in Ids(S) /\ NodesOf(S, t.id) = t.nodes
  BY SoundFind
<1>4. CASE t.id \in Ids(S)
  <2>1. Half(S, t) = [t EXCEPT !.nodes = NodesOf(S, t.id)]
    BY <1>4 DEF Half
  <2> QED BY <1>1, <1>3, <1>4, <2>1
<1>5. CASE t.id \notin Ids(S)
  <2>1. Half(S, t) = t
    BY <1>5 DEF Half
  <2> QED BY <1>2, <1>5, <2>1
<1> QED BY <1>4, <1>5

LEMMA BoardsRestored ==
  ASSUME NEW S, NEW T, Sound(S), Sound(T)
  PROVE  ApplyBoards(S, Patch(S, T).boards) = {Half(S, t) : t \in T}
<1> DEFINE entries == Patch(S, T).boards
           kept    == {c \in S : c.id \in Ids(entries) => Find(entries, c.id).value # None}
           merged(c) == IF c.id \in Ids(entries) THEN Merge(c, Find(entries, c.id).value) ELSE c
           new     == {e.value : e \in {d \in entries : d.value # None /\ d.id \notin Ids(S)}}
<1>a. \A id \in Changed(S, T) :
        /\ id \in Ids(entries) /\ Find(entries, id) \in entries
        /\ id \notin Ids(T) => Find(entries, id).value = None
        /\ id \in Ids(T) /\ id \notin Ids(S) => Find(entries, id).value = Lookup(T, id)
        /\ id \in Ids(T) /\ id \in Ids(S) =>
             /\ Find(entries, id).value
                  = [f \in {g \in Fields : Lookup(S, id)[g] # Lookup(T, id)[g]} |-> Lookup(T, id)[f]]
             /\ Find(entries, id).value # None
  BY EntryOf
<1>2. \A e \in entries : e.id \in Changed(S, T) /\ Find(entries, e.id) = e
  <2>1. entries = {BoardEntry(i, Lookup(S, i), Lookup(T, i)) : i \in Changed(S, T)}
    BY DEF Patch
  <2>2. \A i, x, y : BoardEntry(i, x, y).id = i
    BY DEF BoardEntry
  <2>3. Distinct(entries)
    <3> HIDE DEF entries
    <3> QED BY <2>1, <2>2 DEF Distinct
  <2>4. \A e \in entries : e.id \in Changed(S, T)
    <3> HIDE DEF entries
    <3> QED BY <2>1, <2>2
  <2> HIDE DEF entries
  <2> QED BY <2>3, <2>4, FindIs
<1>1. Ids(entries) = Changed(S, T)
  <2> HIDE DEF entries
  <2> QED BY <1>a, <1>2 DEF Ids
<1>3. ApplyBoards(S, entries) = {merged(c) : c \in kept} \cup new
  BY DEF ApplyBoards
<1>4. ASSUME NEW c \in S, NEW t \in T, c.id = t.id
      PROVE  c \in kept /\ merged(c) = Half(S, t)
  <2>1. c \in Board /\ t \in Board /\ c.id \in Ids(S) /\ t.id \in Ids(T) /\ NodesOf(S, t.id) = c.nodes
        /\ Lookup(S, c.id) = c /\ Lookup(T, c.id) = t
    BY <1>4, SoundFind
  <2>2. Half(S, t) = [t EXCEPT !.nodes = c.nodes]
    BY <1>4, <2>1 DEF Half
  <2>3. CASE c.id \in Changed(S, T)
    <3>1. Find(entries, c.id).value = [f \in {g \in Fields : c[g] # t[g]} |-> t[f]]
          /\ Find(entries, c.id).value # None
      <4> HIDE DEF entries
      <4> QED BY <1>4, <2>1, <2>3, <1>a
    <3>2. merged(c) = Merge(c, Find(entries, c.id).value)
      BY <1>1, <2>3
    <3> HIDE DEF merged, entries
    <3> QED BY <1>4, <2>1, <2>2, <3>1, <3>2, Merged
  <2>4. CASE c.id \notin Changed(S, T)
    <3>1. c = t
      BY <2>1, <2>4 DEF Changed
    <3>2. merged(c) = c /\ c \in kept
      BY <1>1, <2>4
    <3>3. Half(S, t) = t
      BY <2>1, <3>1, HalfOf
    <3> QED BY <3>1, <3>2, <3>3
  <2> QED BY <2>3, <2>4
<1>5. ASSUME NEW c \in kept PROVE \E t \in T : c.id = t.id
  <2>1. c \in S /\ c.id \in Ids(S) /\ Lookup(S, c.id) = c /\ c # None
    BY SoundFind
  <2>2. CASE c.id \in Changed(S, T)
    <3>1. Find(entries, c.id).value # None
      BY <1>1, <2>2
    <3>2. c.id \in Ids(T)
      <4> HIDE DEF entries
      <4> QED BY <3>1, <2>2, <1>a
    <3> QED BY <3>2, SoundLookup
  <2>3. CASE c.id \notin Changed(S, T)
    <3>1. Lookup(T, c.id) = c
      BY <2>1, <2>3 DEF Changed
    <3> QED BY <2>1, <3>1, SoundLookup
  <2> QED BY <2>2, <2>3
<1>6. ASSUME NEW e \in entries, e.value # None, e.id \notin Ids(S)
      PROVE  \E t \in T : e.value = Half(S, t)
  <2>1. e.id \in Changed(S, T) /\ Find(entries, e.id) = e
    BY <1>2
  <2>2. e.id \in Ids(T) /\ e.value = Lookup(T, e.id)
    <3> HIDE DEF entries
    <3> QED BY <1>6, <2>1, <1>a
  <2>3. Lookup(T, e.id) \in T /\ Lookup(T, e.id).id = e.id
    BY <2>2, SoundLookup
  <2>4. Half(S, Lookup(T, e.id)) = Lookup(T, e.id)
    BY <1>6, <2>3 DEF Half
  <2> QED BY <2>2, <2>3, <2>4
<1>7. ASSUME NEW t \in T, t.id \notin Ids(S)
      PROVE  Half(S, t) \in new
  <2>1. t.id \in Ids(T) /\ Lookup(T, t.id) = t /\ t # None
    BY SoundFind
  <2>2. t.id \in Changed(S, T)
    BY <1>7, <2>1, SoundLookup DEF Changed
  <2> DEFINE e == Find(entries, t.id)
  <2>3. e \in entries /\ e.value = t /\ e.id = t.id
    <3>1. e \in entries /\ e.value = t /\ t.id \in Ids(entries)
      <4> HIDE DEF entries
      <4> QED BY <1>7, <2>1, <2>2, <1>a
    <3> HIDE DEF entries
    <3> QED BY <3>1, FindIn
  <2>4. Half(S, t) = t
    BY <1>7 DEF Half
  <2> HIDE DEF e, entries
  <2> QED BY <1>7, <2>1, <2>3, <2>4
<1>8. ASSUME NEW t \in T PROVE Half(S, t) \in {merged(c) : c \in kept} \cup new
  <2>1. CASE t.id \in Ids(S)
    <3>1. Lookup(S, t.id) \in S /\ Lookup(S, t.id).id = t.id
      BY <2>1, SoundLookup
    <3>2. Lookup(S, t.id) \in kept /\ merged(Lookup(S, t.id)) = Half(S, t)
      BY <1>4, <3>1
    <3> HIDE DEF kept, merged
    <3> QED BY <3>2
  <2>2. CASE t.id \notin Ids(S)
    BY <2>2, <1>7
  <2> QED BY <2>1, <2>2
<1>9. ASSUME NEW x \in {merged(c) : c \in kept} \cup new PROVE \E t \in T : x = Half(S, t)
  <2>1. CASE x \in new
    BY <2>1, <1>6
  <2>2. CASE x \in {merged(c) : c \in kept}
    <3>1. PICK c \in kept : x = merged(c)
      BY <2>2
    <3>2. PICK t \in T : c.id = t.id
      BY <1>5
    <3>3. c \in S
      OBVIOUS
    <3>4. merged(c) = Half(S, t)
      BY <1>4, <3>2, <3>3
    <3> QED BY <3>1, <3>4
  <2> QED BY <2>1, <2>2
<1> HIDE DEF entries, kept, merged, new
<1>10. ApplyBoards(S, entries) = {Half(S, t) : t \in T}
  BY <1>3, <1>8, <1>9
<1> QED BY <1>10 DEF entries

\* A patch between two documents makes the second of the first.
LEMMA PatchExact ==
  ASSUME NEW S, NEW T, Sound(S), Sound(T)
  PROVE  ApplyPatch(S, Patch(S, T)) = T
<1> DEFINE P == Patch(S, T)
           of(b) == {e \in P.nodes : e.board = b}
           whole(b) == [b EXCEPT !.nodes = ApplyNodes(@, of(b.id))]
<1>1. ApplyPatch(S, P) = {whole(b) : b \in {Half(S, t) : t \in T}}
  BY BoardsRestored DEF ApplyPatch
<1>2. ASSUME NEW t \in T PROVE whole(Half(S, t)) = t
  <2>1. t \in Board /\ t.id \in Ids(T) /\ NodesOf(T, t.id) = t.nodes /\ Nodes(t.nodes) /\ Lookup(T, t.id) = t /\ t # None
    BY SoundFind
  <2>2. /\ Half(S, t).id = t.id /\ [Half(S, t) EXCEPT !.nodes = t.nodes] = t
        /\ Half(S, t).nodes = IF t.id \in Ids(S) THEN NodesOf(S, t.id) ELSE t.nodes
        /\ t \in S => Half(S, t) = t
    <3>1. t \in Board
      BY <2>1
    <3>2. /\ Half(S, t) \in [id : {t.id}, name : {t.name}, edges : {t.edges}, from : {t.from}, nodes : {Half(S, t).nodes}]
          /\ Half(S, t).nodes = IF t.id \in Ids(S) THEN NodesOf(S, t.id) ELSE t.nodes
          /\ [Half(S, t) EXCEPT !.nodes = t.nodes] = t
          /\ t \in S => Half(S, t) = t
      BY <3>1, HalfOf
    <3>3. Half(S, t).id = t.id
      BY <3>2
    <3> HIDE DEF P, of, whole
    <3> QED BY <3>2, <3>3
  <2>3. P.nodes = UNION {Entries(NodesOf(S, b), NodesOf(T, b), b) : b \in Changed(S, T) \cap Ids(S) \cap Ids(T)}
    BY DEF Patch, Entries
  <2>4. \A b : \A e \in Entries(NodesOf(S, b), NodesOf(T, b), b) : e.board = b
    BY DEF Entries
  <2>5. of(t.id) = IF t.id \in Changed(S, T) \cap Ids(S) THEN Entries(NodesOf(S, t.id), t.nodes, t.id) ELSE {}
    <3> HIDE DEF P
    <3> QED BY <2>1, <2>3, <2>4
  <2>6. ApplyNodes(Half(S, t).nodes, of(t.id)) = t.nodes
    <3>1. CASE t.id \in Changed(S, T) \cap Ids(S)
      <4>1. Nodes(NodesOf(S, t.id))
        BY <3>1, SoundLookup, SoundFind
      <4> HIDE DEF of
      <4>2. Half(S, t).nodes = NodesOf(S, t.id) /\ of(t.id) = Entries(NodesOf(S, t.id), t.nodes, t.id)
        BY <2>2, <2>5, <3>1
      <4>3. ApplyNodes(NodesOf(S, t.id), Entries(NodesOf(S, t.id), t.nodes, t.id)) = t.nodes
        BY <2>1, <4>1, NodesRestored
      <4> QED BY <4>2, <4>3
    <3>2. CASE t.id \notin Ids(S)
      <4> HIDE DEF of
      <4>1. Half(S, t).nodes = t.nodes /\ of(t.id) = {}
        BY <2>2, <2>5, <3>2
      <4>2. ApplyNodes(t.nodes, {}) = t.nodes
        BY <2>1, NoEntries
      <4> QED BY <4>1, <4>2
    <3>3. CASE t.id \in Ids(S) /\ t.id \notin Changed(S, T)
      <4>1. Lookup(S, t.id) = t /\ t \in S
        BY <2>1, <3>3, SoundLookup DEF Changed
      <4>2. Half(S, t) = t
        BY <2>2, <4>1
      <4>3. of(t.id) = {}
        BY <2>5, <3>3
      <4>4. ApplyNodes(t.nodes, {}) = t.nodes
        BY <2>1, NoEntries
      <4> HIDE DEF of
      <4> QED BY <4>2, <4>3, <4>4
    <3> QED BY <3>1, <3>2, <3>3
  <2> HIDE DEF of
  <2> QED BY <2>2, <2>6
<1> HIDE DEF P, whole
<1>3. ApplyPatch(S, P) = T
  BY <1>1, <1>2
<1> QED BY <1>3 DEF P

-----------------------------------------------------------------------------
(* Documents: what a command makes of one is one.                        *)

\* Nodes of which the children are among the ids.
NodesIn(N, ids) == N \subseteq Node /\ Distinct(N) /\ \A n \in N : n.kids \subseteq ids

LEMMA SoundIs ==
  ASSUME NEW B
  PROVE  Sound(B) <=> B \subseteq Board /\ Distinct(B) /\ \A b \in B : NodesIn(b.nodes, Ids(b.nodes))
<1>1. \A b \in Board : b.nodes \subseteq Node
  BY DEF Board
<1> QED BY <1>1 DEF Sound, NodesIn

LEMMA NodesMapped ==
  ASSUME NEW N, NEW M, NEW ids, NEW f, Distinct(N), M = {f[n] : n \in N},
         \A n \in N : f[n] \in Node /\ f[n].id = n.id /\ f[n].kids \subseteq ids
  PROVE  NodesIn(M, ids) /\ Ids(M) = Ids(N)
BY DEF NodesIn, Distinct, Ids

LEMMA NodeAdded ==
  ASSUME NEW N, NEW ids, NEW n \in Node, NodesIn(N, ids), n.id \notin Ids(N), n.kids \subseteq ids
  PROVE  NodesIn(N \cup {n}, ids) /\ Ids(N \cup {n}) = Ids(N) \cup {n.id}
BY DEF NodesIn, Distinct, Ids

LEMMA BoardsMapped ==
  ASSUME NEW B, NEW C, NEW f, Sound(B), C = {f[b] : b \in B},
         \A b \in B : f[b] \in Board /\ f[b].id = b.id /\ NodesIn(f[b].nodes, Ids(f[b].nodes))
  PROVE  Sound(C)
BY SoundIs DEF Distinct

LEMMA BoardAdded ==
  ASSUME NEW B, Sound(B), NEW b \in Board, b.id \notin Ids(B), NodesIn(b.nodes, Ids(b.nodes))
  PROVE  Sound(B \cup {b})
<1>1. B \subseteq Board /\ Distinct(B) /\ \A x \in B : NodesIn(x.nodes, Ids(x.nodes))
  BY SoundIs
<1>2. Distinct(B \cup {b})
  BY <1>1 DEF Distinct, Ids
<1>3. \A x \in B \cup {b} : NodesIn(x.nodes, Ids(x.nodes))
  BY <1>1
<1> QED BY <1>1, <1>2, <1>3, SoundIs

LEMMA CommandParts ==
  ASSUME NEW c \in Command
  PROVE  /\ c.board \in BoardIds
         /\ c.kind \in {"board-add", "board-change", "board-delete", "flow-edges", "scheme-derive", "node-add",
                        "node-change", "node-delete", "node-duplicate", "node-group"}
         /\ c.kind \in {"board-add", "board-change", "scheme-derive"} => c.name \in Names
         /\ c.kind = "flow-edges" => c.edges \in SUBSET Nat
         /\ c.kind = "scheme-derive" => c.new \in BoardIds
         /\ c.kind = "node-add" => c.new \in Nat /\ c.type \in Types /\ c.look \in Looks
         /\ c.kind = "node-change" => c.look \in Looks
         /\ c.kind \in {"node-change", "node-delete", "node-duplicate", "node-group"} => c.nodes \in SUBSET Nat
         /\ c.kind \in {"node-duplicate", "node-group"} => c.new \in Nat
         /\ c.kind = "node-group" => c.look \in Looks
<1>1. CASE c \in [kind : {"board-add", "board-change", "board-delete"}, board : BoardIds, name : Names]
  BY <1>1
<1>2. CASE c \in [kind : {"flow-edges"}, board : BoardIds, edges : SUBSET Nat]
  BY <1>2
<1>3. CASE c \in [kind : {"scheme-derive"}, board : BoardIds, new : BoardIds, name : Names]
  BY <1>3
<1>4. CASE c \in [kind : {"node-add"}, board : BoardIds, new : Nat, type : Types, look : Looks, parent : Nat \cup {None}]
  BY <1>4
<1>5. CASE c \in [kind : {"node-change"}, board : BoardIds, nodes : SUBSET Nat, look : Looks]
  BY <1>5
<1>6. CASE c \in [kind : {"node-delete"}, board : BoardIds, nodes : SUBSET Nat]
  BY <1>6
<1>7. CASE c \in [kind : {"node-duplicate"}, board : BoardIds, nodes : SUBSET Nat, new : Nat]
  BY <1>7
<1>8. CASE c \in [kind : {"node-group"}, board : BoardIds, nodes : SUBSET Nat, new : Nat, look : Looks]
  BY <1>8
<1> QED BY <1>1, <1>2, <1>3, <1>4, <1>5, <1>6, <1>7, <1>8 DEF Command

LEMMA KidsChanged ==
  ASSUME NEW n \in Node, NEW K \in SUBSET Nat
  PROVE  [n EXCEPT !.kids = K] \in Node /\ [n EXCEPT !.kids = K].id = n.id /\ [n EXCEPT !.kids = K].kids = K
BY DEF Node

LEMMA LookChanged ==
  ASSUME NEW n \in Node, NEW l \in Looks
  PROVE  [n EXCEPT !.look = l] \in Node /\ [n EXCEPT !.look = l].id = n.id /\ [n EXCEPT !.look = l].kids = n.kids
BY DEF Node

LEMMA NodeParts ==
  ASSUME NEW n \in Node
  PROVE  n.id \in Nat /\ n.kids \in SUBSET Nat
BY DEF Node

LEMMA OrphanSound ==
  ASSUME NEW N, NEW ids, NEW keep, NodesIn(N, ids), NEW lost, NEW rest,
         ids \ lost \subseteq rest, \A n \in N : n.id \in keep => n.kids \subseteq rest
  PROVE  NodesIn(Orphan(N, lost, keep), rest) /\ Ids(Orphan(N, lost, keep)) = Ids(N)
<1> DEFINE f == [n \in N |-> IF n.id \in keep THEN n ELSE [n EXCEPT !.kids = @ \ lost]]
<1>1. Orphan(N, lost, keep) = {f[n] : n \in N}
  BY DEF Orphan
<1>2. ASSUME NEW n \in N PROVE f[n] \in Node /\ f[n].id = n.id /\ f[n].kids \subseteq rest
  <2>1. n \in Node /\ n.kids \subseteq ids
    BY DEF NodesIn
  <2>2. n.kids \ lost \in SUBSET Nat /\ n.kids \ lost \subseteq rest
    BY <2>1, NodeParts
  <2>3. [n EXCEPT !.kids = n.kids \ lost] \in Node /\ [n EXCEPT !.kids = n.kids \ lost].id = n.id
        /\ [n EXCEPT !.kids = n.kids \ lost].kids = n.kids \ lost
    BY <2>1, <2>2, KidsChanged
  <2>4. CASE n.id \in keep
    BY <2>1, <2>4
  <2>5. CASE n.id \notin keep
    <3>1. f[n] = [n EXCEPT !.kids = n.kids \ lost]
      BY <2>5
    <3> HIDE DEF f
    <3> QED BY <2>2, <2>3, <3>1
  <2> QED BY <2>4, <2>5
<1>3. Distinct(N)
  BY DEF NodesIn
<1> HIDE DEF f
<1>4. \A n \in N : f[n] \in Node /\ f[n].id = n.id /\ f[n].kids \subseteq rest
  BY <1>2
<1> DEFINE M == Orphan(N, lost, keep)
<1>5. M = {f[n] : n \in N}
  BY <1>1
<1> HIDE DEF M
<1>6. NodesIn(M, rest) /\ Ids(M) = Ids(N)
  BY <1>3, <1>4, <1>5, NodesMapped
<1> QED BY <1>6 DEF M

LEMMA NodesAfterSound ==
  ASSUME NEW N, NodesIn(N, Ids(N)), NEW c \in Command,
         c.kind \in {"node-add", "node-change", "node-delete", "node-duplicate", "node-group"},
         c.kind = "node-duplicate" => \E n \in c.nodes : c.nodes = {n},
         c.kind \in {"node-add", "node-duplicate", "node-group"} => c.new \notin Ids(N),
         c.kind \in {"node-change", "node-duplicate", "node-delete", "node-group"} => c.nodes \subseteq Ids(N)
  PROVE  NodesIn(NodesAfter(N, c), Ids(NodesAfter(N, c)))
<1> DEFINE new == [id |-> c.new, type |-> c.type, kids |-> {}, look |-> c.look]
<1>n. N \subseteq Node /\ Distinct(N) /\ \A n \in N : n.kids \subseteq Ids(N) /\ n.id \in Ids(N)
  BY DEF NodesIn, Ids
<1>c. c.kind \in {"node-change", "node-delete", "node-duplicate", "node-group"} => c.nodes \in SUBSET Nat
  BY CommandParts
<1>1. CASE c.kind = "node-add"
  <2> DEFINE f == [n \in N |-> IF n.id \in {c.parent} THEN [n EXCEPT !.kids = @ \cup {c.new}] ELSE n]
             M == Alter(N, {c.parent}, LAMBDA n : [n EXCEPT !.kids = @ \cup {c.new}])
             rest == Ids(N) \cup {c.new}
  <2>1. c.new \in Nat /\ c.type \in Types /\ c.look \in Looks /\ c.new \notin Ids(N)
    BY <1>1, CommandParts
  <2>2. NodesAfter(N, c) = M \cup {new}
    BY <1>1 DEF NodesAfter
  <2>3. ASSUME NEW n \in N PROVE f[n] \in Node /\ f[n].id = n.id /\ f[n].kids \subseteq rest
    <3>1. n.kids \cup {c.new} \in SUBSET Nat /\ n.kids \cup {c.new} \subseteq rest
      BY <1>n, <2>1, NodeParts
    <3>2. f[n] = IF n.id \in {c.parent} THEN [n EXCEPT !.kids = n.kids \cup {c.new}] ELSE n
      OBVIOUS
    <3>3. [n EXCEPT !.kids = n.kids \cup {c.new}] \in Node /\ [n EXCEPT !.kids = n.kids \cup {c.new}].id = n.id
          /\ [n EXCEPT !.kids = n.kids \cup {c.new}].kids = n.kids \cup {c.new}
      BY <1>n, <3>1, KidsChanged
    <3>4. n \in Node /\ n.kids \subseteq rest
      BY <1>n
    <3> HIDE DEF f
    <3> QED BY <3>1, <3>2, <3>3, <3>4
  <2>4. NodesIn(M, rest) /\ Ids(M) = Ids(N)
    <3>1. M = {f[n] : n \in N}
      BY DEF Alter
    <3>2. \A n \in N : f[n] \in Node /\ f[n].id = n.id /\ f[n].kids \subseteq rest
      BY <2>3
    <3> HIDE DEF f, M, rest
    <3> QED BY <1>n, <3>1, <3>2, NodesMapped
  <2>5. new \in Node /\ new.id = c.new /\ new.kids = {}
    BY <2>1 DEF Node
  <2> HIDE DEF new, M
  <2>6. NodesIn(M \cup {new}, rest) /\ Ids(M \cup {new}) = Ids(M) \cup {new.id}
    BY <2>1, <2>4, <2>5, NodeAdded
  <2> QED BY <2>2, <2>4, <2>5, <2>6
<1>2. CASE c.kind = "node-change"
  <2> DEFINE f == [n \in N |-> IF n.id \in c.nodes THEN [n EXCEPT !.look = c.look] ELSE n]
             M == Alter(N, c.nodes, LAMBDA n : [n EXCEPT !.look = c.look])
  <2>1. NodesAfter(N, c) = M
    BY <1>2 DEF NodesAfter
  <2>2. c.look \in Looks
    BY <1>2, CommandParts
  <2>3. ASSUME NEW n \in N PROVE f[n] \in Node /\ f[n].id = n.id /\ f[n].kids \subseteq Ids(N)
    <3>1. f[n] = IF n.id \in c.nodes THEN [n EXCEPT !.look = c.look] ELSE n
      OBVIOUS
    <3>2. [n EXCEPT !.look = c.look] \in Node /\ [n EXCEPT !.look = c.look].id = n.id
          /\ [n EXCEPT !.look = c.look].kids = n.kids
      BY <1>n, <2>2, LookChanged
    <3> HIDE DEF f
    <3> QED BY <1>n, <3>1, <3>2
  <2>4. NodesIn(M, Ids(N)) /\ Ids(M) = Ids(N)
    <3>1. M = {f[n] : n \in N}
      BY DEF Alter
    <3>2. \A n \in N : f[n] \in Node /\ f[n].id = n.id /\ f[n].kids \subseteq Ids(N)
      BY <2>3
    <3> HIDE DEF f, M
    <3> QED BY <1>n, <3>1, <3>2, NodesMapped
  <2> HIDE DEF M
  <2> QED BY <2>1, <2>4
<1>3. CASE c.kind = "node-delete"
  <2> DEFINE M == Without(N, c.nodes)
  <2>1. NodesAfter(N, c) = Orphan(M, c.nodes, {})
    BY <1>3 DEF NodesAfter
  <2>2. NodesIn(M, Ids(N)) /\ Ids(M) = Ids(N) \ c.nodes
    BY <1>n DEF NodesIn, Without, Distinct, Ids
  <2> HIDE DEF M
  <2>3. NodesIn(Orphan(M, c.nodes, {}), Ids(M)) /\ Ids(Orphan(M, c.nodes, {})) = Ids(M)
    BY <2>2, OrphanSound
  <2> QED BY <2>1, <2>3
<1>4. CASE c.kind = "node-duplicate"
  <2>1. PICK i \in c.nodes : c.nodes = {i}
    BY <1>4
  <2>2. i \in Ids(N) /\ c.new \in Nat /\ c.new \notin Ids(N)
    BY <1>4, <2>1, CommandParts
  <2>3. PICK m \in N : m.id = i
    BY <2>2 DEF Ids
  <2> DEFINE copy == [m EXCEPT !.id = c.new, !.kids = {}]
  <2> DEFINE sources == {x \in N : x.id \in c.nodes}
  <2>4. sources = {m}
    BY <1>n, <2>1, <2>3 DEF Distinct
  <2> DEFINE copies == {[x EXCEPT !.id = c.new, !.kids = {}] : x \in sources}
  <2>5. NodesAfter(N, c) = N \cup copies
    BY <1>4 DEF NodesAfter
  <2>6. NodesAfter(N, c) = N \cup {copy}
    <3>1. copies = {copy}
      <4> HIDE DEF sources
      <4> QED BY <2>4
    <3> HIDE DEF copies, copy
    <3> QED BY <2>5, <3>1
  <2>7. copy \in Node /\ copy.id = c.new /\ copy.kids = {}
    BY <1>n, <2>2 DEF Node
  <2> HIDE DEF copy
  <2>8. NodesIn(N, Ids(N) \cup {c.new})
    BY <1>n DEF NodesIn
  <2>9. NodesIn(N \cup {copy}, Ids(N) \cup {c.new}) /\ Ids(N \cup {copy}) = Ids(N) \cup {copy.id}
    BY <2>2, <2>7, <2>8, NodeAdded
  <2> QED BY <2>6, <2>7, <2>9
<1>5. CASE c.kind = "node-group"
  <2> DEFINE group == [id |-> c.new, type |-> "container", kids |-> c.nodes, look |-> c.look]
             M == Orphan(N, c.nodes, c.nodes)
             rest == Ids(N) \cup {c.new}
  <2>1. NodesAfter(N, c) = M \cup {group}
    BY <1>5 DEF NodesAfter
  <2>2. c.new \in Nat /\ c.new \notin Ids(N) /\ c.nodes \subseteq Ids(N) /\ c.look \in Looks /\ c.nodes \in SUBSET Nat
    BY <1>5, CommandParts
  <2>3. NodesIn(M, rest) /\ Ids(M) = Ids(N)
    BY <1>n, OrphanSound
  <2>4. group \in Node /\ group.id = c.new /\ group.kids = c.nodes
    BY <2>2 DEF Node, Types
  <2> HIDE DEF group, M
  <2>5. NodesIn(M \cup {group}, rest) /\ Ids(M \cup {group}) = Ids(M) \cup {group.id}
    BY <2>2, <2>3, <2>4, NodeAdded
  <2> QED BY <2>1, <2>3, <2>4, <2>5
<1> QED BY <1>1, <1>2, <1>3, <1>4, <1>5

LEMMA BoardParts ==
  ASSUME NEW b \in Board
  PROVE  /\ b.id \in BoardIds /\ b.edges \in SUBSET Nat /\ b.nodes \subseteq Node
BY DEF Board

LEMMA NameChanged ==
  ASSUME NEW b \in Board, NEW n \in Names
  PROVE  /\ [b EXCEPT !.name = n] \in Board /\ [b EXCEPT !.name = n].id = b.id
         /\ [b EXCEPT !.name = n].nodes = b.nodes
BY DEF Board

LEMMA EdgesChanged ==
  ASSUME NEW b \in Board, NEW e \in SUBSET Nat
  PROVE  /\ [b EXCEPT !.edges = e] \in Board /\ [b EXCEPT !.edges = e].id = b.id
         /\ [b EXCEPT !.edges = e].nodes = b.nodes
BY DEF Board

LEMMA NodesChanged ==
  ASSUME NEW b \in Board, NEW N \in SUBSET Node
  PROVE  /\ [b EXCEPT !.nodes = N] \in Board /\ [b EXCEPT !.nodes = N].id = b.id
         /\ [b EXCEPT !.nodes = N].nodes = N
BY DEF Board

LEMMA DerivedSound ==
  ASSUME NEW board \in Board, NodesIn(board.nodes, Ids(board.nodes)), NEW c, c.new \in BoardIds, c.name \in Names
  PROVE  LET d == Derived(board, c)
         IN d \in Board /\ d.id = c.new /\ NodesIn(d.nodes, Ids(d.nodes))
<1> DEFINE N == board.nodes
           copy(n) == [n EXCEPT !.id = Copied(@, N), !.kids = {Copied(k, N) : k \in @}]
           M == {copy(n) : n \in N}
           E == {Copied(e, N) : e \in board.edges}
<1>1. N \subseteq Node /\ Distinct(N) /\ \A n \in N : n.kids \subseteq Ids(N) /\ n.id \in Ids(N) /\ n.id \in Nat
  BY NodeParts DEF NodesIn, Ids
<1>2. Fresh \in Nat
  BY CanvasAssumption
<1>3. \A i \in Nat : Copied(i, N) \in Nat
  BY <1>2 DEF Copied
<1>4. \A i \in Ids(N) : Copied(i, N) = i + Fresh
  BY DEF Copied
<1>5. ASSUME NEW n \in N
      PROVE  copy(n) \in Node /\ copy(n).id = n.id + Fresh /\ copy(n).kids = {k + Fresh : k \in n.kids}
  <2>1. n \in Node /\ n.kids \in SUBSET Nat /\ n.kids \subseteq Ids(N) /\ n.id \in Ids(N) /\ n.id \in Nat
    BY <1>1, NodeParts
  <2> DEFINE K == {Copied(k, N) : k \in n.kids}
             i == Copied(n.id, N)
  <2>2. K \in SUBSET Nat /\ i \in Nat
    BY <1>3, <2>1
  <2>3. K = {k + Fresh : k \in n.kids} /\ i = n.id + Fresh
    BY <1>4, <2>1
  <2>4. copy(n) = [n EXCEPT !.id = i, !.kids = K]
    OBVIOUS
  <2> HIDE DEF K, i, copy
  <2>5. [n EXCEPT !.id = i, !.kids = K] \in Node /\ [n EXCEPT !.id = i, !.kids = K].id = i
        /\ [n EXCEPT !.id = i, !.kids = K].kids = K
    BY <2>1, <2>2 DEF Node
  <2> QED BY <2>3, <2>4, <2>5
<1> HIDE DEF copy
<1>6. Ids(M) = {i + Fresh : i \in Ids(N)}
  BY <1>5 DEF Ids
<1>7. Distinct(M)
  <2>1. ASSUME NEW n \in N, NEW m \in N, copy(n).id = copy(m).id PROVE n = m
    <3>1. n.id = m.id
      BY <1>1, <1>2, <1>5, <2>1
    <3> QED BY <1>1, <3>1 DEF Distinct
  <2> QED BY <2>1 DEF Distinct
<1>8. M \subseteq Node /\ \A m \in M : m.kids \subseteq Ids(M)
  <2>1. ASSUME NEW n \in N PROVE copy(n) \in Node /\ copy(n).kids \subseteq Ids(M)
    BY <1>1, <1>5, <1>6
  <2> QED BY <2>1
<1>9. E \in SUBSET Nat
  BY <1>3, BoardParts
<1>10. Derived(board, c) = [id |-> c.new, name |-> c.name, from |-> board.id, edges |-> E, nodes |-> M]
  BY DEF Derived, copy
<1> HIDE DEF E, M
<1>11. board.id \in BoardIds
  BY BoardParts
<1>12. [id |-> c.new, name |-> c.name, from |-> board.id, edges |-> E, nodes |-> M] \in Board
  BY <1>8, <1>9, <1>11 DEF Board
<1> QED BY <1>7, <1>8, <1>10, <1>12 DEF NodesIn

LEMMA AlterSound ==
  ASSUME NEW B, NEW C, NEW f, Sound(B), C = {f[b] : b \in B},
         \A b \in B : f[b] = b \/ (f[b] \in Board /\ f[b].id = b.id /\ NodesIn(f[b].nodes, Ids(f[b].nodes)))
  PROVE  Sound(C)
<1>1. \A b \in B : b \in Board /\ NodesIn(b.nodes, Ids(b.nodes))
  BY SoundIs
<1>2. \A b \in B : f[b] \in Board /\ f[b].id = b.id /\ NodesIn(f[b].nodes, Ids(f[b].nodes))
  BY <1>1
<1> QED BY <1>2, BoardsMapped

\* A batch that runs: the commands clients send, one node duplicated at a time.
Runnable(c) == c \in Command /\ (c.kind = "node-duplicate" => \E n \in c.nodes : c.nodes = {n})

LEMMA AfterSound ==
  ASSUME NEW B, Sound(B), NEW c, Runnable(c), Accepts(B, c)
  PROVE  Sound(After(B, c))
<1>1. c \in Command /\ c.board \in BoardIds
  BY CommandParts DEF Runnable
<1>2. \A b \in B : b \in Board /\ NodesIn(b.nodes, Ids(b.nodes))
  BY SoundIs
<1>3. CASE c.kind = "board-add"
  <2> DEFINE b == [id |-> c.board, name |-> c.name, edges |-> {}, from |-> None, nodes |-> {}]
  <2>1. After(B, c) = B \cup {b}
    BY <1>3 DEF After
  <2>2. c.board \notin Ids(B) /\ c.name \in Names
    BY <1>1, <1>3, CommandParts DEF Accepts
  <2>3. b \in Board /\ b.id = c.board /\ b.nodes = {}
    BY <1>1, <2>2 DEF Board
  <2>4. NodesIn({}, Ids({}))
    BY DEF NodesIn, Distinct
  <2> HIDE DEF b
  <2>5. Sound(B \cup {b})
    BY <2>2, <2>3, <2>4, BoardAdded
  <2> QED BY <2>1, <2>5
<1>4. CASE c.kind = "board-change"
  <2> DEFINE f == [b \in B |-> IF b.id \in {c.board} THEN [b EXCEPT !.name = c.name] ELSE b]
             C == Alter(B, {c.board}, LAMBDA b : [b EXCEPT !.name = c.name])
  <2>1. After(B, c) = C
    BY <1>4 DEF After
  <2>2. C = {f[b] : b \in B}
    BY DEF Alter
  <2>3. c.name \in Names
    BY <1>1, <1>4, CommandParts
  <2>4. ASSUME NEW b \in B
        PROVE  f[b] = b \/ (f[b] \in Board /\ f[b].id = b.id /\ NodesIn(f[b].nodes, Ids(f[b].nodes)))
    <3>1. [b EXCEPT !.name = c.name] \in Board /\ [b EXCEPT !.name = c.name].id = b.id
          /\ [b EXCEPT !.name = c.name].nodes = b.nodes
      BY <1>2, <2>3, NameChanged
    <3>2. f[b] = IF b.id \in {c.board} THEN [b EXCEPT !.name = c.name] ELSE b
      OBVIOUS
    <3> HIDE DEF f
    <3> QED BY <1>2, <3>1, <3>2
  <2> HIDE DEF f, C
  <2> QED BY <2>1, <2>2, <2>4, AlterSound
<1>5. CASE c.kind = "flow-edges"
  <2> DEFINE f == [b \in B |-> IF b.id \in {c.board} THEN [b EXCEPT !.edges = c.edges] ELSE b]
             C == Alter(B, {c.board}, LAMBDA b : [b EXCEPT !.edges = c.edges])
  <2>1. After(B, c) = C
    BY <1>5 DEF After
  <2>2. C = {f[b] : b \in B}
    BY DEF Alter
  <2>3. c.edges \in SUBSET Nat
    BY <1>1, <1>5, CommandParts
  <2>4. ASSUME NEW b \in B
        PROVE  f[b] = b \/ (f[b] \in Board /\ f[b].id = b.id /\ NodesIn(f[b].nodes, Ids(f[b].nodes)))
    <3>1. [b EXCEPT !.edges = c.edges] \in Board /\ [b EXCEPT !.edges = c.edges].id = b.id
          /\ [b EXCEPT !.edges = c.edges].nodes = b.nodes
      BY <1>2, <2>3, EdgesChanged
    <3>2. f[b] = IF b.id \in {c.board} THEN [b EXCEPT !.edges = c.edges] ELSE b
      OBVIOUS
    <3> HIDE DEF f
    <3> QED BY <1>2, <3>1, <3>2
  <2> HIDE DEF f, C
  <2> QED BY <2>1, <2>2, <2>4, AlterSound
<1>6. CASE c.kind = "board-delete"
  <2>1. After(B, c) = Without(B, {c.board})
    BY <1>6 DEF After
  <2>2. Sound(Without(B, {c.board}))
    BY DEF Sound, Without, Distinct
  <2> QED BY <2>1, <2>2
<1>7. CASE c.kind = "scheme-derive"
  <2> DEFINE b == Find(B, c.board)
             d == Derived(b, c)
  <2>1. After(B, c) = B \cup {d}
    BY <1>7 DEF After
  <2>2. c.new \in BoardIds /\ c.name \in Names /\ c.new \notin Ids(B) /\ c.board \in Ids(B)
    BY <1>1, <1>7, CommandParts DEF Accepts
  <2>3. b \in B
    BY <2>2, FindIn
  <2> HIDE DEF b
  <2>4. d \in Board /\ d.id = c.new /\ NodesIn(d.nodes, Ids(d.nodes))
    BY <1>2, <2>2, <2>3, DerivedSound
  <2> HIDE DEF d
  <2>5. Sound(B \cup {d})
    BY <2>2, <2>4, BoardAdded
  <2> QED BY <2>1, <2>5
<1>8. CASE c.kind \in {"node-add", "node-change", "node-delete", "node-duplicate", "node-group"}
  <2> DEFINE f == [b \in B |-> IF b.id \in {c.board} THEN [b EXCEPT !.nodes = NodesAfter(@, c)] ELSE b]
             C == Alter(B, {c.board}, LAMBDA b : [b EXCEPT !.nodes = NodesAfter(@, c)])
  <2>1. After(B, c) = C
    BY <1>8 DEF After
  <2>2. C = {f[b] : b \in B}
    BY DEF Alter
  <2>3. c.board \in Ids(B)
    BY <1>8 DEF Accepts
  <2>4. ASSUME NEW b \in B
        PROVE  f[b] = b \/ (f[b] \in Board /\ f[b].id = b.id /\ NodesIn(f[b].nodes, Ids(f[b].nodes)))
    <3>1. CASE b.id = c.board
      <4> DEFINE N == NodesAfter(b.nodes, c)
      <4>1. NodesOf(B, c.board) = b.nodes
        BY <3>1, SoundFind
      <4>2. /\ c.kind = "node-duplicate" => \E n \in c.nodes : c.nodes = {n}
            /\ c.kind \in {"node-add", "node-duplicate", "node-group"} => c.new \notin Ids(b.nodes)
            /\ c.kind \in {"node-change", "node-duplicate", "node-delete", "node-group"} => c.nodes \subseteq Ids(b.nodes)
        BY <4>1 DEF Accepts, Runnable
      <4>3. NodesIn(N, Ids(N))
        BY <1>1, <1>2, <1>8, <4>2, NodesAfterSound
      <4>4. N \in SUBSET Node /\ b \in Board
        BY <1>2, <4>3 DEF NodesIn
      <4>5. f[b] = [b EXCEPT !.nodes = N]
        BY <3>1
      <4> HIDE DEF N, f
      <4>6. [b EXCEPT !.nodes = N] \in Board /\ [b EXCEPT !.nodes = N].id = b.id /\ [b EXCEPT !.nodes = N].nodes = N
        BY <4>4, NodesChanged
      <4> QED BY <4>3, <4>5, <4>6
    <3>2. CASE b.id # c.board
      BY <3>2
    <3> QED BY <3>1, <3>2
  <2> HIDE DEF f, C
  <2> QED BY <2>1, <2>2, <2>4, AlterSound
<1> QED BY <1>1, <1>3, <1>4, <1>5, <1>6, <1>7, <1>8, CommandParts

-----------------------------------------------------------------------------
(* The documents on the way of a batch.                                  *)

LEMMA SetInduction ==
  ASSUME NEW S, 0 \in S, \A n \in Nat : n \in S => n + 1 \in S
  PROVE  Nat \subseteq S
<1> DEFINE T == Nat \ S
           R == OpToRel(<, Nat)
<1>1. IsWellFoundedOn(R, Nat)
  BY NatLessThanWellFounded
<1>2. \A x, y \in Nat : y < x => <<y, x>> \in R
  BY DEF OpToRel
<1> HIDE DEF R
<1> SUFFICES ASSUME T # {} PROVE FALSE
  OBVIOUS
<1>3. PICK x \in T : \A y \in T : ~ (<<y, x>> \in R)
  <2>1. T \subseteq Nat
    OBVIOUS
  <2> HIDE DEF T
  <2> QED BY <1>1, <2>1, WFMin
<1>4. x # 0 /\ x - 1 \in Nat /\ x - 1 \in T
  BY <1>3
<1>5. x \in Nat /\ x - 1 < x
  BY <1>3
<1>6. <<x - 1, x>> \in R
  <2> HIDE DEF T
  <2> QED BY <1>2, <1>4, <1>5
<1> QED BY <1>3, <1>4, <1>6

\* The documents of a batch, one command after the other.
Walk(f, B, batch, n) == f = [i \in 0..n |-> IF i = 0 THEN B ELSE After(f[i - 1], batch[i])]

LEMMA StagesExist ==
  ASSUME NEW B, NEW batch, NEW n \in Nat
  PROVE  \E f : Walk(f, B, batch, n)
<1> DEFINE S == {m \in Nat : \E f : Walk(f, B, batch, m)}
<1>1. 0 \in S
  <2> DEFINE f == [i \in 0..0 |-> B]
  <2>1. f = [i \in 0..0 |-> IF i = 0 THEN B ELSE After(f[i - 1], batch[i])]
    OBVIOUS
  <2>2. Walk(f, B, batch, 0)
    BY <2>1 DEF Walk
  <2> QED BY <2>2
<1>2. ASSUME NEW m \in Nat, m \in S PROVE m + 1 \in S
  <2>1. PICK f : Walk(f, B, batch, m)
    BY <1>2
  <2> DEFINE g == [i \in 0..(m + 1) |-> IF i <= m THEN f[i] ELSE After(f[m], batch[m + 1])]
  <2>2. \A i \in 0..m : f[i] = IF i = 0 THEN B ELSE After(f[i - 1], batch[i])
    BY <2>1 DEF Walk
  <2>3. \A i \in 0..(m + 1) : g[i] = IF i = 0 THEN B ELSE After(g[i - 1], batch[i])
    <3> TAKE i \in 0..(m + 1)
    <3>1. CASE i <= m
      <4>1. g[i] = f[i] /\ (i # 0 => g[i - 1] = f[i - 1])
        BY <3>1
      <4> HIDE DEF g
      <4> QED BY <2>2, <3>1, <4>1
    <3>2. CASE i = m + 1
      <4>1. g[i] = After(f[m], batch[m + 1]) /\ g[i - 1] = f[m] /\ i - 1 = m /\ i # 0
        BY <3>2
      <4> HIDE DEF g
      <4> QED BY <3>2, <4>1
    <3> QED BY <3>1, <3>2
  <2>4. g = [i \in 0..(m + 1) |-> IF i = 0 THEN B ELSE After(g[i - 1], batch[i])]
    <3>1. g = [i \in 0..(m + 1) |-> g[i]]
      OBVIOUS
    <3> HIDE DEF g
    <3> QED BY <2>3, <3>1
  <2>5. Walk(g, B, batch, m + 1)
    <3> HIDE DEF g
    <3> QED BY <2>4 DEF Walk
  <2> QED BY <2>5
<1> HIDE DEF S
<1>3. n \in S
  BY <1>1, <1>2, SetInduction
<1> QED BY <1>3 DEF S

LEMMA StagesAre ==
  ASSUME NEW B, NEW batch, Len(batch) \in Nat
  PROVE  LET stage == Stages(B, batch)
         IN /\ stage[0] = B
            /\ \A i \in 1..Len(batch) : stage[i] = After(stage[i - 1], batch[i])
<1> DEFINE stage == Stages(B, batch)
<1>1. \E f : Walk(f, B, batch, Len(batch))
  BY StagesExist
<1>2. stage = CHOOSE f : f = [i \in 0..Len(batch) |-> IF i = 0 THEN B ELSE After(f[i - 1], batch[i])]
  BY DEF Stages
<1>3. Walk(stage, B, batch, Len(batch))
  BY <1>1, <1>2 DEF Walk
<1> HIDE DEF stage
<1>4. stage = [i \in 0..Len(batch) |-> IF i = 0 THEN B ELSE After(stage[i - 1], batch[i])]
  BY <1>3 DEF Walk
<1>5. stage[0] = B /\ \A i \in 1..Len(batch) : stage[i] = After(stage[i - 1], batch[i])
  BY <1>4
<1> QED BY <1>5 DEF stage

-----------------------------------------------------------------------------
(* Histories.                                                            *)

Patches == {Patch(S, T) : S \in SUBSET Board, T \in SUBSET Board}
Edits   == [sequence : Nat, undone : BOOLEAN, before : Patches, after : Patches]

\* A history between the documents D[0] .. D[n]: each edit leads from one to the
\* next and back, and those after the p first are undone.
Path(h, B, D, p) ==
  /\ \A i \in 1..Len(h) : h[i].undone <=> i > p
  /\ \A i, j \in 1..Len(h) : i < j => h[i].sequence < h[j].sequence
  /\ \A i \in 0..Len(h) : Sound(D[i])
  /\ \A i \in 1..Len(h) : ApplyPatch(D[i], h[i].before) = D[i - 1] /\ ApplyPatch(D[i - 1], h[i].after) = D[i]
  /\ D[p] = B

Selects(those, h, undone) ==
  those = [n \in 0..Len(h) |-> IF n = 0 THEN <<>>
             ELSE IF (h[n].undone <=> undone) THEN Append(those[n - 1], h[n]) ELSE those[n - 1]]

LEMMA SelectedAre ==
  ASSUME NEW h, Len(h) \in Nat, NEW undone, NEW f, NEW g, Selects(f, h, undone), Selects(g, h, undone)
  PROVE  f[Len(h)] = g[Len(h)]
<1> DEFINE S == {n \in Nat : n <= Len(h) => f[n] = g[n]}
<1>1. \A n \in 0..Len(h) : f[n] = IF n = 0 THEN <<>>
             ELSE IF (h[n].undone <=> undone) THEN Append(f[n - 1], h[n]) ELSE f[n - 1]
  BY DEF Selects
<1>2. \A n \in 0..Len(h) : g[n] = IF n = 0 THEN <<>>
             ELSE IF (h[n].undone <=> undone) THEN Append(g[n - 1], h[n]) ELSE g[n - 1]
  BY DEF Selects
<1>3. 0 \in S
  BY <1>1, <1>2
<1>4. ASSUME NEW n \in Nat, n \in S PROVE n + 1 \in S
  <2>1. SUFFICES ASSUME n + 1 <= Len(h) PROVE f[n + 1] = g[n + 1]
    OBVIOUS
  <2>2. f[n] = g[n] /\ n + 1 \in 0..Len(h) /\ n + 1 # 0 /\ (n + 1) - 1 = n
    BY <1>4, <2>1
  <2> QED BY <1>1, <1>2, <2>2
<1> HIDE DEF S
<1>5. Len(h) \in S
  BY <1>3, <1>4, SetInduction
<1> QED BY <1>5 DEF S

LEMMA ThoseAre ==
  ASSUME NEW h \in Seq(Edits), NEW undone, NEW g, Selects(g, h, undone)
  PROVE  Those(h, undone) = g[Len(h)]
<1> DEFINE those == CHOOSE f : f = [n \in 0..Len(h) |-> IF n = 0 THEN <<>>
             ELSE IF (h[n].undone <=> undone) THEN Append(f[n - 1], h[n]) ELSE f[n - 1]]
<1>1. those = CHOOSE f : Selects(f, h, undone)
  BY DEF Selects
<1>2. Those(h, undone) = those[Len(h)]
  BY DEF Those
<1> HIDE DEF those
<1>3. Selects(those, h, undone)
  BY <1>1
<1> QED BY <1>2, <1>3, SelectedAre

LEMMA Split ==
  ASSUME NEW h \in Seq(Edits), NEW p \in 0..Len(h), \A i \in 1..Len(h) : h[i].undone <=> i > p
  PROVE  Applied(h) = SubSeq(h, 1, p) /\ Undone(h) = SubSeq(h, p + 1, Len(h))
<1>t. Len(h) \in Nat /\ \A i \in 1..Len(h) : h[i] \in Edits
  OBVIOUS
<1>1. Applied(h) = SubSeq(h, 1, p)
  <2> DEFINE g == [n \in 0..Len(h) |-> IF n <= p THEN SubSeq(h, 1, n) ELSE SubSeq(h, 1, p)]
  <2>1. \A n \in 0..Len(h) : g[n] = IF n = 0 THEN <<>>
             ELSE IF (h[n].undone <=> FALSE) THEN Append(g[n - 1], h[n]) ELSE g[n - 1]
    <3> TAKE n \in 0..Len(h)
    <3>1. CASE n = 0
      <4>1. SubSeq(h, 1, 0) = <<>>
        BY SubSeqEmpty
      <4>2. g[n] = SubSeq(h, 1, n)
        BY <3>1
      <4> HIDE DEF g
      <4>3. g[n] = <<>>
        BY <3>1, <4>1, <4>2
      <4> QED BY <3>1, <4>3
    <3>2. CASE n # 0 /\ n <= p
      <4>1. g[n] = SubSeq(h, 1, n) /\ g[n - 1] = SubSeq(h, 1, n - 1) /\ (h[n].undone <=> FALSE)
        <5>1. n \in 0..Len(h) /\ n - 1 \in 0..Len(h) /\ n - 1 <= p
          BY <3>2, <1>t
        <5>2. g[n] = SubSeq(h, 1, n) /\ g[n - 1] = SubSeq(h, 1, n - 1)
          BY <3>2, <5>1
        <5>3. n \in 1..Len(h) /\ ~ (n > p)
          BY <3>2, <1>t
        <5>4. h[n].undone <=> FALSE
          <6> HIDE DEF g
          <6> QED BY <5>3
        <5> QED BY <5>2, <5>4
      <4>2. SubSeq(h, 1, n) = SubSeq(h, 1, n - 1) \o <<h[n]>>
        BY <3>2, SubSeqRecursiveSecond
      <4>3. SubSeq(h, 1, n - 1) \in Seq(Edits)
        BY <1>t, SubSeqProperties
      <4>4. Append(SubSeq(h, 1, n - 1), h[n]) = SubSeq(h, 1, n - 1) \o <<h[n]>>
        BY <3>2, <4>3, <1>t, AppendIsConcat
      <4>5. Append(g[n - 1], h[n]) = g[n]
        <5> HIDE DEF g
        <5> QED BY <4>1, <4>2, <4>4
      <4> HIDE DEF g
      <4>6. n # 0 /\ (h[n].undone <=> FALSE)
        BY <3>2, <4>1
      <4> QED BY <4>5, <4>6
    <3>3. CASE n > p
      <4>1. g[n] = SubSeq(h, 1, p) /\ g[n - 1] = SubSeq(h, 1, p) /\ (h[n].undone <=> TRUE)
        <5>1. n \in 0..Len(h) /\ n - 1 \in 0..Len(h) /\ n > p
          BY <3>3, <1>t
        <5>2. g[n] = SubSeq(h, 1, p)
          BY <5>1
        <5>3. g[n - 1] = SubSeq(h, 1, p)
          <6>1. CASE n - 1 <= p
            <7>1. n - 1 = p
              BY <5>1, <6>1
            <7> QED BY <5>1, <7>1
          <6>2. CASE ~ (n - 1 <= p)
            BY <5>1, <6>2
          <6> QED BY <6>1, <6>2
        <5>4. h[n].undone <=> TRUE
          <6>1. n \in 1..Len(h)
            BY <5>1, <1>t
          <6> HIDE DEF g
          <6> QED BY <5>1, <6>1
        <5> QED BY <5>2, <5>3, <5>4
      <4> HIDE DEF g
      <4> QED BY <3>3, <4>1
    <3> QED BY <3>1, <3>2, <3>3
  <2>2. g = [n \in 0..Len(h) |-> g[n]]
    OBVIOUS
  <2>3. g[Len(h)] = SubSeq(h, 1, p)
    BY <1>t
  <2> HIDE DEF g
  <2>4. Selects(g, h, FALSE)
    BY <2>1, <2>2 DEF Selects
  <2> QED BY <2>3, <2>4, ThoseAre DEF Applied
<1>2. Undone(h) = SubSeq(h, p + 1, Len(h))
  <2> DEFINE g == [n \in 0..Len(h) |-> IF n <= p THEN <<>> ELSE SubSeq(h, p + 1, n)]
  <2>1. \A n \in 0..Len(h) : g[n] = IF n = 0 THEN <<>>
             ELSE IF (h[n].undone <=> TRUE) THEN Append(g[n - 1], h[n]) ELSE g[n - 1]
    <3> TAKE n \in 0..Len(h)
    <3>1. CASE n = 0
      BY <3>1
    <3>2. CASE n # 0 /\ n <= p
      <4>1. g[n] = <<>> /\ g[n - 1] = <<>> /\ (h[n].undone <=> FALSE)
        BY <3>2, <1>t
      <4> HIDE DEF g
      <4> QED BY <3>2, <4>1
    <3>3. CASE n > p
      <4>1. g[n] = SubSeq(h, p + 1, n) /\ (h[n].undone <=> TRUE)
        BY <3>3, <1>t
      <4>2. SubSeq(h, p + 1, n) = SubSeq(h, p + 1, n - 1) \o <<h[n]>>
        BY <3>3, SubSeqRecursiveSecond
      <4>3. SubSeq(h, p + 1, n - 1) \in Seq(Edits)
        BY <1>t, SubSeqProperties
      <4>4. Append(SubSeq(h, p + 1, n - 1), h[n]) = SubSeq(h, p + 1, n - 1) \o <<h[n]>>
        BY <3>3, <4>3, <1>t, AppendIsConcat
      <4>5. g[n - 1] = SubSeq(h, p + 1, n - 1)
        <5>1. n - 1 = p => SubSeq(h, p + 1, n - 1) = <<>>
          BY SubSeqEmpty
        <5> QED BY <3>3, <5>1
      <4> HIDE DEF g
      <4> QED BY <3>3, <4>1, <4>2, <4>4, <4>5
    <3> QED BY <3>1, <3>2, <3>3
  <2>2. g = [n \in 0..Len(h) |-> g[n]]
    OBVIOUS
  <2>3. g[Len(h)] = SubSeq(h, p + 1, Len(h))
    <3>1. p = Len(h) => SubSeq(h, p + 1, Len(h)) = <<>>
      BY SubSeqEmpty
    <3> QED BY <1>t, <3>1
  <2> HIDE DEF g
  <2>4. Selects(g, h, TRUE)
    BY <2>1, <2>2 DEF Selects
  <2> QED BY <2>3, <2>4, ThoseAre DEF Undone
<1> QED BY <1>1, <1>2

\* The documents that path shows before and after the p-th edit.
Before(D, p)   == [i \in 1..p |-> D[i - 1]]
Later(D, p, n) == [i \in 1..(n - p) |-> D[p + i]]

LEMMA BehindIs ==
  ASSUME NEW row, row.history \in Seq(Edits), NEW p \in 0..Len(row.history), NEW D, Path(row.history, row.boards, D, p)
  PROVE  Behind(row) = Before(D, p)
<1> DEFINE h == row.history
           edits == SubSeq(h, 1, p)
           Down(f) == f = [i \in 0..p |-> IF i = 0 THEN row.boards ELSE ApplyPatch(f[i - 1], edits[p - i + 1].before)]
           shown == CHOOSE f : Down(f)
           g == [i \in 0..p |-> D[p - i]]
<1>h. h \in Seq(Edits) /\ p \in 0..Len(h) /\ \A i \in 1..Len(h) : h[i].undone <=> i > p
  BY DEF Path
<1>1. Applied(h) = edits /\ Len(h) \in Nat /\ p \in Nat /\ p <= Len(h)
  <2> HIDE DEF h
  <2>1. Applied(h) = edits
    BY <1>h, Split
  <2>2. Len(h) \in Nat
    BY <1>h
  <2> QED BY <1>h, <2>1, <2>2
<1>2. Len(edits) = p /\ \A i \in 1..p : edits[i] = h[i]
  <2>1. \A i \in 1..p : h[i] \in Edits
    BY <1>1
  <2>2. Len(edits) = (IF 1 <= p THEN p - 1 + 1 ELSE 0) /\ \A i \in 1..(p - 1 + 1) : edits[i] = h[1 + i - 1]
    BY <1>1, <2>1, SubSeqProperties
  <2> QED BY <1>1, <2>2
<1>3. Behind(row) = [i \in 1..p |-> shown[p - i + 1]]
  <2> HIDE DEF edits
  <2> QED BY <1>1, <1>2 DEF Behind
<1>p. /\ \A i \in 1..Len(h) : ApplyPatch(D[i], h[i].before) = D[i - 1]
      /\ D[p] = row.boards
  BY DEF Path
<1> HIDE DEF edits, h
<1>4. Down(g)
  <2>1. \A i \in 0..p : g[i] = IF i = 0 THEN row.boards ELSE ApplyPatch(g[i - 1], edits[p - i + 1].before)
    <3> TAKE i \in 0..p
    <3>1. CASE i = 0
      BY <1>1, <1>p, <3>1
    <3>2. CASE i # 0
      <4>1. p - i + 1 \in 1..p /\ p - i + 1 \in 1..Len(h) /\ i - 1 \in 0..p /\ (p - i + 1) - 1 = p - i /\ p - (i - 1) = p - i + 1
        BY <1>1, <3>2
      <4>2. g[i] = D[p - i] /\ g[i - 1] = D[p - i + 1]
        BY <4>1
      <4>3. ApplyPatch(D[p - i + 1], h[p - i + 1].before) = D[p - i]
        BY <1>p, <4>1
      <4> HIDE DEF g
      <4> QED BY <1>2, <3>2, <4>1, <4>2, <4>3
    <3> QED BY <3>1, <3>2
  <2>2. g = [i \in 0..p |-> g[i]]
    OBVIOUS
  <2> HIDE DEF g
  <2> QED BY <2>1, <2>2
<1>5. Down(shown)
  <2> HIDE DEF Down, g
  <2> QED BY <1>4
<1> HIDE DEF shown
<1>6. \A i \in 0..p : shown[i] = IF i = 0 THEN row.boards ELSE ApplyPatch(shown[i - 1], edits[p - i + 1].before)
  BY <1>5
<1>7. \A i \in 0..p : g[i] = IF i = 0 THEN row.boards ELSE ApplyPatch(g[i - 1], edits[p - i + 1].before)
  <2> HIDE DEF g
  <2> QED BY <1>4
<1> DEFINE S == {n \in Nat : n <= p => shown[n] = g[n]}
<1> HIDE DEF g
<1>8. 0 \in S
  BY <1>1, <1>6, <1>7
<1>9. ASSUME NEW n \in Nat, n \in S PROVE n + 1 \in S
  <2>1. SUFFICES ASSUME n + 1 <= p PROVE shown[n + 1] = g[n + 1]
    OBVIOUS
  <2>2. shown[n] = g[n] /\ n + 1 \in 0..p /\ n + 1 # 0 /\ (n + 1) - 1 = n
    BY <1>1, <1>9, <2>1
  <2> QED BY <1>6, <1>7, <2>2
<1>10. \A n \in 0..p : shown[n] = g[n]
  <2> HIDE DEF S
  <2>1. Nat \subseteq S
    BY <1>8, <1>9, SetInduction
  <2> QED BY <1>1, <2>1 DEF S
<1>11. \A i \in 1..p : shown[p - i + 1] = D[i - 1]
  <2> TAKE i \in 1..p
  <2>1. p - i + 1 \in 0..p /\ p - (p - i + 1) = i - 1
    BY <1>1
  <2> QED BY <1>10, <2>1 DEF g
<1> QED BY <1>3, <1>11 DEF Before

LEMMA AheadIs ==
  ASSUME NEW row, row.history \in Seq(Edits), NEW p \in 0..Len(row.history), NEW D, Path(row.history, row.boards, D, p)
  PROVE  Ahead(row) = Later(D, p, Len(row.history))
<1> DEFINE h == row.history
           q == Len(h) - p
           edits == SubSeq(h, p + 1, Len(h))
           Up(f) == f = [i \in 0..q |-> IF i = 0 THEN row.boards ELSE ApplyPatch(f[i - 1], edits[i].after)]
           shown == CHOOSE f : Up(f)
           g == [i \in 0..q |-> D[p + i]]
<1>h. h \in Seq(Edits) /\ p \in 0..Len(h) /\ \A i \in 1..Len(h) : h[i].undone <=> i > p
  BY DEF Path
<1>1. Undone(h) = edits /\ Len(h) \in Nat /\ p \in Nat /\ q \in Nat
  <2> HIDE DEF h
  <2>1. Undone(h) = edits
    BY <1>h, Split
  <2>2. Len(h) \in Nat
    BY <1>h
  <2> QED BY <1>h, <2>1, <2>2
<1>2. Len(edits) = q /\ \A i \in 1..q : edits[i] = h[p + i]
  <2>1. \A i \in (p + 1)..Len(h) : h[i] \in Edits
    BY <1>1
  <2>2. /\ Len(edits) = IF p + 1 <= Len(h) THEN Len(h) - (p + 1) + 1 ELSE 0
        /\ \A i \in 1..(Len(h) - (p + 1) + 1) : edits[i] = h[p + 1 + i - 1]
    BY <1>1, <2>1, SubSeqProperties
  <2> HIDE DEF edits
  <2> QED BY <1>1, <2>2
<1>3. Ahead(row) = [i \in 1..q |-> shown[i]]
  <2> HIDE DEF edits, q
  <2> QED BY <1>1, <1>2 DEF Ahead
<1>p. /\ \A i \in 1..Len(h) : ApplyPatch(D[i - 1], h[i].after) = D[i]
      /\ D[p] = row.boards
  BY DEF Path
<1>q. \A i \in 1..q : p + i \in 1..Len(h) /\ (p + i) - 1 = p + (i - 1)
  BY <1>1
<1> HIDE DEF edits, h, q
<1>4. Up(g)
  <2>1. \A i \in 0..q : g[i] = IF i = 0 THEN row.boards ELSE ApplyPatch(g[i - 1], edits[i].after)
    <3> TAKE i \in 0..q
    <3>1. CASE i = 0
      BY <1>1, <1>p, <3>1
    <3>2. CASE i # 0
      <4>1. i \in 1..q /\ i - 1 \in 0..q
        BY <1>1, <3>2
      <4>2. g[i] = D[p + i] /\ g[i - 1] = D[p + (i - 1)]
        BY <4>1
      <4>3. ApplyPatch(D[p + (i - 1)], h[p + i].after) = D[p + i]
        BY <1>p, <1>q, <4>1
      <4> HIDE DEF g
      <4> QED BY <1>2, <3>2, <4>1, <4>2, <4>3
    <3> QED BY <3>1, <3>2
  <2>2. g = [i \in 0..q |-> g[i]]
    OBVIOUS
  <2> HIDE DEF g
  <2> QED BY <2>1, <2>2
<1>5. Up(shown)
  <2> HIDE DEF Up, g
  <2> QED BY <1>4
<1> HIDE DEF shown
<1>6. \A i \in 0..q : shown[i] = IF i = 0 THEN row.boards ELSE ApplyPatch(shown[i - 1], edits[i].after)
  BY <1>5
<1>7. \A i \in 0..q : g[i] = IF i = 0 THEN row.boards ELSE ApplyPatch(g[i - 1], edits[i].after)
  <2> HIDE DEF g
  <2> QED BY <1>4
<1> DEFINE S == {n \in Nat : n <= q => shown[n] = g[n]}
<1> HIDE DEF g
<1>8. 0 \in S
  BY <1>1, <1>6, <1>7
<1>9. ASSUME NEW n \in Nat, n \in S PROVE n + 1 \in S
  <2>1. SUFFICES ASSUME n + 1 <= q PROVE shown[n + 1] = g[n + 1]
    OBVIOUS
  <2>2. shown[n] = g[n] /\ n + 1 \in 0..q /\ n + 1 # 0 /\ (n + 1) - 1 = n
    BY <1>1, <1>9, <2>1
  <2> QED BY <1>6, <1>7, <2>2
<1>10. \A n \in 0..q : shown[n] = g[n]
  <2> HIDE DEF S
  <2>1. Nat \subseteq S
    BY <1>8, <1>9, SetInduction
  <2> QED BY <1>1, <2>1 DEF S
<1>11. \A i \in 1..q : shown[i] = D[p + i]
  BY <1>1, <1>10 DEF g
<1> QED BY <1>3, <1>11 DEF q, h, Later

LEMMA PatchTyped ==
  ASSUME NEW S, NEW T, Sound(S), Sound(T)
  PROVE  Patch(S, T) \in Patches
<1>1. S \in SUBSET Board /\ T \in SUBSET Board
  BY DEF Sound
<1> QED BY <1>1 DEF Patches

\* Only the k-th edit is marked.
MarksOne(M, h, k, u) ==
  /\ M \in Seq(Edits) /\ Len(M) = Len(h)
  /\ \A i \in 1..Len(h) :
       /\ M[i].sequence = h[i].sequence /\ M[i].before = h[i].before /\ M[i].after = h[i].after
       /\ M[i].undone <=> IF i = k THEN u ELSE h[i].undone

LEMMA Marked ==
  ASSUME NEW h \in Seq(Edits), NEW k \in 1..Len(h), NEW u \in BOOLEAN,
         \A i, j \in 1..Len(h) : i < j => h[i].sequence < h[j].sequence
  PROVE  MarksOne(Mark(h, h[k].sequence, u), h, k, u)
<1> DEFINE M == Mark(h, h[k].sequence, u)
<1>1. Len(h) \in Nat /\ DOMAIN h = 1..Len(h) /\ \A i \in 1..Len(h) : h[i] \in Edits
  OBVIOUS
<1>2. ASSUME NEW e \in Edits
      PROVE  /\ [e EXCEPT !.undone = u] \in Edits
             /\ [e EXCEPT !.undone = u].sequence = e.sequence
             /\ [e EXCEPT !.undone = u].before = e.before /\ [e EXCEPT !.undone = u].after = e.after
             /\ [e EXCEPT !.undone = u].undone <=> u
             /\ e.sequence \in Nat
  BY DEF Edits
<1>3. \A i \in 1..Len(h) : h[i].sequence = h[k].sequence <=> i = k
  <2> TAKE i \in 1..Len(h)
  <2>1. h[i].sequence \in Nat /\ h[k].sequence \in Nat
    BY <1>1, <1>2
  <2>2. CASE i = k
    BY <2>2
  <2>3. CASE i < k
    BY <2>1, <2>3
  <2>4. CASE k < i
    BY <2>1, <2>4
  <2> QED BY <2>2, <2>3, <2>4
<1>4. M = [i \in 1..Len(h) |-> IF i = k THEN [h[i] EXCEPT !.undone = u] ELSE h[i]]
  BY <1>1, <1>3 DEF Mark
<1> HIDE DEF M
<1>5. ASSUME NEW i \in 1..Len(h)
      PROVE  /\ M[i] \in Edits
             /\ M[i].sequence = h[i].sequence /\ M[i].before = h[i].before /\ M[i].after = h[i].after
             /\ M[i].undone <=> IF i = k THEN u ELSE h[i].undone
  <2>1. CASE i = k
    <3>1. M[i] = [h[i] EXCEPT !.undone = u] /\ h[i] \in Edits
      BY <1>1, <1>4, <2>1
    <3> QED BY <1>2, <2>1, <3>1
  <2>2. CASE i # k
    <3>1. M[i] = h[i]
      BY <1>4, <2>2
    <3> QED BY <1>1, <2>2, <3>1
  <2> QED BY <2>1, <2>2
<1>6. M = [i \in 1..Len(h) |-> M[i]]
  BY <1>4
<1>7. M \in Seq(Edits) /\ Len(M) = Len(h)
  <2>1. M \in [1..Len(h) -> Edits]
    BY <1>5, <1>6
  <2> QED BY <1>1, <2>1
<1> QED BY <1>5, <1>7 DEF M, MarksOne

\* Taking back the last edit that is not undone.
LEMMA UndoPath ==
  ASSUME NEW h \in Seq(Edits), NEW B, NEW p \in 0..Len(h), NEW D, Path(h, B, D, p), Applied(h) # <<>>
  PROVE  LET edit == Last(Applied(h))
             M    == Mark(h, edit.sequence, TRUE)
         IN /\ p >= 1 /\ ApplyPatch(B, edit.before) = D[p - 1]
            /\ M \in Seq(Edits) /\ Len(M) = Len(h) /\ Path(M, D[p - 1], D, p - 1)
<1>1. /\ \A i \in 1..Len(h) : h[i].undone <=> i > p
      /\ \A i, j \in 1..Len(h) : i < j => h[i].sequence < h[j].sequence
      /\ \A i \in 0..Len(h) : Sound(D[i])
      /\ \A i \in 1..Len(h) : ApplyPatch(D[i], h[i].before) = D[i - 1] /\ ApplyPatch(D[i - 1], h[i].after) = D[i]
      /\ D[p] = B
  BY DEF Path
<1>2. Applied(h) = SubSeq(h, 1, p) /\ Len(h) \in Nat
  BY <1>1, Split
<1>3. p >= 1
  <2>1. p = 0 => SubSeq(h, 1, p) = <<>>
    BY SubSeqEmpty
  <2> QED BY <1>2, <2>1
<1>4. Last(Applied(h)) = h[p]
  <2>1. \A i \in 1..p : h[i] \in Edits
    BY <1>2
  <2>2. Len(SubSeq(h, 1, p)) = p /\ SubSeq(h, 1, p)[p] = h[1 + p - 1]
    BY <1>2, <1>3, <2>1, SubSeqProperties
  <2> QED BY <1>2, <1>3, <2>2 DEF Last
<1>5. p \in 1..Len(h)
  BY <1>2, <1>3
<1> DEFINE M == Mark(h, h[p].sequence, TRUE)
<1>6. /\ M \in Seq(Edits) /\ Len(M) = Len(h)
      /\ \A i \in 1..Len(h) :
           /\ M[i].sequence = h[i].sequence /\ M[i].before = h[i].before /\ M[i].after = h[i].after
           /\ M[i].undone <=> IF i = p THEN TRUE ELSE h[i].undone
  <2>1. \A i, j \in 1..Len(h) : i < j => h[i].sequence < h[j].sequence
    BY <1>1
  <2>2. MarksOne(Mark(h, h[p].sequence, TRUE), h, p, TRUE)
    BY <1>5, <2>1, Marked
  <2> HIDE DEF M
  <2> QED BY <2>2 DEF M, MarksOne
<1> HIDE DEF M
<1>7. Path(M, D[p - 1], D, p - 1)
  <2>1. \A i \in 1..Len(M) : M[i].undone <=> i > p - 1
    BY <1>1, <1>2, <1>5, <1>6
  <2>2. \A i, j \in 1..Len(M) : i < j => M[i].sequence < M[j].sequence
    BY <1>1, <1>6
  <2>3. \A i \in 1..Len(M) : ApplyPatch(D[i], M[i].before) = D[i - 1] /\ ApplyPatch(D[i - 1], M[i].after) = D[i]
    BY <1>1, <1>6
  <2> QED BY <1>1, <1>6, <2>1, <2>2, <2>3 DEF Path
<1>8. ApplyPatch(B, h[p].before) = D[p - 1]
  BY <1>1, <1>5
<1> QED BY <1>3, <1>4, <1>6, <1>7, <1>8 DEF M

\* Giving the first undone edit again.
LEMMA RedoPath ==
  ASSUME NEW h \in Seq(Edits), NEW B, NEW p \in 0..Len(h), NEW D, Path(h, B, D, p), Undone(h) # <<>>
  PROVE  LET edit == Head(Undone(h))
             M    == Mark(h, edit.sequence, FALSE)
         IN /\ p + 1 <= Len(h) /\ ApplyPatch(B, edit.after) = D[p + 1]
            /\ M \in Seq(Edits) /\ Len(M) = Len(h) /\ Path(M, D[p + 1], D, p + 1)
<1>1. /\ \A i \in 1..Len(h) : h[i].undone <=> i > p
      /\ \A i, j \in 1..Len(h) : i < j => h[i].sequence < h[j].sequence
      /\ \A i \in 0..Len(h) : Sound(D[i])
      /\ \A i \in 1..Len(h) : ApplyPatch(D[i], h[i].before) = D[i - 1] /\ ApplyPatch(D[i - 1], h[i].after) = D[i]
      /\ D[p] = B
  BY DEF Path
<1>2. Undone(h) = SubSeq(h, p + 1, Len(h)) /\ Len(h) \in Nat
  BY <1>1, Split
<1>3. p + 1 <= Len(h)
  <2>1. p = Len(h) => SubSeq(h, p + 1, Len(h)) = <<>>
    BY SubSeqEmpty
  <2> QED BY <1>2, <2>1
<1>5. p + 1 \in 1..Len(h) /\ Len(h) \in (p + 1)..Len(h)
  BY <1>2, <1>3
<1>4. Head(Undone(h)) = h[p + 1]
  BY <1>2, <1>5, HeadTailOfSubSeq
<1> DEFINE M == Mark(h, h[p + 1].sequence, FALSE)
<1>6. /\ M \in Seq(Edits) /\ Len(M) = Len(h)
      /\ \A i \in 1..Len(h) :
           /\ M[i].sequence = h[i].sequence /\ M[i].before = h[i].before /\ M[i].after = h[i].after
           /\ M[i].undone <=> IF i = p + 1 THEN FALSE ELSE h[i].undone
  <2>1. \A i, j \in 1..Len(h) : i < j => h[i].sequence < h[j].sequence
    BY <1>1
  <2>2. MarksOne(Mark(h, h[p + 1].sequence, FALSE), h, p + 1, FALSE)
    BY <1>5, <2>1, Marked
  <2> HIDE DEF M
  <2> QED BY <2>2 DEF M, MarksOne
<1> HIDE DEF M
<1>7. Path(M, D[p + 1], D, p + 1)
  <2>1. \A i \in 1..Len(M) : M[i].undone <=> i > p + 1
    <3> TAKE i \in 1..Len(M)
    <3>1. i \in 1..Len(h) /\ (M[i].undone <=> IF i = p + 1 THEN FALSE ELSE h[i].undone) /\ (h[i].undone <=> i > p)
      BY <1>1, <1>6
    <3>2. CASE i = p + 1
      <4>1. ~ M[i].undone
        BY <3>1, <3>2
      <4> QED BY <1>2, <3>1, <3>2, <4>1
    <3>3. CASE i # p + 1
      <4>1. M[i].undone <=> i > p
        BY <3>1, <3>3
      <4>2. i > p <=> i > p + 1
        BY <1>2, <3>1, <3>3
      <4> QED BY <4>1, <4>2
    <3> QED BY <3>2, <3>3
  <2>2. \A i, j \in 1..Len(M) : i < j => M[i].sequence < M[j].sequence
    BY <1>1, <1>6
  <2>3. \A i \in 1..Len(M) : ApplyPatch(D[i], M[i].before) = D[i - 1] /\ ApplyPatch(D[i - 1], M[i].after) = D[i]
    BY <1>1, <1>6
  <2> QED BY <1>1, <1>6, <2>1, <2>2, <2>3 DEF Path
<1>8. ApplyPatch(B, h[p + 1].after) = D[p + 1]
  BY <1>1, <1>5
<1> QED BY <1>3, <1>4, <1>6, <1>7, <1>8 DEF M

\* How many of the oldest edits are dropped when n are added to p, and the
\* documents that remain.
Gone(p, n) == IF p + n > UndoLimit THEN p + n - UndoLimit ELSE 0
Spliced(D, stage, p, n) ==
  [i \in 0..(p + n - Gone(p, n)) |->
     IF i + Gone(p, n) <= p THEN D[i + Gone(p, n)] ELSE stage[i + Gone(p, n) - p]]

\* New edits, each with the patches between two documents.
LEMMA RecordedPath ==
  ASSUME NEW h \in Seq(Edits), Len(h) <= UndoLimit, NEW B, NEW p \in 0..Len(h), NEW D, Path(h, B, D, p),
         NEW n \in Nat \ {0}, NEW stage, stage[0] = B, \A i \in 0..n : Sound(stage[i])
  PROVE  LET r == Recorded(h, stage, n)
             q == p + n - Gone(p, n)
         IN /\ r \in Seq(Edits) /\ Len(r) = q /\ q <= UndoLimit
            /\ Path(r, stage[n], Spliced(D, stage, p, n), q)
<1> DEFINE kept  == Applied(h)
           first == IF kept = <<>> THEN 0 ELSE Last(kept).sequence
           fresh(i) == [sequence |-> first + i, undone |-> FALSE,
                        before |-> Patch(stage[i], stage[i - 1]), after |-> Patch(stage[i - 1], stage[i])]
           added == [i \in 1..n |-> fresh(i)]
           grown == kept \o added
           r     == Recorded(h, stage, n)
           gone  == Gone(p, n)
           E     == Spliced(D, stage, p, n)
<1>1. /\ \A i \in 1..Len(h) : h[i].undone <=> i > p
      /\ \A i, j \in 1..Len(h) : i < j => h[i].sequence < h[j].sequence
      /\ \A i \in 0..Len(h) : Sound(D[i])
      /\ \A i \in 1..Len(h) : ApplyPatch(D[i], h[i].before) = D[i - 1] /\ ApplyPatch(D[i - 1], h[i].after) = D[i]
      /\ D[p] = B
  BY DEF Path
<1>2. kept = SubSeq(h, 1, p) /\ Len(h) \in Nat /\ p \in Nat /\ p <= Len(h) /\ n \in Nat /\ n >= 1
      /\ UndoLimit \in Nat /\ UndoLimit >= 1
  <2>1. kept = SubSeq(h, 1, p)
    BY <1>1, Split
  <2> QED BY <2>1, CanvasAssumption
<1>3. kept \in Seq(Edits) /\ Len(kept) = p /\ \A i \in 1..p : kept[i] = h[i]
  <2>1. \A i \in 1..p : h[i] \in Edits
    BY <1>2
  <2>2. /\ kept \in Seq(Edits) /\ Len(kept) = IF 1 <= p THEN p - 1 + 1 ELSE 0
    BY <1>2, <2>1, SubSeqProperties
  <2>3. \A i \in 1..(p - 1 + 1) : kept[i] = h[1 + i - 1]
    BY <1>2, <2>1, SubSeqProperties
  <2> QED BY <1>2, <2>2, <2>3
<1> HIDE DEF kept
<1>4. first \in Nat /\ \A i \in 1..p : h[i].sequence <= first /\ h[i].sequence \in Nat
  <2>1. \A i \in 1..p : h[i].sequence \in Nat
    <3> TAKE i \in 1..p
    <3>1. h[i] \in Edits
      BY <1>2
    <3> QED BY <3>1 DEF Edits
  <2>2. CASE p = 0
    <3>1. kept = <<>>
      BY <1>3, <2>2
    <3> QED BY <2>2, <3>1
  <2>3. CASE p # 0
    <3>1. kept # <<>> /\ Last(kept) = h[p] /\ p \in 1..p
      BY <1>2, <1>3, <2>3 DEF Last
    <3>2. first = h[p].sequence
      BY <3>1
    <3>3. \A i \in 1..p : i < p => h[i].sequence < h[p].sequence
      BY <1>1, <1>2, <2>3
    <3> HIDE DEF first
    <3> QED BY <1>2, <2>1, <3>1, <3>2, <3>3
  <2> QED BY <2>2, <2>3
<1> HIDE DEF first
<1>5. \A i \in 1..n : fresh(i) \in Edits /\ fresh(i).sequence = first + i /\ (fresh(i).undone <=> FALSE)
                      /\ fresh(i).before = Patch(stage[i], stage[i - 1]) /\ fresh(i).after = Patch(stage[i - 1], stage[i])
  <2> TAKE i \in 1..n
  <2>1. Sound(stage[i]) /\ Sound(stage[i - 1])
    <3>1. i \in 0..n /\ i - 1 \in 0..n
      OBVIOUS
    <3> QED BY <3>1
  <2>2. Patch(stage[i], stage[i - 1]) \in Patches /\ Patch(stage[i - 1], stage[i]) \in Patches
    BY <2>1, PatchTyped
  <2>3. first + i \in Nat
    BY <1>4
  <2> QED BY <2>2, <2>3 DEF Edits
<1>6. /\ added \in Seq(Edits) /\ Len(added) = n
      /\ \A i \in 1..n : /\ added[i].sequence = first + i /\ ~ added[i].undone
                       /\ added[i].before = Patch(stage[i], stage[i - 1])
                       /\ added[i].after = Patch(stage[i - 1], stage[i])
  <2>1. added \in [1..n -> Edits] /\ \A i \in 1..n : added[i] = fresh(i)
    BY <1>5
  <2> HIDE DEF fresh, added
  <2>2. added \in Seq(Edits) /\ Len(added) = n
    BY <1>2, <2>1
  <2> QED BY <1>5, <2>1, <2>2
<1> HIDE DEF added
<1>7. /\ grown \in Seq(Edits) /\ Len(grown) = p + n
      /\ \A i \in 1..p : grown[i] = h[i]
      /\ \A i \in (p + 1)..(p + n) : grown[i] = added[i - p]
  <2>1. grown \in Seq(Edits) /\ Len(grown) = Len(kept) + Len(added)
        /\ \A i \in 1..(Len(kept) + Len(added)) : grown[i] = IF i <= Len(kept) THEN kept[i] ELSE added[i - Len(kept)]
    BY <1>3, <1>6, ConcatProperties
  <2> HIDE DEF grown, fresh
  <2>2. \A i \in 1..p : grown[i] = h[i]
    BY <1>2, <1>3, <1>6, <2>1
  <2>3. \A i \in (p + 1)..(p + n) : grown[i] = added[i - p]
    <3> TAKE i \in (p + 1)..(p + n)
    <3>1. i \in 1..(p + n) /\ ~ (i <= p) /\ i - p \in 1..n
      BY <1>2
    <3> QED BY <1>3, <1>6, <2>1, <3>1
  <2> QED BY <1>3, <1>6, <2>1, <2>2, <2>3
<1>8. r = IF p + n > UndoLimit THEN SubSeq(grown, p + n - UndoLimit + 1, p + n) ELSE grown
  <2>2. r = IF Len(grown) > UndoLimit THEN SubSeq(grown, Len(grown) - UndoLimit + 1, Len(grown)) ELSE grown
    BY DEF Recorded, kept, first, added
  <2> HIDE DEF grown, r
  <2> QED BY <1>2, <1>7, <2>2
<1> HIDE DEF grown, r, fresh
<1>0. gone = IF p + n > UndoLimit THEN p + n - UndoLimit ELSE 0
  BY DEF Gone
<1> HIDE DEF gone
<1>9. gone \in Nat /\ p + n - gone \in Nat /\ p + n - gone <= UndoLimit /\ gone <= p + n
  BY <1>0, <1>2
<1>10. r \in Seq(Edits) /\ Len(r) = p + n - gone /\ \A i \in 1..(p + n - gone) : r[i] = grown[i + gone]
  <2>1. CASE p + n > UndoLimit
    <3> DEFINE m == p + n - UndoLimit + 1
               top == p + n
    <3>1. gone = p + n - UndoLimit /\ m \in Int /\ top \in Int /\ m >= 1 /\ m <= top
      BY <1>0, <1>2, <2>1
    <3>2. r = SubSeq(grown, m, top)
      BY <1>8, <2>1
    <3>3. \A i \in m..top : grown[i] \in Edits
      BY <1>7, <3>1
    <3>6. top - m + 1 = p + n - gone /\ \A i \in Int : m + i - 1 = i + gone
      BY <1>2, <3>1
    <3> HIDE DEF m, top, gone
    <3>4. /\ SubSeq(grown, m, top) \in Seq(Edits)
          /\ Len(SubSeq(grown, m, top)) = IF m <= top THEN top - m + 1 ELSE 0
          /\ \A i \in 1..(top - m + 1) : SubSeq(grown, m, top)[i] = grown[m + i - 1]
      BY <3>1, <3>3, SubSeqProperties
    <3>5. r \in Seq(Edits) /\ Len(r) = top - m + 1 /\ \A i \in 1..(top - m + 1) : r[i] = grown[m + i - 1]
      BY <3>1, <3>2, <3>4
    <3>7. \A i \in 1..(p + n - gone) : r[i] = grown[i + gone]
      <4> TAKE i \in 1..(p + n - gone)
      <4>1. i \in 1..(top - m + 1) /\ m + i - 1 = i + gone
        BY <1>2, <1>9, <3>6
      <4>2. r[i] = grown[m + i - 1]
        BY <3>5, <4>1
      <4> QED BY <4>1, <4>2
    <3> QED BY <3>5, <3>6, <3>7
  <2>2. CASE ~ (p + n > UndoLimit)
    <3>1. r = grown /\ gone = 0
      BY <1>0, <1>8, <2>2
    <3> HIDE DEF gone
    <3> QED BY <1>2, <1>7, <3>1
  <2> QED BY <2>1, <2>2
<1> HIDE DEF gone
<1> DEFINE q == p + n - gone
<1>11. \A i \in 1..q : (r[i].undone <=> FALSE)
                       /\ r[i].sequence = (IF i + gone <= p THEN h[i + gone].sequence ELSE first + (i + gone - p))
  <2> TAKE i \in 1..q
  <2>1. i + gone \in 1..(p + n) /\ r[i] = grown[i + gone]
    <3>1. i + gone \in 1..(p + n)
      BY <1>2, <1>9
    <3>2. r[i] = grown[i + gone]
      BY <1>10
    <3> QED BY <3>1, <3>2
  <2>2. CASE i + gone <= p
    <3>1. i + gone \in 1..p /\ i + gone \in 1..Len(h) /\ ~ (i + gone > p)
      BY <1>2, <1>9, <2>1, <2>2
    <3>2. r[i] = h[i + gone]
      BY <1>2, <1>7, <1>9, <2>1, <3>1
    <3>3. ~ h[i + gone].undone
      BY <1>1, <3>1
    <3> QED BY <2>2, <3>2, <3>3
  <2>3. CASE ~ (i + gone <= p)
    <3>1. i + gone \in (p + 1)..(p + n) /\ i + gone - p \in 1..n
      BY <1>2, <1>9, <2>1, <2>3
    <3>2. r[i] = added[i + gone - p]
      BY <1>2, <1>7, <1>9, <2>1, <3>1
    <3>3. ~ added[i + gone - p].undone /\ added[i + gone - p].sequence = first + (i + gone - p)
      BY <1>6, <3>1
    <3> QED BY <2>3, <3>2, <3>3
  <2> QED BY <2>2, <2>3
<1>12. \A i, j \in 1..q : i < j => r[i].sequence < r[j].sequence
  <2> TAKE i, j \in 1..q
  <2>1. SUFFICES ASSUME i < j PROVE r[i].sequence < r[j].sequence
    OBVIOUS
  <2>2. i + gone \in 1..(p + n) /\ j + gone \in 1..(p + n) /\ i + gone < j + gone
    BY <1>2, <1>9, <2>1
  <2>3. CASE j + gone <= p
    <3>1. i + gone \in 1..Len(h) /\ j + gone \in 1..Len(h) /\ i + gone <= p
      BY <1>2, <1>9, <2>2, <2>3
    <3>2. h[i + gone].sequence < h[j + gone].sequence
      BY <1>1, <2>2, <3>1
    <3>3. r[i].sequence = h[i + gone].sequence /\ r[j].sequence = h[j + gone].sequence
      BY <1>11, <2>3, <3>1
    <3> QED BY <3>2, <3>3
  <2>4. CASE i + gone <= p /\ ~ (j + gone <= p)
    <3>1. i + gone \in 1..p /\ j + gone - p >= 1
      BY <1>2, <1>9, <2>2, <2>4
    <3>2. h[i + gone].sequence <= first /\ h[i + gone].sequence \in Nat
      BY <1>4, <3>1
    <3>3. r[i].sequence = h[i + gone].sequence /\ r[j].sequence = first + (j + gone - p)
      BY <1>11, <2>4
    <3>4. j + gone - p \in Int
      BY <1>2, <1>9, <2>2
    <3> QED BY <1>4, <1>9, <3>1, <3>2, <3>3, <3>4
  <2>5. CASE ~ (i + gone <= p)
    <3>1. ~ (j + gone <= p) /\ i + gone - p < j + gone - p
      BY <1>2, <1>9, <2>2, <2>5
    <3>2. r[i].sequence = first + (i + gone - p) /\ r[j].sequence = first + (j + gone - p)
      BY <1>11, <2>5, <3>1
    <3>3. j + gone - p \in Int /\ i + gone - p \in Int
      BY <1>2, <1>9, <2>2
    <3> QED BY <1>4, <3>1, <3>2, <3>3
  <2> QED BY <2>3, <2>4, <2>5
<1>13. \A i \in 0..q : E[i] = (IF i + gone <= p THEN D[i + gone] ELSE stage[i + gone - p]) /\ Sound(E[i])
  <2> TAKE i \in 0..q
  <2>1. E[i] = IF i + gone <= p THEN D[i + gone] ELSE stage[i + gone - p]
    BY DEF Spliced, gone
  <2> HIDE DEF E
  <2>2. CASE i + gone <= p
    <3>1. i + gone \in 0..Len(h)
      BY <1>2, <1>9, <2>2
    <3> QED BY <1>1, <2>1, <2>2, <3>1
  <2>3. CASE ~ (i + gone <= p)
    <3>1. i + gone - p \in 0..n
      BY <1>2, <1>9, <2>3
    <3> QED BY <2>1, <2>3, <3>1
  <2> QED BY <2>1, <2>2, <2>3
<1> HIDE DEF E
<1>14. E[q] = stage[n]
  <2>1. q \in 0..q /\ q + gone = p + n /\ ~ (q + gone <= p) /\ q + gone - p = n
    BY <1>2, <1>9
  <2> HIDE DEF q
  <2>2. E[q] = IF q + gone <= p THEN D[q + gone] ELSE stage[q + gone - p]
    BY <1>13, <2>1
  <2> DEFINE m == q + gone - p
  <2>3. E[q] = stage[m] /\ m = n
    BY <2>1, <2>2
  <2> HIDE DEF m
  <2> QED BY <2>3
<1>15. \A i \in 1..q : ApplyPatch(E[i], r[i].before) = E[i - 1] /\ ApplyPatch(E[i - 1], r[i].after) = E[i]
  <2> TAKE i \in 1..q
  <2>1. i + gone \in 1..(p + n) /\ r[i] = grown[i + gone] /\ i \in 0..q /\ i - 1 \in 0..q /\ (i - 1) + gone = (i + gone) - 1
    <3>1. i + gone \in 1..(p + n) /\ i \in 0..q /\ i - 1 \in 0..q /\ (i - 1) + gone = (i + gone) - 1
      BY <1>2, <1>9
    <3>2. r[i] = grown[i + gone]
      BY <1>10
    <3> QED BY <3>1, <3>2
  <2>2. CASE i + gone <= p
    <3>1. i + gone \in 1..Len(h) /\ i + gone \in 1..p /\ (i - 1) + gone <= p
      BY <1>2, <1>9, <2>1, <2>2
    <3>2. E[i] = D[i + gone]
      BY <1>13, <2>1, <2>2
    <3>3. E[i - 1] = D[(i + gone) - 1]
      BY <1>13, <2>1, <3>1
    <3>4. r[i] = h[i + gone]
      BY <1>2, <1>7, <1>9, <2>1, <3>1
    <3> DEFINE k == i + gone
    <3>5. k \in 1..Len(h) /\ E[i] = D[k] /\ E[i - 1] = D[k - 1] /\ r[i] = h[k]
      BY <3>1, <3>2, <3>3, <3>4
    <3> HIDE DEF k
    <3> QED BY <1>1, <3>5
  <2>3. CASE ~ (i + gone <= p)
    <3> DEFINE k == i + gone - p
    <3>1. k \in 1..n /\ k \in 0..n /\ k - 1 \in 0..n /\ i + gone \in (p + 1)..(p + n)
      BY <1>2, <1>9, <2>1, <2>3
    <3>2. E[i] = stage[k] /\ r[i] = added[k]
      <4>1. E[i] = stage[i + gone - p]
        BY <1>13, <2>1, <2>3
      <4>2. r[i] = added[i + gone - p]
        BY <1>2, <1>7, <1>9, <2>1, <3>1
      <4> QED BY <4>1, <4>2
    <3>3. E[i - 1] = stage[k - 1]
      <4>1. CASE (i - 1) + gone <= p
        <5>1. (i - 1) + gone = p /\ k - 1 = 0
          BY <1>2, <1>9, <2>1, <2>3, <4>1, <1>9
        <5>2. E[i - 1] = D[p]
          BY <1>13, <2>1, <5>1, <4>1
        <5> HIDE DEF k
        <5> QED BY <1>1, <5>1, <5>2
      <4>2. CASE ~ ((i - 1) + gone <= p)
        <5>1. (i - 1) + gone - p = k - 1
          BY <1>2, <1>9, <2>1, <1>9
        <5> QED BY <1>13, <2>1, <4>2, <5>1
      <4> QED BY <4>1, <4>2
    <3> HIDE DEF k
    <3>4. Sound(stage[k]) /\ Sound(stage[k - 1])
      BY <3>1
    <3>5. r[i].before = Patch(stage[k], stage[k - 1]) /\ r[i].after = Patch(stage[k - 1], stage[k])
      BY <1>6, <3>1, <3>2
    <3> QED BY <3>2, <3>3, <3>4, <3>5, PatchExact
  <2> QED BY <2>2, <2>3
<1>16. Path(r, stage[n], E, q)
  <2>1. \A i \in 1..q : r[i].undone <=> i > q
    BY <1>9, <1>11
  <2> HIDE DEF q
  <2>2. Len(r) = q
    BY <1>10 DEF q
  <2> QED BY <1>12, <1>13, <1>14, <1>15, <2>1, <2>2 DEF Path
<1> QED BY <1>9, <1>10, <1>16 DEF r, E, gone

-----------------------------------------------------------------------------
(* Rows: what each write makes of one, and of the documents it leads to. *)

\* The edits of a row lead from the oldest document it remembers to the newest.
RowOk(row) ==
  /\ row \in [name : Names, boards : SUBSET Board, counter : Nat, history : Seq(Edits)]
  /\ Sound(row.boards) /\ row.boards # {}
  /\ Len(row.history) <= UndoLimit
  /\ \E p \in 0..Len(row.history) : \E D : Path(row.history, row.boards, D, p)

\* The documents behind a canvas after k edits of one that showed shown.
Grows(was, now, shown, k) ==
  LET gone == Gone(Len(was), k)
  IN /\ Len(now) = Len(was) + k - gone
     /\ \A i \in 1..Len(was) : i > gone => now[i - gone] = was[i]
     /\ gone <= Len(was) => now[Len(was) + 1 - gone] = shown

\* What the stack does when a row becomes another one.
Same(row, new)   == new.boards = row.boards /\ Behind(new) = Behind(row) /\ Ahead(new) = Ahead(row)
Edited(row, new) == Ahead(new) = <<>> /\ \E k \in 1..MaxBatch : Grows(Behind(row), Behind(new), row.boards, k)
Back(row, new) ==
  LET was == Behind(row)
  IN /\ was # <<>>
     /\ new.boards = was[Len(was)]
     /\ Behind(new) = SubSeq(was, 1, Len(was) - 1)
     /\ Ahead(new) = <<row.boards>> \o Ahead(row)
Forth(row, new) ==
  LET next == Ahead(row)
  IN /\ next # <<>>
     /\ new.boards = Head(next)
     /\ Behind(new) = Append(Behind(row), row.boards)
     /\ Ahead(new) = Tail(next)

LEMMA RowParts ==
  ASSUME NEW row, RowOk(row)
  PROVE  /\ row.name \in Names /\ row.counter \in Nat /\ row.history \in Seq(Edits) /\ row.boards \in SUBSET Board
         /\ Sound(row.boards) /\ row.boards # {} /\ Len(row.history) <= UndoLimit /\ Len(row.history) \in Nat
         /\ \E p \in 0..Len(row.history) : \E D : Path(row.history, row.boards, D, p)
<1>1. row \in [name : Names, boards : SUBSET Board, counter : Nat, history : Seq(Edits)]
  BY DEF RowOk
<1>2. row.name \in Names /\ row.counter \in Nat /\ row.history \in Seq(Edits) /\ row.boards \in SUBSET Board
  BY <1>1
<1>3. Len(row.history) \in Nat
  BY <1>2
<1> QED BY <1>2, <1>3 DEF RowOk

LEMMA FieldsChanged ==
  ASSUME NEW A, NEW B, NEW C, NEW H, NEW row \in [name : A, boards : B, counter : C, history : H],
         NEW a \in A, NEW b \in B, NEW c \in C, NEW h \in H
  PROVE  LET new == [row EXCEPT !.boards = b, !.counter = c, !.history = h]
             called == [row EXCEPT !.name = a, !.counter = c]
         IN /\ new \in [name : A, boards : B, counter : C, history : H]
            /\ new.name = row.name /\ new.boards = b /\ new.counter = c /\ new.history = h
            /\ called \in [name : A, boards : B, counter : C, history : H]
            /\ called.name = a /\ called.boards = row.boards /\ called.counter = c
            /\ called.history = row.history
<1>1. LET new == [row EXCEPT !.boards = b, !.counter = c, !.history = h]
         IN /\ new \in [name : A, boards : B, counter : C, history : H]
  OBVIOUS
<1>2. LET new == [row EXCEPT !.boards = b, !.counter = c, !.history = h]
         IN /\ new.name = row.name /\ new.boards = b /\ new.counter = c /\ new.history = h
  OBVIOUS
<1>3. LET called == [row EXCEPT !.name = a, !.counter = c]
      IN   /\ called \in [name : A, boards : B, counter : C, history : H]
  OBVIOUS
<1>4. LET called == [row EXCEPT !.name = a, !.counter = c]
      IN /\ called.name = a /\ called.boards = row.boards /\ called.counter = c
            /\ called.history = row.history
  OBVIOUS
<1> QED BY <1>1, <1>2, <1>3, <1>4

LEMMA RowEdited ==
  ASSUME NEW row, RowOk(row), NEW boards \in SUBSET Board, NEW c \in Nat, NEW h \in Seq(Edits)
  PROVE  LET new == [row EXCEPT !.boards = boards, !.counter = c, !.history = h]
         IN /\ new \in [name : Names, boards : SUBSET Board, counter : Nat, history : Seq(Edits)]
            /\ new.name = row.name /\ new.boards = boards /\ new.counter = c /\ new.history = h
<1> DEFINE B == SUBSET Board
           H == Seq(Edits)
<1>1. row \in [name : Names, boards : B, counter : Nat, history : H] /\ boards \in B /\ h \in H
  BY DEF RowOk
<1>2. row.name \in Names
  BY <1>1
<1> HIDE DEF B, H
<1>3. LET new == [row EXCEPT !.boards = boards, !.counter = c, !.history = h]
      IN /\ new \in [name : Names, boards : B, counter : Nat, history : H]
         /\ new.name = row.name /\ new.boards = boards /\ new.counter = c /\ new.history = h
  BY <1>1, <1>2, FieldsChanged
<1> QED BY <1>3 DEF B, H

LEMMA RowCalled ==
  ASSUME NEW row, RowOk(row), NEW name \in Names
  PROVE  LET new == [row EXCEPT !.name = name, !.counter = row.counter + 1]
         IN /\ new \in [name : Names, boards : SUBSET Board, counter : Nat, history : Seq(Edits)]
            /\ new.name = name /\ new.boards = row.boards /\ new.counter = row.counter + 1
            /\ new.history = row.history
<1> DEFINE B == SUBSET Board
           H == Seq(Edits)
           c == row.counter + 1
<1>1. row \in [name : Names, boards : B, counter : Nat, history : H]
  BY DEF RowOk
<1>2. c \in Nat /\ row.boards \in B /\ row.history \in H
  BY <1>1
<1> HIDE DEF B, H, c
<1>3. LET new == [row EXCEPT !.name = name, !.counter = c]
      IN /\ new \in [name : Names, boards : B, counter : Nat, history : H]
         /\ new.name = name /\ new.boards = row.boards /\ new.counter = c /\ new.history = row.history
  BY <1>1, <1>2, FieldsChanged
<1> QED BY <1>3 DEF B, H, c

LEMMA RowStack ==
  ASSUME NEW row, NEW h, row.history = h, h \in Seq(Edits), NEW n, n = Len(h), NEW p, p \in 0..n, NEW D,
         Path(h, row.boards, D, p)
  PROVE  Behind(row) = Before(D, p) /\ Ahead(row) = Later(D, p, n)
<1>1. row.history \in Seq(Edits) /\ p \in 0..Len(row.history) /\ Path(row.history, row.boards, D, p)
  OBVIOUS
<1>2. Behind(row) = Before(D, p) /\ Ahead(row) = Later(D, p, Len(row.history))
  BY <1>1, BehindIs, AheadIs
<1> QED BY <1>2

\* The stack a path stands for, before and after a step back or forth.
LEMMA StepBack ==
  ASSUME NEW D, NEW S, NEW n \in Nat, NEW p \in 1..n, \A i \in 0..n : D[i] \in S
  PROVE  LET was == Before(D, p)
         IN /\ was # <<>> /\ was[Len(was)] = D[p - 1]
            /\ SubSeq(was, 1, Len(was) - 1) = Before(D, p - 1)
            /\ <<D[p]>> \o Later(D, p, n) = Later(D, p - 1, n)
<1> DEFINE was == [i \in 1..p |-> D[i - 1]]
           z == [i \in 1..(n - p) |-> D[p + i]]
           a == <<D[p]>>
<1>1. /\ p \in Nat /\ p >= 1 /\ p <= n /\ p - 1 \in Nat /\ n - p \in Nat
      /\ \A i \in 1..p : i - 1 \in 0..n
      /\ \A i \in 1..(n - p) : p + i \in 0..n
  OBVIOUS
<1>2. was \in Seq(S) /\ Len(was) = p /\ \A i \in 1..p : was[i] = D[i - 1]
  <2>1. was \in [1..p -> S]
    BY <1>1
  <2> QED BY <1>1, <2>1
<1>3. z \in Seq(S) /\ Len(z) = n - p /\ \A i \in 1..(n - p) : z[i] = D[p + i]
  <2>1. z \in [1..(n - p) -> S]
    BY <1>1
  <2> QED BY <1>1, <2>1
<1>4. a \in Seq(S) /\ Len(a) = 1 /\ a[1] = D[p]
  <2>1. p \in 0..n
    BY <1>1
  <2> QED BY <2>1
<1> HIDE DEF was, z, a, Before, Later
<1>5. was # <<>> /\ was[Len(was)] = D[p - 1]
  <2>1. p \in 1..p
    BY <1>1
  <2> QED BY <1>1, <1>2, <2>1
<1>6. SubSeq(was, 1, p - 1) = [i \in 1..(p - 1) |-> D[i - 1]]
  <2> DEFINE q == p - 1
             s == SubSeq(was, 1, q)
  <2>1. 1 \in Int /\ q \in Int /\ q >= 0 /\ (\A i \in 1..q : was[i] \in S /\ was[i] = D[i - 1])
    BY <1>1, <1>2
  <2> HIDE DEF q
  <2>2. /\ SubSeq(was, 1, q) \in Seq(S) /\ Len(SubSeq(was, 1, q)) = (IF 1 <= q THEN q - 1 + 1 ELSE 0)
        /\ \A i \in 1..(q - 1 + 1) : SubSeq(was, 1, q)[i] = was[1 + i - 1]
    BY <2>1, SubSeqProperties
  <2>3. s \in Seq(S) /\ Len(s) = q
    BY <2>1, <2>2
  <2>4. \A i \in 1..q : s[i] = D[i - 1]
    <3> TAKE i \in 1..q
    <3>1. i \in 1..(q - 1 + 1) /\ 1 + i - 1 = i
      BY <2>1
    <3> QED BY <2>1, <2>2, <3>1
  <2> HIDE DEF s
  <2>5. s = [i \in 1..q |-> s[i]]
    BY <2>1, <2>3
  <2>6. s = [i \in 1..q |-> D[i - 1]]
    BY <2>4, <2>5
  <2> QED BY <2>6 DEF s, q
<1>7. a \o z = [i \in 1..(n - (p - 1)) |-> D[(p - 1) + i]]
  <2> DEFINE y == a \o z
             m == n - (p - 1)
  <2>1. a \o z \in Seq(S) /\ Len(a \o z) = Len(a) + Len(z)
        /\ \A i \in 1..(Len(a) + Len(z)) : (a \o z)[i] = IF i <= Len(a) THEN a[i] ELSE z[i - Len(a)]
    BY <1>3, <1>4, ConcatProperties
  <2>2. y \in Seq(S) /\ Len(y) = m /\ m \in Nat /\ Len(a) + Len(z) = m
    BY <1>1, <1>3, <1>4, <2>1
  <2>3. \A i \in 1..m : y[i] = D[(p - 1) + i]
    <3> TAKE i \in 1..m
    <3>1. i \in 1..(Len(a) + Len(z)) /\ i \in Int
      BY <2>2
    <3> HIDE DEF m
    <3>2. y[i] = IF i <= 1 THEN a[i] ELSE z[i - 1]
      BY <1>4, <2>1, <3>1
    <3> HIDE DEF y
    <3>3. CASE i = 1
      <4>1. y[i] = D[p] /\ (p - 1) + i = p
        BY <1>1, <1>4, <3>2, <3>3
      <4> QED BY <4>1
    <3>4. CASE i # 1
      <4>1. i - 1 \in 1..(n - p) /\ ~ (i <= 1) /\ p + (i - 1) = (p - 1) + i
        BY <1>1, <3>4 DEF m
      <4>2. z[i - 1] = D[p + (i - 1)]
        BY <1>3, <4>1
      <4> QED BY <3>2, <4>1, <4>2
    <3> QED BY <3>3, <3>4
  <2> HIDE DEF y, m
  <2>4. y = [i \in 1..m |-> y[i]]
    BY <2>2
  <2>5. y = [i \in 1..m |-> D[(p - 1) + i]]
    BY <2>3, <2>4
  <2> QED BY <2>5 DEF y, m
<1>8. Len(was) - 1 = p - 1
  BY <1>2
<1> QED BY <1>5, <1>6, <1>7, <1>8 DEF was, z, a, Before, Later

LEMMA StepForth ==
  ASSUME NEW D, NEW S, NEW n \in Nat, NEW p \in 0..(n - 1), \A i \in 0..n : D[i] \in S
  PROVE  LET next == Later(D, p, n)
         IN /\ next # <<>> /\ Head(next) = D[p + 1]
            /\ Tail(next) = Later(D, p + 1, n)
            /\ Append(Before(D, p), D[p]) = Before(D, p + 1)
<1> DEFINE next == [i \in 1..(n - p) |-> D[p + i]]
           was  == [i \in 1..p |-> D[i - 1]]
<1>1. /\ p \in Nat /\ p + 1 <= n /\ n - p \in Nat /\ n - p >= 1 /\ n - (p + 1) \in Nat /\ (n - p) - 1 = n - (p + 1)
      /\ \A i \in 1..p : i - 1 \in 0..n
      /\ \A i \in 1..(n - p) : p + i \in 0..n
      /\ p \in 0..n
  OBVIOUS
<1>2. next \in Seq(S) /\ Len(next) = n - p /\ \A i \in 1..(n - p) : next[i] = D[p + i]
  <2>1. next \in [1..(n - p) -> S]
    BY <1>1
  <2> QED BY <1>1, <2>1
<1>3. was \in Seq(S) /\ Len(was) = p /\ \A i \in 1..p : was[i] = D[i - 1]
  <2>1. was \in [1..p -> S]
    BY <1>1
  <2> QED BY <1>1, <2>1
<1> HIDE DEF next, was, Before, Later
<1>4. next # <<>> /\ Head(next) = D[p + 1]
  <2>1. 1 \in 1..(n - p) /\ next # <<>>
    BY <1>1, <1>2
  <2>2. Head(next) = next[1]
    BY <1>2, <2>1
  <2> QED BY <1>2, <2>1, <2>2
<1>5. Tail(next) = [i \in 1..(n - (p + 1)) |-> D[(p + 1) + i]]
  <2> DEFINE t == Tail(next)
             m == n - (p + 1)
  <2>1. t \in Seq(S) /\ Len(t) = m /\ \A i \in 1..m : t[i] = next[i + 1]
    BY <1>1, <1>2, <1>4, HeadTailProperties
  <2> HIDE DEF t
  <2>2. \A i \in 1..m : t[i] = D[(p + 1) + i]
    <3> TAKE i \in 1..m
    <3>1. i + 1 \in 1..(n - p) /\ p + (i + 1) = (p + 1) + i
      BY <1>1
    <3> HIDE DEF m
    <3> QED BY <1>2, <2>1, <3>1
  <2>3. m \in Nat
    BY <1>1
  <2> HIDE DEF m
  <2>4. t = [i \in 1..m |-> t[i]]
    BY <2>1, <2>3
  <2>5. t = [i \in 1..m |-> D[(p + 1) + i]]
    BY <2>2, <2>4
  <2> QED BY <2>5 DEF t, m
<1>6. Append(was, D[p]) = [i \in 1..(p + 1) |-> D[i - 1]]
  <2> DEFINE t == Append(was, D[p])
  <2>1. D[p] \in S
    BY <1>1
  <2>2. t \in Seq(S) /\ Len(t) = p + 1 /\ (\A i \in 1..p : t[i] = was[i]) /\ t[p + 1] = D[p]
    BY <1>1, <1>3, <2>1, AppendProperties
  <2> HIDE DEF t
  <2>3. \A i \in 1..(p + 1) : t[i] = D[i - 1]
    <3> TAKE i \in 1..(p + 1)
    <3>1. CASE i = p + 1
      <4>1. i - 1 = p
        BY <1>1, <3>1
      <4> QED BY <2>2, <3>1, <4>1
    <3>2. CASE i # p + 1
      <4>1. i \in 1..p
        BY <1>1, <3>2
      <4> QED BY <1>3, <2>2, <4>1
    <3> QED BY <3>1, <3>2
  <2>4. t = [i \in 1..(p + 1) |-> t[i]]
    BY <1>1, <2>2
  <2>5. t = [i \in 1..(p + 1) |-> D[i - 1]]
    BY <2>3, <2>4
  <2> QED BY <2>5 DEF t
<1> QED BY <1>4, <1>5, <1>6 DEF next, was, Before, Later

\* A new row has no history.
LEMMA RowBegun ==
  ASSUME NEW name \in Names, NEW boards, Sound(boards), boards # {}
  PROVE  LET new == NewRow(name, boards)
         IN /\ RowOk(new) /\ Behind(new) = <<>> /\ Ahead(new) = <<>>
            /\ new.name = name /\ new.boards = boards /\ new.counter = 0
<1> DEFINE new == NewRow(name, boards)
           D   == [i \in 0..0 |-> boards]
<1>1. /\ new = [name |-> name, boards |-> boards, counter |-> 0, history |-> <<>>]
      /\ new.name = name /\ new.boards = boards /\ new.counter = 0 /\ new.history = <<>>
  BY DEF NewRow
<1>2. boards \in SUBSET Board /\ <<>> \in Seq(Edits) /\ Len(<<>>) = 0 /\ UndoLimit \in Nat
  BY CanvasAssumption DEF Sound
<1>3. Path(<<>>, boards, D, 0)
  BY <1>2 DEF Path
<1> HIDE DEF new, D
<1>4. Path(new.history, new.boards, D, 0) /\ 0 \in 0..Len(new.history) /\ new.history \in Seq(Edits)
  BY <1>1, <1>2, <1>3
<1>5. Behind(new) = Before(D, 0) /\ Ahead(new) = Later(D, 0, Len(new.history))
  BY <1>4, RowStack
<1>6. Behind(new) = <<>> /\ Ahead(new) = <<>>
  BY <1>1, <1>2, <1>5 DEF Before, Later
<1>7. new \in [name : Names, boards : SUBSET Board, counter : Nat, history : Seq(Edits)]
  BY <1>1, <1>2
<1>8. RowOk(new)
  BY <1>1, <1>2, <1>4, <1>7 DEF RowOk
<1> QED BY <1>1, <1>6, <1>8 DEF new

LEMMA RowRenamed ==
  ASSUME NEW row, RowOk(row), NEW name \in Names
  PROVE  LET new == [row EXCEPT !.name = name, !.counter = row.counter + 1]
         IN RowOk(new) /\ Same(row, new) /\ new.counter = row.counter + 1
<1> DEFINE new == [row EXCEPT !.name = name, !.counter = row.counter + 1]
<1>1. /\ new \in [name : Names, boards : SUBSET Board, counter : Nat, history : Seq(Edits)]
      /\ new.boards = row.boards /\ new.counter = row.counter + 1 /\ new.history = row.history
  BY RowCalled
<1> HIDE DEF new
<1>2. PICK p \in 0..Len(row.history) : \E D : Path(row.history, row.boards, D, p)
  BY RowParts
<1>3. PICK D : Path(row.history, row.boards, D, p)
  BY <1>2
<1>4. Path(new.history, new.boards, D, p) /\ p \in 0..Len(new.history)
  BY <1>1, <1>3
<1>5. row.history \in Seq(Edits) /\ new.history \in Seq(Edits)
  BY <1>1, RowParts
<1>6. Sound(row.boards) /\ row.boards # {} /\ Len(row.history) <= UndoLimit
  BY RowParts
<1>7. RowOk(new)
  BY <1>1, <1>4, <1>6 DEF RowOk
<1>8. Behind(row) = Before(D, p) /\ Ahead(row) = Later(D, p, Len(row.history))
  BY <1>3, <1>5, RowStack
<1>9. Behind(new) = Before(D, p) /\ Ahead(new) = Later(D, p, Len(new.history))
  BY <1>4, <1>5, RowStack
<1>10. Behind(new) = Behind(row) /\ Ahead(new) = Ahead(row)
  BY <1>1, <1>8, <1>9
<1> QED BY <1>1, <1>7, <1>10 DEF new, Same

\* The documents of a path are documents.
LEMMA PathDocuments ==
  ASSUME NEW h, NEW B, NEW D, NEW p, Path(h, B, D, p)
  PROVE  D[p] = B /\ \A i \in 0..Len(h) : Sound(D[i]) /\ D[i] \in SUBSET Board
BY DEF Path, Sound

LEMMA RowUndone ==
  ASSUME NEW row, RowOk(row), Applied(row.history) # <<>>
  PROVE  LET edit == Last(Applied(row.history))
             boards == ApplyPatch(row.boards, edit.before)
             new == [row EXCEPT !.boards = boards, !.counter = row.counter + 1,
                                !.history = Mark(row.history, edit.sequence, TRUE)]
         IN /\ boards # {} => RowOk(new)
            /\ Sound(boards) /\ Back(row, new) /\ new.counter = row.counter + 1 /\ new.boards = boards
<1> DEFINE edit == Last(Applied(row.history))
           boards == ApplyPatch(row.boards, edit.before)
           M == Mark(row.history, edit.sequence, TRUE)
           new == [row EXCEPT !.boards = boards, !.counter = row.counter + 1, !.history = M]
           n == Len(row.history)
<1>1. PICK p \in 0..Len(row.history) : \E D : Path(row.history, row.boards, D, p)
  BY RowParts
<1>2. PICK D : Path(row.history, row.boards, D, p)
  BY <1>1
<1>3. row.history \in Seq(Edits) /\ n \in Nat /\ n <= UndoLimit
  BY RowParts
<1>4. /\ p >= 1 /\ boards = D[p - 1]
      /\ M \in Seq(Edits) /\ Len(M) = n /\ Path(M, D[p - 1], D, p - 1)
  BY <1>2, <1>3, UndoPath
<1>5. D[p] = row.boards /\ \A i \in 0..n : Sound(D[i]) /\ D[i] \in SUBSET Board
  BY <1>2, PathDocuments
<1>6. p \in 1..n /\ p - 1 \in 0..n
  BY <1>3, <1>4
<1>7. Sound(boards) /\ boards \in SUBSET Board
  BY <1>4, <1>5, <1>6
<1>8. /\ new \in [name : Names, boards : SUBSET Board, counter : Nat, history : Seq(Edits)]
      /\ new.boards = boards /\ new.counter = row.counter + 1 /\ new.history = M
  <2> DEFINE c == row.counter + 1
  <2>1. c \in Nat
    BY RowParts
  <2> HIDE DEF boards, M, c
  <2>2. LET x == [row EXCEPT !.boards = boards, !.counter = c, !.history = M]
        IN /\ x \in [name : Names, boards : SUBSET Board, counter : Nat, history : Seq(Edits)]
           /\ x.boards = boards /\ x.counter = c /\ x.history = M
    BY <1>4, <1>7, <2>1, RowEdited
  <2> QED BY <2>2 DEF c
<1> HIDE DEF new, boards, M
<1>9. Path(new.history, new.boards, D, p - 1) /\ p - 1 \in 0..Len(new.history) /\ new.history \in Seq(Edits)
  BY <1>4, <1>6, <1>8
<1>10. Behind(row) = Before(D, p) /\ Ahead(row) = Later(D, p, n)
  BY <1>2, <1>3, RowStack
<1>11. /\ Behind(new) = Before(D, p - 1)
       /\ Ahead(new) = Later(D, p - 1, n)
  BY <1>4, <1>8, <1>9, RowStack
<1>12. boards # {} => RowOk(new)
  BY <1>3, <1>4, <1>7, <1>8, <1>9 DEF RowOk
<1>13. /\ Behind(row) # <<>> /\ Behind(row)[Len(Behind(row))] = D[p - 1]
       /\ SubSeq(Behind(row), 1, Len(Behind(row)) - 1) = Before(D, p - 1)
       /\ <<D[p]>> \o Ahead(row) = Later(D, p - 1, n)
  <2> DEFINE S == SUBSET Board
  <2>1. n \in Nat /\ p \in 1..n /\ \A i \in 0..n : D[i] \in S
    BY <1>3, <1>5, <1>6
  <2> HIDE DEF S, n
  <2> QED BY <1>10, <2>1, StepBack
<1>14. Back(row, new)
  BY <1>4, <1>5, <1>8, <1>11, <1>13 DEF Back
<1> QED BY <1>7, <1>8, <1>12, <1>14 DEF new, boards, M

LEMMA RowRedone ==
  ASSUME NEW row, RowOk(row), Undone(row.history) # <<>>
  PROVE  LET edit == Head(Undone(row.history))
             boards == ApplyPatch(row.boards, edit.after)
             new == [row EXCEPT !.boards = boards, !.counter = row.counter + 1,
                                !.history = Mark(row.history, edit.sequence, FALSE)]
         IN /\ boards # {} => RowOk(new)
            /\ Sound(boards) /\ Forth(row, new) /\ new.counter = row.counter + 1 /\ new.boards = boards
<1> DEFINE edit == Head(Undone(row.history))
           boards == ApplyPatch(row.boards, edit.after)
           M == Mark(row.history, edit.sequence, FALSE)
           new == [row EXCEPT !.boards = boards, !.counter = row.counter + 1, !.history = M]
           n == Len(row.history)
<1>1. PICK p \in 0..Len(row.history) : \E D : Path(row.history, row.boards, D, p)
  BY RowParts
<1>2. PICK D : Path(row.history, row.boards, D, p)
  BY <1>1
<1>3. row.history \in Seq(Edits) /\ n \in Nat /\ n <= UndoLimit
  BY RowParts
<1>4. /\ p + 1 <= n /\ boards = D[p + 1]
      /\ M \in Seq(Edits) /\ Len(M) = n /\ Path(M, D[p + 1], D, p + 1)
  BY <1>2, <1>3, RedoPath
<1>5. D[p] = row.boards /\ \A i \in 0..n : Sound(D[i]) /\ D[i] \in SUBSET Board
  BY <1>2, PathDocuments
<1>6. p \in 0..(n - 1) /\ p + 1 \in 0..n
  BY <1>3, <1>4
<1>7. Sound(boards) /\ boards \in SUBSET Board
  BY <1>4, <1>5, <1>6
<1>8. /\ new \in [name : Names, boards : SUBSET Board, counter : Nat, history : Seq(Edits)]
      /\ new.boards = boards /\ new.counter = row.counter + 1 /\ new.history = M
  <2> DEFINE c == row.counter + 1
  <2>1. c \in Nat
    BY RowParts
  <2> HIDE DEF boards, M, c
  <2>2. LET x == [row EXCEPT !.boards = boards, !.counter = c, !.history = M]
        IN /\ x \in [name : Names, boards : SUBSET Board, counter : Nat, history : Seq(Edits)]
           /\ x.boards = boards /\ x.counter = c /\ x.history = M
    BY <1>4, <1>7, <2>1, RowEdited
  <2> QED BY <2>2 DEF c
<1> HIDE DEF new, boards, M
<1>9. Path(new.history, new.boards, D, p + 1) /\ p + 1 \in 0..Len(new.history) /\ new.history \in Seq(Edits)
  BY <1>4, <1>6, <1>8
<1>10. Behind(row) = Before(D, p) /\ Ahead(row) = Later(D, p, n)
  BY <1>2, <1>3, RowStack
<1>11. /\ Behind(new) = Before(D, p + 1)
       /\ Ahead(new) = Later(D, p + 1, n)
  BY <1>4, <1>8, <1>9, RowStack
<1>12. boards # {} => RowOk(new)
  BY <1>3, <1>4, <1>7, <1>8, <1>9 DEF RowOk
<1>13. /\ Ahead(row) # <<>> /\ Head(Ahead(row)) = D[p + 1]
       /\ Tail(Ahead(row)) = Later(D, p + 1, n)
       /\ Append(Behind(row), D[p]) = Before(D, p + 1)
  <2> DEFINE S == SUBSET Board
  <2>1. n \in Nat /\ p \in 0..(n - 1) /\ \A i \in 0..n : D[i] \in S
    BY <1>3, <1>5, <1>6
  <2> HIDE DEF S, n
  <2> QED BY <1>10, <2>1, StepForth
<1>14. Forth(row, new)
  BY <1>4, <1>5, <1>8, <1>11, <1>13 DEF Forth
<1> QED BY <1>7, <1>8, <1>12, <1>14 DEF new, boards, M

LEMMA StagesSound ==
  ASSUME NEW B, Sound(B), NEW batch \in Batches, Runs(B, batch)
  PROVE  LET stage == Stages(B, batch)
         IN /\ Len(batch) \in Nat /\ Len(batch) \in 1..MaxBatch
            /\ stage[0] = B /\ \A i \in 0..Len(batch) : Sound(stage[i])
<1> DEFINE stage == Stages(B, batch)
           n == Len(batch)
<1>1. /\ batch \in Seq(Command) /\ n \in 1..MaxBatch /\ n \in Nat /\ DOMAIN batch = 1..n /\ MaxBatch \in Nat
      /\ \A i \in 1..n : batch[i] \in Command
      /\ \A i \in DOMAIN batch : batch[i].kind = "node-duplicate" => \E x \in batch[i].nodes : batch[i].nodes = {x}
  BY CanvasAssumption
<1>2. \A i \in 1..n : Runnable(batch[i])
  BY <1>1 DEF Runnable
<1>3. stage[0] = B /\ \A i \in 1..n : stage[i] = After(stage[i - 1], batch[i])
  BY <1>1, StagesAre
<1>4. \A i \in 1..n : Accepts(stage[i - 1], batch[i])
  BY <1>1 DEF Runs
<1> HIDE DEF stage, n
<1> DEFINE S == {i \in Nat : i <= n => Sound(stage[i])}
<1>5. 0 \in S
  BY <1>3
<1>6. ASSUME NEW i \in Nat, i \in S PROVE i + 1 \in S
  <2> SUFFICES ASSUME i + 1 <= n PROVE Sound(stage[i + 1])
    OBVIOUS
  <2> DEFINE j == i + 1
  <2>1. j \in 1..n /\ i = j - 1 /\ Sound(stage[i])
    BY <1>1, <1>6
  <2> HIDE DEF j, S
  <2>2. Sound(stage[j - 1])
    BY <2>1
  <2>3. Runnable(batch[j]) /\ Accepts(stage[j - 1], batch[j]) /\ stage[j] = After(stage[j - 1], batch[j])
    BY <1>2, <1>3, <1>4, <2>1
  <2>4. Sound(After(stage[j - 1], batch[j]))
    BY <2>2, <2>3, AfterSound
  <2> QED BY <2>3, <2>4 DEF j
<1>7. Nat \subseteq S
  <2> HIDE DEF S
  <2> QED BY <1>5, <1>6, SetInduction
<1>8. \A i \in 0..n : Sound(stage[i])
  BY <1>1, <1>7
<1> QED BY <1>1, <1>3, <1>8 DEF stage, n

\* The documents behind a row after new edits: the newest of those behind it
\* before, the one it showed, and those on the way of the batch.
LEMMA Grown ==
  ASSUME NEW D, NEW p \in Nat, NEW n \in Nat, n >= 1, NEW stage
  PROVE  LET gone == Gone(p, n)
             was  == Before(D, p)
             now  == Before(Spliced(D, stage, p, n), p + n - gone)
         IN /\ Len(was) = p /\ Len(now) = p + n - gone
            /\ \A i \in 1..p : i > gone => now[i - gone] = was[i]
            /\ gone <= p => now[p + 1 - gone] = D[p]
<1> DEFINE gone == Gone(p, n)
           E == Spliced(D, stage, p, n)
<1>0. /\ gone \in Nat /\ gone <= p + n
      /\ E = [i \in 0..(p + n - gone) |-> IF i + gone <= p THEN D[i + gone] ELSE stage[i + gone - p]]
  <2>1. UndoLimit \in Nat /\ UndoLimit >= 1
    BY CanvasAssumption
  <2> QED BY <2>1 DEF Gone, Spliced
<1> HIDE DEF gone, E
<1> DEFINE was == Before(D, p)
           q == p + n - gone
           now == Before(E, q)
<1>1. q \in Nat
  BY <1>0
<1>2. Len(was) = p /\ \A i \in 1..p : was[i] = D[i - 1]
  BY DEF Before
<1>3. Len(now) = q /\ \A i \in 1..q : now[i] = E[i - 1]
  BY <1>1 DEF Before
<1>4. \A i \in 0..q : i + gone <= p => E[i] = D[i + gone]
  BY <1>0
<1> HIDE DEF was, now
<1>5. ASSUME NEW i \in 1..p, i > gone PROVE now[i - gone] = was[i]
  <2> DEFINE j == i - gone
  <2>1. j \in 1..q /\ j - 1 \in 0..q /\ (j - 1) + gone = i - 1 /\ i - 1 <= p
    BY <1>0, <1>1, <1>5
  <2> HIDE DEF j, q
  <2>2. now[j] = E[j - 1]
    BY <1>3, <2>1
  <2>3. E[j - 1] = D[i - 1]
    BY <1>4, <2>1
  <2> QED BY <1>2, <2>2, <2>3 DEF j
<1>6. ASSUME gone <= p PROVE now[p + 1 - gone] = D[p]
  <2> DEFINE j == p + 1 - gone
  <2>1. j \in 1..q /\ j - 1 \in 0..q /\ (j - 1) + gone = p /\ (j - 1) + gone <= p
    BY <1>0, <1>1, <1>6
  <2> HIDE DEF j, q
  <2>2. now[j] = E[j - 1]
    BY <1>3, <2>1
  <2>3. E[j - 1] = D[p]
    BY <1>4, <2>1
  <2> QED BY <2>2, <2>3 DEF j
<1> QED BY <1>2, <1>3, <1>5, <1>6 DEF was, now, q, gone, E

LEMMA RowBatched ==
  ASSUME NEW row, RowOk(row), NEW batch \in Batches, Runs(row.boards, batch)
  PROVE  LET stage  == Stages(row.boards, batch)
             boards == stage[Len(batch)]
             new == [row EXCEPT !.boards = boards, !.counter = row.counter + Len(batch),
                                !.history = Recorded(row.history, stage, Len(batch))]
         IN /\ boards # {} => RowOk(new)
            /\ Sound(boards) /\ Edited(row, new) /\ new.boards = boards
            /\ Len(batch) \in Nat /\ Len(batch) >= 1 /\ new.counter = row.counter + Len(batch)
<1> DEFINE stage  == Stages(row.boards, batch)
           n == Len(batch)
           boards == stage[n]
           r == Recorded(row.history, stage, n)
           new == [row EXCEPT !.boards = boards, !.counter = row.counter + n, !.history = r]
<1>1. PICK p \in 0..Len(row.history) : \E D : Path(row.history, row.boards, D, p)
  BY RowParts
<1>2. PICK D : Path(row.history, row.boards, D, p)
  BY <1>1
<1>3. row.history \in Seq(Edits) /\ Len(row.history) \in Nat /\ Len(row.history) <= UndoLimit /\ row.counter \in Nat
      /\ Sound(row.boards)
  BY RowParts
<1>4. p \in Nat /\ UndoLimit \in Nat /\ UndoLimit >= 1 /\ D[p] = row.boards
  BY <1>2, <1>3, CanvasAssumption, PathDocuments
<1>5. n \in Nat /\ n \in 1..MaxBatch /\ n >= 1 /\ n \in Nat \ {0} /\ stage[0] = row.boards /\ \A i \in 0..n : Sound(stage[i])
  <2>1. n \in Nat /\ n \in 1..MaxBatch /\ stage[0] = row.boards /\ \A i \in 0..n : Sound(stage[i])
    BY <1>3, StagesSound
  <2> QED BY <2>1
<1> DEFINE gone == Gone(p, n)
           q == p + n - gone
           E == Spliced(D, stage, p, n)
<1> HIDE DEF stage, n
<1>6. r \in Seq(Edits) /\ Len(r) = q /\ q <= UndoLimit /\ Path(r, boards, E, q)
  BY <1>2, <1>3, <1>5, RecordedPath
<1>7. /\ gone = IF p + n > UndoLimit THEN p + n - UndoLimit ELSE 0
      /\ gone \in Nat /\ gone <= p + n /\ q \in Nat
  BY <1>4, <1>5 DEF Gone
<1>8. Sound(boards) /\ boards \in SUBSET Board
  <2>1. n \in 0..n
    BY <1>5
  <2> QED BY <1>5, <2>1 DEF Sound
<1>9. /\ new \in [name : Names, boards : SUBSET Board, counter : Nat, history : Seq(Edits)]
      /\ new.boards = boards /\ new.counter = row.counter + n /\ new.history = r
  <2> DEFINE c == row.counter + n
  <2>1. c \in Nat
    BY <1>3, <1>5
  <2> HIDE DEF boards, r, c
  <2>2. LET x == [row EXCEPT !.boards = boards, !.counter = c, !.history = r]
        IN /\ x \in [name : Names, boards : SUBSET Board, counter : Nat, history : Seq(Edits)]
           /\ x.boards = boards /\ x.counter = c /\ x.history = r
    BY <1>6, <1>8, <2>1, RowEdited
  <2> QED BY <2>2 DEF c
<1> HIDE DEF new, boards, r
<1>10. Behind(row) = Before(D, p)
  BY <1>2, <1>3, RowStack
<1>11. /\ LET was == Before(D, p)
              now == Before(E, q)
          IN /\ Len(was) = p /\ Len(now) = q
             /\ \A i \in 1..p : i > gone => now[i - gone] = was[i]
             /\ gone <= p => now[p + 1 - gone] = D[p]
  BY <1>4, <1>5, Grown
<1> HIDE DEF gone
<1> HIDE DEF E
<1>12. Behind(new) = Before(E, q) /\ Ahead(new) = Later(E, q, q)
  <2> HIDE DEF q
  <2>1. q \in 0..q /\ new.history = r /\ Path(r, new.boards, E, q)
    BY <1>6, <1>7, <1>9
  <2> QED BY <1>6, <2>1, RowStack
<1>13. Ahead(new) = <<>>
  <2> HIDE DEF q
  <2>1. Later(E, q, q) = [i \in 1..0 |-> E[q + i]]
    BY <1>7 DEF Later
  <2> QED BY <1>12, <2>1
<1>14. boards # {} => RowOk(new)
  <2> HIDE DEF q
  <2>1. q \in 0..Len(new.history) /\ Path(new.history, new.boards, E, q)
    BY <1>6, <1>7, <1>9
  <2> QED BY <1>6, <1>8, <1>9, <2>1 DEF RowOk
<1>15. Edited(row, new)
  <2>1. /\ Len(Behind(row)) = p /\ Len(Behind(new)) = q
        /\ \A i \in 1..p : i > gone => Behind(new)[i - gone] = Behind(row)[i]
        /\ gone <= p => Behind(new)[p + 1 - gone] = row.boards
    <3> HIDE DEF q
    <3> QED BY <1>4, <1>10, <1>11, <1>12
  <2>2. gone = Gone(Len(Behind(row)), n)
    BY <2>1 DEF gone
  <2>3. /\ Len(Behind(new)) = Len(Behind(row)) + n - gone
        /\ \A i \in 1..Len(Behind(row)) : i > gone => Behind(new)[i - gone] = Behind(row)[i]
        /\ gone <= Len(Behind(row)) => Behind(new)[Len(Behind(row)) + 1 - gone] = row.boards
    BY <2>1
  <2>4. Grows(Behind(row), Behind(new), row.boards, n)
    BY <2>2, <2>3 DEF Grows
  <2>5. \E k \in 1..MaxBatch : Grows(Behind(row), Behind(new), row.boards, k)
    BY <1>5, <2>4
  <2> QED BY <1>13, <2>5 DEF Edited
<1> QED BY <1>5, <1>8, <1>9, <1>14, <1>15 DEF new, boards, r, stage, n

-----------------------------------------------------------------------------
(* The rows, and the windows that show them.                             *)

\* No node is of a component that is gone.
Clean(boards) == \A b \in boards : \A n \in b.nodes : n.type \in Components => component[n.type] # None

ComponentsOk == component \in [Components -> Surfaces \cup {{}, None}]
RowsOk       == DOMAIN canvas \subseteq Canvases /\ \A c \in DOMAIN canvas : RowOk(canvas[c])
RowsClean    == \A c \in DOMAIN canvas : Clean(canvas[c].boards)
\* What a window shows is older than the row, or the row.
WindowsOk    ==
  /\ DOMAIN window = Clients
  /\ \A w \in Clients : window[w] # None =>
       LET c == window[w].canvas
       IN /\ c \in DOMAIN canvas /\ window[w].counter \in Nat /\ Sound(window[w].boards)
          /\ window[w].counter <= canvas[c].counter
          /\ window[w].counter = canvas[c].counter => window[w] = Shows(c, canvas[c])

CanvasInv == ComponentsOk /\ RowsOk /\ RowsClean /\ WindowsOk

\* A row that a write may leave: it has a later counter, and the stack moved.
Rewrites(old, row) ==
  /\ RowOk(row) /\ row.counter > old.counter
  /\ Valid(row.boards) \/ row.boards = old.boards
  /\ Same(old, row) \/ Edited(old, row) \/ Back(old, row) \/ Forth(old, row)

LEMMA ValidIsClean ==
  ASSUME NEW boards, Valid(boards)
  PROVE  boards # {} /\ Clean(boards)
BY DEF Valid, Clean, Resolves

LEMMA ShowsWhat ==
  ASSUME NEW c, NEW row
  PROVE  /\ Shows(c, row).canvas = c /\ Shows(c, row).counter = row.counter
         /\ Shows(c, row).boards = row.boards
BY DEF Shows

LEMMA BatchWrites ==
  ASSUME RowsOk, NEW w \in Clients, NEW c \in Canvases, NEW batch \in Batches, RunCommands(w, c, batch)
  PROVE  c \in DOMAIN canvas /\ \E row : Saves(w, c, row) /\ Rewrites(canvas[c], row)
<1> DEFINE old    == canvas[c]
           stage  == Stages(old.boards, batch)
           boards == stage[Len(batch)]
           row == [old EXCEPT !.boards = boards, !.counter = old.counter + Len(batch),
                              !.history = Recorded(old.history, stage, Len(batch))]
<1>1. Current(w, c) /\ Runs(old.boards, batch) /\ Valid(boards) /\ Saves(w, c, row)
  BY DEF RunCommands
<1>2. c \in DOMAIN canvas /\ RowOk(old)
  BY <1>1 DEF Current, RowsOk
<1>3. /\ boards # {} => RowOk(row)
      /\ Sound(boards) /\ Edited(old, row) /\ row.boards = boards
      /\ Len(batch) \in Nat /\ Len(batch) >= 1 /\ row.counter = old.counter + Len(batch)
  <2> HIDE DEF old
  <2> QED BY <1>1, <1>2, RowBatched
<1> HIDE DEF row, boards, stage, old
<1>4. old.counter \in Nat /\ boards # {}
  BY <1>1, <1>2, RowParts, ValidIsClean
<1>5. row.counter > old.counter
  BY <1>3, <1>4
<1>6. Rewrites(old, row)
  BY <1>1, <1>3, <1>4, <1>5 DEF Rewrites
<1> QED BY <1>1, <1>2, <1>6 DEF old

LEMMA UndoWrites ==
  ASSUME RowsOk, NEW w \in Clients, NEW c \in Canvases, Undo(w, c)
  PROVE  c \in DOMAIN canvas /\ \E row : Saves(w, c, row) /\ Rewrites(canvas[c], row)
<1> DEFINE old    == canvas[c]
           edit   == Last(Applied(old.history))
           boards == ApplyPatch(old.boards, edit.before)
           row == [old EXCEPT !.boards = boards, !.counter = old.counter + 1,
                              !.history = Mark(old.history, edit.sequence, TRUE)]
<1>1. Current(w, c) /\ Applied(old.history) # <<>> /\ Valid(boards) /\ Saves(w, c, row)
  BY DEF Undo
<1>2. c \in DOMAIN canvas /\ RowOk(old)
  BY <1>1 DEF Current, RowsOk
<1>3. /\ boards # {} => RowOk(row)
      /\ Sound(boards) /\ Back(old, row) /\ row.counter = old.counter + 1 /\ row.boards = boards
  <2> HIDE DEF old
  <2> QED BY <1>1, <1>2, RowUndone
<1> HIDE DEF row, boards, edit, old
<1>4. old.counter \in Nat /\ boards # {}
  BY <1>1, <1>2, RowParts, ValidIsClean
<1>5. row.counter > old.counter
  BY <1>3, <1>4
<1>6. Rewrites(old, row)
  BY <1>1, <1>3, <1>4, <1>5 DEF Rewrites
<1> QED BY <1>1, <1>2, <1>6 DEF old

LEMMA RedoWrites ==
  ASSUME RowsOk, NEW w \in Clients, NEW c \in Canvases, Redo(w, c)
  PROVE  c \in DOMAIN canvas /\ \E row : Saves(w, c, row) /\ Rewrites(canvas[c], row)
<1> DEFINE old    == canvas[c]
           edit   == Head(Undone(old.history))
           boards == ApplyPatch(old.boards, edit.after)
           row == [old EXCEPT !.boards = boards, !.counter = old.counter + 1,
                              !.history = Mark(old.history, edit.sequence, FALSE)]
<1>1. Current(w, c) /\ Undone(old.history) # <<>> /\ Valid(boards) /\ Saves(w, c, row)
  BY DEF Redo
<1>2. c \in DOMAIN canvas /\ RowOk(old)
  BY <1>1 DEF Current, RowsOk
<1>3. /\ boards # {} => RowOk(row)
      /\ Sound(boards) /\ Forth(old, row) /\ row.counter = old.counter + 1 /\ row.boards = boards
  <2> HIDE DEF old
  <2> QED BY <1>1, <1>2, RowRedone
<1> HIDE DEF row, boards, edit, old
<1>4. old.counter \in Nat /\ boards # {}
  BY <1>1, <1>2, RowParts, ValidIsClean
<1>5. row.counter > old.counter
  BY <1>3, <1>4
<1>6. Rewrites(old, row)
  BY <1>1, <1>3, <1>4, <1>5 DEF Rewrites
<1> QED BY <1>1, <1>2, <1>6 DEF old

LEMMA RenameWrites ==
  ASSUME RowsOk, NEW w \in Clients, NEW c \in Canvases, NEW name \in Names, Rename(w, c, name)
  PROVE  c \in DOMAIN canvas /\ \E row : Saves(w, c, row) /\ Rewrites(canvas[c], row)
<1> DEFINE old == canvas[c]
           row == [old EXCEPT !.name = name, !.counter = old.counter + 1]
<1>1. Current(w, c) /\ Saves(w, c, row)
  BY DEF Rename
<1>2. c \in DOMAIN canvas /\ RowOk(old)
  BY <1>1 DEF Current, RowsOk
<1>3. RowOk(row) /\ Same(old, row) /\ row.counter = old.counter + 1
  <2> HIDE DEF old
  <2> QED BY <1>2, RowRenamed
<1> HIDE DEF row, old
<1>4. old.counter \in Nat
  BY <1>2, RowParts
<1>5. row.counter > old.counter
  BY <1>3, <1>4
<1>6. Rewrites(old, row)
  BY <1>3, <1>5 DEF Rewrites, Same
<1> QED BY <1>1, <1>2, <1>6 DEF old

\* A write keeps the invariant; nobody else's row changes.
LEMMA SavesKeeps ==
  ASSUME CanvasInv, NEW w \in Clients, NEW c \in DOMAIN canvas, NEW row, Saves(w, c, row), Rewrites(canvas[c], row)
  PROVE  CanvasInv'
<1>1. /\ component' = component /\ DOMAIN canvas' = DOMAIN canvas /\ DOMAIN window' = DOMAIN window
      /\ canvas'[c] = row /\ \A d \in DOMAIN canvas \ {c} : canvas'[d] = canvas[d]
      /\ DOMAIN window = Clients
      /\ window'[w] = Shows(c, row) /\ \A v \in Clients \ {w} : window'[v] = window[v]
  BY DEF CanvasInv, WindowsOk, Saves
<1>2. RowOk(row) /\ row.counter > canvas[c].counter /\ (Valid(row.boards) \/ row.boards = canvas[c].boards)
  BY DEF Rewrites
<1>3. RowOk(canvas[c]) /\ canvas[c].counter \in Nat /\ row.counter \in Nat /\ Sound(row.boards)
  BY <1>2, RowParts DEF CanvasInv, RowsOk
<1>4. ComponentsOk'
  BY <1>1 DEF CanvasInv, ComponentsOk
<1>5. RowsOk'
  BY <1>1, <1>2 DEF CanvasInv, RowsOk
<1>6. RowsClean'
  <2>1. Clean(row.boards)
    BY <1>2, ValidIsClean DEF CanvasInv, RowsClean
  <2> QED BY <1>1, <2>1 DEF CanvasInv, RowsClean, Clean
<1>7. WindowsOk'
  <2> SUFFICES ASSUME NEW v \in Clients, window'[v] # None
               PROVE  LET d == window'[v].canvas
                      IN /\ d \in DOMAIN canvas' /\ window'[v].counter \in Nat /\ Sound(window'[v].boards)
                         /\ window'[v].counter <= canvas'[d].counter
                         /\ window'[v].counter = canvas'[d].counter => window'[v] = Shows(d, canvas'[d])
    BY <1>1 DEF WindowsOk
  <2>1. CASE v = w
    <3>1. window'[v].canvas = c /\ window'[v].counter = row.counter /\ window'[v].boards = row.boards
      BY <1>1, <2>1, ShowsWhat
    <3> QED BY <1>1, <1>3, <2>1, <3>1
  <2>2. CASE v # w
    <3> DEFINE d == window[v].canvas
    <3>1. /\ window'[v] = window[v]
          /\ d \in DOMAIN canvas /\ window[v].counter \in Nat /\ Sound(window[v].boards)
          /\ window[v].counter <= canvas[d].counter
          /\ window[v].counter = canvas[d].counter => window[v] = Shows(d, canvas[d])
      BY <1>1, <2>2 DEF CanvasInv, WindowsOk
    <3> HIDE DEF d
    <3>2. CASE d = c
      <4>1. canvas'[d] = row /\ window[v].counter <= row.counter /\ window[v].counter # row.counter
        BY <1>1, <1>2, <1>3, <3>1, <3>2
      <4> QED BY <1>1, <3>1, <4>1 DEF d
    <3>3. CASE d # c
      <4>1. canvas'[d] = canvas[d]
        BY <1>1, <3>1, <3>3
      <4> QED BY <1>1, <3>1, <4>1 DEF d
    <3> QED BY <3>2, <3>3
  <2> QED BY <2>1, <2>2
<1> QED BY <1>4, <1>5, <1>6, <1>7 DEF CanvasInv

LEMMA InsertsKeeps ==
  ASSUME CanvasInv, NEW w \in Clients, NEW c \in Canvases, NEW name \in Names, NEW boards, Sound(boards),
         Inserts(w, c, name, boards)
  PROVE  CanvasInv'
<1> DEFINE row == NewRow(name, boards)
<1>1. /\ component' = component /\ DOMAIN canvas' = DOMAIN canvas \cup {c} /\ DOMAIN window' = DOMAIN window
      /\ c \notin DOMAIN canvas
      /\ canvas'[c] = row /\ \A d \in DOMAIN canvas : canvas'[d] = canvas[d]
      /\ DOMAIN window = Clients
      /\ window'[w] = Shows(c, row) /\ \A v \in Clients \ {w} : window'[v] = window[v]
  BY DEF CanvasInv, WindowsOk, Inserts
<1>2. Valid(boards) /\ boards # {} /\ Clean(boards)
  BY ValidIsClean DEF Inserts
<1>3. RowOk(row) /\ row.boards = boards /\ row.counter = 0
  BY <1>2, RowBegun
<1> HIDE DEF row
<1>4. ComponentsOk'
  BY <1>1 DEF CanvasInv, ComponentsOk
<1>5. RowsOk'
  BY <1>1, <1>3 DEF CanvasInv, RowsOk
<1>6. RowsClean'
  BY <1>1, <1>2, <1>3 DEF CanvasInv, RowsClean, Clean
<1>7. WindowsOk'
  <2> SUFFICES ASSUME NEW v \in Clients, window'[v] # None
               PROVE  LET d == window'[v].canvas
                      IN /\ d \in DOMAIN canvas' /\ window'[v].counter \in Nat /\ Sound(window'[v].boards)
                         /\ window'[v].counter <= canvas'[d].counter
                         /\ window'[v].counter = canvas'[d].counter => window'[v] = Shows(d, canvas'[d])
    BY <1>1 DEF WindowsOk
  <2>1. CASE v = w
    <3>1. window'[v].canvas = c /\ window'[v].counter = 0 /\ window'[v].boards = boards
      BY <1>1, <1>3, <2>1, ShowsWhat
    <3> QED BY <1>1, <1>3, <2>1, <3>1
  <2>2. CASE v # w
    <3> DEFINE d == window[v].canvas
    <3>1. /\ window'[v] = window[v]
          /\ d \in DOMAIN canvas /\ window[v].counter \in Nat /\ Sound(window[v].boards)
          /\ window[v].counter <= canvas[d].counter
          /\ window[v].counter = canvas[d].counter => window[v] = Shows(d, canvas[d])
      BY <1>1, <2>2 DEF CanvasInv, WindowsOk
    <3> HIDE DEF d
    <3>2. canvas'[d] = canvas[d] /\ d \in DOMAIN canvas'
      BY <1>1, <3>1
    <3> QED BY <3>1, <3>2 DEF d
  <2> QED BY <2>1, <2>2
<1> QED BY <1>4, <1>5, <1>6, <1>7 DEF CanvasInv

LEMMA LoadKeeps ==
  ASSUME CanvasInv, NEW w \in Clients, NEW c \in Canvases, Load(w, c)
  PROVE  CanvasInv'
<1>1. /\ component' = component /\ canvas' = canvas /\ DOMAIN window' = DOMAIN window
      /\ c \in DOMAIN canvas /\ DOMAIN window = Clients
      /\ window'[w] = Shows(c, canvas[c]) /\ \A v \in Clients \ {w} : window'[v] = window[v]
  BY DEF CanvasInv, WindowsOk, Load
<1>2. canvas[c].counter \in Nat /\ Sound(canvas[c].boards)
  BY <1>1, RowParts DEF CanvasInv, RowsOk
<1>3. ComponentsOk' /\ RowsOk' /\ RowsClean'
  BY <1>1 DEF CanvasInv, ComponentsOk, RowsOk, RowsClean, Clean
<1>4. WindowsOk'
  <2> SUFFICES ASSUME NEW v \in Clients, window'[v] # None
               PROVE  LET d == window'[v].canvas
                      IN /\ d \in DOMAIN canvas /\ window'[v].counter \in Nat /\ Sound(window'[v].boards)
                         /\ window'[v].counter <= canvas[d].counter
                         /\ window'[v].counter = canvas[d].counter => window'[v] = Shows(d, canvas[d])
    BY <1>1 DEF WindowsOk
  <2>1. CASE v = w
    BY <1>1, <1>2, <2>1, ShowsWhat
  <2>2. CASE v # w
    BY <1>1, <2>2 DEF CanvasInv, WindowsOk
  <2> QED BY <2>1, <2>2
<1> QED BY <1>3, <1>4 DEF CanvasInv

LEMMA ComponentsKeep ==
  ASSUME CanvasInv, NEW k \in Components,
         HardDelete(k) \/ \E s \in Surfaces : Publish(k, s)
  PROVE  CanvasInv'
<1>1. canvas' = canvas /\ window' = window
  BY DEF HardDelete, Publish
<1>2. RowsOk' /\ WindowsOk'
  BY <1>1 DEF CanvasInv, RowsOk, WindowsOk
<1>3. component \in [Components -> Surfaces \cup {{}, None}] /\ None \notin Surfaces
  BY CanvasAssumption DEF CanvasInv, ComponentsOk
<1>4. CASE HardDelete(k)
  <2>1. component' = [component EXCEPT ![k] = None] /\ \A c \in DOMAIN canvas : ~ Uses(canvas[c].boards, k)
    BY <1>4 DEF HardDelete
  <2>2. ComponentsOk'
    BY <1>3, <2>1 DEF ComponentsOk
  <2>3. \A t \in Components : t # k => component'[t] = component[t]
    BY <1>3, <2>1
  <2>4. RowsClean'
    BY <1>1, <2>1, <2>3 DEF CanvasInv, RowsClean, Clean, Uses
  <2> QED BY <1>2, <2>2, <2>4 DEF CanvasInv
<1>5. ASSUME NEW s \in Surfaces, Publish(k, s) PROVE CanvasInv'
  <2>1. component' = [component EXCEPT ![k] = s]
    BY <1>5 DEF Publish
  <2>2. ComponentsOk'
    BY <1>3, <2>1 DEF ComponentsOk
  <2>3. component'[k] # None /\ \A t \in Components : t # k => component'[t] = component[t]
    BY <1>3, <2>1
  <2>4. RowsClean'
    BY <1>1, <2>3 DEF CanvasInv, RowsClean, Clean
  <2> QED BY <1>2, <2>2, <2>4 DEF CanvasInv
<1> QED BY <1>4, <1>5

\* What a step does to the rows: nothing, one more, or one written.
Begun(c)      == c \notin DOMAIN canvas /\ DOMAIN canvas' = DOMAIN canvas \cup {c}
                 /\ \E name \in Names : \E boards :
                      Sound(boards) /\ boards # {} /\ canvas'[c] = NewRow(name, boards)
Rewritten(c)  == c \in DOMAIN canvas /\ DOMAIN canvas' = DOMAIN canvas /\ Rewrites(canvas[c], canvas'[c])
Alone(c)      == \A d \in DOMAIN canvas \ {c} : canvas'[d] = canvas[d]
RowsStep      == canvas' = canvas \/ \E c \in Canvases : Alone(c) /\ (Begun(c) \/ Rewritten(c))

LEMMA SavesStep ==
  ASSUME NEW w \in Clients, NEW c \in Canvases, c \in DOMAIN canvas, NEW row, Saves(w, c, row),
         Rewrites(canvas[c], row)
  PROVE  RowsStep
<1>1. canvas' = [canvas EXCEPT ![c] = row]
  BY DEF Saves
<1>2. DOMAIN canvas' = DOMAIN canvas /\ canvas'[c] = row /\ Alone(c)
  BY <1>1 DEF Alone
<1>3. Rewritten(c)
  BY <1>2 DEF Rewritten
<1> QED BY <1>2, <1>3 DEF RowsStep

LEMMA InsertsStep ==
  ASSUME NEW w \in Clients, NEW c \in Canvases, NEW name \in Names, NEW boards, Sound(boards),
         Inserts(w, c, name, boards)
  PROVE  RowsStep
<1>1. /\ c \notin DOMAIN canvas /\ boards # {}
      /\ canvas' = [d \in DOMAIN canvas \cup {c} |-> IF d = c THEN NewRow(name, boards) ELSE canvas[d]]
  BY ValidIsClean DEF Inserts
<1>2. DOMAIN canvas' = DOMAIN canvas \cup {c} /\ canvas'[c] = NewRow(name, boards) /\ Alone(c)
  BY <1>1 DEF Alone
<1>3. Begun(c)
  BY <1>1, <1>2 DEF Begun
<1> QED BY <1>2, <1>3 DEF RowsStep

\* Every step of the clients keeps the invariant and moves one row at most.
LEMMA CanvasNext ==
  ASSUME CanvasInv, Next
  PROVE  CanvasInv' /\ RowsStep
<1>1. RowsOk /\ WindowsOk
  BY DEF CanvasInv
<1>2. ASSUME NEW w \in Clients, NEW c \in Canvases, c \in DOMAIN canvas,
             \E row : Saves(w, c, row) /\ Rewrites(canvas[c], row)
      PROVE  CanvasInv' /\ RowsStep
  <2>1. PICK row : Saves(w, c, row) /\ Rewrites(canvas[c], row)
    BY <1>2
  <2> QED BY <1>2, <2>1, SavesKeeps, SavesStep
<1>3. ASSUME NEW w \in Clients, NEW c \in Canvases, Load(w, c) PROVE CanvasInv' /\ RowsStep
  <2>1. canvas' = canvas
    BY <1>3 DEF Load
  <2> QED BY <1>3, <2>1, LoadKeeps DEF RowsStep
<1>4. ASSUME NEW w \in Clients, NEW c \in Canvases, Create(w, c) PROVE CanvasInv' /\ RowsStep
  <2>1. Inserts(w, c, NewName, NewBoards) /\ NewName \in Names /\ Sound(NewBoards)
    BY <1>4, CanvasAssumption DEF Create
  <2> QED BY <2>1, InsertsKeeps, InsertsStep
<1>5. ASSUME NEW w \in Clients, NEW c \in Canvases, Undo(w, c) PROVE CanvasInv' /\ RowsStep
  BY <1>1, <1>2, <1>5, UndoWrites
<1>6. ASSUME NEW w \in Clients, NEW c \in Canvases, Redo(w, c) PROVE CanvasInv' /\ RowsStep
  BY <1>1, <1>2, <1>6, RedoWrites
<1>7. ASSUME NEW w \in Clients, NEW c \in Canvases, NEW name \in Names, Rename(w, c, name)
      PROVE  CanvasInv' /\ RowsStep
  BY <1>1, <1>2, <1>7, RenameWrites
<1>8. ASSUME NEW w \in Clients, NEW c \in Canvases, NEW batch \in Batches, RunCommands(w, c, batch)
      PROVE  CanvasInv' /\ RowsStep
  BY <1>1, <1>2, <1>8, BatchWrites
<1>9. ASSUME NEW w \in Clients, NEW c \in Canvases, NEW new \in Canvases, ForkOwn(w, c, new)
      PROVE  CanvasInv' /\ RowsStep
  <2>1. c \in DOMAIN canvas /\ window[w] # None /\ Inserts(w, new, canvas[c].name, window[w].boards)
    BY <1>9 DEF ForkOwn
  <2>2. canvas[c].name \in Names /\ Sound(window[w].boards)
    BY <1>1, <2>1, RowParts DEF RowsOk, WindowsOk
  <2> QED BY <2>1, <2>2, InsertsKeeps, InsertsStep
<1>10. ASSUME NEW w \in Clients, NEW c \in Canvases, NEW new \in Canvases, ForkStored(w, c, new)
       PROVE  CanvasInv' /\ RowsStep
  <2>1. c \in DOMAIN canvas /\ Inserts(w, new, canvas[c].name, canvas[c].boards)
    BY <1>10 DEF ForkStored
  <2>2. canvas[c].name \in Names /\ Sound(canvas[c].boards)
    BY <1>1, <2>1, RowParts DEF RowsOk
  <2> QED BY <2>1, <2>2, InsertsKeeps, InsertsStep
<1>11. ASSUME NEW k \in Components, HardDelete(k) \/ \E s \in Surfaces : Publish(k, s)
       PROVE  CanvasInv' /\ RowsStep
  <2>1. canvas' = canvas
    BY <1>11 DEF HardDelete, Publish
  <2> QED BY <1>11, <2>1, ComponentsKeep DEF RowsStep
<1> QED BY <1>3, <1>4, <1>5, <1>6, <1>7, <1>8, <1>9, <1>10, <1>11 DEF Next

LEMMA CanvasStill ==
  ASSUME CanvasInv, UNCHANGED vars
  PROVE  CanvasInv' /\ RowsStep
<1>1. canvas' = canvas /\ component' = component /\ window' = window
  BY DEF vars
<1> QED BY <1>1 DEF CanvasInv, ComponentsOk, RowsOk, RowsClean, Clean, WindowsOk, RowsStep

LEMMA CanvasInitially == Init => CanvasInv
<1> SUFFICES ASSUME Init PROVE CanvasInv
  OBVIOUS
<1>1. canvas = <<>> /\ component = [k \in Components |-> {}] /\ window = [w \in Clients |-> None]
  BY DEF Init
<1>2. DOMAIN canvas = {}
  BY <1>1
<1> QED BY <1>1, <1>2 DEF CanvasInv, ComponentsOk, RowsOk, RowsClean, WindowsOk

-----------------------------------------------------------------------------
(* What the invariant says.                                              *)

LEMMA InOrder ==
  ASSUME NEW row, RowOk(row), NEW i \in 2..Len(row.history)
  PROVE  /\ row.history[i - 1].sequence < row.history[i].sequence
         /\ row.history[i - 1].undone => row.history[i].undone
<1>1. Len(row.history) \in Nat
  BY RowParts
<1>2. PICK p \in 0..Len(row.history) : \E D : Path(row.history, row.boards, D, p)
  BY RowParts
<1>3. PICK D : Path(row.history, row.boards, D, p)
  BY <1>2
<1> DEFINE j == i - 1
<1>4. j \in 1..Len(row.history) /\ i \in 1..Len(row.history) /\ j < i /\ (j > p => i > p)
  BY <1>1
<1> HIDE DEF j
<1>5. row.history[j].sequence < row.history[i].sequence
  BY <1>3, <1>4 DEF Path
<1>6. (row.history[j].undone <=> j > p) /\ (row.history[i].undone <=> i > p)
  BY <1>3, <1>4 DEF Path
<1> QED BY <1>4, <1>5, <1>6 DEF j

LEMMA InvIsWellformed == CanvasInv => Wellformed
<1> SUFFICES ASSUME CanvasInv PROVE Wellformed
  OBVIOUS
<1>1. TypeOK
  <2>1. component \in [Components -> Surfaces \cup {{}, None}] /\ DOMAIN canvas \subseteq Canvases
    BY DEF CanvasInv, ComponentsOk, RowsOk
  <2>2. ASSUME NEW c \in DOMAIN canvas
        PROVE  /\ canvas[c].name \in Names /\ canvas[c].counter \in Nat /\ Sound(canvas[c].boards)
               /\ Len(canvas[c].history) <= UndoLimit
               /\ \A i \in 2..Len(canvas[c].history) :
                    LET older == canvas[c].history[i - 1] newer == canvas[c].history[i]
                    IN older.sequence < newer.sequence /\ (older.undone => newer.undone)
    <3>1. RowOk(canvas[c])
      BY DEF CanvasInv, RowsOk
    <3> QED BY <3>1, RowParts, InOrder
  <2>3. \A w \in Clients : window[w] # None => Sound(window[w].boards)
    BY DEF CanvasInv, WindowsOk
  <2> QED BY <2>1, <2>2, <2>3 DEF TypeOK
<1>2. CounterNamesDocument
  BY DEF CanvasInv, WindowsOk, CounterNamesDocument
<1>3. NoDanglingInstance
  BY DEF CanvasInv, RowsClean, Clean, NoDanglingInstance, Instances
<1> QED BY <1>1, <1>2, <1>3 DEF Wellformed

-----------------------------------------------------------------------------
(* The undo stack (UndoStack). What the rows show and remember is its state. *)

Present == [c \in Canvases |-> IF c \in DOMAIN canvas THEN canvas[c].boards ELSE {}]
Past    == [c \in Canvases |-> IF c \in DOMAIN canvas THEN Behind(canvas[c]) ELSE <<>>]
Future  == [c \in Canvases |-> IF c \in DOMAIN canvas THEN Ahead(canvas[c]) ELSE <<>>]

LEMMA StackNow ==
  ASSUME NEW c \in Canvases
  PROVE  /\ c \in DOMAIN canvas => Present[c] = canvas[c].boards /\ Past[c] = Behind(canvas[c]) /\ Future[c] = Ahead(canvas[c])
         /\ c \notin DOMAIN canvas => Present[c] = {} /\ Past[c] = <<>> /\ Future[c] = <<>>
         /\ c \in DOMAIN canvas' =>
              Present'[c] = canvas'[c].boards /\ Past'[c] = Behind(canvas'[c]) /\ Future'[c] = Ahead(canvas'[c])
BY DEF Present, Past, Future

LEMMA OthersStay ==
  ASSUME NEW c \in Canvases, Alone(c), DOMAIN canvas \subseteq Canvases,
         DOMAIN canvas' = DOMAIN canvas \/ DOMAIN canvas' = DOMAIN canvas \cup {c}
  PROVE  \A d \in Canvases \ {c} : Present'[d] = Present[d] /\ Past'[d] = Past[d] /\ Future'[d] = Future[d]
<1> TAKE d \in Canvases \ {c}
<1>1. CASE d \in DOMAIN canvas
  <2>1. d \in DOMAIN canvas' /\ canvas'[d] = canvas[d]
    BY <1>1 DEF Alone
  <2> QED BY <1>1, <2>1 DEF Present, Past, Future
<1>2. CASE d \notin DOMAIN canvas
  <2>1. d \notin DOMAIN canvas'
    BY <1>2
  <2> QED BY <1>2, <2>1 DEF Present, Past, Future
<1> QED BY <1>1, <1>2

\* What Stack!Edit says of k edits.
Fits(was, now, shown, k) ==
  LET long == Len(was) + k
      gone == IF long > UndoLimit THEN long - UndoLimit ELSE 0
  IN /\ Len(now) = long - gone
     /\ \A i \in 1..Len(was) : i > gone => now[i - gone] = was[i]
     /\ gone <= Len(was) => now[Len(was) + 1 - gone] = shown

LEMMA GrowsFits ==
  ASSUME NEW was, NEW now, NEW shown, NEW k \in Nat, Len(was) \in Nat, Grows(was, now, shown, k)
  PROVE  Fits(was, now, shown, k)
<1> DEFINE long == Len(was) + k
           gone == IF long > UndoLimit THEN long - UndoLimit ELSE 0
<1>1. long = Len(was) + k /\ long \in Nat /\ UndoLimit \in Nat
  BY CanvasAssumption
<1> HIDE DEF long
<1>2. gone = Gone(Len(was), k)
  BY <1>1 DEF Gone
<1>3. gone \in Nat
  BY <1>1 DEF Gone
<1> HIDE DEF gone
<1>4. Len(now) = long - gone
  BY <1>1, <1>2, <1>3 DEF Grows
<1>5. \A i \in 1..Len(was) : i > gone => now[i - gone] = was[i]
  BY <1>2 DEF Grows
<1>6. gone <= Len(was) => now[Len(was) + 1 - gone] = shown
  BY <1>2 DEF Grows
<1> QED BY <1>4, <1>5, <1>6, Zenon DEF Fits, gone, long

LEMMA BehindLength ==
  ASSUME NEW row, RowOk(row)
  PROVE  Len(Behind(row)) \in Nat
<1> PICK p \in 0..Len(row.history) : \E D : Path(row.history, row.boards, D, p)
  BY RowParts
<1> PICK D : Path(row.history, row.boards, D, p)
  OBVIOUS
<1>1. Behind(row) = Before(D, p)
  BY RowParts, BehindIs
<1> QED BY <1>1, RowParts DEF Before

\* One canvas moves as the stack says, or none does.
LEMMA StackMoves ==
  ASSUME RowsOk, RowsOk', NEW c \in Canvases, Alone(c), Begun(c) \/ Rewritten(c)
  PROVE  /\ \A d \in Canvases \ {c} : Present'[d] = Present[d] /\ Past'[d] = Past[d] /\ Future'[d] = Future[d]
         /\ \/ Present'[c] = Present[c] /\ Past'[c] = Past[c] /\ Future'[c] = Future[c]
            \/ Stack!Begin(c) \/ Stack!Undo(c) \/ Stack!Redo(c) \/ Stack!Edit(c)
<1>1. \A d \in Canvases \ {c} : Present'[d] = Present[d] /\ Past'[d] = Past[d] /\ Future'[d] = Future[d]
  BY OthersStay DEF RowsOk, Begun, Rewritten
<1>2. CASE Begun(c)
  <2>0. PICK name \in Names : \E boards : Sound(boards) /\ boards # {} /\ canvas'[c] = NewRow(name, boards)
    BY <1>2 DEF Begun
  <2>1. PICK boards : Sound(boards) /\ boards # {} /\ canvas'[c] = NewRow(name, boards)
    BY <2>0
  <2>2. canvas'[c].boards = boards /\ Behind(canvas'[c]) = <<>> /\ Ahead(canvas'[c]) = <<>>
    BY <2>1, RowBegun
  <2>3. Present[c] = {} /\ Present'[c] # {} /\ Past'[c] = <<>> /\ Future'[c] = <<>>
    BY <1>2, <2>1, <2>2, StackNow DEF Begun
  <2>4. Stack!Begin(c)
    BY <2>3 DEF Stack!Begin, Present, Past, Future
  <2> QED BY <1>1, <2>4
<1>3. CASE Rewritten(c)
  <2> DEFINE old == canvas[c]
             new == canvas'[c]
  <2>1. c \in DOMAIN canvas /\ c \in DOMAIN canvas' /\ Rewrites(old, new)
    BY <1>3 DEF Rewritten
  <2>2. old.boards # {} /\ new.boards # {}
    BY <2>1, RowParts DEF RowsOk
  <2>3. /\ Present[c] = old.boards /\ Past[c] = Behind(old) /\ Future[c] = Ahead(old)
        /\ Present'[c] = new.boards /\ Past'[c] = Behind(new) /\ Future'[c] = Ahead(new)
    BY <2>1, StackNow
  <2> HIDE DEF old, new
  <2>4. CASE Same(old, new)
    BY <1>1, <2>3, <2>4 DEF Same
  <2>5. CASE Edited(old, new)
    <3>1. Future'[c] = <<>> /\ \E k \in 1..MaxBatch : Grows(Past[c], Past'[c], Present[c], k)
      BY <2>3, <2>5 DEF Edited
    <3>2. Present[c] # {} /\ Present'[c] # {}
      BY <2>2, <2>3
    <3>3. PICK k \in 1..MaxBatch : Grows(Past[c], Past'[c], Present[c], k)
      BY <3>1
    <3>4. Fits(Past[c], Past'[c], Present[c], k)
      <4>1. Len(Past[c]) \in Nat
        BY <2>1, <2>3, BehindLength DEF RowsOk, old
      <4>2. k \in Nat
        OBVIOUS
      <4> QED BY <3>3, <4>1, <4>2, GrowsFits
    <3>5. \E n \in 1..MaxBatch : Fits(Past[c], Past'[c], Present[c], n)
      BY <3>4
    <3>6. Stack!Edit(c)
      BY <3>1, <3>2, <3>5 DEF Fits, Stack!Edit, Present, Past, Future
    <3> QED BY <1>1, <3>6
  <2>6. CASE Back(old, new)
    <3>1. Stack!Undo(c)
      BY <2>2, <2>3, <2>6 DEF Back, Stack!Undo, Present, Past, Future
    <3> QED BY <1>1, <3>1
  <2>7. CASE Forth(old, new)
    <3>1. Stack!Redo(c)
      BY <2>2, <2>3, <2>7 DEF Forth, Stack!Redo, Present, Past, Future
    <3> QED BY <1>1, <3>1
  <2> QED BY <2>1, <2>4, <2>5, <2>6, <2>7 DEF Rewrites
<1> QED BY <1>2, <1>3

LEMMA StackStep ==
  ASSUME RowsOk, RowsOk', RowsStep
  PROVE  canvas' = canvas \/ Stack!Next \/ UNCHANGED Stack!stacks
<1> SUFFICES ASSUME NEW c \in Canvases, Alone(c), Begun(c) \/ Rewritten(c)
             PROVE  Stack!Next \/ UNCHANGED Stack!stacks
  BY DEF RowsStep
<1>1. /\ \A d \in Canvases \ {c} : Present'[d] = Present[d] /\ Past'[d] = Past[d] /\ Future'[d] = Future[d]
      /\ \/ Present'[c] = Present[c] /\ Past'[c] = Past[c] /\ Future'[c] = Future[c]
         \/ Stack!Begin(c) \/ Stack!Undo(c) \/ Stack!Redo(c) \/ Stack!Edit(c)
  BY StackMoves
<1>2. CASE Present'[c] = Present[c] /\ Past'[c] = Past[c] /\ Future'[c] = Future[c]
  <2>1. \A d \in Canvases : Present'[d] = Present[d] /\ Past'[d] = Past[d] /\ Future'[d] = Future[d]
    BY <1>1, <1>2
  <2>2. Present' = Present /\ Past' = Past /\ Future' = Future
    <3>1. /\ Present = [d \in Canvases |-> Present[d]] /\ Present' = [d \in Canvases |-> Present'[d]]
          /\ Past = [d \in Canvases |-> Past[d]] /\ Past' = [d \in Canvases |-> Past'[d]]
          /\ Future = [d \in Canvases |-> Future[d]] /\ Future' = [d \in Canvases |-> Future'[d]]
      BY DEF Present, Past, Future
    <3> QED BY <2>1, <3>1
  <2> QED BY <2>2 DEF Stack!stacks, Present, Past, Future
<1>3. CASE Stack!Begin(c) \/ Stack!Undo(c) \/ Stack!Redo(c) \/ Stack!Edit(c)
  <2>1. Stack!Others(c)
    BY <1>1 DEF Stack!Others, Present, Past, Future
  <2> QED BY <1>3, <2>1 DEF Stack!Next
<1> QED BY <1>1, <1>2, <1>3

LEMMA StackInitially == Init => Stack!Init
<1> SUFFICES ASSUME Init PROVE Stack!Init
  OBVIOUS
<1>1. DOMAIN canvas = {}
  BY DEF Init
<1> QED BY <1>1 DEF Stack!Init

\* The canvas alone implements the undo stack, for every document, every batch
\* of commands, every limit and any number of windows (run_commands, _step).
THEOREM CanvasUndoIsExact == Spec => UndoIsExact
<1>1. Init => CanvasInv /\ Stack!Init
  BY CanvasInitially, StackInitially
<1>2. CanvasInv /\ [Next]_vars => CanvasInv' /\ [Stack!Next \/ UNCHANGED Stack!stacks]_canvas
  <2> SUFFICES ASSUME CanvasInv, [Next]_vars
               PROVE  CanvasInv' /\ [Stack!Next \/ UNCHANGED Stack!stacks]_canvas
    OBVIOUS
  <2>1. CanvasInv' /\ RowsStep
    BY CanvasNext, CanvasStill
  <2>2. RowsOk /\ RowsOk'
    BY <2>1 DEF CanvasInv
  <2> QED BY <2>1, <2>2, StackStep
<1> QED BY <1>1, <1>2, PTL DEF Spec, UndoIsExact

-----------------------------------------------------------------------------
(* Snapshots and context selections (Orchestration).                     *)

\* A snapshot is older than its canvas, or shows it.
SnapshotsOk ==
  \A s \in snapshots :
    /\ s.canvas \in DOMAIN canvas /\ s.counter \in Nat /\ s.counter <= canvas[s.canvas].counter
    /\ s.counter = canvas[s.canvas].counter => s.hash = Rendered(canvas[s.canvas], s.board)

SnapshotsAgree ==
  \A s, t \in snapshots :
    s.canvas = t.canvas /\ s.board = t.board /\ s.counter = t.counter => s.hash = t.hash

\* A row of a selection, built, or confirmed with one of the contents.
Informed(row, contents) ==
  /\ DOMAIN row = {"canvas", "digest", "state", "confirmed"}
  /\ row.state = "confirmed" => row.confirmed = row.digest /\ row.digest \in contents

SelectionsOk ==
  /\ DOMAIN selection = Selections
  /\ \A s \in Selections : selection[s] # None => Informed(selection[s], approved)

\* A request has a selection that was built, and stays so.
RequestsOk ==
  /\ DOMAIN request = Requests
  /\ \A r \in Requests : request[r] # None =>
       /\ DOMAIN request[r] = {"selection", "digest", "consented"}
       /\ request[r].selection \in Selections /\ Informed(selection[request[r].selection], approved)
       /\ request[r].consented => request[r].digest \in approved

ContextInv == SnapshotsOk /\ SnapshotsAgree /\ SelectionsOk /\ RequestsOk

LEMMA SnapshotsLag ==
  ASSUME CanvasInv, CanvasInv', RowsStep, snapshots' = snapshots, SnapshotsOk
  PROVE  SnapshotsOk'
<1> SUFFICES ASSUME NEW s \in snapshots
             PROVE  /\ s.canvas \in DOMAIN canvas' /\ s.counter \in Nat /\ s.counter <= canvas'[s.canvas].counter
                    /\ s.counter = canvas'[s.canvas].counter => s.hash = Rendered(canvas'[s.canvas], s.board)
  BY DEF SnapshotsOk, Rendered
<1> DEFINE c == s.canvas
<1>1. /\ c \in DOMAIN canvas /\ s.counter \in Nat /\ s.counter <= canvas[c].counter
      /\ s.counter = canvas[c].counter => s.hash = Rendered(canvas[c], s.board)
  BY DEF SnapshotsOk
<1>2. canvas[c].counter \in Nat
  BY <1>1, RowParts DEF CanvasInv, RowsOk
<1> HIDE DEF c
<1> SUFFICES /\ c \in DOMAIN canvas' /\ s.counter <= canvas'[c].counter
             /\ s.counter = canvas'[c].counter => s.hash = Rendered(canvas'[c], s.board)
  BY <1>1 DEF c
<1>3. CASE canvas' = canvas
  BY <1>1, <1>3
<1>4. CASE canvas' # canvas
  <2>1. PICK d \in Canvases : Alone(d) /\ (Begun(d) \/ Rewritten(d))
    BY <1>4 DEF RowsStep
  <2>2. c \in DOMAIN canvas'
    BY <1>1, <2>1 DEF Begun, Rewritten
  <2>3. CASE c = d
    <3>1. Rewrites(canvas[c], canvas'[c])
      BY <1>1, <2>1, <2>3 DEF Begun, Rewritten
    <3>2. canvas'[c].counter \in Nat /\ canvas'[c].counter > canvas[c].counter
      BY <3>1, RowParts DEF Rewrites
    <3>3. s.counter < canvas'[c].counter
      BY <1>1, <1>2, <3>2
    <3> QED BY <1>1, <2>2, <3>2, <3>3
  <2>4. CASE c # d
    <3>1. canvas'[c] = canvas[c]
      BY <1>1, <2>1, <2>4 DEF Alone
    <3> QED BY <1>1, <2>2, <3>1
  <2> QED BY <2>3, <2>4
<1> QED BY <1>3, <1>4

LEMMA SnapshotTaken ==
  ASSUME CanvasInv, ContextInv, NEW c \in Canvases, NEW b \in BoardIds, CreateSnapshot(c, b)
  PROVE  ContextInv'
<1> DEFINE new == [canvas |-> c, board |-> b, counter |-> canvas[c].counter, hash |-> Rendered(canvas[c], b)]
<1>1. /\ c \in DOMAIN canvas /\ snapshots' = snapshots \cup {new}
      /\ canvas' = canvas /\ selection' = selection /\ request' = request /\ approved' = approved
  BY DEF CreateSnapshot, vars
<1>2. canvas[c].counter \in Nat
  BY <1>1, RowParts DEF CanvasInv, RowsOk
<1>3. new.canvas = c /\ new.board = b /\ new.counter = canvas[c].counter /\ new.hash = Rendered(canvas[c], b)
  OBVIOUS
<1> HIDE DEF new
<1>4. SnapshotsOk'
  <2> SUFFICES ASSUME NEW s \in snapshots'
               PROVE  /\ s.canvas \in DOMAIN canvas /\ s.counter \in Nat /\ s.counter <= canvas[s.canvas].counter
                      /\ s.counter = canvas[s.canvas].counter => s.hash = Rendered(canvas[s.canvas], s.board)
    BY <1>1 DEF SnapshotsOk, Rendered
  <2>1. CASE s = new
    BY <1>1, <1>2, <1>3, <2>1
  <2>2. CASE s \in snapshots
    BY <2>2 DEF ContextInv, SnapshotsOk
  <2> QED BY <1>1, <2>1, <2>2
<1>5. SnapshotsAgree'
  <2>1. \A s \in snapshots : s.canvas = c /\ s.board = b /\ s.counter = canvas[c].counter => s.hash = Rendered(canvas[c], b)
    BY DEF ContextInv, SnapshotsOk
  <2>2. \A s, t \in snapshots :
          s.canvas = t.canvas /\ s.board = t.board /\ s.counter = t.counter => s.hash = t.hash
    BY DEF ContextInv, SnapshotsAgree
  <2> SUFFICES ASSUME NEW s \in snapshots', NEW t \in snapshots',
                      s.canvas = t.canvas /\ s.board = t.board /\ s.counter = t.counter
               PROVE  s.hash = t.hash
    BY DEF SnapshotsAgree
  <2> QED BY <1>1, <1>3, <2>1, <2>2
<1> QED BY <1>1, <1>4, <1>5 DEF ContextInv, SelectionsOk, RequestsOk

\* One row of a selection is written, and no approval is taken back.
LEMMA SelectionMoves ==
  ASSUME ContextInv, UNCHANGED <<canvas, snapshots, request>>, approved \subseteq approved',
         NEW s \in Selections, NEW row, Informed(row, approved'), selection' = [selection EXCEPT ![s] = row]
  PROVE  ContextInv'
<1>1. /\ DOMAIN selection' = Selections /\ selection'[s] = row
      /\ \A t \in Selections \ {s} : selection'[t] = selection[t]
  BY DEF ContextInv, SelectionsOk
<1>2. ASSUME NEW t \in Selections, Informed(selection[t], approved)
      PROVE  Informed(selection'[t], approved')
  <2>1. CASE t = s
    BY <1>1, <2>1
  <2>2. CASE t # s
    BY <1>1, <1>2, <2>2 DEF Informed
  <2> QED BY <2>1, <2>2
<1>3. SelectionsOk'
  <2> SUFFICES ASSUME NEW t \in Selections, selection'[t] # None
               PROVE  Informed(selection'[t], approved')
    BY <1>1 DEF SelectionsOk
  <2>1. CASE t = s
    BY <1>1, <2>1
  <2>2. CASE t # s
    <3>1. Informed(selection[t], approved)
      BY <1>1, <2>2 DEF ContextInv, SelectionsOk
    <3> QED BY <1>2, <3>1
  <2> QED BY <2>1, <2>2
<1>4. RequestsOk'
  <2> SUFFICES ASSUME NEW r \in Requests, request[r] # None
               PROVE  /\ DOMAIN request[r] = {"selection", "digest", "consented"}
                      /\ request[r].selection \in Selections
                      /\ Informed(selection'[request[r].selection], approved')
                      /\ request[r].consented => request[r].digest \in approved'
    BY DEF ContextInv, RequestsOk
  <2>1. /\ DOMAIN request[r] = {"selection", "digest", "consented"}
        /\ request[r].selection \in Selections
        /\ Informed(selection[request[r].selection], approved)
        /\ request[r].consented => request[r].digest \in approved
    BY DEF ContextInv, RequestsOk
  <2> QED BY <1>2, <2>1
<1>5. SnapshotsOk' /\ SnapshotsAgree'
  BY DEF ContextInv, SnapshotsOk, SnapshotsAgree, Rendered
<1> QED BY <1>3, <1>4, <1>5 DEF ContextInv

LEMMA ContextBuilt ==
  ASSUME ContextInv, NEW s \in Selections, NEW c \in Canvases, NEW b \in BoardIds, NEW ids, BuildContext(s, c, b, ids)
  PROVE  ContextInv'
<1> DEFINE row == [canvas |-> c, digest |-> Content(c, b, ids), state |-> "draft",
                   confirmed |-> IF selection[s] = None THEN None ELSE selection[s].confirmed]
<1>1. /\ UNCHANGED <<canvas, snapshots, request>> /\ approved' = approved
      /\ selection' = [selection EXCEPT ![s] = row]
  BY DEF BuildContext, vars
<1>2. Informed(row, approved')
  BY DEF Informed
<1> HIDE DEF row
<1> QED BY <1>1, <1>2, SelectionMoves

LEMMA ContextConfirmed ==
  ASSUME ContextInv, NEW s \in Selections, NEW digest, ConfirmContext(s, digest)
  PROVE  ContextInv'
<1> DEFINE row == [selection[s] EXCEPT !.state = "confirmed", !.confirmed = digest]
<1>1. /\ UNCHANGED <<canvas, snapshots, request>> /\ approved' = approved \cup {digest}
      /\ selection[s] # None /\ selection[s].digest = digest
  BY DEF ConfirmContext, vars
<1>2. selection' = [selection EXCEPT ![s] = row]
  BY DEF ConfirmContext
<1>3. DOMAIN selection[s] = {"canvas", "digest", "state", "confirmed"}
  BY <1>1 DEF ContextInv, SelectionsOk, Informed
<1>4. DOMAIN row = {"canvas", "digest", "state", "confirmed"} /\ row.confirmed = digest /\ row.digest = digest
  BY <1>1, <1>3
<1> HIDE DEF row
<1>5. Informed(row, approved')
  BY <1>1, <1>4 DEF Informed
<1> QED BY <1>1, <1>2, <1>5, SelectionMoves

\* A request is made, or consented, for what its selection has.
LEMMA RequestMoves ==
  ASSUME ContextInv, UNCHANGED <<canvas, snapshots, selection, approved>>,
         NEW r \in Requests, NEW row, request' = [request EXCEPT ![r] = row],
         DOMAIN row = {"selection", "digest", "consented"}, row.selection \in Selections,
         Informed(selection[row.selection], approved), row.consented => row.digest \in approved
  PROVE  ContextInv'
<1>1. /\ DOMAIN request' = Requests /\ request'[r] = row
      /\ \A q \in Requests \ {r} : request'[q] = request[q]
  BY DEF ContextInv, RequestsOk
<1>2. RequestsOk'
  <2> SUFFICES ASSUME NEW q \in Requests, request'[q] # None
               PROVE  /\ DOMAIN request'[q] = {"selection", "digest", "consented"}
                      /\ request'[q].selection \in Selections
                      /\ Informed(selection[request'[q].selection], approved)
                      /\ request'[q].consented => request'[q].digest \in approved
    BY <1>1 DEF RequestsOk
  <2>1. CASE q = r
    BY <1>1, <2>1
  <2>2. CASE q # r
    BY <1>1, <2>2 DEF ContextInv, RequestsOk
  <2> QED BY <2>1, <2>2
<1> QED BY <1>2 DEF ContextInv, SnapshotsOk, SnapshotsAgree, SelectionsOk, Rendered

LEMMA RequestCreated ==
  ASSUME ContextInv, NEW r \in Requests, NEW s \in Selections, CreateRequest(r, s)
  PROVE  ContextInv'
<1> DEFINE row == [selection |-> s, digest |-> selection[s].digest, consented |-> FALSE]
<1>1. /\ UNCHANGED <<canvas, snapshots, selection, approved>> /\ request' = [request EXCEPT ![r] = row]
      /\ Informed(selection[s], approved)
  BY DEF CreateRequest, vars, ContextInv, SelectionsOk
<1>2. DOMAIN row = {"selection", "digest", "consented"} /\ row.selection = s /\ ~row.consented
  OBVIOUS
<1> HIDE DEF row
<1> QED BY <1>1, <1>2, RequestMoves

LEMMA RequestConsented ==
  ASSUME ContextInv, NEW r \in Requests, NEW digest, Consent(r, digest)
  PROVE  ContextInv'
<1> DEFINE row == [request[r] EXCEPT !.consented = TRUE]
<1>1. /\ UNCHANGED <<canvas, snapshots, selection, approved>> /\ request[r] # None
      /\ digest = request[r].digest /\ selection[request[r].selection].state = "confirmed"
      /\ selection[request[r].selection].digest = digest
  BY DEF Consent, vars
<1>2. request' = [request EXCEPT ![r] = row]
  BY DEF Consent
<1>3. /\ DOMAIN request[r] = {"selection", "digest", "consented"}
      /\ request[r].selection \in Selections /\ Informed(selection[request[r].selection], approved)
  BY <1>1 DEF ContextInv, RequestsOk
<1>4. /\ DOMAIN row = {"selection", "digest", "consented"}
      /\ row.selection = request[r].selection /\ row.digest = request[r].digest
  BY <1>3
<1>5. row.digest \in approved
  BY <1>1, <1>3, <1>4 DEF Informed
<1> HIDE DEF row
<1> QED BY <1>1, <1>2, <1>3, <1>4, <1>5, RequestMoves

LEMMA ContextNext ==
  ASSUME CanvasInv, ContextInv, [NextAll]_all
  PROVE  CanvasInv' /\ ContextInv' /\ RowsStep
<1>1. ASSUME UNCHANGED vars, ContextInv'
      PROVE  CanvasInv' /\ ContextInv' /\ RowsStep
  BY <1>1, CanvasStill
<1>2. ASSUME Next \/ UNCHANGED vars, UNCHANGED context
      PROVE  CanvasInv' /\ ContextInv' /\ RowsStep
  <2>1. CanvasInv' /\ RowsStep
    BY <1>2, CanvasNext, CanvasStill
  <2>2. /\ snapshots' = snapshots /\ selection' = selection /\ request' = request /\ approved' = approved
    BY <1>2 DEF context
  <2>3. SnapshotsOk'
    BY <2>1, <2>2, SnapshotsLag DEF ContextInv
  <2> QED BY <2>1, <2>2, <2>3 DEF ContextInv, SnapshotsAgree, SelectionsOk, RequestsOk
<1>3. ASSUME NEW c \in Canvases, NEW b \in BoardIds, CreateSnapshot(c, b)
      PROVE  CanvasInv' /\ ContextInv' /\ RowsStep
  <2>1. UNCHANGED vars
    BY <1>3 DEF CreateSnapshot
  <2> QED BY <1>1, <1>3, <2>1, SnapshotTaken
<1>4. ASSUME NEW c \in Canvases, NEW b \in BoardIds, NEW s \in Selections, NEW ids \in Selectable(c, b),
             BuildContext(s, c, b, ids)
      PROVE  CanvasInv' /\ ContextInv' /\ RowsStep
  <2>1. UNCHANGED vars
    BY <1>4 DEF BuildContext
  <2> QED BY <1>1, <1>4, <2>1, ContextBuilt
<1>5. ASSUME NEW digest \in built, NEW s \in Selections, ConfirmContext(s, digest)
      PROVE  CanvasInv' /\ ContextInv' /\ RowsStep
  <2>1. UNCHANGED vars
    BY <1>5 DEF ConfirmContext
  <2> QED BY <1>1, <1>5, <2>1, ContextConfirmed
<1>6. ASSUME NEW digest \in built, NEW r \in Requests, Consent(r, digest)
      PROVE  CanvasInv' /\ ContextInv' /\ RowsStep
  <2>1. UNCHANGED vars
    BY <1>6 DEF Consent
  <2> QED BY <1>1, <1>6, <2>1, RequestConsented
<1>7. ASSUME NEW r \in Requests, NEW s \in Selections, CreateRequest(r, s)
      PROVE  CanvasInv' /\ ContextInv' /\ RowsStep
  <2>1. UNCHANGED vars
    BY <1>7 DEF CreateRequest
  <2> QED BY <1>1, <1>7, <2>1, RequestCreated
<1>8. CASE UNCHANGED all
  BY <1>2, <1>8 DEF all
<1>9. CASE NextAll
  BY <1>2, <1>3, <1>4, <1>5, <1>6, <1>7, <1>9 DEF NextAll
<1> QED BY <1>8, <1>9

LEMMA ContextInitially == InitAll => ContextInv
BY DEF InitAll, ContextInv, SnapshotsOk, SnapshotsAgree, SelectionsOk, RequestsOk

LEMMA InvIsInformed == CanvasInv /\ ContextInv => ConsentIsInformed
<1> SUFFICES ASSUME CanvasInv, ContextInv PROVE ConsentIsInformed
  OBVIOUS
<1>1. SnapshotNamesState
  BY InvIsWellformed DEF SnapshotNamesState, ContextInv, SnapshotsAgree
<1> QED BY <1>1 DEF ConsentIsInformed, ContextInv, SelectionsOk, RequestsOk, Informed

\* A counter of a canvas names one document and a snapshot one state, for every
\* sequence of edits, undos, redos, renames and forks of any number of windows;
\* every saved edit leads back to a document the canvas showed; no document
\* holds an instance of a deleted component; and whatever was built again, a
\* confirmed selection and a consented request carry a content that somebody
\* confirmed (run_commands, _step, hard_delete, create_snapshot, build_context,
\* confirm_context, consent).
THEOREM ConsentsAreInformed == SpecAll => []ConsentIsInformed
<1>1. InitAll => CanvasInv /\ ContextInv
  BY CanvasInitially, ContextInitially DEF InitAll
<1>2. CanvasInv /\ ContextInv /\ [NextAll]_all => CanvasInv' /\ ContextInv'
  BY ContextNext
<1>3. CanvasInv /\ ContextInv => ConsentIsInformed
  BY InvIsInformed
<1> QED BY <1>1, <1>2, <1>3, PTL DEF SpecAll

\* Patches, sequences, the cleared redo branch and the limit implement the undo
\* stack, whatever is selected, confirmed and sent meanwhile: for every batch
\* of commands, an undo shows exactly what the canvas showed before the edit.
THEOREM UndosAreExact == SpecAll => UndoIsExact
<1>1. InitAll => CanvasInv /\ ContextInv /\ Stack!Init
  BY CanvasInitially, ContextInitially, StackInitially DEF InitAll
<1>2. CanvasInv /\ ContextInv /\ [NextAll]_all
        => CanvasInv' /\ ContextInv' /\ [Stack!Next \/ UNCHANGED Stack!stacks]_canvas
  <2> SUFFICES ASSUME CanvasInv, ContextInv, [NextAll]_all
               PROVE  CanvasInv' /\ ContextInv' /\ [Stack!Next \/ UNCHANGED Stack!stacks]_canvas
    OBVIOUS
  <2>1. CanvasInv' /\ ContextInv' /\ RowsStep
    BY ContextNext
  <2>2. RowsOk /\ RowsOk'
    BY <2>1 DEF CanvasInv
  <2> QED BY <2>1, <2>2, StackStep
<1> QED BY <1>1, <1>2, PTL DEF SpecAll, UndoIsExact

=============================================================================
