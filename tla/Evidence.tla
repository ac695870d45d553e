------------------------------ MODULE Evidence ------------------------------
(***************************************************************************)
(* The evidence of a run: captures of the page that was filled, the probe  *)
(* sidecar of each screenshot, the manifest that binds an artifact to a    *)
(* criterion, and the report the evaluator leaves in point-back.md         *)
(* (mcp/evidence, scripts/evidence_manifest.py, scripts/g6_evidence.py,    *)
(* scripts/g2_g4_pointback.py).                                            *)
(*                                                                         *)
(* A version of the page stands for its bytes, and the bytes of an         *)
(* artifact are the version it shows: its hash is that version. Requests,  *)
(* viewports, browser actions and the other checks of a request are left   *)
(* out: a capture refused for its form changes nothing.                    *)
(***************************************************************************)
EXTENDS Nothing, Integers, FiniteSets, SequencesExt

CONSTANTS Artifacts, Criteria

VARIABLES
  page,      \* the version of the page that was filled
  image,     \* the version an artifact shows, None when there is no file
  sidecar,   \* the version its probe describes, None when there is no file
  camera,    \* the capture under way: artifact, version it loaded, what is written
  told,      \* what the last capture of an artifact answered
  manifest,  \* evidence/manifest.jsonl
  report     \* point-back.md: a row for each criterion, verdict, audit marker

evidenceVars == <<page, image, sidecar, camera, told, manifest, report>>

Hashes  == Nat
Row     == [result : {"pass", "fail", "n/a"}, artifact : Artifacts \cup {None}]
Binding == [criterion : Criteria, artifact : Artifacts, hash : Hashes,
            result : {"captured", "failed", "none"}, at : Nat]
Report  == [rows : [Criteria -> Row], verdict : {"pass", "recirculate"},
            audited : {"none", "true", "false"}]

EvidenceInit ==
  /\ page = 1
  /\ image = [a \in Artifacts |-> None] /\ sidecar = [a \in Artifacts |-> None]
  /\ camera = None /\ told = [a \in Artifacts |-> "none"]
  /\ manifest = <<>> /\ report = None

-----------------------------------------------------------------------------
(* Captures: one call at a time, answered before the agent goes on. *)

\* The page is rewritten, also while a capture or a delivery is under way.
Fill ==
  /\ page' = page + 1
  /\ UNCHANGED <<image, sidecar, camera, told, manifest, report>>

\* Faulty variant: only the screenshot is looked for.
MayWriteImage(a, overwrite) == overwrite \/ image[a] = None

\* Neither file of a screenshot may exist unless the caller asks to replace it.
MayWrite(a, overwrite) == overwrite \/ (image[a] = None /\ sidecar[a] = None)

CaptureRefused(a) ==
  /\ camera = None /\ ~MayWrite(a, FALSE)
  /\ told' = [told EXCEPT ![a] = "failed"]
  /\ UNCHANGED <<page, image, sidecar, camera, manifest, report>>

\* The browser loads the page once, for the screenshot and for the probe.
CaptureLoads(a, overwrite) ==
  /\ camera = None /\ MayWrite(a, overwrite)
  /\ camera' = [artifact |-> a, version |-> page, shot |-> FALSE]
  /\ UNCHANGED <<page, image, sidecar, told, manifest, report>>

CaptureShoots ==
  /\ camera # None /\ ~camera.shot
  /\ image' = [image EXCEPT ![camera.artifact] = camera.version]
  /\ camera' = [camera EXCEPT !.shot = TRUE]
  /\ UNCHANGED <<page, sidecar, told, manifest, report>>

Answers(a, result) == camera' = None /\ told' = [told EXCEPT ![a] = result]

\* The sidecar is written after the browser is closed.
CaptureProbed ==
  /\ camera # None /\ camera.shot
  /\ sidecar' = [sidecar EXCEPT ![camera.artifact] = camera.version]
  /\ Answers(camera.artifact, "captured")
  /\ UNCHANGED <<page, image, manifest, report>>

\* Faulty variant: a sidecar that cannot be written is not reported.
CaptureFailsQuietly ==
  /\ camera # None
  /\ Answers(camera.artifact, IF camera.shot THEN "captured" ELSE "failed")
  /\ UNCHANGED <<page, image, sidecar, manifest, report>>

\* The browser, the disk or the process fails: before the screenshot, or after
\* it, when the screenshot stays and the sidecar is the one that was there.
CaptureFails ==
  /\ camera # None
  /\ Answers(camera.artifact, "failed")
  /\ UNCHANGED <<page, image, sidecar, manifest, report>>

-----------------------------------------------------------------------------
(* Bindings *)

\* The hash is taken when the artifact is bound, not when it was captured; the
\* answer of the capture is copied. Two bindings may fall in one second.
Bind(a, c) ==
  /\ camera = None /\ image[a] # None
  /\ \E pause \in 0..1 :
       manifest' = Append(manifest,
         [criterion |-> c, artifact |-> a, hash |-> image[a], result |-> told[a],
          at |-> pause + IF manifest = <<>> THEN 0 ELSE Last(manifest).at])
  /\ UNCHANGED <<page, image, sidecar, camera, told, report>>

Bindings(c, a) == {b \in Range(manifest) : b.criterion = c /\ b.artifact = a}
Latest(B)      == {b \in B : \A other \in B : other.at <= b.at}

\* The binding that counts for a criterion: two different ones of one second
\* count as none.
Selected(c, a) == IF Cardinality(Latest(Bindings(c, a))) = 1
                  THEN CHOOSE b \in Latest(Bindings(c, a)) : TRUE ELSE None

-----------------------------------------------------------------------------
(* The report, and what the gates say of it. *)

Skeleton == [rows |-> [c \in Criteria |-> [result |-> "n/a", artifact |-> None]],
             verdict |-> "recirculate", audited |-> "false"]

\* The evaluator, or the skeleton when there was none, replaces the report.
Judge(r) ==
  /\ report' = r
  /\ UNCHANGED <<page, image, sidecar, camera, told, manifest>>

\* G2, G3: a Pass has a pass for each criterion.
PointbackHolds(r) == r.verdict = "pass" => \A c \in Criteria : r.rows[c].result = "pass"

\* G6: an artifact that a row cites is a file, and is bound to its criterion.
EvidenceHolds(r) ==
  \A c \in Criteria :
    LET a == r.rows[c].artifact
    IN a # None => image[a] # None /\ Selected(c, a) # None

\* The verdict of the owner: none of a report that says it was not audited.
OwnerVerdict(r) == IF r = None \/ r.audited = "false" THEN None ELSE r.verdict

-----------------------------------------------------------------------------
(* Properties. *)

EvidenceTypeOK ==
  /\ page \in Nat \ {0}
  /\ image \in [Artifacts -> Hashes \cup {None}] /\ sidecar \in [Artifacts -> Hashes \cup {None}]
  /\ camera = None \/ camera \in [artifact : Artifacts, version : 1..page, shot : BOOLEAN]
  /\ told \in [Artifacts -> {"captured", "failed", "none"}]
  /\ manifest \in Seq(Binding)
  /\ report = None \/ report \in Report

\* An artifact that is what somebody bound as captured has a probe of the same
\* page beside it: a screenshot that was replaced when its sidecar was not, or
\* a retry of such a capture, is never bound as a capture that succeeded.
EvidenceIsPaired ==
  \A b \in Range(manifest) :
    b.result = "captured" /\ b.hash = image[b.artifact] /\ camera = None =>
      sidecar[b.artifact] = image[b.artifact]

=============================================================================
