------------------------------- MODULE Handoff -------------------------------
(***************************************************************************)
(* The static handoff: a delivery page, its disclosure and its archive,    *)
(* built from what a run left on disk while nothing stops the run from     *)
(* going on (mcp/evidence/handoff.py, disclosure.py, scripts/              *)
(* run_handoff.py, scripts/g5_preview.py, mcp/preview/integrity.py).       *)
(*                                                                         *)
(* A prototype's version stands for its bytes, as the page's does. Which   *)
(* report a confirmation refers to, the capture metrics, the localised     *)
(* text and the declared tier are left out. The gates that neither the     *)
(* preview, the evidence nor the report decide are one gate, "others".     *)
(***************************************************************************)
EXTENDS Evidence

CONSTANTS
  Rounds,    \* preview rounds, numbered from 1
  Viewports  \* the delivery viewports, in the order they are captured

ASSUME HandoffAssumption ==
  /\ Rounds \subseteq Nat \ {0} /\ IsFiniteSet(Rounds)
  /\ Viewports \in Seq(Range(Viewports)) /\ Viewports # <<>>

VARIABLES
  prototype,  \* of each round: the version on disk, None when there is none
  confirm,    \* of each round: the record on disk, None when there is none
  logged,     \* rounds that log.md or a decision entry names
  registered, \* rounds the ledger outside the run tree knows
  snaps,      \* of each viewport: the page version its screenshot shows
  build,      \* the delivery under way
  out         \* what the output directory holds, and which of its files are torn

previewVars == <<prototype, confirm, logged, registered>>
handoffVars == <<previewVars, snaps, build, out>>

Gates       == {"report", "preview", "evidence", "others"}
Conditional == {"preview", "evidence"}
Shown       == Range(Viewports)

HandoffInit ==
  /\ prototype = [r \in Rounds |-> None] /\ confirm = [r \in Rounds |-> None]
  /\ logged = {} /\ registered = {}
  /\ snaps = [v \in Shown |-> None]
  /\ build = None
  /\ out = [json |-> None, copy |-> None, zip |-> None, index |-> None, torn |-> {}]

\* A delivery notices nothing of what happens beside it.
Disturbed == IF build = None THEN None ELSE [build EXCEPT !.still = FALSE]
Meanwhile == build' = Disturbed /\ UNCHANGED <<previewVars, snaps, out>>

-----------------------------------------------------------------------------
(* The preview records, and what can happen to them. *)

\* A round is opened with a prototype, and decided on: the transaction leaves
\* the confirmation, the log entry and the record outside the run tree.
WritePrototype(r) ==
  /\ \A other \in Rounds : other > r => prototype[other] = None
  /\ prototype' = [prototype EXCEPT ![r] = IF @ = None THEN 1 ELSE @ + 1]
  /\ build' = Disturbed
  /\ UNCHANGED <<confirm, logged, registered, snaps, out>>

DecideRound(r, valid) ==
  /\ prototype[r] # None /\ confirm[r] = None
  /\ confirm' = [confirm EXCEPT ![r] = [hash |-> prototype[r], valid |-> valid]]
  /\ logged' = logged \cup {r} /\ registered' = registered \cup {r}
  /\ build' = Disturbed
  /\ UNCHANGED <<prototype, snaps, out>>

\* Files of the preview directory are moved or deleted.
RemovePreview(r, records) ==
  /\ prototype' = [prototype EXCEPT ![r] = None]
  /\ confirm' = IF records THEN [confirm EXCEPT ![r] = None] ELSE confirm
  /\ logged' = {}
  /\ build' = Disturbed
  /\ UNCHANGED <<registered, snaps, out>>

PreviewOccurred == logged # {} \/ \E r \in Rounds : prototype[r] # None
RoundsSeen      == logged \cup {r \in Rounds : prototype[r] # None \/ confirm[r] # None}

\* The record of the latest round, and its flags: not the prototype's hash.
Confirmed(round) ==
  /\ RoundsSeen # {} /\ round = Max(RoundsSeen)
  /\ confirm[round] # None /\ confirm[round].valid

\* G5
PreviewHolds ==
  PreviewOccurred \/ registered # {} =>
    /\ registered \subseteq RoundsSeen
    /\ \E r \in RoundsSeen : /\ Confirmed(r)
                             /\ prototype[r] = confirm[r].hash

-----------------------------------------------------------------------------
(* The build, up to its verdict. *)

\* The page is read, and which conditional gates can fire is noted, before
\* anything is written.
Begin(round) ==
  /\ build = None
  /\ build' = [round |-> round, bytes |-> page, todo |-> Viewports, blocked |-> FALSE,
               matrix |-> TRUE,
               fires |-> {g \in Conditional : \/ g = "preview" /\ PreviewOccurred
                                              \/ g = "evidence" /\ manifest # <<>>},
               gates |-> None, confirmed |-> None, verdict |-> None, wrote |-> {},
               still |-> TRUE]
  /\ UNCHANGED <<previewVars, snaps, out>>

\* The screenshot shows the page as it is by now. A capture that fails, or
\* whose probe fails, is blocked; the screenshot may be the one of an earlier
\* delivery.
CaptureViewport(shot, measured) ==
  /\ build # None /\ build.todo # <<>>
  /\ measured => shot
  /\ snaps' = IF shot THEN [snaps EXCEPT ![Head(build.todo)] = page] ELSE snaps
  /\ build' = [build EXCEPT !.todo = Tail(@), !.blocked = @ \/ ~measured]
  /\ UNCHANGED <<previewVars, out>>

\* There is no browser at all.
NoCaptures ==
  /\ build # None /\ build.todo = Viewports
  /\ build' = [build EXCEPT !.todo = <<>>, !.blocked = TRUE, !.matrix = FALSE]
  /\ UNCHANGED <<previewVars, snaps, out>>

\* Faulty variant: a gate that could not fire is not applicable, whatever it found.
ConditionedFirst(statuses, fires) ==
  [g \in Gates |-> IF g \in Conditional \ fires THEN "n/a" ELSE statuses[g]]

\* A gate that passed because it could not fire is not applicable.
Conditioned(statuses, fires) ==
  [g \in Gates |-> IF g \in Conditional \ fires /\ statuses[g] # "fail"
                   THEN "n/a" ELSE statuses[g]]

GateStatuses(others) ==
  IF report = None THEN [g \in Gates |-> "pending"]
  ELSE LET holds == [report |-> PointbackHolds(report), preview |-> PreviewHolds,
                     evidence |-> EvidenceHolds(report), others |-> others]
       IN [g \in Gates |-> IF holds[g] THEN "pass" ELSE "fail"]

ValidateGates(others) ==
  /\ build # None /\ build.todo = <<>> /\ build.gates = None
  /\ build' = [build EXCEPT !.gates =
                 IF report = None THEN GateStatuses(others)
                 ELSE Conditioned(GateStatuses(others), build.fires)]
  /\ UNCHANGED <<previewVars, snaps, out>>

ReadConfirmation ==
  /\ build # None /\ build.gates # None /\ build.confirmed = None
  /\ build' = [build EXCEPT !.confirmed = Confirmed(build.round)]
  /\ UNCHANGED <<previewVars, snaps, out>>

\* Faulty variant: a screenshot that is there is taken for a capture.
ShotsExist(b) == b.matrix /\ \A v \in Shown : snaps[v] # None

\* Every viewport was measured, and its screenshot is there.
MatrixComplete(b) == ~b.blocked /\ \A v \in Shown : snaps[v] # None

Resolved(statuses) == \A g \in Gates : statuses[g] \in {"pass", "n/a"}

ReadVerdict ==
  /\ build # None /\ build.confirmed # None /\ build.verdict = None
  /\ build' = [build EXCEPT !.verdict =
       IF ~build.confirmed THEN "Pending"
       ELSE IF OwnerVerdict(report) = "pass" /\ MatrixComplete(build) /\ Resolved(build.gates)
            THEN "Pass" ELSE "Recirculate"]
  /\ UNCHANGED <<previewVars, snaps, out>>

-----------------------------------------------------------------------------
(* The files, one after another: each replaces the one of the delivery before, *)
(* in place. *)

Payload == [version |-> build.bytes, verdict |-> build.verdict]
Bundle  == [payload |-> Payload,
            shots |-> [v \in Shown |-> IF build.matrix THEN snaps[v] ELSE None]]

\* A file is written after these others, whole or not.
Put(file, after, content, torn) ==
  /\ build # None /\ build.verdict # None /\ build.wrote = after
  /\ out' = [out EXCEPT ![file] = content, !.torn = torn]
  /\ UNCHANGED <<previewVars, snaps>>

Write(file, after, content) ==
  /\ Put(file, after, content, out.torn \ {file})
  /\ build' = [build EXCEPT !.wrote = @ \cup {file}]

WriteJson  == Write("json", {}, Payload)
WriteCopy  == Write("copy", {"json"}, build.bytes)
WriteZip   == Write("zip", {"json", "copy"}, Bundle)
WriteIndex ==
  /\ Put("index", {"json", "copy", "zip"}, Payload, out.torn \ {"index"})
  /\ build' = None

\* A stop amid a write leaves a part of the file.
Tears(file, after, content) == Put(file, after, content, out.torn \cup {file})

\* A write fails, or the process stops: what was written stays.
BuildStops ==
  /\ build # None /\ build' = None
  /\ \/ UNCHANGED <<previewVars, snaps, out>>
     \/ Tears("json", {}, Payload) \/ Tears("copy", {"json"}, build.bytes)
     \/ Tears("zip", {"json", "copy"}, Bundle) \/ Tears("index", {"json", "copy", "zip"}, Payload)

BuildStep ==
  \/ \E shot, measured \in BOOLEAN : CaptureViewport(shot, measured)
  \/ NoCaptures
  \/ \E others \in BOOLEAN : ValidateGates(others)
  \/ ReadConfirmation \/ ReadVerdict
  \/ WriteJson \/ WriteCopy \/ WriteZip \/ WriteIndex \/ BuildStops

-----------------------------------------------------------------------------
(* Properties. *)

Verdicts == {"Pass", "Recirculate", "Pending"}
Payloads == [version : Hashes, verdict : Verdicts]
Archives == [payload : Payloads, shots : [Shown -> Hashes \cup {None}]]
Builds   == [round : Rounds, bytes : Hashes, todo : Seq(Shown), blocked : BOOLEAN,
             matrix : BOOLEAN, fires : SUBSET Conditional,
             gates : [Gates -> {"pass", "fail", "n/a", "pending"}] \cup {None},
             confirmed : BOOLEAN \cup {None}, verdict : Verdicts \cup {None},
             wrote : {{}, {"json"}, {"json", "copy"}, {"json", "copy", "zip"}}, still : BOOLEAN]

PreviewTypeOK ==
  /\ prototype \in [Rounds -> (Nat \ {0}) \cup {None}]
  /\ \A r \in Rounds : confirm[r] = None \/ confirm[r] \in [hash : Nat \ {0}, valid : BOOLEAN]
  /\ logged \subseteq Rounds /\ registered \subseteq Rounds

HandoffTypeOK ==
  /\ PreviewTypeOK
  /\ snaps \in [Shown -> Hashes \cup {None}]
  /\ build # None => build \in Builds /\ build.bytes <= page
  /\ out \in [json : Payloads \cup {None}, copy : Hashes \cup {None},
              zip : Archives \cup {None}, index : Payloads \cup {None},
              torn : SUBSET {"json", "copy", "zip", "index"}]

\* A delivery that nothing disturbed says Pass only of a run that deserves it:
\* the latest round is the one asked for, its record is a confirmation of the
\* prototype that is there, no registered round is missing, the evaluator
\* passed every criterion in a report that was audited, everything the report
\* cites is bound, and every screenshot shows the page that is delivered. The
\* confirmation is taken from the record's flags and a gate whose precondition
\* is absent is not applicable: only together do they catch a prototype that
\* was removed or changed after its confirmation.
PassIsEarned ==
  /\ HandoffTypeOK
  /\ build # None /\ build.still /\ build.verdict = "Pass" =>
       /\ PreviewHolds /\ Confirmed(build.round)
       /\ registered # {} => prototype[build.round] = confirm[build.round].hash
       /\ OwnerVerdict(report) = "pass"
       /\ PointbackHolds(report) /\ EvidenceHolds(report)
       /\ \A v \in Shown : snaps[v] = build.bytes

\* Whatever stops or is repeated, and whatever changes meanwhile: a disclosure
\* that says Pass never lies beside, or in one archive with, a screenshot of a
\* page older than the one it names, a delivery page never exists without the
\* page it links, the archive and the disclosure of the same delivery or a part
\* of a later one's that a stop left, and a delivery mends what stops have torn
\* before it goes on to the next file: its page is written last, beside whole
\* files.
DeliveredIsWhole ==
  /\ out.json # None /\ out.json.verdict = "Pass" =>
       \A v \in Shown : snaps[v] # None /\ snaps[v] >= out.json.version
  /\ out.zip # None /\ out.zip.payload.verdict = "Pass" =>
       \A v \in Shown : out.zip.shots[v] # None /\ out.zip.shots[v] >= out.zip.payload.version
  /\ out.index # None =>
       /\ out.json # None /\ out.json.version >= out.index.version
       /\ out.copy # None /\ out.copy >= out.index.version
       /\ out.zip # None /\ out.zip.payload.version >= out.index.version
  /\ build # None => out.torn \cap build.wrote = {}

=============================================================================
