--------------------------- MODULE DesignBaseline ---------------------------
(***************************************************************************)
(* The design baseline of a project as one run binds it                    *)
(* (design_baseline.py): prepare finds a baseline or drafts one, the user  *)
(* accepts or waives it, promote adds a component to it, verify says       *)
(* whether the binding still holds. The commands of the run come one after *)
(* another and may stop anywhere; the user, the agent and other tools edit *)
(* the files of the project at any time.                                   *)
(*                                                                         *)
(* A hash is the content it is computed from. One source file stands for   *)
(* the sources a document cites and for the code of its components.        *)
(***************************************************************************)
EXTENDS Integers, FiniteSets, Sequences

CONSTANTS
  Canonical, Stitch,  \* DESIGN.md and .stitch/DESIGN.md
  Texts,              \* the texts people write
  Components,         \* components that may be promoted
  MaxVersion,         \* bound: versions of the source file
  Nothing             \* no file, no value

CandidatePaths == {Canonical, Stitch}
Versions  == 1..MaxVersion
Rendered  == "rendered"
Kinds     == {"existing", "accepted", "waived"}
Documents == [text : Texts \cup {Rendered}, cites : Versions \cup {Nothing},
              entries : SUBSET Components]

ASSUME BaselineAssumption ==
  /\ MaxVersion \in Nat \ {0}
  /\ Nothing \notin Documents /\ Nothing \notin Versions /\ Nothing \notin Components
  /\ Nothing \notin Kinds

VARIABLES
  files,     \* the two candidates of the project
  source,    \* the version of the source file
  draft,     \* design-baseline/DESIGN.draft.md of the run
  previous,  \* design-baseline/previous-DESIGN.md of the run
  state,     \* design-baseline/state.json of the run
  decided,   \* components the governance log says the user promotes
  command,   \* the command under way
  disturbed  \* history: since prepare bound, another writer or a stop came between

baselineVars == <<files, source, draft, previous, state, decided, command, disturbed>>

Statuses  == {"ambiguous", "needs_confirmation", "ready", "waived"}
Idle      == [at |-> "idle"]

BaselineInit ==
  /\ files \in [CandidatePaths -> {Nothing} \cup {[text |-> t, cites |-> 1, entries |-> {}] : t \in Texts}]
  /\ source = 1
  /\ draft = Nothing /\ previous = Nothing /\ state = Nothing
  /\ decided = {} /\ command = Idle /\ disturbed = {}

--------------------------------------------------------------------------------
(* Reading *)

Candidates  == {p \in CandidatePaths : files[p] # Nothing}
Conflicting == \E p, q \in Candidates : files[p] # files[q]

\* A document is valid when the sources it cites are as it says.
Valid(doc) == doc # Nothing /\ doc.cites = source

\* The candidate prepare looks at.
Selected == IF Canonical \in Candidates THEN Canonical ELSE Stitch

\* verify: the binding or the waiver of a loaded state still holds.
Verified ==
  /\ state # Nothing
  /\ \/ /\ state.status = "waived"
        /\ state.sources = source
     \/ /\ state.status = "ready"
        /\ ~Conflicting
        /\ files[state.path] = state.bound
        /\ Valid(state.bound)
        /\ state.sources = source
        /\ \A p \in state.promotions : p.version = source

--------------------------------------------------------------------------------
(* prepare *)

Binding(status, path, doc, kind, sources) ==
  [status |-> status, path |-> path, bound |-> doc, kind |-> kind, sources |-> sources,
   draft |-> Nothing, candidates |-> Nothing, promotions |-> {}, replaced |-> Nothing]

\* Two candidates that differ are put before the user; a valid one is kept;
\* otherwise a draft is rendered from the sources.
PrepareLooks ==
  /\ command = Idle
  /\ UNCHANGED <<files, source, previous, decided>>
  /\ \/ /\ Conflicting
        /\ state' = [Binding("ambiguous", Nothing, Nothing, Nothing, Nothing)
                       EXCEPT !.candidates = files]
        /\ disturbed' = {} /\ UNCHANGED <<draft, command>>
     \/ /\ ~Conflicting /\ Valid(files[Selected])
        /\ command' = [at |-> "found", path |-> Selected, sources |-> source]
        /\ UNCHANGED <<draft, state, disturbed>>
     \/ /\ ~Conflicting /\ ~Valid(files[Selected])
        /\ draft' = [text |-> Rendered, cites |-> source, entries |-> {}]
        /\ command' = [at |-> "drafted", sources |-> source, listed |-> Candidates]
        /\ UNCHANGED <<state, disturbed>>

\* Something the command reads again has vanished.
Vanished ==
  CASE command.at \in {"found", "written"} -> files[command.path] = Nothing
    [] command.at = "drafted" -> draft = Nothing \/ ~(command.listed \subseteq Candidates)
    [] command.at = "checked" -> draft = Nothing
    [] OTHER -> FALSE

\* The candidates that were listed, with what they hold by now.
CandidateSnapshot(listed) == [p \in CandidatePaths |-> IF p \in listed THEN files[p] ELSE Nothing]

\* The state binds what the files hold by now.
PrepareBinds ==
  /\ command.at \in {"found", "drafted"} /\ ~Vanished
  /\ state' = IF command.at = "found"
       THEN Binding("ready", command.path, files[command.path], "existing", command.sources)
       ELSE [Binding("needs_confirmation", Nothing, Nothing, Nothing, command.sources)
               EXCEPT !.draft = draft, !.candidates = CandidateSnapshot(command.listed)]
  /\ command' = Idle /\ disturbed' = {}
  /\ UNCHANGED <<files, source, draft, previous, decided>>

--------------------------------------------------------------------------------
(* confirm *)

AsPrepared ==
  /\ command = Idle
  /\ state # Nothing /\ state.status = "needs_confirmation"
  /\ files = state.candidates

Waive ==
  /\ AsPrepared /\ state.sources = source
  /\ state' = [state EXCEPT !.status = "waived", !.bound = Nothing, !.kind = "waived"]
  /\ UNCHANGED <<files, source, draft, previous, decided, command, disturbed>>

\* Faulty variant: a draft that was edited since it was shown is accepted.
ValidDraft == Valid(draft) /\ draft.cites = state.sources

\* The draft is the one the state was prepared with.
DraftHolds == draft = state.draft /\ Valid(draft) /\ draft.cites = state.sources

AcceptChecks ==
  /\ AsPrepared /\ DraftHolds
  /\ command' = [at |-> "checked"]
  /\ UNCHANGED <<files, source, draft, previous, state, decided, disturbed>>

\* The draft is read again, and the file it will replace is hashed.
AcceptReads ==
  /\ command.at = "checked" /\ ~Vanished
  /\ command' = [at |-> "merged", path |-> Canonical, write |-> draft,
                 old |-> files[Canonical], promotes |-> Nothing]
  /\ UNCHANGED <<files, source, draft, previous, state, decided, disturbed>>

--------------------------------------------------------------------------------
(* promote *)

\* A component the user promotes is merged into the bound document, as the
\* file is now: promote does not verify the binding first. Whether the component
\* qualifies is read from the code of the project: one that does not is refused,
\* which changes nothing.
PromoteReads(c) ==
  /\ command = Idle
  /\ state # Nothing /\ state.status = "ready"
  /\ c \in decided
  /\ files[state.path] # Nothing
  /\ command' = [at |-> "merged", path |-> state.path, old |-> files[state.path],
                 write |-> [files[state.path] EXCEPT !.entries = @ \cup {c}], promotes |-> c]
  /\ UNCHANGED <<files, source, draft, previous, state, decided, disturbed>>

--------------------------------------------------------------------------------
(* The end of both: backup, write, bind *)

Promotes == command.promotes # Nothing

\* Faulty variant: a file that was rejected is not worth a backup.
ReplacesValid == command.old # Nothing /\ (Promotes \/ Valid(command.old))

\* An acceptance keeps what it replaces by something else, a promotion always.
Replaces == command.old # Nothing /\ (Promotes \/ command.old # state.draft)

KeepPrevious ==
  /\ command.at = "merged"
  /\ Replaces => files[command.path] # Nothing
  /\ previous' = IF Replaces THEN files[command.path] ELSE previous
  /\ command' = [command EXCEPT !.at = "kept"]
  /\ UNCHANGED <<files, source, draft, state, decided, disturbed>>

WriteCanonical ==
  /\ command.at = "kept"
  /\ files' = [files EXCEPT ![command.path] = command.write]
  /\ command' = [command EXCEPT !.at = "written"]
  /\ UNCHANGED <<source, draft, previous, state, decided, disturbed>>

\* The replaced document the state names.
Names == IF Promotes \/ command.old \notin {Nothing, state.draft} THEN command.old
         ELSE state.replaced

\* The state binds what the file holds by now, and keeps its sources: those the
\* check compared with the draft's.
BindWritten ==
  /\ command.at = "written" /\ ~Vanished
  /\ state' = IF Promotes
       THEN [state EXCEPT !.bound = files[command.path], !.replaced = Names,
               !.promotions = @ \cup {[target |-> command.promotes, version |-> source]}]
       ELSE [state EXCEPT !.status = "ready", !.path = Canonical, !.kind = "accepted",
               !.bound = files[Canonical], !.candidates = files, !.replaced = Names]
  /\ command' = Idle
  /\ UNCHANGED <<files, source, draft, previous, decided, disturbed>>

\* A file that vanished ends the command with an error.
CommandFails ==
  /\ command # Idle
  /\ Vanished \/ (command.at = "merged" /\ Replaces /\ files[command.path] = Nothing)
  /\ command' = Idle
  /\ UNCHANGED <<files, source, draft, previous, state, decided, disturbed>>

CommandStops ==
  /\ command # Idle
  /\ command' = Idle /\ disturbed' = disturbed \cup {"stop"}
  /\ UNCHANGED <<files, source, draft, previous, state, decided>>

--------------------------------------------------------------------------------
(* The others *)

\* An edit counts as a disturbance once there is a binding or a command.
Disturbs ==
  disturbed' = IF command # Idle \/ (state # Nothing /\ state.status = "ready")
                 THEN disturbed \cup {"edit"} ELSE disturbed

EditFile(p, doc) ==
  /\ doc # files[p]
  /\ files' = [files EXCEPT ![p] = doc]
  /\ Disturbs
  /\ UNCHANGED <<source, draft, previous, state, decided, command>>

EditDraft(doc) ==
  /\ draft # Nothing /\ doc # draft
  /\ draft' = doc
  /\ Disturbs
  /\ UNCHANGED <<files, source, previous, state, decided, command>>

EditSource ==
  /\ source < MaxVersion
  /\ source' = source + 1
  /\ UNCHANGED <<files, draft, previous, state, decided, command, disturbed>>

DecidePromotion(c) ==
  /\ decided' = decided \cup {c}
  /\ UNCHANGED <<files, source, draft, previous, state, command, disturbed>>

BaselineNext ==
  \/ PrepareLooks \/ PrepareBinds \/ Waive \/ AcceptChecks \/ AcceptReads
  \/ \E c \in Components : PromoteReads(c) \/ DecidePromotion(c)
  \/ KeepPrevious \/ WriteCanonical \/ BindWritten \/ CommandFails \/ CommandStops
  \/ \E doc \in Documents \cup {Nothing} : EditDraft(doc) \/ \E p \in CandidatePaths : EditFile(p, doc)
  \/ EditSource

--------------------------------------------------------------------------------
(* What is expected *)

BaselineTypeOK ==
  /\ files \in [CandidatePaths -> Documents \cup {Nothing}]
  /\ source \in Versions
  /\ {draft, previous} \subseteq Documents \cup {Nothing}
  /\ state = Nothing \/
       /\ state.status \in Statuses
       /\ {state.bound, state.draft, state.replaced} \subseteq Documents \cup {Nothing}
       /\ state.status = "ready" => state.path \in CandidatePaths /\ state.bound # Nothing
  /\ decided \subseteq Components

\* What verify passes under an acceptance is the draft the user was shown when
\* it was prepared and the components he promoted since, unless somebody wrote
\* the files between the check and the binding (confirm, promote). After a
\* promotion that stopped before it was recorded, the next one binds its
\* component too, which the user had decided to promote.
AcceptedIsShown ==
  (Verified /\ state.kind = "accepted" /\ "edit" \notin disturbed) =>
    \E unrecorded \in SUBSET decided :
      /\ state.bound = [state.draft EXCEPT !.entries =
                          @ \cup {p.target : p \in state.promotions} \cup unrecorded]
      /\ "stop" \notin disturbed => unrecorded = {}

\* A command replaces a document only by the same one, or after it put a copy
\* aside (confirm, "the previous authority is never silently lost").
ReplacesTheKept ==
  \A p \in CandidatePaths :
    (/\ command.at = "kept" /\ command'.at = "written" /\ "edit" \notin disturbed
     /\ files'[p] # files[p] /\ files[p] # Nothing) => previous = files[p]

\* What the state says was replaced is what the backup holds.
NamesTheKept ==
  (state # Nothing /\ state.replaced # Nothing /\ command = Idle /\ disturbed = {})
    => previous = state.replaced

\* Both hold, unless somebody edits the files while the command runs, or it
\* stops between its writes (confirm, promote).
ReplacedIsKept == [][ReplacesTheKept]_baselineVars /\ []NamesTheKept

\* What the user accepted stays what he was shown, and what it replaced is kept
\* (confirm, promote, verify).
BaselineIsKept == []AcceptedIsShown /\ ReplacedIsKept
=============================================================================
