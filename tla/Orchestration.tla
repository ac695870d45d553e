---------------------------- MODULE Orchestration ----------------------------
(***************************************************************************)
(* Fixed snapshots of boards, and the context selections a work request    *)
(* sends to an agent (orchestration.py, the context checks of work.py),    *)
(* while the canvas they are taken from goes on changing (Canvas).         *)
(*                                                                         *)
(* A digest is the content it is computed from: two contents have the same *)
(* digest only when they are equal. The fixed revisions and the hashes of  *)
(* named files that travel with a selection are left out: they are ids.    *)
(***************************************************************************)
EXTENDS Canvas

CONSTANTS
  Selections, Requests,
  MaxSnapshots,  \* bound: the 50 fixed snapshots a canvas may keep
  MaxBuilds,     \* bound: contents built
  MaxPairs,      \* bound: pairs of a snapshot and a content built
  MaxWatched,    \* bound: writes once a content is built
  MaxReleases, MaxWindows, MaxOpen \* bounds: publications, windows and canvases
                                   \* once something was taken or built

VARIABLES
  snapshots,  \* rows of scheme_snapshots
  selection,  \* rows of context_selections
  request,    \* rows of work_requests, up to their consent
  built,      \* history: the contents clients were shown
  approved    \* history: the contents somebody confirmed

context == <<snapshots, selection, request, built, approved>>
all     == <<vars, context>>

InitAll ==
  /\ Init
  /\ snapshots = {}
  /\ selection = [s \in Selections |-> None]
  /\ request = [r \in Requests |-> None]
  /\ built = {} /\ approved = {}

\* Bounds: how much goes on around a canvas that snapshots, or selections, are
\* taken of.
Watched ==
  /\ Cardinality(snapshots) * Cardinality(built) <= MaxPairs
  /\ built # {} => writes <= MaxWatched
  /\ snapshots \cup built # {} =>
       /\ publishes <= MaxReleases
       /\ Cardinality({w \in Clients : window[w] # None}) <= MaxWindows
       /\ Cardinality(DOMAIN canvas) <= MaxOpen

\* The static render of a board: its nodes and names, not their containment.
Rendered(row, b) ==
  LET board == Find(row.boards, b)
  IN [title |-> row.name, name |-> board.name,
      nodes |-> {<<n.id, n.type, n.look>> : n \in board.nodes}]

CreateSnapshot(c, b) ==
  /\ c \in DOMAIN canvas /\ b \in Ids(canvas[c].boards)
  /\ Cardinality({s \in snapshots : s.canvas = c}) < MaxSnapshots
  /\ snapshots' = snapshots \cup {[canvas |-> c, board |-> b, counter |-> canvas[c].counter,
                                  hash |-> Rendered(canvas[c], b)]}
  /\ UNCHANGED <<vars, selection, request, built, approved>>
  /\ Watched'

\* What a selection of the nodes ids sends, its digest.
Content(c, b, ids) ==
  LET board == Find(canvas[c].boards, b)
  IN [board |-> b, counter |-> canvas[c].counter,
      nodes |-> {<<n.id, n.type, n.look>> : n \in {m \in board.nodes : m.id \in ids}},
      unselected |-> Cardinality(Ids(board.nodes) \ ids),
      others |-> Ids(canvas[c].boards) \ {b}]

\* The nodes of a board that exists, in any number.
Selectable(c, b) ==
  IF c \in DOMAIN canvas /\ b \in Ids(canvas[c].boards) THEN SUBSET Ids(NodesOf(canvas[c].boards, b)) ELSE {}

\* Faulty variant: a selection that is built again stays confirmed.
BuildKeepsState(s, c, b, ids) ==
  /\ c \in DOMAIN canvas /\ b \in Ids(canvas[c].boards)
  /\ ids # {} /\ ids \subseteq Ids(NodesOf(canvas[c].boards, b))
  /\ selection' = [selection EXCEPT ![s] =
       [canvas |-> c, digest |-> Content(c, b, ids),
        state |-> IF selection[s] = None THEN "draft" ELSE selection[s].state,
        confirmed |-> IF selection[s] = None THEN None ELSE selection[s].confirmed]]
  /\ built' = built \cup {Content(c, b, ids)}
  /\ Cardinality(built') <= MaxBuilds
  /\ UNCHANGED <<vars, snapshots, request, approved>>
  /\ Watched'

\* A selection that is built again is a draft, and keeps the confirmation it had.
BuildContext(s, c, b, ids) ==
  /\ c \in DOMAIN canvas /\ b \in Ids(canvas[c].boards)
  /\ ids # {} /\ ids \subseteq Ids(NodesOf(canvas[c].boards, b))
  /\ selection[s] # None => selection[s].canvas = c
  /\ selection' = [selection EXCEPT ![s] =
       [canvas |-> c, digest |-> Content(c, b, ids), state |-> "draft",
        confirmed |-> IF selection[s] = None THEN None ELSE selection[s].confirmed]]
  /\ built' = built \cup {Content(c, b, ids)}
  /\ Cardinality(built') <= MaxBuilds
  /\ UNCHANGED <<vars, snapshots, request, approved>>
  /\ Watched'

\* Faulty variant: the digest is stored without a look at the row's.
ConfirmAny(s, digest) ==
  /\ selection[s] # None
  /\ selection' = [selection EXCEPT ![s].state = "confirmed", ![s].confirmed = digest]
  /\ approved' = approved \cup {digest}
  /\ UNCHANGED <<vars, snapshots, request, built>>

\* The digest comes from the client; the row may have been built again since.
ConfirmContext(s, digest) ==
  /\ selection[s] # None /\ digest = selection[s].digest
  /\ selection' = [selection EXCEPT ![s].state = "confirmed", ![s].confirmed = digest]
  /\ approved' = approved \cup {digest}
  /\ UNCHANGED <<vars, snapshots, request, built>>

CreateRequest(r, s) ==
  /\ request[r] = None
  /\ selection[s] # None /\ selection[s].state = "confirmed"
  /\ request' = [request EXCEPT ![r] =
       [selection |-> s, digest |-> selection[s].digest, consented |-> FALSE]]
  /\ UNCHANGED <<vars, snapshots, selection, built, approved>>

Consent(r, digest) ==
  /\ request[r] # None /\ ~request[r].consented
  /\ digest = request[r].digest
  /\ selection[request[r].selection].state = "confirmed"
  /\ selection[request[r].selection].digest = digest
  /\ request' = [request EXCEPT ![r].consented = TRUE]
  /\ UNCHANGED <<vars, snapshots, selection, built, approved>>

NextAll ==
  \/ Next /\ UNCHANGED context /\ Watched'
  \/ \E c \in Canvases, b \in BoardIds :
       \/ CreateSnapshot(c, b)
       \/ \E s \in Selections, ids \in Selectable(c, b) : BuildContext(s, c, b, ids)
  \/ \E digest \in built :
       \/ \E s \in Selections : ConfirmContext(s, digest)
       \/ \E r \in Requests : Consent(r, digest)
  \/ \E r \in Requests, s \in Selections : CreateRequest(r, s)

SpecAll == InitAll /\ [][NextAll]_all

-----------------------------------------------------------------------------
(* Properties. *)

\* "The hash is bound to this canvas counter": two snapshots of a board with
\* the same counter are the same render, whatever was undone, redone or renamed
\* between them, so a snapshot names one state of the canvas, which is well
\* formed itself.
SnapshotNamesState ==
  /\ Wellformed
  /\ \A s, t \in snapshots :
       s.canvas = t.canvas /\ s.board = t.board /\ s.counter = t.counter => s.hash = t.hash

\* A selection that counts as confirmed has the content somebody confirmed: a
\* confirmation that crosses another window's rebuild is refused or undone. And
\* a request an agent may claim was consented for a content that somebody
\* confirmed, however often its selection was built again before the consent.
\* The counters it names stand for one content each.
ConsentIsInformed ==
  /\ SnapshotNamesState
  /\ \A s \in Selections : selection[s] # None /\ selection[s].state = "confirmed" =>
       selection[s].confirmed = selection[s].digest /\ selection[s].digest \in approved
  /\ \A r \in Requests : request[r] # None /\ request[r].consented =>
       request[r].digest \in approved

=============================================================================
