------------------------------- MODULE Canvas -------------------------------
(***************************************************************************)
(* Canvas documents, their commands and their undo history (canvas.py, the *)
(* canvas tables of store.py, the layout validator of components.py and    *)
(* the canvas scan of lifecycle.py).                                       *)
(*                                                                         *)
(* A board keeps what the validator and the patches look at: its name      *)
(* (which also stands for size, background and scheme rules), the ends of  *)
(* its flow edges (and its replaceable regions), the board it derives from *)
(* and its nodes. The look of a node stands for its properties    *)
(* and geometry; a node whose type is a component is an instance of it,    *)
(* and its look is the parameters it passes. The order of boards and of    *)
(* nodes is left out: a patch restores it only in part.                    *)
(*                                                                         *)
(* Every request is one transaction of the mutation gate (MutationGate):   *)
(* here a client that sends another counter than the canvas has is refused.*)
(***************************************************************************)
EXTENDS Nothing, Integers, FiniteSets, SequencesExt

CONSTANTS
  Canvases, Clients, Components,
  Names,        \* names of canvases and boards
  BoardIds,     \* the ids of boards; a node's id is any other number
  Fresh,        \* how far the fresh ids of copied nodes are from theirs
  Looks,
  NewName, NewBoards,  \* the document a client creates
  Batches,      \* the batches of commands clients send
  Surfaces,     \* looks a published component may accept
  MaxBatch,     \* MAX_COMMANDS_PER_BATCH
  UndoLimit, MaxBoards, MaxNodes, MaxInstances,
  MaxWrites,    \* bound: edits, undos, redos and renames
  MaxPublishes  \* bound: publications of components

VARIABLES
  canvas,    \* the rows of the canvases that exist: document, counter, history
  component, \* the looks each component accepts: none while it is a draft,
             \* None once it is deleted
  window,    \* what each client last loaded
  writes, publishes

vars == <<canvas, component, window, writes, publishes>>

Types == {"container", "text"} \cup Components
Node  == [id : Nat, type : Types, kids : SUBSET Nat, look : Looks]
Board == [id : BoardIds, name : Names, edges : SUBSET Nat, from : BoardIds \cup {None},
          nodes : SUBSET Node]

\* What a patch says of a board that stays: the fields that differ.
Fields     == {"name", "edges", "from"}
Changes(F) == [F -> Names \cup (SUBSET Nat) \cup BoardIds \cup {None}]

\* What a client may send; one command duplicates one node.
Command ==
  [kind : {"board-add", "board-change", "board-delete"}, board : BoardIds, name : Names]
  \cup [kind : {"flow-edges"}, board : BoardIds, edges : SUBSET Nat]
  \cup [kind : {"scheme-derive"}, board : BoardIds, new : BoardIds, name : Names]
  \cup [kind : {"node-add"}, board : BoardIds, new : Nat, type : Types, look : Looks, parent : Nat \cup {None}]
  \cup [kind : {"node-change"}, board : BoardIds, nodes : SUBSET Nat, look : Looks]
  \cup [kind : {"node-delete"}, board : BoardIds, nodes : SUBSET Nat]
  \cup [kind : {"node-duplicate"}, board : BoardIds, nodes : SUBSET Nat, new : Nat]
  \cup [kind : {"node-group"}, board : BoardIds, nodes : SUBSET Nat, new : Nat, look : Looks]

-----------------------------------------------------------------------------
(* Boards of a document, nodes of a board: sets of records with an id.     *)

Ids(S)         == {x.id : x \in S}
Find(S, id)    == CHOOSE x \in S : x.id = id
Distinct(S)    == \A x, y \in S : x.id = y.id => x = y
Lookup(S, id)  == IF id \in Ids(S) THEN Find(S, id) ELSE None
Without(S, ids) == {x \in S : x.id \notin ids}
Alter(S, ids, F(_)) == {IF x.id \in ids THEN F(x) ELSE x : x \in S}

\* Takes the nodes ids out of the children of every node but those in keep.
Orphan(nodes, ids, keep) ==
  {IF n.id \in keep THEN n ELSE [n EXCEPT !.kids = @ \ ids] : n \in nodes}

Instances(boards) ==
  UNION {{<<b.id, n>> : n \in {m \in b.nodes : m.type \in Components}} : b \in boards}

\* A document in which ids name one thing and no child is missing, which holds
\* of every document on the way of a batch, valid or not.
Sound(boards) ==
  /\ boards \subseteq Board /\ Distinct(boards)
  /\ \A b \in boards : Distinct(b.nodes) /\ \A n \in b.nodes : n.kids \subseteq Ids(b.nodes)

ASSUME CanvasAssumption ==
  /\ BoardIds \subseteq Nat /\ Fresh \in Nat
  /\ UndoLimit \in Nat \ {0} /\ MaxBatch \in Nat \ {0}
  /\ \A batch \in Batches :
       /\ batch \in Seq(Command) /\ Len(batch) \in 1..MaxBatch
       /\ \A i \in DOMAIN batch : batch[i].kind = "node-duplicate" => \E n \in batch[i].nodes : batch[i].nodes = {n}
  /\ NewName \in Names /\ Sound(NewBoards)
  /\ None \notin Surfaces \cup Node \cup Board
  /\ \A F \in SUBSET Fields : None \notin Changes(F)

-----------------------------------------------------------------------------
(* The one validator of a document. *)

\* Every node is the child of one other at most, and none its own descendant:
\* with single parents, a set in which each node has its parent is a cycle.
ValidLayout(nodes) ==
  /\ Cardinality(Ids(nodes)) = Cardinality(nodes)
  /\ \A n \in nodes : n.kids \subseteq Ids(nodes)
  /\ \A n, m \in nodes : n # m => n.kids \cap m.kids = {}
  /\ \A S \in (SUBSET nodes) \ {{}} : ~(Ids(S) \subseteq UNION {n.kids : n \in S})

Resolves(node) ==
  node.type \in Components => component[node.type] # None /\ node.look \in component[node.type]

Valid(boards) ==
  /\ boards # {}
  /\ \A b, e \in boards : b # e => b.id # e.id /\ b.name # e.name
  /\ \A b \in boards :
       /\ ValidLayout(b.nodes)
       /\ \A n \in b.nodes : Resolves(n)
       /\ b.edges \subseteq Ids(b.nodes) \cup Ids(boards)
       /\ b.from # None => b.from \in Ids(boards) \ {b.id}
  /\ Cardinality(Instances(boards)) <= MaxInstances

-----------------------------------------------------------------------------
(* The commands: when one is accepted, and the boards it makes of others.  *)
(* Whether the result is a valid document is not asked here.               *)

NodesOf(boards, id) == Find(boards, id).nodes

Accepts(boards, c) ==
  /\ c.kind = "board-add" <=> c.board \notin Ids(boards)
  /\ c.kind \in {"board-add", "scheme-derive"} => Cardinality(boards) < MaxBoards
  /\ c.kind = "board-delete" => Cardinality(boards) > 1
  /\ c.kind = "scheme-derive" => c.new \notin Ids(boards)
  /\ c.kind \in {"node-add", "node-duplicate", "node-group"} => c.new \notin Ids(NodesOf(boards, c.board))
  /\ c.kind \in {"node-change", "node-duplicate", "node-delete", "node-group"} =>
       c.nodes \subseteq Ids(NodesOf(boards, c.board))
  /\ c.kind = "node-add" /\ c.parent # None =>
       \E n \in NodesOf(boards, c.board) : n.id = c.parent /\ n.type = "container"

\* Every node of a derived board has a fresh id.
Copied(id, nodes) == IF id \in Ids(nodes) THEN id + Fresh ELSE id

Derived(board, c) ==
  [id |-> c.new, name |-> c.name, from |-> board.id,
   edges |-> {Copied(e, board.nodes) : e \in board.edges},
   nodes |-> {[n EXCEPT !.id = Copied(@, board.nodes),
                        !.kids = {Copied(k, board.nodes) : k \in @}] : n \in board.nodes}]

NodesAfter(nodes, c) ==
  CASE c.kind = "node-add" ->
         Alter(nodes, {c.parent}, LAMBDA n : [n EXCEPT !.kids = @ \cup {c.new}])
           \cup {[id |-> c.new, type |-> c.type, kids |-> {}, look |-> c.look]}
    [] c.kind = "node-change" -> Alter(nodes, c.nodes, LAMBDA n : [n EXCEPT !.look = c.look])
    [] c.kind = "node-duplicate" ->
         nodes \cup {[n EXCEPT !.id = c.new, !.kids = {}] : n \in {m \in nodes : m.id \in c.nodes}}
    [] c.kind = "node-delete" -> Orphan(Without(nodes, c.nodes), c.nodes, {})
    [] c.kind = "node-group" ->
         Orphan(nodes, c.nodes, c.nodes)
           \cup {[id |-> c.new, type |-> "container", kids |-> c.nodes, look |-> c.look]}

After(boards, c) ==
  CASE c.kind = "board-add" ->
         boards \cup {[id |-> c.board, name |-> c.name, edges |-> {}, from |-> None, nodes |-> {}]}
    [] c.kind = "board-change" -> Alter(boards, {c.board}, LAMBDA b : [b EXCEPT !.name = c.name])
    [] c.kind = "flow-edges"   -> Alter(boards, {c.board}, LAMBDA b : [b EXCEPT !.edges = c.edges])
    [] c.kind = "board-delete" -> Without(boards, {c.board})
    [] c.kind = "scheme-derive" -> boards \cup {Derived(Find(boards, c.board), c)}
    [] OTHER -> Alter(boards, {c.board}, LAMBDA b : [b EXCEPT !.nodes = NodesAfter(@, c)])

WithinLimits(boards) ==
  /\ Cardinality(Instances(boards)) <= MaxInstances
  /\ \A b \in boards : Cardinality(b.nodes) <= MaxNodes

\* The boards after the first i commands of a batch.
Stages(boards, batch) ==
  LET stage[i \in 0..Len(batch)] == IF i = 0 THEN boards ELSE After(stage[i - 1], batch[i])
  IN stage

Runs(boards, batch) ==
  LET stage == Stages(boards, batch)
  IN \A i \in DOMAIN batch : Accepts(stage[i - 1], batch[i]) /\ WithinLimits(stage[i])

-----------------------------------------------------------------------------
(* Patches: what a command changed, applied to take it back or give it     *)
(* again. They are derived from the two documents.                         *)

Changed(S, T) == {id \in Ids(S) \cup Ids(T) : Lookup(S, id) # Lookup(T, id)}

\* What brings a board from its old form to the new one: None takes it away, a
\* board that is created comes with its nodes, else only what differs.
BoardEntry(id, old, new) ==
  [id |-> id,
   value |-> IF None \in {old, new} THEN new ELSE [f \in {g \in Fields : old[g] # new[g]} |-> new[f]]]

\* Faulty variant: forgets the nodes of which only the children changed.
PatchForgetsParents(old, new) ==
  LET kept == Changed(old, new) \cap Ids(old) \cap Ids(new)
      sparse(S) == {[n EXCEPT !.kids = {}] : n \in S}
  IN [boards |-> {BoardEntry(id, Lookup(old, id), Lookup(new, id)) : id \in Changed(old, new)},
      nodes  |-> UNION {{[board |-> b, id |-> n, node |-> Lookup(NodesOf(new, b), n)]
                         : n \in Changed(sparse(NodesOf(old, b)), sparse(NodesOf(new, b)))} : b \in kept}]

Patch(old, new) ==
  LET kept == Changed(old, new) \cap Ids(old) \cap Ids(new)
  IN [boards |-> {BoardEntry(id, Lookup(old, id), Lookup(new, id)) : id \in Changed(old, new)},
      nodes  |-> UNION {{[board |-> b, id |-> n, node |-> Lookup(NodesOf(new, b), n)]
                         : n \in Changed(NodesOf(old, b), NodesOf(new, b))} : b \in kept}]

Merge(board, value) == [f \in DOMAIN board |-> IF f \in DOMAIN value THEN value[f] ELSE board[f]]

ApplyBoards(boards, entries) ==
  {IF b.id \in Ids(entries) THEN Merge(b, Find(entries, b.id).value) ELSE b
     : b \in {c \in boards : c.id \in Ids(entries) => Find(entries, c.id).value # None}}
  \cup {e.value : e \in {d \in entries : d.value # None /\ d.id \notin Ids(boards)}}

\* A removed node leaves the children of the others. The code goes from entry
\* to entry; no entry writes a node with a child that another one removes.
ApplyNodes(nodes, entries) ==
  LET removed == Ids({e \in entries : e.node = None})
  IN Orphan(Without(nodes, Ids(entries)), removed, {})
       \cup {e.node : e \in {d \in entries : d.node # None}}

ApplyPatch(boards, patch) ==
  {[b EXCEPT !.nodes = ApplyNodes(@, {e \in patch.nodes : e.board = b.id})]
     : b \in ApplyBoards(boards, patch.boards)}

-----------------------------------------------------------------------------
(* The rows of a canvas: its document and its saved edits by sequence.     *)

NewRow(name, boards) == [name |-> name, boards |-> boards, counter |-> 0, history |-> <<>>]

\* The edits that are undone, or those that are not, as SelectSeq selects them.
Those(history, undone) ==
  LET those[n \in 0..Len(history)] ==
        IF n = 0 THEN <<>>
        ELSE IF history[n].undone <=> undone THEN Append(those[n - 1], history[n]) ELSE those[n - 1]
  IN those[Len(history)]

Applied(history) == Those(history, FALSE)
Undone(history)  == Those(history, TRUE)

Mark(history, sequence, undone) ==
  [i \in DOMAIN history |-> IF history[i].sequence = sequence
                             THEN [history[i] EXCEPT !.undone = undone] ELSE history[i]]

\* A new edit clears the redo branch, and the limit drops the oldest edits.
Recorded(history, stage, n) ==
  LET kept  == Applied(history)
      first == IF kept = <<>> THEN 0 ELSE Last(kept).sequence
      grown == kept \o [i \in 1..n |->
                 [sequence |-> first + i, undone |-> FALSE,
                  before |-> Patch(stage[i], stage[i - 1]),
                  after  |-> Patch(stage[i - 1], stage[i])]]
  IN IF Len(grown) > UndoLimit THEN SubSeq(grown, Len(grown) - UndoLimit + 1, Len(grown)) ELSE grown

Init ==
  /\ canvas = <<>>
  /\ component = [k \in Components |-> {}]
  /\ window = [w \in Clients |-> None]
  /\ writes = 0 /\ publishes = 0

Shows(c, row) == [canvas |-> c, counter |-> row.counter, boards |-> row.boards, name |-> row.name]

\* The row a client's write replaces: the gate compares the counter it sends.
Current(w, c) ==
  /\ c \in DOMAIN canvas /\ window[w] # None
  /\ window[w].canvas = c /\ window[w].counter = canvas[c].counter
  /\ writes < MaxWrites

\* A write answers with the new payload, which the client shows.
Saves(w, c, row) ==
  /\ canvas' = [canvas EXCEPT ![c] = row]
  /\ window' = [window EXCEPT ![w] = Shows(c, row)]
  /\ writes' = writes + 1
  /\ UNCHANGED <<component, publishes>>

\* A new canvas has no history.
Inserts(w, c, name, boards) ==
  /\ c \notin DOMAIN canvas /\ Valid(boards)
  /\ canvas' = [d \in DOMAIN canvas \cup {c} |-> IF d = c THEN NewRow(name, boards) ELSE canvas[d]]
  /\ window' = [window EXCEPT ![w] = Shows(c, NewRow(name, boards))]
  /\ UNCHANGED <<component, writes, publishes>>

Load(w, c) ==
  /\ c \in DOMAIN canvas /\ window[w] # Shows(c, canvas[c])
  /\ window' = [window EXCEPT ![w] = Shows(c, canvas[c])]
  /\ UNCHANGED <<canvas, component, writes, publishes>>

Create(w, c) == Inserts(w, c, NewName, NewBoards)

RunCommands(w, c, batch) ==
  LET row    == canvas[c]
      stage  == Stages(row.boards, batch)
      boards == stage[Len(batch)]
  IN /\ Current(w, c)
     /\ Runs(row.boards, batch)
     /\ Valid(boards)
     /\ Saves(w, c, [row EXCEPT !.boards = boards, !.counter = @ + Len(batch),
                                !.history = Recorded(@, stage, Len(batch))])

Undo(w, c) ==
  LET row  == canvas[c]
      edit == Last(Applied(row.history))
      boards == ApplyPatch(row.boards, edit.before)
  IN /\ Current(w, c)
     /\ Applied(row.history) # <<>>
     /\ Valid(boards)
     /\ Saves(w, c, [row EXCEPT !.boards = boards, !.counter = @ + 1,
                                !.history = Mark(@, edit.sequence, TRUE)])

Redo(w, c) ==
  LET row  == canvas[c]
      edit == Head(Undone(row.history))
      boards == ApplyPatch(row.boards, edit.after)
  IN /\ Current(w, c)
     /\ Undone(row.history) # <<>>
     /\ Valid(boards)
     /\ Saves(w, c, [row EXCEPT !.boards = boards, !.counter = @ + 1,
                                !.history = Mark(@, edit.sequence, FALSE)])

\* Faulty variant: a rename is not counted.
RenameUncounted(w, c, name) ==
  Current(w, c) /\ Saves(w, c, [canvas[c] EXCEPT !.name = name])

Rename(w, c, name) ==
  /\ Current(w, c)
  /\ Saves(w, c, [canvas[c] EXCEPT !.name = name, !.counter = @ + 1])

\* A client whose counter is stale keeps its own document as a new canvas;
\* without one it copies the stored document.
ForkOwn(w, c, new) ==
  /\ c \in DOMAIN canvas /\ window[w] # None
  /\ Inserts(w, new, canvas[c].name, window[w].boards)

ForkStored(w, c, new) ==
  /\ c \in DOMAIN canvas
  /\ Inserts(w, new, canvas[c].name, canvas[c].boards)

\* A component is published, perhaps again, with another surface.
Publish(k, surface) ==
  /\ component[k] \notin {None, surface}
  /\ publishes < MaxPublishes
  /\ component' = [component EXCEPT ![k] = surface]
  /\ publishes' = publishes + 1
  /\ UNCHANGED <<canvas, window, writes>>

\* Faulty variant: the scan stops at the nodes that no other one contains.
UsesAtTop(boards, k) ==
  \E b \in boards : \E n \in b.nodes : n.type = k /\ \A m \in b.nodes : n.id \notin m.kids

Uses(boards, k) == \E b \in boards : \E n \in b.nodes : n.type = k

\* Refused while the document of any canvas of the project holds an instance.
HardDelete(k) ==
  /\ component[k] # None
  /\ \A c \in DOMAIN canvas : ~Uses(canvas[c].boards, k)
  /\ component' = [component EXCEPT ![k] = None]
  /\ UNCHANGED <<canvas, window, writes, publishes>>

Next ==
  \/ \E w \in Clients, c \in Canvases :
       \/ Load(w, c) \/ Create(w, c) \/ Undo(w, c) \/ Redo(w, c)
       \/ \E name \in Names : Rename(w, c, name)
       \/ \E batch \in Batches : RunCommands(w, c, batch)
       \/ \E new \in Canvases : ForkOwn(w, c, new) \/ ForkStored(w, c, new)
  \/ \E k \in Components : HardDelete(k) \/ \E s \in Surfaces : Publish(k, s)

Spec == Init /\ [][Next]_vars

-----------------------------------------------------------------------------
(* Properties. *)

\* Rows are documents with a history no longer than the limit, in order, with
\* the undone edits last; the windows show documents.
TypeOK ==
  /\ component \in [Components -> Surfaces \cup {{}, None}]
  /\ DOMAIN canvas \subseteq Canvases
  /\ \A c \in DOMAIN canvas :
       /\ canvas[c].name \in Names /\ canvas[c].counter \in Nat /\ Sound(canvas[c].boards)
       /\ Len(canvas[c].history) <= UndoLimit
       /\ \A i \in 2..Len(canvas[c].history) :
            LET older == canvas[c].history[i - 1] newer == canvas[c].history[i]
            IN older.sequence < newer.sequence /\ (older.undone => newer.undone)
  /\ \A w \in Clients : window[w] # None => Sound(window[w].boards)

\* The documents the saved edits lead back to, oldest first, and forward to.
Behind(row) ==
  LET edits == Applied(row.history)
      shown[i \in 0..Len(edits)] ==
        IF i = 0 THEN row.boards ELSE ApplyPatch(shown[i - 1], edits[Len(edits) - i + 1].before)
  IN [i \in 1..Len(edits) |-> shown[Len(edits) - i + 1]]

Ahead(row) ==
  LET edits == Undone(row.history)
      shown[i \in 0..Len(edits)] == IF i = 0 THEN row.boards ELSE ApplyPatch(shown[i - 1], edits[i].after)
  IN [i \in 1..Len(edits) |-> shown[i]]

Stack == INSTANCE UndoStack WITH
  Limit   <- UndoLimit,
  Batch   <- MaxBatch,
  None    <- {},
  present <- [c \in Canvases |-> IF c \in DOMAIN canvas THEN canvas[c].boards ELSE {}],
  past    <- [c \in Canvases |-> IF c \in DOMAIN canvas THEN Behind(canvas[c]) ELSE <<>>],
  future  <- [c \in Canvases |-> IF c \in DOMAIN canvas THEN Ahead(canvas[c]) ELSE <<>>]

\* Patches, sequences, the cleared redo branch and the limit together are the
\* undo stack that R09 promises: every undo shows exactly what the canvas
\* showed before that edit, every redo what it showed after it, and a refused
\* one changes nothing (run_commands, _step, apply_patch). This is Stack!Spec:
\* what canvases show and remember changes only with their rows. A canvas that
\* is not there shows no board, one that is shows some.
UndoIsExact == Stack!Init /\ [][Stack!Next \/ UNCHANGED Stack!stacks]_canvas

\* Two documents of a canvas never have the same counter, so a client whose
\* counter the gate accepts edits the document it shows: no write is lost to
\* an undo, a redo, a batch or a rename of another window.
CounterNamesDocument ==
  \A w \in Clients : window[w] # None =>
    LET row == canvas[window[w].canvas]
    IN /\ window[w].canvas \in DOMAIN canvas
       /\ window[w].counter <= row.counter
       /\ window[w].counter = row.counter => window[w] = Shows(window[w].canvas, row)

\* No document holds an instance of a deleted component, though the scan of
\* hard_delete reads only documents and an edit that removed the instance can
\* still be undone.
NoDanglingInstance ==
  \A c \in DOMAIN canvas :
    \A instance \in Instances(canvas[c].boards) : component[instance[2].type] # None

\* Rows and histories are well formed, a counter names one document, as an edit
\* is accepted on that counter alone (run, save_canvas), and instances have a
\* component.
Wellformed == TypeOK /\ CounterNamesDocument /\ NoDanglingInstance

=============================================================================
