---------------------------- MODULE CanvasWindow ----------------------------
(***************************************************************************)
(* The canvas panel of one browser window (web/app.js) and the service it  *)
(* talks to. The window shows its own edits at once, queues them and saves *)
(* them after a pause; several of its requests may be under way, and their *)
(* answers come in any order, late or never. The service is Canvas reduced *)
(* to what the window can tell: a document is the list of its edits.       *)
(***************************************************************************)
EXTENDS Nothing, Integers, Sequences, SequencesExt, FiniteSets

CONSTANTS
  MaxEdits,     \* bound on the edits the maintainer makes in this window
  Theirs,       \* the edits other windows and agents can save
  MaxCanvases,  \* bound on the canvases of the project
  MaxAsks,      \* bound on what the maintainer does
  Slots,        \* bound on the requests under way at once
  MaxTimeouts   \* bound on the requests that are given up after 10 seconds

ASSUME WindowAssumption ==
  /\ {MaxEdits, MaxCanvases, MaxAsks, Slots, MaxTimeouts} \subseteq Nat
  /\ Theirs \cap Nat = {} /\ None \notin Nat

VARIABLES
  server,    \* the saved canvases: every version, what can be undone and redone
  origin,    \* for each edit made in the window, the boards it names, None if it
             \* adds a board and names none
  window,    \* the canvas fields of the page's state object
  requests,  \* the requests that are not served, or whose answer is on its way
  asks,      \* what the maintainer did so far
  timeouts,  \* requests given up so far
  patient,   \* no save was begun before every answer, no other request or edit
             \* before the answer of a save
  dropped    \* edits the maintainer gave up by loading or creating a canvas

pageVars == <<server, origin, window, requests, asks, timeouts, patient, dropped>>

Mine == 1..Len(origin)

-----------------------------------------------------------------------------
(* The service *)

Canvases   == DOMAIN server
Version(c) == Len(server[c].log)

NewCanvas(doc, boards) == [log |-> <<doc>>, past |-> <<>>, future |-> <<>>, boards |-> boards]

Edited(s, doc) ==
  [s EXCEPT !.log = Append(@, doc), !.past = Append(@, Last(s.log)), !.future = <<>>]
Undone(s) ==
  [s EXCEPT !.log = Append(@, Last(s.past)), !.past = Front(@), !.future = <<Last(s.log)>> \o @]
Redone(s) ==
  [s EXCEPT !.log = Append(@, Head(s.future)), !.past = Append(@, Last(s.log)), !.future = Tail(@)]

\* An edit that names a board or a node the canvas does not have is refused.
Fits(e, c) == origin[e] \in {None, server[c].boards}

Possible(r) ==
  CASE r.kind = "commands" -> \A i \in DOMAIN r.edits : Fits(r.edits[i], r.canvas)
    [] r.kind = "undo"     -> server[r.canvas].past # <<>>
    [] r.kind = "redo"     -> server[r.canvas].future # <<>>

Written(r) ==
  LET s == server[r.canvas]
  IN CASE r.kind = "commands" -> Edited(s, Last(s.log) \o r.edits)
       [] r.kind = "undo"     -> Undone(s)
       [] r.kind = "redo"     -> Redone(s)

Wrong(why)  == [ok |-> FALSE, why |-> why]
Shows(c, s) == [ok |-> TRUE, canvas |-> c, counter |-> Len(s.log), document |-> Last(s.log)]

\* The saved canvases and the answer, after the request is served.
Done(r) ==
  LET new == Len(server) + 1
      s == IF r.kind = "create" THEN NewCanvas(<<>>, new)
           ELSE IF r.kind = "fork" THEN NewCanvas(r.edits, server[r.canvas].boards)
           ELSE Written(r)
  IN IF r.kind \in {"create", "fork"} THEN <<Append(server, s), Shows(new, s)>>
     ELSE <<[server EXCEPT ![r.canvas] = s], Shows(r.canvas, s)>>

Served(r) ==
  CASE r.kind = "list" -> <<server, [ok |-> TRUE, canvases |-> Canvases]>>
    [] r.kind = "load" -> <<server, Shows(r.canvas, server[r.canvas])>>
    [] r.kind \in {"create", "fork"} -> Done(r)
    [] OTHER -> IF r.counter # Version(r.canvas) THEN <<server, Wrong("conflict")>>
                ELSE IF Possible(r) THEN Done(r) ELSE <<server, Wrong("refused")>>

\* A request that was given up may be served all the same.
ServeRequest(r) ==
  /\ r.reply = None
  /\ server' = Served(r)[1]
  /\ requests' = (requests \ {r}) \cup
       IF r.orphan THEN {} ELSE {[r EXCEPT !.reply = Served(r)[2]]}
  /\ UNCHANGED <<origin, window, asks, timeouts, patient, dropped>>

OtherWindow(c, e) ==
  /\ \A b \in Canvases : \A i \in DOMAIN server[b].log : ~Contains(server[b].log[i], e)
  /\ server' = [server EXCEPT ![c] = Edited(@, Append(Last(@.log), e))]
  /\ UNCHANGED <<origin, window, requests, asks, timeouts, patient, dropped>>

-----------------------------------------------------------------------------
(* The window *)

Request(kind, canvas, counter, edits, then) ==
  [kind |-> kind, canvas |-> canvas, counter |-> counter, edits |-> edits, then |-> then,
   newest |-> TRUE, orphan |-> FALSE, reply |-> None, n |-> 0]

Awaited == {r \in requests : ~r.orphan}
Writing == {r \in Awaited : r.kind \notin {"list", "load"}}

\* A handler of the page runs to its next await in one step.
Rests(w, left) == window' = w /\ requests' = left

Sends(w, left, r) ==
  \E n \in 1..Slots :
    /\ n \notin {q.n : q \in left} /\ \A m \in 1..n - 1 : m \in {q.n : q \in left}
    /\ window' = w
    /\ requests' = left \cup {[r EXCEPT !.n = n]}

\* loadCanvases and loadCanvas: a read owns the panel until a newer one starts.
Superseded(left) == {[r EXCEPT !.newest = r.kind \notin {"list", "load"}] : r \in left}

Lists(w, left) ==
  IF w.open THEN Sends(w, Superseded(left), Request("list", None, 0, <<>>, "rest"))
  ELSE Rests([w EXCEPT !.label = "idle"], left)
Loads(w, left, c) == Sends(w, Superseded(left), Request("load", c, 0, <<>>, "rest"))

\* flushCanvasQueue: the queue leaves the page as one batch.
Flush(w, left, then) ==
  IF w.canvas = None \/ w.queue = <<>>
  THEN Rests([w EXCEPT !.timer = FALSE, !.open = @ /\ then # "close"], left)
  ELSE Sends([w EXCEPT !.timer = FALSE, !.queue = <<>>, !.label = "saving"], left,
             Request("commands", w.canvas, w.counter, w.queue, then))

\* Faulty variant: a batch that was not saved is forgotten.
ForgottenBatch(w, r) == w.queue

\* A batch that was not saved returns to a queue that is empty.
Requeued(w, r) == IF w.queue = <<>> THEN r.edits ELSE w.queue

\* adoptCanvasPayload: edits queued meanwhile stay on top of the answer.
Adopts(w, reply) ==
  [w EXCEPT !.canvas = reply.canvas, !.counter = reply.counter,
            !.document = reply.document \o w.queue, !.label = "saved"]

\* A loaded, created or forked canvas takes the panel over, queue and all.
TakesOver(w, reply) == Adopts([w EXCEPT !.queue = <<>>], reply)

\* Faulty variant: any answer of a read is taken.
AnyAnswer(r) == window.open

IsCurrent(r) == r.newest /\ window.open

Queued(e) ==
  [window EXCEPT !.document = Append(@, e), !.queue = Append(@, e), !.timer = TRUE,
                 !.label = IF @ = "saved" THEN "dirty" ELSE @]

Waits(for) == patient' = (patient /\ for = {})

Asking ==
  /\ window.open /\ asks < MaxAsks
  /\ asks' = asks + 1

NextEdit == Len(origin) + 1

Makes(boards) ==
  /\ Asking /\ window.canvas # None
  /\ NextEdit <= MaxEdits
  /\ origin' = Append(origin, boards)
  /\ UNCHANGED <<server, timeouts, dropped>>

Edit ==
  /\ Makes(server[window.canvas].boards)
  /\ Waits(Writing)
  /\ Rests(Queued(NextEdit), requests)

AddBoard ==
  /\ Makes(None)
  /\ Waits(Awaited)
  /\ Flush(Queued(NextEdit), requests, "rest")

Makers == {r \in requests : r.kind \in {"create", "fork"} /\ r.reply = None}
MayMake == Len(server) + Cardinality(Makers) < MaxCanvases

Begins(for) ==
  /\ Waits(for)
  /\ UNCHANGED <<server, origin, timeouts, dropped>>

\* The pause after an edit, or the two seconds of continuous editing, are over.
Pause ==
  /\ window.timer
  /\ UNCHANGED asks
  /\ Begins(Awaited)
  /\ Flush(window, requests, "rest")

Retry ==
  /\ Asking /\ window.label = "failed"
  /\ Begins(Awaited)
  /\ Flush(window, requests, "rest")

\* canvasUndoRedo: what is queued is saved first.
Step(verb) ==
  /\ Asking /\ window.canvas # None
  /\ Begins(Awaited)
  /\ IF window.queue # <<>> THEN Flush(window, requests, verb)
     ELSE Sends(window, requests, Request(verb, window.canvas, window.counter, <<>>, "rest"))

Create ==
  /\ Asking /\ MayMake
  /\ Begins(Awaited)
  /\ Sends(window, requests, Request("create", None, 0, <<>>, "rest"))

\* The draft of a conflict is saved as a canvas of its own.
Fork ==
  /\ Asking /\ MayMake /\ window.label = "conflict"
  /\ Begins(Awaited)
  /\ Sends(window, requests, Request("fork", window.canvas, 0, window.document, "rest"))

\* Unsaved edits are asked about, and are saved or given up.
Close ==
  /\ Asking
  /\ Begins(Awaited)
  /\ Flush(window, requests, "close")

OpenPanel ==
  /\ ~window.open /\ asks < MaxAsks
  /\ asks' = asks + 1
  /\ Begins(Writing)
  /\ Lists([window EXCEPT !.open = TRUE], requests)

Reload ==
  /\ Asking
  /\ Begins(Writing)
  /\ Lists(window, requests)

Choose(c) ==
  /\ Asking /\ c \in window.options
  /\ Begins(Writing)
  /\ Loads([window EXCEPT !.select = c], requests, c)

-----------------------------------------------------------------------------
(* The answers *)

\* Faulty variant: only a conflict is shown.
QuietFailure(why) == IF why = "conflict" THEN "conflict" ELSE window.label

FailureLabel(why) == IF why = "conflict" THEN "conflict" ELSE "failed"

AfterSave(r, reply, left) ==
  LET w == IF reply.ok THEN Adopts(window, reply)
           ELSE [window EXCEPT !.queue = Requeued(window, r),
                               !.label = FailureLabel(reply.why)]
  IN /\ IF r.then \in {"undo", "redo"} /\ w.queue = <<>>
        THEN Sends(w, left, Request(r.then, w.canvas, w.counter, <<>>, "rest"))
        ELSE Rests([w EXCEPT !.open = @ /\ r.then # "close"], left)
     /\ UNCHANGED dropped

AfterStep(r, reply, left) ==
  /\ Rests(IF reply.ok THEN Adopts(window, reply)
           ELSE [window EXCEPT !.label = IF reply.why = "conflict" THEN "conflict" ELSE @], left)
  /\ UNCHANGED dropped

\* A list that is empty empties the panel, another one loads a canvas.
AfterList(r, reply, left) ==
  /\ IF ~IsCurrent(r) \/ ~reply.ok
     THEN Rests([window EXCEPT !.readFailed = @ \/ IsCurrent(r)], left)
     ELSE LET w == [window EXCEPT !.options = reply.canvases, !.readFailed = FALSE,
                               !.select = IF reply.canvases = {} THEN None ELSE 1]
          IN IF reply.canvases = {}
             THEN Rests([w EXCEPT !.canvas = None, !.document = <<>>, !.label = "idle"], left)
             ELSE Loads(w, left, IF w.canvas \in reply.canvases THEN w.canvas
                                 ELSE 1)
  /\ UNCHANGED dropped

AfterLoad(r, reply, left) ==
  IF ~IsCurrent(r) \/ ~reply.ok
  THEN Rests([window EXCEPT !.readFailed = @ \/ IsCurrent(r)], left) /\ UNCHANGED dropped
  ELSE /\ Rests([TakesOver(window, reply) EXCEPT !.timer = FALSE, !.select = reply.canvas], left)
       /\ dropped' = dropped \cup ToSet(window.queue)

AfterNew(r, reply, left) ==
  IF ~reply.ok
  THEN Rests(window, left) /\ UNCHANGED dropped
  ELSE /\ Lists(TakesOver(window, reply), left)
       /\ dropped' = dropped \cup IF r.kind = "fork" THEN {} ELSE ToSet(window.queue)

Handle(r, reply, left) ==
  /\ CASE r.kind = "commands" -> AfterSave(r, reply, left)
       [] r.kind \in {"undo", "redo"} -> AfterStep(r, reply, left)
       [] r.kind = "list" -> AfterList(r, reply, left)
       [] r.kind = "load" -> AfterLoad(r, reply, left)
       [] r.kind \in {"create", "fork"} -> AfterNew(r, reply, left)
  /\ UNCHANGED <<server, origin, asks, patient>>

Receive(r) ==
  /\ r.reply # None
  /\ Handle(r, r.reply, requests \ {r})
  /\ UNCHANGED timeouts

\* After 10 seconds the page gives up; the service may not have begun.
TimeOut(r) ==
  /\ ~r.orphan /\ timeouts < MaxTimeouts
  /\ timeouts' = timeouts + 1
  /\ Handle(r, Wrong("timeout"),
            (requests \ {r}) \cup IF r.reply = None THEN {[r EXCEPT !.orphan = TRUE, !.then = "rest"]} ELSE {})

Closed ==
  [canvas |-> None, counter |-> 0, document |-> <<>>, queue |-> <<>>, label |-> "idle",
   options |-> {}, select |-> None, readFailed |-> FALSE, open |-> FALSE, timer |-> FALSE]

\* The panel is closed on a project without canvases, or shows its first one.
PageInit ==
  /\ \/ server = <<>> /\ window = Closed
     \/ /\ server = <<NewCanvas(<<>>, 1)>>
        /\ window = [Closed EXCEPT !.canvas = 1, !.counter = 1, !.label = "saved",
                                   !.options = {1}, !.select = 1, !.open = TRUE]
  /\ origin = <<>>
  /\ requests = {}
  /\ asks = 0 /\ timeouts = 0
  /\ patient = TRUE
  /\ dropped = {}

PageNext ==
  \/ \E r \in requests : ServeRequest(r) \/ Receive(r) \/ TimeOut(r)
  \/ \E c \in Canvases, e \in Theirs : OtherWindow(c, e)
  \/ Edit \/ AddBoard
  \/ Pause \/ Retry \/ Create \/ Fork \/ Close \/ OpenPanel \/ Reload
  \/ \E verb \in {"undo", "redo"} : Step(verb)
  \/ \E c \in Canvases : Choose(c)

PageSpec == PageInit /\ [][PageNext]_pageVars

\* The browser runs timers and handlers, and the service serves what arrives.
FairSpec ==
  /\ PageSpec
  /\ WF_pageVars(Pause)
  /\ \A n \in 1..Slots :
       WF_pageVars(\E r \in requests : r.n = n /\ (ServeRequest(r) \/ Receive(r)))

-----------------------------------------------------------------------------
(* Properties *)

Labels == {"idle", "saved", "dirty", "saving", "failed", "conflict"}

PageTypeOK ==
  /\ window.canvas \in Canvases \cup {None}
  /\ window.label \in Labels
  /\ ToSet(window.queue) \subseteq Mine
  /\ window.options \subseteq Canvases /\ window.select \in window.options \cup {None}
  /\ \A r \in requests : r.n \in 1..Slots /\ (r.orphan => r.reply = None)

\* Once every read is answered the list shows the canvas the panel shows, in
\* whatever order the answers came (beginCanvasLoad, canvasLoadIsCurrent).
ListShowsCanvas ==
  (patient /\ window.open /\ Awaited = {} /\ ~window.readFailed) => window.select = window.canvas

\* An edit is in the queue, on its way, saved, or was given up by the maintainer,
\* whatever timed out, was refused or conflicted.
NothingLost ==
  \A e \in Mine :
    \/ e \in dropped
    \/ Contains(window.queue, e)
    \/ \E r \in requests : Contains(r.edits, e)
    \/ \E c \in Canvases : \E i \in DOMAIN server[c].log : Contains(server[c].log[i], e)

\* The window says saved only of a version the service has, with nothing queued.
SavedIsTrue ==
  window.label = "saved" =>
    /\ window.queue = <<>>
    /\ window.document = server[window.canvas].log[window.counter]

\* An edit that was sent again after a lost answer is not applied twice.
NothingTwice ==
  \A c \in Canvases : \A i \in DOMAIN server[c].log : IsInjective(server[c].log[i])

\* The window is well formed, and while it is left open to do its work no edit
\* is lost, applied twice or called saved when it is not.
DraftIsKept ==
  /\ PageTypeOK /\ ListShowsCanvas
  /\ patient => NothingLost /\ SavedIsTrue /\ NothingTwice

\* Every edit is saved in the end, or the window says that it is not.
EditsAreSettled == (window.label \in {"dirty", "saving"}) ~> (window.label \notin {"dirty", "saving"})

=============================================================================
