--------------------------- MODULE ReviewSession ---------------------------
(***************************************************************************)
(* One browser review of a prototype                                       *)
(* (mcp/preview/review_session.py, owned_browser.py, visual_batch.py,      *)
(* live_route.py).                                                         *)
(*                                                                         *)
(* collect_review serves one page and waits, for at most half an hour, for *)
(* a form that proves to come from it. Every POST is handled on a thread   *)
(* of its own; what the threads and the waiting call share is the token,   *)
(* the slot for the result, the hash of the source observed last and the   *)
(* event that ends the wait. A POST may come from the page, twice, or from *)
(* elsewhere without the token, at any time until the server is stopped.   *)
(***************************************************************************)
EXTENDS Naturals

CONSTANTS
  Posts,      \* submissions
  NoPost,
  Forms,      \* what a submission may contain
  MaxMoves    \* bound: changes of the source under review

\* Whether the form carries the token, its feedback and anchors, the button,
\* and its visual edits: none, some that cancel out, or some that change a value.
Form == [token : BOOLEAN, notes : {"none", "good", "incomplete", "unusable"},
         choice : {"confirm", "skip", "abort"}, edits : {"none", "undone", "real"}]

Slot == [kind : {"nothing", "refused", "accepted", "timeout"}, by : Posts \cup {NoPost},
         seen : 0 .. 2]

Places == {"prove", "observe", "judge", "validate", "refused", "refuses", "accepts",
           "answers", "ends", "gone"}

Thread == [at : Places, form : Forms, proven : BOOLEAN, stale : BOOLEAN,
           valid : BOOLEAN, after : BOOLEAN]

ASSUME PostsAssumption ==
  NoPost \notin Posts /\ NoPost \notin Thread /\ MaxMoves \in Nat

ASSUME FormsAssumption == Forms \subseteq Form

VARIABLES
  source,     \* what the reviewed route serves by now: 1 or 2
  moves,
  bound,      \* the source the page was built from; its edits carry it
  window,     \* the window the service opened
  spent,      \* the submission the one-time token was spent on
  observed,   \* visual_source_hash: the source observed last, 0 before
  slot,       \* the result so far
  ended,      \* the event the call waits for
  main,       \* where the call is
  post        \* where the thread of each submission is

reviewVars == <<source, moves, bound, window, spent, observed, slot, ended, main, post>>

MovesTo(p, position) == post' = [post EXCEPT ![p].at = position]

-----------------------------------------------------------------------------
(* The submissions: do_POST, on a thread each.                              *)

Listening == main \in {"serving", "late", "closing"}

\* `after` is history: the token was spent before the submission came.
Arrive(p, form) ==
  /\ Listening /\ post[p] = NoPost
  /\ form.token => window # "closed"
  /\ post' = [post EXCEPT ![p] = [at |-> "prove", form |-> form, proven |-> FALSE,
                                  stale |-> FALSE, valid |-> FALSE, after |-> spent # NoPost]]
  /\ UNCHANGED <<source, moves, bound, window, spent, observed, slot, ended, main>>

\* _DecisionSession.proven spends nothing.
Prove(p) ==
  /\ post[p] # NoPost /\ post[p].at = "prove"
  /\ LET proven == post[p].form.token /\ spent = NoPost
     IN post' = [post EXCEPT ![p].proven = proven,
                   ![p].at = IF proven /\ post[p].form.notes # "unusable"
                             THEN "observe" ELSE "validate"]
  /\ UNCHANGED <<source, moves, bound, window, spent, observed, slot, ended, main>>

\* Only a proven submission makes the service look at the route.
Observe(p) ==
  /\ post[p] # NoPost /\ post[p].at = "observe"
  /\ observed' = source
  /\ MovesTo(p, "judge")
  /\ UNCHANGED <<source, moves, bound, window, spent, slot, ended, main>>

\* The route does not answer.
ObserveFails(p) ==
  /\ post[p] # NoPost /\ post[p].at = "observe"
  /\ post' = [post EXCEPT ![p].stale = TRUE, ![p].at = "refused"]
  /\ UNCHANGED <<source, moves, bound, window, spent, observed, slot, ended, main>>

\* normalize_visual_batch: edits bound to another source than the one observed
\* last, by whichever thread, are stale.
Judge(p) ==
  /\ post[p] # NoPost /\ post[p].at = "judge"
  /\ LET stale == post[p].form.edits # "none" /\ observed # bound
     IN post' = [post EXCEPT ![p].stale = stale, ![p].at = "validate"]
  /\ UNCHANGED <<source, moves, bound, window, spent, observed, slot, ended, main>>

Usable(p) == post[p].form.notes # "unusable" /\ ~post[p].stale

\* Faulty variant: the token is spent before the form is known to be usable.
SpendsFirst(p) == post[p].form.token /\ spent = NoPost

\* A form that cannot be used never spends the token.
Spends(p) == Usable(p) /\ post[p].form.token /\ spent = NoPost

\* _DecisionSession.validate: looks and spends under its lock.
Validate(p) ==
  /\ post[p] # NoPost /\ post[p].at = "validate"
  /\ spent' = IF Spends(p) THEN p ELSE spent
  /\ post' = [post EXCEPT ![p].valid = Spends(p),
                          ![p].at = IF Spends(p) THEN "accepts" ELSE "refused"]
  /\ UNCHANGED <<source, moves, bound, window, observed, slot, ended, main>>

\* Faulty variant: a refusal is recorded whoever decided before.
RefusesAlways(p) ==
  /\ post[p] # NoPost /\ post[p].at = "refused"
  /\ MovesTo(p, "refuses")
  /\ UNCHANGED <<source, moves, bound, window, spent, observed, slot, ended, main>>

\* A refused submission looks whether somebody has decided, without the lock.
LookBeforeRefusing(p) ==
  /\ post[p] # NoPost /\ post[p].at = "refused"
  /\ MovesTo(p, IF spent = NoPost THEN "refuses" ELSE "answers")
  /\ UNCHANGED <<source, moves, bound, window, spent, observed, slot, ended, main>>

Refuse(p) ==
  /\ post[p] # NoPost /\ post[p].at = "refuses"
  /\ slot' = [kind |-> "refused", by |-> p, seen |-> observed]
  /\ MovesTo(p, "answers")
  /\ UNCHANGED <<source, moves, bound, window, spent, observed, ended, main>>

\* Faulty variant: the wait ends before the result is there.
AcceptsLater(p) ==
  /\ post[p] # NoPost /\ post[p].at = "accepts"
  /\ ended' = TRUE
  /\ MovesTo(p, "answers")
  /\ UNCHANGED <<source, moves, bound, window, spent, observed, slot, main>>

Accept(p) ==
  /\ post[p] # NoPost /\ post[p].at = "accepts"
  /\ slot' = [kind |-> "accepted", by |-> p, seen |-> observed]
  /\ MovesTo(p, "answers")
  /\ UNCHANGED <<source, moves, bound, window, spent, observed, ended, main>>

Answer(p) ==
  /\ post[p] # NoPost /\ post[p].at = "answers"
  /\ MovesTo(p, "ends")
  /\ UNCHANGED <<source, moves, bound, window, spent, observed, slot, ended, main>>

\* The browser closed the connection: the handler ends in an exception, before
\* it could end the wait.
AnswerLost(p) ==
  /\ post[p] # NoPost /\ post[p].at = "answers"
  /\ MovesTo(p, "gone")
  /\ UNCHANGED <<source, moves, bound, window, spent, observed, slot, ended, main>>

\* A decision ends the wait, and so does a batch whose source has moved; an
\* unusable list of anchors can be sent again.
EndSession(p) ==
  /\ post[p] # NoPost /\ post[p].at = "ends"
  /\ ended' = (ended \/ post[p].valid \/ (post[p].proven /\ post[p].stale))
  /\ MovesTo(p, "gone")
  /\ UNCHANGED <<source, moves, bound, window, spent, observed, slot, main>>

Handle(p) ==
  \/ \E form \in Forms : Arrive(p, form)
  \/ Prove(p) \/ Observe(p) \/ ObserveFails(p) \/ Judge(p) \/ Validate(p)
  \/ LookBeforeRefusing(p) \/ Refuse(p) \/ Accept(p)
  \/ Answer(p) \/ AnswerLost(p) \/ EndSession(p)

-----------------------------------------------------------------------------
(* The call: collect_review.                                                *)

\* The page is built, the server runs and a window opens: one of ours, or the
\* default browser, which stays open.
OpenReview(owned) ==
  /\ main = "idle"
  /\ main' = "serving"
  /\ bound' = source
  /\ window' = IF owned THEN "open" ELSE "foreign"
  /\ UNCHANGED <<source, moves, spent, observed, slot, ended, post>>

WaitEnds ==
  /\ main = "serving" /\ ended
  /\ main' = "closing"
  /\ UNCHANGED <<source, moves, bound, window, spent, observed, slot, ended, post>>

TimesOut ==
  /\ main = "serving" /\ ~ended
  /\ main' = "late"
  /\ UNCHANGED <<source, moves, bound, window, spent, observed, slot, ended, post>>

RecordTimeout ==
  /\ main = "late"
  /\ slot' = [kind |-> "timeout", by |-> NoPost, seen |-> observed]
  /\ main' = "closing"
  /\ UNCHANGED <<source, moves, bound, window, spent, observed, ended, post>>

\* Hidden, killed by its process or by its profile; what fails is only logged.
CloseWindow(killed) ==
  /\ main = "closing"
  /\ window' = IF window = "open" /\ killed THEN "closed" ELSE window
  /\ main' = "stopping"
  /\ UNCHANGED <<source, moves, bound, spent, observed, slot, ended, post>>

\* The result is read after the server was stopped; threads that still run may
\* have written it until then.
StopServer ==
  /\ main = "stopping"
  /\ main' = "returned"
  /\ UNCHANGED <<source, moves, bound, window, spent, observed, slot, ended, post>>

\* The serve loop is still alive after 1.5 seconds: the call fails.
StopFails ==
  /\ main = "stopping"
  /\ main' = "raised"
  /\ UNCHANGED <<source, moves, bound, window, spent, observed, slot, ended, post>>

\* Somebody rebuilds the route under review, or takes the change back.
SourceMoves ==
  /\ Listening /\ moves < MaxMoves
  /\ source' = 3 - source
  /\ moves' = moves + 1
  /\ UNCHANGED <<bound, window, spent, observed, slot, ended, main, post>>

ReviewInit ==
  /\ source = 1 /\ moves = 0 /\ bound = 0
  /\ window = "none"
  /\ spent = NoPost /\ observed = 0
  /\ slot = [kind |-> "nothing", by |-> NoPost, seen |-> 0]
  /\ ended = FALSE /\ main = "idle"
  /\ post = [p \in Posts |-> NoPost]

ReviewNext ==
  \/ \E p \in Posts : main \notin {"returned", "raised"} /\ Handle(p)
  \/ \E yes \in BOOLEAN : OpenReview(yes) \/ CloseWindow(yes)
  \/ WaitEnds \/ TimesOut \/ RecordTimeout \/ StopServer \/ StopFails
  \/ SourceMoves

-----------------------------------------------------------------------------
(* What the transaction makes of a submission: _run_locked.                 *)

\* build_agent_handoff compares the edits with the source the submission says
\* was observed; edits that cancel out stand in for nothing.
EditsCount(s) == post[s.by].form.edits = "real" /\ s.seen = bound

\* _floor_verdict, for a submission that was accepted.
FloorPasses(s) ==
  LET form == post[s.by].form
  IN \/ form.choice = "skip"
     \/ form.notes = "good"
     \/ form.notes = "none" /\ EditsCount(s)

UserConfirms(s) == s.kind = "accepted" /\ post[s.by].form.choice = "confirm"

Confirms(s) == UserConfirms(s) /\ FloorPasses(s)

-----------------------------------------------------------------------------
(* Properties.                                                              *)

ReviewTypeOK ==
  /\ source \in 1 .. 2 /\ moves \in 0 .. MaxMoves /\ bound \in 0 .. 2
  /\ window \in {"none", "open", "foreign", "closed"}
  /\ spent \in Posts \cup {NoPost} /\ observed \in 0 .. 2
  /\ slot \in Slot /\ ended \in BOOLEAN
  /\ main \in {"idle", "serving", "late", "closing", "stopping", "returned", "raised"}
  /\ \A p \in Posts : post[p] = NoPost \/ post[p] \in Thread

\* The token is spent on one usable form of the page, and only that form's
\* decision is ever the result. The wait is ended by that form, after its
\* result was written, or by a form of the page whose source had moved, never
\* by one from elsewhere (_DecisionSession.validate, do_POST).
OneDecision ==
  /\ ReviewTypeOK
  /\ spent # NoPost => post[spent].form.token /\ Usable(spent)
  /\ slot.kind = "accepted" => slot.by = spent
  /\ ended => \E p \in Posts : /\ post[p] # NoPost /\ post[p].form.token
                              /\ \/ post[p].stale
                                 \/ p = spent /\ slot.kind # "nothing"

\* A submission that comes after the decision, a double click or a retry of the
\* browser, changes nothing the call will return (do_POST).
LaterChangesNothing ==
  \A p \in Posts : post[p] # NoPost /\ post[p].after /\ post'[p] # post[p] =>
    UNCHANGED <<spent, observed, slot, ended>>

=============================================================================
