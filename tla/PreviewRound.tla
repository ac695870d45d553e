---------------------------- MODULE PreviewRound ----------------------------
(***************************************************************************)
(* A preview round as a whole: the transaction that decides it             *)
(* (PreviewDecision), the browser review that answers it (ReviewSession)   *)
(* and the version history that shows it (PreviewVersions).                *)
(*                                                                         *)
(* One call of the transaction opens the review; while it waits, the other *)
(* processes go on. Where no review is opened, the collector of a call     *)
(* answers as it likes.                                                    *)
(***************************************************************************)
EXTENDS PreviewVersions, ReviewSession

VARIABLES
  reviewer,   \* the call the review answers, 0 before
  verdict     \* what its decision says: confirmed, floor_pass; None before

roundVars == <<vars, versionVars, reviewVars, reviewer, verdict>>

Verdict == [confirmed : BOOLEAN, passed : BOOLEAN]

\* A call that waits for its browser.
Collects(p) == pc[p] = "collect" /\ run[p].call = reviewer

Ask(p) ==
  /\ pc[p] = "collect" /\ reviewer = 0
  /\ \E owned \in BOOLEAN : OpenReview(owned)
  /\ reviewer' = Mine(p)
  /\ UNCHANGED <<vars, versionVars, verdict>>

ReviewGoesOn ==
  /\ \E p \in Processes : Collects(p)
  /\ ReviewNext
  /\ main # "idle"
  /\ UNCHANGED <<vars, versionVars, reviewer, verdict>>

\* Faulty variant: the button alone decides, also on a submission that was refused.
CommitChoice(p) ==
  /\ main = "returned"
  /\ CommitEntry(p)
  /\ LET by == IF slot.by = NoPost THEN NoPost ELSE post[slot.by]
         confirms == by # NoPost /\ by.form.choice = "confirm"
     IN /\ entry'[Round(p)].confirms = confirms
        /\ verdict' = [confirmed |-> confirms, passed |-> confirms]
  /\ UNCHANGED <<versionVars, reviewVars, reviewer>>

\* The submission becomes the decision of the round.
CommitReview(p) ==
  /\ main = "returned"
  /\ CommitEntry(p)
  /\ entry'[Round(p)].confirms = UserConfirms(slot)
  /\ verdict' = [confirmed |-> Confirms(slot), passed |-> slot.kind = "accepted" /\ FloorPasses(slot)]
  /\ UNCHANGED <<versionVars, reviewVars, reviewer>>

\* collect_review raised, or the prototype that was served is another one.
ReviewFails(p) ==
  /\ main \in {"raised", "returned"}
  /\ Fails(p)
  /\ UNCHANGED <<versionVars, reviewVars, reviewer, verdict>>

Decide(p) == Collects(p) /\ (CommitReview(p) \/ ReviewFails(p))

\* The calls of the transaction that do not wait for this review.
Transact(p) ==
  /\ job[p] = None
  /\ \/ /\ \/ \E r \in Rounds, b \in Bindings : Starts(p, r, b)
           \/ ~Collects(p) /\ Transacts(p)
           \/ Heartbeat(p) \/ Dies(p)
        /\ UNCHANGED versionVars
     \/ ReadProjected(p) \/ WriteProjected(p)
  /\ UNCHANGED <<reviewVars, reviewer, verdict>>

KeepVersions ==
  /\ \E p \in Processes : VersionStep(p)
  /\ UNCHANGED <<reviewVars, reviewer, verdict>>

RoundInit ==
  /\ Init /\ VersionsInit /\ ReviewInit
  /\ reviewer = 0 /\ verdict = None

RoundNext ==
  \/ \E p \in Processes : Ask(p) \/ Decide(p) \/ Transact(p)
  \/ ReviewGoesOn
  \/ KeepVersions
  \/ (\E r \in Rounds : LockStale(r)) /\ UNCHANGED <<versionVars, reviewVars, reviewer, verdict>>

RoundSpec == RoundInit /\ [][RoundNext]_roundVars

-----------------------------------------------------------------------------
(* Properties.                                                              *)

\* The decision, the confirm record, the ledger, log.md and the versions tell
\* one story, but for what the one call in progress has still to repair
\* (_run_locked, create_named_version).
HistoryAgrees == RecordsAgree /\ VersionsAreShown

\* What a round has is not taken away: the decision, the lock of a live
\* request, the line in log.md, the versions and their lines (_run_locked,
\* _claim_stale_lock, _commit_projections, _refresh_log).
HistoryIsKept ==
  [][PunctualDecidedOnce /\ TakeoverKeepsBinding /\ LogKeepsRounds /\ VersionsAreKept]_roundVars

\* A round is confirmed only by a form of its own page on which the user chose
\* to confirm, and passes the floor only on the user's notes, on edits of the
\* source the page shows, or by a skip; a refusal, a timeout and whatever is
\* posted later never make it (do_POST, _floor_verdict, _run_locked).
DecidedByTheUser ==
  /\ OneDecision
  /\ verdict # None =>
       LET form == post[spent].form
       IN /\ verdict.confirmed => verdict.passed /\ spent # NoPost /\ form.choice = "confirm"
          /\ verdict.passed => /\ spent # NoPost
                               /\ form.token /\ ~post[spent].stale
                               /\ \/ form.choice = "skip" \/ form.notes = "good"
                                  \/ form.notes = "none" /\ form.edits = "real"
  /\ \A r \in Rounds : entry[r] # None /\ entry[r].confirms /\ entry[r].id = reviewer =>
       spent # NoPost /\ post[spent].form.choice = "confirm"

DecisionIsTheUsers ==
  DecidedByTheUser /\ [][LaterChangesNothing /\ DecidedByTheUser']_roundVars

=============================================================================
