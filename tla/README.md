# A verification project for design-playbook

TLA+ modules for the parts of design-playbook whose correctness depends on the
order of things: several request threads on one database and one project
directory, several processes on one preview directory, a browser whose answers come late,
artifacts of a run that are read by rules of their own, writes of several files
that cannot be atomic, retries, expiries and stops. TLC checks the modules on
small instances, TLAPS proves the theorems for every value of the constants.

Paths below are relative to the repository. `workbench/` stands for
`packages/design-playbook-workbench/design_playbook_workbench/`, `mcp/` for
`packages/design-playbook/mcp/`.

## Inventory

The repository has three programs that keep state. The *workbench* is one local
HTTP service with an SQLite database, a blob store and write access to the
projects its maintainer registered; its page runs in a browser. The *MCP servers*
(preview, evidence, run console) run beside a coding agent and keep their state
in files of a run. The *scripts and skills* are command-line tools over the
artifacts of a run and of a project.

| Component | State | Operations | What is hard | What makes it correct | Module |
| --- | --- | --- | --- | --- | --- |
| Mutation gate, `workbench/mutation.py` | `mutations` table | replay, existing, create, record | lost answers, duplicates side by side, reused ids, stale counters | at most once, own answer, no lost update | `MutationGate` |
| Source proposals, `proposals.py` | `proposals`, `apply_journal`, project files, one lock per project | create, apply, recover, revert, reject | partial writes, stops, edits by other tools, races of recover and apply | write-ahead journal, no overwritten edit, a way back or forward | `ProposalApply` |
| Project registry, `service.py`, `resolver.py`, `paths.py` | `projects`, `folder_bindings`, grants, the current project | probe, register, rebind, open, remove, delete data, resolve | folders that move between the probe and the write | one project per folder, the folder that was named | `Registry`, `MutationGate` |
| Work requests, `work.py` | `work_requests`, `work_attempts`, claim files | create, consent, claim, heartbeat, submit_result, fail_attempt, cancel, retry, reject | leases, capabilities checked before the transaction, restarts | one credential per attempt, nothing accepted under a retired one | `WorkRequest` |
| Service, `launcher.py`, `listener.py`, `session.py`, `credentials.py`, `http_server.py` | listeners, session, capabilities in memory, `session.json` | start, stop, bootstrap, every route | starts that overlap, ports taken over, threads that outlive the session | a service admits what was meant for it | `Service`, `Routes` |
| Store, `store.py` | the database, its `.bak` files | open, back up, migrate | a start that stops half way, other releases | the only way back is there and whole | `Upgrade` |
| Canvas, `canvas.py` | document, transaction list | run_commands, undo, redo, rename, fork | trimmed history, cleared redo branch | undo is exact | `Canvas`, `UndoStack` |
| Orchestration, `orchestration.py` | snapshots, context selections | snapshot, build, confirm, consent | a canvas that goes on changing | what is sent was confirmed | `Orchestration` |
| Assets, `assets.py`, `components.py`, `designsystem.py`, `lifecycle.py`, `publication.py`, `reuse.py` | drafts, revisions, edges, instances, lifecycle | edit, publish, import, copy, archive, trash, delete | references that appear meanwhile | no reference dangles, no cycle | `Library` |
| Backup, `backup.py`, `blobs.py` | archives, restored directories | create, restore | rows and blobs that come and go, retries, stops | an archive is one state and whole | `Backup` |
| Page of the workbench, `web/app.js` | queue, timer, requests in flight | edit, save, load, undo, conflict | late, lost and refused answers | no edit is lost or applied twice | `CanvasWindow` |
| Preview decision, `mcp/preview/transaction.py`, `locking.py`, `ledger.py` | files of a preview directory, a ledger outside of it | run_preview_transaction | several processes, stale locks, death between two files | one decision per round, what was reported stays | `PreviewDecision` |
| Preview review, `mcp/preview/review_session.py` | one browser session | serve, submit, time out | submissions side by side, timeout against a late answer | the decision is the user's | `ReviewSession` |
| Version history, `mcp/preview/versions.py` | version files, `log.md` | name, refresh, fork | a log two writers rewrite | the log shows what there is | `PreviewVersions` |
| Run console, `mcp/run_console` | snapshot in memory, export pair | build, review, write | files that change between two reads, two renames | what is served was true, what is written was reviewed | `RunConsole` |
| Evidence, `mcp/evidence` | screenshots, sidecars, manifest, page, archive | capture, bind, hand off | partial captures, a run that goes on | a Pass is earned and shows its page | `Evidence`, `Handoff` |
| Owner facts, `owners.py`, `publish_owner_projection.py` | projection, confirmations, candidates | publish, confirm, publish verified, backflow | parts that change independently | what is published was judged | `OwnerFacts` |
| Project contract, `contract_v1.py`, `g7_contract_drift.py` | contract, decision log, snapshot | decide, bind, promote, check | any order of them | no field changes without the user | `Contract` |
| Design baseline, `design_baseline.py` | state file, draft, `DESIGN.md` | prepare, accept, promote, verify | edits between the hashes and the write | what is accepted was shown | `DesignBaseline` |
| Review of a run, `validate_run.py`, `status_projection.py`, `run_continuation.py`, G2 to G12 | artifacts of a run | review, re-grade, validate, repair, close | three readers with rules of their own | they agree | `RunReview` |
| Registries, preferences, adapters, `rules_registry.py` and others | append-only files | parse, validate, generate | text | | not modelled |
| Release tooling, `scripts/release_*.py` | registry, tag, release | resolve, act, verify | a partial release | | not modelled |

How they interact: every write of the workbench passes the gate, which asks the
registry for the grant; the registry asks the journal of the proposals, because
a half-written proposal blocks the project's other writes. A result of a work
request may create a proposal in the same transaction; its context is a
selection of the orchestration, taken from a canvas, whose components are
revisions of the library. The session decides which agent may send a message;
the work request which of its capabilities counts. The preview transaction calls
the browser review as a function; G5, the handoff and the run console read what
it leaves. The evidence manifest and the ledger of verdicts feed the handoff, the
gates and the projection the workbench takes over.

## The modules

| Module | Models | Checked in | Proved in |
| --- | --- | --- | --- |
| `ProposalApply` | source proposals of one project | `apply_*` | `Review_proofs` |
| `ProposalLifecycle` | abstract: the states a maintainer is shown | `apply_sequential` | `Review_proofs` |
| `MutationGate` | the gate, grants and removal of one project | `gate` | `MutationGate_proofs` |
| `ExactlyOnce` | abstract: what a client is promised | `gate` | `MutationGate_proofs` |
| `WorkRequest` | requests, attempts, leases, capabilities | `work` | `WorkRequest_proofs` |
| `PreviewDecision`, `PreviewVersions`, `ReviewSession` | the preview transaction, the versions beside it, one browser review | `preview` | `PreviewRound_proofs` |
| `PreviewRound` | the three of them composed | `preview` | `PreviewRound_proofs` |
| `Canvas`, `Orchestration` | documents and their history; snapshots and selections on top | `canvas` | `Delivery_proofs` |
| `UndoStack` | abstract: what undo promises | `canvas` | `Delivery_proofs` |
| `Library` | assets, revisions, references | `delivery` | `Library_proofs` |
| `CanvasWindow` | the browser page against the service | `window` | `Workbench_proofs` |
| `RunConsole` | snapshots and exports of a run | `console` | `RunConsole_proofs` |
| `Evidence`, `Handoff`, `OwnerFacts` | captures, delivery, what the workbench takes over | `delivery` | `Delivery_proofs` |
| `Delivery` | the three of them composed | `delivery` | `Delivery_proofs` |
| `Contract`, `DesignBaseline`, `RunReview` | contract, baseline, and the run that binds both | `review` | `Review_proofs` |
| `Backup`, `Upgrade` | archives, database | `service`, `backup` | `Workbench_proofs` |
| `Registry`, `Routes`, `Service` | folders, HTTP surface, starts and sessions | `service` | `Workbench_proofs` |
| `Nothing` | the value of what is not there | | |
| `MC*` | the instances TLC checks; `CanvasWindow` and `RunConsole` need none | | |

The definitions whose comment begins with "Faulty variant" are mistakes the code
does not make. No specification uses them: they are substituted, one at a time,
for the definition they follow to see that the property named for it in
`PROJECT.json` fails then.

### ProposalApply

`file` is the project directory with the contents abstracted to hashes, `pstate`
the state column of `proposals`, `jstate` that of the one journal a proposal can
have, `steps` the reviewed changes with their base, result and backup. A request
thread has a position: the database reads of `apply` and `recover` before the
lock are one step (`ApplyChecked`, `RecoverChecked`), taking the lock with the
checks that follow it is another (`ApplyBegins`, `RollbackBegins`, ...), and
each file is written, recorded and hashed in steps of its own (`WriteFile`,
`VerifyFile`). Creating, reverting and rejecting are single transactions of the
gate. The environment expires proposals, edits files, refuses writes and stops
the process.

What recovery knows is only what the files look like (`Applied`, `Pending`,
`External`, from `_classify`), so the `done` list of the journal is left out: it
is written but never decides anything. Also left out: the directories a plan
creates and removes, staging files damaged on disk, the binding generation
(nobody rebinds the project in this module), dependency lists and the text of a
change.

`ProposalLifecycle` says what the maintainer is promised about the state shown:
a proposal is authorized once, a half-written one blocks the project, an outcome
is final. `Lifecycle` is the refinement under `ShownState`, which gives every proposal
its `EffectiveState`. It holds while requests are served one after another, and so
do `RecoveryOffered` and `WriteAheadJournal`: the unfinished journal is looked for
before the project lock, so two threads can leave two half-written proposals.

### MutationGate

A thread goes through the positions of `MutationGate.existing`: replay,
authorize, and the transaction, which is one step because SQLite runs one write
transaction at a time and commits it whole. `set_grants` asks for the project
before the gate and `remove_project` asks the ledger first and computes its
counter outside of the transaction, so these have positions of their own. Clients
send any envelope built from rows and counters they have seen, with any operation
id, used before or not. `ExactlyOnce` is the abstract specification; the ledger
is its outcome and the answers about to be given are what clients are told.

### WorkRequest

Writes of the maintainer are transactions of the gate. Writes of the agent read
the request and its capability (`Arrive`), the ledger (`Replay`) and the lease
(`LeaseHolds`, `LeaseOver`) before the transaction; an expired lease is recorded
by `InterruptAttempt` and `InterruptRequest`, two transactions that look at
nothing. Leases, requests and capabilities expire at any time; a restart
(`Restart`, `RestartWhileMinting`) retires the capabilities and makes every lease
one of a previous run.

`CredentialsHold` joins the type invariant with `RetryNeverInterrupts`,
`OneAttemptPerCapability` and `ClaimIsOffered`; `ReportsAreCurrent` says of every
step that nothing is accepted under a replaced capability or while the request is
over, and that only an interruption that was under way reopens one that is over.

### PreviewDecision, ReviewSession, PreviewVersions, PreviewRound

`PreviewDecision` is the directory: for each round the lock file, its `.recovery`
guard, the decision entry and the confirm record; `log.md`; the ledger outside of
it; and the projection lock. A process is at one of the places between two file
operations and may die at each, fail where the code can, or be suspended until
its lock is stale. The projection lock is one the operating system frees when
its holder dies, which is what fences the lease file of `directory_lock`.

`ReviewSession` is the call of `collect_review` inside one transaction. A POST is
a thread with the places where `do_POST` waits or looks (`Arrive`, `Prove`,
`Observe`, `Judge`, `Validate`, `Slot`, `Answer`, `EndSession`); the threads share
the token, the result slot, the hash of the source observed last and the event
that ends the wait. A form is reduced to what the transaction and the floor look
at: whether it proves to come from the page, the choice, the notes, the edits.

`PreviewVersions` adds the version files and their writers, who rewrite `log.md`
under the projection lock that decisions take too. `PreviewRound` composes the
three: the collector of one call is the review, and what it returns is the
decision the transaction commits (`CommitReview`). `HistoryAgrees` relates
entry, confirm record, ledger, log and versions; `HistoryIsKept` says what no
step takes away; `DecisionIsTheUsers` relates the committed decision to the one
form that spent the token.

### Canvas, UndoStack, Orchestration

A document is a sequence of boards, a board its nodes and edges and what the
validator looks at. A command is applied by the same steps as `_apply_command`;
`_step` of undo and redo applies the recorded patch and validates the result. The
history is the trimmed list with its position, `UndoStack` the stack the
maintainer is promised, and `UndoIsExact` the refinement, also where an
intermediate document of a batch is invalid and undo is refused.

`Orchestration` adds snapshots, selections and the consent of a work request. A
confirmation names the digest that was shown; `ConsentIsInformed` (which includes
`SnapshotNamesState` and the well-formedness of the canvas) says that what is
confirmed or consented was, as content, confirmed by somebody.

### Library

A page or a component is the set of assets it names (`None` while it is a distilled
candidate nobody completed), a token set a text whose meaning `Says` gives, a file
names nothing. Drafts, revisions with the dependencies they declare, dependency edges,
instances and the lineage of copies are variables, a request is one transaction. Four
requests read the tables before it opens and have two steps (`asked` holds what was
read): the components a page or a distilled candidate is validated against (`CreatePage`,
`DistillCandidate`, then `FinishCreate`), the closure of an import (`RequestImport`,
`FinishImport`, which finds again what was listed but does not list it again) and the
target of an `unarchive`. In between a request may also come to nothing (`Abandon`).
There is an action for each entry point, because they validate different things: the component, page and token publishers validate
and freeze what `Prepared` and `Publish` say, the declared publish looks at its
closure only, a refresh takes the project's file as it is.
`ReferencesHold` is well-formedness, no dangling reference, dependencies inside
the project, no revision that reaches its own asset (`NoRevisionReachesItsAsset`),
and token references that settle (`TokensSettle`, by a fixed point rather than by the
trail `Settles` keeps).

### CanvasWindow

The window keeps a queue, a timer, the requests in flight and what it shows; the
service is reduced to the list of edits it has. Answers arrive in any order, late
or never, and another writer changes the canvas. `DraftIsKept`: every edit is in
the queue, in flight, saved, or reported as lost; none is saved twice and "saved"
is shown only when it is. `EditsAreSettled` is liveness.

### RunConsole

A build reads each source twice, while other tools edit; a hash is a content.
`ServedIsTrue`: a snapshot that says it is current shows a specification, a report,
an artifact and a baseline that the run had at one moment of the build; between
requests it lists every pair exported since; and the pairs on disk are whole, but
for a write under way and what a stop or the disk did not let be undone.
`OnlyReviewedIsWritten`: a file gets an export name only if this process showed
that candidate and the served snapshot still projects to it.

### Evidence, Handoff, OwnerFacts

A version of the page stands for its bytes. A capture writes screenshot and
sidecar at different moments and may fail between; a binding records the hash of
the artifact. `Handoff` builds a delivery from its first read of the gates to the
page, in the order of `handoff.py`, while evidence, report and preview go on
changing. The files are truncated and written in place, so a stop or a refused write
may leave one torn (`Tears`); which of them are is kept beside what they hold. `OwnerFacts` publishes a projection from manifest and ledger, binds
confirmations to hashes, and lets candidates flow back by a nested request.
`Delivery` composes them: the tools of the run and the workbench take their steps
in any order and share the artifacts of the run only, which is how each comes to
read what another is about to replace. Its specification is the one the theorems
are about; the run restricts it to mixtures of operations.

### Contract, DesignBaseline, RunReview

`Contract` has fields with values, the log of decisions, the bound snapshot and
G7; `DesignBaseline` the documents, hashes and states of `design_baseline.py`,
whose commands may stop between any two files and fail when a file they have listed or
read is gone at the next look; `RunReview` the point-back, the
gates of the complete profile, the status and the continuation as operators over
the same artifacts, and the repairs. `StatusAgrees` says the three readers agree,
and that what is accepted stays within the tier. `RunNext` composes the three for
any number of steps; the run takes the steps of `RunNext` with small inputs, in seven
mixtures.

### Backup, Upgrade, Registry, Routes, Service

`Backup`: an archive is sealed in steps beside a service that writes. What holds of
its name depends on the requests: a destination no request may overwrite (`Kept`)
never names an unfinished file, one that may be overwritten can (`SealedIsWhole`, the
run `backup`). `Upgrade`:
`_migrate` and `_backup_before_migration`, a step per file operation and per
migration, with starts of several releases. `Registry`: probe and confirmation
read the disk, the transaction looks for a conflict again; resolution matches,
reads and probes one after another. Paths are canonical and have a normalized form
(`Normalized`: lower case, slashes, none at the end): where the folder a command names
is there, its path and its identity decide, and where it is not, only the normalized
forms are compared, so several projects may match and any of them may come first. The second half of
`FoldersAreTheirs` (`TargetIsTheNamedFolder`) speaks of both. `Routes` gives every route with its methods
and the order of its checks as operators; `Service` the starts, stops, sessions
and clients around them: two starts on ports that may be the same, a record file
that either removes, requests whose threads outlive the listener. `OnlyItsOwn`
says that ports, record, bootstrap and capabilities are each one start's own, and
that what is admitted was meant for this start, this page or this work request.

## What the runs check

| Run | Asks | States |
| --- | --- | --- |
| `apply_sequential` | one thread, two overlapping proposals, two edits, a refused write, a stop | 0.3 million |
| `apply_concurrent` | two threads, an edit, a refused write; every request returns | 0.8 million |
| `gate` | two threads, three operation ids, a document and the project row | 0.8 million |
| `work` | two agent threads, six operations, two boots | 1.1 million |
| `preview` | two processes, two rounds, three calls, a suspension; versions and forks; one review with two submissions of six forms | 4.2 million |
| `canvas` | two canvases, two clients, every kind of command, one selection and one request | 0.1 million |
| `console` | one source beside the fixed ones, two edits, a refused write, a stop | 4.7 million |
| `window` | two edits and one of another writer, two canvases, four requests | 2.0 million |
| `delivery` | one artifact, one criterion, two rounds, six mixtures of operations; a library of four assets, two token documents and two projects, five writes | 2.8 million |
| `review` | two fields, two findings, seven mixtures of operations | 1.5 million |
| `service` | a backup, an upgrade, a registry of two projects and three paths, two starts with two clients, every route of one start | 1.8 million |
| `backup` | two threads and three requests that may overwrite one archive: an unfinished file under its name | violated |

### Bounds, and why they are enough

In `apply_*`, two files are needed to be half-written; one exists and one does
not, so that a create, an update and a delete each occur, and a revert turns them
around. One refused write, one stop and one or two edits each break a sequence at
every place; three or four operation ids create, apply and recover one proposal
next to another. The gate's three operations allow two writes and a retry of
either. Two boots and six operations in `work` let a claim, a restart, a retry and
a second claim follow one another; one request suffices, as no write of a request
reads another (but for the limit on open requests, left out).

`preview` starts in one of three scopes: transactions (three calls let a second
process take a lock over and a third repair what it left), versions (a writer
beside decisions) and review (two submissions show every race of two threads, one
move of the source makes an observation stale). `canvas` has batches that pass
through invalid documents, an undo limit of two so that the list is trimmed, and
watches one canvas once a snapshot is taken of it or a selection built (`Watched` with
its bounds). `console` allows two edits of the
run; that a current snapshot is one state was also tried with four, which is how
the file that comes and goes (below) was found.

`delivery` and `review` share the operations of their parts out by allowances
(`left`): each mixture allows the interleaving one property is about, because all
of them together are out of TLC's reach. One more scope of `delivery` is the library,
which starts with a shelf of two drafts, so that five writes publish, import, archive
and delete, and has two token documents: one whose tokens settle through a reference
and one whose tokens name each other; a request that has read is not kept once its write
would be the last one (`MayFinish`). `review` starts one of its mixtures from a baseline
that was accepted already (`Accepted`, what `prepare` and `confirm` leave), so that its
nine steps reach a promotion that is bound and verified on top of an acceptance. It assumes that an agent repairs
on a report written since its last repair (`fresh`). `service` starts in one of
five scopes, one for each module; the archives have a destination that may be overwritten
and one that may not, and the upgrade releases up to `Latest`; the registry has three
paths, two of them spelled alike (`app`, `App`), because both can then be registered
and one of them moved to the third; `routes` asks every route with every method,
origin, project and request of one running start, `starts` lets two starts and
two clients interleave, from nothing and from a service at work; the first start has
the first pair of ports, since another one would differ in the numbers only (`FirstPorts`).

Names without a meaning of their own are reduced by symmetry, never where a run
checks liveness. Deadlock is only ignored where bounded ids, calls or allowances
run out; in `gate` it is checked, since there a client can always ask again.

### Fairness

Two runs assume any. `apply_concurrent`: weak fairness of `Serve(t)` for each
thread. The service runs each request on a thread of the operating system, which
is scheduled when it can run; a thread that waits for the project lock can run
when the lock is free. Weak fairness does not promise that a waiting thread gets
a lock that others keep taking; with a bounded number of operation ids they
cannot keep taking it, and `RequestsReturn` says no more than that. `window`: a
timer that is set fires (`Pause`), and in each slot of the browser a request that was
sent is served or its answer handled (`Serve`, `Receive`); a timeout may happen
instead but is not relied on, and the maintainer need not do anything.
Nothing is assumed of the clock, the agent or faults.

## Where code and text differ

Met while modelling; the properties are stated so that they say what the code
does keep.

- Proposals: the unfinished journal is looked for before the project lock
  (proposals.py:688), so two proposals can be half-written; `recover` decides on
  a journal it read before it waited (805); a half-written proposal can be
  rejected and finished later (977). `apply_sequential` therefore serves requests
  one after another.
- Work requests: an expired lease is recorded by two transactions that look at
  nothing (work.py:719), so a request that was closed meanwhile is revived;
  `FinalUnlessInterrupted` names that one step: a request that is cancelled between
  the two reads "interrupted" again, and its first attempt may still report, although
  the docstring of `cancel` says "Ask for a stop: new write-backs are refused from
  here on." (work.py:497). A selection rebuilt after the consent may be sent
  (work.py:325 against 251–270).
- Gate: the retry of a grant, rename or rebinding is refused once the project is
  gone (service.py:285), because `require_project` runs before the ledger.
- Preview: a suspended holder and its successor may both decide (locking.py:343);
  properties that assume `Punctual` hold until somebody is suspended. In a
  review, a refused POST looks at the lock flag outside the lock, a submission
  that failed after the token was proven may end the wait before the winner's
  result is stored, and a timeout between the two overwrites an accepted result:
  the call then returns the default, never somebody else's decision.
- Registry: where the folder a command names does not exist, the lower-cased,
  slash-normalized paths are compared (resolver.py:61), so on a disk that tells
  `/work/App` from `/work/app` a command that names the former after it was moved may be
  answered with the connected project of the latter, although "a folder
  that was moved still resolves to *its* project (which then reports disconnected) instead
  of matching a same-named folder somewhere else" (resolver.py:38).
  `FoldersAreTheirs` keeps what is left: a folder that is there is answered with
  its own project, one that is not with a project whose path is spelled like it.
  A project may be rebound between the match and the target of a
  resolution, which then answers the new folder (resolver.py:60, 100). A removal
  that read the current project before it was opened leaves the setting naming a
  removed project until the next overview.
- Service: `stop()` removes the record whoever wrote it and a start that fails
  leaves its own; a slash command without a request then resolves offline although
  a service runs. A bootstrap whose answer is lost leaves the page without a
  token. No task registry is attached, so `request=` is always answered with
  owner-unavailable (http_server.py:1962 against the docstring of `resolve`).
- Store: two starts at the same time could each copy an old database and the
  later replace the earlier image ("written once and never overwritten",
  store.py:620); `Upgrade` opens one at a time.
- Backup: three concurrent requests that may overwrite can expose an unfinished
  archive (run `backup`; backup.py:5 says "the archive is finalized atomically (a
  failed run leaves no “done” file)"; `create` removes its staging name at
  backup.py:134 after it was moved, when the name may be another request's); a crash between the rename and
  the record makes the retry seal a second archive or conflict; a crash while
  writing leaves a `.partial` that refuses the destination.
- Canvas: `canUndo` can be true while undo is refused for good (an invalid
  document inside a batch, a component deleted for good); the order of lists is
  not restored. Page: a failed save drops its commands if edits were queued
  meanwhile (app.js:2573); a load during a save whose answer is lost, then a
  retry, applies an edit twice.
- Library: the closure of a publication refuses a diamond as a cycle
  (publication.py:203); publishing a component, a page or a token set validates and
  records the document of its latest revision but freezes the draft
  (components.py:1133, designsystem.py:595), so the second publication freezes a
  draft that this publication has not validated (its last edit has, unless it came
  from `refresh_draft`); the plain publish and `refresh_draft` freeze a token
  document with a cycle, or a candidate nobody completed, although
  "one parser and one validator serve editing, rendering, and publication"
  (designsystem.py:3). `TokensSettle` therefore excepts what a project file holds;
  an imported
  closure may hold an edge whose asset is not its revision's (reuse.py:475).
- Run console: verdict and criteria are bound to the report only, although they
  are computed with the specification's criteria (snapshot_builder.py:763); a
  write whose rebuild fails answers an error with the pair on disk. A file that is
  missing in both passes but was there when both listed the paths is not noticed:
  the snapshot says "current", lists the baseline and calls it missing, although
  "a source that changed during the build makes its dependent assertions stale"
  (snapshot_builder.py:10). It takes four edits in one build; it was found when the
  stronger invariant could not be proved.
- Evidence and handoff: a prototype that no longer matches its confirmation is
  still called confirmed by the page (handoff.py:104; only G5 stops the verdict);
  gates, confirmation and report are read at different moments; a stop between the
  files of a delivery leaves a mixture. Owner evidence rows have no hash, so
  confirming one is always refused.
- Contract, gates, baseline: `bind_first` can write a snapshot it then calls
  conflicting (contract_v1.py:506); G7 does not look at the snapshot's `ok`, so a
  run bound with open fields passes; an upgrade followed by the user's downgrade
  is never accepted; accepting writes after it hashed, so a concurrent edit is
  bound as accepted; a stop in promote can leave a state whose previous document
  is older than its backup; rounds that are not annotated do not count. A promote
  that stopped between the document and the state has written its component but not
  recorded it; `promote` does not verify first, so the next promotion binds both,
  and the drift of the first one's source is never looked at, although the record is
  there "so verify() can later detect drift of a promoted component"
  (design_baseline.py:1033). It takes two components and eighteen steps, and was
  found when `AcceptedIsShown`, then without `unrecorded`, could not be proved.

## What is proved

`Review_proofs` holds two parts that share no state, both about what is reviewed before
it counts. Of `Spec`, the application of source proposals, for any sets of paths,
contents, proposals, threads and operations, and any bounds. Assumed of the constants: `Absent` is not a content
and `NoThread` not a thread, the changes of a proposal are a non-empty list that
names no path twice (as `_parse_changes` enforces), the files have hashes, the
bounds are natural numbers.

- `TypeCorrect`: `Spec => []TypeOK`.
- `InvariantHolds`: `Spec => []IInv`. The three properties below speak of single
  steps and are not inductive alone. `IInv` adds: whoever is in a critical
  section holds the lock (`LockInv`); a request or a journal is about a proposal
  that exists, so its reviewed steps no longer change (`RowInv`); no two steps
  of a plan share a path or a position (`StepsInv`); and, while a thread works,
  its finished steps show their result and the others their base (or the reverse
  while it restores) unless another tool has touched the file since the lock was
  taken (`ProgressInv`). The last is the reason for
  the history variable `touched`.
- `EditsAreSafe`, `AppliedIsComplete`, `RolledBackIsComplete`: the action
  properties `NeverOverwritesEdit`, `CommitMeansResult`, `RollbackMeansBase`.
- `RecoveryIsOffered`, `JournalIsWrittenAhead`, `LifecycleIsKept`: what holds with one
  request thread (`Alone`, the hypothesis of the three; any number of files,
  proposals, operations, edits and stops). `SerialInv` adds that there is one
  half-written proposal at most, that what a request was checked against is still so
  while it waits, and that, without edits by others, the backups are what they were
  taken of (`Whole`). With two threads the first of these is false, see above.
  `LifecycleIsKept` is the refinement of `ProposalLifecycle`, step by step.

`MutationGate_proofs`, for any number of threads, rows, payloads and operation
ids. Assumed: the names are distinct and clients send payloads that exist.

- `InvariantHolds`. `IInv` ties the ledger to the writes one to one
  (`LedgerInv`), bounds every write's counter by its row's (`CounterInv`), says
  that a request past the check has seen the grant (`GrantInv`), and that the
  counter `remove_project` read is between the one its client expects and the one
  of the row (`BeforeInv`): if the transaction then finds the expected counter,
  the three are the same, which is why the counter computed outside is right.
- `TypeCorrect`, `UpdatesAreKept`, `CountersAreReported`, `GrantIsRespected`,
  `RemovalRevokes`, `AnswersAreOwn` from it; `RetriesAreAnswered` from an
  invariant on the history variable `retries` on top of it.
- `TakesEffectOnce`: `Spec => AtMostOnce`, the refinement of `ExactlyOnce`.

`WorkRequest_proofs`, for any number of requests, threads, operations and boots.
Assumed: the bounds are natural numbers.

- `InvariantHolds`, `CredentialsAreSound`, `ReportsStayCurrent`. The capability is
  checked before the transaction and the counter inside of it, so `IInv` has to say
  what the counter carries: no message expects a counter still to come
  (`CounterInv`), and one that expects the present counter was permitted in the
  state the request is still in (`AuthorityInv`), because whatever takes the
  authority away counts up. `CapabilityInv` says that the capability a waiting
  request offers stands for no attempt yet, `RetryInv` that a retry still has its
  record.

`PreviewRound_proofs`, of `RoundSpec`, for any number of processes, rounds, calls,
suspensions, versions, submissions and moves of the source; the run keeps
transactions, versions and the review apart, `RoundSpec` does not. Assumed: the bounds
are numbers, `None` and `NoPost` are none of the values they stand beside.

- `HistoriesAgree` (`HistoryAgrees`), `HistoriesAreKept` (`HistoryIsKept`).
  `HistoryInv`: a number is given to one call, and an entry has the number of the call
  that decided it (`NumbersInv`, `DecisionsInv`), so the id a call repairs by is that
  of one decision; whoever reads or renders `log.md` holds the projection lock
  (`FenceInv`), which is why what it renders shows what the file shows (`LogInv`). The
  rest holds while nobody is suspended: a lock is stale only after its owner
  (`LockInv`), so one call at a time is between the lock and the release of a round,
  and `CourseInv` says how far it has brought the records.
- `OnlyTheUserDecides` (`DecisionIsTheUsers`). `TokenInv` follows the one submission
  that spent the token to the slot and to the end of the wait: whatever else is posted
  finds the token spent. `RoundInv` adds that the reviewed call commits what the slot
  then says.

`Workbench_proofs`, for any number of threads, destinations, requests, blobs, releases
and starts, of projects, folders, ports, clients and calls. Assumed: requests name
places and directories that exist, `None` is none of the values, releases know versions
up to `Latest`; `Sampled`, the calls a client makes, are calls there are, none of them
exchanges the bootstrap, and those that mint a capability name a task; the bounds of
the page are numbers, and neither the edits of others nor `None` is a number.

- `ArchivesAreKept` (`ArchivesHold`). `BackupInv`: a job's file is whole from the
  moment it is written and no other job makes it (`MakingOK`, `OwnFiles`); where
  nobody may overwrite, the job that writes holds the staging name (`HoldsName`),
  which is what lets the destination name only whole files.
- `UpgradesAreSafe` (`UpgradeIsSafe`). `UpgradeInv`: a start that makes a backup has
  not changed the schema it found (`CopyInv`), and a schema that was upgraded has
  its backup before a migration is added (`BackedUp`).
- `FoldersStayTheirs` (`FoldersAreTheirs`), for any normalization of paths.
  `RegistryInv`: no two projects share a folder, and a request carries a candidate that
  was shown, or the binding by which its target was found: one with the path or the
  folder it saw, or, if it saw none, with the normalized path. What a case variant is
  answered with is part of the statement, so it does not promise that a moved
  folder finds its own project.
- `ServiceKeepsToItsOwn` (`OnlyItsOwn`). `ServiceInv`: a start has ports from its
  first step on, a bootstrap is exchanged once, and a call on its way carries a
  credential of a start whose token its page holds.
- `PageKeepsDrafts` (`DraftIsKept`), for any number of edits, canvases, other
  writers, requests under way and time-outs. `PageInv` holds whatever the page does:
  answers are of versions the service has, one read at most owns the panel, and a
  panel that shows a canvas is not emptied by a list older than it (`HasCanvas`).
  While the window is patient it adds that a write is waited for alone (`Alone`), that
  the document is the loaded version with the edits on their way and the queued ones
  (`DraftOK`), and that a batch appended to the version it expects repeats no edit
  (`FlightOK`): so one that was given up, served all the same and sent again can only
  end in a conflict.

`Delivery_proofs`, of `DeliverySpec`, for any number of artifacts, criteria, rounds,
viewports, deliveries and backflow requests. Assumed: rounds are a finite set of
positive numbers, there is a viewport, evaluators leave reports of the type
`Report`, `None` is none of the values.

- `EvidencePairs`. `EvidenceInv`: versions only grow, a sidecar is never ahead of its
  screenshot, and a capture that succeeded and is not being repeated has its probe.
- `PassesAreEarned`, `DeliveriesAreWhole`. `HandoffInv`: the order of a build
  (`OrderInv`); a build that is not blocked has captured what is no longer to do
  (`MatrixInv`); what is there is not newer than the build that replaces it, file by
  file (`FilesInv`); and what an undisturbed build has found is still so
  (`StillInv`).
- `VerifiedIsJudged`, `BackflowIsOnce`. `FactsInv`: a hash that was read or published
  is one of the manifest (`StatedInv`), and a delivery under way works on the one
  candidate of its request (`FlowInv`).

The second half of `Delivery_proofs` is about the canvas, which shares no state with
the first: of `SpecAll`, for any documents, batches of commands, components, windows,
canvases, selections and requests, any undo limit and any bounds. Assumed
(`CanvasAssumption`): ids are numbers; a batch is a sequence of commands between one and
the limit, and a duplicate names one node; the document a client creates is sound;
`None` is none of the values.

- `UndosAreExact` (`UndoIsExact`; `CanvasUndoIsExact` the same of `Spec`): the rows
  implement `UndoStack`. The argument has four layers. Of two sound documents, the
  patch between them applied to the first is the second (`PatchExact`): ids name one
  thing and no child is missing (`Sound`), and that every command keeps, valid or not
  (`AfterSound`, `StagesSound`), is why a batch may pass through invalid documents. A
  history is a path between documents, each edit leading from one to the next and back
  (`Path`); recording, undo and redo make a path of a path (`RecordedPath`, `UndoPath`,
  `RedoPath`). The documents that `Behind` and `Ahead` compute by recursion are those of
  the path (`BehindIs`, `AheadIs`). And what each write does to them is what a step of
  the stack does (`RowBatched`, `RowUndone`, `RowRedone`, `RowRenamed`, `StackStep`).
- `ConsentsAreInformed` (`ConsentIsInformed`). `CanvasInv`: every row is a path
  (`RowOk`), no node is of a component that is gone, a window is older than its row or
  shows it. Every write moves the counter on, so a snapshot with the counter of the row
  is its render (`SnapshotsOk`); a confirmed selection has what was confirmed, and a
  request a selection that was built (`ContextInv`).

The recursion over commands, histories and patches is by functions on numbers; its
inductions go through a set of numbers (`SetInduction`, from the library's least
elements of a well-founded relation), since the induction theorems that take an operator
cannot be used.

`RunConsole_proofs`, for any number of edits, faults, stops, ticks, reviews and
participants. Assumed: the bounds are natural numbers, `None` is not a document.

- `ServesTheTruth` (`ServedIsTrue`). A source read twice alike was there in between
  only because no content comes back: `MidInv` says that some run seen during the
  build has, of every source, what the first pass read unless that content is gone
  and will not be read again. `WriteInv` gives the files of a write by the step it is
  at, `ExportsInv` ties the served document to what is on disk.
- `WritesTheReviewed` (`OnlyReviewedIsWritten`), from the same invariant: while a
  write is under way, the document it was bound to is the one that is served.

The other part of `Review_proofs`: of `RunSpec`, for any number of fields, decisions, components,
findings, criteria and steps of the three parts in any order. Assumed: the bounds are
numbers, `None`, `Nothing` and `Torn` are none of the values they stand beside. The
parts read each other's variables and write only their own, so the invariant is the
conjunction of theirs.

- `RepairsStop` (`TwoRounds`). `ReviewInv`: the rounds of a report written since the
  last repair are at least the repairs survived, and what was accepted passed the
  gate of the rounds; so an accepted report that asks for a repair names no finding
  that survived two.
- `ReadersAgree` (`StatusAgrees`). `ContractInv`: no contract, and none an agent holds,
  claims a decision, so a field that is decided now is decided by the log. The rest
  follows from what the gates say of one report; the tier by the order of the tiers
  (`ExceedsLower`, `CoveringExceeds`).
- `BaselineStaysAsShown` (`BaselineIsKept`). `BaselineInv` follows a command from what
  it read to what it binds: what it read is what it replaces (`MergingIs`), an
  acceptance has grown from the draft that was shown by components that are recorded
  or that a stop left unrecorded (`ShownIs`), and the backup is what is replaced
  (`KeptIs`); all of it as long as nobody edits the files meanwhile.

`Library_proofs`, of `Library`'s `Spec`, for any number of assets, revisions, projects,
instances, clients, tokens and writes. Assumed: asset ids are a finite set of numbers and
pages and components are sets of them, an asset may have a revision; tokens are finitely
many, none of them is called like a value, and texts give values to tokens; the drafts
there are at the beginning are of their kind, and their token documents settle or are
those of a project file.

- `ReferencesAlwaysHold` (`ReferencesHold`). `LibraryInv` has a part for each table. An
  asset holds a draft of its kind, and its lifecycle says draft only without a revision
  and published only with one (`AssetInv`); the revisions that are stored are those that
  the assets there are have numbered, and froze drafts of their kind (`RowInv`). An edge
  leads between revisions that are or were stored, of one project (`EdgeInv`: an import
  may give it the asset of another revision, which is why only an edge that names the
  asset of its revision need not dangle). A copy declares dependencies and has no edges:
  what keeps those from being deleted is an edge of an asset it descends from, through
  parents that cannot be deleted while their lineage is there (`AnchorInv`). What a
  request has read and not yet written is a draft of its kind, a list of
  revisions, or a target that is right while the counter has not moved (`AskedInv`). And there is
  a rank that falls along every edge (`RankInv`), which a publish and an import extend to
  their new revisions (`EdgesGrow`) and a deletion keeps (`EdgesShrink`).
- The rank is what makes `Walk` the function its recursion says (`WalkIs`) and bounds it:
  a family of sets that is closed along the dependencies contains the walk
  (`WalkWithin`). Before a publish the family is the walks there are; the new revision
  adds what `WouldCycle` looks at, so its refusal is what `LoopInv` needs. After an
  import it is the earlier revisions of the copied closure. In the same way
  `SoundSettles` shows that what `Settles` accepts by following references with a trail
  is in the fixed point `Settled` asks for.

Only model-checked: liveness under fairness (`RequestsReturn`, `EditsAreSettled`) and
`ENABLED`, which are out of the prover's reach. No module has a RECURSIVE operator.

## What is not modelled

Parsing, rendering, HTML and the form of request bodies; the registries,
preferences and adapters, which generate text from files one process edits; the
release tooling. SQLite is trusted to run one write transaction at a time, and
`os.replace`, exclusive creation and advisory locks to be atomic. In
`PreviewDecision` the heartbeat's read and replacement of the lock file, and the
release's read and unlink, are single steps. Each module's comment names the data
it leaves out.
