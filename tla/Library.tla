------------------------------ MODULE Library ------------------------------
(***************************************************************************)
(* The asset library: drafts, published revisions and their dependencies,  *)
(* instances, copies, imports between projects, the asset lifecycle and    *)
(* permanent deletion (assets.py, components.py, designsystem.py,          *)
(* publication.py, reuse.py, lifecycle.py and the asset tables of          *)
(* store.py).                                                              *)
(*                                                                         *)
(* A page or a component is the set of assets it names, None while it is a *)
(* candidate that nobody completed; a token set is a text, which gives     *)
(* each token a value or the name of another token; a file names nothing.  *)
(* Every request is one transaction of the mutation gate (MutationGate),   *)
(* which holds the write lock. Four of them read the tables before it      *)
(* opens, which is a step of its own here: the target of an unarchive, the *)
(* validation of a page and of a candidate, the closure of an import.      *)
(* Blobs, capabilities, parameters, themes and names are left out, and so  *)
(* are the canvases a deletion scans (Canvas).                             *)
(***************************************************************************)
EXTENDS Nothing, Integers, FiniteSets, SequencesExt

CONSTANTS
  Assets,        \* asset ids; a new row takes the least unused one
  Projects, Instances, Clients,
  Shelf,         \* the drafts there are at the beginning: id -> row
  Contents,      \* the pages and components that are written: sets of assets
  Tokens,        \* names of tokens
  Category,      \* the category each of them is filed under
  Texts,         \* the token documents there are
  Says,          \* what a text gives its tokens
  Filed,         \* the texts that project files hold
  MaxRevisions,  \* bound: revisions of an asset
  MaxWrites      \* bound: writes

ASSUME LibraryAssumption ==
  /\ Assets \subseteq Nat /\ IsFiniteSet(Assets)
  /\ MaxRevisions \in Nat \ {0} /\ MaxWrites \in Nat
  /\ Contents \subseteq SUBSET Assets
  /\ IsFiniteSet(Tokens) /\ Tokens \cap {"fits", "wrong"} = {} /\ DOMAIN Category = Tokens
  /\ Filed \subseteq Texts /\ DOMAIN Says = Texts
  /\ \A x \in Texts : \E S \in SUBSET Tokens : Says[x] \in [S -> {"fits", "wrong"} \cup Tokens]

VARIABLES
  asset,      \* rows of assets with their draft; None before they exist
  revision,   \* rows of revisions: the draft they froze, what they declare
  edges,      \* rows of asset_dependencies
  instance,   \* rows of instances
  lineage,    \* rows of asset_lineage: <<child, parent>>
  asked,      \* what a client's request has read and not yet written
  writes

rows == <<asset, revision, edges, instance, lineage>>
vars == <<rows, asked, writes>>

\* A token holds a value of its category, one that is not, or another token.
Values == {"fits", "wrong"} \cup Tokens

Kinds      == {"page", "component", "tokens", "file"}
Lifecycles == {"draft", "published", "archived", "trashed", "deleted"}

\* A layout is what it places, a definition what it depends on, and None while
\* it is a candidate that is not complete.
Layouts     == SUBSET Assets
Definitions == (SUBSET Assets) \cup {None}

Complete(parts) == parts # None

\* The n-th revision of asset a, and a dependency on a revision.
Revs == Assets \X (1..MaxRevisions)
Deps == [asset : Assets, to : Revs]

-----------------------------------------------------------------------------
(* Reading the tables. *)

Exists(a)    == asset[a] # None /\ asset[a].lifecycle # "deleted"
Owned(p, a)  == Exists(a) /\ asset[a].project = p
Published(a) == asset[a].number > 0
Current(a)    == <<a, asset[a].number>>
Stored(r)    == \E row \in revision : row.id = r
RowOf(r)       == CHOOSE row \in revision : row.id = r

\* Numbers, the least first.
Ascending(S) == [i \in 1..Cardinality(S) |-> CHOOSE x \in S : Cardinality({y \in S : y < x}) = i - 1]

Unused == Ascending({a \in Assets : asset[a] = None})

EdgesIn(E, r) == {e \in E : e.from = r}
EdgesOf(r)    == EdgesIn(edges, r)

\* By the assets they name, which are different ones.
DependenciesIn(E, r) ==
  LET named == Ascending({e.asset : e \in EdgesIn(E, r)})
  IN [i \in DOMAIN named |-> CHOOSE e \in EdgesIn(E, r) : e.asset = named[i]]

\* Everything below each revision, deepest first, as often as it is reached.
Below(walk, deps) == FlattenSeq([i \in DOMAIN deps |-> Append(walk[deps[i].to], deps[i].to)])

WalkOf(E) == LET walk[r \in Revs] == Below(walk, DependenciesIn(E, r)) IN walk

Walk == WalkOf(edges)

\* The closure of a revision is refused when something below it is missing,
\* belongs to another project, or is reached twice.
Resolves(p, r) ==
  /\ Stored(r)
  /\ \A d \in ToSet(Walk[r]) : Stored(d) /\ Owned(p, d[1])
  /\ IsInjective(Walk[r])

\* Faulty variant: only the declared revisions are looked at.
WouldCycleDirect(a, deps) == \E d \in deps : d.asset = a

\* A revision of a with these dependencies closes a loop back to its asset.
WouldCycle(a, deps) ==
  \E d \in deps : \E r \in {d.to} \cup ToSet(Walk[d.to]) : r[1] = a

-----------------------------------------------------------------------------
(* Writing the tables. *)

Draft(p, kind, parts) ==
  [project |-> p, kind |-> kind, lifecycle |-> "draft", counter |-> 0, number |-> 0, draft |-> parts]

\* insert_revision: the first revision publishes a draft.
Numbered(row) ==
  [row EXCEPT !.number = @ + 1, !.counter = @ + 1,
              !.lifecycle = IF @ = "draft" THEN "published" ELSE @]

Frozen(r, via, parts, deps) == [id |-> r, via |-> via, parts |-> parts, deps |-> deps]

EdgesFrom(r, deps) == {[from |-> r, asset |-> d.asset, to |-> d.to] : d \in deps}

Moved(a, state) == [asset EXCEPT ![a].lifecycle = state, ![a].counter = @ + 1]

Writes == writes < MaxWrites /\ writes' = writes + 1

DraftsOf(kind) ==
  CASE kind = "tokens" -> Texts [] kind = "component" -> Definitions
    [] kind = "page" -> Layouts [] kind = "file" -> {{}}

AssetRow ==
  [project : Projects, kind : Kinds, lifecycle : Lifecycles,
   counter : Nat, number : 0..MaxRevisions, draft : Definitions \cup Texts]

\* A text settles: the least set that holds each token with a value that fits
\* and each token that names one of the set and of its category, holds them all.
Settled(x) ==
  LET says == Says[x]
      Reached(S) ==
        {t \in DOMAIN says : says[t] = "fits" \/ (says[t] \in S /\ Category[says[t]] = Category[t])}
  IN \A S \in SUBSET DOMAIN says : Reached(S) \subseteq S => S = DOMAIN says

Fit(x) == Settled(x) \/ x \in Filed

ASSUME ShelfAssumption ==
  /\ None \notin AssetRow /\ DOMAIN Shelf \subseteq Assets
  /\ \A a \in DOMAIN Shelf : \E p \in Projects, k \in Kinds : \E x \in DraftsOf(k) :
       Shelf[a] = Draft(p, k, x) /\ (k = "tokens" => Fit(x))

Init ==
  /\ asset = [a \in Assets |-> IF a \in DOMAIN Shelf THEN Shelf[a] ELSE None]
  /\ revision = {} /\ edges = {} /\ lineage = {}
  /\ instance = [i \in Instances |-> None]
  /\ asked = [c \in Clients |-> None]
  /\ writes = 0

-----------------------------------------------------------------------------
(* Token sets. *)

\* A value of category k follows its references to a value that fits: none is
\* missing, of another category, or met a second time.
Settles(x, k) ==
  LET tokens == DOMAIN Says[x]
      settles[trail \in SUBSET Tokens] ==
        [v \in Values |->
           IF v \in Tokens
           THEN v \notin trail /\ v \in tokens /\ Category[v] = k /\ settles[trail \cup {v}][Says[x][v]]
           ELSE v = "fits"]
  IN settles[{}]

\* Faulty variant: the references are not followed.
SoundOneByOne(x) ==
  \A t \in DOMAIN Says[x] : Says[x][t] \in {"fits"} \cup DOMAIN Says[x]

Sound(x) == \A t \in DOMAIN Says[x] : Settles(x, Category[t])[Says[x][t]]

-----------------------------------------------------------------------------
(* Requests that read before their transaction. *)

\* What is read is kept in memory until the transaction opens.
Asks(c, request) ==
  /\ asked[c] = None /\ asked' = [asked EXCEPT ![c] = request]
  /\ UNCHANGED <<rows, writes>>

Done(c) == asked' = [asked EXCEPT ![c] = None]

Asked(c, do) == asked[c] # None /\ asked[c].do = do

\* The transaction is refused or rolled back, or the process has stopped.
Abandon(c) == asked[c] # None /\ Done(c) /\ UNCHANGED <<rows, writes>>

-----------------------------------------------------------------------------
(* Drafts. *)

\* What a page may place: published components of its project.
Placeable(p, parts) ==
  \A k \in parts : Owned(p, k) /\ asset[k].kind = "component" /\ Published(k)

Inserted(row) ==
  /\ Writes
  /\ Unused # <<>> /\ asset' = [asset EXCEPT ![Head(Unused)] = row]
  /\ UNCHANGED <<revision, edges, instance, lineage>>

\* A component may name anything.
CreateComponent(p, parts) ==
  Complete(parts) /\ Inserted(Draft(p, "component", parts)) /\ UNCHANGED asked

\* A page is validated against the components, before the transaction.
CreatePage(c, p, parts) ==
  Placeable(p, parts) /\ Asks(c, [do |-> "create", row |-> Draft(p, "page", parts)])

FinishCreate(c) == Asked(c, "create") /\ Inserted(asked[c].row) /\ Done(c)

\* A selection of the project's files; a JSON file of tokens is not validated.
Readable(x) == x \in Filed

ImportFile(p)      == Inserted(Draft(p, "file", {})) /\ UNCHANGED asked
ImportTokens(p, x) == Readable(x) /\ Inserted(Draft(p, "tokens", x)) /\ UNCHANGED asked

Edited(a, parts) ==
  /\ Writes
  /\ asset' = [asset EXCEPT ![a].draft = parts, ![a].counter = @ + 1]
  /\ UNCHANGED <<revision, edges, instance, lineage, asked>>

UpdateDefinition(a, parts) ==
  /\ Exists(a) /\ asset[a].kind = "component" /\ Complete(parts)
  /\ Edited(a, parts)

UpdateLayout(a, parts) ==
  /\ Exists(a) /\ asset[a].kind = "page" /\ Placeable(asset[a].project, parts)
  /\ Edited(a, parts)

UpdateTokens(a, x) == Exists(a) /\ asset[a].kind = "tokens" /\ Sound(x) /\ Edited(a, x)

\* Enabling the preview of a file.
EnablePreview(a) == Exists(a) /\ asset[a].kind = "file" /\ Edited(a, asset[a].draft)

\* Reading the sources again, which an asset has that was not imported from
\* another project.
Sourced(a) == Exists(a) /\ \A row \in revision : row.id[1] = a => row.via \notin {"import", "dependency"}

RefreshFile(a)      == Sourced(a) /\ asset[a].kind = "file" /\ Edited(a, {})
RefreshTokens(a, x) == Sourced(a) /\ asset[a].kind = "tokens" /\ Readable(x) /\ Edited(a, x)

-----------------------------------------------------------------------------
(* Publication. *)

\* Freezes the draft as the next revision, with the dependencies a client
\* declared or the entry point of the document prepared.
Publish(a, via, deps) ==
  /\ Writes
  /\ asset[a].number < MaxRevisions
  /\ \A d \in deps : Owned(asset[a].project, d.asset) /\ Resolves(asset[a].project, d.to)
  /\ \A d, e \in deps : d # e => d.asset # e.asset
  /\ ~WouldCycle(a, deps)
  /\ LET r == <<a, asset[a].number + 1>>
     IN /\ asset' = [asset EXCEPT ![a] = Numbered(@)]
        /\ revision' = revision \cup {Frozen(r, via, asset[a].draft, deps)}
        /\ edges' = edges \cup EdgesFrom(r, deps)
  /\ UNCHANGED <<instance, lineage, asked>>

Dependency(r) == [asset |-> r[1], to |-> r]

Newest(parts) == {Dependency(Current(k)) : k \in parts}

PublishDeclared(a, revs) ==
  /\ Exists(a)
  /\ Publish(a, "declared", {Dependency(r) : r \in revs})

\* What a publish is prepared from: the document of the latest revision, and
\* the draft only when there is none.
Prepared(a) == IF Published(a) THEN RowOf(Current(a)).parts ELSE asset[a].draft

\* The tokens and components a definition names are published in its project.
Dependable(a, parts) ==
  /\ a \notin parts
  /\ \A k \in parts : /\ Owned(asset[a].project, k) /\ Published(k)
                      /\ asset[k].kind \in {"tokens", "component"}

PublishComponent(a) ==
  /\ Exists(a) /\ asset[a].kind = "component"
  /\ Complete(Prepared(a)) /\ Dependable(a, Prepared(a))
  /\ Publish(a, "component", Newest(Prepared(a)))

PublishPage(a) ==
  /\ Exists(a) /\ asset[a].kind = "page" /\ Placeable(asset[a].project, Prepared(a))
  /\ Publish(a, "page", Newest(Prepared(a)))

PublishTokens(a) ==
  /\ Exists(a) /\ asset[a].kind = "tokens" /\ Sound(Prepared(a))
  /\ Publish(a, "tokens", {})

\* A block of a page becomes a component of its own, a draft until a
\* maintainer completes it; the page is read before the transaction.
DistillCandidate(c, a) ==
  /\ Exists(a) /\ asset[a].kind = "page" /\ Placeable(asset[a].project, Prepared(a))
  /\ Asks(c, [do |-> "create", row |-> Draft(asset[a].project, "component", None)])

-----------------------------------------------------------------------------
(* Copies, instances and imports. *)

\* A copy keeps the draft, the content and the declared dependencies of its
\* parent, but no rows of asset_dependencies.
Copy(a) ==
  /\ Writes
  /\ Exists(a) /\ Published(a) /\ Unused # <<>>
  /\ LET new == Head(Unused)
         parent == RowOf(Current(a))
     IN /\ asset' = [asset EXCEPT ![new] = Numbered(Draft(asset[a].project, asset[a].kind, asset[a].draft))]
        /\ revision' = revision \cup {Frozen(<<new, 1>>, "copy", parent.parts, parent.deps)}
        /\ lineage' = lineage \cup {<<new, a>>}
  /\ UNCHANGED <<edges, instance, asked>>

\* An asset an import was asked for; those that came along are no such ones.
Imported(a) == \E row \in revision : row.id[1] = a /\ row.via = "import"

\* A named revision must be the project's own or an imported asset's; the
\* latest one, which is also what a reference takes, is not compared.
CreateInstance(p, i, a, r) ==
  /\ Writes
  /\ instance[i] = None /\ Exists(a) /\ Published(a)
  /\ r = Current(a) \/ (Stored(r) /\ r[1] = a /\ (Owned(p, a) \/ Imported(a)))
  /\ instance' = [instance EXCEPT ![i] = [project |-> p, asset |-> a, rev |-> r]]
  /\ UNCHANGED <<asset, revision, edges, lineage, asked>>

\* The instances of every project a revision has no conflict with.
Upgradable(r) ==
  IF Stored(r) /\ \A e \in EdgesOf(r) : Stored(e.to)
  THEN {i \in Instances : instance[i] # None /\ instance[i].asset = r[1] /\ instance[i].rev # r}
  ELSE {}

\* The owner's upgrade moves the instances he chose.
Upgrade(S, r) ==
  /\ Writes
  /\ S # {} /\ S \subseteq Upgradable(r)
  /\ instance' = [i \in Instances |-> IF i \in S THEN [instance[i] EXCEPT !.rev = r] ELSE instance[i]]
  /\ UNCHANGED <<asset, revision, edges, lineage, asked>>

Rollback(p, S, r) ==
  /\ Writes
  /\ Stored(r)
  /\ S # {} /\ \A i \in S : instance[i] # None /\ instance[i].asset = r[1] /\ instance[i].project = p
  /\ instance' = [i \in Instances |-> IF i \in S THEN [instance[i] EXCEPT !.rev = r] ELSE instance[i]]
  /\ UNCHANGED <<asset, revision, edges, lineage, asked>>

\* The assets a closure and its root are imported as, one for each of all.
Local(all, i) == <<Unused[i], 1>>

\* Faulty variant: the dependencies keep naming the source's revisions.
SourceDeps(all, i) == {[asset |-> e.asset, to |-> e.to] : e \in EdgesOf(all[i])}

\* A local dependency: its asset is looked up by the asset of the source, where
\* a later revision of the closure has replaced an earlier one.
LocalDeps(all, i) ==
  {[asset |-> Unused[Max({j \in 1..i - 1 : all[j][1] = e.asset})],
    to    |-> Local(all, CHOOSE j \in 1..i - 1 : all[j] = e.to)] : e \in EdgesOf(all[i])}

\* The last is the one that was asked for, and the root of its closure.
Via(all, i) == IF i = Len(all) THEN "import" ELSE "dependency"

\* A revision of the closure as a revision of its own asset.
LocalRow(all, i) == Frozen(Local(all, i), Via(all, i), RowOf(all[i]).parts, LocalDeps(all, i))

\* What can be imported: a revision whose closure is one of its project.
Plannable(r) == Stored(r) /\ Exists(r[1]) /\ Resolves(asset[r[1]].project, r)

\* The closure is listed before the transaction and not looked up again.
RequestImport(c, p, r) ==
  Plannable(r) /\ Asks(c, [do |-> "import", project |-> p, all |-> Append(Walk[r], r)])

\* What was listed is still there, and each dependency is listed before.
Importable(all) ==
  \A i \in DOMAIN all :
    /\ Stored(all[i]) /\ Exists(all[i][1])
    /\ \A e \in EdgesOf(all[i]) :
         (\E j \in 1..i - 1 : all[j][1] = e.asset) /\ (\E j \in 1..i - 1 : all[j] = e.to)

Import(p, all) ==
  LET new == 1..Len(all)
      at(a) == CHOOSE i \in new : Unused[i] = a
      source(i) == asset[all[i][1]]
  IN /\ Writes
     /\ Importable(all)
     /\ Len(all) <= Len(Unused)
     /\ asset' = [a \in Assets |->
                    IF \E i \in new : Unused[i] = a
                    THEN Numbered(Draft(p, source(at(a)).kind, RowOf(all[at(a)]).parts))
                    ELSE asset[a]]
     /\ revision' = revision \cup {LocalRow(all, i) : i \in new}
     /\ edges' = edges \cup UNION {EdgesFrom(Local(all, i), LocalDeps(all, i)) : i \in new}
     /\ UNCHANGED <<instance, lineage>>

FinishImport(c) == Asked(c, "import") /\ Import(asked[c].project, asked[c].all) /\ Done(c)

-----------------------------------------------------------------------------
(* The lifecycle. *)

Leave(a, state, from) ==
  /\ Writes
  /\ Exists(a) /\ asset[a].lifecycle \in from
  /\ asset' = Moved(a, state)
  /\ UNCHANGED <<revision, edges, instance, lineage, asked>>

Archive(a) == Leave(a, "archived", {"published", "draft"})
Trash(a)   == Leave(a, "trashed", {"published", "draft", "archived"})

Restore(a) == Leave(a, IF Published(a) THEN "published" ELSE "draft", {"trashed"})

\* The target is computed before the gate, which compares the client's counter
\* (and so refuses the request if the asset is archived only after it).
RequestUnarchive(c, a) ==
  /\ Exists(a) /\ asset[a].lifecycle = "archived"
  /\ Asks(c, [do      |-> "unarchive",
              asset   |-> a,
              target  |-> IF asset[a].counter # 0 /\ Published(a) THEN "published" ELSE "draft",
              counter |-> asset[a].counter])

\* Faulty variant: the gate does not compare the counter.
Unarchivable(c) ==
  LET a == asked[c].asset IN Exists(a) /\ asset[a].lifecycle = "archived"

MayUnarchive(c) ==
  LET a == asked[c].asset
  IN Exists(a) /\ asset[a].lifecycle = "archived" /\ asset[a].counter = asked[c].counter

FinishUnarchive(c) ==
  /\ Writes
  /\ Asked(c, "unarchive") /\ MayUnarchive(c)
  /\ asset' = Moved(asked[c].asset, asked[c].target) /\ Done(c)
  /\ UNCHANGED <<revision, edges, instance, lineage>>

\* Faulty variant: the report forgets the copies.
ReportWithoutLineage(a) ==
  (\E i \in Instances : instance[i] # None /\ instance[i].asset = a) \/ \E e \in edges : e.asset = a

Referenced(a) ==
  \/ \E i \in Instances : instance[i] # None /\ instance[i].asset = a
  \/ \E e \in edges : e.asset = a
  \/ \E l \in lineage : l[2] = a

HardDelete(a) ==
  /\ Writes
  /\ Exists(a) /\ ~Referenced(a)
  /\ asset' = [asset EXCEPT ![a].lifecycle = "deleted"]
  /\ revision' = {row \in revision : row.id[1] # a}
  /\ edges' = {e \in edges : e.asset # a /\ e.from[1] # a}
  /\ instance' = [i \in Instances |->
                    IF instance[i] # None /\ instance[i].asset = a THEN None ELSE instance[i]]
  /\ lineage' = {l \in lineage : a \notin {l[1], l[2]}}
  /\ UNCHANGED asked

Next ==
  \/ \E p \in Projects : ImportFile(p) \/ \E x \in Texts : ImportTokens(p, x)
  \/ \E p \in Projects, parts \in Contents : CreateComponent(p, parts)
  \/ \E a \in Assets, parts \in Contents : UpdateDefinition(a, parts) \/ UpdateLayout(a, parts)
  \/ \E a \in Assets, x \in Texts : UpdateTokens(a, x) \/ RefreshTokens(a, x)
  \/ \E a \in Assets : EnablePreview(a) \/ RefreshFile(a) \/ Copy(a)
  \/ \E a \in Assets : PublishComponent(a) \/ PublishPage(a) \/ PublishTokens(a)
  \/ \E a \in Assets : \E revs \in SUBSET {row.id : row \in revision} : PublishDeclared(a, revs)
  \/ \E a \in Assets : Archive(a) \/ Trash(a) \/ Restore(a) \/ HardDelete(a)
  \/ \E p \in Projects, i \in Instances, a \in Assets, r \in Revs : CreateInstance(p, i, a, r)
  \/ \E S \in SUBSET Instances, r \in Revs : Upgrade(S, r) \/ \E p \in Projects : Rollback(p, S, r)
  \/ \E c \in Clients, p \in Projects, parts \in Contents : CreatePage(c, p, parts)
  \/ \E c \in Clients, p \in Projects, r \in Revs : RequestImport(c, p, r)
  \/ \E c \in Clients, a \in Assets : DistillCandidate(c, a) \/ RequestUnarchive(c, a)
  \/ \E c \in Clients : FinishCreate(c) \/ FinishImport(c) \/ FinishUnarchive(c) \/ Abandon(c)

Spec == Init /\ [][Next]_vars

-----------------------------------------------------------------------------
(* Properties. *)

\* The tables hold rows of their types, and a row's revisions are the numbers
\* it has counted.
TypeOK ==
  /\ \A a \in Assets : asset[a] # None =>
       /\ asset[a].project \in Projects /\ asset[a].kind \in Kinds
       /\ asset[a].lifecycle \in Lifecycles
       /\ asset[a].counter \in 0..MaxWrites + 1 /\ asset[a].number \in 0..MaxRevisions
       /\ asset[a].draft \in DraftsOf(asset[a].kind)
       /\ {row.id : row \in {q \in revision : q.id[1] = a}}
            = IF Exists(a) THEN {<<a, n>> : n \in 1..asset[a].number} ELSE {}
  /\ \A row \in revision : row.id \in Revs /\ row.deps \subseteq Deps
  /\ \A e \in edges : e.from \in Revs /\ e.asset \in Assets /\ e.to \in Revs
  /\ lineage \subseteq Assets \X Assets

\* What a delete promises, "so no dangling reference survives": every edge,
\* every declared dependency, also a copy's that has no edge, and every instance
\* names a revision that is stored, however assets are copied, archived and
\* deleted (delete_asset, reference_report). It is asked of the dependencies
\* that name the asset of their revision, which an import may break.
NoDanglingReference ==
  /\ \A e \in edges : e.asset = e.to[1] => Stored(e.to)
  /\ \A row \in revision : \A d \in row.deps : d.asset = d.to[1] => Stored(d.to)
  /\ \A i \in Instances : instance[i] # None => instance[i].rev[1] = instance[i].asset /\ Stored(instance[i].rev)

\* A draft has no revision and a published asset has one, though an unarchive
\* computes its target before the gate (lifecycle.unarchive, insert_revision).
LifecycleTellsPublished ==
  \A a \in Assets : Exists(a) =>
    /\ asset[a].lifecycle = "draft" => ~Published(a)
    /\ asset[a].lifecycle = "published" => Published(a)

\* Rows are well formed and the lifecycle of an asset agrees with its revisions
\* (insert_revision, _transition).
Wellformed == TypeOK /\ LifecycleTellsPublished

\* Dependencies stay inside one project, also those of an import, whose source
\* is in another one (publication._closure, import_closure).
DependenciesAreLocal ==
  \A e \in edges :
    Exists(e.to[1]) /\ Exists(e.from[1]) => asset[e.to[1]].project = asset[e.from[1]].project

\* No revision reaches a revision of its own asset, over any chain of publishes
\* (publication.would_cycle).
NoRevisionReachesItsAsset ==
  \A row \in revision : \A r \in ToSet(Walk[row.id]) : r[1] # row.id[1]

\* "The same rule that stops a broken token set from being published": whatever
\* is edited, published, copied and imported, and whichever of them reads the
\* draft and which the revision, the tokens of a revision settle or come from a
\* project file as they are (validate_document, update_tokens).
TokensSettle ==
  \A row \in revision : asset[row.id[1]].kind = "tokens" => Fit(row.parts)

\* What refers to a revision holds, whoever deletes, copies, imports and
\* publishes meanwhile: nothing dangles, leaves its project or turns in a circle,
\* among revisions and among the tokens of one, and the lifecycle of an asset
\* agrees with its revisions.
ReferencesHold ==
  Wellformed /\ NoDanglingReference /\ DependenciesAreLocal /\ NoRevisionReachesItsAsset /\ TokensSettle

=============================================================================
