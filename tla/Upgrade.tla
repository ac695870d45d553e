------------------------------ MODULE Upgrade -------------------------------
(***************************************************************************)
(* Opening the database (Store.__init__, _migrate and                      *)
(* _backup_before_migration of store.py). The service is upgraded and      *)
(* downgraded between starts, a start stops anywhere, and the next one     *)
(* finds what the last one left: a schema half way, a copy half written.   *)
(*                                                                         *)
(* One start at a time opens the database. A file is what SQLite's backup  *)
(* wrote to it: the versions of the schema it holds, None until the copy   *)
(* is complete.                                                            *)
(***************************************************************************)
EXTENDS Nothing, Naturals, FiniteSets

CONSTANTS
  Latest,     \* the newest SCHEMA_VERSION there is
  Releases,   \* those of the runtimes that are started
  MaxStarts   \* bound: starts of the service

ASSUME UpgradeAssumption == Latest \in Nat /\ Releases \subseteq 1 .. Latest /\ MaxStarts \in Nat

VARIABLES
  applied,   \* schema_migrations: versions whose transaction is committed
  image,     \* version -> the file under the name pre-v<version>.bak
  copying,   \* version -> the file under its temporary name
  start,     \* the start that is under way: its release, what it read, its step
  starts,
  upgraded   \* history: the versions a schema that was in use was upgraded from

upgradeVars == <<applied, image, copying, start, starts, upgraded>>

Versions == 1 .. Latest
Newest(s) == IF s = {} THEN 0 ELSE CHOOSE v \in s : \A w \in s : w <= v

\* No file of that name.
Absent == [there |-> FALSE, holds |-> None]
File(holds) == [there |-> TRUE, holds |-> holds]

UpgradeInit ==
  /\ applied = {}
  /\ image = [v \in Versions |-> Absent] /\ copying = [v \in Versions |-> Absent]
  /\ start = None /\ starts = 0 /\ upgraded = {}

StartAt(step) == start # None /\ start.step = step
Steps(step)   == start' = [start EXCEPT !.step = step]

\* A newer database is never opened.
ReadSchema(release) ==
  /\ start = None /\ starts < MaxStarts /\ starts' = starts + 1
  /\ LET newest  == Newest(applied)
         pending == (1 .. release) \ applied
     IN IF newest > release
        THEN UNCHANGED <<start, upgraded>>
        ELSE /\ start' = [release |-> release, newest |-> newest,
                          step |-> IF pending # {} /\ newest > 0 THEN "look" ELSE "migrate"]
             /\ upgraded' = IF pending # {} /\ newest > 0 THEN upgraded \cup {newest} ELSE upgraded
  /\ UNCHANGED <<applied, image, copying>>

\* Faulty variant: the file of an earlier start counts, whatever its name.
LookForAnyFile ==
  /\ StartAt("look")
  /\ Steps(IF image[start.newest].there \/ copying[start.newest].there
           THEN "migrate" ELSE "connect")
  /\ UNCHANGED <<applied, image, copying, starts, upgraded>>

\* Written once: a backup that is there is kept.
LookForBackup ==
  /\ StartAt("look")
  /\ Steps(IF image[start.newest].there THEN "migrate" ELSE "connect")
  /\ UNCHANGED <<applied, image, copying, starts, upgraded>>

\* sqlite3.connect creates the file, or opens what an earlier start left.
ConnectCopy ==
  /\ StartAt("connect")
  /\ copying' = [copying EXCEPT ![start.newest] = File(None)]
  /\ Steps("copy")
  /\ UNCHANGED <<applied, image, starts, upgraded>>

\* SQLite copies the schema and every row.
Copy ==
  /\ StartAt("copy")
  /\ copying' = [copying EXCEPT ![start.newest] = File(applied)]
  /\ Steps("rename")
  /\ UNCHANGED <<applied, image, starts, upgraded>>

RenameCopy ==
  /\ StartAt("rename")
  /\ image' = [image EXCEPT ![start.newest] = copying[start.newest]]
  /\ copying' = [copying EXCEPT ![start.newest] = Absent]
  /\ Steps("migrate")
  /\ UNCHANGED <<applied, starts, upgraded>>

\* The copy fails: its file is unlinked, the start ends with an exception.
CopyFails ==
  /\ StartAt("copy") \/ StartAt("rename")
  /\ copying' = [copying EXCEPT ![start.newest] = Absent]
  /\ start' = None
  /\ UNCHANGED <<applied, image, starts, upgraded>>

\* One transaction per version, in order, with its row in schema_migrations.
Migrate ==
  /\ StartAt("migrate")
  /\ LET pending == (1 .. start.release) \ applied
     IN IF pending = {}
        THEN Steps("open") /\ UNCHANGED applied
        ELSE /\ applied' = applied \cup {CHOOSE v \in pending : \A w \in pending : v <= w}
             /\ UNCHANGED start
  /\ UNCHANGED <<image, copying, starts, upgraded>>

\* The process stops, or a statement fails and the transaction is rolled back.
StartEnds ==
  /\ start # None /\ start' = None
  /\ UNCHANGED <<applied, image, copying, starts, upgraded>>

UpgradeNext ==
  \/ \E release \in Releases : ReadSchema(release)
  \/ LookForBackup \/ ConnectCopy \/ Copy \/ RenameCopy \/ CopyFails \/ Migrate \/ StartEnds

UpgradeSpec == UpgradeInit /\ [][UpgradeNext]_upgradeVars

-----------------------------------------------------------------------------
(* Properties. *)

\* "The only way back": once a version is added to a schema that was in use, the
\* backup named for it holds that very schema, complete, for good, wherever
\* earlier starts stopped (_migrate, _backup_before_migration). The service runs
\* on the schema of its own release, and a newer one is left alone.
UpgradeIsSafe ==
  /\ applied = 1 .. Newest(applied)
  /\ \A v \in Versions : image[v].there => image[v].holds = 1 .. v
  /\ \A v \in upgraded : Newest(applied) > v => image[v].there
  /\ StartAt("open") => applied = 1 .. start.release

=============================================================================
