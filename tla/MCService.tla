----------------------------- MODULE MCService -----------------------------
(***************************************************************************)
(* The service around the components: its starts, sessions and routes, its *)
(* registry of folders, its database and its archives, each by itself. The *)
(* scope says which of them moves.                                         *)
(***************************************************************************)
EXTENDS Backup, Upgrade, Registry, Service, TLC

CONSTANTS zip, safe, home, q1, app, App, away

VARIABLE scope

\* Three paths, of which two differ in case only.
Spelling == app :> "app" @@ App :> "app" @@ away :> "away"

Create(to, over) == [kind |-> "create", to |-> to, over |-> over]
Restore      == [kind |-> "restore", from |-> zip, to |-> home]

\* One request that may replace the archive, one at a destination nobody may
\* overwrite, and a restore.
SomeRequests ==
  "first" :> Create(safe, FALSE) @@ "second" :> Create(zip, TRUE) @@ "restore" :> Restore

\* The requests a call of this route may name.
Named(r) ==
  IF r.family = "request" \/ r = Route("read", "request") THEN {q1, "other"}
  ELSE IF r = Route("fixed", "resolve") THEN {q1, "other", None} ELSE {None}

\* What can be asked of one running service.
Everything ==
  {sample \in
     {Ask("plain", o, m, a, r, p, q) :
        o \in {"own", "none", "foreign"}, m \in Methods, a \in {"good", "bad"}, r \in Routes \ {Route("session", "exchange")},
        p \in {"home", "other"}, q \in {q1, "other", None}} : sample.request \in Named(sample.route)}
  \cup {Ask(f, o, "POST", "good", Route("request", "claim"), "home", q1) :
          f \in Forms, o \in {"own", "none"}}

\* A few calls while services come and go.
SomeCalls ==
  {Ask("plain", "own", "POST", "good", Route("request", "consent"), "home", q1),
   Ask("plain", "none", "POST", "good", Route("request", "claim"), "home", q1)}

\* A later start may have the ports of an earlier one, also the other way round.
SomePorts == {[api |-> 1, preview |-> 2], [api |-> 2, preview |-> 1], [api |-> 3, preview |-> 4]}

Symmetries ==
  Permutations(Threads) \cup Permutations(Blobs) \cup Permutations(Folders)
    \cup Permutations({app, App})

\* The first start has the first ports: what another pair gives it differs in the
\* numbers only.
FirstPorts ==
  (\E b \in Boots : port[b] # None) => \E b \in Boots : port[b] = [api |-> 1, preview |-> 2]

\* A service whose page is open and which gave an agent the capability of q1, and
\* one more call.
AtWork ==
  /\ \E b \in Boots, ports \in PortPairs :
       /\ life = [a \in Boots |-> IF a = b THEN "serving" ELSE "new"]
       /\ port = [a \in Boots |-> IF a = b THEN ports ELSE None]
       /\ record = b /\ spent = {b} /\ late = {} /\ holds = {b}
       /\ minted = {[boot |-> b, request |-> q1]}
       /\ claimFile = [r \in Tasks |-> IF r = q1 THEN [boot |-> b, request |-> q1] ELSE None]
       /\ handed = [a \in Boots |-> IF a = b THEN 1 ELSE 0]
  /\ call = [c \in Callers |-> None] /\ calls = MaxCalls - 1

MCInit ==
  /\ scope \in {"backups", "upgrade", "registry", "starts", "routes"}
  /\ Init /\ UpgradeInit
  /\ IF scope = "registry" THEN RegistryInit
     ELSE RegistryInit /\ disk = [p \in Paths |-> None]
  /\ \/ scope # "routes" /\ ServiceInit
     \/ scope \in {"starts", "routes"} /\ AtWork /\ FirstPorts

\* One client of the running service, until it is admitted or refused.
RoutesNext ==
  \E c \in Callers :
    \/ /\ calls < MaxCalls
       /\ \E sample \in Everything :
         \/ \E b \in Boots : PageCalls(c, b, sample)
         \/ AgentCalls(c, q1, sample)
    \/ Connect(c) \/ Admit(c)

MCNext ==
  /\ UNCHANGED scope
  /\ \/ scope = "backups"  /\ Next         /\ UNCHANGED <<upgradeVars, registryVars, serviceVars>>
     \/ scope = "upgrade"  /\ UpgradeNext  /\ UNCHANGED <<vars, registryVars, serviceVars>>
     \/ scope = "registry" /\ RegistryNext /\ UNCHANGED <<vars, upgradeVars, serviceVars>>
     \/ scope = "starts"   /\ ServiceNext  /\ FirstPorts' /\ UNCHANGED <<vars, upgradeVars, registryVars>>
     \/ scope = "routes"   /\ RoutesNext   /\ UNCHANGED <<vars, upgradeVars, registryVars>>

MCSpec == MCInit /\ [][MCNext]_<<vars, upgradeVars, registryVars, serviceVars, scope>>

=============================================================================
