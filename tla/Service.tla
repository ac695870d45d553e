------------------------------ MODULE Service -------------------------------
(***************************************************************************)
(* Starts and stops of the service, its sessions and its clients           *)
(* (launcher.py, listener.py, session.py, credentials.py, preview.py, and  *)
(* project_target.py and workbench_claim.py of the plugin).                *)
(*                                                                         *)
(* Each start is a process with a boot id, two listeners, a session token, *)
(* a one-time bootstrap and the capabilities it minted; they are named by  *)
(* the boot. One file records where the service is. Starts may overlap, a  *)
(* process may stop between any two steps, a port is taken by another      *)
(* start, and requests, which are served in threads that nobody waits for, *)
(* outlive the listener and the session they came through.                 *)
(***************************************************************************)
EXTENDS Routes, FiniteSets

CONSTANTS
  Boots,
  PortPairs,   \* the ports starts ask for or are given: [api, preview]
  Callers,     \* clients that wait for one answer each
  Sampled,     \* the routes, methods and forms calls are made with
  Tasks,       \* work requests; all are of the project "home"
  MaxCalls     \* bound: calls

Credential(kind, boot, request) == [kind |-> kind, boot |-> boot, request |-> request]
Credentials == [kind : {"bootstrap", "bearer", "capability"}, boot : Boots, request : Tasks \cup {None}]

\* What a call asks: of a project and a work request, or others than there are here.
Ask(form, origin, method, args, route, project, request) ==
  [form |-> form, origin |-> origin, method |-> method, args |-> args,
   route |-> route, project |-> project, request |-> request]

Asks ==
  [form : Forms, origin : {"own", "none", "foreign"}, method : Methods, args : {"good", "bad"},
   route : Routes, project : {"home", "other"},
   request : Tasks \cup {None, "other"}]

\* consent and retry mint the capability of a request, which their path names.
Mints(k) == k.route \in {Route("request", "consent"), Route("request", "retry")}

ASSUME ServiceAssumption ==
  /\ MaxCalls \in Nat /\ None \notin Boots \cup Tasks /\ None \notin PortPairs \cup Credentials
  /\ Sampled \subseteq Asks
  /\ \A sample \in Sampled :
       sample.route.family # "session" /\ (Mints(sample) => sample.request \in Tasks)

VARIABLES
  life,      \* how far each start is
  port,      \* the ports it bound, also after it let them go
  record,    \* session.json: the boot it was written by
  spent,     \* boots whose bootstrap is exchanged
  late,      \* boots whose session has expired
  minted,    \* the capabilities that are honoured: [boot, request]
  claimFile, \* request -> the capability in its private file
  holds,     \* boots whose token the browser was given
  call,      \* what each caller asked and how far it is
  calls,
  handed     \* history: how often the bootstrap of a boot was exchanged

sessions    == <<spent, late, minted, claimFile, holds, handed>>
serviceVars == <<life, port, record, sessions, call, calls>>

\* "bound" to "recorded" to "serving"; "closing" without a listener, "closed"
\* without a session, "unrecorded" without the file; "stopped" at the end of a
\* stop, "dead" without one.
Running == {"bound", "recorded", "serving", "closing", "closed", "unrecorded"}

ServiceInit ==
  /\ life = [b \in Boots |-> "new"] /\ port = [b \in Boots |-> None]
  /\ record = None /\ spent = {} /\ late = {} /\ minted = {} /\ holds = {}
  /\ claimFile = [r \in Tasks |-> None]
  /\ call = [c \in Callers |-> None] /\ calls = 0 /\ handed = [b \in Boots |-> 0]

Listening(b) == life[b] \in {"bound", "recorded", "serving"}
Taken == UNION {{port[b].api, port[b].preview} : b \in {a \in Boots : Listening(a)}}

Lives(b, from, to) == life[b] = from /\ life' = [life EXCEPT ![b] = to]

-----------------------------------------------------------------------------
(* The launcher. *)

\* Both listeners are bound, then the session is minted: its authority is the
\* address that was bound. A port that is taken ends the start.
BindListeners(b, ports) ==
  /\ Lives(b, "new", "bound")
  /\ {ports.api, ports.preview} \cap Taken = {}
  /\ port' = [port EXCEPT ![b] = ports]
  /\ UNCHANGED <<record, sessions, call, calls>>

\* write_private_json replaces the file.
WriteRecord(b) ==
  /\ Lives(b, "bound", "recorded")
  /\ record' = b
  /\ UNCHANGED <<port, sessions, call, calls>>

\* The services are attached and the blobs checked before the threads start.
StartServing(b) ==
  /\ Lives(b, "recorded", "serving")
  /\ UNCHANGED <<port, record, sessions, call, calls>>

\* The threads of a process end with it, and what it knew is gone.
ProcessEnds(b, to) ==
  /\ life' = [life EXCEPT ![b] = to]
  /\ minted' = {m \in minted : m.boot # b}
  /\ call' = [c \in Callers |->
                IF call[c] # None /\ call[c].pc \in {"accepted", "admitted"} /\ call[c].at = b
                THEN [call[c] EXCEPT !.pc = "cut"] ELSE call[c]]
  /\ UNCHANGED <<port, spent, late, claimFile, holds, calls, handed>>

\* A start that fails closes what it opened, and a process may just end: the
\* record stays where it is.
Die(b) == life[b] \in Running /\ ProcessEnds(b, "dead") /\ UNCHANGED record

\* stop(): the listener, the session with every credential, the preview, the
\* record, the store.
CloseListener(b) ==
  /\ Lives(b, "serving", "closing")
  /\ UNCHANGED <<port, record, sessions, call, calls>>

CloseSession(b) ==
  /\ Lives(b, "closing", "closed")
  /\ minted' = {m \in minted : m.boot # b}
  /\ UNCHANGED <<port, record, spent, late, claimFile, holds, call, calls, handed>>

\* Faulty variant: the file is left to the next start.
KeepRecord(b) ==
  /\ Lives(b, "closed", "unrecorded")
  /\ UNCHANGED <<port, record, sessions, call, calls>>

\* Whoever wrote it.
RemoveRecord(b) ==
  /\ Lives(b, "closed", "unrecorded")
  /\ record' = None
  /\ UNCHANGED <<port, sessions, call, calls>>

CloseStore(b) == life[b] = "unrecorded" /\ ProcessEnds(b, "stopped") /\ UNCHANGED record

\* Twelve hours, or --session-ttl-seconds.
SessionExpires(b) ==
  /\ life[b] \in Running /\ b \notin late
  /\ late' = late \cup {b}
  /\ UNCHANGED <<life, port, record, spent, minted, claimFile, holds, call, calls, handed>>

\* ttl_seconds of a capability.
CapabilityExpires(m) ==
  /\ m \in minted /\ minted' = minted \ {m}
  /\ UNCHANGED <<life, port, record, spent, late, claimFile, holds, call, calls, handed>>

-----------------------------------------------------------------------------
(* Clients. *)

Calls(c, what) ==
  /\ call[c] = None /\ calls < MaxCalls
  /\ call' = [call EXCEPT ![c] = what] /\ calls' = calls + 1
  /\ UNCHANGED <<life, port, record, sessions>>

\* A call with the address it goes to and what it presents; at is the start that
\* accepts it.
Made(ask, to, cred) ==
  [form |-> ask.form, origin |-> ask.origin, method |-> ask.method, args |-> ask.args,
   route |-> ask.route, project |-> ask.project, request |-> ask.request,
   pc |-> "sent", to |-> to, cred |-> cred, at |-> None]

Bearer(b)     == Credential("bearer", b, None)
Capability(m) == Credential("capability", m.boot, m.request)

\* The maintainer opens the launch URL; the page calls with the token it got.
OpenPage(c, b) ==
  /\ port[b] # None
  /\ Calls(c, Made(Ask("plain", "own", "POST", "good", Route("session", "exchange"), "home", None),
                   port[b].api, Credential("bootstrap", b, None)))

PageCalls(c, b, sample) == b \in holds /\ Calls(c, Made(sample, port[b].api, Bearer(b)))

\* resolve_target reads the record, and asks whoever listens there.
SlashReads(c, request) ==
  LET ask == Ask("plain", "none", "GET", "good", Route("fixed", "resolve"), "home", request)
  IN Calls(c, IF record = None
              THEN [Made(ask, None, None) EXCEPT !.pc = IF request = None THEN "offline" ELSE "unavailable"]
              ELSE Made(ask, port[record].api, Bearer(record)))

\* request_task: the claim file, then the record.
AgentCalls(c, r, sample) ==
  /\ claimFile[r] # None /\ record # None /\ sample.origin = "none"
  /\ Calls(c, Made(sample, port[record].api, Capability(claimFile[r])))

\* Whoever has the port by now: an API, a preview origin, or nobody. A start that
\* does not serve yet lets the connection wait.
Connect(c) ==
  /\ call[c] # None /\ call[c].pc = "sent"
  /\ LET here == {b \in Boots : Listening(b) /\ call[c].to \in {port[b].api, port[b].preview}}
         answered(pc) == call' = [call EXCEPT ![c].pc = pc]
     IN \/ here = {}
           /\ answered(IF call[c].route = Route("fixed", "resolve") /\ call[c].request = None
                         /\ call[c].cred.kind = "bearer"
                       THEN "offline" ELSE "unavailable")
        \/ \E b \in here :
             /\ life[b] = "serving"
             /\ IF call[c].to = port[b].api
                THEN call' = [call EXCEPT ![c].pc = "accepted", ![c].at = b]
                ELSE answered("route-not-found")
  /\ UNCHANGED <<life, port, record, sessions, calls>>

-----------------------------------------------------------------------------
(* Serving a call. *)

SessionOpen(b) == life[b] \in {"serving", "closing"} /\ b \notin late

\* Faulty variant: any token will do while the session is open.
HonouredAsSent(cred, b) ==
  SessionOpen(b) /\ (cred.kind = "capability" => [boot |-> b, request |-> cred.request] \in minted)

\* authorize_browser and authorize_capability compare with what this process
\* minted itself.
Honoured(cred, b) ==
  /\ SessionOpen(b)
  /\ CASE cred.kind = "bearer"     -> cred.boot = b
       [] cred.kind = "capability" -> cred.boot = b /\ [boot |-> b, request |-> cred.request] \in minted
       [] OTHER                    -> FALSE

\* Faulty variant: the bootstrap is good as long as the session is.
ExchangesAgain(b, cred) == SessionOpen(b) /\ cred.boot = b

\* exchange_bootstrap, under the lock of the session.
Exchanges(b, cred) == SessionOpen(b) /\ cred.boot = b /\ b \notin spent

Principal(cred) ==
  IF cred.kind = "capability" THEN Agent("home", cred.request) ELSE Browser

\* The policy, the credential and the checks of the route.
Admit(c) ==
  /\ call[c] # None /\ call[c].pc = "accepted" /\ call[c].route.family # "session"
  /\ LET k == call[c]
         code == PolicyCode(k, k.cred.kind = "capability")
         answer == IF code # "none" THEN code
                   ELSE IF ~Honoured(k.cred, k.at) THEN "unauthorized"
                   ELSE Answer(k, Principal(k.cred))
     IN call' = [call EXCEPT ![c].pc = IF answer = "accepted" THEN "admitted" ELSE answer]
  /\ UNCHANGED <<life, port, record, sessions, calls>>

\* The answer may be lost: the secret is spent all the same.
Exchange(c) ==
  /\ call[c] # None /\ call[c].pc = "accepted" /\ call[c].route.family = "session"
  /\ LET b == call[c].at
     IN IF Exchanges(b, call[c].cred)
        THEN /\ spent' = spent \cup {b} /\ handed' = [handed EXCEPT ![b] = @ + 1]
             /\ holds' \in {holds, holds \cup {b}}
             /\ call' = [call EXCEPT ![c].pc = "done"]
        ELSE /\ call' = [call EXCEPT ![c].pc = "unauthorized"]
             /\ UNCHANGED <<spent, handed, holds>>
  /\ UNCHANGED <<life, port, record, late, minted, claimFile, calls>>

\* Nothing is minted any more by a session that is closed or has expired.
Serve(c) ==
  /\ call[c] # None /\ call[c].pc = "admitted"
  /\ LET k == call[c]
         m == [boot |-> k.at, request |-> k.request]
     IN /\ call' = [call EXCEPT ![c].pc = IF Mints(k) /\ ~SessionOpen(k.at) THEN "unauthorized" ELSE "done"]
        /\ IF Mints(k) /\ SessionOpen(k.at)
           THEN minted' = minted \cup {m} /\ claimFile' = [claimFile EXCEPT ![k.request] = m]
           ELSE UNCHANGED <<minted, claimFile>>
  /\ UNCHANGED <<life, port, record, spent, late, holds, calls, handed>>

\* The client has its answer, or gives up.
Forget(c) ==
  /\ call[c] # None /\ call[c].pc \notin {"sent", "accepted", "admitted"}
  /\ call' = [call EXCEPT ![c] = None]
  /\ UNCHANGED <<life, port, record, sessions, calls>>

ServiceNext ==
  \/ \E b \in Boots :
       \/ \E ports \in PortPairs : BindListeners(b, ports)
       \/ WriteRecord(b) \/ StartServing(b) \/ Die(b) \/ SessionExpires(b)
       \/ CloseListener(b) \/ CloseSession(b) \/ RemoveRecord(b) \/ CloseStore(b)
  \/ \E m \in minted : CapabilityExpires(m)
  \/ \E c \in Callers :
       \/ \E b \in Boots : OpenPage(c, b) \/ \E sample \in Sampled : PageCalls(c, b, sample)
       \/ \E r \in Tasks \cup {None} : SlashReads(c, r)
       \/ \E r \in Tasks, sample \in Sampled : AgentCalls(c, r, sample)
       \/ Connect(c) \/ Admit(c) \/ Exchange(c) \/ Serve(c) \/ Forget(c)

ServiceSpec == ServiceInit /\ [][ServiceNext]_serviceVars

-----------------------------------------------------------------------------
(* Properties. *)

Ports == UNION {{ports.api, ports.preview} : ports \in PortPairs}

\* How far a call is, or its answer.
Answers ==
  {"sent", "accepted", "admitted", "cut", "done", "offline", "unavailable"} \cup Codes

CallRecords ==
  [form : Forms, origin : {"own", "none", "foreign"}, method : Methods, args : {"good", "bad"},
   route : Routes, project : {"home", "other"},
   request : Tasks \cup {None, "other"}, pc : Answers,
   to : Ports \cup {None}, cred : Credentials \cup {None}, at : Boots \cup {None}]

ServiceTypeOK ==
  /\ port \in [Boots -> PortPairs \cup {None}] /\ handed \in [Boots -> Nat]
  /\ call \in [Callers -> CallRecords \cup {None}]
  /\ life \in [Boots -> {"new", "stopped", "dead"} \cup Running]
  /\ record \in Boots \cup {None} /\ (spent \cup late \cup holds) \subseteq Boots
  /\ minted \subseteq [boot : Boots, request : Tasks]
  /\ claimFile \in [Tasks -> [boot : Boots, request : Tasks] \cup {None}]
  /\ \A r \in Tasks : claimFile[r] \in [boot : Boots, request : {r}] \cup {None}

\* Two listening starts never share a port; the record never names a start that
\* came to the end of its stop, whoever started or stopped beside it; the token
\* of a boot is handed out once, whatever becomes of the answer; and no
\* capability outlives the session that minted it (Launcher.stop,
\* exchange_bootstrap, SessionManager.close).
OneOfEach ==
  /\ ServiceTypeOK
  /\ \A a, b \in Boots : a # b /\ Listening(a) /\ Listening(b) =>
       {port[a].api, port[a].preview} \cap {port[b].api, port[b].preview} = {}
  /\ record # None => life[record] \notin {"new", "bound", "unrecorded", "stopped"}
  /\ \A b \in Boots : handed[b] <= 1
  /\ \A m \in minted : life[m.boot] \in Running \ {"bound", "closed", "unrecorded"}

\* What a service admits was meant for that very start, also when a later one
\* has its port: what the browser changes it changes from the page of this listener,
\* but for a list of the projects, which may come without an Origin and clears what
\* is gone; and an agent gets no further than the work request its capability is for
\* (Security.authorize_browser, _authorize_request_route).
AdmitsItsOwn(c) ==
  LET k == call[c]
      agent == k.cred.kind = "capability"
  IN call[c] # None /\ k.pc = "accepted" /\ call'[c] # None /\ call'[c].pc = "admitted" =>
       /\ k.form = "plain" /\ k.cred.boot = k.at /\ SessionOpen(k.at)
       /\ agent => /\ k.origin = "none" /\ k.project = "home" /\ k.request = k.cred.request
                   /\ Reaches(k) \in {"none", "work"}
       /\ ~agent => k.cred.boot \in holds \/ k.route = Route("fixed", "resolve")
       /\ ~agent /\ Reaches(k) # "none" =>
            k.origin = "own" \/ (k.method = "GET" /\ k.route = Route("fixed", "projects"))

\* Both of every step.
OnlyItsOwn ==
  OneOfEach /\ [][OneOfEach' /\ \A c \in Callers : AdmitsItsOwn(c)]_serviceVars

=============================================================================
