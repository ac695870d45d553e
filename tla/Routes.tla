------------------------------- MODULE Routes -------------------------------
(***************************************************************************)
(* What the HTTP surface of the workbench answers (http_server.py,         *)
(* security.py): the policy every request passes, the routes, who may take *)
(* them and the order in which a handler refuses. A call is a record: its  *)
(* form, its Origin, its method, the route, whether body and query are as  *)
(* the handler wants them, and the project and request it names. HEAD is   *)
(* GET without a body; PUT stands for the methods no route takes.          *)
(***************************************************************************)
EXTENDS Nothing, Naturals, Sequences, SequencesExt, TLC

Methods == {"GET", "POST", "PUT"}

\* "plain", or what the policy refuses before it looks at a credential.
Forms == {"plain", "oversized", "foreign-host", "secret-in-query", "two-credentials"}

-----------------------------------------------------------------------------
(* Routes: [family, name]. *)

Route(family, name) == [family |-> family, name |-> name]

\* _FIXED_ROUTES: a path, its methods, and whether it is the maintainer's.
FixedRoutes ==
  [status   |-> [methods |-> {"GET"},         browser |-> FALSE],
   resolve  |-> [methods |-> {"GET"},         browser |-> FALSE],
   projects |-> [methods |-> {"GET", "POST"}, browser |-> TRUE],
   probe    |-> [methods |-> {"POST"},        browser |-> TRUE],
   backup   |-> [methods |-> {"GET", "POST"}, browser |-> TRUE]]

\* Lists of a project.
Collections ==
  {"proposals", "assets", "instances", "canvases", "requests", "runs", "confirmations",
   "lifecycle", "archive-overview", "deletion-impact"}

\* One of them, or the project itself.
Details ==
  {"project", "run", "freshness", "request", "proposal", "asset", "canvas", "board",
   "snapshots", "contexts", "snapshot", "context"}

\* What an asset can be asked for, a token set and a document in particular.
AssetViews    == {"preview", "history", "upgrade-plan", "reuse-plan", "references"}
TokenViews    == {"document", "validation", "token-preview", "diff", "affected"}
DocumentViews == {"component", "page", "instance"}

Reads == Collections \cup Details \cup AssetViews \cup TokenViews \cup DocumentViews

\* A proposal's verbs are decisions of the maintainer.
ProposalVerbs == {"apply", "recover", "revert", "reject"}

MaintainerVerbs == {"consent", "cancel", "confirm-cancelled", "retry", "reject"}
AgentVerbs      == {"claim", "heartbeat", "result", "fail"}
RequestVerbs    == MaintainerVerbs \cup AgentVerbs

\* The service a verb of a canvas reaches.
CanvasVerbs ==
  [v \in {"commands", "undo", "redo", "rename", "fork"} |-> "canvas"] @@
  [v \in {"snapshots", "compare", "contexts", "confirm"} |-> "orchestration"]

AssetVerbs ==
  [v \in {"publish", "preview-enable", "refresh-draft", "publish-with-deps"} |-> "library"] @@
  [v \in {"derive", "copy", "reference", "import-closure", "upgrade", "rollback"} |-> "reuse"] @@
  [v \in {"tokens-update", "tokens-publish"} |-> "tokens"] @@
  [v \in {"component-update", "component-publish", "page-update", "page-publish",
          "distill-candidate"} |-> "components"] @@
  [v \in {"archive", "unarchive", "trash", "restore", "hard-delete"} |-> "lifecycle"] @@
  "publish-verified" :> "owners" @@ "propose-baseline" :> "proposals"

\* _BROWSER_ONLY_ACTIONS and _MAINTAINER_ONLY_ACTIONS: the maintainer's.
OwnActions ==
  [v \in {"open", "rename", "rebind", "grants", "remove", "delete-data"} |-> "registry"] @@
  [v \in {"components", "pages"} |-> "components"] @@
  [v \in {"confirmations", "backflow"} |-> "owners"] @@
  [v \in {"project-archive", "project-unarchive"} |-> "lifecycle"] @@
  "instances" :> "reuse" @@ "canvases" :> "canvas" @@ "requests" :> "work" @@
  "imports" :> "library" @@ "notes-propose" :> "proposals"

Actions == OwnActions @@ "proposals" :> "proposals"

\* Every route there is, the exchange of a bootstrap, and a path that is none.
Routes ==
  {Route("session", "exchange"), Route("unknown", "path")}
    \cup {Route("fixed", n) : n \in DOMAIN FixedRoutes} \cup {Route("read", n) : n \in Reads}
    \cup {Route("proposal", n) : n \in ProposalVerbs} \cup {Route("request", n) : n \in RequestVerbs}
    \cup {Route("canvas", n) : n \in DOMAIN CanvasVerbs} \cup {Route("asset", n) : n \in DOMAIN AssetVerbs}
    \cup {Route("action", n) : n \in DOMAIN Actions}

\* The component whose state an accepted call may change. A list of the projects
\* clears the current project if it is gone. That a read of a project records its
\* connection state, which is only compared with the next one, is left out.
Reaches(c) ==
  LET r == c.route
  IN IF c.method = "GET" THEN IF r = Route("fixed", "projects") THEN "registry" ELSE "none"
     ELSE CASE r.family = "fixed"     -> IF r.name = "backup" THEN "backup" ELSE "registry"
            [] r.family = "proposal"  -> "proposals"
            [] r.family = "request"   -> "work"
            [] r.family = "canvas"    -> CanvasVerbs[r.name]
            [] r.family = "asset"     -> AssetVerbs[r.name]
            [] r.family = "action"    -> Actions[r.name]
            [] OTHER                  -> "none"

-----------------------------------------------------------------------------
(* Principals: the browser session, or the capability of one work request. *)

Browser == [kind |-> "browser"]
Agent(project, request) == [kind |-> "agent", project |-> project, request |-> request]

\* origin_header_is_valid: a capability sends no Origin, a read may omit it, a
\* write sends exactly this listener's.
OriginFits(c, capability) ==
  IF capability THEN c.origin = "none"
  ELSE c.origin = "own" \/ (c.origin = "none" /\ c.method = "GET")

\* Faulty variant: a capability reaches what its scopes allow in its project.
InItsProject(c, p) == p.kind = "agent" => c.project = p.project

\* _authorize_request_route: the request of the capability, and no other path.
InItsRequest(c, p) ==
  p.kind = "agent" =>
    /\ c.request = p.request
    /\ \/ c.route = Route("fixed", "resolve") /\ c.method = "GET"
       \/ /\ c.project = p.project
          /\ \/ c.route = Route("read", "request") /\ c.method = "GET"
             \/ c.route.family = "request" /\ c.route.name \in AgentVerbs /\ c.method = "POST"

\* The checks of a route, in the order of its handler; what a path is not
\* answered for is refused first. No task registry is attached, so a request
\* that is named is never resolved.
Checks(r) ==
  CASE r.family = "fixed" ->
         IF FixedRoutes[r.name].browser THEN <<"browser", "method", "args">>
         ELSE IF r.name = "resolve" THEN <<"method", "args", "task", "project">>
              ELSE <<"method">>
    [] r.family = "read"     -> IF r.name = "request" THEN <<"method", "project", "request", "args">>
                                ELSE <<"method", "project", "args">>
    [] r.family = "proposal" -> <<"browser", "project", "method", "args">>
    [] r.family = "request"  -> IF r.name \in MaintainerVerbs THEN <<"method", "args", "browser", "project">>
                                ELSE <<"method", "args">>
    [] r.family \in {"canvas", "asset"} -> <<"method", "browser", "project", "args">>
    [] r.family = "action"   -> IF r.name = "proposals" THEN <<"unbound", "project", "method", "args">>
                                ELSE <<"browser", "project", "method", "args">>
    [] OTHER                 -> <<"path">>

TakesMethod(c) ==
  CASE c.route.family = "fixed" -> c.method \in FixedRoutes[c.route.name].methods
    [] c.route.family = "read"  -> c.method = "GET"
    [] OTHER                    -> c.method = "POST"

\* Whether a check refuses this call of this principal.
Refuses(check, c, p) ==
  CASE check = "browser" -> p.kind # "browser"
    [] check = "method"  -> ~TakesMethod(c)
    [] check = "args"    -> c.args # "good"
    [] check = "task"    -> c.request # None
    [] check = "project" -> p.kind = "agent" /\ c.project # p.project
    [] check = "request" -> p.kind = "agent" /\ c.request # p.request
    [] check = "unbound" -> p.kind = "agent"
    [] check = "own"     -> ~InItsRequest(c, p)
    [] check = "path"    -> TRUE

Codes ==
  {"method-not-allowed", "owner-unavailable", "invalid-input", "route-not-found", "unauthorized",
   "origin-invalid", "request-too-large"}

Code(check) ==
  CASE check = "method" -> "method-not-allowed"
    [] check = "task"   -> "owner-unavailable"
    [] check = "args"   -> "invalid-input"
    [] check = "path"   -> "route-not-found"
    [] OTHER            -> "unauthorized"

\* What the principal is answered: the code of the first check that refuses, or
\* "accepted".
Answer(c, p) ==
  LET checks   == <<"own">> \o Checks(c.route)
      refusing == {i \in DOMAIN checks : Refuses(checks[i], c, p)}
  IN IF refusing = {} THEN "accepted" ELSE Code(checks[Min(refusing)])

\* What is refused before a credential is looked up, "none" if nothing is. A
\* request with two credentials presents a capability.
PolicyCode(c, capability) ==
  CASE c.form = "oversized"       -> "request-too-large"
    [] c.form = "foreign-host"    -> "origin-invalid"
    [] c.form = "secret-in-query" -> "unauthorized"
    [] OTHER -> IF ~OriginFits(c, capability \/ c.form = "two-credentials") THEN "origin-invalid"
                ELSE IF c.form = "two-credentials" THEN "unauthorized" ELSE "none"

=============================================================================
