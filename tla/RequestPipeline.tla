----------------------------- MODULE RequestPipeline -----------------------------
(***************************************************************************)
(* What every request goes through: the four global guards, the validation *)
(* pipe, the timeout interceptor beside the handler, and the exception     *)
(* filter.  The requests are those of one user with one access token.  The *)
(* handlers are in Accounts, Workspaces, Health and VoucherAnalyzer;       *)
(* Server puts them together.                                              *)
(***************************************************************************)
EXTENDS Integers, FiniteSets

CONSTANTS
  Workers,      \* requests served at the same time
  Callers,      \* the roles a caller may have to begin with
  Suspendable,  \* which of the user, the membership and the workspace may be suspended
  Areas,        \* sets of routes: requests side by side are of one of them
  MaxRequests,  \* bound on the requests received
  MaxChanges    \* bound on what happens around the requests


VARIABLES
  access,    \* what the guards read: the user, the membership and the workspace
  claims,    \* the roles the access token was signed with
  process,   \* "serving", "disconnected" from the database, "stopping"
  received,  \* requests so far
  changes,   \* what MaxChanges bounds
  request    \* worker -> the request it is serving, or the last one it served

surroundings == <<access, claims, process, changes>>
pipelineVars == <<surroundings, received, request>>

WorkspaceRoles == {"ADMIN", "MEMBER", "GUEST"}
PlatformRoles  == {"USER", "SUPER_ADMIN"}

AccountWrites  == {"create account", "update account", "archive", "reactivate"}
AdminWrites    == {"update workspace", "update settings"}
Reads          == {"read accounts", "read workspace", "read profile"}
OwnRoutes      == {"update preferences", "update profile", "update onboarding", "analyze"}

Public   == {"health"}
Platform == {"details"}

Routes == AccountWrites \cup AdminWrites \cup Reads \cup OwnRoutes \cup Public \cup Platform

ASSUME PipelineAssumption ==
  /\ Callers \subseteq [workspaceRole : WorkspaceRoles, platformRole : PlatformRoles]
  /\ Suspendable \subseteq {"user", "membership", "workspace"}
  /\ \A area \in Areas : area \subseteq Routes
  /\ MaxRequests \in Nat /\ MaxChanges \in Nat

\* @RequireWorkspaceRole of each route; nothing is required where there is none.
RequiredRoles(route) ==
  IF route \in AdminWrites THEN {"ADMIN"}
  ELSE IF route \in AccountWrites THEN {"ADMIN", "MEMBER"}
  ELSE WorkspaceRoles

\* Answers are HTTP statuses, 0 for none.  entitled: the access asked for was there at
\* some time since the request came in; late: it came in after the shutdown had begun;
\* wrote: something it changed is committed; overlapped: another onboarding update ran beside it.
NoRequest ==
  [pc |-> "idle", route |-> "none", body |-> {}, answer |-> 0, entitled |-> FALSE, late |-> FALSE,
   wrote |-> FALSE, overlapped |-> FALSE]

InitPipeline ==
  /\ claims \in Callers
  /\ access = [user |-> "ACTIVE", membership |-> "ACTIVE", workspace |-> "ACTIVE",
               workspaceRole |-> claims.workspaceRole, platformRole |-> claims.platformRole]
  /\ process = "serving"
  /\ received = 0 /\ changes = 0
  /\ request = [w \in Workers |-> NoRequest]

At(w, pc)     == request[w].pc = pc
On(w, routes) == request[w].route \in routes
Body(w)       == request[w].body
Idle(w)       == request[w].pc \in {"idle", "done"}

\* A statement can only succeed while the pool is open.
Statement(w, pc) == At(w, pc) /\ process = "serving"

Continue(w, r) == request' = [request EXCEPT ![w] = r]
Go(w, pc)      == Continue(w, [request[w] EXCEPT !.pc = pc])
\* The handler is at its end; whoever was told of a timeout is told nothing more.
Ended(r, status)  == [r EXCEPT !.pc = "done", !.answer = IF @ = 0 THEN status ELSE @]
Answer(w, status) == Continue(w, Ended(request[w], status))

\* A write commits and the handler goes on, or ends.
Wrote(w)                  == [request[w] EXCEPT !.wrote = TRUE]
GoHavingWritten(w, pc)    == Continue(w, [Wrote(w) EXCEPT !.pc = pc])
AnswerHavingWritten(w, s) == Continue(w, Ended(Wrote(w), s))

-----------------------------------------------------------------------------
(* The guards, in the order of the module, the pipe and the timer.         *)

CanLogin(user) == user = "ACTIVE"

\* JwtStrategy.validate: an active membership in an active workspace, then canLogin.
Authenticated(a) == a.membership = "ACTIVE" /\ a.workspace = "ACTIVE" /\ CanLogin(a.user)

PlatformRoleSuffices(route, roles) == route \notin Platform \/ roles.platformRole = "SUPER_ADMIN"

\* Roles of the workspace are not asked for on public and platform routes.
WorkspaceRoleSuffices(route, roles) ==
  route \in Public \cup Platform \/ roles.workspaceRole \in RequiredRoles(route)

RolesSuffice(route, roles) == PlatformRoleSuffices(route, roles) /\ WorkspaceRoleSuffices(route, roles)

\* Faulty variant: the roles are those of the token.
RolesFromToken(a) == claims

\* The principal carries the roles of the rows just read, not of the token.
Roles(a) == a

Entitled(route, a) == route \in Public \/ (Authenticated(a) /\ RolesSuffice(route, a))

Receive(w, route, body) ==
  /\ Idle(w)
  /\ received < MaxRequests
  /\ process # "stopping"
  /\ \E area \in Areas : {route} \cup {request[v].route : v \in Workers} \subseteq area \cup {"none"}
  /\ received' = received + 1
  /\ LET beside == {v \in Workers \ {w} : On(v, {"update onboarding"}) /\ ~Idle(v)}
         both   == route = "update onboarding" /\ beside # {}
     IN  request' = [v \in Workers |->
           IF v = w
           THEN [NoRequest EXCEPT !.pc = "guards", !.route = route, !.body = body, !.overlapped = both,
                   !.entitled = Entitled(route, access), !.late = process # "serving"]
           ELSE [request[v] EXCEPT !.overlapped = @ \/ (both /\ v \in beside)]]
  /\ UNCHANGED surroundings

\* The guards run before the interceptors: no timer is set yet.  ActiveMembershipGuard
\* repeats what the strategy has just required of the same rows.
Guard(w) ==
  /\ At(w, "guards")
  /\ On(w, Public) \/ process = "serving"
  /\ \/ /\ On(w, Public)
        /\ Go(w, "handler")
     \/ /\ ~On(w, Public) /\ ~Authenticated(access)
        /\ Answer(w, 401)
     \/ /\ ~On(w, Public) /\ Authenticated(access)
        /\ ~RolesSuffice(request[w].route, Roles(access))
        /\ Answer(w, 403)
     \/ /\ ~On(w, Public) /\ Authenticated(access)
        /\ RolesSuffice(request[w].route, Roles(access))
        /\ Go(w, IF "malformed" \in Body(w) THEN "pipe" ELSE "handler")
  /\ UNCHANGED <<surroundings, received>>

\* ValidationPipe, beneath the interceptors: what it refuses does not reach the handler.
RefuseMalformed(w) ==
  /\ At(w, "pipe")
  /\ Answer(w, 400)
  /\ UNCHANGED <<surroundings, received>>

\* Faulty variant: no timer for calls to the AI gateway, which has one of its own.
TimeOutUnlessAnalyzing(w) ==
  /\ request[w].pc \notin {"idle", "guards", "done", "gateway"}
  /\ request[w].answer = 0
  /\ Continue(w, [request[w] EXCEPT !.answer = 408])
  /\ UNCHANGED <<surroundings, received>>

\* TimeoutInterceptor: the client is answered, the handler goes on.
TimeOut(w) ==
  /\ request[w].pc \notin {"idle", "guards", "done"}
  /\ request[w].answer = 0
  /\ Continue(w, [request[w] EXCEPT !.answer = 408])
  /\ UNCHANGED <<surroundings, received>>

\* A statement the database fails, or the pool refuses: AllExceptionsFilter answers 500.
Fail(w) ==
  /\ ~Idle(w) /\ ~On(w, Public) /\ ~At(w, "pipe")
  /\ At(w, "guards") \/ ~On(w, {"details", "analyze"})
  /\ changes < MaxChanges \/ process # "serving"
  /\ changes' = IF process = "serving" THEN changes + 1 ELSE changes
  /\ Answer(w, 500)
  /\ UNCHANGED <<access, claims, process, received>>

-----------------------------------------------------------------------------
(* Around the requests.                                                    *)

\* Roles and suspensions are changed by no code under src/ while it serves.
ChangeAccess(a) ==
  /\ changes < MaxChanges
  /\ changes' = changes + 1
  /\ access' = a
  /\ request' = [w \in Workers |->
       IF Idle(w) THEN request[w]
       ELSE [request[w] EXCEPT !.entitled = @ \/ Entitled(request[w].route, a)]]
  /\ UNCHANGED <<claims, process, received>>

\* onModuleDestroy hooks come first: the pool is closed with the server still listening.
Disconnect ==
  /\ process = "serving" /\ changes < MaxChanges
  /\ changes' = changes + 1
  /\ process' = "disconnected"
  /\ UNCHANGED <<access, claims, received, request>>

\* Then beforeApplicationShutdown, and the server stops listening.
Stop ==
  /\ process = "disconnected"
  /\ process' = "stopping"
  /\ UNCHANGED <<access, claims, changes, received, request>>
=================================================================================
