--------------------------------- MODULE Server ---------------------------------
(***************************************************************************)
(* The server: the pipeline of requests with the handlers of accounts,     *)
(* workspaces, the caller's profile, health and the voucher analyzer.      *)
(***************************************************************************)
EXTENDS Accounts, Workspaces, Health, VoucherAnalyzer

vars == <<pipelineVars, accountsVars, workspacesVars, healthVars, analysis>>

\* What the body of each route may contain.
NewAccounts        == {{t} : t \in AccountTypes} \cup {{t, "profile"} : t \in AccountTypes}
AccountUpdates     == {{"name"}, {"profile"}, {"type"}}
WorkspaceUpdates   == {{}, {"column"}}
PreferencesUpdates == {{}, {"column"}}
SettingsUpdates    == {{}, {"column"}, {"malformed"}}
ProfileUpdates     == {{}, {"country"}}
OnboardingUpdates  == {{}, {"completed"}, {"not completed"}}

Bodies(route) ==
  CASE route = "create account" -> NewAccounts
    [] route = "update account" -> AccountUpdates
    [] route \in {"archive", "read accounts"} -> {{}, {"foreign id"}}
    [] route = "update workspace" -> WorkspaceUpdates
    [] route = "update preferences" -> PreferencesUpdates
    [] route = "update settings" -> SettingsUpdates
    [] route = "update profile" -> ProfileUpdates
    [] route = "update onboarding" -> OnboardingUpdates
    [] route = "analyze" -> {{"image"}, {"something else"}}
    [] OTHER -> {{}}

Init ==
  /\ InitPipeline /\ InitAccounts /\ InitWorkspaces /\ InitHealth /\ InitAnalyzer

\* A role taken or given, a suspension or its end.
Accesses ==
  {[access EXCEPT !.workspaceRole = r] : r \in WorkspaceRoles}
    \cup {[access EXCEPT !.platformRole = r] : r \in PlatformRoles}
    \cup {[access EXCEPT ![row] = s] : row \in Suspendable, s \in {"ACTIVE", "SUSPENDED"}}

Pipeline(w) ==
  /\ \/ \E route \in Routes : \E body \in Bodies(route) : Receive(w, route, body)
     \/ Guard(w) \/ RefuseMalformed(w) \/ TimeOut(w) \/ Fail(w)
  /\ UNCHANGED <<accountsVars, workspacesVars, healthVars, analysis>>

Surroundings ==
  /\ Disconnect \/ Stop \/ \E a \in Accesses \ {access} : ChangeAccess(a)
  /\ UNCHANGED <<accountsVars, workspacesVars, healthVars, analysis>>

AccountsStep(w) ==
  /\ \/ FindCurrency(w) \/ CreateAccount(w) \/ RefuseImmutable(w) \/ FindAccount(w)
     \/ UpdateAccount(w) \/ UpdateStatus(w) \/ ReadAccountBack(w) \/ ReadAccounts(w)
  /\ UNCHANGED <<workspacesVars, healthVars, analysis>>

WorkspacesStep(w) ==
  /\ \/ ReadWorkspace(w) \/ UpdateWorkspace(w) \/ ReadWorkspaceBack(w)
     \/ ReadPreferences(w) \/ UpsertPreferences(w)
     \/ ReadProfile(w) \/ EnsureCountryIsActive(w) \/ UpsertProfile(w)
     \/ ReadOnboarding(w) \/ UpsertOnboarding(w)
  /\ UNCHANGED <<accountsVars, healthVars, analysis>>

HealthStep(w) ==
  /\ GetAppState(w) \/ PingAnswers(w) \/ PingFails(w)
  /\ UNCHANGED <<accountsVars, workspacesVars, analysis>>

AnalyzerStep(w) ==
  /\ ResolveMimeType(w) \/ GatewayReplies(w) \/ GatewayFails(w)
  /\ UNCHANGED <<accountsVars, workspacesVars, healthVars>>

Beside ==
  \/ (Recompute \/ RetireCurrency) /\ UNCHANGED <<workspacesVars, healthVars, analysis>>
  \/ RetireCountry /\ UNCHANGED <<accountsVars, healthVars, analysis>>

Serve(w) == Pipeline(w) \/ AccountsStep(w) \/ WorkspacesStep(w) \/ HealthStep(w) \/ AnalyzerStep(w)

Next == (\E w \in Workers : Serve(w)) \/ Surroundings \/ Beside

\* The timer of the interceptor fires whatever the handler waits for.
TimerFires(w) == TimeOut(w) /\ UNCHANGED <<accountsVars, workspacesVars, healthVars, analysis>>

Spec == Init /\ [][Next]_vars /\ \A w \in Workers : WF_vars(TimerFires(w))

-----------------------------------------------------------------------------
WriteRoutes ==
  AccountWrites \cup AdminWrites \cup {"update preferences", "update profile", "update onboarding"}

\* A PATCH of the workspace with nothing in it is a read.
AsksForAWrite(w) ==
  On(w, WriteRoutes) /\ ~(On(w, AdminWrites \cup {"update preferences"}) /\ Body(w) = {})

\* The new name of a workspace that came without settings is committed, and then there is
\* nothing to show: the one refusal of what has been done.
NotShown(w) ==
  On(w, {"update workspace"}) /\ request[w].answer = 404 /\ workspace.settings \in {"none", "inserted"}

\* A success is answered only after what was asked for is committed, and a refusal only when
\* nothing is, nor will be, but for the name of a workspace without settings: a client may
\* repeat a refused request, but not one answered 408 or 500.
AnswersTellTheTruth ==
  \A w \in Workers :
    /\ request[w].answer \in {200, 201} /\ AsksForAWrite(w) => request[w].wrote
    /\ request[w].answer \in {400, 401, 403, 404, 409, 422, 502} =>
         At(w, "done") /\ (request[w].wrote => NotShown(w))

\* Nothing is written for a caller who lacked the membership or the role it takes all the time
\* from the arrival of the request to the write, whatever the access token says.
WritesEntitled == \A w \in Workers : request[w].wrote => request[w].entitled

\* A probe that arrives once the shutdown has begun is not answered with success, though the flag
\* it reads is set only after the database has been disconnected; and success means "ok".
LateProbesFail ==
  \A w \in Workers : On(w, {"health", "details"}) /\ request[w].answer = 200 =>
    ~request[w].late /\ reported[w] = "ok"

\* What is shown of an analysis was in a reply the schema accepts, and nothing is shown as read
\* from an image the model does not take for a voucher; it then comes with a warning.
AnalysesFaithful ==
  \A w \in Workers : \A o \in analysis[w].objects : LET shown == analysis[w].shown IN
    /\ o.valid
    /\ o.status = "VOUCHER" <=> shown.document = "voucher"
    /\ shown.text \in {"none", o.text} \ {"blank"}
    /\ o.status = "NOT_VOUCHER" => shown.text = "none" /\ shown.fields = "none" /\ shown.warnings # "none"

Writes(w) == ~request[w].wrote /\ request'[w].wrote

By(routes, content) == \E w \in Workers : Writes(w) /\ On(w, routes) /\ content \subseteq Body(w)

\* No update is lost: a column changes only in the write of a request that asks for it, however
\* many overlap, and a balance only in a recompute; the type never.
ColumnsKept == [][
  /\ \A id \in DOMAIN accounts :
       /\ accounts'[id].type = accounts[id].type
       /\ accounts'[id].balance # accounts[id].balance => changes' = changes + 1
       /\ accounts'[id].status # accounts[id].status => By({"archive", "reactivate"}, {})
       /\ accounts'[id].name # accounts[id].name => By({"update account"}, {"name"})
       /\ accounts'[id].profile # accounts[id].profile => By({"update account"}, {"profile"})
  /\ workspace'.name # workspace.name => By({"update workspace"}, {"column"})
  /\ workspace'.settings # workspace.settings => By({"update settings"}, {"column"})
  /\ workspace'.preferences # workspace.preferences => By({"update preferences"}, {"column"})
  /\ profile'.country # profile.country => By({"update profile"}, {"country"})
  /\ profile'.onboarding # profile.onboarding => By({"update onboarding"}, {})]_vars

\* The date of onboarding, once set, is cleared only on request; an update that keeps or
\* completes may replace it only when it ran beside another update of it.
OnboardingKept == [][
  profile.onboarding # 0 /\ profile'.onboarding # profile.onboarding =>
    \E w \in Workers :
      /\ Writes(w) /\ On(w, {"update onboarding"})
      /\ request[w].overlapped \/ "not completed" \in Body(w)]_vars

\* Past its guards every request is answered, though the database, or the model, may never be.
RequestsAnswered ==
  \A w \in Workers : request[w].pc \notin {"idle", "guards"} ~> request[w].answer # 0
=================================================================================
