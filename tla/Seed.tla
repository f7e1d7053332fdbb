---------------------------------- MODULE Seed ----------------------------------
(***************************************************************************)
(* The seed script, run at deployment beside the live application: the     *)
(* catalogue of currencies and countries, the free plan, and the super     *)
(* admin with everything a user starts with.  Every statement is a step;   *)
(* only the super admin is written in a transaction.  A row is "seeded"    *)
(* when it holds what the script writes; a free plan is "renamed" when it  *)
(* differs in what a subscription copies of it, a subscription when it is  *)
(* a copy of that.                                                         *)
(***************************************************************************)
EXTENDS Registration

CONSTANTS
  AdminEmail,       \* SEED_SUPER_ADMIN_EMAIL
  DefaultCurrency,  \* country -> the currency it refers to
  FreePlan,         \* FREE_PLAN_CODE
  OtherPlans        \* the other plans, edited by hand

Countries  == DOMAIN DefaultCurrency
Currencies == Catalogue \ Countries
AdminParts == {"user", "membership", "settings", "subscription", "profile"}
Parts      == AdminParts \cup Catalogue \cup {"plan"}

ASSUME SeedAssumption ==
  /\ AdminEmail \in Emails
  /\ Catalogue \cap (AdminParts \cup {"plan"}) = {}
  /\ Countries \subseteq Catalogue
  /\ \A c \in Countries : DefaultCurrency[c] \in Currencies
  /\ FreePlan \notin OtherPlans

VARIABLES
  freePlan,       \* row of the free plan: "absent", "other", "renamed" or "seeded", isDefault apart
  defaults,       \* plans with isDefault
  subscriptions,  \* workspace id -> "other", "renamed" or "seeded"
  profiles,       \* e-mail -> "other" or "seeded"
  seed            \* seeder -> the run under way

plans == <<freePlan, defaults>>
db == <<tables, catalogue, plans, subscriptions, profiles>>
vars == <<registrationVars, plans, subscriptions, profiles, seed>>

-----------------------------------------------------------------------------
(* What is there, as the script compares it.                               *)

SuperAdmin == [status |-> "ACTIVE", verified |-> TRUE, role |-> "SUPER_ADMIN", person |-> "seed"]

\* deletedAt is neither compared nor written.
IsSeededUser(user) == \A field \in DOMAIN SuperAdmin : user[field] = SuperAdmin[field]

IsSeededMembership(m) == m.role = "ADMIN" /\ m.status = "ACTIVE" /\ m.joined

Compare(table, key, Seeded(_)) ==
  IF key \notin DOMAIN table THEN "absent" ELSE IF Seeded(table[key]) THEN "seeded" ELSE "other"

IsSeeded(content) == content = "seeded"

Home == IF AdminEmail \in DOMAIN memberships THEN memberships[AdminEmail].workspace ELSE 0

FoundSubscription == IF Home \in DOMAIN subscriptions THEN subscriptions[Home] ELSE "absent"

\* freePlanSnapshot: what a subscription copies of a plan; without a plan, the seed's own data.
Snapshot(plan) == IF plan = "renamed" THEN "renamed" ELSE "seeded"

\* The subscription is compared with the free plan as it was read.
Against(found, plan) ==
  IF found = "absent" THEN "absent" ELSE IF found = Snapshot(plan) THEN "seeded" ELSE "other"

AdminPart(part) ==
  CASE part = "user"         -> Compare(users, AdminEmail, IsSeededUser)
    [] part = "membership"   -> Compare(memberships, AdminEmail, IsSeededMembership)
    [] part = "settings"     -> Compare(settings, Home, IsSeeded)
    [] part = "subscription" -> Against(FoundSubscription, "seeded")
    [] part = "profile"      -> Compare(profiles, AdminEmail, IsSeeded)

\* found: the free plan as read.  A default elsewhere makes a plan that is there differ.
PlanPart(found, others) == IF found = "seeded" /\ others # {} THEN "other" ELSE found

FoundPlan ==
  IF freePlan = "renamed" \/ (freePlan = "seeded" /\ FreePlan \notin defaults) THEN "other" ELSE freePlan

\* How a part differs from what a run leaves of it.
State(part) ==
  IF part \in AdminParts THEN AdminPart(part)
  ELSE IF part = "plan" THEN PlanPart(FoundPlan, defaults \ {FreePlan})
  ELSE catalogue[part]

\* toSeedStatus.
Status(content) ==
  CASE content = "absent" -> "create" [] content = "other" -> "update" [] content = "seeded" -> "unchanged"

-----------------------------------------------------------------------------

\* before: the database when the run began.  alone: only this run has changed it since.
NoRun == [pc |-> "idle", dry |-> FALSE, pending |-> {}, plan |-> "absent", found |-> FALSE,
          home |-> 0, subscription |-> "absent", report |-> EmptyTable, before |-> EmptyTable, alone |-> TRUE]

Init ==
  /\ InitRegistration
  /\ catalogue \in [Catalogue -> {"absent", "other"}]
  /\ \A c \in Countries : catalogue[c] # "absent" => catalogue[DefaultCurrency[c]] # "absent"
  /\ freePlan \in {"absent", "other", "renamed"}
  /\ defaults \in {{}} \cup {{p} : p \in OtherPlans}
  /\ subscriptions = EmptyTable /\ profiles = EmptyTable
  /\ seed = [s \in Seeders |-> NoRun]

In(s, pc) == seed[s].pc = pc

\* Whoever changes the database disturbs the other runs under way.
Watched(s, r) ==
  seed' = [t \in Seeders |-> IF t = s THEN r ELSE [seed[t] EXCEPT !.alone = @ /\ db' = db]]

Step(s, pc) == Watched(s, [seed[s] EXCEPT !.pc = pc])

Others(s) == UNCHANGED <<mailing, counters, created, request>>

Begin(s, dry) ==
  /\ In(s, "idle")
  /\ received + 1 < MaxRequests
  /\ received' = received + 2
  /\ UNCHANGED <<db, locked, mailing, disturbances, created, request>>
  /\ Watched(s, [NoRun EXCEPT !.pc = "read currencies", !.dry = dry, !.before = [p \in Parts |-> State(p)]])

\* Faulty variant: a row that is there counts as updated.
ReportedByPresence(s, parts) ==
  [p \in DOMAIN seed[s].report \cup parts |->
     IF p \in parts THEN IF State(p) = "absent" THEN "create" ELSE "update" ELSE seed[s].report[p]]

\* The summary of a stage, before anything of it is written.
Reported(s, parts) ==
  [p \in DOMAIN seed[s].report \cup parts |->
     IF p \in parts THEN Status(State(p)) ELSE seed[s].report[p]]

-----------------------------------------------------------------------------
(* Currencies, then countries: one read, then every row in any order.      *)

ReadCurrencies(s) ==
  /\ In(s, "read currencies")
  /\ UNCHANGED <<db, locked>> /\ Others(s)
  /\ Watched(s, [seed[s] EXCEPT !.report = Reported(s, Currencies),
       !.pc = IF seed[s].dry THEN "read countries" ELSE "currencies",
       !.pending = IF seed[s].dry THEN {} ELSE Currencies])

ReadCountries(s) ==
  /\ In(s, "read countries") \/ (In(s, "currencies") /\ seed[s].pending = {})
  /\ UNCHANGED <<db, locked>> /\ Others(s)
  /\ Watched(s, [seed[s] EXCEPT !.report = Reported(s, Countries),
       !.pc = IF seed[s].dry THEN "read plan" ELSE "countries",
       !.pending = IF seed[s].dry THEN {} ELSE Countries])

\* One upsert of the Promise.all; a country without its currency violates the foreign key.
UpsertRow(s, c) ==
  /\ In(s, "currencies") \/ In(s, "countries")
  /\ c \in seed[s].pending
  /\ c \in Countries => catalogue[DefaultCurrency[c]] # "absent"
  /\ catalogue' = [catalogue EXCEPT ![c] = "seeded"]
  /\ UNCHANGED <<tables, plans, subscriptions, profiles, locked>> /\ Others(s)
  /\ Watched(s, [seed[s] EXCEPT !.pending = @ \ {c}])

-----------------------------------------------------------------------------
(* The free plan: two reads, then two writes.                              *)

ReadPlan(s) ==
  /\ In(s, "read plan") \/ (In(s, "countries") /\ seed[s].pending = {})
  /\ UNCHANGED <<db, locked>> /\ Others(s)
  /\ Watched(s, [seed[s] EXCEPT !.pc = "count defaults", !.plan = FoundPlan])

CountDefaults(s) ==
  LET others == defaults \ {FreePlan}
  IN  /\ In(s, "count defaults")
      /\ UNCHANGED <<db, locked>> /\ Others(s)
      /\ Watched(s, [seed[s] EXCEPT
           !.report = [p \in DOMAIN @ \cup {"plan"} |->
              IF p = "plan" THEN Status(PlanPart(seed[s].plan, others)) ELSE @[p]],
           !.pc = IF seed[s].dry THEN "read admin"
                  ELSE IF others # {} THEN "clear defaults" ELSE "upsert plan"])

\* Faulty variant: the free plan becomes the default beside the others.
ClearNothing(s) ==
  /\ In(s, "clear defaults")
  /\ UNCHANGED <<db, locked>> /\ Others(s)
  /\ Step(s, "upsert plan")

\* Until the next statement no plan is the default.
ClearDefaults(s) ==
  /\ In(s, "clear defaults")
  /\ defaults' = defaults \cap {FreePlan}
  /\ UNCHANGED <<tables, catalogue, freePlan, subscriptions, profiles, locked>> /\ Others(s)
  /\ Step(s, "upsert plan")

UpsertPlan(s) ==
  /\ In(s, "upsert plan")
  /\ freePlan' = "seeded"
  /\ defaults' = defaults \cup {FreePlan}
  /\ UNCHANGED <<tables, catalogue, subscriptions, profiles, locked>> /\ Others(s)
  /\ Step(s, "read admin")

-----------------------------------------------------------------------------
(* The super admin: reads outside the transaction, then the transaction.   *)

ReadAdmin(s) ==
  /\ In(s, "read admin")
  /\ UNCHANGED <<db, locked>> /\ Others(s)
  /\ Watched(s, [seed[s] EXCEPT !.report = Reported(s, AdminParts \ {"subscription"}),
       !.found = AdminEmail \in DOMAIN users, !.home = Home, !.subscription = FoundSubscription,
       !.pc = "read plan again"])

\* Then the free plan, whose copy the subscription is to be; only a dry run may find none.
ReadPlanAgain(s) ==
  /\ In(s, "read plan again")
  /\ seed[s].dry \/ freePlan # "absent"
  /\ UNCHANGED <<db, locked>> /\ Others(s)
  /\ Watched(s, [seed[s] EXCEPT !.plan = freePlan,
       !.report = [p \in DOMAIN @ \cup {"subscription"} |->
          IF p = "subscription" THEN Status(Against(seed[s].subscription, freePlan)) ELSE @[p]],
       !.pc = IF seed[s].dry THEN "finish" ELSE "write user"])

\* The first statement of the transaction: the row is updated, or inserted where the
\* read found none, and held until the end.  A registration that came first makes the
\* insert fail, and the run with it.
WriteUser(s) ==
  /\ In(s, "write user")
  /\ Free(AdminEmail)
  /\ seed[s].found = (AdminEmail \in DOMAIN users)
  /\ Lock(AdminEmail, s)
  /\ UNCHANGED db /\ Others(s)
  /\ Step(s, "commit")

SeededUser ==
  [field \in DOMAIN NewUser |->
     IF field \in DOMAIN SuperAdmin THEN SuperAdmin[field]
     ELSE IF AdminEmail \in DOMAIN users THEN users[AdminEmail][field] ELSE NewUser[field]]

\* Faulty variant: a workspace that is there is left as it is.
SeededWorkspaces(id) ==
  IF id \in DOMAIN workspaces THEN workspaces ELSE Put(workspaces, id, "ACTIVE")

ActiveWorkspaces(id) == Put(workspaces, id, "ACTIVE")

\* Workspace, membership, settings, subscription and profile, then the commit.
CommitAdmin(s) ==
  LET id == IF seed[s].home = 0 THEN NewWorkspace ELSE seed[s].home
  IN  /\ In(s, "commit")
      /\ users' = Put(users, AdminEmail, SeededUser)
      /\ workspaces' = ActiveWorkspaces(id)
      /\ memberships' = Put(memberships, AdminEmail, [NewMembership(id) EXCEPT !.joined = TRUE])
      /\ settings' = Put(settings, id, "seeded")
      /\ subscriptions' = Put(subscriptions, id, Snapshot(seed[s].plan))
      /\ profiles' = Put(profiles, AdminEmail, "seeded")
      /\ Release(s)
      /\ UNCHANGED <<catalogue, plans, mailing, counters, created, request>>
      /\ Step(s, "finish")

\* The summaries are printed and the process ends.
Finish(s) ==
  /\ In(s, "finish")
  /\ UNCHANGED <<db, locked>> /\ Others(s)
  /\ Watched(s, NoRun)

\* A crash or a failing statement: what is written outside the transaction stays.
CutSeed(s) ==
  /\ ~In(s, "idle")
  /\ Release(s)
  /\ UNCHANGED db /\ Others(s)
  /\ Watched(s, NoRun)

EditedBesideRuns ==
  /\ disturbances < MaxDisturbances
  /\ disturbances' = disturbances + 1
  /\ UNCHANGED <<users, memberships, workspaces, catalogue, locked, mailing, received,
                 created, request, defaults>>
  /\ Watched(Nobody, NoRun)

\* The super admin updates the settings of his workspace, or his profile.
EditSettings ==
  /\ AdminPart("settings") = "seeded"
  /\ settings' = [settings EXCEPT ![Home] = "default"]
  /\ UNCHANGED <<subscriptions, profiles, freePlan>> /\ EditedBesideRuns

EditProfile ==
  /\ AdminPart("profile") = "seeded"
  /\ profiles' = [profiles EXCEPT ![AdminEmail] = "other"]
  /\ UNCHANGED <<settings, subscriptions, freePlan>> /\ EditedBesideRuns

\* The free plan and the subscription are edited by hand.
EditSubscription ==
  /\ FoundSubscription = "seeded"
  /\ subscriptions' = [subscriptions EXCEPT ![Home] = "other"]
  /\ UNCHANGED <<settings, profiles, freePlan>> /\ EditedBesideRuns

EditPlan ==
  /\ freePlan = "seeded"
  /\ freePlan' \in {"other", "renamed"}
  /\ UNCHANGED <<settings, subscriptions, profiles>> /\ EditedBesideRuns

RunSeed(s) ==
  \/ \E dry \in BOOLEAN : Begin(s, dry)
  \/ ReadCurrencies(s) \/ ReadCountries(s)
  \/ \E c \in Catalogue : UpsertRow(s, c)
  \/ ReadPlan(s) \/ CountDefaults(s) \/ ClearDefaults(s) \/ UpsertPlan(s)
  \/ ReadAdmin(s) \/ ReadPlanAgain(s) \/ WriteUser(s) \/ CommitAdmin(s)
  \/ Finish(s) \/ CutSeed(s)

Next ==
  \/ NextRegistration /\ UNCHANGED <<plans, subscriptions, profiles>> /\ Watched(Nobody, NoRun)
  \/ \E s \in Seeders : RunSeed(s)
  \/ EditSettings \/ EditProfile \/ EditSubscription \/ EditPlan

Spec == Init /\ [][Next]_vars
-----------------------------------------------------------------------------
(* Properties.                                                             *)

\* What a run is for: every row seeded, the admin in an active workspace.  (A deleted
\* admin stays deleted: the user can still not log in.)
Established ==
  /\ \A part \in Parts : State(part) = "seeded"
  /\ workspaces[Home] = "ACTIVE"

\* A run that nothing else interferes with establishes all of it, whatever it finds:
\* tables half seeded by a run that crashed, the admin's e-mail registered by a user,
\* a suspended admin.  A dry run leaves everything as it was.
SeedEstablishes ==
  [][\A s \in Seeders : Finish(s) /\ seed[s].alone =>
       IF seed[s].dry THEN \A part \in Parts : State(part) = seed[s].before[part] ELSE Established]_vars

\* The script compares the subscription with the free plan as it finds it, and only a real run
\* has restored the plan by then: while it is renamed a dry run looks at another plan.
Foretold(s, part) == seed[s].dry /\ part = "subscription" => freePlan # "renamed"

\* What such a run reports is what it did: created where there was nothing, updated where
\* something differed.  A dry run reports what a real one would do, of all but the
\* subscription to a free plan that has been renamed.
SeedReportsTruth ==
  [][\A s \in Seeders : Finish(s) /\ seed[s].alone =>
       \A part \in Parts : Foretold(s, part) =>
         seed[s].report[part] = Status(seed[s].before[part])]_vars

\* Two plans are never the default at once, between any two statements and however many
\* runs overlap or crash.
OneDefaultPlan == Cardinality(defaults) <= 1
=================================================================================
