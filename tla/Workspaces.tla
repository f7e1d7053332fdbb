------------------------------- MODULE Workspaces -------------------------------
(***************************************************************************)
(* The current workspace with its settings and the caller's preferences in *)
(* it, and the caller's own profile with the date of onboarding.           *)
(***************************************************************************)
EXTENDS RequestPipeline

CONSTANT
  Beginnings  \* the settings and dates of onboarding there may be to begin with

ASSUME WorkspacesAssumption ==
  Beginnings \subseteq [settings : {"old", "none"}, onboarding : {0, 1}]

VARIABLES
  workspace,      \* its name, a column of its settings if it has any, one of the preferences
  profile,        \* country and date of onboarding, 0 if none
  countryActive,  \* the country profiles name is offered
  read            \* worker -> the date of onboarding its request has read

workspacesVars == <<workspace, profile, countryActive, read>>

\* Registration and the seed give every workspace its settings; the schema and the code
\* allow one without, as a row written by hand may be.
InitWorkspaces ==
  /\ \E first \in Beginnings :
       /\ workspace = [name |-> "old", settings |-> first.settings, preferences |-> "old"]
       /\ profile = [country |-> "old", onboarding |-> first.onboarding]
  /\ countryActive = TRUE
  /\ read = [w \in Workers |-> 0]

WorkspaceUnchanged == UNCHANGED <<surroundings, received, countryActive, read>>

-----------------------------------------------------------------------------
\* toSettingsDto: whatever shows a workspace shows its settings.
AnswerWithSettings(w) == Answer(w, IF workspace.settings = "none" THEN 404 ELSE 200)

\* Reads, and updates with nothing to update, are one statement.
ReadWorkspace(w) ==
  /\ Statement(w, "handler")
  /\ On(w, {"read workspace"}) \/ (On(w, AdminWrites) /\ Body(w) = {})
  /\ AnswerWithSettings(w)
  /\ UNCHANGED <<surroundings, received, workspacesVars>>

ReadPreferences(w) ==
  /\ Statement(w, "handler") /\ On(w, {"update preferences"}) /\ Body(w) = {}
  /\ Answer(w, 200)
  /\ UNCHANGED <<surroundings, received, workspacesVars>>

Column == [r \in AdminWrites |-> IF r = "update workspace" THEN "name" ELSE "settings"]

\* Settings are upserted; those an update inserts are told from those that were there.
Updated(content) == IF content \in {"none", "inserted"} THEN "inserted" ELSE "new"

\* Then the workspace is read back, in a statement of its own.
UpdateWorkspace(w) ==
  /\ Statement(w, "handler") /\ On(w, AdminWrites) /\ Body(w) # {}
  /\ workspace' = [workspace EXCEPT ![Column[request[w].route]] = Updated(@)]
  /\ GoHavingWritten(w, "read workspace back")
  /\ UNCHANGED profile /\ WorkspaceUnchanged

ReadWorkspaceBack(w) ==
  /\ Statement(w, "read workspace back")
  /\ AnswerWithSettings(w)
  /\ UNCHANGED <<surroundings, received, workspacesVars>>

\* Preferences are the caller's own: any role may change them.
UpsertPreferences(w) ==
  /\ Statement(w, "handler") /\ On(w, {"update preferences"}) /\ Body(w) # {}
  /\ workspace' = [workspace EXCEPT !.preferences = "new"]
  /\ AnswerHavingWritten(w, 200)
  /\ UNCHANGED profile /\ WorkspaceUnchanged

-----------------------------------------------------------------------------
ReadProfile(w) ==
  /\ Statement(w, "handler") /\ On(w, {"read profile"})
  /\ Answer(w, 200)
  /\ UNCHANGED <<surroundings, received, workspacesVars>>

\* Only a country in the body is looked up.
EnsureCountryIsActive(w) ==
  /\ Statement(w, "handler") /\ On(w, {"update profile"})
  /\ IF "country" \in Body(w) /\ ~countryActive
     THEN Answer(w, 400)
     ELSE Go(w, "upsert profile")
  /\ UNCHANGED <<surroundings, received, workspacesVars>>

UpsertProfile(w) ==
  /\ Statement(w, "upsert profile")
  /\ profile' = [profile EXCEPT !.country = IF "country" \in Body(w) THEN "new" ELSE @]
  /\ AnswerHavingWritten(w, 200)
  /\ UNCHANGED workspace /\ WorkspaceUnchanged

ReadOnboarding(w) ==
  /\ Statement(w, "handler") /\ On(w, {"update onboarding"})
  /\ read' = [read EXCEPT ![w] = profile.onboarding]
  /\ Go(w, "upsert onboarding")
  /\ UNCHANGED <<surroundings, received, workspace, profile, countryActive>>

\* A date later than any there is.
Now == IF profile.onboarding = 0 THEN 1 ELSE profile.onboarding + 1

\* Faulty variant: completed again, the date is that of today.
NextDateOfToday(w) ==
  IF "completed" \in Body(w) THEN Now ELSE IF "not completed" \in Body(w) THEN 0 ELSE read[w]

\* The date read is kept; without "completed" in the body it is written as it was read.
NextOnboarding(w) ==
  IF "not completed" \in Body(w) THEN 0
  ELSE IF "completed" \in Body(w) /\ read[w] = 0 THEN Now
  ELSE read[w]

UpsertOnboarding(w) ==
  /\ Statement(w, "upsert onboarding")
  /\ profile' = [profile EXCEPT !.onboarding = NextOnboarding(w)]
  /\ read' = [read EXCEPT ![w] = 0]
  /\ AnswerHavingWritten(w, 200)
  /\ UNCHANGED <<surroundings, received, workspace, countryActive>>

RetireCountry ==
  /\ changes < MaxChanges /\ countryActive
  /\ changes' = changes + 1
  /\ countryActive' = FALSE
  /\ UNCHANGED <<access, claims, process, received, request, workspace, profile, read>>
=================================================================================
