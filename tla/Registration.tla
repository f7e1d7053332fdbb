------------------------------ MODULE Registration ------------------------------
(***************************************************************************)
(* Registration, e-mail verification and the rows a user starts with: user,*)
(* workspace, membership and workspace settings.  A registration writes in *)
(* one serializable transaction, one statement per step; verification runs *)
(* in none.  Codes are those of OneTimeCodes: here an e-mail has at most   *)
(* its newest usable one.  The seed script (Seed) shares the tables.       *)
(***************************************************************************)
EXTENDS Integers, FiniteSetsExt

CONSTANTS
  Emails,          \* e-mails as stored: lower case
  Addresses,       \* e-mails as typed
  Lower,           \* address -> e-mail: toLowerCase
  Workers,         \* request handlers running at the same time
  Seeders,         \* runs of the seed script, for the locks they hold
  Nobody,          \* the holder of no lock
  Catalogue,       \* rows of currencies and countries
  BaseCurrency,    \* the default of WorkspaceSettings.baseCurrencyCode
  MaxRequests,     \* bound on the requests received, a seed run counting for two
  MaxDisturbances  \* bound on the suspensions and deletions from outside

ASSUME RegistrationAssumption ==
  /\ Lower \in [Addresses -> Emails]
  /\ BaseCurrency \in Catalogue
  /\ Nobody \notin Workers \cup Seeders /\ Workers \cap Seeders = {}
  /\ MaxRequests \in Nat /\ MaxDisturbances \in Nat

VARIABLES
  users,        \* e-mail -> row of users
  memberships,  \* e-mail -> its user's row of workspace_memberships (nothing adds a second)
  workspaces,   \* id -> status
  settings,     \* workspace id -> row of workspace_settings: "default" or "seeded"
  catalogue,    \* row -> what it holds: "absent", "other" or "seeded"
  locked,       \* e-mail -> the open transaction that holds its users row, or its index entry
  codes,        \* e-mail -> its usable verification code, 0 if none
  mails,        \* e-mails whose verification mail is under way in the background
  received,     \* what MaxRequests bounds
  disturbances, \* suspensions and deletions so far
  created,      \* e-mail -> registrations answered with 201
  request       \* worker -> the request it is running

tables == <<users, memberships, workspaces, settings>>
mailing == <<codes, mails>>
counters == <<received, disturbances>>
registrationVars ==
  <<tables, catalogue, locked, mailing, counters, created, request>>

UserStatus == {"PENDING_VERIFICATION", "ACTIVE", "SUSPENDED", "DELETED"}

\* person: whose name and password the row holds.
NewUser ==
  [status |-> "PENDING_VERIFICATION", verified |-> FALSE, deleted |-> FALSE, role |-> "USER",
   person |-> "own"]

NewMembership(id) == [workspace |-> id, role |-> "ADMIN", status |-> "ACTIVE", joined |-> FALSE]

NoRequest == [pc |-> "idle", op |-> "none", email |-> "none", code |-> 0, late |-> FALSE]

EmptyTable == [key \in {} |-> key]

\* The table with one row added or replaced.
Put(table, key, row) ==
  [k \in DOMAIN table \cup {key} |-> IF k = key THEN row ELSE table[k]]

InitRegistration ==
  /\ users = EmptyTable /\ memberships = EmptyTable
  /\ workspaces = EmptyTable /\ settings = EmptyTable
  /\ received = 0 /\ disturbances = 0
  /\ locked = [e \in Emails |-> Nobody]
  /\ codes = [e \in Emails |-> 0]
  /\ mails = {}
  /\ created = [e \in Emails |-> 0]
  /\ request = [w \in Workers |-> NoRequest]

At(w, pc)     == request[w].pc = pc
Advance(w, r) == request' = [request EXCEPT ![w] = r]
Go(w, pc)     == Advance(w, [request[w] EXCEPT !.pc = pc])
Email(w)      == request[w].email
Free(e)       == locked[e] = Nobody
Lock(e, who)  == locked' = [locked EXCEPT ![e] = who]
Release(who)  == locked' = [e \in Emails |-> IF locked[e] = who THEN Nobody ELSE locked[e]]

\* The answer, or the error: what an open transaction wrote is rolled back.
End(w) == Advance(w, NoRequest) /\ Release(w)

Rest(w) == UNCHANGED <<tables, catalogue, mailing, counters, created>>

-----------------------------------------------------------------------------
(* register: one read, then the transaction.                               *)

\* Everything that looks an e-mail up, or stores one, lower-cases it first.
Receive(w, op, a, pc) ==
  LET e == Lower[a]
  IN  /\ At(w, "idle")
      /\ received < MaxRequests
      /\ received' = received + 1
      /\ Advance(w, [NoRequest EXCEPT !.op = op, !.pc = pc, !.email = e,
                       !.late = e \in DOMAIN users /\ users[e].verified])
      /\ UNCHANGED <<tables, catalogue, locked, mailing, disturbances, created>>

BeginRegister(w, a) == Receive(w, "register", a, "email exists")

\* Deleted users count: their e-mail stays taken.
EmailExists(w) ==
  /\ At(w, "email exists")
  /\ IF Email(w) \in DOMAIN users
     THEN End(w)
     ELSE Go(w, "workspace") /\ UNCHANGED locked
  /\ Rest(w)

CreateWorkspace(w) ==
  /\ At(w, "workspace")
  /\ Go(w, "user")
  /\ UNCHANGED locked /\ Rest(w)

\* The unique e-mail: the insert waits for an open transaction that holds it, then
\* violates it if that one has committed; nobody repeats the request.
CreateUser(w) ==
  /\ At(w, "user")
  /\ Free(Email(w))
  /\ IF Email(w) \in DOMAIN users
     THEN End(w)
     ELSE Go(w, "settings") /\ Lock(Email(w), w)
  /\ Rest(w)

\* Membership and settings.  Their default base currency is a foreign key: without the seeded catalogue no
\* registration succeeds.
CreateMembershipAndSettings(w) ==
  /\ At(w, "settings")
  /\ IF catalogue[BaseCurrency] = "absent"
     THEN End(w)
     ELSE Go(w, "commit") /\ UNCHANGED locked
  /\ Rest(w)

\* The id of the workspace created: any that is not taken.
NewWorkspace == CHOOSE id \in 1..(Cardinality(DOMAIN workspaces) + 1) : id \notin DOMAIN workspaces

\* Faulty variant: the settings are left to a later request.
CommitWithoutSettings(w) ==
  LET e == Email(w)
      id == NewWorkspace
  IN  /\ At(w, "commit")
      /\ users' = Put(users, e, NewUser)
      /\ memberships' = Put(memberships, e, NewMembership(id))
      /\ workspaces' = Put(workspaces, id, "ACTIVE")
      /\ mails' = mails \cup {e}
      /\ created' = [created EXCEPT ![e] = @ + 1]
      /\ End(w)
      /\ UNCHANGED <<settings, catalogue, codes, counters>>

\* The commit, the mail sent off in the background, and the answer.
CommitRegistration(w) ==
  LET e == Email(w)
      id == NewWorkspace
  IN  /\ At(w, "commit")
      /\ users' = Put(users, e, NewUser)
      /\ memberships' = Put(memberships, e, NewMembership(id))
      /\ workspaces' = Put(workspaces, id, "ACTIVE")
      /\ settings' = Put(settings, id, "default")
      /\ mails' = mails \cup {e}
      /\ created' = [created EXCEPT ![e] = @ + 1]
      /\ End(w)
      /\ UNCHANGED <<catalogue, codes, counters>>

-----------------------------------------------------------------------------
(* The verification mail, in the background, and its repetition.           *)

\* Any code but the current ones and those being verified.
NewCode ==
  LET taken == {codes[e] : e \in Emails} \cup {request[w].code : w \in Workers}
  IN  Min(1..(Cardinality(taken) + 1) \ taken)

\* A new code replaces the previous one.
SendCode(e) ==
  /\ e \in mails
  /\ mails' = mails \ {e}
  /\ codes' = [codes EXCEPT ![e] = NewCode]
  /\ UNCHANGED <<tables, catalogue, locked, counters, created, request>>

\* A failure is logged and forgotten.
LoseMail(e) ==
  /\ e \in mails
  /\ mails' = mails \ {e}
  /\ UNCHANGED <<tables, catalogue, locked, codes, counters, created, request>>

Findable(e) == e \in DOMAIN users /\ ~users[e].deleted

Resend(a) ==
  LET e == Lower[a]
  IN  /\ received < MaxRequests
      /\ received' = received + 1
      /\ Findable(e) /\ ~users[e].verified
      /\ mails' = mails \cup {e}
      /\ UNCHANGED <<tables, catalogue, locked, codes, disturbances, created, request>>

-----------------------------------------------------------------------------
(* verifyEmail: user, code, user again, workspace.                         *)

BeginVerify(w, a) == Receive(w, "verify", a, "find user")

\* Faulty variant: a verified e-mail may be verified again.
FindUserVerifiedOrNot(w) ==
  /\ At(w, "find user")
  /\ IF Findable(Email(w)) THEN Go(w, "find code") /\ UNCHANGED locked ELSE End(w)
  /\ Rest(w)

FindUser(w) ==
  /\ At(w, "find user")
  /\ IF Findable(Email(w)) /\ ~users[Email(w)].verified
     THEN Go(w, "find code") /\ UNCHANGED locked
     ELSE End(w)
  /\ Rest(w)

\* A code that is wrong, used or expired ends the request.
FindCode(w) ==
  /\ At(w, "find code")
  /\ codes[Email(w)] # 0
  /\ Advance(w, [request[w] EXCEPT !.pc = "mark used", !.code = codes[Email(w)]])
  /\ UNCHANGED locked /\ Rest(w)

MarkUsed(w) ==
  /\ At(w, "mark used")
  /\ Go(w, "activate")
  /\ codes' = [codes EXCEPT ![Email(w)] = IF @ = request[w].code THEN 0 ELSE @]
  /\ UNCHANGED <<tables, catalogue, locked, mails, counters, created>>

\* By id alone: whatever the user's status has become, it is ACTIVE now.
MarkEmailVerified(w) ==
  LET e == Email(w)
  IN  /\ At(w, "activate")
      /\ Free(e)
      /\ users' = [users EXCEPT ![e].verified = TRUE, ![e].status = "ACTIVE"]
      /\ Go(w, "context")
      /\ UNCHANGED <<memberships, workspaces, settings, catalogue, locked, mailing, counters, created>>

\* The membership and its workspace must be active for a session (Sessions) to begin;
\* the e-mail stays verified either way.
ResolveWorkspace(w) ==
  /\ At(w, "context")
  /\ End(w)
  /\ Rest(w)

-----------------------------------------------------------------------------
\* A crash, a failing statement, a serialization failure: nothing repeats the request.
Cut(w) ==
  /\ ~At(w, "idle")
  /\ End(w)
  /\ Rest(w)

\* What is suspended or deleted by hand: nothing under src/ calls updateStatus or softDelete.
Disturb(e, what) ==
  /\ disturbances < MaxDisturbances
  /\ disturbances' = disturbances + 1
  /\ e \in DOMAIN users /\ Free(e)
  /\ CASE what = "suspend user" ->
            users' = [users EXCEPT ![e].status = "SUSPENDED"] /\ UNCHANGED <<memberships, workspaces>>
       [] what = "delete user" ->
            /\ users' = [users EXCEPT ![e].status = "DELETED", ![e].deleted = TRUE]
            /\ UNCHANGED <<memberships, workspaces>>
       [] what = "suspend membership" ->
            /\ memberships' = [memberships EXCEPT ![e].status = "SUSPENDED"]
            /\ UNCHANGED <<users, workspaces>>
       [] what = "suspend workspace" ->
            /\ workspaces' = [workspaces EXCEPT ![memberships[e].workspace] = "SUSPENDED"]
            /\ UNCHANGED <<users, memberships>>
  /\ UNCHANGED <<settings, catalogue, locked, mailing, received, created, request>>

Disturbances == {"suspend user", "delete user", "suspend membership", "suspend workspace"}

NextRegistration ==
  \/ \E w \in Workers :
       \/ \E a \in Addresses : BeginRegister(w, a) \/ BeginVerify(w, a)
       \/ EmailExists(w) \/ CreateWorkspace(w) \/ CreateUser(w)
       \/ CreateMembershipAndSettings(w) \/ CommitRegistration(w)
       \/ FindUser(w) \/ FindCode(w) \/ MarkUsed(w) \/ MarkEmailVerified(w) \/ ResolveWorkspace(w)
       \/ Cut(w)
  \/ \E a \in Addresses : Resend(a)
  \/ \E e \in Emails : SendCode(e) \/ LoseMail(e)
  \/ \E e \in Emails, what \in Disturbances : Disturb(e, what)
-----------------------------------------------------------------------------
(* Properties.                                                             *)

\* One registration at most wins an e-mail, and it leaves everything or nothing: every
\* user has a membership in a workspace with settings (getMe and the guards rely on it),
\* and no workspace is left without a member.
RegistrationsWhole ==
  /\ \A e \in Emails : created[e] <= 1 /\ (created[e] = 1 => e \in DOMAIN users)
  /\ DOMAIN users = DOMAIN memberships
  /\ DOMAIN workspaces = {memberships[e].workspace : e \in DOMAIN memberships}
  /\ DOMAIN settings = DOMAIN workspaces

\* A verification that begins after its e-mail was verified changes no user: only one
\* that overlapped another can make a suspended user active again.
LateVerificationsRefused ==
  [][\A w \in Workers : request[w].late /\ request[w].op = "verify" => ~MarkEmailVerified(w)]_registrationVars
=================================================================================
