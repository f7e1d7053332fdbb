------------------------------- MODULE SeedProofs -------------------------------
(***************************************************************************)
(* Proofs about Registration and Seed together, for any number of requests *)
(* and runs of the script: what a registration leaves behind is whole, no  *)
(* two plans are the default at once, and a run that nothing interferes    *)
(* with establishes everything and reports what it did.                    *)
(***************************************************************************)
EXTENDS Seed, FiniteSetTheorems, TLAPS

RequestFields    == {"pc", "op", "email", "code", "late"}
RunFields        == {"pc", "dry", "pending", "plan", "found", "home", "subscription", "report",
                     "before", "alone"}
MembershipFields == {"workspace", "role", "status", "joined"}

ShapesInv ==
  /\ DOMAIN request = Workers /\ \A w \in Workers : DOMAIN request[w] = RequestFields
  /\ DOMAIN seed = Seeders /\ \A s \in Seeders : DOMAIN seed[s] = RunFields /\ seed[s].found \in BOOLEAN
  /\ DOMAIN locked = Emails
  /\ created \in [Emails -> Nat]
  /\ \A e \in DOMAIN memberships : DOMAIN memberships[e] = MembershipFields

TablesInv ==
  /\ DOMAIN users \subseteq Emails /\ DOMAIN memberships = DOMAIN users
  /\ IsFiniteSet(DOMAIN workspaces) /\ DOMAIN workspaces \subseteq Nat \ {0}
  /\ DOMAIN workspaces = {memberships[e].workspace : e \in DOMAIN memberships}
  /\ DOMAIN settings = DOMAIN workspaces
  /\ \A e \in Emails : created[e] <= 1 /\ (created[e] = 1 => e \in DOMAIN users)

\* A registration past the insert of its user holds an e-mail that nobody has.
RequestInv(w) ==
  LET r == request[w]
  IN  /\ r.pc # "idle" => r.email \in Emails
      /\ r.pc \in {"settings", "commit"} => locked[r.email] = w /\ r.email \notin DOMAIN users

\* What a run has read of the super admin stays true until it holds the row.
AdminInv(s) ==
  LET r == seed[s]
  IN  /\ r.pc \in {"read plan again", "write user", "commit"} =>
           IF r.found THEN AdminEmail \in DOMAIN users /\ r.home = memberships[AdminEmail].workspace ELSE r.home = 0
      /\ r.pc = "commit" => locked[AdminEmail] = s /\ (AdminEmail \in DOMAIN users => r.found)

\* Between the two writes of a run nobody makes another plan the default.
PlansInv ==
  /\ \E p \in {FreePlan} \cup OtherPlans : defaults \subseteq {p}
  /\ \A s \in Seeders : seed[s].pc = "upsert plan" => defaults \subseteq {FreePlan}

IInv ==
  /\ ShapesInv /\ TablesInv /\ PlansInv
  /\ \A w \in Workers : RequestInv(w)
  /\ \A s \in Seeders : AdminInv(s)

-----------------------------------------------------------------------------
(* Three kinds of steps that leave the tables what they are.               *)

SameTables ==
  /\ DOMAIN users' = DOMAIN users /\ DOMAIN memberships' = DOMAIN memberships
  /\ \A e \in DOMAIN memberships : /\ DOMAIN memberships'[e] = DOMAIN memberships[e]
                                   /\ memberships'[e].workspace = memberships[e].workspace
  /\ DOMAIN workspaces' = DOMAIN workspaces /\ DOMAIN settings' = DOMAIN settings
  /\ created' = created

\* A run goes on as it is, but that it may no longer be alone.
Stays(s) ==
  /\ DOMAIN seed'[s] = RunFields
  /\ seed'[s].pc = seed[s].pc /\ seed'[s].found = seed[s].found /\ seed'[s].home = seed[s].home

SameRuns == DOMAIN seed' = Seeders /\ \A s \in Seeders : Stays(s)

\* Nobody loses a lock but who releases it.
LocksKept(who) == DOMAIN locked' = Emails /\ \A e \in Emails : locked[e] \notin {who, Nobody} => locked'[e] = locked[e]

LEMMA TablesStay ==
  ASSUME TablesInv, SameTables
  PROVE  TablesInv'
<1>1. {memberships'[e].workspace : e \in DOMAIN memberships'} = {memberships[e].workspace : e \in DOMAIN memberships}
  BY DEF SameTables
<1>2. QED BY <1>1 DEF TablesInv, SameTables

LEMMA MembershipsStay ==
  ASSUME ShapesInv, SameTables
  PROVE  \A e \in DOMAIN memberships' : DOMAIN memberships'[e] = MembershipFields
  BY DEF ShapesInv, SameTables

LEMMA RunStays ==
  ASSUME IInv, SameTables, NEW s \in Seeders, Stays(s),
         \A e \in Emails : locked[e] = s => locked'[e] = locked[e]
  PROVE  AdminInv(s)'
<1>1. AdminInv(s) /\ DOMAIN memberships = DOMAIN users /\ AdminEmail \in Emails
  BY SeedAssumption DEF IInv, TablesInv
<1>2. QED BY <1>1 DEF AdminInv, SameTables, Stays

LEMMA RequestStays ==
  ASSUME IInv, SameTables, NEW w \in Workers, request'[w] = request[w],
         \A e \in Emails : locked[e] = w => locked'[e] = locked[e]
  PROVE  RequestInv(w)'
<1>1. RequestInv(w)
  BY DEF IInv
<1>2. QED BY <1>1 DEF RequestInv, SameTables

LEMMA Distinct ==
  /\ \A w \in Workers : w # Nobody /\ w \notin Seeders
  /\ \A s \in Seeders : s # Nobody /\ s \notin Workers
  BY RegistrationAssumption

LEMMA PlansStay ==
  ASSUME PlansInv, SameRuns, defaults' = defaults
  PROVE  PlansInv'
  BY DEF PlansInv, SameRuns, Stays

LEMMA RunsShape ==
  ASSUME ShapesInv, SameRuns
  PROVE  DOMAIN seed' = Seeders /\ \A s \in Seeders : DOMAIN seed'[s] = RunFields /\ seed'[s].found \in BOOLEAN
  BY DEF ShapesInv, SameRuns, Stays

\* One request goes on.
LEMMA OneRequest ==
  ASSUME IInv, NEW w \in Workers, SameTables, SameRuns, defaults' = defaults, LocksKept(w),
         DOMAIN request' = Workers, \A v \in Workers \ {w} : request'[v] = request[v],
         DOMAIN request'[w] = RequestFields, RequestInv(w)'
  PROVE  IInv'
<1>0. ShapesInv /\ TablesInv /\ PlansInv
  BY DEF IInv
<1>1. ShapesInv'
  BY <1>0, MembershipsStay, RunsShape DEF ShapesInv, LocksKept, SameTables
<1>2. ASSUME NEW v \in Workers PROVE RequestInv(v)'
  BY Distinct, RequestStays DEF LocksKept
<1>3. ASSUME NEW s \in Seeders PROVE AdminInv(s)'
  BY Distinct, RunStays DEF LocksKept, SameRuns
<1>4. QED BY <1>0, <1>1, <1>2, <1>3, TablesStay, PlansStay DEF IInv

\* One run goes on.
LEMMA OneRun ==
  ASSUME IInv, NEW s \in Seeders, SameTables, request' = request, LocksKept(s),
         DOMAIN seed' = Seeders, \A t \in Seeders \ {s} : Stays(t),
         DOMAIN seed'[s] = RunFields, seed'[s].found \in BOOLEAN, AdminInv(s)', PlansInv'
  PROVE  IInv'
<1>0. ShapesInv /\ TablesInv
  BY DEF IInv
<1>1. ShapesInv'
  BY <1>0, MembershipsStay DEF ShapesInv, LocksKept, SameTables, Stays
<1>2. ASSUME NEW v \in Workers PROVE RequestInv(v)'
  BY Distinct, RequestStays DEF LocksKept
<1>3. ASSUME NEW t \in Seeders PROVE AdminInv(t)'
  BY Distinct, RunStays DEF LocksKept
<1>4. QED BY <1>0, <1>1, <1>2, <1>3, TablesStay DEF IInv

\* Neither goes on.
LEMMA Beside ==
  ASSUME IInv, SameTables, SameRuns, defaults' = defaults, request' = request, locked' = locked
  PROVE  IInv'
<1>0. ShapesInv /\ TablesInv /\ PlansInv
  BY DEF IInv
<1>1. ShapesInv'
  BY <1>0, MembershipsStay, RunsShape DEF ShapesInv, SameTables
<1>2. ASSUME NEW v \in Workers PROVE RequestInv(v)'
  BY RequestStays
<1>3. ASSUME NEW t \in Seeders PROVE AdminInv(t)'
  BY RunStays DEF SameRuns
<1>4. QED BY <1>0, <1>1, <1>2, <1>3, TablesStay, PlansStay DEF IInv

-----------------------------------------------------------------------------
(* What the operators do that the steps are made of.                       *)

LEMMA WatchedBeside ==
  ASSUME ShapesInv, Watched(Nobody, NoRun)
  PROVE  SameRuns
  BY Distinct DEF Watched, ShapesInv, SameRuns, Stays, RunFields

LEMMA WatchedRun ==
  ASSUME ShapesInv, NEW s \in Seeders, NEW r, Watched(s, r)
  PROVE  DOMAIN seed' = Seeders /\ seed'[s] = r /\ \A t \in Seeders \ {s} : Stays(t)
  BY DEF Watched, ShapesInv, Stays, RunFields

LEMMA Ending ==
  ASSUME ShapesInv, NEW w \in Workers, End(w)
  PROVE  /\ LocksKept(w) /\ DOMAIN request' = Workers
         /\ \A v \in Workers \ {w} : request'[v] = request[v]
         /\ DOMAIN request'[w] = RequestFields /\ RequestInv(w)'
<1>1. request' = [request EXCEPT ![w] = NoRequest] /\ Release(w)
  BY DEF End, Advance
<1>2. DOMAIN NoRequest = RequestFields /\ NoRequest.pc = "idle"
  BY DEF NoRequest, RequestFields
<1>3. LocksKept(w)
  BY <1>1 DEF Release, LocksKept
<1>4. QED BY <1>1, <1>2, <1>3 DEF ShapesInv, RequestInv

LEMMA Going ==
  ASSUME ShapesInv, NEW w \in Workers, NEW pc, Go(w, pc)
  PROVE  /\ DOMAIN request' = Workers
         /\ \A v \in Workers \ {w} : request'[v] = request[v]
         /\ DOMAIN request'[w] = RequestFields
         /\ request'[w].pc = pc /\ request'[w].email = request[w].email
  BY DEF Go, Advance, ShapesInv, RequestFields

\* There is always an id left for a new workspace.
LEMMA NewWorkspaceIsNew ==
  ASSUME IsFiniteSet(DOMAIN workspaces)
  PROVE  NewWorkspace \in Nat \ {0} /\ NewWorkspace \notin DOMAIN workspaces
<1> DEFINE D == DOMAIN workspaces
           n == Cardinality(D)
<1>1. n \in Nat
  BY FS_CardinalityType
<1>2. \E id \in 1..(n + 1) : id \notin D
  <2>1. SUFFICES ASSUME 1..(n + 1) \subseteq D PROVE FALSE
    OBVIOUS
  <2>2. Cardinality(1..(n + 1)) <= n
    BY <2>1, FS_Subset
  <2>3. Cardinality(1..(n + 1)) = n + 1
    BY <1>1, FS_Interval
  <2>4. QED BY <1>1, <2>2, <2>3
<1>3. NewWorkspace \in 1..(n + 1) /\ NewWorkspace \notin D
  BY <1>2 DEF NewWorkspace
<1>4. QED BY <1>1, <1>3

LEMMA Untouched ==
  ASSUME UNCHANGED <<tables, created>>
  PROVE  SameTables
  BY DEF tables, SameTables

-----------------------------------------------------------------------------
(* The steps of requests.                                                  *)

LEMMA Ends ==
  ASSUME IInv, NEW w \in Workers, UNCHANGED <<tables, created>>, SameRuns, defaults' = defaults, End(w)
  PROVE  IInv'
  BY Untouched, Ending, OneRequest DEF IInv

LEMMA GoesOn ==
  ASSUME IInv, NEW w \in Workers, UNCHANGED <<tables, created>>, SameRuns, defaults' = defaults,
         locked' = locked, NEW pc, Go(w, pc), request[w].pc # "idle",
         pc \in {"settings", "commit"} => request[w].pc = "settings"
  PROVE  IInv'
<1>1. ShapesInv /\ RequestInv(w) /\ SameTables
  BY Untouched DEF IInv
<1>2. /\ DOMAIN request' = Workers
      /\ \A v \in Workers \ {w} : request'[v] = request[v]
      /\ DOMAIN request'[w] = RequestFields
      /\ request'[w].pc = pc /\ request'[w].email = request[w].email
  BY <1>1, Going
<1>3. RequestInv(w)' /\ LocksKept(w)
  BY <1>1, <1>2 DEF RequestInv, SameTables, LocksKept, ShapesInv
<1>4. QED BY <1>1, <1>2, <1>3, OneRequest

LEMMA ReceiveStep ==
  ASSUME IInv, NEW w \in Workers, NEW op, NEW a \in Addresses, NEW pc \in {"email exists", "find user"},
         Receive(w, op, a, pc), SameRuns, defaults' = defaults
  PROVE  IInv'
<1>0. ShapesInv /\ SameTables /\ locked' = locked /\ Lower[a] \in Emails
  BY Untouched, RegistrationAssumption DEF IInv, Receive
<1> DEFINE l == Lower[a] \in DOMAIN users /\ users[Lower[a]].verified
           r == [NoRequest EXCEPT !.op = op, !.pc = pc, !.email = Lower[a], !.late = l]
<1>1. request' = [request EXCEPT ![w] = r]
  BY DEF Receive, Advance
<1>2. DOMAIN r = RequestFields /\ r.pc = pc /\ r.email = Lower[a]
  <2> HIDE DEF l
  <2>1. QED BY DEF NoRequest, RequestFields
<1> HIDE DEF r
<1>3. /\ DOMAIN request' = Workers
      /\ \A v \in Workers \ {w} : request'[v] = request[v]
      /\ DOMAIN request'[w] = RequestFields
  BY <1>0, <1>1, <1>2 DEF ShapesInv
<1>4. RequestInv(w)'
  BY <1>0, <1>1, <1>2 DEF RequestInv, ShapesInv
<1>5. LocksKept(w)
  BY <1>0 DEF LocksKept, ShapesInv
<1>6. QED BY <1>0, <1>3, <1>4, <1>5, OneRequest

\* The e-mail is held from the insert on.
LEMMA CreateUserStep ==
  ASSUME IInv, NEW w \in Workers, CreateUser(w), SameRuns, defaults' = defaults
  PROVE  IInv'
<1>0. ShapesInv /\ SameTables /\ RequestInv(w) /\ request[w].pc = "user" /\ UNCHANGED <<tables, created>>
  BY Untouched DEF IInv, CreateUser, At, Rest, tables
<1>1. CASE End(w)
  BY <1>0, <1>1, Ends
<1>2. CASE ~End(w)
  <2>1. /\ request[w].email \notin DOMAIN users /\ locked[request[w].email] = Nobody
        /\ Go(w, "settings") /\ locked' = [locked EXCEPT ![request[w].email] = w]
    BY <1>2 DEF CreateUser, Free, Lock, Email
  <2>2. /\ DOMAIN request' = Workers
        /\ \A v \in Workers \ {w} : request'[v] = request[v]
        /\ DOMAIN request'[w] = RequestFields
        /\ request'[w].pc = "settings" /\ request'[w].email = request[w].email
    BY <1>0, <2>1, Going
  <2>3. RequestInv(w)'
    BY <1>0, <2>1, <2>2 DEF RequestInv, SameTables, ShapesInv
  <2>4. LocksKept(w)
    BY <1>0, <2>1 DEF LocksKept, ShapesInv
  <2>5. QED BY <1>0, <2>2, <2>3, <2>4, OneRequest
<1>3. QED BY <1>1, <1>2

LEMMA FindCodeStep ==
  ASSUME IInv, NEW w \in Workers, FindCode(w), SameRuns, defaults' = defaults
  PROVE  IInv'
<1>0. ShapesInv /\ SameTables /\ RequestInv(w) /\ request[w].pc = "find code" /\ locked' = locked
  BY Untouched DEF IInv, FindCode, At, Rest, tables
<1>1. request' = [request EXCEPT ![w] = [request[w] EXCEPT !.pc = "mark used", !.code = codes[Email(w)]]]
  BY DEF FindCode, Advance
<1>2. /\ DOMAIN request' = Workers
      /\ \A v \in Workers \ {w} : request'[v] = request[v]
      /\ DOMAIN request'[w] = RequestFields
      /\ request'[w].pc = "mark used" /\ request'[w].email = request[w].email
  BY <1>0, <1>1 DEF ShapesInv, RequestFields
<1>3. RequestInv(w)' /\ LocksKept(w)
  BY <1>0, <1>2 DEF RequestInv, LocksKept, ShapesInv
<1>4. QED BY <1>0, <1>2, <1>3, OneRequest

LEMMA ActivateStep ==
  ASSUME IInv, NEW w \in Workers, MarkEmailVerified(w), SameRuns, defaults' = defaults
  PROVE  IInv'
<1>0. ShapesInv /\ RequestInv(w) /\ request[w].pc = "activate" /\ locked' = locked /\ Go(w, "context")
  BY DEF IInv, MarkEmailVerified, At
<1>1. SameTables
  BY DEF MarkEmailVerified, SameTables
<1>2. /\ DOMAIN request' = Workers
      /\ \A v \in Workers \ {w} : request'[v] = request[v]
      /\ DOMAIN request'[w] = RequestFields
      /\ request'[w].pc = "context" /\ request'[w].email = request[w].email
  BY <1>0, Going
<1>3. RequestInv(w)' /\ LocksKept(w)
  BY <1>0, <1>2 DEF RequestInv, LocksKept, ShapesInv
<1>4. QED BY <1>0, <1>1, <1>2, <1>3, OneRequest

\* Mails, and what is suspended or deleted by hand.
LEMMA BesideSteps ==
  ASSUME IInv, SameRuns, defaults' = defaults,
         \/ \E a \in Addresses : Resend(a)
         \/ \E e \in Emails : SendCode(e) \/ LoseMail(e)
         \/ \E e \in Emails, what \in Disturbances : Disturb(e, what)
  PROVE  IInv'
<1>1. request' = request /\ locked' = locked
  BY DEF Resend, SendCode, LoseMail, Disturb
<1>2. SameTables
  <2>1. CASE UNCHANGED <<tables, created>>
    BY <2>1, Untouched
  <2>2. ASSUME NEW e \in Emails, NEW what \in Disturbances, Disturb(e, what) PROVE SameTables
    <3>1. /\ UNCHANGED <<settings, created>>
          /\ \/ UNCHANGED <<memberships, workspaces>> /\ DOMAIN users' = DOMAIN users
             \/ /\ UNCHANGED <<users, workspaces>>
                /\ memberships' = [memberships EXCEPT ![e].status = "SUSPENDED"]
             \/ UNCHANGED <<users, memberships>> /\ DOMAIN workspaces' = DOMAIN workspaces
      BY <2>2 DEF Disturb, Disturbances
    <3>2. QED BY <3>1 DEF SameTables, IInv, ShapesInv, MembershipFields
  <2>3. QED BY <2>1, <2>2 DEF Resend, SendCode, LoseMail
<1>3. QED BY <1>1, <1>2, Beside

\* The commit: user, membership, workspace and settings at once, for the e-mail held.
LEMMA CommitStep ==
  ASSUME IInv, NEW w \in Workers, CommitRegistration(w), SameRuns, defaults' = defaults
  PROVE  IInv'
<1> DEFINE e  == request[w].email
           id == NewWorkspace
<1>0. ShapesInv /\ TablesInv /\ PlansInv /\ request[w].pc = "commit"
  BY DEF IInv, CommitRegistration, At
<1>1. e \in Emails /\ e \notin DOMAIN users /\ locked[e] = w
  BY <1>0 DEF IInv, RequestInv
<1>2. id \in Nat \ {0} /\ id \notin DOMAIN workspaces
  BY <1>0, NewWorkspaceIsNew DEF TablesInv
<1> DEFINE m == NewMembership(id)
<1>3. DOMAIN m = MembershipFields /\ m.workspace = id
  BY DEF NewMembership, MembershipFields
<1>4. /\ users' = Put(users, e, NewUser) /\ memberships' = Put(memberships, e, m)
      /\ workspaces' = Put(workspaces, id, "ACTIVE") /\ settings' = Put(settings, id, "default")
      /\ created' = [created EXCEPT ![e] = @ + 1] /\ End(w)
  BY DEF CommitRegistration, Email
<1>5. /\ LocksKept(w) /\ DOMAIN request' = Workers
      /\ \A v \in Workers \ {w} : request'[v] = request[v]
      /\ DOMAIN request'[w] = RequestFields /\ RequestInv(w)'
  BY <1>0, <1>4, Ending
<1> HIDE DEF id, m, e
<1>6. /\ DOMAIN users' = DOMAIN users \cup {e} /\ DOMAIN memberships' = DOMAIN users \cup {e}
      /\ DOMAIN workspaces' = DOMAIN workspaces \cup {id} /\ DOMAIN settings' = DOMAIN workspaces \cup {id}
      /\ memberships'[e] = m /\ \A f \in DOMAIN users : memberships'[f] = memberships[f]
  BY <1>0, <1>1, <1>4 DEF Put, TablesInv
<1>7. created[e] = 0
  BY <1>0, <1>1 DEF TablesInv, ShapesInv
<1>8. created' \in [Emails -> Nat] /\ created'[e] = 1 /\ \A f \in Emails \ {e} : created'[f] = created[f]
  BY <1>0, <1>1, <1>4, <1>7 DEF ShapesInv
<1>9. ShapesInv'
  <2>1. \A f \in DOMAIN memberships' : DOMAIN memberships'[f] = MembershipFields
    BY <1>0, <1>3, <1>6 DEF ShapesInv, TablesInv
  <2>2. \A v \in Workers : DOMAIN request'[v] = RequestFields
    BY <1>0, <1>5 DEF ShapesInv
  <2>3. QED BY <1>0, <1>5, <1>8, <2>1, <2>2, RunsShape DEF ShapesInv, LocksKept
<1>10. TablesInv'
  <2>1. IsFiniteSet(DOMAIN workspaces')
    BY <1>0, <1>6, FS_AddElement DEF TablesInv
  <2>2. DOMAIN workspaces' = {memberships'[f].workspace : f \in DOMAIN memberships'}
    <3>1. {memberships'[f].workspace : f \in DOMAIN memberships'}
            = {memberships[f].workspace : f \in DOMAIN memberships} \cup {id}
      BY <1>0, <1>1, <1>3, <1>6 DEF TablesInv
    <3>2. QED BY <1>0, <1>6, <3>1 DEF TablesInv
  <2>3. \A f \in Emails : created'[f] <= 1 /\ (created'[f] = 1 => f \in DOMAIN users')
    BY <1>0, <1>6, <1>8 DEF TablesInv
  <2>4. QED BY <1>0, <1>1, <1>2, <1>6, <2>1, <2>2, <2>3 DEF TablesInv
<1>11. ASSUME NEW v \in Workers PROVE RequestInv(v)'
  <2>1. CASE v = w
    BY <1>5, <2>1
  <2>2. CASE v # w
    <3>1. RequestInv(v) /\ request'[v] = request[v]
      BY <1>5, <2>2 DEF IInv
    <3>2. ASSUME request[v].pc \in {"settings", "commit"}
          PROVE  locked'[request[v].email] = v /\ request[v].email \notin DOMAIN users'
      <4>1. request[v].email \in Emails /\ locked[request[v].email] = v /\ request[v].email \notin DOMAIN users
        BY <3>1, <3>2 DEF RequestInv
      <4>2. request[v].email # e
        BY <1>1, <2>2, <4>1
      <4>3. QED BY <1>5, <1>6, <2>2, <4>1, <4>2, Distinct DEF LocksKept
    <3>3. QED BY <3>1, <3>2 DEF RequestInv
  <2>3. QED BY <2>1, <2>2
<1>12. ASSUME NEW s \in Seeders PROVE AdminInv(s)'
  <2>1. AdminInv(s) /\ Stays(s) /\ AdminEmail \in Emails /\ DOMAIN memberships = DOMAIN users
    BY <1>0, SeedAssumption DEF IInv, SameRuns, TablesInv
  <2>2. ASSUME seed[s].pc = "commit" PROVE locked'[AdminEmail] = s /\ AdminEmail # e
    BY <1>1, <1>5, <2>1, <2>2, Distinct DEF AdminInv, LocksKept
  <2>3. QED BY <1>6, <2>1, <2>2 DEF AdminInv, Stays
<1>13. PlansInv'
  BY <1>0, PlansStay
<1>14. QED BY <1>9, <1>10, <1>11, <1>12, <1>13 DEF IInv

LEMMA RegistrationSteps ==
  ASSUME IInv, NextRegistration, SameRuns, defaults' = defaults
  PROVE  IInv'
<1>1. ASSUME NEW w \in Workers, NEW a \in Addresses, BeginRegister(w, a) \/ BeginVerify(w, a) PROVE IInv'
  BY <1>1, ReceiveStep DEF BeginRegister, BeginVerify
<1>2. ASSUME NEW w \in Workers,
             \/ EmailExists(w) \/ CreateWorkspace(w) \/ CreateMembershipAndSettings(w)
             \/ FindUser(w) \/ ResolveWorkspace(w) \/ Cut(w)
      PROVE  IInv'
  <2>1. /\ UNCHANGED <<tables, created>>
        /\ \/ End(w)
           \/ /\ locked' = locked
              /\ \/ Go(w, "workspace") /\ request[w].pc = "email exists"
                 \/ Go(w, "user") /\ request[w].pc = "workspace"
                 \/ Go(w, "commit") /\ request[w].pc = "settings"
                 \/ Go(w, "find code") /\ request[w].pc = "find user"
    BY <1>2 DEF EmailExists, CreateWorkspace, CreateMembershipAndSettings, FindUser, ResolveWorkspace, Cut, Rest, At
  <2>2. QED BY <2>1, Ends, GoesOn
<1>3. ASSUME NEW w \in Workers, MarkUsed(w) PROVE IInv'
  <2>1. UNCHANGED <<tables, created>> /\ locked' = locked /\ Go(w, "activate") /\ request[w].pc = "mark used"
    BY <1>3 DEF MarkUsed, At
  <2>2. QED BY <2>1, GoesOn
<1>4. ASSUME NEW w \in Workers, CreateUser(w) \/ CommitRegistration(w) \/ FindCode(w) \/ MarkEmailVerified(w)
      PROVE  IInv'
  BY <1>4, CreateUserStep, CommitStep, FindCodeStep, ActivateStep
<1>5. QED BY <1>1, <1>2, <1>3, <1>4, BesideSteps DEF NextRegistration

-----------------------------------------------------------------------------
(* The steps of runs.                                                      *)

\* What all of them but the transaction do: the run goes on, to where nothing is claimed of it.
LEMMA RunGoesOn ==
  ASSUME IInv, NEW s \in Seeders, UNCHANGED <<tables, created, request>>, LocksKept(s),
         NEW r, Watched(s, r), DOMAIN r = RunFields, r.found \in BOOLEAN,
         r.pc \notin {"read plan again", "write user", "commit"}, PlansInv'
  PROVE  IInv'
<1>1. ShapesInv /\ SameTables
  BY Untouched DEF IInv
<1>2. DOMAIN seed' = Seeders /\ seed'[s] = r /\ \A t \in Seeders \ {s} : Stays(t)
  BY <1>1, WatchedRun
<1>3. AdminInv(s)'
  BY <1>2 DEF AdminInv
<1>4. QED BY <1>1, <1>2, <1>3, OneRun

LEMMA PlansKept ==
  ASSUME IInv, NEW s \in Seeders, NEW r, Watched(s, r),
         defaults' = defaults \/ defaults' = defaults \cap {FreePlan} \/ defaults \cup defaults' \subseteq {FreePlan},
         r.pc = "upsert plan" => defaults' \subseteq {FreePlan}
  PROVE  PlansInv'
<1>1. DOMAIN seed' = Seeders /\ seed'[s] = r /\ \A t \in Seeders \ {s} : Stays(t)
  BY WatchedRun DEF IInv
<1>2. PICK p \in {FreePlan} \cup OtherPlans : defaults \subseteq {p}
  BY DEF IInv, PlansInv
<1>3. \E q \in {FreePlan} \cup OtherPlans : defaults' \subseteq {q}
  BY <1>2
<1>4. ASSUME NEW t \in Seeders, seed'[t].pc = "upsert plan" PROVE defaults' \subseteq {FreePlan}
  BY <1>1, <1>4 DEF IInv, PlansInv, Stays
<1>5. QED BY <1>3, <1>4 DEF PlansInv

LEMMA SeedReads ==
  ASSUME IInv, NEW s \in Seeders,
         \/ \E dry \in BOOLEAN : Begin(s, dry)
         \/ ReadCurrencies(s) \/ ReadCountries(s)
         \/ \E c \in Catalogue : UpsertRow(s, c)
         \/ ReadPlan(s) \/ CountDefaults(s) \/ Finish(s) \/ CutSeed(s)
  PROVE  IInv'
<1>0. ShapesInv /\ DOMAIN seed[s] = RunFields /\ seed[s].found \in BOOLEAN
  BY DEF IInv, ShapesInv
<1>1. UNCHANGED <<tables, created, request>> /\ defaults' = defaults
  BY DEF Begin, ReadCurrencies, ReadCountries, UpsertRow, ReadPlan, CountDefaults, Finish, CutSeed, Others, db, plans
<1>2. LocksKept(s)
  BY <1>0 DEF Begin, ReadCurrencies, ReadCountries, UpsertRow, ReadPlan, CountDefaults, Finish, CutSeed,
              Release, LocksKept, ShapesInv
<1>3. DOMAIN NoRun = RunFields /\ NoRun.found = FALSE /\ NoRun.pc = "idle"
  BY DEF NoRun, RunFields
<1>4. \E r : /\ Watched(s, r) /\ DOMAIN r = RunFields /\ r.found \in BOOLEAN
             /\ r.pc \notin {"read plan again", "write user", "commit"}
             /\ r.pc = "upsert plan" => defaults \subseteq {FreePlan}
  <2> DEFINE Fits(r) == /\ Watched(s, r) /\ DOMAIN r = RunFields /\ r.found \in BOOLEAN
                        /\ r.pc \notin {"read plan again", "write user", "commit"}
                        /\ r.pc = "upsert plan" => defaults \subseteq {FreePlan}
  <2>1. ASSUME NEW dry \in BOOLEAN, Begin(s, dry) PROVE \E r : Fits(r)
    <3> DEFINE b == [p \in Parts |-> State(p)]
               r == [NoRun EXCEPT !.pc = "read currencies", !.dry = dry, !.before = b]
    <3>1. Watched(s, r)
      BY <2>1 DEF Begin
    <3> HIDE DEF b
    <3>2. DOMAIN r = RunFields /\ r.found = FALSE /\ r.pc = "read currencies"
      BY <1>3 DEF RunFields
    <3> HIDE DEF r
    <3>3. QED BY <3>1, <3>2
  <2>2. CASE ReadCurrencies(s)
    <3> DEFINE pc == IF seed[s].dry THEN "read countries" ELSE "currencies"
               p  == IF seed[s].dry THEN {} ELSE Currencies
               r  == [seed[s] EXCEPT !.report = Reported(s, Currencies), !.pc = pc, !.pending = p]
    <3>1. Watched(s, r) /\ pc \in {"read countries", "currencies"}
      BY <2>2 DEF ReadCurrencies
    <3> HIDE DEF pc, p
    <3>2. DOMAIN r = RunFields /\ r.found = seed[s].found /\ r.pc = pc
      BY <1>0 DEF RunFields
    <3> HIDE DEF r
    <3>3. QED BY <1>0, <3>1, <3>2
  <2>3. CASE ReadCountries(s)
    <3> DEFINE pc == IF seed[s].dry THEN "read plan" ELSE "countries"
               p  == IF seed[s].dry THEN {} ELSE Countries
               r  == [seed[s] EXCEPT !.report = Reported(s, Countries), !.pc = pc, !.pending = p]
    <3>1. Watched(s, r) /\ pc \in {"read plan", "countries"}
      BY <2>3 DEF ReadCountries
    <3> HIDE DEF pc, p
    <3>2. DOMAIN r = RunFields /\ r.found = seed[s].found /\ r.pc = pc
      BY <1>0 DEF RunFields
    <3> HIDE DEF r
    <3>3. QED BY <1>0, <3>1, <3>2
  <2>4. ASSUME NEW c \in Catalogue, UpsertRow(s, c) PROVE \E r : Fits(r)
    <3> DEFINE r == [seed[s] EXCEPT !.pending = @ \ {c}]
    <3>1. Watched(s, r) /\ seed[s].pc \in {"currencies", "countries"}
      BY <2>4 DEF UpsertRow, In
    <3>2. DOMAIN r = RunFields /\ r.found = seed[s].found /\ r.pc = seed[s].pc
      BY <1>0 DEF RunFields
    <3> HIDE DEF r
    <3>3. QED BY <1>0, <3>1, <3>2
  <2>5. CASE ReadPlan(s)
    <3> DEFINE r == [seed[s] EXCEPT !.pc = "count defaults", !.plan = FoundPlan]
    <3>1. Watched(s, r)
      BY <2>5 DEF ReadPlan
    <3>2. DOMAIN r = RunFields /\ r.found = seed[s].found /\ r.pc = "count defaults"
      BY <1>0 DEF RunFields
    <3> HIDE DEF r
    <3>3. QED BY <1>0, <3>1, <3>2
  <2>6. CASE CountDefaults(s)
    <3> DEFINE others == defaults \ {FreePlan}
               t  == [p \in DOMAIN seed[s].report \cup {"plan"} |->
                        IF p = "plan" THEN Status(PlanPart(seed[s].plan, others)) ELSE seed[s].report[p]]
               pc == IF seed[s].dry THEN "read admin"
                     ELSE IF others # {} THEN "clear defaults" ELSE "upsert plan"
               r  == [seed[s] EXCEPT !.report = t, !.pc = pc]
    <3>1. Watched(s, r)
      BY <2>6 DEF CountDefaults
    <3>2. pc \in {"read admin", "clear defaults", "upsert plan"} /\ (pc = "upsert plan" => defaults \subseteq {FreePlan})
      OBVIOUS
    <3> HIDE DEF t, pc
    <3>3. DOMAIN r = RunFields /\ r.found = seed[s].found /\ r.pc = pc
      BY <1>0 DEF RunFields
    <3> HIDE DEF r
    <3>4. QED BY <1>0, <3>1, <3>2, <3>3
  <2>7. CASE Finish(s) \/ CutSeed(s)
    <3>1. Watched(s, NoRun)
      BY <2>7 DEF Finish, CutSeed
    <3>2. QED BY <1>3, <3>1
  <2>8. QED BY <2>1, <2>2, <2>3, <2>4, <2>5, <2>6, <2>7
<1>5. QED BY <1>1, <1>2, <1>4, RunGoesOn, PlansKept

LEMMA Stepping ==
  ASSUME ShapesInv, NEW s \in Seeders, NEW pc, Step(s, pc)
  PROVE  \E r : /\ Watched(s, r) /\ DOMAIN r = RunFields
                /\ r.found = seed[s].found /\ r.home = seed[s].home /\ r.pc = pc
<1> DEFINE r == [seed[s] EXCEPT !.pc = pc]
<1>1. Watched(s, r) /\ DOMAIN seed[s] = RunFields
  BY DEF Step, ShapesInv
<1>2. DOMAIN r = RunFields /\ r.found = seed[s].found /\ r.home = seed[s].home /\ r.pc = pc
  BY <1>1 DEF RunFields
<1> HIDE DEF r
<1>3. QED BY <1>1, <1>2

\* The two writes of the default plan.
LEMMA PlanSteps ==
  ASSUME IInv, NEW s \in Seeders, ClearDefaults(s) \/ UpsertPlan(s)
  PROVE  IInv'
<1>0. ShapesInv /\ LocksKept(s) /\ seed[s].found \in BOOLEAN
  BY DEF IInv, ShapesInv, LocksKept, ClearDefaults, UpsertPlan
<1>1. UNCHANGED <<tables, created, request>>
  BY DEF ClearDefaults, UpsertPlan, Others
<1>2. CASE ClearDefaults(s)
  <2>1. defaults' = defaults \cap {FreePlan} /\ Step(s, "upsert plan")
    BY <1>2 DEF ClearDefaults
  <2>2. PICK r : /\ Watched(s, r) /\ DOMAIN r = RunFields
                 /\ r.found = seed[s].found /\ r.home = seed[s].home /\ r.pc = "upsert plan"
    BY <1>0, <2>1, Stepping
  <2>3. PlansInv'
    BY <2>1, <2>2, PlansKept
  <2>4. QED BY <1>0, <1>1, <2>2, <2>3, RunGoesOn
<1>3. CASE UpsertPlan(s)
  <2>1. defaults' = defaults \cup {FreePlan} /\ Step(s, "read admin") /\ defaults \subseteq {FreePlan}
    BY <1>3 DEF UpsertPlan, In, IInv, PlansInv
  <2>2. PICK r : /\ Watched(s, r) /\ DOMAIN r = RunFields
                 /\ r.found = seed[s].found /\ r.home = seed[s].home /\ r.pc = "read admin"
    BY <1>0, <2>1, Stepping
  <2>3. PlansInv'
    BY <2>1, <2>2, PlansKept
  <2>4. QED BY <1>0, <1>1, <2>2, <2>3, RunGoesOn
<1>4. QED BY <1>2, <1>3

\* The super admin as read.
LEMMA ReadAdminStep ==
  ASSUME IInv, NEW s \in Seeders, ReadAdmin(s)
  PROVE  IInv'
<1>0. ShapesInv /\ TablesInv /\ LocksKept(s) /\ DOMAIN seed[s] = RunFields
  BY DEF IInv, ShapesInv, LocksKept, ReadAdmin
<1>1. UNCHANGED <<tables, created, request>> /\ defaults' = defaults /\ SameTables
  BY Untouched DEF ReadAdmin, Others, db, plans
<1>2. PICK f \in BOOLEAN : f = (AdminEmail \in DOMAIN users)
  <2>1. (AdminEmail \in DOMAIN users) \in BOOLEAN
    OBVIOUS
  <2>2. QED BY <2>1
<1> DEFINE t == Reported(s, AdminParts \ {"subscription"})
           r == [seed[s] EXCEPT !.report = t, !.found = f, !.home = Home,
                   !.subscription = FoundSubscription, !.pc = "read plan again"]
<1>3. Watched(s, r)
  <2>1. Watched(s, [seed[s] EXCEPT !.report = t, !.found = AdminEmail \in DOMAIN users, !.home = Home,
                      !.subscription = FoundSubscription, !.pc = "read plan again"])
    BY DEF ReadAdmin
  <2>2. QED BY <1>2, <2>1, Zenon
<1> HIDE DEF t
<1>4. DOMAIN r = RunFields /\ r.found = f /\ r.home = Home /\ r.pc = "read plan again"
  BY <1>0 DEF RunFields
<1> HIDE DEF r
<1>5. DOMAIN seed' = Seeders /\ seed'[s] = r /\ \A u \in Seeders \ {s} : Stays(u)
  BY <1>0, <1>3, WatchedRun
<1>6. AdminInv(s)'
  <2>1. IF f THEN AdminEmail \in DOMAIN users' /\ Home = memberships'[AdminEmail].workspace ELSE Home = 0
    BY <1>0, <1>1, <1>2 DEF Home, TablesInv, tables
  <2>2. QED BY <1>4, <1>5, <2>1 DEF AdminInv
<1>7. PlansInv'
  BY <1>1, <1>3, <1>4, PlansKept
<1>8. QED BY <1>0, <1>1, <1>2, <1>4, <1>5, <1>6, <1>7, OneRun

\* The free plan as read again.
LEMMA ReadPlanAgainStep ==
  ASSUME IInv, NEW s \in Seeders, ReadPlanAgain(s)
  PROVE  IInv'
<1>0. ShapesInv /\ TablesInv /\ LocksKept(s) /\ DOMAIN seed[s] = RunFields /\ AdminInv(s)
      /\ seed[s].pc = "read plan again" /\ seed[s].found \in BOOLEAN
  BY DEF IInv, ShapesInv, LocksKept, ReadPlanAgain, In
<1>1. UNCHANGED <<tables, created, request>> /\ defaults' = defaults /\ SameTables
  BY Untouched DEF ReadPlanAgain, Others, db, plans
<1> DEFINE t  == [p \in DOMAIN seed[s].report \cup {"subscription"} |->
                    IF p = "subscription" THEN Status(Against(seed[s].subscription, freePlan)) ELSE seed[s].report[p]]
           pc == IF seed[s].dry THEN "finish" ELSE "write user"
           r  == [seed[s] EXCEPT !.plan = freePlan, !.report = t, !.pc = pc]
<1>2. Watched(s, r) /\ pc \in {"finish", "write user"}
  BY DEF ReadPlanAgain
<1> HIDE DEF t, pc
<1>3. DOMAIN r = RunFields /\ r.found = seed[s].found /\ r.home = seed[s].home /\ r.pc = pc
  BY <1>0 DEF RunFields
<1> HIDE DEF r
<1>4. DOMAIN seed' = Seeders /\ seed'[s] = r /\ \A u \in Seeders \ {s} : Stays(u)
  BY <1>0, <1>2, WatchedRun
<1>5. AdminInv(s)'
  <2>1. IF seed[s].found THEN AdminEmail \in DOMAIN users' /\ seed[s].home = memberships'[AdminEmail].workspace
        ELSE seed[s].home = 0
    BY <1>0, <1>1 DEF AdminInv, tables
  <2>2. QED BY <1>2, <1>3, <1>4, <2>1 DEF AdminInv
<1>6. PlansInv'
  BY <1>1, <1>2, <1>3, PlansKept
<1>7. QED BY <1>0, <1>1, <1>3, <1>4, <1>5, <1>6, OneRun

\* The first statement of the transaction: from here on the row is the run's.
LEMMA WriteUserStep ==
  ASSUME IInv, NEW s \in Seeders, WriteUser(s)
  PROVE  IInv'
<1>0. ShapesInv /\ TablesInv /\ seed[s].found \in BOOLEAN /\ AdminInv(s) /\ AdminEmail \in Emails
  BY SeedAssumption DEF IInv, ShapesInv
<1>1. UNCHANGED <<tables, created, request>> /\ defaults' = defaults /\ SameTables
  BY Untouched DEF WriteUser, Others, db, plans
<1>2. /\ seed[s].pc = "write user" /\ locked[AdminEmail] = Nobody /\ locked' = [locked EXCEPT ![AdminEmail] = s]
      /\ seed[s].found = (AdminEmail \in DOMAIN users) /\ Step(s, "commit")
  BY DEF WriteUser, In, Free, Lock
<1>3. LocksKept(s) /\ locked'[AdminEmail] = s
  BY <1>0, <1>2 DEF LocksKept, ShapesInv
<1>4. PICK r : /\ Watched(s, r) /\ DOMAIN r = RunFields
               /\ r.found = seed[s].found /\ r.home = seed[s].home /\ r.pc = "commit"
  BY <1>0, <1>2, Stepping
<1>5. DOMAIN seed' = Seeders /\ seed'[s] = r /\ \A u \in Seeders \ {s} : Stays(u)
  BY <1>0, <1>4, WatchedRun
<1>6. AdminInv(s)'
  <2>1. seed'[s].found = seed[s].found /\ seed'[s].home = seed[s].home /\ seed'[s].pc = "commit"
    BY <1>4, <1>5
  <2>2. AdminEmail \in DOMAIN users => seed[s].found
    BY <1>2
  <2>3. QED BY <1>0, <1>1, <1>2, <1>3, <2>1, <2>2 DEF AdminInv, tables
<1>7. PlansInv'
  BY <1>1, <1>4, PlansKept
<1>8. QED BY <1>0, <1>1, <1>3, <1>4, <1>5, <1>6, <1>7, OneRun

\* The commit of the transaction: the workspace is the one read, or a new one, and the
\* super admin's membership goes on referring to it.
LEMMA CommitAdminStep ==
  ASSUME IInv, NEW s \in Seeders, CommitAdmin(s)
  PROVE  IInv'
<1> DEFINE e  == AdminEmail
           id == IF seed[s].home = 0 THEN NewWorkspace ELSE seed[s].home
           m  == [NewMembership(id) EXCEPT !.joined = TRUE]
<1>0. /\ ShapesInv /\ TablesInv /\ e \in Emails /\ seed[s].pc = "commit"
      /\ locked[e] = s /\ (e \in DOMAIN users => seed[s].found)
      /\ IF seed[s].found THEN e \in DOMAIN users /\ seed[s].home = memberships[e].workspace ELSE seed[s].home = 0
  BY SeedAssumption DEF IInv, CommitAdmin, In, AdminInv
<1>1. NewWorkspace \in Nat \ {0} /\ NewWorkspace \notin DOMAIN workspaces
  BY <1>0, NewWorkspaceIsNew DEF TablesInv
<1>2. /\ id \in Nat \ {0}
      /\ e \in DOMAIN users => id = memberships[e].workspace /\ id \in DOMAIN workspaces
  BY <1>0, <1>1 DEF TablesInv
<1>3. DOMAIN m = MembershipFields /\ m.workspace = id
  <2> HIDE DEF id
  <2>1. QED BY DEF NewMembership, MembershipFields
<1>4. /\ DOMAIN users' = DOMAIN users \cup {e} /\ DOMAIN memberships' = DOMAIN memberships \cup {e}
      /\ DOMAIN workspaces' = DOMAIN workspaces \cup {id} /\ DOMAIN settings' = DOMAIN settings \cup {id}
      /\ memberships'[e] = m /\ \A f \in DOMAIN users \ {e} : memberships'[f] = memberships[f]
      /\ UNCHANGED <<created, request, defaults>> /\ Release(s) /\ Step(s, "finish")
  <2>1. /\ users' = Put(users, e, SeededUser) /\ memberships' = Put(memberships, e, m)
        /\ workspaces' = Put(workspaces, id, "ACTIVE") /\ settings' = Put(settings, id, "seeded")
        /\ UNCHANGED <<created, request, defaults>> /\ Release(s) /\ Step(s, "finish")
    BY DEF CommitAdmin, ActiveWorkspaces, plans
  <2> HIDE DEF id, m
  <2>2. QED BY <1>0, <2>1 DEF Put, TablesInv
<1> HIDE DEF id, m
<1>5. LocksKept(s)
  BY <1>4 DEF Release, LocksKept
<1>6. PICK r : /\ Watched(s, r) /\ DOMAIN r = RunFields
               /\ r.found = seed[s].found /\ r.home = seed[s].home /\ r.pc = "finish"
  BY <1>0, <1>4, Stepping
<1>7. DOMAIN seed' = Seeders /\ seed'[s] = r /\ \A t \in Seeders \ {s} : Stays(t)
  BY <1>0, <1>6, WatchedRun
<1>8. ShapesInv'
  <2>1. \A f \in DOMAIN memberships' : DOMAIN memberships'[f] = MembershipFields
    BY <1>0, <1>3, <1>4 DEF ShapesInv, TablesInv
  <2>2. \A t \in Seeders : DOMAIN seed'[t] = RunFields /\ seed'[t].found \in BOOLEAN
    BY <1>0, <1>6, <1>7 DEF ShapesInv, Stays
  <2>3. QED BY <1>0, <1>4, <1>5, <1>7, <2>1, <2>2 DEF ShapesInv, LocksKept
<1>9. TablesInv'
  <2>1. IsFiniteSet(DOMAIN workspaces')
    BY <1>0, <1>4, FS_AddElement DEF TablesInv
  <2>2. DOMAIN workspaces' = {memberships'[f].workspace : f \in DOMAIN memberships'}
    <3>1. {memberships'[f].workspace : f \in DOMAIN memberships'}
            = {memberships[f].workspace : f \in DOMAIN memberships} \cup {id}
      <4>1. \A f \in DOMAIN memberships' : memberships'[f].workspace = IF f = e THEN id ELSE memberships[f].workspace
        BY <1>0, <1>3, <1>4 DEF TablesInv
      <4>2. e \in DOMAIN memberships => memberships[e].workspace = id
        BY <1>0, <1>2 DEF TablesInv
      <4>3. QED BY <1>4, <4>1, <4>2
    <3>2. QED BY <1>0, <1>4, <3>1 DEF TablesInv
  <2>3. QED BY <1>0, <1>2, <1>4, <2>1, <2>2 DEF TablesInv
<1>10. ASSUME NEW w \in Workers PROVE RequestInv(w)'
  <2>1. RequestInv(w) /\ w # s /\ w # Nobody
    BY Distinct DEF IInv
  <2>2. ASSUME request[w].pc \in {"settings", "commit"}
        PROVE  locked'[request[w].email] = w /\ request[w].email \notin DOMAIN users'
    <3>1. request[w].email \in Emails /\ locked[request[w].email] = w /\ request[w].email \notin DOMAIN users
      BY <2>1, <2>2 DEF RequestInv
    <3>2. request[w].email # e
      BY <1>0, <2>1, <3>1
    <3>3. QED BY <1>4, <1>5, <2>1, <3>1, <3>2 DEF LocksKept
  <2>3. QED BY <1>4, <2>1, <2>2 DEF RequestInv
<1>11. ASSUME NEW t \in Seeders PROVE AdminInv(t)'
  <2>1. CASE t = s
    BY <1>6, <1>7, <2>1 DEF AdminInv
  <2>2. CASE t # s
    <3>1. AdminInv(t) /\ Stays(t)
      BY <1>7, <2>2 DEF IInv
    <3>2. seed[t].pc # "commit"
      BY <1>0, <2>2, <3>1 DEF AdminInv
    <3>3. ASSUME seed[t].pc \in {"read plan again", "write user"}
          PROVE  IF seed[t].found THEN e \in DOMAIN users' /\ seed[t].home = memberships'[e].workspace ELSE seed[t].home = 0
      BY <1>2, <1>3, <1>4, <3>1, <3>3 DEF AdminInv
    <3>4. QED BY <3>1, <3>2, <3>3 DEF AdminInv, Stays
  <2>3. QED BY <2>1, <2>2
<1>12. PlansInv'
  BY <1>4, <1>6, PlansKept
<1>13. QED BY <1>8, <1>9, <1>10, <1>11, <1>12 DEF IInv

LEMMA EditStep ==
  ASSUME IInv, EditSettings \/ EditProfile \/ EditSubscription \/ EditPlan
  PROVE  IInv'
<1>1. EditedBesideRuns /\ DOMAIN settings' = DOMAIN settings
  BY DEF EditSettings, EditProfile, EditSubscription, EditPlan
<1>2. SameRuns
  BY <1>1, WatchedBeside DEF IInv, EditedBesideRuns
<1>3. request' = request /\ locked' = locked /\ defaults' = defaults
  BY <1>1 DEF EditedBesideRuns
<1>4. UNCHANGED <<users, memberships, workspaces, created>>
  BY <1>1 DEF EditedBesideRuns
<1>5. SameTables
  BY <1>1, <1>4 DEF SameTables
<1>6. QED BY <1>2, <1>3, <1>5, Beside

-----------------------------------------------------------------------------
LEMMA InitInv == Init => IInv
<1> SUFFICES ASSUME Init PROVE IInv
  OBVIOUS
<1>1. /\ DOMAIN users = {} /\ DOMAIN memberships = {} /\ DOMAIN workspaces = {} /\ DOMAIN settings = {}
      /\ locked = [e \in Emails |-> Nobody] /\ created = [e \in Emails |-> 0]
      /\ request = [w \in Workers |-> NoRequest]
  BY DEF Init, InitRegistration, EmptyTable
<1>2. seed = [s \in Seeders |-> NoRun] /\ defaults \in {{}} \cup {{p} : p \in OtherPlans}
  BY DEF Init
<1>3. DOMAIN NoRequest = RequestFields /\ NoRequest.pc = "idle"
  BY DEF NoRequest, RequestFields
<1>4. DOMAIN NoRun = RunFields /\ NoRun.pc = "idle" /\ NoRun.found = FALSE
  BY DEF NoRun, RunFields
<1>5. ShapesInv
  BY <1>1, <1>2, <1>3, <1>4 DEF ShapesInv
<1>6. TablesInv
  BY <1>1, FS_EmptySet DEF TablesInv
<1>7. PlansInv
  BY <1>2, <1>4 DEF PlansInv
<1>8. (\A w \in Workers : RequestInv(w)) /\ \A s \in Seeders : AdminInv(s)
  BY <1>1, <1>2, <1>3, <1>4 DEF RequestInv, AdminInv
<1>9. QED BY <1>5, <1>6, <1>7, <1>8 DEF IInv

LEMMA NextInv == IInv /\ [Next]_vars => IInv'
<1> SUFFICES ASSUME IInv, [Next]_vars PROVE IInv'
  OBVIOUS
<1>1. CASE NextRegistration /\ UNCHANGED <<plans, subscriptions, profiles>> /\ Watched(Nobody, NoRun)
  BY <1>1, WatchedBeside, RegistrationSteps DEF IInv, plans
<1>2. ASSUME NEW s \in Seeders, RunSeed(s) PROVE IInv'
  BY <1>2, SeedReads, PlanSteps, ReadAdminStep, ReadPlanAgainStep, WriteUserStep, CommitAdminStep DEF RunSeed
<1>3. CASE EditSettings \/ EditProfile \/ EditSubscription \/ EditPlan
  BY <1>3, EditStep
<1>4. CASE UNCHANGED vars
  <2>1. UNCHANGED <<tables, created, request, locked, defaults, seed>>
    BY <1>4 DEF vars, registrationVars, plans
  <2>2. SameRuns
    BY <2>1 DEF SameRuns, Stays, IInv, ShapesInv
  <2>3. QED BY <2>1, <2>2, Untouched, Beside
<1>5. QED BY <1>1, <1>2, <1>3, <1>4 DEF Next

\* What the proofs of this module rest on: who holds which e-mail, and that what a run has read of
\* the super admin and of the default plans is still true when it writes.
THEOREM BootstrapInvariant == Spec => []IInv
<1>1. Init => IInv
  BY InitInv
<1>2. IInv /\ [Next]_vars => IInv'
  BY NextInv
<1>3. QED BY <1>1, <1>2, PTL DEF Spec

\* At most one registration wins an e-mail, and every user has a membership in a workspace with
\* settings, however registrations, verifications, crashes and runs of the script overlap.
THEOREM RegistrationsStayWhole == Spec => []RegistrationsWhole
<1>1. IInv => RegistrationsWhole
  BY DEF IInv, TablesInv, RegistrationsWhole
<1>2. QED BY <1>1, BootstrapInvariant, PTL

\* Two plans are never the default at once, between any two statements of any number of runs.
THEOREM DefaultPlanIsOne == Spec => []OneDefaultPlan
<1>1. IInv => OneDefaultPlan
  <2>1. SUFFICES ASSUME NEW p, defaults \subseteq {p} PROVE Cardinality(defaults) <= 1
    BY DEF IInv, PlansInv, OneDefaultPlan
  <2>2. IsFiniteSet({p}) /\ Cardinality({p}) = 1
    BY FS_Singleton
  <2>3. defaults \in SUBSET {p}
    BY <2>1
  <2>4. Cardinality(defaults) <= Cardinality({p})
    BY <2>2, <2>3, FS_Subset
  <2>5. QED BY <2>2, <2>4
<1>2. QED BY <1>1, BootstrapInvariant, PTL

-----------------------------------------------------------------------------
(* Verified e-mails.                                                       *)

UserFields == {"status", "verified", "deleted", "role", "person"}

UsersInv == \A e \in DOMAIN users : DOMAIN users[e] = UserFields

\* A verification that came late has not found its user yet, and will not.
LateInv(w) ==
  request[w].late /\ request[w].op = "verify" =>
    request[w].pc = "find user" /\ request[w].email \in DOMAIN users /\ users[request[w].email].verified

VerifiedInv == UsersInv /\ \A w \in Workers : LateInv(w)

\* A verified e-mail stays verified.
UsersKept ==
  /\ DOMAIN users \subseteq DOMAIN users'
  /\ \A e \in DOMAIN users : users[e].verified => users'[e].verified

LEMMA UsersStay ==
  ASSUME IInv, UsersInv, [Next]_vars
  PROVE  UsersKept /\ UsersInv'
<1>1. CASE users' = users
  BY <1>1 DEF UsersKept, UsersInv
<1>2. ASSUME NEW e \in Emails, NEW row, DOMAIN row = UserFields, e \in DOMAIN users => row.verified,
             users' = Put(users, e, row)
      PROVE  UsersKept /\ UsersInv'
  BY <1>2 DEF Put, UsersKept, UsersInv
<1>3. ASSUME NEW w \in Workers, CommitRegistration(w) PROVE UsersKept /\ UsersInv'
  <2>1. Email(w) \in Emails /\ Email(w) \notin DOMAIN users
    BY <1>3 DEF IInv, RequestInv, CommitRegistration, At, Email
  <2>2. DOMAIN NewUser = UserFields
    BY DEF NewUser, UserFields
  <2>3. QED BY <1>2, <1>3, <2>1, <2>2 DEF CommitRegistration
<1>4. ASSUME NEW w \in Workers, MarkEmailVerified(w) PROVE UsersKept /\ UsersInv'
  <2>1. users' = [users EXCEPT ![Email(w)].verified = TRUE, ![Email(w)].status = "ACTIVE"]
    BY <1>4 DEF MarkEmailVerified
  <2>2. QED BY <2>1 DEF UsersKept, UsersInv, UserFields
<1>5. ASSUME NEW e \in Emails, NEW what \in Disturbances, Disturb(e, what) PROVE UsersKept /\ UsersInv'
  <2>1. \/ users' = users
        \/ users' = [users EXCEPT ![e].status = "SUSPENDED"]
        \/ users' = [users EXCEPT ![e].status = "DELETED", ![e].deleted = TRUE]
    BY <1>5 DEF Disturb, Disturbances
  <2>2. QED BY <1>1, <2>1 DEF UsersKept, UsersInv, UserFields
<1>6. ASSUME NEW s \in Seeders, CommitAdmin(s) PROVE UsersKept /\ UsersInv'
  <2>1. DOMAIN SeededUser = UserFields /\ SeededUser.verified
    BY DEF SeededUser, NewUser, SuperAdmin, UserFields
  <2>2. QED BY <1>2, <1>6, <2>1, SeedAssumption DEF CommitAdmin
<1>7. CASE NextRegistration
  BY <1>1, <1>3, <1>4, <1>5, <1>7
     DEF NextRegistration, BeginRegister, BeginVerify, Receive, EmailExists, CreateWorkspace, CreateUser,
         CreateMembershipAndSettings, FindUser, FindCode, MarkUsed, ResolveWorkspace, Cut, Resend,
         SendCode, LoseMail, Rest, tables
<1>8. ASSUME NEW s \in Seeders, RunSeed(s) PROVE UsersKept /\ UsersInv'
  BY <1>1, <1>6, <1>8
     DEF RunSeed, Begin, ReadCurrencies, ReadCountries, UpsertRow, ReadPlan, CountDefaults, ClearDefaults,
         UpsertPlan, ReadAdmin, ReadPlanAgain, WriteUser, Finish, CutSeed, db, tables
<1>9. QED BY <1>1, <1>7, <1>8 DEF Next, EditSettings, EditProfile, EditSubscription, EditPlan, EditedBesideRuns,
                                  vars, registrationVars, tables

\* A request that is not the one that goes on, or that ends.
LEMMA LateStays ==
  ASSUME UsersKept, NEW w \in Workers, LateInv(w), request'[w] = request[w] \/ request'[w] = NoRequest
  PROVE  LateInv(w)'
<1>1. CASE request'[w] = NoRequest
  <2>1. ~NoRequest.late
    BY DEF NoRequest
  <2>2. QED BY <1>1, <2>1 DEF LateInv
<1>2. CASE request'[w] = request[w]
  <2>1. ASSUME request[w].late, request[w].op = "verify"
        PROVE  /\ request[w].pc = "find user" /\ request[w].email \in DOMAIN users'
               /\ users'[request[w].email].verified
    BY <2>1 DEF LateInv, UsersKept
  <2>2. QED BY <1>2, <2>1 DEF LateInv
<1>3. QED BY <1>1, <1>2

LEMMA VerifiedNext == IInv /\ VerifiedInv /\ [Next]_vars => VerifiedInv'
<1> SUFFICES ASSUME IInv, VerifiedInv, [Next]_vars PROVE VerifiedInv'
  OBVIOUS
<1>1. UsersKept /\ UsersInv' /\ ShapesInv
  BY UsersStay DEF IInv, VerifiedInv
<1>2. ASSUME NEW w \in Workers PROVE LateInv(w)'
  <2>1. LateInv(w)
    BY DEF VerifiedInv
  <2>2. CASE request' = request
    BY <1>1, <2>1, <2>2, LateStays
  \* One that starts.
  <2>3. ASSUME NEW v \in Workers, NEW a \in Addresses, NEW op \in {"register", "verify"}, NEW pc,
               op = "verify" => pc = "find user", Receive(v, op, a, pc)
        PROVE  LateInv(w)'
    <3> DEFINE r == [NoRequest EXCEPT !.op = op, !.pc = pc, !.email = Lower[a],
                       !.late = Lower[a] \in DOMAIN users /\ users[Lower[a]].verified]
    <3>1. request' = [request EXCEPT ![v] = r] /\ users' = users
      BY <2>3 DEF Receive, Advance, tables
    <3>2. r.op = op /\ r.pc = pc /\ r.email = Lower[a]
          /\ (r.late => Lower[a] \in DOMAIN users /\ users[Lower[a]].verified)
      BY DEF NoRequest
    <3> HIDE DEF r
    <3>3. CASE w = v
      BY <1>1, <2>3, <3>1, <3>2, <3>3 DEF LateInv, ShapesInv
    <3>4. CASE w # v
      BY <1>1, <2>1, <3>1, <3>4, LateStays DEF ShapesInv
    <3>5. QED BY <3>3, <3>4
  \* One that ends.
  <2>4. ASSUME NEW v \in Workers, End(v) PROVE LateInv(w)'
    <3>1. request' = [request EXCEPT ![v] = NoRequest]
      BY <2>4 DEF End, Advance
    <3>2. QED BY <1>1, <2>1, <3>1, LateStays DEF ShapesInv
  \* One that goes on: it is none that came late.
  <2>5. ASSUME NEW v \in Workers, ~(request[v].late /\ request[v].op = "verify"),
               NEW r, request' = [request EXCEPT ![v] = r],
               r.late = request[v].late, r.op = request[v].op
        PROVE  LateInv(w)'
    <3>1. CASE w = v
      BY <1>1, <2>5, <3>1 DEF LateInv, ShapesInv
    <3>2. CASE w # v
      BY <1>1, <2>1, <2>5, <3>2, LateStays DEF ShapesInv
    <3>3. QED BY <3>1, <3>2
  <2>6. ASSUME NEW v \in Workers, NEW pc, Go(v, pc), ~(request[v].late /\ request[v].op = "verify")
        PROVE  LateInv(w)'
    <3> DEFINE r == [request[v] EXCEPT !.pc = pc]
    <3>1. request' = [request EXCEPT ![v] = r]
      BY <2>6 DEF Go, Advance
    <3>2. r.late = request[v].late /\ r.op = request[v].op
      BY <1>1 DEF ShapesInv, RequestFields
    <3>3. QED BY <2>5, <2>6, <3>1, <3>2
  <2>7. ASSUME NEW v \in Workers, request[v].pc # "find user" PROVE ~(request[v].late /\ request[v].op = "verify")
    BY <2>7 DEF VerifiedInv, LateInv
  <2>8. ASSUME NEW v \in Workers, FindUser(v) PROVE LateInv(w)'
    <3>1. \/ End(v)
          \/ Go(v, "find code") /\ ~users[request[v].email].verified
      BY <2>8 DEF FindUser, Email
    <3>2. LateInv(v)
      BY DEF VerifiedInv
    <3>3. QED BY <2>4, <2>6, <3>1, <3>2 DEF LateInv
  <2>9. ASSUME NEW v \in Workers, FindCode(v) PROVE LateInv(w)'
    <3> DEFINE r == [request[v] EXCEPT !.pc = "mark used", !.code = codes[Email(v)]]
    <3>1. request' = [request EXCEPT ![v] = r] /\ request[v].pc = "find code"
      BY <2>9 DEF FindCode, Advance, At
    <3>2. r.late = request[v].late /\ r.op = request[v].op
      BY <1>1 DEF ShapesInv, RequestFields
    <3>3. QED BY <2>5, <2>7, <3>1, <3>2
  <2>10. ASSUME NEW v \in Workers,
                \/ EmailExists(v) \/ CreateWorkspace(v) \/ CreateUser(v) \/ CreateMembershipAndSettings(v)
                \/ CommitRegistration(v) \/ MarkUsed(v) \/ MarkEmailVerified(v) \/ ResolveWorkspace(v) \/ Cut(v)
         PROVE  LateInv(w)'
    <3>1. \/ End(v)
          \/ /\ request[v].pc # "find user"
             /\ Go(v, "workspace") \/ Go(v, "user") \/ Go(v, "settings") \/ Go(v, "commit")
                  \/ Go(v, "activate") \/ Go(v, "context")
      BY <2>10 DEF EmailExists, CreateWorkspace, CreateUser, CreateMembershipAndSettings, CommitRegistration,
                   MarkUsed, MarkEmailVerified, ResolveWorkspace, Cut, At
    <3>2. QED BY <2>4, <2>6, <2>7, <3>1
  <2>11. CASE NextRegistration
    <3>1. CASE \E v \in Workers, a \in Addresses : BeginRegister(v, a) \/ BeginVerify(v, a)
      BY <2>3, <3>1 DEF BeginRegister, BeginVerify
    <3>2. CASE \/ \E a \in Addresses : Resend(a)
               \/ \E e \in Emails : SendCode(e) \/ LoseMail(e)
               \/ \E e \in Emails, what \in Disturbances : Disturb(e, what)
      BY <2>2, <3>2 DEF Resend, SendCode, LoseMail, Disturb
    <3>3. QED BY <2>8, <2>9, <2>10, <2>11, <3>1, <3>2 DEF NextRegistration
  <2>12. CASE ~NextRegistration
    <3>1. request' = request
      BY <2>12 DEF Next, EditSettings, EditProfile, EditSubscription, EditPlan, EditedBesideRuns,
                   vars, registrationVars, RunSeed, Begin, ReadCurrencies, ReadCountries, UpsertRow,
                   ReadPlan, CountDefaults, ClearDefaults, UpsertPlan, ReadAdmin, ReadPlanAgain, WriteUser,
                   CommitAdmin, Finish, CutSeed, Others
    <3>2. QED BY <2>2, <3>1
  <2>13. QED BY <2>11, <2>12
<1>3. QED BY <1>1, <1>2 DEF VerifiedInv

\* A verification that begins after its e-mail was verified changes no user, so that only one that
\* overlapped another can make a suspended user active again.
THEOREM LateVerificationsAreRefused == Spec => LateVerificationsRefused
<1>1. Init => VerifiedInv
  <2>1. SUFFICES ASSUME Init PROVE VerifiedInv
    OBVIOUS
  <2>2. DOMAIN users = {} /\ request = [w \in Workers |-> NoRequest]
    BY <2>1 DEF Init, InitRegistration, EmptyTable
  <2>3. QED BY <2>2 DEF VerifiedInv, UsersInv, LateInv, NoRequest
<1>2. VerifiedInv =>
        [\A w \in Workers : request[w].late /\ request[w].op = "verify" => ~MarkEmailVerified(w)]_registrationVars
  BY DEF VerifiedInv, LateInv, MarkEmailVerified, At
<1>3. QED BY <1>1, <1>2, VerifiedNext, BootstrapInvariant, PTL DEF Spec, LateVerificationsRefused

-----------------------------------------------------------------------------
(* What a run that is alone has reported and written.                      *)

Pcs == {"read currencies", "currencies", "read countries", "countries", "read plan",
        "count defaults", "clear defaults", "upsert plan", "read admin", "read plan again",
        "write user", "commit", "finish"}

BeforeCountries == {"read currencies", "currencies", "read countries"}
BeforePlan      == BeforeCountries \cup {"countries", "read plan", "count defaults"}
BeforeAdmin     == BeforePlan \cup {"clear defaults", "upsert plan", "read admin"}

Summarised(r, p) ==
  /\ p \in Currencies => r.pc # "read currencies"
  /\ p \in Countries  => r.pc \notin BeforeCountries
  /\ p = "plan"       => r.pc \notin BeforePlan
  /\ p \in AdminParts => r.pc \notin BeforeAdmin
  /\ p = "subscription" => r.pc # "read plan again"

Written(r, p) ==
  /\ ~r.dry
  /\ p \in Currencies => r.pc # "read currencies" /\ (r.pc = "currencies" => p \notin r.pending)
  /\ p \in Countries  => r.pc \notin BeforeCountries /\ (r.pc = "countries" => p \notin r.pending)
  /\ p = "plan"       => r.pc \notin BeforePlan \cup {"clear defaults", "upsert plan"}
  /\ p \in AdminParts => r.pc = "finish"

\* What is foretold of the subscription depends on the free plan.
Told(r, p) == r.dry /\ p = "subscription" => freePlan # "renamed"

\* What a run that nothing interferes with has written is seeded; the rest is as it
\* found it, but for the plan between its two writes.  What it has summarised tells
\* what it found.
RunInv(r) ==
  /\ r.pc \in Pcs
  /\ r.dry => r.pc \in {"read currencies", "read countries", "read plan", "count defaults",
                        "read admin", "read plan again", "finish"}
  /\ r.pc = "currencies" => r.pending \subseteq Currencies
  /\ r.pc = "countries"  => r.pending \subseteq Countries
  /\ r.pc = "count defaults" => r.plan = FoundPlan
  /\ r.pc = "read plan again" => r.subscription = FoundSubscription
  /\ r.pc \in {"write user", "commit"} => r.plan = "seeded"
  /\ DOMAIN r.report = {p \in Parts : Summarised(r, p)}
  /\ \A p \in Parts : Summarised(r, p) /\ Told(r, p) => r.report[p] = Status(r.before[p])
  /\ \A p \in Parts : Written(r, p) => State(p) = "seeded"
  /\ \A p \in Parts : ~Written(r, p) /\ ~(p = "plan" /\ r.pc = "upsert plan") => State(p) = r.before[p]
  /\ r.pc = "finish" /\ ~r.dry => workspaces[Home] = "ACTIVE"

AloneInv(s) == seed[s].alone /\ seed[s].pc # "idle" => RunInv(seed[s])

EstablishInv == DOMAIN catalogue = Catalogue /\ \A s \in Seeders : AloneInv(s)

\* The state of a part is read off the database.
LEMMA SameDatabase ==
  ASSUME db' = db
  PROVE  /\ \A p \in Parts : State(p)' = State(p)
         /\ FoundPlan' = FoundPlan /\ catalogue' = catalogue
         /\ FoundSubscription' = FoundSubscription /\ freePlan' = freePlan
         /\ workspaces'[Home'] = workspaces[Home]
<1>1. /\ users' = users /\ memberships' = memberships /\ workspaces' = workspaces /\ settings' = settings
      /\ catalogue' = catalogue /\ freePlan' = freePlan /\ defaults' = defaults
      /\ subscriptions' = subscriptions /\ profiles' = profiles
  BY DEF db, tables, plans
<1>2. Home' = Home /\ FoundPlan' = FoundPlan /\ FoundSubscription' = FoundSubscription
  BY <1>1 DEF Home, FoundPlan, FoundSubscription
<1>3. ASSUME NEW p \in Parts PROVE State(p)' = State(p)
  <2>1. AdminPart(p)' = AdminPart(p)
    BY <1>1, <1>2 DEF AdminPart, Compare, IsSeededUser, IsSeededMembership, IsSeeded
  <2>2. QED BY <1>1, <1>2, <2>1 DEF State, PlanPart
<1>4. QED BY <1>1, <1>2, <1>3

\* The parts of a run are of four kinds.
LEMMA Kinds ==
  /\ \A p \in Parts : p \in Currencies \/ p \in Countries \/ p = "plan" \/ p \in AdminParts
  /\ \A p \in Currencies : p \in Parts /\ p \in Catalogue /\ p \notin Countries /\ p # "plan" /\ p \notin AdminParts
  /\ \A p \in Countries : p \in Parts /\ p \in Catalogue /\ p \notin Currencies /\ p # "plan" /\ p \notin AdminParts
  /\ \A p \in AdminParts : p \in Parts /\ p # "plan"
  /\ "plan" \in Parts
  BY SeedAssumption DEF Parts, AdminParts, Currencies, Countries

LEMMA CatalogueState ==
  \A p \in Catalogue : State(p) = catalogue[p]
  BY SeedAssumption DEF State

\* A run that is still alone after a step of another process goes on as it was.
LEMMA AloneStays ==
  ASSUME NEW s \in Seeders, DOMAIN seed[s] = RunFields, AloneInv(s),
         seed'[s] = [seed[s] EXCEPT !.alone = @ /\ db' = db]
  PROVE  AloneInv(s)'
<1>1. /\ seed'[s].pc = seed[s].pc /\ seed'[s].dry = seed[s].dry /\ seed'[s].pending = seed[s].pending
      /\ seed'[s].plan = seed[s].plan /\ seed'[s].subscription = seed[s].subscription
      /\ seed'[s].report = seed[s].report
      /\ seed'[s].before = seed[s].before
      /\ seed'[s].alone = (seed[s].alone /\ db' = db)
  BY DEF RunFields
<1>2. SUFFICES ASSUME seed'[s].alone, seed'[s].pc # "idle" PROVE RunInv(seed[s])'
  BY DEF AloneInv
<1>3. db' = db /\ RunInv(seed[s])
  BY <1>1, <1>2 DEF AloneInv
<1>4. /\ \A p \in Parts : State(p)' = State(p)
      /\ FoundPlan' = FoundPlan /\ FoundSubscription' = FoundSubscription
      /\ workspaces'[Home'] = workspaces[Home]
  BY <1>3, SameDatabase
<1>5. ASSUME NEW p PROVE /\ Summarised(seed'[s], p) <=> Summarised(seed[s], p)
                         /\ Written(seed'[s], p) <=> Written(seed[s], p)
                         /\ Told(seed[s], p)' <=> Told(seed[s], p)
  BY <1>1, <1>3, SameDatabase DEF Summarised, Written, Told
<1>6. {p \in Parts : Summarised(seed'[s], p)} = {p \in Parts : Summarised(seed[s], p)}
  BY <1>5
<1>7. QED BY <1>1, <1>3, <1>4, <1>5, <1>6 DEF RunInv

\* A step that leaves the database alone keeps what a run has found true, when it
\* moves on without skipping a write and summarises what it has not written yet.
LEMMA ReadStep ==
  ASSUME NEW s \in Seeders, db' = db, RunInv(seed[s]),
         seed'[s].before = seed[s].before, seed'[s].dry = seed[s].dry,
         seed'[s].pc \in Pcs \ {"currencies", "countries", "upsert plan", "finish"}
           \/ (seed'[s].pc = "currencies" /\ seed'[s].pending = Currencies)
           \/ (seed'[s].pc = "countries" /\ seed'[s].pending = Countries)
           \/ seed'[s].pc = "upsert plan"
           \/ (seed'[s].pc = "finish" /\ seed'[s].dry),
         seed'[s].dry => seed'[s].pc \in {"read countries", "read plan", "count defaults", "read admin",
                                           "read plan again", "finish"},
         seed'[s].pc = "count defaults" => seed'[s].plan = FoundPlan,
         seed'[s].pc = "read plan again" => seed'[s].subscription = FoundSubscription,
         seed'[s].pc \in {"write user", "commit"} => seed'[s].plan = "seeded",
         seed[s].pc # "upsert plan",
         \A p \in Parts : Written(seed'[s], p) <=> Written(seed[s], p),
         DOMAIN seed'[s].report = {p \in Parts : Summarised(seed'[s], p)},
         \A p \in Parts : Summarised(seed'[s], p) =>
           \/ Summarised(seed[s], p) /\ seed'[s].report[p] = seed[s].report[p]
           \/ ~Written(seed[s], p) /\ (Told(seed[s], p) => seed'[s].report[p] = Status(State(p)))
  PROVE  RunInv(seed[s])'
<1>1. /\ \A p \in Parts : State(p)' = State(p)
      /\ FoundPlan' = FoundPlan /\ FoundSubscription' = FoundSubscription
      /\ \A p : Told(seed[s], p)' <=> Told(seed[s], p)
  BY SameDatabase DEF Told
<1>2. \A p \in Parts : Written(seed'[s], p) => State(p)' = "seeded"
  BY <1>1 DEF RunInv
<1>3. \A p \in Parts : ~Written(seed[s], p) => State(p) = seed[s].before[p]
  BY DEF RunInv
<1>4. \A p \in Parts : ~Written(seed'[s], p) => State(p)' = seed'[s].before[p]
  BY <1>1, <1>3
<1>5. \A p \in Parts : Summarised(seed'[s], p) /\ Told(seed[s], p) => seed'[s].report[p] = Status(seed'[s].before[p])
  BY <1>3 DEF RunInv
<1>6. /\ seed'[s].pc \in Pcs
      /\ seed'[s].pc = "currencies" => seed'[s].pending \subseteq Currencies
      /\ seed'[s].pc = "countries"  => seed'[s].pending \subseteq Countries
  BY DEF Pcs
<1>7. QED BY <1>1, <1>2, <1>4, <1>5, <1>6 DEF RunInv

\* What a summary of a stage holds.
LEMMA ReportedParts ==
  ASSUME NEW s, NEW parts
  PROVE  /\ DOMAIN Reported(s, parts) = DOMAIN seed[s].report \cup parts
         /\ \A p \in parts : Reported(s, parts)[p] = Status(State(p))
         /\ \A p \in DOMAIN seed[s].report \ parts : Reported(s, parts)[p] = seed[s].report[p]
  BY DEF Reported

LEMMA AloneBegin ==
  ASSUME IInv, NEW s \in Seeders, NEW dry \in BOOLEAN, Begin(s, dry)
  PROVE  RunInv(seed[s])'
<1> DEFINE b == [p \in Parts |-> State(p)]
           r == [NoRun EXCEPT !.pc = "read currencies", !.dry = dry, !.before = b]
<1>1. db' = db /\ Watched(s, r)
  BY DEF Begin
<1>2. seed'[s] = r
  BY <1>1, WatchedRun DEF IInv
<1>3. \A p \in Parts : b[p] = State(p)
  OBVIOUS
<1> HIDE DEF b
<1>4. /\ r.pc = "read currencies" /\ r.dry = dry /\ r.before = b /\ DOMAIN r.report = {}
  BY DEF NoRun, EmptyTable
<1> HIDE DEF r
<1>5. \A p \in Parts : ~Summarised(r, p) /\ ~Written(r, p)
  BY <1>4, Kinds DEF Summarised, Written, BeforeCountries, BeforePlan, BeforeAdmin
<1>6. \A p \in Parts : State(p)' = State(p)
  BY <1>1, SameDatabase
<1>7. QED BY <1>2, <1>3, <1>4, <1>5, <1>6 DEF RunInv, Pcs

LEMMA AloneCatalogueReads ==
  ASSUME IInv, NEW s \in Seeders, RunInv(seed[s]), ReadCurrencies(s) \/ ReadCountries(s)
  PROVE  RunInv(seed[s])'
<1>0. ShapesInv /\ DOMAIN seed[s] = RunFields
  BY DEF IInv, ShapesInv
<1>1. CASE ReadCurrencies(s)
  <2> DEFINE pc == IF seed[s].dry THEN "read countries" ELSE "currencies"
             p  == IF seed[s].dry THEN {} ELSE Currencies
             t  == Reported(s, Currencies)
             r  == [seed[s] EXCEPT !.report = t, !.pc = pc, !.pending = p]
  <2>1. Watched(s, r) /\ db' = db /\ seed[s].pc = "read currencies"
    BY <1>1 DEF ReadCurrencies, In
  <2>2. seed'[s] = r
    BY <1>0, <2>1, WatchedRun
  <2>3. /\ seed[s].dry => pc = "read countries"
        /\ ~seed[s].dry => pc = "currencies" /\ p = Currencies
    OBVIOUS
  <2> HIDE DEF pc, p, t
  <2>4. /\ r.pc = pc /\ r.pending = p /\ r.report = t /\ r.before = seed[s].before /\ r.dry = seed[s].dry
    BY <1>0 DEF RunFields
  <2> HIDE DEF r
  <2>5. \A q \in Parts : ~Written(r, q) /\ ~Written(seed[s], q) /\ ~Summarised(seed[s], q)
    BY <2>1, <2>3, <2>4, Kinds DEF Written, Summarised, BeforeCountries, BeforePlan, BeforeAdmin
  <2>6. \A q \in Parts : Summarised(r, q) <=> q \in Currencies
    BY <2>3, <2>4, Kinds DEF Summarised, BeforeCountries, BeforePlan, BeforeAdmin
  <2>7. DOMAIN seed[s].report = {}
    BY <2>5 DEF RunInv
  <2>8. DOMAIN t = Currencies /\ \A q \in Currencies : t[q] = Status(State(q))
    BY <2>7, ReportedParts DEF t
  <2>9. {q \in Parts : Summarised(r, q)} = Currencies
    BY <2>6, Kinds
  <2>10. QED BY <2>1, <2>2, <2>3, <2>4, <2>5, <2>6, <2>8, <2>9, ReadStep DEF Pcs
<1>2. CASE ReadCountries(s)
  <2> DEFINE pc == IF seed[s].dry THEN "read plan" ELSE "countries"
             p  == IF seed[s].dry THEN {} ELSE Countries
             t  == Reported(s, Countries)
             r  == [seed[s] EXCEPT !.report = t, !.pc = pc, !.pending = p]
  <2>1. /\ Watched(s, r) /\ db' = db
        /\ seed[s].pc = "read countries" \/ (seed[s].pc = "currencies" /\ seed[s].pending = {})
    BY <1>2 DEF ReadCountries, In
  <2>2. seed'[s] = r
    BY <1>0, <2>1, WatchedRun
  <2>3. /\ seed[s].dry => pc = "read plan"
        /\ ~seed[s].dry => pc = "countries" /\ p = Countries
        /\ seed[s].dry => seed[s].pc = "read countries"
    BY <2>1 DEF RunInv
  <2> HIDE DEF pc, p, t
  <2>4. /\ r.pc = pc /\ r.pending = p /\ r.report = t /\ r.before = seed[s].before /\ r.dry = seed[s].dry
    BY <1>0 DEF RunFields
  <2> HIDE DEF r
  <2>5. \A q \in Parts : /\ Written(r, q) <=> (~r.dry /\ q \in Currencies)
                         /\ Written(seed[s], q) <=> (~r.dry /\ q \in Currencies)
    BY <2>1, <2>3, <2>4, Kinds DEF RunInv, Written, BeforeCountries, BeforePlan, BeforeAdmin
  <2>6. \A q \in Parts : /\ Summarised(r, q) <=> q \in Currencies \/ q \in Countries
                         /\ Summarised(seed[s], q) <=> q \in Currencies
    BY <2>1, <2>3, <2>4, Kinds DEF Summarised, BeforeCountries, BeforePlan, BeforeAdmin
  <2>7. DOMAIN seed[s].report = Currencies
    BY <2>6, Kinds DEF RunInv
  <2>8. /\ DOMAIN t = Currencies \cup Countries
        /\ \A q \in Countries : t[q] = Status(State(q))
        /\ \A q \in Currencies : t[q] = seed[s].report[q]
    <3>1. /\ DOMAIN t = DOMAIN seed[s].report \cup Countries
          /\ \A q \in Countries : t[q] = Status(State(q))
          /\ \A q \in DOMAIN seed[s].report \ Countries : t[q] = seed[s].report[q]
      BY ReportedParts DEF t
    <3>2. QED BY <2>7, <3>1, Kinds
  <2>9. {q \in Parts : Summarised(r, q)} = Currencies \cup Countries
    BY <2>6, Kinds
  <2>10. \A q \in Countries : ~Written(seed[s], q)
    BY <2>5, Kinds
  <2>11. QED BY <2>1, <2>2, <2>3, <2>4, <2>5, <2>6, <2>8, <2>9, <2>10, ReadStep DEF Pcs
<1>3. QED BY <1>1, <1>2

LEMMA AlonePlanReads ==
  ASSUME IInv, NEW s \in Seeders, RunInv(seed[s]), ReadPlan(s) \/ CountDefaults(s)
  PROVE  RunInv(seed[s])'
<1>0. ShapesInv /\ DOMAIN seed[s] = RunFields
  BY DEF IInv, ShapesInv
<1>1. CASE ReadPlan(s)
  <2> DEFINE r == [seed[s] EXCEPT !.pc = "count defaults", !.plan = FoundPlan]
  <2>1. /\ Watched(s, r) /\ db' = db
        /\ seed[s].pc = "read plan" \/ (seed[s].pc = "countries" /\ seed[s].pending = {})
        /\ seed[s].dry => seed[s].pc = "read plan"
    BY <1>1 DEF ReadPlan, In, RunInv
  <2>2. seed'[s] = r
    BY <1>0, <2>1, WatchedRun
  <2>3. /\ r.pc = "count defaults" /\ r.plan = FoundPlan /\ r.report = seed[s].report
        /\ r.before = seed[s].before /\ r.dry = seed[s].dry
    BY <1>0 DEF RunFields
  <2> HIDE DEF r
  <2>4. \A q \in Parts : Written(r, q) <=> Written(seed[s], q)
    BY <2>1, <2>3, Kinds DEF Written, BeforeCountries, BeforePlan, BeforeAdmin
  <2>5. \A q \in Parts : Summarised(r, q) <=> Summarised(seed[s], q)
    BY <2>1, <2>3, Kinds DEF Summarised, BeforeCountries, BeforePlan, BeforeAdmin
  <2>6. {q \in Parts : Summarised(r, q)} = {q \in Parts : Summarised(seed[s], q)}
    BY <2>5
  <2>7. DOMAIN r.report = {q \in Parts : Summarised(r, q)}
    BY <2>3, <2>6 DEF RunInv
  <2>8. QED BY <2>1, <2>2, <2>3, <2>4, <2>5, <2>7, ReadStep DEF Pcs
<1>2. CASE CountDefaults(s)
  <2> DEFINE others == defaults \ {FreePlan}
             found  == Status(PlanPart(seed[s].plan, others))
             t  == [p \in DOMAIN seed[s].report \cup {"plan"} |->
                      IF p = "plan" THEN found ELSE seed[s].report[p]]
             pc == IF seed[s].dry THEN "read admin"
                   ELSE IF others # {} THEN "clear defaults" ELSE "upsert plan"
             r  == [seed[s] EXCEPT !.report = t, !.pc = pc]
  <2>1. Watched(s, r) /\ db' = db /\ seed[s].pc = "count defaults"
    BY <1>2 DEF CountDefaults, In
  <2>2. seed'[s] = r
    BY <1>0, <2>1, WatchedRun
  <2>3. /\ seed[s].dry => pc = "read admin"
        /\ ~seed[s].dry => pc \in {"clear defaults", "upsert plan"}
    OBVIOUS
  <2>4. found = Status(State("plan"))
    <3>1. seed[s].plan = FoundPlan
      BY <2>1 DEF RunInv
    <3>2. State("plan") = PlanPart(FoundPlan, others)
      BY DEF State, AdminParts
    <3>3. QED BY <3>1, <3>2
  <2> HIDE DEF found
  <2>5. /\ DOMAIN t = DOMAIN seed[s].report \cup {"plan"}
        /\ t["plan"] = found
        /\ \A q \in DOMAIN seed[s].report : q # "plan" => t[q] = seed[s].report[q]
    OBVIOUS
  <2> HIDE DEF pc, t
  <2>6. r.pc = pc /\ r.report = t /\ r.before = seed[s].before /\ r.dry = seed[s].dry
    BY <1>0 DEF RunFields
  <2> HIDE DEF r
  <2>7. \A q \in Parts : Written(r, q) <=> Written(seed[s], q)
    BY <2>1, <2>3, <2>6, Kinds DEF Written, BeforeCountries, BeforePlan, BeforeAdmin
  <2>8. \A q \in Parts : /\ Summarised(r, q) <=> Summarised(seed[s], q) \/ q = "plan"
                         /\ ~Summarised(seed[s], "plan") /\ ~Written(seed[s], "plan")
    BY <2>1, <2>3, <2>6, Kinds DEF Summarised, Written, BeforeCountries, BeforePlan, BeforeAdmin
  <2>9. DOMAIN t = {q \in Parts : Summarised(r, q)}
    BY <2>5, <2>8, Kinds DEF RunInv
  <2>10. ASSUME NEW q \in Parts, Summarised(r, q)
         PROVE  \/ Summarised(seed[s], q) /\ t[q] = seed[s].report[q]
                \/ ~Written(seed[s], q) /\ t[q] = Status(State(q))
    <3>1. CASE q = "plan"
      BY <2>4, <2>5, <2>8, <3>1
    <3>2. CASE q # "plan"
      <4>1. Summarised(seed[s], q) /\ q \in DOMAIN seed[s].report
        BY <2>8, <2>10, <3>2 DEF RunInv
      <4>2. QED BY <2>5, <3>2, <4>1
    <3>3. QED BY <3>1, <3>2
  <2>11. QED BY <2>1, <2>2, <2>3, <2>6, <2>7, <2>9, <2>10, ReadStep DEF Pcs
<1>3. QED BY <1>1, <1>2

\* A run that has written the free plan finds it as it wrote it.
LEMMA PlanIsSeeded ==
  ASSUME NEW r, RunInv(r), ~r.dry, r.pc \notin BeforePlan \cup {"clear defaults", "upsert plan"}
  PROVE  freePlan = "seeded"
<1>1. Written(r, "plan") /\ "plan" \in Parts
  BY Kinds DEF Written
<1>2. State("plan") = "seeded"
  BY <1>1 DEF RunInv
<1>3. QED BY <1>2 DEF State, AdminParts, PlanPart, FoundPlan

LEMMA AloneAdminReads ==
  ASSUME IInv, NEW s \in Seeders, RunInv(seed[s]), ReadAdmin(s) \/ ReadPlanAgain(s) \/ WriteUser(s)
  PROVE  RunInv(seed[s])'
<1>0. ShapesInv /\ DOMAIN seed[s] = RunFields
  BY DEF IInv, ShapesInv
<1>1. CASE ReadAdmin(s)
  <2> DEFINE A == AdminParts \ {"subscription"}
             t == Reported(s, A)
             f == AdminEmail \in DOMAIN users
             r == [seed[s] EXCEPT !.report = t, !.found = f, !.home = Home,
                     !.subscription = FoundSubscription, !.pc = "read plan again"]
  <2>1. Watched(s, r) /\ db' = db /\ seed[s].pc = "read admin"
    BY <1>1 DEF ReadAdmin, In
  <2>2. seed'[s] = r
    BY <1>0, <2>1, WatchedRun
  <2> HIDE DEF t, f
  <2>3. /\ r.pc = "read plan again" /\ r.report = t /\ r.before = seed[s].before /\ r.dry = seed[s].dry
        /\ r.subscription = FoundSubscription
    BY <1>0 DEF RunFields
  <2> HIDE DEF r
  <2>4. \A q \in Parts : /\ Written(r, q) <=> Written(seed[s], q)
                         /\ q \in AdminParts => ~Written(seed[s], q)
    BY <2>1, <2>3, Kinds DEF Written, BeforeCountries, BeforePlan, BeforeAdmin
  <2>5. \A q \in Parts : /\ Summarised(r, q) <=> q # "subscription"
                         /\ Summarised(seed[s], q) <=> q \notin AdminParts
    BY <2>1, <2>3, Kinds DEF Summarised, BeforeCountries, BeforePlan, BeforeAdmin
  <2>6. DOMAIN seed[s].report = Parts \ AdminParts
    BY <2>5 DEF RunInv
  <2>7. A \subseteq Parts /\ "subscription" \in AdminParts
    BY Kinds DEF AdminParts
  <2> HIDE DEF A
  <2>8. /\ DOMAIN t = DOMAIN seed[s].report \cup A
        /\ \A q \in A : t[q] = Status(State(q))
        /\ \A q \in DOMAIN seed[s].report \ A : t[q] = seed[s].report[q]
    BY ReportedParts DEF t
  <2>9. DOMAIN t = {q \in Parts : Summarised(r, q)}
    BY <2>5, <2>6, <2>7, <2>8 DEF A
  <2>10. ASSUME NEW q \in Parts, Summarised(r, q)
         PROVE  \/ Summarised(seed[s], q) /\ t[q] = seed[s].report[q]
                \/ ~Written(seed[s], q) /\ (Told(seed[s], q) => t[q] = Status(State(q)))
    BY <2>4, <2>5, <2>6, <2>8, <2>10 DEF A
  <2>11. QED BY <2>1, <2>2, <2>3, <2>4, <2>9, <2>10, ReadStep DEF Pcs
<1>2. CASE ReadPlanAgain(s)
  <2> DEFINE found == Status(Against(seed[s].subscription, freePlan))
             t  == [p \in DOMAIN seed[s].report \cup {"subscription"} |->
                      IF p = "subscription" THEN found ELSE seed[s].report[p]]
             pc == IF seed[s].dry THEN "finish" ELSE "write user"
             r  == [seed[s] EXCEPT !.plan = freePlan, !.report = t, !.pc = pc]
  <2>1. Watched(s, r) /\ db' = db /\ seed[s].pc = "read plan again"
    BY <1>2 DEF ReadPlanAgain, In
  <2>2. seed'[s] = r
    BY <1>0, <2>1, WatchedRun
  <2>3. /\ seed[s].dry => pc = "finish"
        /\ ~seed[s].dry => pc = "write user"
    OBVIOUS
  <2>4. ~seed[s].dry => freePlan = "seeded"
    BY <2>1, PlanIsSeeded DEF BeforeCountries, BeforePlan
  <2>5. Told(seed[s], "subscription") => found = Status(State("subscription"))
    <3>1. seed[s].subscription = FoundSubscription
      BY <2>1 DEF RunInv
    <3>2. State("subscription") = Against(FoundSubscription, "seeded")
      BY DEF State, AdminParts, AdminPart
    <3>3. Told(seed[s], "subscription") => Snapshot(freePlan) = Snapshot("seeded")
      BY <2>4 DEF Told, Snapshot
    <3>4. QED BY <3>1, <3>2, <3>3 DEF Against
  <2> HIDE DEF found
  <2>6. /\ DOMAIN t = DOMAIN seed[s].report \cup {"subscription"}
        /\ t["subscription"] = found
        /\ \A q \in DOMAIN seed[s].report : q # "subscription" => t[q] = seed[s].report[q]
    OBVIOUS
  <2> HIDE DEF pc, t
  <2>7. r.pc = pc /\ r.report = t /\ r.before = seed[s].before /\ r.dry = seed[s].dry /\ r.plan = freePlan
    BY <1>0 DEF RunFields
  <2> HIDE DEF r
  <2>8. \A q \in Parts : /\ Written(r, q) <=> Written(seed[s], q)
                         /\ q = "subscription" => ~Written(seed[s], q)
    BY <2>1, <2>3, <2>7, Kinds DEF Written, AdminParts, BeforeCountries, BeforePlan, BeforeAdmin
  <2>9. \A q \in Parts : /\ Summarised(r, q)
                         /\ Summarised(seed[s], q) <=> q # "subscription"
    BY <2>1, <2>3, <2>7, Kinds DEF Summarised, BeforeCountries, BeforePlan, BeforeAdmin
  <2>10. "subscription" \in Parts
    BY Kinds DEF AdminParts
  <2>11. DOMAIN seed[s].report = Parts \ {"subscription"}
    BY <2>9 DEF RunInv
  <2>12. DOMAIN t = {q \in Parts : Summarised(r, q)}
    BY <2>6, <2>9, <2>10, <2>11
  <2>13. ASSUME NEW q \in Parts, Summarised(r, q)
         PROVE  \/ Summarised(seed[s], q) /\ t[q] = seed[s].report[q]
                \/ ~Written(seed[s], q) /\ (Told(seed[s], q) => t[q] = Status(State(q)))
    BY <2>5, <2>6, <2>8, <2>9, <2>11, <2>13
  <2>14. QED BY <2>1, <2>2, <2>3, <2>4, <2>7, <2>8, <2>12, <2>13, ReadStep DEF Pcs
<1>3. CASE WriteUser(s)
  <2> DEFINE r == [seed[s] EXCEPT !.pc = "commit"]
  <2>1. Watched(s, r) /\ db' = db /\ seed[s].pc = "write user" /\ ~seed[s].dry
    BY <1>3 DEF WriteUser, In, Step, RunInv
  <2>2. seed'[s] = r
    BY <1>0, <2>1, WatchedRun
  <2>3. r.pc = "commit" /\ r.report = seed[s].report /\ r.before = seed[s].before /\ r.dry = seed[s].dry
        /\ r.plan = seed[s].plan /\ seed[s].plan = "seeded"
    BY <1>0, <2>1 DEF RunFields, RunInv
  <2> HIDE DEF r
  <2>4. \A q \in Parts : /\ Written(r, q) <=> Written(seed[s], q)
                         /\ Summarised(r, q) /\ Summarised(seed[s], q)
    BY <2>1, <2>3, Kinds DEF Written, Summarised, BeforeCountries, BeforePlan, BeforeAdmin
  <2>5. DOMAIN r.report = {q \in Parts : Summarised(r, q)}
    BY <2>3, <2>4 DEF RunInv
  <2>6. QED BY <2>1, <2>2, <2>3, <2>4, <2>5, ReadStep DEF Pcs
<1>4. QED BY <1>1, <1>2, <1>3

\* The writes of a run.
LEMMA AloneUpsertRow ==
  ASSUME IInv, DOMAIN catalogue = Catalogue, NEW s \in Seeders, RunInv(seed[s]),
         NEW c \in Catalogue, UpsertRow(s, c)
  PROVE  RunInv(seed[s])' /\ DOMAIN catalogue' = Catalogue
<1> DEFINE r == [seed[s] EXCEPT !.pending = @ \ {c}]
<1>0. ShapesInv /\ DOMAIN seed[s] = RunFields
  BY DEF IInv, ShapesInv
<1>1. /\ Watched(s, r) /\ seed[s].pc \in {"currencies", "countries"} /\ c \in seed[s].pending
      /\ catalogue' = [catalogue EXCEPT ![c] = "seeded"]
      /\ UNCHANGED <<tables, plans, subscriptions, profiles>>
      /\ ~seed[s].dry
  BY DEF UpsertRow, In, RunInv
<1>2. seed'[s] = r
  BY <1>0, <1>1, WatchedRun
<1>3. /\ r.pc = seed[s].pc /\ r.pending = seed[s].pending \ {c} /\ r.report = seed[s].report
      /\ r.before = seed[s].before /\ r.dry = seed[s].dry
  BY <1>0 DEF RunFields
<1> HIDE DEF r
<1>4. /\ users' = users /\ memberships' = memberships /\ workspaces' = workspaces /\ settings' = settings
      /\ freePlan' = freePlan /\ defaults' = defaults
      /\ subscriptions' = subscriptions /\ profiles' = profiles
  BY <1>1 DEF tables, plans
<1>5. /\ c \in Parts /\ State(c)' = "seeded"
      /\ \A p \in Parts : p # c => State(p)' = State(p)
  <2>1. c \in Parts /\ \A p \in Parts : p \notin AdminParts /\ p # "plan" => p \in Catalogue
    BY DEF Parts
  <2>2. State(c)' = "seeded"
    BY <1>1, SeedAssumption DEF State
  <2>3. ASSUME NEW p \in Parts, p # c PROVE State(p)' = State(p)
    <3>1. AdminPart(p)' = AdminPart(p)
      BY <1>4 DEF AdminPart, Compare, IsSeededUser, IsSeededMembership, IsSeeded, FoundSubscription, Home
    <3>2. FoundPlan' = FoundPlan
      BY <1>4 DEF FoundPlan
    <3>3. catalogue'[p] = catalogue[p] \/ p \in AdminParts \/ p = "plan"
      BY <1>1, <2>1, <2>3
    <3>4. QED BY <1>4, <3>1, <3>2, <3>3 DEF State, PlanPart
  <2>4. QED BY <2>1, <2>2, <2>3
<1>6. \A p \in Parts : /\ Written(r, p) <=> Written(seed[s], p) \/ p = c
                       /\ Summarised(r, p) <=> Summarised(seed[s], p)
  <2>1. /\ seed[s].pc = "currencies" => c \in Currencies
        /\ seed[s].pc = "countries"  => c \in Countries
    BY <1>1 DEF RunInv
  <2>2. QED BY <1>1, <1>3, <2>1, Kinds DEF Written, Summarised, BeforeCountries, BeforePlan, BeforeAdmin
<1>7. {p \in Parts : Summarised(r, p)} = {p \in Parts : Summarised(seed[s], p)}
  BY <1>6
<1>8. \A p \in Parts : Told(seed[s], p)' /\ Told(seed[s], p)
  BY <1>1, <1>2, <1>3 DEF Told
<1>9. QED BY <1>1, <1>2, <1>3, <1>5, <1>6, <1>7, <1>8 DEF RunInv

LEMMA AlonePlanWrites ==
  ASSUME IInv, NEW s \in Seeders, RunInv(seed[s]), ClearDefaults(s) \/ UpsertPlan(s)
  PROVE  RunInv(seed[s])'
<1>0. ShapesInv /\ DOMAIN seed[s] = RunFields
  BY DEF IInv, ShapesInv
<1>1. /\ UNCHANGED <<tables, catalogue, subscriptions, profiles>> /\ ~seed[s].dry
  BY DEF ClearDefaults, UpsertPlan, RunInv, In
<1>2. \A p \in Parts : p # "plan" => State(p)' = State(p)
  <2>1. ASSUME NEW p \in Parts, p # "plan" PROVE State(p)' = State(p)
    <3>1. /\ users' = users /\ memberships' = memberships /\ settings' = settings
          /\ subscriptions' = subscriptions /\ profiles' = profiles /\ catalogue' = catalogue
      BY <1>1 DEF tables
    <3>2. AdminPart(p)' = AdminPart(p)
      BY <3>1 DEF AdminPart, Compare, IsSeededUser, IsSeededMembership, IsSeeded, FoundSubscription, Home
    <3>3. QED BY <2>1, <3>1, <3>2 DEF State
  <2>2. QED BY <2>1
<1>3. CASE ClearDefaults(s)
  <2> DEFINE r == [seed[s] EXCEPT !.pc = "upsert plan"]
  <2>1. Watched(s, r) /\ seed[s].pc = "clear defaults"
    BY <1>3 DEF ClearDefaults, In, Step
  <2>2. seed'[s] = r
    BY <1>0, <2>1, WatchedRun
  <2>3. /\ r.pc = "upsert plan" /\ r.report = seed[s].report /\ r.before = seed[s].before
        /\ r.dry = seed[s].dry
    BY <1>0 DEF RunFields
  <2> HIDE DEF r
  <2>4. \A p \in Parts : /\ Written(r, p) <=> Written(seed[s], p)
                         /\ Summarised(r, p) <=> Summarised(seed[s], p)
                         /\ Written(r, p) => p # "plan"
    BY <2>1, <2>3, Kinds DEF Written, Summarised, BeforeCountries, BeforePlan, BeforeAdmin
  <2>5. {p \in Parts : Summarised(r, p)} = {p \in Parts : Summarised(seed[s], p)}
    BY <2>4
  <2>6. \A p \in Parts : Told(seed[s], p)' /\ Told(seed[s], p)
    BY <1>1, <2>2, <2>3 DEF Told
  <2>7. QED BY <1>1, <1>2, <2>1, <2>2, <2>3, <2>4, <2>5, <2>6 DEF RunInv, Pcs
<1>4. CASE UpsertPlan(s)
  <2> DEFINE r == [seed[s] EXCEPT !.pc = "read admin"]
  <2>1. Watched(s, r) /\ seed[s].pc = "upsert plan" /\ freePlan' = "seeded" /\ defaults' = defaults \cup {FreePlan}
    BY <1>4 DEF UpsertPlan, In, Step
  <2>2. seed'[s] = r
    BY <1>0, <2>1, WatchedRun
  <2>3. /\ r.pc = "read admin" /\ r.report = seed[s].report /\ r.before = seed[s].before
        /\ r.dry = seed[s].dry
    BY <1>0 DEF RunFields
  <2> HIDE DEF r
  <2>4. State("plan")' = "seeded"
    <3>1. defaults \subseteq {FreePlan}
      BY <2>1 DEF IInv, PlansInv
    <3>2. defaults' = {FreePlan}
      BY <2>1, <3>1
    <3>3. QED BY <2>1, <3>2 DEF State, AdminParts, PlanPart, FoundPlan
  <2>5. \A p \in Parts : /\ Written(r, p) <=> Written(seed[s], p) \/ p = "plan"
                         /\ Summarised(r, p) <=> Summarised(seed[s], p)
    BY <1>1, <2>1, <2>3, Kinds DEF Written, Summarised, BeforeCountries, BeforePlan, BeforeAdmin
  <2>6. {p \in Parts : Summarised(r, p)} = {p \in Parts : Summarised(seed[s], p)}
    BY <2>5
  <2>7. \A p \in Parts : Told(seed[s], p)' /\ Told(seed[s], p)
    BY <1>1, <2>2, <2>3 DEF Told
  <2>8. QED BY <1>1, <1>2, <2>1, <2>2, <2>3, <2>4, <2>5, <2>6, <2>7 DEF RunInv, Pcs
<1>5. QED BY <1>3, <1>4

\* The transaction of the super admin seeds everything he starts with.
LEMMA CommitAdminSeeds ==
  ASSUME NEW s \in Seeders, CommitAdmin(s), seed[s].plan = "seeded"
  PROVE  /\ \A p \in AdminParts : State(p)' = "seeded"
         /\ \A p \in Parts \ AdminParts : State(p)' = State(p)
         /\ workspaces'[Home'] = "ACTIVE"
<1> DEFINE e  == AdminEmail
           id == IF seed[s].home = 0 THEN NewWorkspace ELSE seed[s].home
           m  == [NewMembership(id) EXCEPT !.joined = TRUE]
<1>1. /\ users' = Put(users, e, SeededUser) /\ memberships' = Put(memberships, e, m)
      /\ workspaces' = Put(workspaces, id, "ACTIVE") /\ settings' = Put(settings, id, "seeded")
      /\ subscriptions' = Put(subscriptions, id, "seeded") /\ profiles' = Put(profiles, e, "seeded")
      /\ catalogue' = catalogue /\ freePlan' = freePlan /\ defaults' = defaults
  BY DEF CommitAdmin, ActiveWorkspaces, Snapshot, plans
<1> HIDE DEF id
<1>2. m.workspace = id /\ m.role = "ADMIN" /\ m.status = "ACTIVE" /\ m.joined
  BY DEF NewMembership
<1> HIDE DEF m
<1>3. /\ e \in DOMAIN users' /\ users'[e] = SeededUser /\ e \in DOMAIN memberships' /\ memberships'[e] = m
      /\ id \in DOMAIN workspaces' /\ workspaces'[id] = "ACTIVE"
      /\ id \in DOMAIN settings' /\ settings'[id] = "seeded"
      /\ id \in DOMAIN subscriptions' /\ subscriptions'[id] = "seeded"
      /\ e \in DOMAIN profiles' /\ profiles'[e] = "seeded"
  BY <1>1 DEF Put
<1>4. Home' = id
  BY <1>2, <1>3 DEF Home
<1>5. IsSeededUser(SeededUser)
  <2>1. \A field \in DOMAIN SuperAdmin : field \in DOMAIN NewUser /\ SeededUser[field] = SuperAdmin[field]
    BY DEF SuperAdmin, NewUser, SeededUser
  <2>2. QED BY <2>1 DEF IsSeededUser
<1>6. AdminPart("user")' = "seeded" /\ AdminPart("membership")' = "seeded"
  <2>1. AdminPart("user")' = "seeded"
    BY <1>3, <1>5 DEF AdminPart, Compare, IsSeededUser
  <2>2. AdminPart("membership")' = "seeded"
    BY <1>2, <1>3 DEF AdminPart, Compare, IsSeededMembership
  <2>3. QED BY <2>1, <2>2
<1>7. AdminPart("settings")' = "seeded" /\ AdminPart("subscription")' = "seeded" /\ AdminPart("profile")' = "seeded"
  BY <1>3, <1>4 DEF AdminPart, Compare, IsSeeded, FoundSubscription, Against, Snapshot
<1>8. \A p \in AdminParts : State(p)' = AdminPart(p)'
  BY DEF State
<1>9. \A p \in AdminParts : AdminPart(p)' = "seeded"
  BY <1>6, <1>7 DEF AdminParts
<1>10. \A p \in Parts \ AdminParts : State(p)' = State(p)
  <2>1. FoundPlan' = FoundPlan
    BY <1>1 DEF FoundPlan
  <2>2. QED BY <1>1, <2>1 DEF State, PlanPart
<1>11. QED BY <1>3, <1>4, <1>8, <1>9, <1>10

LEMMA AloneCommitAdmin ==
  ASSUME IInv, NEW s \in Seeders, RunInv(seed[s]), CommitAdmin(s)
  PROVE  RunInv(seed[s])'
<1> DEFINE r == [seed[s] EXCEPT !.pc = "finish"]
<1>0. ShapesInv /\ DOMAIN seed[s] = RunFields
  BY DEF IInv, ShapesInv
<1>1. Watched(s, r) /\ seed[s].pc = "commit" /\ ~seed[s].dry
  BY DEF CommitAdmin, In, Step, RunInv
<1>2. seed'[s] = r
  BY <1>0, <1>1, WatchedRun
<1>3. r.pc = "finish" /\ r.report = seed[s].report /\ r.before = seed[s].before /\ r.dry = seed[s].dry
  BY <1>0 DEF RunFields
<1> HIDE DEF r
<1>4. \A p \in Parts : /\ Written(seed[s], p) <=> p \notin AdminParts
                       /\ Written(r, p)
                       /\ Summarised(r, p) /\ Summarised(seed[s], p)
  BY <1>1, <1>3, Kinds DEF Written, Summarised, BeforeCountries, BeforePlan, BeforeAdmin
<1>5. DOMAIN r.report = {p \in Parts : Summarised(r, p)}
  BY <1>3, <1>4 DEF RunInv
<1>6. seed[s].plan = "seeded"
  BY <1>1 DEF RunInv
<1>7. \A p \in Parts : State(p)' = "seeded"
  BY <1>4, <1>6, CommitAdminSeeds DEF RunInv
<1>8. QED BY <1>1, <1>2, <1>3, <1>4, <1>5, <1>6, <1>7, CommitAdminSeeds DEF RunInv, Told, Pcs

\* The runs beside the one that takes a step.
LEMMA BesideRun ==
  ASSUME ShapesInv, NEW s, NEW r, Watched(s, r), NEW t \in Seeders, t # s, AloneInv(t)
  PROVE  AloneInv(t)'
<1>1. seed'[t] = [seed[t] EXCEPT !.alone = @ /\ db' = db]
  BY DEF Watched
<1>2. QED BY <1>1, AloneStays DEF ShapesInv

\* A run's own steps keep what it knows; none makes it alone again but its beginning.
LEMMA OwnStep ==
  ASSUME IInv, EstablishInv, NEW s \in Seeders, RunSeed(s)
  PROVE  AloneInv(s)' /\ DOMAIN catalogue' = Catalogue /\ \E r : Watched(s, r)
<1>0. ShapesInv /\ DOMAIN seed[s] = RunFields /\ AloneInv(s) /\ DOMAIN catalogue = Catalogue
  BY DEF IInv, ShapesInv, EstablishInv
<1>1. ASSUME NEW dry \in BOOLEAN, Begin(s, dry)
      PROVE  AloneInv(s)' /\ catalogue' = catalogue /\ \E r : Watched(s, r)
  <2>1. RunInv(seed[s])'
    BY <1>1, AloneBegin
  <2>2. catalogue' = catalogue /\ \E r : Watched(s, r)
    BY <1>1 DEF Begin, db
  <2>3. QED BY <2>1, <2>2 DEF AloneInv
<1>2. CASE Finish(s) \/ CutSeed(s)
  <2>1. Watched(s, NoRun) /\ catalogue' = catalogue
    BY <1>2 DEF Finish, CutSeed, db
  <2>2. seed'[s].pc = "idle"
    BY <1>0, <2>1, WatchedRun DEF NoRun
  <2>3. QED BY <1>0, <2>1, <2>2 DEF AloneInv
<1>3. ASSUME seed[s].pc # "idle", NEW r, Watched(s, r), r.alone = seed[s].alone,
             RunInv(seed[s]) => RunInv(seed[s])'
      PROVE  AloneInv(s)'
  <2>1. seed'[s] = r
    BY <1>0, <1>3, WatchedRun
  <2>2. QED BY <1>0, <1>3, <2>1 DEF AloneInv
<1>4. ASSUME \/ ReadCurrencies(s) \/ ReadCountries(s) \/ ReadPlan(s) \/ CountDefaults(s)
             \/ ReadAdmin(s) \/ ReadPlanAgain(s) \/ WriteUser(s) \/ ClearDefaults(s) \/ UpsertPlan(s) \/ CommitAdmin(s)
      PROVE  AloneInv(s)' /\ catalogue' = catalogue /\ \E r : Watched(s, r)
  <2>1. \E r : Watched(s, r) /\ r.alone = seed[s].alone
    <3> DEFINE Fits(r) == Watched(s, r) /\ r.alone = seed[s].alone
    <3>1. CASE ReadCurrencies(s)
      <4> DEFINE t  == Reported(s, Currencies)
                 pc == IF seed[s].dry THEN "read countries" ELSE "currencies"
                 p  == IF seed[s].dry THEN {} ELSE Currencies
                 r  == [seed[s] EXCEPT !.report = t, !.pc = pc, !.pending = p]
      <4>1. Watched(s, r)
        BY <3>1 DEF ReadCurrencies
      <4> HIDE DEF t, pc, p
      <4>2. r.alone = seed[s].alone
        BY <1>0 DEF RunFields
      <4> HIDE DEF r
      <4>3. QED BY <4>1, <4>2
    <3>2. CASE ReadCountries(s)
      <4> DEFINE t  == Reported(s, Countries)
                 pc == IF seed[s].dry THEN "read plan" ELSE "countries"
                 p  == IF seed[s].dry THEN {} ELSE Countries
                 r  == [seed[s] EXCEPT !.report = t, !.pc = pc, !.pending = p]
      <4>1. Watched(s, r)
        BY <3>2 DEF ReadCountries
      <4> HIDE DEF t, pc, p
      <4>2. r.alone = seed[s].alone
        BY <1>0 DEF RunFields
      <4> HIDE DEF r
      <4>3. QED BY <4>1, <4>2
    <3>3. CASE ReadPlan(s)
      <4> DEFINE r == [seed[s] EXCEPT !.pc = "count defaults", !.plan = FoundPlan]
      <4>1. Watched(s, r)
        BY <3>3 DEF ReadPlan
      <4>2. r.alone = seed[s].alone
        BY <1>0 DEF RunFields
      <4> HIDE DEF r
      <4>3. QED BY <4>1, <4>2
    <3>4. CASE CountDefaults(s)
      <4> DEFINE others == defaults \ {FreePlan}
                 t  == [p \in DOMAIN seed[s].report \cup {"plan"} |->
                          IF p = "plan" THEN Status(PlanPart(seed[s].plan, others)) ELSE seed[s].report[p]]
                 pc == IF seed[s].dry THEN "read admin"
                       ELSE IF others # {} THEN "clear defaults" ELSE "upsert plan"
                 r  == [seed[s] EXCEPT !.report = t, !.pc = pc]
      <4>1. Watched(s, r)
        BY <3>4 DEF CountDefaults
      <4> HIDE DEF t, pc
      <4>2. r.alone = seed[s].alone
        BY <1>0 DEF RunFields
      <4> HIDE DEF r
      <4>3. QED BY <4>1, <4>2
    <3>5. CASE ReadAdmin(s)
      <4> DEFINE t == Reported(s, AdminParts \ {"subscription"})
                 f == AdminEmail \in DOMAIN users
                 r == [seed[s] EXCEPT !.report = t, !.found = f, !.home = Home,
                         !.subscription = FoundSubscription, !.pc = "read plan again"]
      <4>1. Watched(s, r)
        BY <3>5 DEF ReadAdmin
      <4> HIDE DEF t, f
      <4>2. r.alone = seed[s].alone
        BY <1>0 DEF RunFields
      <4> HIDE DEF r
      <4>3. QED BY <4>1, <4>2
    <3>6. CASE WriteUser(s) \/ ClearDefaults(s) \/ UpsertPlan(s) \/ CommitAdmin(s)
      <4>1. PICK pc : Step(s, pc)
        BY <3>6 DEF WriteUser, ClearDefaults, UpsertPlan, CommitAdmin
      <4> DEFINE r == [seed[s] EXCEPT !.pc = pc]
      <4>2. Watched(s, r)
        BY <4>1 DEF Step
      <4>3. r.alone = seed[s].alone
        BY <1>0 DEF RunFields
      <4> HIDE DEF r
      <4>4. QED BY <4>2, <4>3
    <3>7. CASE ReadPlanAgain(s)
      <4> DEFINE t  == [p \in DOMAIN seed[s].report \cup {"subscription"} |->
                          IF p = "subscription" THEN Status(Against(seed[s].subscription, freePlan))
                          ELSE seed[s].report[p]]
                 pc == IF seed[s].dry THEN "finish" ELSE "write user"
                 r  == [seed[s] EXCEPT !.plan = freePlan, !.report = t, !.pc = pc]
      <4>1. Watched(s, r)
        BY <3>7 DEF ReadPlanAgain
      <4> HIDE DEF t, pc
      <4>2. r.alone = seed[s].alone
        BY <1>0 DEF RunFields
      <4> HIDE DEF r
      <4>3. QED BY <4>1, <4>2
    <3>8. QED BY <1>4, <3>1, <3>2, <3>3, <3>4, <3>5, <3>6, <3>7
  <2>2. seed[s].pc # "idle" /\ catalogue' = catalogue
    BY <1>4 DEF ReadCurrencies, ReadCountries, ReadPlan, CountDefaults, ReadAdmin, ReadPlanAgain, WriteUser,
                ClearDefaults, UpsertPlan, CommitAdmin, In, db
  <2>3. RunInv(seed[s]) => RunInv(seed[s])'
    BY <1>4, AloneCatalogueReads, AlonePlanReads, AloneAdminReads, AlonePlanWrites, AloneCommitAdmin
  <2>4. QED BY <1>3, <2>1, <2>2, <2>3
<1>5. ASSUME NEW c \in Catalogue, UpsertRow(s, c)
      PROVE  AloneInv(s)' /\ DOMAIN catalogue' = Catalogue /\ \E r : Watched(s, r)
  <2> DEFINE r == [seed[s] EXCEPT !.pending = @ \ {c}]
  <2>1. Watched(s, r) /\ seed[s].pc # "idle" /\ DOMAIN catalogue' = Catalogue
    BY <1>0, <1>5 DEF UpsertRow, In
  <2>2. r.alone = seed[s].alone
    BY <1>0 DEF RunFields
  <2>3. RunInv(seed[s]) => RunInv(seed[s])'
    BY <1>0, <1>5, AloneUpsertRow
  <2> HIDE DEF r
  <2>4. QED BY <1>3, <2>1, <2>2, <2>3
<1>6. QED BY <1>0, <1>1, <1>2, <1>4, <1>5 DEF RunSeed

LEMMA EstablishInit == Init => EstablishInv
<1> SUFFICES ASSUME Init PROVE EstablishInv
  OBVIOUS
<1>1. \A s \in Seeders : seed[s].pc = "idle"
  BY DEF Init, NoRun
<1>2. DOMAIN catalogue = Catalogue
  BY DEF Init
<1>3. QED BY <1>1, <1>2 DEF EstablishInv, AloneInv

LEMMA EstablishNext == IInv /\ EstablishInv /\ [Next]_vars => EstablishInv'
<1> SUFFICES ASSUME IInv, EstablishInv, [Next]_vars PROVE EstablishInv'
  OBVIOUS
<1>0. ShapesInv /\ DOMAIN catalogue = Catalogue /\ \A t \in Seeders : AloneInv(t)
  BY DEF IInv, EstablishInv
<1>1. ASSUME NEW s \in Seeders, RunSeed(s) PROVE EstablishInv'
  <2>1. AloneInv(s)' /\ DOMAIN catalogue' = Catalogue /\ \E r : Watched(s, r)
    BY <1>1, OwnStep
  <2>2. \A t \in Seeders : t # s => AloneInv(t)'
    BY <1>0, <2>1, BesideRun
  <2>3. QED BY <2>1, <2>2 DEF EstablishInv
<1>2. ASSUME Watched(Nobody, NoRun), catalogue' = catalogue PROVE EstablishInv'
  <2>1. \A t \in Seeders : AloneInv(t)'
    BY <1>0, <1>2, Distinct, BesideRun
  <2>2. QED BY <1>0, <1>2, <2>1 DEF EstablishInv
<1>3. CASE NextRegistration /\ UNCHANGED <<plans, subscriptions, profiles>> /\ Watched(Nobody, NoRun)
  <2>1. catalogue' = catalogue
    BY <1>3 DEF NextRegistration, BeginRegister, BeginVerify, Receive, EmailExists, CreateWorkspace, CreateUser,
         CreateMembershipAndSettings, CommitRegistration, FindUser, FindCode, MarkUsed, MarkEmailVerified,
         ResolveWorkspace, Cut, Resend, SendCode, LoseMail, Disturb, Rest
  <2>2. QED BY <1>2, <1>3, <2>1
<1>4. CASE EditSettings \/ EditProfile \/ EditSubscription \/ EditPlan
  BY <1>2, <1>4 DEF EditSettings, EditProfile, EditSubscription, EditPlan, EditedBesideRuns
<1>5. CASE UNCHANGED vars
  <2>1. seed' = seed /\ catalogue' = catalogue /\ db' = db
    BY <1>5 DEF vars, registrationVars, db
  <2>2. ASSUME NEW t \in Seeders PROVE AloneInv(t)'
    <3>1. seed'[t] = seed[t]
      BY <2>1
    <3>2. /\ \A p \in Parts : State(p)' = State(p)
          /\ FoundPlan' = FoundPlan /\ FoundSubscription' = FoundSubscription /\ freePlan' = freePlan
          /\ workspaces'[Home'] = workspaces[Home]
      BY <2>1, SameDatabase
    <3>3. AloneInv(t) /\ (RunInv(seed[t]) => RunInv(seed[t])')
      <4>1. ASSUME NEW p \in Parts
            PROVE  /\ Summarised(seed[t], p)' <=> Summarised(seed[t], p)
                   /\ Written(seed[t], p)' <=> Written(seed[t], p)
                   /\ Told(seed[t], p)' <=> Told(seed[t], p)
        BY <3>1, <3>2 DEF Summarised, Written, Told
      <4>2. {p \in Parts : Summarised(seed'[t], p)} = {p \in Parts : Summarised(seed[t], p)}
        BY <3>1
      <4>3. QED BY <1>0, <3>1, <3>2, <4>1, <4>2 DEF RunInv
    <3>4. QED BY <3>1, <3>3 DEF AloneInv
  <2>3. QED BY <1>0, <2>1, <2>2 DEF EstablishInv
<1>6. QED BY <1>1, <1>3, <1>4, <1>5 DEF Next

\* A run that is alone knows at every statement what it has written and reported.
THEOREM RunsKnow == Spec => [](IInv /\ EstablishInv)
<1>1. Init => IInv /\ EstablishInv
  BY InitInv, EstablishInit
<1>2. IInv /\ EstablishInv /\ [Next]_vars => (IInv /\ EstablishInv)'
  BY NextInv, EstablishNext
<1>3. QED BY <1>1, <1>2, PTL DEF Spec

\* What a run that is alone knows when it ends.
LEMMA AtTheEnd ==
  ASSUME EstablishInv, NEW s \in Seeders, Finish(s), seed[s].alone
  PROVE  /\ IF seed[s].dry THEN \A p \in Parts : State(p) = seed[s].before[p] ELSE Established
         /\ \A p \in Parts : Foretold(s, p) => seed[s].report[p] = Status(seed[s].before[p])
<1>1. RunInv(seed[s]) /\ seed[s].pc = "finish"
  BY DEF EstablishInv, AloneInv, Finish, In
<1>2. \A p \in Parts : Summarised(seed[s], p) /\ (Written(seed[s], p) <=> ~seed[s].dry)
  BY <1>1, Kinds DEF Summarised, Written, BeforeCountries, BeforePlan, BeforeAdmin
<1>3. \A p \in Parts : Foretold(s, p) => seed[s].report[p] = Status(seed[s].before[p])
  BY <1>1, <1>2 DEF RunInv, Foretold, Told
<1>4. CASE seed[s].dry
  BY <1>1, <1>2, <1>3, <1>4 DEF RunInv
<1>5. CASE ~seed[s].dry
  BY <1>1, <1>2, <1>3, <1>5 DEF RunInv, Established
<1>6. QED BY <1>4, <1>5

\* A run of the seed script that nothing else interferes with establishes everything, whatever
\* it finds; a dry run leaves everything as it was.
THEOREM AloneEstablishes == Spec => SeedEstablishes
<1>1. EstablishInv /\ [Next]_vars =>
        [\A s \in Seeders : Finish(s) /\ seed[s].alone =>
           IF seed[s].dry THEN \A part \in Parts : State(part) = seed[s].before[part] ELSE Established]_vars
  BY AtTheEnd
<1>2. QED BY <1>1, RunsKnow, PTL DEF Spec, SeedEstablishes

\* Such a run reports what it did, and a dry run what a real one would do, of all but the
\* subscription to a free plan that has been renamed.
THEOREM AloneReportsTruth == Spec => SeedReportsTruth
<1>1. EstablishInv /\ [Next]_vars =>
        [\A s \in Seeders : Finish(s) /\ seed[s].alone =>
           \A part \in Parts : Foretold(s, part) =>
             seed[s].report[part] = Status(seed[s].before[part])]_vars
  BY AtTheEnd
<1>2. QED BY <1>1, RunsKnow, PTL DEF Spec, SeedReportsTruth
=============================================================================
