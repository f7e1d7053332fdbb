---------------------------- MODULE SessionsProofs ----------------------------
(***************************************************************************)
(* Proofs about Sessions, for any number of devices, requests, tokens and  *)
(* resets.  That a reset ends the sessions cannot be seen from the tokens  *)
(* alone: the invariant follows the requests that may still store one.     *)
(***************************************************************************)
EXTENDS Sessions, FiniteSetTheorems, TLAPS

\* A request is only where its kind can be.
PathInv ==
  \A w \in Workers :
    /\ request[w].pc \in {"user", "membership", "store"} => request[w].op = "login"
    /\ request[w].pc = "token" => request[w].op = "refresh"
    /\ request[w].pc = "idle" <=> request[w].op = "none"
    /\ request[w].op = "reset" => request[w].pc = "together"

\* Each kind has its own statements to wait for.
PendingInv ==
  \A w \in Workers :
    At(w, "together") =>
      \/ request[w].op = "refresh" /\ request[w].pending \subseteq {"revoke", "user", "membership"}
      \/ request[w].op = "reset" /\ request[w].pending \subseteq {"password", "revoke all"}

\* A refresh that has sent its revocation away has revoked its token.
UsedInv ==
  \A w \in Workers :
    request[w].op = "refresh" /\ At(w, "together") /\ "revoke" \notin request[w].pending
      => request[w].token \in revoked

\* Nobody logs in or refreshes unnoticed while a reset is under way.
BesideInv ==
  \A w, v \in Workers :
    request[w].op = "reset" /\ request[v].op \in {"login", "refresh"} => request[v].overlapped

\* Resets bring passwords of their own, and count as swept once they have swept.
ResetsInv ==
  \A w \in Workers :
    request[w].op = "reset" =>
      /\ \A v \in Workers \ {w} : request[v].op = "reset" => request[v].password # request[w].password
      /\ "revoke all" \in request[w].pending => request[w].password \notin swept

\* While a reset that has swept is under way, what is live was stored after the sweep.
SweepingInv ==
  \A w \in Workers :
    request[w].op = "reset" /\ "revoke all" \notin request[w].pending
      => \A t \in Live : issue[t].overlapped

\* A login that has been checked, and a refresh whose token has, are as good as their
\* password unless a reset ran beside them.
CheckedInv ==
  \A w \in Workers :
    /\ request[w].pc \in {"membership", "store"} =>
         request[w].password = password \/ request[w].overlapped
    /\ request[w].op = "refresh" /\ At(w, "together") /\ password \in swept =>
         LET i == issue[request[w].token]
         IN  i.password = password \/ i.overlapped \/ request[w].overlapped

IInv ==
  /\ TypeOK /\ PathInv /\ PendingInv /\ UsedInv /\ BesideInv /\ ResetsInv /\ SweepingInv /\ CheckedInv
  /\ UsedTokensRevoked /\ ResetEndsSessions

-----------------------------------------------------------------------------
(* Types.                                                                  *)

RequestFits(r) ==
  /\ r \in Request
  /\ r.token \in 0..stored /\ r.password \in 0..typed
  /\ r.op = "refresh" => r.token # NoToken

LEMMA BlankFits ==
  ASSUME SessionsAssumption, TypeOK
  PROVE  RequestFits(NoRequest)
<1>1. 0 \in Passwords /\ 0 \in 0..stored /\ 0 \in 0..typed
  BY DEF SessionsAssumption, TypeOK, Passwords
<1>2. NoRequest \in Request
  BY <1>1 DEF NoRequest, Request, NoToken
<1>3. QED BY <1>1, <1>2 DEF RequestFits, NoRequest, NoToken

LEMMA FailedFlag ==
  ASSUME NEW r \in Request, NEW b \in BOOLEAN
  PROVE  LET q == [r EXCEPT !.failed = b]
         IN  /\ q \in Request /\ q.failed = b
             /\ \A field \in DOMAIN r \ {"failed"} : q[field] = r[field]
  BY DEF Request

LEMMA OverlappedFlag ==
  ASSUME NEW r \in Request, NEW b \in BOOLEAN
  PROVE  LET q == [r EXCEPT !.overlapped = b]
         IN  /\ q \in Request /\ q.overlapped = b
             /\ \A field \in DOMAIN r \ {"overlapped"} : q[field] = r[field]
  BY DEF Request

LEMMA LateFlag ==
  ASSUME NEW r \in Request, NEW b \in BOOLEAN
  PROVE  LET q == [r EXCEPT !.late = b]
         IN  /\ q \in Request /\ q.late = b
             /\ \A field \in DOMAIN r \ {"late"} : q[field] = r[field]
  BY DEF Request

LEMMA FreshFits ==
  ASSUME SessionsAssumption, TypeOK, NEW op \in {"login", "refresh"}, NEW pc \in {"user", "token"}
  PROVE  /\ Fresh(op, pc) \in Request
         /\ Fresh(op, pc).op = op /\ Fresh(op, pc).pc = pc
         /\ Fresh(op, pc).token = NoToken /\ Fresh(op, pc).password = 0 /\ Fresh(op, pc).pending = {}
         /\ Resetting => Fresh(op, pc).overlapped
<1>1. PICK b \in BOOLEAN : b = Resetting
  BY Zenon DEF Resetting
<1> DEFINE q == [NoRequest EXCEPT !.op = op, !.pc = pc, !.overlapped = b, !.denied = Parts \ access]
<1>2. Fresh(op, pc) = q
  BY <1>1, Zenon DEF Fresh
<1>3. /\ q \in Request /\ q.op = op /\ q.pc = pc /\ q.token = NoToken /\ q.password = 0
      /\ q.pending = {} /\ q.overlapped = b
  BY BlankFits DEF NoRequest, RequestFits, Request
<1>4. QED
  <2> HIDE DEF q
  <2>1. Resetting => b = TRUE
    BY <1>1
  <2>2. Resetting => Fresh(op, pc).overlapped = TRUE
    BY <1>2, <1>3, <2>1
  <2>3. QED BY <1>2, <1>3, <2>2

LEMMA StepFits ==
  ASSUME TypeOK, NEW w \in Workers, NEW pc \in {"membership", "store"}
  PROVE  RequestFits([request[w] EXCEPT !.pc = pc])
<1>1. request[w] \in Request /\ RequestFits(request[w])
  BY DEF TypeOK, RequestFits
<1>2. [request[w] EXCEPT !.pc = pc] \in Request
  BY <1>1 DEF Request
<1>3. QED BY <1>1, <1>2 DEF RequestFits, Request

LEMMA DoneFits ==
  ASSUME TypeOK, NEW w \in Workers, NEW s
  PROVE  RequestFits(Done(w, s))
<1>1. request[w] \in Request /\ RequestFits(request[w])
  BY DEF TypeOK, RequestFits
<1>2. request[w].pending \ {s} \in SUBSET Statements
  BY <1>1 DEF Request
<1>3. Done(w, s) \in Request
  BY <1>1, <1>2 DEF Request, Done
<1>4. Done(w, s).token = request[w].token /\ Done(w, s).password = request[w].password
      /\ Done(w, s).op = request[w].op
  BY <1>1 DEF Request, Done
<1>5. QED BY <1>1, <1>3, <1>4 DEF RequestFits

LEMMA FailedFits ==
  ASSUME TypeOK, NEW w \in Workers, NEW s, NEW p
  PROVE  RequestFits([Done(w, s) EXCEPT !.failed = @ \/ p \notin access])
<1>1. Done(w, s) \in Request /\ Done(w, s).token \in 0..stored
  BY DoneFits DEF RequestFits
<1>2. (Done(w, s).failed \/ p \notin access) \in BOOLEAN
  OBVIOUS
<1>3. PICK b \in BOOLEAN : b = (Done(w, s).failed \/ p \notin access)
  BY <1>2
<1>4. [Done(w, s) EXCEPT !.failed = b] = [Done(w, s) EXCEPT !.failed = @ \/ p \notin access]
  BY <1>3, Zenon
<1>5. RequestFits([Done(w, s) EXCEPT !.failed = b])
  BY <1>1, DoneFits, FailedFlag DEF RequestFits, Request
<1>6. QED BY <1>4, <1>5, Zenon

LEMMA BeginsFit ==
  ASSUME SessionsAssumption, TypeOK
  PROVE  /\ \A p \in 0..typed : RequestFits([Fresh("login", "user") EXCEPT !.password = p])
         /\ \A t \in 1..stored :
              RequestFits([Fresh("refresh", "token") EXCEPT !.token = t, !.late = t \in revoked \cup expired])
<1>1. stored \in Nat /\ stored <= MaxTokens /\ MaxTokens \in Nat
      /\ typed \in Nat /\ typed <= MaxTurns /\ MaxTurns \in Nat
  BY DEF SessionsAssumption, TypeOK, Passwords
<1>2. ASSUME NEW p \in 0..typed PROVE RequestFits([Fresh("login", "user") EXCEPT !.password = p])
  <2>1. p \in Passwords
    BY <1>1 DEF Passwords
  <2>2. /\ Fresh("login", "user") \in Request
        /\ Fresh("login", "user").op = "login" /\ Fresh("login", "user").token = NoToken
    BY FreshFits
  <2>3. [Fresh("login", "user") EXCEPT !.password = p] \in Request
    BY <2>1, <2>2 DEF Request
  <2>4. QED BY <1>1, <2>2, <2>3 DEF RequestFits, Request, NoToken
<1>3. ASSUME NEW t \in 1..stored
      PROVE  RequestFits([Fresh("refresh", "token") EXCEPT !.token = t, !.late = t \in revoked \cup expired])
  <2>a. (t \in revoked \cup expired) \in BOOLEAN
    OBVIOUS
  <2>1. PICK b \in BOOLEAN : b = (t \in revoked \cup expired)
    BY <2>a
  <2>2. /\ Fresh("refresh", "token") \in Request
        /\ Fresh("refresh", "token").op = "refresh" /\ Fresh("refresh", "token").password = 0
    BY FreshFits
  <2>3. t \in Tokens /\ t \in 0..stored /\ t # NoToken
    BY <1>1 DEF Tokens, NoToken
  <2>4. [Fresh("refresh", "token") EXCEPT !.token = t, !.late = b] \in Request
    BY <2>2, <2>3 DEF Request
  <2>5. RequestFits([Fresh("refresh", "token") EXCEPT !.token = t, !.late = b])
    BY <1>1, <2>2, <2>3, <2>4 DEF RequestFits, Request
  <2>6. QED BY <2>1, <2>5, Zenon
<1>4. QED BY <1>2, <1>3

LEMMA TogetherFits ==
  ASSUME TypeOK, NEW w \in Workers
  PROVE  RequestFits([request[w] EXCEPT !.pc = "together", !.pending = {"revoke", "user", "membership"}])
<1>1. request[w] \in Request /\ RequestFits(request[w])
  BY DEF TypeOK, RequestFits
<1>2. [request[w] EXCEPT !.pc = "together", !.pending = {"revoke", "user", "membership"}] \in Request
  BY <1>1 DEF Request, Statements
<1>3. QED BY <1>1, <1>2 DEF RequestFits, Request

\* One request goes on: the others stay as they are, and all stay well typed.
LEMMA Advanced ==
  ASSUME TypeOK, NEW w \in Workers, NEW r, Advance(w, r), RequestFits(r)
  PROVE  /\ request'[w] = r
         /\ \A v \in Workers \ {w} : request'[v] = request[v]
         /\ request' \in [Workers -> Request]
         /\ \A v \in Workers : RequestFits(request'[v])
<1>1. request \in [Workers -> Request] /\ r \in Request /\ \A v \in Workers : RequestFits(request[v])
  BY DEF TypeOK, RequestFits
<1>2. request' \in [Workers -> Request] /\ \A v \in Workers : request'[v] = IF v = w THEN r ELSE request[v]
  BY <1>1 DEF Advance
<1>3. QED BY <1>1, <1>2

\* Steps that store no token and begin no reset.
LEMMA TypesKept ==
  ASSUME SessionsAssumption, TypeOK, NEW w \in Workers, NEW r, Advance(w, r), RequestFits(r),
         UNCHANGED <<typed, access, changes, stored, left, expired, issue>>,
         password' \in 0..typed, swept' \subseteq 0..typed, revoked' \subseteq 1..stored
  PROVE  TypeOK'
<1>1. request' \in [Workers -> Request] /\ \A v \in Workers : RequestFits(request'[v])
  BY Advanced
<1>2. QED BY <1>1 DEF TypeOK, RequestFits

LEMMA StoreTypes ==
  ASSUME SessionsAssumption, TypeOK, PathInv, NEW w \in Workers, StoreToken(w)
  PROVE  TypeOK'
<1> DEFINE r == request[w]
<1>1. stored \in Nat /\ MaxTokens \in Nat /\ stored' = stored + 1 /\ stored < MaxTokens
  BY DEF TypeOK, SessionsAssumption, StoreToken
<1>2. r \in Request /\ r.token \in 0..stored /\ r.password \in 0..typed /\ 0..typed \subseteq Passwords
  BY DEF TypeOK, SessionsAssumption, Passwords
<1>3. r.op \in {"login", "refresh"} /\ (r.op = "refresh" => r.token \in 1..stored)
  <2>1. r.op \in {"login", "refresh"}
    BY DEF StoreToken, At, PathInv
  <2>2. QED BY <1>1, <1>2, <2>1 DEF TypeOK, NoToken
<1>4. PICK new \in Issue : /\ issue' = [t \in 1..(stored + 1) |-> IF t <= stored THEN issue[t] ELSE new]
                          /\ new.parent <= stored
  <2>1. CASE r.op = "login"
    <3>1. [parent |-> NoToken, password |-> r.password, overlapped |-> r.overlapped] \in Issue
      BY <1>2 DEF Issue, Request
    <3>2. QED BY <1>1, <2>1, <3>1 DEF StoreToken, NoToken
  <2>2. CASE r.op # "login"
    <3>1. issue[r.token] \in Issue /\ r.token \in Tokens
      BY <1>1, <1>3, <2>2 DEF TypeOK, Tokens
    <3>2. (r.overlapped \/ issue[r.token].overlapped) \in BOOLEAN
      OBVIOUS
    <3>3. PICK b \in BOOLEAN : b = (r.overlapped \/ issue[r.token].overlapped)
      BY <3>2
    <3>4. [parent |-> r.token, password |-> issue[r.token].password, overlapped |-> b] \in Issue
      BY <3>1 DEF Issue
    <3>5. issue' = [t \in 1..(stored + 1) |-> IF t <= stored THEN issue[t]
             ELSE [parent |-> r.token, password |-> issue[r.token].password, overlapped |-> b]]
      BY <2>2, <3>3, Zenon DEF StoreToken
    <3>6. QED BY <1>1, <1>3, <2>2, <3>4, <3>5
  <2>3. QED BY <2>1, <2>2
<1>5. issue' \in [1..stored' -> Issue] /\ \A t \in 1..stored' : issue'[t].parent < t
  <2>1. ASSUME NEW t \in 1..(stored + 1)
        PROVE  issue'[t] \in Issue /\ issue'[t].parent < t
    <3>1. CASE t <= stored
      <4>1. t \in 1..stored
        BY <1>1, <3>1
      <4>2. QED BY <1>4, <3>1, <4>1 DEF TypeOK
    <3>2. CASE ~(t <= stored)
      <4>1. t = stored + 1 /\ new.parent \in Nat
        BY <1>1, <3>2, <1>4 DEF Issue, Tokens, NoToken
      <4>2. QED BY <1>1, <1>4, <4>1
    <3>3. QED BY <3>1, <3>2
  <2>2. QED BY <1>1, <1>4, <2>1
<1>6. request' \in [Workers -> Request] /\ \A v \in Workers : RequestFits(request'[v])
  BY Advanced, BlankFits DEF StoreToken, End
<1>7. /\ UNCHANGED <<password, typed, swept, access, changes, revoked, left, expired>>
      /\ stored' \in 0..MaxTokens /\ 1..stored \subseteq 1..stored' /\ 0..stored \subseteq 0..stored'
  BY <1>1 DEF StoreToken, credentials
<1>8. QED BY <1>5, <1>6, <1>7 DEF TypeOK, RequestFits

-----------------------------------------------------------------------------
(* What a step does to the requests, as far as the invariant looks at them. *)

Data == <<password, typed, swept, stored, revoked, issue>>

\* Where a request is, and what it carries, stay; it may only learn that a reset began.
Carries(v) ==
  /\ request'[v].op = request[v].op /\ request'[v].token = request[v].token
  /\ request'[v].password = request[v].password
  /\ request[v].overlapped => request'[v].overlapped

Stays(v) ==
  Carries(v) /\ request'[v].pc = request[v].pc /\ request'[v].pending = request[v].pending

OthersStay(w) == \A v \in Workers \ {w} : Stays(v)

Ended(w) == request'[w].op = "none" /\ request'[w].pc = "idle"

\* The steps that leave the data alone.
QuietStep(w) ==
  \/ Ended(w)
  \/ /\ request'[w].op = "login" /\ request'[w].pc = "user"
     /\ Resetting => request'[w].overlapped
  \/ /\ request'[w].op = "refresh" /\ request'[w].pc = "token"
     /\ Resetting => request'[w].overlapped
  \/ /\ At(w, "user") /\ Carries(w) /\ request'[w].pc = "membership"
     /\ request[w].password = password
  \/ At(w, "membership") /\ Carries(w) /\ request'[w].pc = "store"
  \/ /\ At(w, "token") /\ Carries(w) /\ request'[w].pc = "together"
     /\ request'[w].pending = {"revoke", "user", "membership"}
     /\ request[w].token \notin revoked
  \/ /\ At(w, "together") /\ Carries(w) /\ request'[w].pc = "together"
     /\ \E s \in {"user", "membership"} : request'[w].pending = request[w].pending \ {s}

LEMMA Others ==
  ASSUME TypeOK, NEW w \in Workers, NEW r, Advance(w, r), RequestFits(r)
  PROVE  OthersStay(w)
  BY Advanced DEF OthersStay, Stays, Carries

QuietAction(w) ==
  \/ \E p \in 0..typed : BeginLogin(w, p)
  \/ \E t \in 1..stored : BeginRefresh(w, t)
  \/ FindUser(w) \/ ResolveLoginWorkspace(w) \/ FindToken(w)
  \/ ReadUser(w) \/ ResolveRefreshWorkspace(w) \/ AnswerTogether(w) \/ Cut(w)

LoudAction(w) == BeginReset(w) \/ RevokeUsed(w) \/ StoreToken(w) \/ WritePassword(w) \/ Sweep(w)

LEMMA QuietSteps ==
  ASSUME SessionsAssumption, TypeOK, NEW w \in Workers, QuietAction(w)
  PROVE  TypeOK' /\ UNCHANGED Data /\ OthersStay(w) /\ QuietStep(w)
<1>1. UNCHANGED <<credentials, rows>>
  BY DEF QuietAction, BeginLogin, BeginRefresh, FindUser, ResolveLoginWorkspace, FindToken, ReadUser,
         ResolveRefreshWorkspace, AnswerTogether, Cut
<1>2. UNCHANGED Data
  BY <1>1 DEF Data, credentials, rows
<1>3. ASSUME NEW r, Advance(w, r), RequestFits(r)
      PROVE  TypeOK' /\ OthersStay(w) /\ request'[w] = r
  <2>1. /\ UNCHANGED <<typed, access, changes, stored, left, expired, issue, password, swept, revoked>>
        /\ password \in 0..typed /\ swept \subseteq 0..typed /\ revoked \subseteq 1..stored
    BY <1>1 DEF credentials, rows, TypeOK
  <2>2. QED BY <1>3, <2>1, TypesKept, Others, Advanced
<1>4. CASE End(w)
  <2>1. TypeOK' /\ OthersStay(w) /\ request'[w] = NoRequest
    BY <1>3, <1>4, BlankFits DEF End
  <2>2. QED BY <1>2, <2>1 DEF QuietStep, Ended, NoRequest
<1>5. CASE \E p \in 0..typed : BeginLogin(w, p)
  <2>1. PICK p \in 0..typed : BeginLogin(w, p)
    BY <1>5
  <2> DEFINE r == [Fresh("login", "user") EXCEPT !.password = p]
  <2>2. RequestFits(r)
    BY BeginsFit
  <2>3. TypeOK' /\ OthersStay(w) /\ request'[w] = r
    BY <1>3, <2>1, <2>2 DEF BeginLogin
  <2>4. r.op = "login" /\ r.pc = "user" /\ (Resetting => r.overlapped)
    BY FreshFits DEF Request
  <2>5. QED BY <1>2, <2>3, <2>4 DEF QuietStep
<1>6. CASE \E t \in 1..stored : BeginRefresh(w, t)
  <2>1. PICK t \in 1..stored : BeginRefresh(w, t)
    BY <1>6
  <2> DEFINE r == [Fresh("refresh", "token") EXCEPT !.token = t, !.late = t \in revoked \cup expired]
  <2>2. RequestFits(r)
    BY BeginsFit
  <2>3. TypeOK' /\ OthersStay(w) /\ request'[w] = r
    BY <1>3, <2>1, <2>2 DEF BeginRefresh
  <2>4. r.op = "refresh" /\ r.pc = "token" /\ (Resetting => r.overlapped)
    BY FreshFits DEF Request
  <2>5. QED BY <1>2, <2>3, <2>4 DEF QuietStep
<1>7. request[w] \in Request
  BY DEF TypeOK
<1>8. CASE FindUser(w) /\ ~End(w)
  <2> DEFINE r == [request[w] EXCEPT !.pc = "membership"]
  <2>1. Advance(w, r) /\ At(w, "user") /\ request[w].password = password
    BY <1>8 DEF FindUser
  <2>2. TypeOK' /\ OthersStay(w) /\ request'[w] = r
    BY <1>3, <2>1, StepFits
  <2>3. Carries(w) /\ request'[w].pc = "membership"
    BY <1>7, <2>2 DEF Carries, Request
  <2>4. QED BY <1>2, <2>1, <2>2, <2>3 DEF QuietStep
<1>9. CASE ResolveLoginWorkspace(w) /\ ~End(w)
  <2> DEFINE r == [request[w] EXCEPT !.pc = "store"]
  <2>1. Advance(w, r) /\ At(w, "membership")
    BY <1>9 DEF ResolveLoginWorkspace
  <2>2. TypeOK' /\ OthersStay(w) /\ request'[w] = r
    BY <1>3, <2>1, StepFits
  <2>3. Carries(w) /\ request'[w].pc = "store"
    BY <1>7, <2>2 DEF Carries, Request
  <2>4. QED BY <1>2, <2>1, <2>2, <2>3 DEF QuietStep
<1>10. CASE FindToken(w) /\ ~End(w)
  <2> DEFINE r == [request[w] EXCEPT !.pc = "together", !.pending = {"revoke", "user", "membership"}]
  <2>1. Advance(w, r) /\ At(w, "token") /\ request[w].token \notin revoked
    BY <1>10 DEF FindToken, IsTokenValid
  <2>2. TypeOK' /\ OthersStay(w) /\ request'[w] = r
    BY <1>3, <2>1, TogetherFits
  <2>3. Carries(w) /\ request'[w].pc = "together" /\ request'[w].pending = {"revoke", "user", "membership"}
    BY <1>7, <2>2 DEF Carries, Request
  <2>4. QED BY <1>2, <2>1, <2>2, <2>3 DEF QuietStep
<1>11. ASSUME NEW part \in {"user", "membership"}, Pending(w, part),
              Advance(w, [Done(w, part) EXCEPT !.failed = @ \/ part \notin access])
       PROVE  TypeOK' /\ OthersStay(w) /\ QuietStep(w)
  <2>1. PICK b \in BOOLEAN : b = (Done(w, part).failed \/ part \notin access)
    <3>1. (Done(w, part).failed \/ part \notin access) \in BOOLEAN
      OBVIOUS
    <3>2. QED BY <3>1
  <2> DEFINE r == [Done(w, part) EXCEPT !.failed = b]
  <2>2. Advance(w, r)
    BY <1>11, <2>1, Zenon
  <2>3. Done(w, part) \in Request /\ Done(w, part).token \in 0..stored
    BY DoneFits DEF RequestFits
  <2>4. RequestFits(r)
    BY <2>3, DoneFits, FailedFlag DEF RequestFits, Request
  <2>5. TypeOK' /\ OthersStay(w) /\ request'[w] = r
    BY <1>3, <2>2, <2>4
  <2>6. Carries(w) /\ request'[w].pc = request[w].pc /\ request'[w].pending = request[w].pending \ {part}
    BY <1>7, <2>3, <2>5 DEF Carries, Request, Done
  <2>7. QED BY <1>11, <2>5, <2>6 DEF QuietStep, Pending, At
<1>12. QED
  BY <1>2, <1>4, <1>5, <1>6, <1>8, <1>9, <1>10, <1>11
  DEF QuietAction, FindUser, ResolveLoginWorkspace, FindToken, ReadUser, ResolveRefreshWorkspace, AnswerTogether, Cut

Rest ==
  /\ PathInv /\ PendingInv /\ UsedInv /\ BesideInv /\ ResetsInv /\ SweepingInv /\ CheckedInv
  /\ UsedTokensRevoked /\ ResetEndsSessions

\* A refresh under way presents a token that is stored.
LEMMA Presented ==
  ASSUME TypeOK, NEW w \in Workers, request[w].op = "refresh"
  PROVE  request[w].token \in 1..stored
  BY DEF TypeOK, NoToken

LEMMA QuietRest ==
  ASSUME SessionsAssumption, TypeOK, Rest, NEW w \in Workers,
         UNCHANGED Data, OthersStay(w), QuietStep(w)
  PROVE  Rest'
<1>1. UNCHANGED <<password, typed, swept, stored, revoked, issue>> /\ Live' = Live
  BY DEF Data, Live
<1>2. \A v \in Workers \ {w} : Stays(v)
  BY DEF OthersStay
<1>3. \A v \in Workers : request'[v].op = "reset" =>
        request[v].op = "reset" /\ request'[v].password = request[v].password
        /\ ("revoke all" \in request'[v].pending <=> "revoke all" \in request[v].pending)
  <2>1. request'[w].op = "reset" =>
          request[w].op = "reset" /\ request'[w].password = request[w].password
          /\ ("revoke all" \in request'[w].pending <=> "revoke all" \in request[w].pending)
    BY DEF QuietStep, Ended, Carries, Rest, PathInv, At
  <2>2. QED BY <1>2, <2>1 DEF Stays, Carries
<1>4. PathInv'
  <2>1. /\ request'[w].pc \in {"user", "membership", "store"} => request'[w].op = "login"
        /\ request'[w].pc = "token" => request'[w].op = "refresh"
        /\ request'[w].pc = "idle" <=> request'[w].op = "none"
        /\ request'[w].op = "reset" => request'[w].pc = "together"
    BY DEF QuietStep, Ended, Carries, Rest, PathInv, At
  <2>2. QED BY <1>2, <2>1 DEF Rest, PathInv, Stays, Carries
<1>4a. PendingInv'
  <2>1. request'[w].pc = "together" =>
          \/ request'[w].op = "refresh" /\ request'[w].pending \subseteq {"revoke", "user", "membership"}
          \/ request'[w].op = "reset" /\ request'[w].pending \subseteq {"password", "revoke all"}
    BY DEF QuietStep, Ended, Carries, Rest, PathInv, PendingInv, At
  <2>2. QED BY <1>2, <2>1 DEF Rest, PendingInv, Stays, Carries, At
<1>5. UsedInv'
  <2>1. request'[w].op = "refresh" /\ request'[w].pc = "together" /\ "revoke" \notin request'[w].pending
          => request'[w].token \in revoked
    BY DEF QuietStep, Ended, Carries, Rest, UsedInv, At
  <2>2. QED BY <1>1, <1>2, <2>1 DEF Rest, UsedInv, Stays, Carries, At
<1>6. BesideInv'
  <2>1. ASSUME NEW u \in Workers, NEW v \in Workers,
               request'[u].op = "reset", request'[v].op \in {"login", "refresh"}
        PROVE  request'[v].overlapped
    <3>1. request[u].op = "reset" /\ Resetting
      BY <1>3, <2>1 DEF Resetting
    <3>2. CASE v # w
      BY <1>2, <2>1, <3>1, <3>2 DEF Rest, BesideInv, Stays, Carries
    <3>3. CASE v = w
      BY <2>1, <3>1, <3>3 DEF QuietStep, Ended, Carries, Rest, BesideInv, At
    <3>4. QED BY <3>2, <3>3
  <2>2. QED BY <2>1 DEF BesideInv
<1>7. ResetsInv'
  BY <1>1, <1>3 DEF Rest, ResetsInv
<1>8. SweepingInv'
  BY <1>1, <1>3 DEF Rest, SweepingInv
<1>9. CheckedInv'
  <2>1. request'[w].pc \in {"membership", "store"} => request'[w].password = password \/ request'[w].overlapped
    BY DEF QuietStep, Ended, Carries, Rest, CheckedInv, At
  <2>2. request'[w].op = "refresh" /\ request'[w].pc = "together" /\ password \in swept =>
          LET i == issue[request'[w].token]
          IN  i.password = password \/ i.overlapped \/ request'[w].overlapped
    <3>1. CASE At(w, "token") /\ Carries(w) /\ request[w].token \notin revoked
      <4>1. request'[w].op = "refresh" => request[w].token \in Live
        BY <3>1, Presented DEF Carries, Live
      <4>2. QED BY <3>1, <4>1 DEF Rest, ResetEndsSessions, Carries
    <3>2. CASE At(w, "together") /\ Carries(w)
      BY <3>2 DEF Rest, CheckedInv, Carries
    <3>3. QED BY <3>1, <3>2 DEF QuietStep, Ended
  <2>3. QED BY <1>1, <1>2, <2>1, <2>2 DEF Rest, CheckedInv, Stays, Carries, At
<1>10. UsedTokensRevoked' /\ ResetEndsSessions'
  BY <1>1 DEF Rest, UsedTokensRevoked, ResetEndsSessions
<1>11. QED BY <1>4, <1>4a, <1>5, <1>6, <1>7, <1>8, <1>9, <1>10 DEF Rest

-----------------------------------------------------------------------------
(* Revocation: nothing comes alive.                                        *)

\* Some of the statements it waits for are done.
Waits(v) ==
  /\ Carries(v) /\ request'[v].pc = request[v].pc
  /\ request'[v].pending \subseteq request[v].pending

LEMMA WaitingPaths ==
  ASSUME PathInv, PendingInv, BesideInv, \A v \in Workers : Waits(v)
  PROVE  PathInv' /\ PendingInv' /\ BesideInv'
<1>1. \A v \in Workers : /\ request'[v].op = request[v].op /\ request'[v].pc = request[v].pc
                         /\ request'[v].pending \subseteq request[v].pending
                         /\ request[v].overlapped => request'[v].overlapped
  BY DEF Waits, Carries
<1>2. PathInv'
  BY <1>1 DEF PathInv
<1>3. PendingInv'
  BY <1>1 DEF PendingInv, At
<1>4. BesideInv'
  BY <1>1 DEF BesideInv
<1>5. QED BY <1>2, <1>3, <1>4

\* What a reset brings and has swept, when neither changes.
LEMMA WaitingResets ==
  ASSUME ResetsInv, UNCHANGED swept, \A v \in Workers : Waits(v)
  PROVE  ResetsInv'
<1>1. \A v \in Workers : request'[v].op = request[v].op /\ request'[v].password = request[v].password
                         /\ request'[v].pending \subseteq request[v].pending
  BY DEF Waits, Carries
<1>2. QED BY <1>1 DEF ResetsInv

\* Beside a reset every login and every refresh is overlapped.
LEMMA BesideReset ==
  ASSUME PathInv, BesideInv, NEW w \in Workers, request[w].op = "reset", \A v \in Workers : Waits(v)
  PROVE  CheckedInv'
<1>1. \A v \in Workers : request[v].op \in {"login", "refresh"} => request'[v].overlapped
  BY DEF BesideInv, Waits, Carries
<1>2. \A v \in Workers : /\ request'[v].op = request[v].op
                         /\ request'[v].pc \in {"membership", "store"} => request[v].op = "login"
  BY DEF PathInv, Waits, Carries
<1>3. QED BY <1>1, <1>2 DEF CheckedInv, At

\* At most its revocation is done, when its token has been revoked.
Revokes(v) ==
  /\ Waits(v)
  /\ request[v].pending \ {"revoke"} \subseteq request'[v].pending
  /\ "revoke" \in request[v].pending \ request'[v].pending => request[v].token \in revoked'

LEMMA RevocationRest ==
  ASSUME SessionsAssumption, TypeOK, Rest, revoked \subseteq revoked',
         UNCHANGED <<password, typed, swept, stored, issue>>, \A v \in Workers : Revokes(v)
  PROVE  Rest'
<1>1. Live' \subseteq Live
  BY DEF Live
<1>2. PathInv' /\ PendingInv' /\ BesideInv' /\ ResetsInv'
  BY WaitingPaths, WaitingResets DEF Rest, Revokes
<1>3. UsedInv'
  BY DEF Rest, UsedInv, Revokes, Waits, Carries, At
<1>6. SweepingInv'
  BY <1>1 DEF Rest, SweepingInv, Revokes, Waits, Carries
<1>7. CheckedInv'
  BY DEF Rest, CheckedInv, Revokes, Waits, Carries, At
<1>8. UsedTokensRevoked' /\ ResetEndsSessions'
  BY <1>1 DEF Rest, UsedTokensRevoked, ResetEndsSessions
<1>9. QED BY <1>2, <1>3, <1>6, <1>7, <1>8 DEF Rest

\* Logging out, and time.
Leave ==
  \/ \E platform \in Platforms, t \in 1..stored : Logout(platform, t)
  \/ LogoutAll
  \/ \E t \in Tokens : Expire(t)

LEMMA LeaveKeeps == ASSUME SessionsAssumption, TypeOK, Rest, Leave PROVE TypeOK' /\ Rest'
<1>1. /\ UNCHANGED <<password, typed, swept, access, changes, stored, issue, request>>
      /\ revoked \subseteq revoked' /\ revoked' \cup expired' \cup left' \subseteq 1..stored
  BY DEF Leave, Logout, LogoutAll, Expire, TokenSent, credentials, TypeOK, NoToken
<1>2. TypeOK'
  BY <1>1 DEF TypeOK
<1>3. \A v \in Workers : Revokes(v)
  BY <1>1 DEF Revokes, Waits, Carries
<1>4. QED BY <1>1, <1>2, <1>3, RevocationRest

\* The worker's statement has run; the rest of its request stays.
LEMMA StatementRun ==
  ASSUME SessionsAssumption, TypeOK, NEW w \in Workers, NEW s, Advance(w, Done(w, s))
  PROVE  /\ OthersStay(w) /\ Carries(w) /\ request'[w].pc = request[w].pc
         /\ request'[w].pending = request[w].pending \ {s}
<1>1. OthersStay(w) /\ request'[w] = Done(w, s)
  BY DoneFits, Others, Advanced
<1>2. request[w] \in Request
  BY DEF TypeOK
<1>3. QED BY <1>1, <1>2 DEF Carries, Done, Request

LEMMA RevokeUsedKeeps ==
  ASSUME SessionsAssumption, TypeOK, Rest, NEW w \in Workers, RevokeUsed(w)
  PROVE  TypeOK' /\ Rest'
<1>1. /\ UNCHANGED <<password, typed, swept, access, changes, stored, left, expired, issue>>
      /\ Advance(w, Done(w, "revoke")) /\ revoked' = revoked \cup {request[w].token}
      /\ At(w, "together") /\ "revoke" \in request[w].pending
  BY DEF RevokeUsed, Pending, credentials
<1>2. /\ OthersStay(w) /\ Carries(w) /\ request'[w].pc = request[w].pc
      /\ request'[w].pending = request[w].pending \ {"revoke"}
  BY <1>1, StatementRun
<1>3. request[w].token \in 1..stored /\ revoked \cup {request[w].token} \subseteq 1..stored
  <2>1. request[w].op = "refresh"
    BY <1>1 DEF Rest, PendingInv, At
  <2>2. QED BY <2>1, Presented DEF TypeOK
<1>4. TypeOK'
  <2>1. /\ UNCHANGED <<typed, access, changes, stored, left, expired, issue>>
        /\ password' \in 0..typed /\ swept' \subseteq 0..typed /\ revoked' \subseteq 1..stored
    BY <1>1, <1>3 DEF TypeOK
  <2>2. QED BY <1>1, <2>1, DoneFits, TypesKept
<1>5. \A v \in Workers : Revokes(v)
  BY <1>1, <1>2 DEF OthersStay, Stays, Revokes, Waits, Carries
<1>6. QED BY <1>1, <1>4, <1>5, RevocationRest

\* The new password is one no token was issued for, unless its reset has swept before.
LEMMA WritePasswordKeeps ==
  ASSUME SessionsAssumption, TypeOK, Rest, NEW w \in Workers, WritePassword(w)
  PROVE  TypeOK' /\ Rest'
<1>1. /\ UNCHANGED <<typed, access, changes, swept, stored, revoked, left, expired, issue>>
      /\ Advance(w, Done(w, "password")) /\ password' = request[w].password
      /\ At(w, "together") /\ "password" \in request[w].pending
  BY DEF WritePassword, Pending, rows
<1>2. /\ OthersStay(w) /\ Carries(w) /\ request'[w].pc = request[w].pc
      /\ request'[w].pending = request[w].pending \ {"password"}
  BY <1>1, StatementRun
<1>3. request[w].op = "reset"
  BY <1>1 DEF Rest, PendingInv, At
<1>4. TypeOK'
  <2>1. /\ UNCHANGED <<typed, access, changes, stored, left, expired, issue>>
        /\ password' \in 0..typed /\ swept' \subseteq 0..typed /\ revoked' \subseteq 1..stored
    BY <1>1 DEF TypeOK
  <2>2. QED BY <1>1, <2>1, DoneFits, TypesKept
<1>5. Live' = Live
  BY <1>1 DEF Live
<1>6. \A v \in Workers :
        /\ Waits(v)
        /\ request[v].pending \ {"password"} \subseteq request'[v].pending
  BY <1>2 DEF OthersStay, Stays, Waits, Carries
<1>7. PathInv' /\ PendingInv' /\ BesideInv'
  BY <1>6, WaitingPaths DEF Rest
<1>8. UsedInv'
  BY <1>1, <1>6 DEF Rest, UsedInv, Waits, Carries, At
<1>10. ResetsInv'
  BY <1>1, <1>6, WaitingResets DEF Rest
<1>11. SweepingInv'
  BY <1>1, <1>5, <1>6 DEF Rest, SweepingInv, Waits, Carries
<1>12. CheckedInv'
  BY <1>3, <1>6, BesideReset DEF Rest
<1>13. ResetEndsSessions'
  BY <1>1, <1>3, <1>5 DEF Rest, ResetEndsSessions, ResetsInv, SweepingInv
<1>14. UsedTokensRevoked'
  BY <1>1 DEF Rest, UsedTokensRevoked
<1>15. QED BY <1>4, <1>7, <1>8, <1>10, <1>11, <1>12, <1>13, <1>14 DEF Rest

LEMMA SweepKeeps ==
  ASSUME SessionsAssumption, TypeOK, Rest, NEW w \in Workers, Sweep(w)
  PROVE  TypeOK' /\ Rest'
<1>1. /\ UNCHANGED <<password, typed, access, changes, stored, left, expired, issue>>
      /\ Advance(w, Done(w, "revoke all")) /\ revoked' = 1..stored
      /\ swept' = swept \cup {request[w].password}
      /\ At(w, "together") /\ "revoke all" \in request[w].pending
  BY DEF Sweep, Pending
<1>2. /\ OthersStay(w) /\ Carries(w) /\ request'[w].pc = request[w].pc
      /\ request'[w].pending = request[w].pending \ {"revoke all"}
  BY <1>1, StatementRun
<1>3. request[w].op = "reset"
  BY <1>1 DEF Rest, PendingInv, At
<1>4. TypeOK'
  <2>1. /\ UNCHANGED <<typed, access, changes, stored, left, expired, issue>>
        /\ password' \in 0..typed /\ swept' \subseteq 0..typed /\ revoked' \subseteq 1..stored
    BY <1>1 DEF TypeOK
  <2>2. QED BY <1>1, <2>1, DoneFits, TypesKept
<1>5. Live' = {} /\ revoked \subseteq revoked'
  BY <1>1 DEF Live, TypeOK
<1>6. \A v \in Workers :
        /\ Waits(v)
        /\ request[v].pending \ {"revoke all"} \subseteq request'[v].pending
  BY <1>2 DEF OthersStay, Stays, Waits, Carries
<1>7. PathInv' /\ PendingInv' /\ BesideInv'
  BY <1>6, WaitingPaths DEF Rest
<1>8. UsedInv'
  <2>1. ASSUME NEW v \in Workers, request'[v].op = "refresh", request'[v].pc = "together",
               "revoke" \notin request'[v].pending
        PROVE  request'[v].token \in revoked'
    <3>1. /\ request[v].op = "refresh" /\ At(v, "together") /\ "revoke" \notin request[v].pending
          /\ request'[v].token = request[v].token
      BY <1>6, <2>1 DEF Waits, Carries, At
    <3>2. request[v].token \in revoked
      BY <3>1 DEF Rest, UsedInv
    <3>3. QED BY <1>5, <3>1, <3>2
  <2>2. QED BY <2>1 DEF UsedInv, At
<1>10. ResetsInv'
  <2>1. \A v \in Workers : request'[v].op = request[v].op /\ request'[v].password = request[v].password
                           /\ request'[v].pending \subseteq request[v].pending
    BY <1>6 DEF Waits, Carries
  <2>2. \A v \in Workers \ {w} : request[v].op = "reset" => request[v].password # request[w].password
    BY <1>3 DEF Rest, ResetsInv
  <2>3. "revoke all" \notin request'[w].pending
    BY <1>2
  <2>4. ASSUME NEW v \in Workers, request'[v].op = "reset"
        PROVE  /\ \A u \in Workers \ {v} : request'[u].op = "reset" => request'[u].password # request'[v].password
               /\ "revoke all" \in request'[v].pending => request'[v].password \notin swept'
    <3>1. /\ request[v].op = "reset"
          /\ \A u \in Workers \ {v} : request[u].op = "reset" => request[u].password # request[v].password
          /\ "revoke all" \in request[v].pending => request[v].password \notin swept
      BY <2>1, <2>4 DEF Rest, ResetsInv
    <3>2. "revoke all" \in request'[v].pending => v # w /\ "revoke all" \in request[v].pending
      BY <2>1, <2>3
    <3>3. QED BY <1>1, <2>1, <2>2, <3>1, <3>2
  <2>5. QED BY <2>4 DEF ResetsInv
<1>11. SweepingInv'
  BY <1>5 DEF SweepingInv
<1>12. CheckedInv'
  BY <1>3, <1>6, BesideReset DEF Rest
<1>13. ResetEndsSessions'
  BY <1>5 DEF ResetEndsSessions
<1>14. UsedTokensRevoked'
  BY <1>1, <1>5 DEF Rest, UsedTokensRevoked
<1>15. QED BY <1>4, <1>7, <1>8, <1>10, <1>11, <1>12, <1>13, <1>14 DEF Rest

LEMMA StoreKeeps ==
  ASSUME SessionsAssumption, TypeOK, Rest, NEW w \in Workers, StoreToken(w)
  PROVE  TypeOK' /\ Rest'
<1> DEFINE r == request[w]
           new == stored + 1
<1>1. stored \in Nat /\ stored' = new /\ UNCHANGED <<password, swept, revoked>>
  BY DEF TypeOK, StoreToken, credentials
<1>2. /\ \A v \in Workers \ {w} : request'[v] = request[v]
      /\ request'[w] = NoRequest
  BY Advanced, BlankFits DEF StoreToken, End
<1>3. request'[w].op = "none" /\ request'[w].pc = "idle"
  BY <1>2 DEF NoRequest
<1>4. \/ r.op = "login" /\ r.pc = "store"
      \/ r.op = "refresh" /\ r.pc = "together" /\ r.pending = {}
  BY DEF StoreToken, AllDone, At, Rest, PathInv
<1>5. \A t \in 1..stored : issue'[t] = issue[t] /\ t \in 1..new
  BY <1>1 DEF StoreToken
<1>6. r.op = "login" =>
        issue'[new].parent = NoToken /\ issue'[new].password = r.password
        /\ (r.overlapped => issue'[new].overlapped)
  BY <1>1 DEF StoreToken
<1>7. r.op = "refresh" =>
        /\ issue'[new].parent = r.token /\ issue'[new].password = issue[r.token].password
        /\ (r.overlapped \/ issue[r.token].overlapped => issue'[new].overlapped)
  <2>1. SUFFICES ASSUME r.op = "refresh"
                 PROVE  /\ issue'[new].parent = r.token /\ issue'[new].password = issue[r.token].password
                        /\ (r.overlapped \/ issue[r.token].overlapped => issue'[new].overlapped)
    OBVIOUS
  <2>2. PICK b \in BOOLEAN : b = (r.overlapped \/ issue[r.token].overlapped)
    <3>1. (r.overlapped \/ issue[r.token].overlapped) \in BOOLEAN
      OBVIOUS
    <3>2. QED BY <3>1
  <2>3. issue' = [t \in 1..(stored + 1) |-> IF t <= stored THEN issue[t]
          ELSE [parent |-> r.token, password |-> issue[r.token].password, overlapped |-> b]]
    BY <2>1, <2>2, Zenon DEF StoreToken
  <2>4. issue'[new] = [parent |-> r.token, password |-> issue[r.token].password, overlapped |-> b]
    BY <1>1, <2>3
  <2>5. r.overlapped \/ issue[r.token].overlapped => b = TRUE
    BY <2>2
  <2>6. QED BY <2>4, <2>5
<1>8. 1..new = 1..stored \cup {new} /\ Live' \subseteq Live \cup {new}
  BY <1>1 DEF Live
<1>9. TypeOK'
  BY StoreTypes DEF Rest
<1>10. PathInv' /\ PendingInv' /\ BesideInv' /\ ResetsInv'
  <2>1. PathInv'
    BY <1>2, <1>3 DEF Rest, PathInv
  <2>2. PendingInv'
    BY <1>2, <1>3 DEF Rest, PendingInv, At
  <2>3. BesideInv'
    BY <1>2, <1>3 DEF Rest, BesideInv
  <2>4. ResetsInv'
    BY <1>1, <1>2, <1>3 DEF Rest, ResetsInv
  <2>5. QED BY <2>1, <2>2, <2>3, <2>4
<1>11. UsedInv'
  BY <1>1, <1>2, <1>3 DEF Rest, UsedInv, At
<1>12. SweepingInv'
  <2>1. ASSUME NEW v \in Workers, request'[v].op = "reset", "revoke all" \notin request'[v].pending,
               NEW t \in Live'
        PROVE  issue'[t].overlapped
    <3>1. request[v].op = "reset" /\ "revoke all" \notin request[v].pending
      BY <1>2, <1>3, <2>1
    <3>2. CASE t \in Live
      BY <1>5, <3>1, <3>2 DEF Rest, SweepingInv, Live
    <3>3. CASE t = new
      <4>1. r.overlapped
        BY <1>4, <3>1 DEF Rest, BesideInv
      <4>2. QED BY <1>4, <1>6, <1>7, <3>3, <4>1
    <3>4. QED BY <1>8, <3>2, <3>3
  <2>2. QED BY <2>1 DEF SweepingInv
<1>13. CheckedInv'
  <2>1. ASSUME NEW v \in Workers, v # w, request[v].op = "refresh"
        PROVE  issue'[request[v].token] = issue[request[v].token]
    BY <1>5, <2>1, Presented
  <2>2. QED BY <1>1, <1>2, <1>3, <2>1 DEF Rest, CheckedInv, At
<1>14. UsedTokensRevoked'
  <2>1. r.op = "refresh" => r.token \in revoked
    BY <1>4 DEF Rest, UsedInv, At
  <2>2. issue'[new].parent # NoToken => issue'[new].parent \in revoked
    BY <1>4, <1>6, <1>7, <2>1
  <2>3. \A t \in 1..stored : issue'[t].parent # NoToken => issue'[t].parent \in revoked
    BY <1>5 DEF Rest, UsedTokensRevoked
  <2>4. QED BY <1>1, <1>8, <2>2, <2>3 DEF UsedTokensRevoked
<1>15. ResetEndsSessions'
  <2>1. ASSUME password \in swept, NEW t \in Live'
        PROVE  issue'[t].password = password \/ issue'[t].overlapped
    <3>1. CASE t \in Live
      BY <1>5, <2>1, <3>1 DEF Rest, ResetEndsSessions, Live
    <3>2. CASE t = new /\ r.op = "login"
      BY <1>4, <1>6, <3>2 DEF Rest, CheckedInv
    <3>3. CASE t = new /\ r.op = "refresh"
      BY <1>4, <1>7, <2>1, <3>3 DEF Rest, CheckedInv, At
    <3>4. QED BY <1>4, <1>8, <3>1, <3>2, <3>3
  <2>2. QED BY <1>1, <2>1 DEF ResetEndsSessions
<1>16. QED BY <1>9, <1>10, <1>11, <1>12, <1>13, <1>14, <1>15 DEF Rest

-----------------------------------------------------------------------------
(* A reset begins; access changes.                                         *)

LEMMA TurnLeft ==
  ASSUME SessionsAssumption, TypeOK, Turns < MaxTurns
  PROVE  typed + 1 \in Passwords /\ changes + 1 \in 0..MaxTurns
<1>1. stored \in Nat /\ typed \in Nat /\ changes \in Nat /\ MaxTurns \in Nat /\ expired \subseteq 1..stored
  BY DEF TypeOK, SessionsAssumption, Passwords
<1>2. Cardinality(expired) \in Nat
  <2>1. IsFiniteSet(1..stored) /\ expired \in SUBSET (1..stored)
    BY <1>1, FS_Interval
  <2>2. IsFiniteSet(expired)
    BY <2>1, FS_Subset, Zenon
  <2>3. QED BY <2>2, FS_CardinalityType
<1>3. typed + changes + Cardinality(expired) < MaxTurns
  BY DEF Turns
<1>4. QED BY <1>1, <1>2, <1>3 DEF Passwords

LEMMA ResetKeeps ==
  ASSUME SessionsAssumption, TypeOK, Rest, NEW w \in Workers, BeginReset(w)
  PROVE  TypeOK' /\ Rest'
<1> DEFINE q == [NoRequest EXCEPT !.op = "reset", !.pc = "together", !.password = typed + 1,
                                  !.pending = {"password", "revoke all"}]
           other(v) == IF request[v].op \in {"login", "refresh"} THEN [request[v] EXCEPT !.overlapped = TRUE]
                       ELSE request[v]
<1>1. /\ typed \in Nat /\ typed + 1 \in Passwords /\ typed' = typed + 1 /\ typed' \in Passwords
      /\ 0..typed \subseteq 0..typed' /\ typed + 1 \in 0..typed' /\ typed + 1 \notin 0..typed
  <2>1. typed \in Nat /\ typed' = typed + 1
    BY DEF TypeOK, SessionsAssumption, Passwords, BeginReset
  <2>2. QED BY <2>1, TurnLeft DEF BeginReset
<1>2. request' = [v \in Workers |-> IF v = w THEN q ELSE other(v)]
  BY DEF BeginReset
<1>3. q \in Request /\ q.op = "reset" /\ q.pc = "together" /\ q.password = typed + 1
      /\ q.pending = {"password", "revoke all"} /\ q.token = NoToken
  BY <1>1, BlankFits DEF RequestFits, NoRequest, Request, Statements
<1>4. ASSUME NEW v \in Workers
      PROVE  /\ other(v) \in Request /\ other(v).op = request[v].op /\ other(v).pc = request[v].pc
             /\ other(v).token = request[v].token /\ other(v).password = request[v].password
             /\ other(v).pending = request[v].pending
             /\ request[v].overlapped => other(v).overlapped
             /\ request[v].op \in {"login", "refresh"} => other(v).overlapped
  <2>1. request[v] \in Request
    BY DEF TypeOK
  <2>2. QED BY <2>1 DEF Request
<1>5. request'[w] = q /\ \A v \in Workers \ {w} : request'[v] = other(v)
  BY <1>2
<1>6. UNCHANGED <<password, swept, access, changes, stored, revoked, left, expired, issue>> /\ Live' = Live
  BY DEF BeginReset, rows, Live
<1> HIDE DEF q, other
<1>7. TypeOK'
  <2>1. request' \in [Workers -> Request]
    BY <1>2, <1>3, <1>4
  <2>2. ASSUME NEW v \in Workers
        PROVE  /\ request'[v].token \in 0..stored /\ request'[v].password \in 0..typed'
               /\ request'[v].op = "refresh" => request'[v].token # NoToken
    <3>1. CASE v = w
      <4>1. 0 \in 0..stored
        BY DEF TypeOK, SessionsAssumption
      <4>2. QED BY <1>1, <1>3, <1>5, <3>1, <4>1 DEF NoToken
    <3>2. CASE v # w
      BY <1>1, <1>4, <1>5, <3>2 DEF TypeOK
    <3>3. QED BY <3>1, <3>2
  <2>3. QED BY <1>1, <1>6, <2>1, <2>2 DEF TypeOK
<1>8. \A v \in Workers \ {w} : Stays(v) /\ (request[v].op \in {"login", "refresh"} => request'[v].overlapped)
  BY <1>4, <1>5 DEF Stays, Carries
<1>9. PathInv' /\ PendingInv'
  <2>1. PathInv'
    <3>1. request'[w].op = "reset" /\ request'[w].pc = "together"
      BY <1>3, <1>5
    <3>2. \A v \in Workers \ {w} : request'[v].op = request[v].op /\ request'[v].pc = request[v].pc
      BY <1>8 DEF Stays, Carries
    <3>3. QED BY <3>1, <3>2 DEF Rest, PathInv
  <2>2. PendingInv'
    BY <1>3, <1>5, <1>8 DEF Rest, PendingInv, Stays, Carries, At
  <2>3. QED BY <2>1, <2>2
<1>10. UsedInv'
  BY <1>3, <1>5, <1>6, <1>8 DEF Rest, UsedInv, Stays, Carries, At
<1>11. BesideInv'
  <2>1. \A v \in Workers : request'[v].op \in {"login", "refresh"} => request'[v].overlapped
    BY <1>3, <1>5, <1>8 DEF Stays, Carries
  <2>2. QED BY <2>1 DEF BesideInv
<1>12. ResetsInv'
  <2>1. request'[w].password \notin swept /\ \A v \in Workers \ {w} : request'[v].password # request'[w].password
    <3>1. \A v \in Workers \ {w} : request'[v].password \in 0..typed
      BY <1>8 DEF Stays, Carries, TypeOK
    <3>2. request'[w].password = typed + 1
      BY <1>3, <1>5
    <3>3. QED BY <1>1, <3>1, <3>2 DEF TypeOK
  <2>2. ASSUME NEW v \in Workers, request'[v].op = "reset"
        PROVE  /\ \A u \in Workers \ {v} : request'[u].op = "reset" => request'[u].password # request'[v].password
               /\ "revoke all" \in request'[v].pending => request'[v].password \notin swept'
    <3>1. CASE v = w
      BY <1>6, <2>1, <3>1
    <3>2. CASE v # w
      <4>1. \A u \in Workers \ {w} : /\ request'[u].op = request[u].op /\ request'[u].password = request[u].password
                                     /\ request'[u].pending = request[u].pending
        BY <1>8 DEF Stays, Carries
      <4>2. /\ \A u \in Workers \ {v} : request[u].op = "reset" => request[u].password # request[v].password
            /\ "revoke all" \in request[v].pending => request[v].password \notin swept
        BY <2>2, <3>2, <4>1 DEF Rest, ResetsInv
      <4>3. QED BY <1>6, <2>1, <3>2, <4>1, <4>2
    <3>3. QED BY <3>1, <3>2
  <2>3. QED BY <2>2 DEF ResetsInv
<1>13. SweepingInv'
  BY <1>3, <1>5, <1>6, <1>8 DEF Rest, SweepingInv, Stays, Carries
<1>14. CheckedInv'
  BY <1>3, <1>5, <1>6, <1>8 DEF Rest, CheckedInv, Stays, Carries, At
<1>15. UsedTokensRevoked' /\ ResetEndsSessions'
  BY <1>6 DEF Rest, UsedTokensRevoked, ResetEndsSessions
<1>16. QED BY <1>7, <1>9, <1>10, <1>11, <1>12, <1>13, <1>14, <1>15 DEF Rest

LEMMA AccessKeeps ==
  ASSUME SessionsAssumption, TypeOK, Rest, NEW part \in Parts, ChangeAccess(part)
  PROVE  TypeOK' /\ Rest'
<1>1. /\ UNCHANGED <<password, typed, swept, stored, revoked, left, expired, issue>>
      /\ access' \subseteq Parts /\ changes' \in 0..MaxTurns
  BY TurnLeft DEF ChangeAccess, rows, TypeOK
<1>2. request' = [v \in Workers |-> [request[v] EXCEPT !.denied = @ \ access']]
  BY DEF ChangeAccess
<1>3. ASSUME NEW v \in Workers
      PROVE  request'[v] \in Request /\ Stays(v)
  <2>1. request[v] \in Request
    BY DEF TypeOK
  <2>2. QED BY <1>2, <2>1 DEF Request, Stays, Carries
<1>4. TypeOK'
  <2>1. request' \in [Workers -> Request]
    BY <1>2, <1>3
  <2>2. QED BY <1>1, <1>3, <2>1 DEF TypeOK, Stays, Carries
<1>5. \A v \in Workers : Revokes(v)
  BY <1>3 DEF Stays, Revokes, Waits, Carries
<1>6. QED BY <1>1, <1>4, <1>5, RevocationRest

-----------------------------------------------------------------------------
(* The theorems.                                                           *)

LEMMA InitInv == ASSUME SessionsAssumption, Init PROVE IInv
<1> USE DEF Init, SessionsAssumption, NoToken, Passwords, Parts
<1>1. TypeOK
  <2>1. NoRequest \in Request
    BY DEF NoRequest, Request
  <2>2. request \in [Workers -> Request]
    BY <2>1
  <2>3. 1..0 = {}
    OBVIOUS
  <2>4. issue \in [1..0 -> Issue]
    BY <2>3
  <2>5. QED BY <2>2, <2>3, <2>4 DEF TypeOK, NoRequest
<1>2. \A w \in Workers : request[w].op = "none" /\ request[w].pc = "idle"
  BY DEF NoRequest
<1>3. PathInv /\ PendingInv /\ UsedInv /\ BesideInv /\ ResetsInv /\ SweepingInv /\ CheckedInv
  BY <1>2 DEF PathInv, PendingInv, UsedInv, BesideInv, ResetsInv, SweepingInv, CheckedInv, At
<1>4. UsedTokensRevoked /\ ResetEndsSessions
  BY DEF UsedTokensRevoked, ResetEndsSessions
<1>5. QED BY <1>1, <1>3, <1>4 DEF IInv

LEMMA NextInv == ASSUME SessionsAssumption, IInv, [Next]_vars PROVE IInv'
<1>1. TypeOK /\ Rest
  BY DEF IInv, Rest
<1>2. ASSUME NEW w \in Workers, QuietAction(w) PROVE TypeOK' /\ Rest'
  BY <1>1, <1>2, QuietSteps, QuietRest
<1>3. ASSUME NEW w \in Workers, LoudAction(w) PROVE TypeOK' /\ Rest'
  BY <1>1, <1>3, ResetKeeps, RevokeUsedKeeps, StoreKeeps, WritePasswordKeeps, SweepKeeps DEF LoudAction
<1>4. ASSUME Leave PROVE TypeOK' /\ Rest'
  BY <1>1, <1>4, LeaveKeeps
<1>5. ASSUME NEW part \in Parts, ChangeAccess(part) PROVE TypeOK' /\ Rest'
  BY <1>1, <1>5, AccessKeeps
<1>6. ASSUME UNCHANGED vars PROVE TypeOK' /\ Rest'
  <2>1. UNCHANGED <<password, typed, access, changes, swept, stored, revoked, left, expired, issue, request>>
    BY <1>6 DEF vars, credentials, rows
  <2>2. TypeOK'
    BY <1>1, <2>1 DEF TypeOK
  <2>3. \A v \in Workers : Revokes(v)
    BY <2>1 DEF Revokes, Waits, Carries
  <2>4. revoked \subseteq revoked' /\ UNCHANGED <<password, typed, swept, stored, issue>>
    BY <2>1
  <2>5. Rest'
    BY <1>1, <2>3, <2>4, RevocationRest
  <2>6. QED BY <2>2, <2>5
<1>7. TypeOK' /\ Rest'
  <2>1. CASE \E w \in Workers : QuietAction(w)
    BY <1>2, <2>1
  <2>2. CASE \E w \in Workers : LoudAction(w)
    BY <1>3, <2>2
  <2>3. CASE \E part \in Parts : ChangeAccess(part)
    BY <1>5, <2>3
  <2>4. \/ \E w \in Workers : QuietAction(w) \/ LoudAction(w)
        \/ Leave \/ (\E part \in Parts : ChangeAccess(part)) \/ UNCHANGED vars
    BY Zenon DEF Next, QuietAction, LoudAction, Leave
  <2>5. QED BY <1>4, <1>6, <2>1, <2>2, <2>3, <2>4
<1>8. QED BY <1>7 DEF IInv, Rest

\* The inductive invariant of the sessions.
THEOREM SessionsInvariant == Spec => []IInv
  BY SessionsAssumption, InitInv, NextInv, PTL DEF Spec

\* Tokens and requests stay well typed through every interleaving.
THEOREM SessionsTyped == Spec => []TypeOK
<1>1. IInv => TypeOK
  BY DEF IInv
<1>2. QED BY <1>1, SessionsInvariant, PTL

\* A refreshed token is revoked before its successor is stored.
THEOREM RefreshedTokensAreRevoked == Spec => []UsedTokensRevoked
<1>1. IInv => UsedTokensRevoked
  BY DEF IInv
<1>2. QED BY <1>1, SessionsInvariant, PTL

\* Once a password reset has swept, no live token descends from a login with an older
\* password, unless a request it descends from ran beside a reset.
THEOREM ResetsEndSessions == Spec => []ResetEndsSessions
<1>1. IInv => ResetEndsSessions
  BY DEF IInv
<1>2. QED BY <1>1, SessionsInvariant, PTL

-----------------------------------------------------------------------------
(* What was over before a request began opens no session.                  *)

\* over: the tokens revoked or expired; active: what is.
Refused(r, over, active) ==
  /\ r.late => r.op = "refresh" /\ r.pc = "token" /\ r.token \in over
  /\ r.denied \cap active = {}
  /\ r.pc = "membership" => "user" \notin r.denied
  /\ r.pc = "store" => r.denied = {}
  /\ r.pc = "together" /\ r.op = "refresh" /\ ~r.failed => r.denied \subseteq r.pending

Over == revoked \cup expired

RefusalsInv == \A w \in Workers : Refused(request[w], Over, access)

LEMMA Blank == ASSUME NEW over, NEW active PROVE Refused(NoRequest, over, active)
  BY DEF Refused, NoRequest

\* What is over stays so.
LEMMA StillRefused ==
  ASSUME NEW r, NEW over, NEW active, NEW more, Refused(r, over, active), over \subseteq more
  PROVE  Refused(r, more, active)
  BY DEF Refused

LEMMA Goes ==
  ASSUME TypeOK, RefusalsInv, NEW w \in Workers, NEW r, Advance(w, r), Refused(r, Over, access),
         access' = access, Over \subseteq Over'
  PROVE  RefusalsInv'
<1>1. ASSUME NEW v \in Workers PROVE Refused(request'[v], Over', access')
  <2>1. request'[v] = IF v = w THEN r ELSE request[v]
    BY DEF Advance, TypeOK
  <2>2. Refused(request'[v], Over, access)
    BY <2>1 DEF RefusalsInv
  <2>3. QED BY <2>2, StillRefused
<1>2. QED BY <1>1 DEF RefusalsInv

LEMMA LoginRefused ==
  ASSUME NEW p
  PROVE  Refused([Fresh("login", "user") EXCEPT !.password = p], Over, access)
<1> DEFINE r == [Fresh("login", "user") EXCEPT !.password = p]
<1>1. ~r.late /\ r.denied = Parts \ access /\ r.pc = "user"
  BY DEF Fresh, NoRequest
<1>2. QED BY <1>1 DEF Refused

LEMMA RefreshRefused ==
  ASSUME NEW t
  PROVE  Refused([Fresh("refresh", "token") EXCEPT !.token = t, !.late = t \in revoked \cup expired], Over, access)
<1> DEFINE r == [Fresh("refresh", "token") EXCEPT !.token = t, !.late = t \in revoked \cup expired]
<1>1. /\ r.late = (t \in revoked \cup expired)
      /\ r.denied = Parts \ access /\ r.pc = "token" /\ r.op = "refresh" /\ r.token = t
  BY DEF Fresh, NoRequest
<1>2. QED BY <1>1 DEF Refused, Over

LEMMA RefusalsNext == ASSUME TypeOK, RefusalsInv, [Next]_vars PROVE RefusalsInv'
<1>1. ASSUME NEW w \in Workers, End(w), access' = access, Over \subseteq Over' PROVE RefusalsInv'
  BY <1>1, Blank, Goes DEF End
<1>2. ASSUME request' = request, access' = access, Over \subseteq Over' PROVE RefusalsInv'
  BY <1>2, StillRefused DEF RefusalsInv
<1>3. ASSUME NEW w \in Workers PROVE request[w] \in Request /\ Refused(request[w], Over, access)
  BY DEF TypeOK, RefusalsInv
<1>4. ASSUME NEW w \in Workers,
             \/ \E p \in 0..typed : BeginLogin(w, p)
             \/ \E t \in 1..stored : BeginRefresh(w, t)
      PROVE  RefusalsInv'
  <2>1. access' = access /\ Over \subseteq Over'
    BY <1>4 DEF BeginLogin, BeginRefresh, credentials, rows, Over
  <2>2. QED BY <1>4, <2>1, Goes, LoginRefused, RefreshRefused DEF BeginLogin, BeginRefresh
<1>5. ASSUME NEW w \in Workers, BeginReset(w) PROVE RefusalsInv'
  <2> DEFINE begun == [NoRequest EXCEPT !.op = "reset", !.pc = "together", !.password = typed + 1,
                                        !.pending = {"password", "revoke all"}]
  <2>1. access' = access /\ Over' = Over
    BY <1>5 DEF BeginReset, rows, Over
  <2>2. ASSUME NEW v \in Workers PROVE Refused(request'[v], Over, access)
    <3>1. \/ request'[v] = begun
          \/ request'[v] = [request[v] EXCEPT !.overlapped = TRUE]
          \/ request'[v] = request[v]
      BY <1>5 DEF BeginReset
    <3>2. Refused(begun, Over, access)
      BY DEF Refused, NoRequest
    <3>3. Refused([request[v] EXCEPT !.overlapped = TRUE], Over, access)
      BY <1>3 DEF Refused, Request
    <3>4. QED BY <1>3, <3>1, <3>2, <3>3
  <2>3. QED BY <2>1, <2>2 DEF RefusalsInv
<1>6. ASSUME NEW w \in Workers, FindUser(w) PROVE RefusalsInv'
  <2> DEFINE r == [request[w] EXCEPT !.pc = "membership"]
  <2>1. access' = access /\ Over' = Over /\ request[w].pc = "user"
        /\ (End(w) \/ (Advance(w, r) /\ "user" \in access))
    BY <1>6 DEF FindUser, At, credentials, rows, Over
  <2>2. "user" \in access => Refused(r, Over, access)
    BY <1>3, <2>1 DEF Refused, Request
  <2>3. QED BY <1>1, <2>1, <2>2, Goes
<1>7. ASSUME NEW w \in Workers, ResolveLoginWorkspace(w) PROVE RefusalsInv'
  <2> DEFINE r == [request[w] EXCEPT !.pc = "store"]
  <2>1. access' = access /\ Over' = Over /\ request[w].pc = "membership"
        /\ (End(w) \/ (Advance(w, r) /\ "membership" \in access))
    BY <1>7 DEF ResolveLoginWorkspace, At, credentials, rows, Over
  <2>2. "membership" \in access => Refused(r, Over, access)
    BY <1>3, <2>1 DEF Refused, Request, Parts
  <2>3. QED BY <1>1, <2>1, <2>2, Goes
<1>8. ASSUME NEW w \in Workers, FindToken(w) PROVE RefusalsInv'
  <2> DEFINE r == [request[w] EXCEPT !.pc = "together", !.pending = {"revoke", "user", "membership"}]
  <2>1. access' = access /\ Over' = Over /\ request[w].pc = "token"
        /\ (End(w) \/ (Advance(w, r) /\ request[w].token \notin Over))
    BY <1>8 DEF FindToken, IsTokenValid, At, credentials, rows, Over
  <2>2. request[w].token \notin Over => Refused(r, Over, access)
    BY <1>3, <2>1 DEF Refused, Request, Parts
  <2>3. QED BY <1>1, <2>1, <2>2, Goes
\* The statements sent together.
<1>9. ASSUME NEW w \in Workers, NEW s \in Statements, request[w].pc = "together", Advance(w, Done(w, s)),
             s \notin request[w].denied \/ request[w].op # "refresh", access' = access, Over \subseteq Over'
      PROVE  RefusalsInv'
  <2>1. Refused(Done(w, s), Over, access)
    BY <1>3, <1>9 DEF Refused, Request, Done
  <2>2. QED BY <1>9, <2>1, Goes
<1>10. ASSUME NEW w \in Workers, RevokeUsed(w) \/ WritePassword(w) \/ Sweep(w) PROVE RefusalsInv'
  <2>1. PICK s \in {"revoke", "password", "revoke all"} : Advance(w, Done(w, s)) /\ request[w].pc = "together"
    BY <1>10 DEF RevokeUsed, WritePassword, Sweep, Pending, At
  <2>2. s \notin request[w].denied /\ s \in Statements
    BY <1>3 DEF Request, Parts, Statements
  <2>3. access' = access
    BY <1>10 DEF RevokeUsed, WritePassword, Sweep, credentials
  <2>4. Over \subseteq Over'
    BY <1>10 DEF RevokeUsed, WritePassword, Sweep, rows, Over, TypeOK
  <2>5. QED BY <1>9, <2>1, <2>2, <2>3, <2>4
<1>11. ASSUME NEW w \in Workers, NEW part \in Parts, Pending(w, part),
              Advance(w, [Done(w, part) EXCEPT !.failed = @ \/ part \notin access]), UNCHANGED <<credentials, rows>>
       PROVE  RefusalsInv'
  <2> DEFINE r == [Done(w, part) EXCEPT !.failed = @ \/ part \notin access]
  <2>1. access' = access /\ Over' = Over /\ request[w].pc = "together"
    BY <1>11 DEF Pending, At, credentials, rows, Over
  <2>2. /\ r.late = request[w].late /\ r.op = request[w].op /\ r.pc = "together" /\ r.token = request[w].token
        /\ r.denied = request[w].denied /\ r.pending = request[w].pending \ {part}
        /\ r.failed = (request[w].failed \/ part \notin access)
    BY <1>3, <2>1 DEF Request, Done
  <2> HIDE DEF r
  <2>3. Refused(r, Over, access)
    BY <1>3, <2>1, <2>2 DEF Refused
  <2>4. Advance(w, r)
    BY <1>11 DEF r
  <2>5. QED BY <2>1, <2>3, <2>4, Goes
<1>12. ASSUME NEW w \in Workers, StoreToken(w) \/ AnswerTogether(w) \/ Cut(w) PROVE RefusalsInv'
  <2>1. End(w) /\ access' = access /\ Over \subseteq Over'
    BY <1>12 DEF StoreToken, AnswerTogether, Cut, credentials, rows, Over
  <2>2. QED BY <1>1, <2>1
<1>13. CASE \/ \E platform \in Platforms, t \in 1..stored : Logout(platform, t)
            \/ LogoutAll \/ \E t \in Tokens : Expire(t)
  <2>1. request' = request /\ access' = access
    BY <1>13 DEF Logout, LogoutAll, Expire, credentials
  <2>2. Over \subseteq Over'
    BY <1>13 DEF Logout, LogoutAll, Expire, Over, TypeOK
  <2>3. QED BY <1>2, <2>1, <2>2
<1>14. ASSUME NEW part \in Parts, ChangeAccess(part) PROVE RefusalsInv'
  <2>1. Over' = Over /\ request' = [w \in Workers |-> [request[w] EXCEPT !.denied = @ \ access']]
    BY <1>14 DEF ChangeAccess, rows, Over
  <2>2. ASSUME NEW w \in Workers PROVE Refused(request'[w], Over, access')
    <3>1. request'[w] = [request[w] EXCEPT !.denied = request[w].denied \ access']
      BY <2>1
    <3>2. QED BY <1>3, <3>1 DEF Refused, Request
  <2>3. QED BY <2>1, <2>2 DEF RefusalsInv
<1>15. CASE UNCHANGED vars
  BY <1>2, <1>15 DEF vars, credentials, rows, Over
<1>16. QED
  BY <1>4, <1>5, <1>6, <1>7, <1>8, <1>10, <1>11, <1>12, <1>13, <1>14, <1>15
     DEF Next, ReadUser, ResolveRefreshWorkspace, Parts

\* No session is opened or renewed from a token that was over when the refresh began, nor for a
\* user or a membership that was inactive from the start of the request to its end.
THEOREM LateRequestsAreRefused == Spec => LateRequestsRefused
<1>1. Init => RefusalsInv
  BY Blank DEF Init, RefusalsInv
<1>2. IInv /\ RefusalsInv /\ [Next]_vars => RefusalsInv'
  BY RefusalsNext DEF IInv
<1>3. IInv /\ RefusalsInv => \A w \in Workers : StoreToken(w) => ~request[w].late /\ request[w].denied = {}
  <2>1. SUFFICES ASSUME IInv, RefusalsInv, NEW w \in Workers, StoreToken(w)
                 PROVE  ~request[w].late /\ request[w].denied = {}
    OBVIOUS
  <2>2. Refused(request[w], Over, access)
    BY <2>1 DEF RefusalsInv
  <2>3. QED BY <2>1, <2>2 DEF StoreToken, AllDone, At, Refused
<1>4. QED BY <1>1, <1>2, <1>3, SessionsInvariant, PTL DEF Spec, LateRequestsRefused
=============================================================================
