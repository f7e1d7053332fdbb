------------------------------- MODULE Sessions -------------------------------
(***************************************************************************)
(* The sessions of one user: refresh tokens handed out by login, rotated   *)
(* by refresh, revoked by logout, logout everywhere and password reset.    *)
(* Each worker serves one request at a time and no request runs in a       *)
(* transaction: every database statement is a step, and the statements of  *)
(* a Promise.all run in any order.  A reset starts here when its one-time  *)
(* code has been accepted (OneTimeCodes).                                  *)
(***************************************************************************)
EXTENDS FiniteSetsExt

CONSTANTS
  Platforms,     \* what the user's devices run: "web", "native"
  Workers,       \* requests served at the same time
  MaxTokens,     \* bound on the refresh tokens ever stored
  MaxTurns       \* bound on the password resets begun plus the changes of what
                 \* is active plus the tokens that expire

ASSUME SessionsAssumption ==
  /\ Platforms \subseteq {"web", "native"}
  /\ IsFiniteSet(Workers)
  /\ MaxTokens \in Nat
  /\ MaxTurns \in Nat

Tokens    == 1..MaxTokens
NoToken   == 0
Passwords == 0..MaxTurns
Parts     == {"user", "membership"}

VARIABLES
  password,    \* User.password: the reset that set it, 0 for the first one
  typed,       \* resets begun so far; each brings a password of its own
  access,      \* what is active: the user's status, the membership with its workspace
  changes,     \* changes of access so far
  stored,      \* rows of refresh_tokens: 1..stored
  revoked,     \* rows with a revokedAt
  left,        \* rows whose browser has been told that it is logged out
  expired,     \* rows past their expiresAt
  issue,       \* row -> how it came about
  request,     \* worker -> the request it is serving
  swept        \* passwords whose reset has revoked all sessions

credentials == <<password, typed, access, changes, swept>>
rows == <<stored, revoked, left, expired, issue>>
vars == <<credentials, rows, request>>

NoRequest ==
  [pc |-> "idle", op |-> "none", token |-> NoToken, password |-> 0, pending |-> {},
   failed |-> FALSE, late |-> FALSE, overlapped |-> FALSE, denied |-> {}]

\* parent: the token it was refreshed from.  password: the one its login was checked
\* against.  overlapped: that login, or a refresh since, ran beside a reset.
Issue == [parent : Tokens \cup {NoToken}, password : Passwords, overlapped : BOOLEAN]

Init ==
  /\ password = 0 /\ typed = 0 /\ swept = {}
  /\ access = Parts /\ changes = 0
  /\ stored = 0 /\ revoked = {} /\ left = {} /\ expired = {}
  /\ issue = [t \in {} |-> t]
  /\ request = [w \in Workers |-> NoRequest]

\* What MaxTurns bounds.
Turns == typed + changes + Cardinality(expired)

At(w, pc)     == request[w].pc = pc
Resetting     == \E w \in Workers : request[w].op = "reset"
Advance(w, r) == request' = [request EXCEPT ![w] = r]
End(w)        == Advance(w, NoRequest)

-----------------------------------------------------------------------------
(* Receiving requests.  denied: what has not been active since the start.  *)

Fresh(op, pc) ==
  [NoRequest EXCEPT !.op = op, !.pc = pc, !.overlapped = Resetting, !.denied = Parts \ access]

BeginLogin(w, p) ==
  /\ At(w, "idle")
  /\ Advance(w, [Fresh("login", "user") EXCEPT !.password = p])
  /\ UNCHANGED <<credentials, rows>>

\* late: the token was already revoked or expired when it was sent.
BeginRefresh(w, t) ==
  /\ At(w, "idle")
  /\ Advance(w, [Fresh("refresh", "token") EXCEPT !.token = t, !.late = t \in revoked \cup expired])
  /\ UNCHANGED <<credentials, rows>>

\* The code is accepted and the new password hashed; both statements are sent.
BeginReset(w) ==
  /\ At(w, "idle")
  /\ Turns < MaxTurns
  /\ typed' = typed + 1
  /\ request' = [v \in Workers |->
       IF v = w THEN [NoRequest EXCEPT !.op = "reset", !.pc = "together", !.password = typed + 1,
                                       !.pending = {"password", "revoke all"}]
       ELSE IF request[v].op \in {"login", "refresh"} THEN [request[v] EXCEPT !.overlapped = TRUE]
       ELSE request[v]]
  /\ UNCHANGED <<password, access, changes, swept, rows>>

-----------------------------------------------------------------------------
(* login: user, password and status, then membership, then the token.      *)

FindUser(w) ==
  /\ At(w, "user")
  /\ IF request[w].password = password /\ "user" \in access
     THEN Advance(w, [request[w] EXCEPT !.pc = "membership"])
     ELSE End(w)
  /\ UNCHANGED <<credentials, rows>>

ResolveLoginWorkspace(w) ==
  /\ At(w, "membership")
  /\ IF "membership" \in access
     THEN Advance(w, [request[w] EXCEPT !.pc = "store"])
     ELSE End(w)
  /\ UNCHANGED <<credentials, rows>>

-----------------------------------------------------------------------------
(* refresh: the token, then revocation, user and membership together.      *)

\* Faulty variant: a revoked token is as good as any other until it expires.
NotExpired(t) == t \notin expired

IsTokenValid(t) == t \notin revoked \cup expired

FindToken(w) ==
  /\ At(w, "token")
  /\ IF IsTokenValid(request[w].token)
     THEN Advance(w, [request[w] EXCEPT !.pc = "together",
                        !.pending = {"revoke", "user", "membership"}])
     ELSE End(w)
  /\ UNCHANGED <<credentials, rows>>

Pending(w, s) == At(w, "together") /\ s \in request[w].pending
Done(w, s)    == [request[w] EXCEPT !.pending = @ \ {s}]

\* Faulty variant: the token about to be issued is revoked, not the one presented.
RevokeNext(w) ==
  /\ Pending(w, "revoke")
  /\ revoked' = revoked \cup {stored + 1}
  /\ Advance(w, Done(w, "revoke"))
  /\ UNCHANGED <<credentials, stored, left, expired, issue>>

\* Unconditional, even when the token has been revoked meanwhile.
RevokeUsed(w) ==
  /\ Pending(w, "revoke")
  /\ revoked' = revoked \cup {request[w].token}
  /\ Advance(w, Done(w, "revoke"))
  /\ UNCHANGED <<credentials, stored, left, expired, issue>>

ReadUser(w) ==
  /\ Pending(w, "user")
  /\ Advance(w, [Done(w, "user") EXCEPT !.failed = @ \/ "user" \notin access])
  /\ UNCHANGED <<credentials, rows>>

ResolveRefreshWorkspace(w) ==
  /\ Pending(w, "membership")
  /\ Advance(w, [Done(w, "membership") EXCEPT !.failed = @ \/ "membership" \notin access])
  /\ UNCHANGED <<credentials, rows>>

\* Faulty variant: the revocation is not waited for.
ChecksDone(w) ==
  At(w, "together") /\ request[w].pending \subseteq {"revoke", "revoke all"}

AllDone(w) == At(w, "together") /\ request[w].pending = {}

\* generateTokens, for a login and for a refresh whose checks have all passed.
StoreToken(w) ==
  LET r == request[w]
  IN  /\ At(w, "store") \/ (AllDone(w) /\ r.op = "refresh" /\ ~r.failed)
      /\ stored < MaxTokens
      /\ stored' = stored + 1
      /\ issue' = [t \in 1..(stored + 1) |->
           IF t <= stored THEN issue[t]
           ELSE IF r.op = "login"
           THEN [parent |-> NoToken, password |-> r.password, overlapped |-> r.overlapped]
           ELSE [parent |-> r.token, password |-> issue[r.token].password,
                 overlapped |-> r.overlapped \/ issue[r.token].overlapped]]
      /\ End(w)
      /\ UNCHANGED <<credentials, revoked, left, expired>>

-----------------------------------------------------------------------------
(* logout and logout everywhere change one row, or all, in one statement.  *)

\* The refresh cookie is set with the path of /auth/refresh: a browser sends it nowhere else.
RefreshTokenPath  == "refresh"
CookieSent(route) == route = RefreshTokenPath

\* A browser has the token in the cookie only; a native app sends it in the body.
TokenSent(platform, route, t) == IF platform = "native" \/ CookieSent(route) THEN t ELSE NoToken

\* Rows are never deleted, so finding the row and revoking it make one step; without a
\* token nothing is revoked.  The answer is the same, and clears both cookies.
Logout(platform, t) ==
  /\ t \notin left
  /\ revoked' = revoked \cup ({TokenSent(platform, "logout", t)} \ {NoToken})
  /\ left' = IF platform = "web" THEN left \cup {t} ELSE left
  /\ UNCHANGED <<credentials, stored, expired, issue, request>>

LogoutAll ==
  /\ revoked' = 1..stored
  /\ UNCHANGED <<credentials, stored, left, expired, issue, request>>

-----------------------------------------------------------------------------
(* reset: the password and the sessions together.                          *)

WritePassword(w) ==
  /\ Pending(w, "password")
  /\ password' = request[w].password
  /\ Advance(w, Done(w, "password"))
  /\ UNCHANGED <<typed, access, changes, swept, rows>>

\* Faulty variant: only the newest session is ended.
SweepNewest(w) ==
  /\ Pending(w, "revoke all")
  /\ revoked' = revoked \cup ({stored} \ {NoToken})
  /\ swept' = swept \cup {request[w].password}
  /\ Advance(w, Done(w, "revoke all"))
  /\ UNCHANGED <<password, typed, access, changes, stored, left, expired, issue>>

Sweep(w) ==
  /\ Pending(w, "revoke all")
  /\ revoked' = 1..stored
  /\ swept' = swept \cup {request[w].password}
  /\ Advance(w, Done(w, "revoke all"))
  /\ UNCHANGED <<password, typed, access, changes, stored, left, expired, issue>>

\* The answer of a reset, or of a refresh that failed a check.
AnswerTogether(w) ==
  /\ AllDone(w)
  /\ request[w].op = "reset" \/ request[w].failed
  /\ End(w)
  /\ UNCHANGED <<credentials, rows>>

-----------------------------------------------------------------------------
\* A crash, or a statement that fails.  The other statements of its Promise.all run all
\* the same: whichever have run by now are those that do.
Cut(w) ==
  /\ ~At(w, "idle")
  /\ End(w)
  /\ UNCHANGED <<credentials, rows>>

\* Every token lives for the same time.
Expire(t) ==
  /\ Turns < MaxTurns
  /\ t \in 1..stored \ expired /\ 1..(t - 1) \subseteq expired
  /\ expired' = expired \cup {t}
  /\ UNCHANGED <<credentials, stored, revoked, left, issue, request>>

\* Users are suspended and memberships ended, and restored, outside the application.
ChangeAccess(part) ==
  /\ Turns < MaxTurns
  /\ changes' = changes + 1
  /\ access' = IF part \in access THEN access \ {part} ELSE access \cup {part}
  /\ request' = [w \in Workers |-> [request[w] EXCEPT !.denied = @ \ access']]
  /\ UNCHANGED <<password, typed, swept, rows>>

Next ==
  \/ \E w \in Workers :
       \/ \E p \in 0..typed : BeginLogin(w, p)
       \/ \E t \in 1..stored : BeginRefresh(w, t)
       \/ BeginReset(w)
       \/ FindUser(w) \/ ResolveLoginWorkspace(w)
       \/ FindToken(w) \/ RevokeUsed(w) \/ ReadUser(w) \/ ResolveRefreshWorkspace(w)
       \/ StoreToken(w)
       \/ WritePassword(w) \/ Sweep(w) \/ AnswerTogether(w)
       \/ Cut(w)
  \/ \E platform \in Platforms, t \in 1..stored : Logout(platform, t)
  \/ LogoutAll
  \/ \E t \in Tokens : Expire(t)
  \/ \E part \in Parts : ChangeAccess(part)

Spec == Init /\ [][Next]_vars
-----------------------------------------------------------------------------
(* Properties.                                                             *)

Statements == {"revoke", "user", "membership", "password", "revoke all"}

Request ==
  [pc         : {"idle", "user", "membership", "store", "token", "together"},
   op         : {"none", "login", "refresh", "reset"},
   token      : Tokens \cup {NoToken},
   password   : Passwords,
   pending    : SUBSET Statements,
   failed     : BOOLEAN,
   late       : BOOLEAN,
   overlapped : BOOLEAN,
   denied     : SUBSET Parts]

\* Tokens stay well typed; the token a request holds is stored and the passwords
\* around were typed; nothing refreshes from a token younger than itself.
TypeOK ==
  /\ typed \in Passwords /\ password \in 0..typed /\ swept \subseteq 0..typed
  /\ access \subseteq Parts /\ changes \in 0..MaxTurns
  /\ stored \in 0..MaxTokens
  /\ revoked \cup expired \cup left \subseteq 1..stored
  /\ issue \in [1..stored -> Issue]
  /\ \A t \in 1..stored : issue[t].parent < t
  /\ request \in [Workers -> Request]
  /\ \A w \in Workers :
       /\ request[w].token \in 0..stored /\ request[w].password \in 0..typed
       /\ request[w].op = "refresh" => request[w].token # NoToken

Live == {t \in 1..stored : t \notin revoked}

\* A token that has been refreshed is revoked, however the statements of the refresh
\* were ordered and whatever else ran in between.
UsedTokensRevoked == \A t \in 1..stored : issue[t].parent # NoToken => issue[t].parent \in revoked

\* No session is opened or renewed from a token that was over when the refresh began, nor
\* for a user or a membership that was inactive from the request's start to its end.
LateRequestsRefused ==
  [][\A w \in Workers : StoreToken(w) => ~request[w].late /\ request[w].denied = {}]_vars

\* Once the reset that set the password has revoked all sessions, every live token
\* comes from a login with that password, or from requests one of which ran beside a reset.
ResetEndsSessions ==
  password \in swept => \A t \in Live : issue[t].password = password \/ issue[t].overlapped

\* What the API promises of logout: the refresh token of the device is revoked.
LogoutEndsSession == left \subseteq revoked
=============================================================================
