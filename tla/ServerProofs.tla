------------------------------ MODULE ServerProofs ------------------------------
(***************************************************************************)
(* Proofs about Server, for any number of requests, callers and changes    *)
(* around them: what an answer says of what was written, for whom anything *)
(* is written, and what the probes say while the process goes down.        *)
(***************************************************************************)
EXTENDS Server, FiniteSetTheorems, TLAPS

Outside == {"idle", "guards", "done"}
NotYetWritten ==
  {"guards", "pipe", "handler", "create", "write account", "upsert profile", "upsert onboarding", "ping", "gateway"}
ReadingBack == {"read account back", "read workspace back"}
Stages == NotYetWritten \cup ReadingBack \cup {"idle", "done"}

Contents == UNION {UNION Bodies(route) : route \in Routes}

Request ==
  [pc : Stages, route : Routes \cup {"none"}, body : SUBSET Contents, answer : Nat,
   entitled : BOOLEAN, late : BOOLEAN, wrote : BOOLEAN, overlapped : BOOLEAN]

TypesInv == request \in [Workers -> Request]

Probes   == {"health", "details"}
Refusals == {400, 401, 403, 404, 409, 422, 502}

\* Where a request is tells which route it is on.
RouteInv(r) ==
  /\ r.pc = "ping" => r.route \in Probes
  /\ r.pc = "gateway" => r.route = "analyze"
  /\ r.route \in Probes => r.pc \in {"guards", "pipe", "handler", "ping", "done"}

\* It also tells whether the request has written.
PathInv(r) ==
  /\ RouteInv(r)
  /\ r.pc \in NotYetWritten \cup {"idle"} => ~r.wrote
  /\ r.pc \in ReadingBack => r.wrote

\* Until it is done, a request is answered by its timer only.
TimerInv(r) ==
  /\ r.pc # "done" => r.answer \in {0, 408}
  /\ r.pc \in {"idle", "guards"} => r.answer = 0

\* Past the guards the caller was entitled at some time, and what he is now entitled to counts.
EntitledInv(r) ==
  /\ r.pc \notin Outside \/ r.wrote => r.entitled
  /\ r.pc \notin {"idle", "done"} /\ Entitled(r.route, access) => r.entitled

LateInv(r) == r.late => process # "serving"

Asks(r) ==
  r.route \in WriteRoutes /\ ~(r.route \in AdminWrites \cup {"update preferences"} /\ r.body = {})

\* Settings that are not there, or were not there to begin with.
Bare(ws)    == ws.settings = "none"
Unshown(ws) == ws.settings \in {"none", "inserted"}

Renaming(r)   == r.route = "update workspace"
Rereading(pc) == pc = "read workspace back"

\* What a finished request answered.
AnswerInv(r) ==
  /\ r.answer \in {200, 201} /\ Asks(r) => r.wrote
  /\ r.answer \in Refusals =>
       r.pc = "done" /\ (r.wrote => Renaming(r) /\ r.answer = 404 /\ Unshown(workspace))

RequestInv(r) == PathInv(r) /\ TimerInv(r) /\ EntitledInv(r) /\ LateInv(r) /\ AnswerInv(r)

ProbeInv(w) ==
  request[w].route \in Probes /\ request[w].answer = 200 => ~request[w].late /\ reported[w] = "ok"

\* An update of the settings reads back the settings it has written, if no others.
BackInv(w) ==
  Rereading(request[w].pc) => Renaming(request[w]) \/ ~Bare(workspace)

WorkspaceColumns == {"name", "settings", "preferences"}

HealthTypes == appState \in [Workers -> BOOLEAN] /\ reported \in [Workers -> {"none", "ok", "error", "shutting_down"}]

IInv ==
  /\ TypesInv /\ HealthTypes /\ DOMAIN workspace = WorkspaceColumns
  /\ \A w \in Workers : RequestInv(request[w]) /\ ProbeInv(w) /\ BackInv(w)

-----------------------------------------------------------------------------
(* One request goes on.                                                    *)

Same(r, q) == q.route = r.route /\ q.body = r.body /\ q.entitled = r.entitled /\ q.late = r.late

OthersStay(w) == \A v \in Workers \ {w} : request'[v] = request[v]

\* Whoever has been answered by the timer is told nothing more.
Ending(r, q, s) == /\ q.pc = "done"
                   /\ r.answer = 0 => q.answer = s
                   /\ r.answer # 0 => q.answer = r.answer

LEMMA Continued ==
  ASSUME TypesInv, NEW w \in Workers, NEW r \in Request, Continue(w, r)
  PROVE  TypesInv' /\ OthersStay(w) /\ request'[w] = r
  BY DEF TypesInv, OthersStay, Continue

LEMMA GoEffect ==
  ASSUME TypesInv, NEW w \in Workers, NEW pc \in Stages, Go(w, pc)
  PROVE  /\ TypesInv' /\ OthersStay(w) /\ Same(request[w], request'[w])
         /\ request'[w].pc = pc /\ request'[w].answer = request[w].answer /\ request'[w].wrote = request[w].wrote
<1> DEFINE q == [request[w] EXCEPT !.pc = pc]
<1>1. request[w] \in Request
  BY DEF TypesInv
<1>2. /\ q \in Request /\ Same(request[w], q)
      /\ q.pc = pc /\ q.answer = request[w].answer /\ q.wrote = request[w].wrote
  BY <1>1 DEF Request, Same
<1>3. QED BY <1>2, Continued DEF Go

LEMMA EndedEffect ==
  ASSUME NEW r \in Request, NEW s \in Nat
  PROVE  LET q == Ended(r, s) IN q \in Request /\ Same(r, q) /\ Ending(r, q, s) /\ q.wrote = r.wrote
<1> DEFINE q == Ended(r, s)
<1>1. q = [r EXCEPT !.pc = "done", !.answer = IF r.answer = 0 THEN s ELSE r.answer]
  BY DEF Ended, Request
<1>2. q \in Request
  <2> DEFINE a == IF r.answer = 0 THEN s ELSE r.answer
  <2>1. a \in Nat
    BY DEF Request
  <2>2. "done" \in Stages
    BY DEF Stages
  <2>3. q = [r EXCEPT !.pc = "done", !.answer = a]
    BY <1>1
  <2> HIDE DEF a, q
  <2>4. QED BY <2>1, <2>2, <2>3 DEF Request
<1>3. Same(r, q) /\ q.wrote = r.wrote
  BY <1>1 DEF Request, Same
<1>4. Ending(r, q, s)
  <2>1. q.pc = "done" /\ q.answer = IF r.answer = 0 THEN s ELSE r.answer
    BY <1>1 DEF Request
  <2> HIDE DEF q
  <2>2. QED BY <2>1 DEF Ending
<1>5. QED BY <1>2, <1>3, <1>4

LEMMA AnswerEffect ==
  ASSUME TypesInv, NEW w \in Workers, NEW s \in Nat, Answer(w, s)
  PROVE  /\ TypesInv' /\ OthersStay(w) /\ Same(request[w], request'[w])
         /\ Ending(request[w], request'[w], s) /\ request'[w].wrote = request[w].wrote
<1>1. request[w] \in Request
  BY DEF TypesInv
<1>2. QED BY <1>1, EndedEffect, Continued DEF Answer

LEMMA WroteEffect ==
  ASSUME TypesInv, NEW w \in Workers
  PROVE  LET r == request[w]  q == Wrote(w) IN
         q \in Request /\ Same(r, q) /\ q.pc = r.pc /\ q.answer = r.answer /\ q.wrote
<1>1. request[w] \in Request
  BY DEF TypesInv
<1>2. QED BY <1>1 DEF Request, Same, Wrote

LEMMA GoHavingWrittenEffect ==
  ASSUME TypesInv, NEW w \in Workers, NEW pc \in Stages, GoHavingWritten(w, pc)
  PROVE  /\ TypesInv' /\ OthersStay(w) /\ Same(request[w], request'[w])
         /\ request'[w].pc = pc /\ request'[w].answer = request[w].answer /\ request'[w].wrote
<1> DEFINE q == [Wrote(w) EXCEPT !.pc = pc]
<1>1. /\ q \in Request /\ Same(request[w], q)
      /\ q.pc = pc /\ q.answer = request[w].answer /\ q.wrote
  BY WroteEffect DEF Request, Same
<1>2. QED BY <1>1, Continued DEF GoHavingWritten

LEMMA AnswerHavingWrittenEffect ==
  ASSUME TypesInv, NEW w \in Workers, NEW s \in Nat, AnswerHavingWritten(w, s)
  PROVE  /\ TypesInv' /\ OthersStay(w) /\ Same(request[w], request'[w])
         /\ Ending(request[w], request'[w], s) /\ request'[w].wrote
<1> DEFINE q == Ended(Wrote(w), s)
<1>1. q \in Request /\ Same(Wrote(w), q) /\ Ending(Wrote(w), q, s) /\ q.wrote = Wrote(w).wrote
  BY WroteEffect, EndedEffect
<1>2. Same(request[w], q) /\ Ending(request[w], q, s) /\ q.wrote
  BY <1>1, WroteEffect DEF Same, Ending
<1>3. QED BY <1>1, <1>2, Continued DEF AnswerHavingWritten

-----------------------------------------------------------------------------
(* Settings are never deleted, and those inserted later stay known as such. *)

Settled ==
  /\ DOMAIN workspace' = WorkspaceColumns
  /\ Unshown(workspace) => Unshown(workspace')
  /\ ~Bare(workspace) => ~Bare(workspace')

LEMMA SettledAsIs ==
  ASSUME IInv, workspace' = workspace
  PROVE  Settled
  BY DEF IInv, Settled, Unshown, Bare

LEMMA SettledByUpdates ==
  ASSUME IInv, NEW column \in WorkspaceColumns, NEW content,
         workspace' = [workspace EXCEPT ![column] = content],
         column = "settings" => content = Updated(workspace.settings)
  PROVE  Settled /\ (column = "settings" => ~Bare(workspace'))
<1>1. DOMAIN workspace = WorkspaceColumns
  BY DEF IInv
<1>2. DOMAIN workspace' = WorkspaceColumns
  BY <1>1
<1>3. workspace'.settings = IF column = "settings" THEN Updated(workspace.settings) ELSE workspace.settings
  BY <1>1 DEF WorkspaceColumns
<1>4. QED BY <1>2, <1>3 DEF Settled, Unshown, Bare, Updated

-----------------------------------------------------------------------------
(* What the steps of the handlers have in common.                          *)

\* On to the next statement, before the write or after it.
Proceeds(r, q) ==
  /\ q.answer = r.answer
  /\ \/ q.pc \in NotYetWritten \ {"guards"} /\ r.pc \in NotYetWritten /\ q.wrote = r.wrote
     \/ /\ q.pc \in ReadingBack /\ q.wrote
        /\ Rereading(q.pc) => Renaming(q) \/ ~Bare(workspace')

\* The end: having written, with nothing to write, refused, with nothing to show, or failed.
Finishes(r, q, s) ==
  /\ Ending(r, q, s)
  /\ \/ s \in {200, 201} /\ q.wrote
     \/ s = 200 /\ q.wrote = r.wrote /\ ~Asks(r)
     \/ s \in Refusals /\ q.wrote = r.wrote /\ r.pc \in NotYetWritten
     \/ s = 404 /\ q.wrote = r.wrote /\ Renaming(r) /\ Bare(workspace)
     \/ s \in {500, 503} /\ q.wrote = r.wrote

Handled(r, q) == Same(r, q) /\ RouteInv(q) /\ (Proceeds(r, q) \/ \E s \in Nat : Finishes(r, q, s))

\* A handler's step keeps what is known of its request.
LEMMA HandledRequest ==
  ASSUME NEW r \in Request, NEW q \in Request, RequestInv(r), Handled(r, q),
         r.pc \notin Outside \/ (r.pc = "guards" /\ q.pc = "done" /\ ~q.wrote)
  PROVE  RequestInv(q)
<1>1. /\ r.answer \in {0, 408} /\ (r.pc \notin Outside => r.entitled)
      /\ r.pc \in NotYetWritten => ~r.wrote
      /\ Same(r, q) /\ RouteInv(q)
  BY DEF RequestInv, PathInv, TimerInv, EntitledInv, Outside, Handled, Same
<1>0. (Asks(q) <=> Asks(r)) /\ (Renaming(q) <=> Renaming(r))
  BY <1>1 DEF Same, Asks, Renaming
<1>2. LateInv(q)
  BY DEF LateInv, RequestInv, Handled, Same
<1>3. CASE Proceeds(r, q)
  <2>1. /\ q.answer \in {0, 408} /\ q.pc \notin Outside
        /\ q.pc \in NotYetWritten => ~q.wrote
        /\ q.pc \in ReadingBack => q.wrote
    <3>1. \A pc : /\ pc \in NotYetWritten \ {"guards"} \/ pc \in ReadingBack => pc \notin Outside
                  /\ ~(pc \in NotYetWritten /\ pc \in ReadingBack)
      BY DEF NotYetWritten, ReadingBack, Outside
    <3>2. QED BY <1>1, <1>3, <3>1 DEF Proceeds
  <2>2. PathInv(q) /\ TimerInv(q)
    BY <1>1, <2>1 DEF PathInv, TimerInv, Outside
  <2>3. AnswerInv(q)
    BY <2>1 DEF AnswerInv, Refusals
  <2>4. EntitledInv(q)
    BY <1>1, <2>1 DEF EntitledInv, Same, Outside
  <2>5. QED BY <1>2, <2>2, <2>3, <2>4 DEF RequestInv
<1>4. ASSUME NEW s \in Nat, Finishes(r, q, s) PROVE RequestInv(q)
  <2>1. q.pc = "done" /\ (q.answer = s \/ q.answer = 408)
    BY <1>1, <1>4 DEF Finishes, Ending
  <2>2. PathInv(q) /\ TimerInv(q)
    BY <1>1, <2>1 DEF PathInv, TimerInv, NotYetWritten, ReadingBack
  <2>3. q.wrote => r.entitled
    BY <1>1, <2>1
  <2>4. EntitledInv(q)
    BY <1>1, <2>1, <2>3 DEF EntitledInv, Same, Outside
  <2>5. q.answer \in {200, 201} /\ Asks(q) => q.wrote
    BY <1>0, <1>1, <1>4, <2>1 DEF Finishes, Refusals
  <2>6. ASSUME q.answer \in Refusals, q.wrote
        PROVE  Renaming(q) /\ q.answer = 404 /\ Unshown(workspace)
    <3>1. q.answer = s /\ s \notin {200, 201, 500, 503}
      BY <2>1, <2>6 DEF Refusals
    <3>2. ~(q.wrote = r.wrote /\ r.pc \in NotYetWritten)
      BY <1>1, <2>6
    <3>3. s = 404 /\ Renaming(r) /\ Bare(workspace)
      BY <1>4, <3>1, <3>2 DEF Finishes
    <3>4. QED BY <1>0, <3>1, <3>3 DEF Unshown, Bare
  <2>7. AnswerInv(q)
    BY <2>1, <2>5, <2>6 DEF AnswerInv
  <2>8. QED BY <1>2, <2>2, <2>4, <2>7 DEF RequestInv
<1>5. QED BY <1>3, <1>4 DEF Handled

LEMMA StillInv ==
  ASSUME NEW w \in Workers, UNCHANGED <<access, process>>, Settled, RequestInv(request'[w])
  PROVE  RequestInv(request[w])'
<1>1. PathInv(request[w])' /\ TimerInv(request[w])'
  BY DEF RequestInv, PathInv, RouteInv, TimerInv
<1>2. EntitledInv(request[w])'
  BY DEF RequestInv, EntitledInv
<1>3. LateInv(request[w])'
  BY DEF RequestInv, LateInv
<1>4. AnswerInv(request[w])'
  <2>1. AnswerInv(request'[w])
    BY DEF RequestInv
  <2>2. QED BY <2>1 DEF AnswerInv, Asks, Renaming, Settled
<1>5. QED BY <1>1, <1>2, <1>3, <1>4 DEF RequestInv

\* A step of one request, with nothing around it changed.
LEMMA OneRequest ==
  ASSUME IInv, NEW w \in Workers, TypesInv', HealthTypes', OthersStay(w), UNCHANGED <<access, process>>,
         Settled, \A v \in Workers \ {w} : reported'[v] = reported[v],
         RequestInv(request'[w]), ProbeInv(w)', BackInv(w)'
  PROVE  IInv'
<1>1. ASSUME NEW v \in Workers PROVE RequestInv(request'[v])
  BY <1>1 DEF IInv, OthersStay
<1>2. ASSUME NEW v \in Workers, v # w PROVE ProbeInv(v)'
  BY <1>2 DEF IInv, OthersStay, ProbeInv
<1>3. ASSUME NEW v \in Workers, v # w PROVE BackInv(v)'
  BY <1>3 DEF IInv, OthersStay, BackInv, Settled
<1>4. QED BY <1>1, <1>2, <1>3, StillInv DEF IInv, Settled

\* Handlers but that of the probes say nothing of the process.
Elsewhere(w) == request[w].route \notin Probes /\ UNCHANGED healthVars

LEMMA HandlerStep ==
  ASSUME IInv, NEW w \in Workers, TypesInv', OthersStay(w), UNCHANGED <<access, process>>, Settled,
         Elsewhere(w), request[w].pc \notin Outside, Handled(request[w], request'[w])
  PROVE  IInv'
<1>1. request[w] \in Request /\ request'[w] \in Request
  BY DEF IInv, TypesInv
<1>2. RequestInv(request'[w])
  BY <1>1, HandledRequest DEF IInv
<1>3. ProbeInv(w)' /\ HealthTypes'
  BY DEF Elsewhere, healthVars, ProbeInv, Handled, Same, IInv, HealthTypes
<1>4. BackInv(w)'
  BY DEF BackInv, Rereading, Handled, Proceeds, Finishes, Ending, NotYetWritten
<1>5. QED BY <1>2, <1>3, <1>4, OneRequest DEF Elsewhere, healthVars

-----------------------------------------------------------------------------
(* The four ways a handler goes on.                                        *)

Aside(w) == UNCHANGED <<access, process>> /\ Settled /\ Elsewhere(w) /\ request[w].pc \notin Outside

LEMMA MovesOn ==
  ASSUME IInv, NEW w \in Workers, Aside(w), request[w].pc \in NotYetWritten,
         NEW pc \in {"create", "write account", "upsert profile", "upsert onboarding", "gateway"},
         pc = "gateway" => request[w].route = "analyze", Go(w, pc)
  PROVE  IInv'
<1>1. pc \in Stages /\ pc \in NotYetWritten \ {"guards", "ping"}
  BY DEF Stages, NotYetWritten
<1>2. TypesInv
  BY DEF IInv
<1>3. Handled(request[w], request'[w]) /\ TypesInv' /\ OthersStay(w)
  BY <1>1, <1>2, GoEffect DEF Handled, Proceeds, RouteInv, Same, Aside, Elsewhere
<1>4. QED BY <1>3, HandlerStep DEF Aside

LEMMA Answers ==
  ASSUME IInv, NEW w \in Workers, Aside(w), NEW s \in Nat, Answer(w, s),
         \/ s = 200 /\ (request[w].wrote \/ ~Asks(request[w]))
         \/ s \in Refusals /\ request[w].pc \in NotYetWritten
         \/ s = 404 /\ Renaming(request[w]) /\ Bare(workspace)
         \/ s = 500
  PROVE  IInv'
<1>1. /\ TypesInv' /\ OthersStay(w) /\ Same(request[w], request'[w])
      /\ Ending(request[w], request'[w], s) /\ request'[w].wrote = request[w].wrote
  BY AnswerEffect DEF IInv
<1>2. Handled(request[w], request'[w])
  BY <1>1 DEF Handled, Finishes, RouteInv, Ending
<1>3. QED BY <1>1, <1>2, HandlerStep DEF Aside

LEMMA Refuses ==
  ASSUME IInv, NEW w \in Workers, Aside(w), request[w].pc \in NotYetWritten, NEW s \in Refusals, Answer(w, s)
  PROVE  IInv'
<1>1. s \in Nat
  BY DEF Refusals
<1>2. QED BY <1>1, Answers

LEMMA WritesAndMovesOn ==
  ASSUME IInv, NEW w \in Workers, Aside(w), NEW pc \in ReadingBack, GoHavingWritten(w, pc),
         Rereading(pc) => Renaming(request[w]) \/ ~Bare(workspace')
  PROVE  IInv'
<1>1. pc \in Stages /\ pc \notin {"ping", "gateway"}
  BY DEF Stages, ReadingBack
<1>2. TypesInv
  BY DEF IInv
<1> DEFINE r == request[w]
           q == request'[w]
<1>3. TypesInv' /\ OthersStay(w) /\ Same(r, q) /\ q.pc = pc /\ q.answer = r.answer /\ q.wrote
  BY <1>1, <1>2, GoHavingWrittenEffect
<1>4. RouteInv(q)
  BY <1>1, <1>3 DEF RouteInv, Same, Aside, Elsewhere
<1>5. Renaming(q) <=> Renaming(r)
  BY <1>3 DEF Renaming, Same
<1>6. Proceeds(r, q)
  BY <1>3, <1>5 DEF Proceeds
<1>7. QED BY <1>3, <1>4, <1>6, HandlerStep DEF Aside, Handled

LEMMA WritesAndAnswers ==
  ASSUME IInv, NEW w \in Workers, Aside(w), NEW s \in {200, 201}, AnswerHavingWritten(w, s)
  PROVE  IInv'
<1>1. /\ TypesInv' /\ OthersStay(w) /\ Same(request[w], request'[w])
      /\ Ending(request[w], request'[w], s) /\ request'[w].wrote
  BY AnswerHavingWrittenEffect DEF IInv
<1>2. Finishes(request[w], request'[w], s)
  BY <1>1 DEF Finishes
<1>3. s \in Nat /\ RouteInv(request'[w])
  BY <1>1 DEF RouteInv, Ending
<1>4. Handled(request[w], request'[w])
  BY <1>1, <1>2, <1>3 DEF Handled
<1>5. QED BY <1>1, <1>4, HandlerStep DEF Aside

-----------------------------------------------------------------------------
(* The handlers.                                                           *)

\* On which routes, or at which stage, a step is not that of a probe.
LEMMA AsideOn ==
  ASSUME IInv, NEW w \in Workers, UNCHANGED surroundings, UNCHANGED healthVars, Settled,
         request[w].pc \notin Outside,
         request[w].route \notin Probes \/ request[w].pc \notin {"pipe", "handler", "ping"}
  PROVE  Aside(w)
<1>1. request[w].route \notin Probes
  BY DEF IInv, RequestInv, PathInv, RouteInv, Outside
<1>2. QED BY <1>1 DEF Aside, Elsewhere, surroundings

LEMMA SomeRefusals ==
  400 \in Refusals /\ 404 \in Refusals /\ 409 \in Refusals /\ 422 \in Refusals /\ 502 \in Refusals
  BY DEF Refusals

LEMMA AccountsSteps ==
  ASSUME IInv, NEW w \in Workers, AccountsStep(w)
  PROVE  IInv'
<1> DEFINE r == request[w]
<1>0. UNCHANGED healthVars /\ Settled
  BY SettledAsIs DEF AccountsStep, workspacesVars
<1>1. CASE FindCurrency(w)
  <2>1. /\ UNCHANGED surroundings /\ r.pc = "handler" /\ r.route = "create account"
        /\ Go(w, "create") \/ Answer(w, 400)
    BY <1>1 DEF FindCurrency, Statement, At, On
  <2>2. Aside(w) /\ r.pc \in NotYetWritten
    BY <1>0, <2>1, AsideOn DEF Outside, Probes, NotYetWritten
  <2>3. QED BY <2>1, <2>2, MovesOn, Refuses, SomeRefusals
<1>2. CASE CreateAccount(w)
  <2>1. UNCHANGED surroundings /\ r.pc = "create" /\ AnswerHavingWritten(w, 201)
    BY <1>2 DEF CreateAccount, Statement, At
  <2>2. Aside(w)
    BY <1>0, <2>1, AsideOn DEF Outside
  <2>3. QED BY <2>1, <2>2, WritesAndAnswers
<1>3. CASE RefuseImmutable(w)
  <2>1. UNCHANGED surroundings /\ r.pc = "handler" /\ r.route = "update account" /\ Answer(w, 409)
    BY <1>3 DEF RefuseImmutable, Attempted, At, On
  <2>2. Aside(w) /\ r.pc \in NotYetWritten
    BY <1>0, <2>1, AsideOn DEF Outside, Probes, NotYetWritten
  <2>3. QED BY <2>1, <2>2, Refuses, SomeRefusals
<1>4. CASE FindAccount(w)
  <2>1. /\ UNCHANGED surroundings /\ r.pc = "handler" /\ r.route \in {"update account", "archive", "reactivate"}
        /\ \/ Answer(w, 404)
           \/ Objection(w) # 0 /\ Answer(w, Objection(w))
           \/ Go(w, "write account")
    BY <1>4 DEF FindAccount, Statement, At, On
  <2>2. Aside(w) /\ r.pc \in NotYetWritten
    BY <1>0, <2>1, AsideOn DEF Outside, Probes, NotYetWritten
  <2>3. Objection(w) # 0 => Objection(w) \in Refusals
    <3>1. Objection(w) \in {0, 400, 409}
      BY DEF Objection
    <3>2. QED BY <3>1, SomeRefusals
  <2>4. CASE Answer(w, 404) \/ (Objection(w) # 0 /\ Answer(w, Objection(w)))
    BY <2>2, <2>3, <2>4, Refuses, SomeRefusals
  <2>5. CASE Go(w, "write account")
    BY <2>2, <2>5, MovesOn
  <2>6. QED BY <2>1, <2>4, <2>5
<1>5. CASE UpdateAccount(w)
  <2>1. UNCHANGED surroundings /\ r.pc = "write account" /\ AnswerHavingWritten(w, 200)
    BY <1>5 DEF UpdateAccount, Statement, At
  <2>2. Aside(w)
    BY <1>0, <2>1, AsideOn DEF Outside
  <2>3. QED BY <2>1, <2>2, WritesAndAnswers
<1>6. CASE UpdateStatus(w)
  <2>1. UNCHANGED surroundings /\ r.pc = "write account" /\ GoHavingWritten(w, "read account back")
    BY <1>6 DEF UpdateStatus, Statement, At
  <2>2. Aside(w) /\ "read account back" \in ReadingBack /\ ~Rereading("read account back")
    BY <1>0, <2>1, AsideOn DEF Outside, ReadingBack, Rereading
  <2>3. QED BY <2>1, <2>2, WritesAndMovesOn
<1>7. CASE ReadAccountBack(w)
  <2>1. UNCHANGED surroundings /\ r.pc = "read account back" /\ Answer(w, 200)
    BY <1>7 DEF ReadAccountBack, Statement, At
  <2>2. Aside(w) /\ r.wrote
    BY <1>0, <2>1, AsideOn DEF Outside, ReadingBack, IInv, RequestInv, PathInv
  <2>3. QED BY <2>1, <2>2, Answers
<1>8. CASE ReadAccounts(w)
  <2>1. /\ UNCHANGED surroundings /\ r.pc = "handler" /\ r.route = "read accounts"
        /\ Answer(w, 200) \/ Answer(w, 404)
    BY <1>8 DEF ReadAccounts, Statement, At, On
  <2>2. Aside(w) /\ r.pc \in NotYetWritten /\ ~Asks(r)
    BY <1>0, <2>1, AsideOn DEF Outside, Probes, NotYetWritten, Asks, WriteRoutes, AccountWrites, AdminWrites
  <2>3. CASE Answer(w, 200)
    BY <2>2, <2>3, Answers
  <2>4. CASE Answer(w, 404)
    BY <2>2, <2>4, Refuses, SomeRefusals
  <2>5. QED BY <2>1, <2>3, <2>4
<1>9. QED BY <1>1, <1>2, <1>3, <1>4, <1>5, <1>6, <1>7, <1>8 DEF AccountsStep

LEMMA WorkspacesSteps ==
  ASSUME IInv, NEW w \in Workers, WorkspacesStep(w)
  PROVE  IInv'
<1> DEFINE r == request[w]
<1>0. UNCHANGED healthVars
  BY DEF WorkspacesStep
<1>1. CASE ReadWorkspace(w)
  <2>1. /\ UNCHANGED surroundings /\ workspace' = workspace /\ r.pc = "handler"
        /\ Answer(w, 200) \/ Answer(w, 404)
        /\ r.route = "read workspace" \/ (r.route \in AdminWrites /\ r.body = {})
    BY <1>1 DEF ReadWorkspace, AnswerWithSettings, Statement, At, On, Body, workspacesVars
  <2>2. Aside(w) /\ r.pc \in NotYetWritten /\ ~Asks(r)
    BY <1>0, <2>1, AsideOn, SettledAsIs
       DEF Outside, Probes, NotYetWritten, Asks, WriteRoutes, AccountWrites, AdminWrites
  <2>3. CASE Answer(w, 200)
    BY <2>2, <2>3, Answers
  <2>4. CASE Answer(w, 404)
    BY <2>2, <2>4, Refuses, SomeRefusals
  <2>5. QED BY <2>1, <2>3, <2>4
<1>2. CASE UpdateWorkspace(w)
  <2>1. /\ UNCHANGED surroundings /\ r.pc = "handler" /\ r.route \in AdminWrites
        /\ GoHavingWritten(w, "read workspace back")
        /\ workspace' = [workspace EXCEPT ![Column[r.route]] = Updated(@)]
    BY <1>2 DEF UpdateWorkspace, WorkspaceUnchanged, Statement, At, On
  <2> DEFINE column == Column[r.route]
  <2>2. /\ column \in WorkspaceColumns
        /\ column = "settings" <=> ~Renaming(r)
    BY <2>1 DEF Column, Renaming, AdminWrites, WorkspaceColumns
  <2>3. Settled /\ (column = "settings" => ~Bare(workspace'))
    <3>1. workspace' = [workspace EXCEPT ![column] = Updated(workspace[column])]
      BY <2>1
    <3> HIDE DEF column
    <3>2. QED BY <2>2, <3>1, SettledByUpdates
  <2>4. Aside(w) /\ "read workspace back" \in ReadingBack
    BY <1>0, <2>1, <2>3, AsideOn DEF Outside, Probes, AdminWrites, ReadingBack
  <2>5. QED BY <2>1, <2>2, <2>3, <2>4, WritesAndMovesOn
<1>3. CASE ReadWorkspaceBack(w)
  <2>1. /\ UNCHANGED surroundings /\ workspace' = workspace /\ r.pc = "read workspace back"
        /\ Answer(w, 200) \/ (Bare(workspace) /\ Answer(w, 404))
    BY <1>3 DEF ReadWorkspaceBack, AnswerWithSettings, Bare, Statement, At, workspacesVars
  <2>2. Aside(w) /\ r.wrote /\ BackInv(w)
    BY <1>0, <2>1, AsideOn, SettledAsIs DEF Outside, ReadingBack, IInv, RequestInv, PathInv
  <2>3. CASE Answer(w, 200)
    BY <2>2, <2>3, Answers
  <2>4. CASE Bare(workspace) /\ Answer(w, 404)
    <3>1. Renaming(r)
      BY <2>1, <2>2, <2>4 DEF BackInv, Rereading
    <3>2. 404 \in Nat
      OBVIOUS
    <3>3. QED BY <2>2, <2>4, <3>1, <3>2, Answers
  <2>5. QED BY <2>1, <2>3, <2>4
<1>4. CASE UpsertPreferences(w)
  <2>1. /\ UNCHANGED surroundings /\ r.pc = "handler" /\ r.route = "update preferences"
        /\ AnswerHavingWritten(w, 200) /\ workspace' = [workspace EXCEPT !.preferences = "new"]
    BY <1>4 DEF UpsertPreferences, WorkspaceUnchanged, Statement, At, On
  <2>2. Settled
    BY <2>1, SettledByUpdates DEF WorkspaceColumns
  <2>3. Aside(w)
    BY <1>0, <2>1, <2>2, AsideOn DEF Outside, Probes
  <2>4. QED BY <2>1, <2>3, WritesAndAnswers
<1>5. CASE ReadProfile(w) \/ ReadPreferences(w)
  <2>1. /\ UNCHANGED surroundings /\ workspace' = workspace /\ r.pc = "handler" /\ Answer(w, 200)
        /\ r.route = "read profile" \/ (r.route = "update preferences" /\ r.body = {})
    BY <1>5 DEF ReadProfile, ReadPreferences, workspacesVars, Statement, At, On, Body
  <2>2. Aside(w) /\ ~Asks(r)
    BY <1>0, <2>1, AsideOn, SettledAsIs DEF Outside, Probes, Asks, WriteRoutes, AccountWrites, AdminWrites
  <2>3. QED BY <2>1, <2>2, Answers
<1>6. CASE EnsureCountryIsActive(w)
  <2>1. /\ UNCHANGED surroundings /\ workspace' = workspace /\ r.pc = "handler" /\ r.route = "update profile"
        /\ Go(w, "upsert profile") \/ Answer(w, 400)
    BY <1>6 DEF EnsureCountryIsActive, workspacesVars, Statement, At, On
  <2>2. Aside(w) /\ r.pc \in NotYetWritten
    BY <1>0, <2>1, AsideOn, SettledAsIs DEF Outside, Probes, NotYetWritten
  <2>3. QED BY <2>1, <2>2, MovesOn, Refuses, SomeRefusals
<1>7. CASE UpsertProfile(w)
  <2>1. UNCHANGED surroundings /\ workspace' = workspace /\ r.pc = "upsert profile" /\ AnswerHavingWritten(w, 200)
    BY <1>7 DEF UpsertProfile, WorkspaceUnchanged, Statement, At
  <2>2. Aside(w)
    BY <1>0, <2>1, AsideOn, SettledAsIs DEF Outside
  <2>3. QED BY <2>1, <2>2, WritesAndAnswers
<1>8. CASE ReadOnboarding(w)
  <2>1. /\ UNCHANGED surroundings /\ workspace' = workspace /\ r.pc = "handler" /\ r.route = "update onboarding"
        /\ Go(w, "upsert onboarding")
    BY <1>8 DEF ReadOnboarding, Statement, At, On
  <2>2. Aside(w) /\ r.pc \in NotYetWritten
    BY <1>0, <2>1, AsideOn, SettledAsIs DEF Outside, Probes, NotYetWritten
  <2>3. QED BY <2>1, <2>2, MovesOn
<1>9. CASE UpsertOnboarding(w)
  <2>1. UNCHANGED surroundings /\ workspace' = workspace /\ r.pc = "upsert onboarding" /\ AnswerHavingWritten(w, 200)
    BY <1>9 DEF UpsertOnboarding, Statement, At
  <2>2. Aside(w)
    BY <1>0, <2>1, AsideOn, SettledAsIs DEF Outside
  <2>3. QED BY <2>1, <2>2, WritesAndAnswers
<1>10. QED BY <1>1, <1>2, <1>3, <1>4, <1>5, <1>6, <1>7, <1>8, <1>9 DEF WorkspacesStep

LEMMA AnalyzerSteps ==
  ASSUME IInv, NEW w \in Workers, AnalyzerStep(w)
  PROVE  IInv'
<1> DEFINE r == request[w]
<1>0. UNCHANGED healthVars /\ Settled
  BY SettledAsIs DEF AnalyzerStep, workspacesVars
<1>1. CASE ResolveMimeType(w)
  <2>1. /\ UNCHANGED surroundings /\ r.pc = "handler" /\ r.route = "analyze"
        /\ Go(w, "gateway") \/ Answer(w, 422)
    BY <1>1 DEF ResolveMimeType, At, On
  <2>2. Aside(w) /\ r.pc \in NotYetWritten
    BY <1>0, <2>1, AsideOn DEF Outside, Probes, NotYetWritten
  <2>3. QED BY <2>1, <2>2, MovesOn, Refuses, SomeRefusals
<1>2. CASE GatewayReplies(w) \/ GatewayFails(w)
  <2>1. UNCHANGED surroundings /\ r.pc = "gateway" /\ (Answer(w, 200) \/ Answer(w, 502))
    BY <1>2 DEF GatewayReplies, GatewayFails, At
  <2>2. r.route = "analyze"
    BY <2>1 DEF IInv, RequestInv, PathInv, RouteInv
  <2>3. Aside(w) /\ r.pc \in NotYetWritten /\ ~Asks(r)
    BY <1>0, <2>1, <2>2, AsideOn
       DEF Outside, Probes, NotYetWritten, Asks, WriteRoutes, AccountWrites, AdminWrites
  <2>4. CASE Answer(w, 200)
    BY <2>3, <2>4, Answers
  <2>5. CASE Answer(w, 502)
    BY <2>3, <2>5, Refuses, SomeRefusals
  <2>6. QED BY <2>1, <2>4, <2>5
<1>3. QED BY <1>1, <1>2 DEF AnalyzerStep

\* A probe that succeeds has pinged the database, and so came before the end of the pool.
LEMMA HealthSteps ==
  ASSUME IInv, NEW w \in Workers, HealthStep(w)
  PROVE  IInv'
<1> DEFINE r == request[w]
           q == request'[w]
<1>0. TypesInv /\ HealthTypes /\ RequestInv(r) /\ r \in Request /\ Settled
  BY SettledAsIs DEF IInv, TypesInv, HealthStep, workspacesVars
<1>1. CASE GetAppState(w)
  <2>1. UNCHANGED <<access, process, reported>> /\ r.pc = "handler" /\ r.route \in Probes /\ Go(w, "ping")
    BY <1>1 DEF GetAppState, At, On, Probes, surroundings
  <2>2. "ping" \in Stages
    BY DEF Stages, NotYetWritten
  <2>3. TypesInv' /\ OthersStay(w) /\ Same(r, q) /\ q.pc = "ping" /\ q.answer = r.answer /\ q.wrote = r.wrote
    BY <1>0, <2>1, <2>2, GoEffect
  <2>4. HealthTypes'
    BY <1>0, <1>1, <2>1 DEF GetAppState, HealthTypes
  <2>5. r.pc \notin Outside /\ Handled(r, q)
    BY <2>1, <2>3 DEF Handled, Proceeds, RouteInv, NotYetWritten, Outside, Same
  <2>6. RequestInv(q)
    BY <1>0, <2>3, <2>5, HandledRequest DEF TypesInv
  <2>7. ProbeInv(w)' /\ BackInv(w)'
    BY <1>0, <2>1, <2>3 DEF ProbeInv, BackInv, Rereading, RequestInv, TimerInv
  <2>8. QED BY <1>0, <2>1, <2>3, <2>4, <2>6, <2>7, OneRequest
<1>2. ASSUME NEW up \in BOOLEAN, At(w, "ping"), up => process = "serving", Report(w, up) PROVE IInv'
  <2>1. UNCHANGED <<access, process>> /\ r.pc = "ping" /\ r.route \in Probes
    BY <1>0, <1>2 DEF Report, At, RequestInv, PathInv, RouteInv, surroundings
  <2> DEFINE s == IF IsHealthy(appState[w], up) THEN 200 ELSE 503
  <2>2. s \in {200, 503} /\ (s = 200 => up /\ ~appState[w])
    BY DEF IsHealthy
  <2>3. Answer(w, s)
    BY <1>2 DEF Report
  <2> HIDE DEF s
  <2>4. TypesInv' /\ OthersStay(w) /\ Same(r, q) /\ Ending(r, q, s) /\ q.wrote = r.wrote
    BY <1>0, <2>2, <2>3, AnswerEffect
  <2>5. r.pc \notin Outside /\ Handled(r, q)
    <3>1. r.pc \notin Outside /\ ~Asks(r)
      BY <2>1 DEF Outside, Asks, WriteRoutes, AccountWrites, AdminWrites, Probes
    <3>2. Same(r, q) /\ RouteInv(q)
      BY <2>4 DEF RouteInv, Ending
    <3>3. Finishes(r, q, s)
      BY <2>2, <2>4, <3>1 DEF Finishes
    <3>4. s \in Nat
      BY <2>2
    <3>5. QED BY <2>4, <3>1, <3>2, <3>3, <3>4 DEF Handled
  <2>6. RequestInv(q)
    BY <1>0, <2>4, <2>5, HandledRequest DEF TypesInv
  <2>7. /\ reported' = [reported EXCEPT ![w] = OverallStatus(w, up)]
        /\ appState' = [appState EXCEPT ![w] = FALSE]
    BY <1>2 DEF Report
  <2>8. OverallStatus(w, up) \in {"none", "ok", "error", "shutting_down"}
    BY DEF OverallStatus
  <2>9. HealthTypes'
    BY <1>0, <2>7, <2>8 DEF HealthTypes
  <2>10. ProbeInv(w)'
    <3>1. SUFFICES ASSUME q.answer = 200 PROVE ~q.late /\ reported'[w] = "ok"
      BY DEF ProbeInv
    <3>2. s = 200
      BY <1>0, <2>1, <2>4, <3>1 DEF Ending, RequestInv, TimerInv
    <3>3. ~r.late
      BY <1>0, <1>2, <2>2, <3>2 DEF RequestInv, LateInv
    <3>4. OverallStatus(w, up) = "ok"
      BY <2>2, <3>2 DEF OverallStatus, IsHealthy
    <3>5. QED BY <1>0, <2>4, <2>7, <3>3, <3>4 DEF Same, HealthTypes
  <2>11. BackInv(w)'
    BY <2>4 DEF BackInv, Rereading, Ending
  <2>12. QED BY <1>0, <2>1, <2>4, <2>6, <2>7, <2>9, <2>10, <2>11, OneRequest DEF HealthTypes, IInv
<1>3. QED BY <1>1, <1>2 DEF HealthStep, PingAnswers, PingFails, Statement

-----------------------------------------------------------------------------
(* The pipeline around the handlers.                                       *)

\* What a guard lets through was entitled when it looked.
LEMMA GuardStep ==
  ASSUME IInv, NEW w \in Workers, Guard(w), UNCHANGED healthVars, Settled
  PROVE  IInv'
<1> DEFINE r == request[w]
           q == request'[w]
<1>0. /\ TypesInv /\ HealthTypes /\ RequestInv(r) /\ r \in Request /\ r.pc = "guards" /\ r.answer = 0 /\ ~r.wrote
      /\ UNCHANGED <<access, process>>
  <2>1. r.pc = "guards" /\ UNCHANGED <<access, process>>
    BY DEF Guard, At, surroundings
  <2>2. TypesInv /\ HealthTypes /\ RequestInv(r) /\ r \in Request
    BY DEF IInv, TypesInv
  <2>3. QED BY <2>1, <2>2 DEF RequestInv, TimerInv, PathInv, NotYetWritten
<1>1. \/ Go(w, "handler") /\ Entitled(r.route, access)
      \/ Go(w, "pipe") /\ Entitled(r.route, access)
      \/ \E s \in {401, 403} : Answer(w, s)
  <2>1. Roles(access) = access
    BY DEF Roles
  <2>2. \/ On(w, Public) /\ Go(w, "handler")
        \/ Answer(w, 401)
        \/ Answer(w, 403)
        \/ Authenticated(access) /\ RolesSuffice(r.route, Roles(access)) /\ (Go(w, "pipe") \/ Go(w, "handler"))
    BY DEF Guard
  <2>3. CASE Answer(w, 401) \/ Answer(w, 403)
    BY <2>3
  <2>4. CASE On(w, Public) /\ Go(w, "handler")
    BY <2>4 DEF On, Entitled
  <2>5. CASE Authenticated(access) /\ RolesSuffice(r.route, Roles(access)) /\ (Go(w, "pipe") \/ Go(w, "handler"))
    BY <2>1, <2>5 DEF Entitled
  <2>6. QED BY <2>2, <2>3, <2>4, <2>5
<1>2. ASSUME NEW pc \in {"handler", "pipe"}, Go(w, pc), Entitled(r.route, access) PROVE IInv'
  <2>1. pc \in Stages
    BY DEF Stages, NotYetWritten
  <2>2. TypesInv' /\ OthersStay(w) /\ Same(r, q) /\ q.pc = pc /\ q.answer = 0 /\ q.wrote = r.wrote
    BY <1>0, <1>2, <2>1, GoEffect
  <2>3. r.entitled
    BY <1>0, <1>2 DEF RequestInv, EntitledInv
  <2>4. PathInv(q) /\ TimerInv(q)
    BY <1>0, <2>2 DEF PathInv, RouteInv, TimerInv, NotYetWritten, ReadingBack
  <2>5. EntitledInv(q) /\ LateInv(q) /\ AnswerInv(q)
    BY <1>0, <2>2, <2>3 DEF EntitledInv, LateInv, AnswerInv, RequestInv, Same, Refusals
  <2>6. RequestInv(q)
    BY <2>4, <2>5 DEF RequestInv
  <2>7. ProbeInv(w)' /\ HealthTypes'
    BY <1>0, <2>2 DEF ProbeInv, HealthTypes, healthVars
  <2>8. BackInv(w)'
    BY <2>2 DEF BackInv, Rereading
  <2>9. QED BY <1>0, <2>2, <2>6, <2>7, <2>8, OneRequest DEF healthVars
<1>3. ASSUME NEW s \in {401, 403}, Answer(w, s) PROVE IInv'
  <2>1. s \in Nat /\ s \in Refusals
    BY DEF Refusals
  <2>2. TypesInv' /\ OthersStay(w) /\ Same(r, q) /\ Ending(r, q, s) /\ q.wrote = r.wrote
    BY <1>0, <1>3, <2>1, AnswerEffect
  <2>3. Handled(r, q)
    BY <1>0, <2>1, <2>2 DEF Handled, Finishes, RouteInv, Ending, NotYetWritten
  <2>4. RequestInv(q)
    BY <1>0, <2>2, <2>3, HandledRequest DEF TypesInv, Ending
  <2>5. ProbeInv(w)' /\ HealthTypes' /\ BackInv(w)'
    BY <1>0, <2>2 DEF ProbeInv, BackInv, Rereading, HealthTypes, healthVars, Ending
  <2>6. QED BY <1>0, <2>2, <2>4, <2>5, OneRequest DEF healthVars
<1>4. QED BY <1>1, <1>2, <1>3

LEMMA RefuseMalformedStep ==
  ASSUME IInv, NEW w \in Workers, RefuseMalformed(w), UNCHANGED healthVars, Settled
  PROVE  IInv'
<1> DEFINE r == request[w]
           q == request'[w]
<1>0. /\ TypesInv /\ HealthTypes /\ RequestInv(r) /\ r \in Request /\ r.pc = "pipe"
      /\ UNCHANGED <<access, process>> /\ Answer(w, 400)
  BY DEF IInv, TypesInv, RefuseMalformed, At, surroundings
<1>1. 400 \in Nat /\ 400 \in Refusals
  BY DEF Refusals
<1>2. TypesInv' /\ OthersStay(w) /\ Same(r, q) /\ Ending(r, q, 400) /\ q.wrote = r.wrote
  BY <1>0, <1>1, AnswerEffect
<1>3. r.pc \notin Outside /\ Handled(r, q)
  BY <1>0, <1>1, <1>2 DEF Handled, Finishes, RouteInv, Ending, NotYetWritten, Outside
<1>4. RequestInv(q)
  BY <1>0, <1>2, <1>3, HandledRequest DEF TypesInv
<1>5. ProbeInv(w)' /\ HealthTypes' /\ BackInv(w)'
  BY <1>0, <1>2 DEF ProbeInv, BackInv, Rereading, HealthTypes, healthVars, Ending, RequestInv, TimerInv
<1>6. QED BY <1>0, <1>2, <1>4, <1>5, OneRequest DEF healthVars

LEMMA TimeOutStep ==
  ASSUME IInv, NEW w \in Workers, TimeOut(w), UNCHANGED healthVars, Settled
  PROVE  IInv'
<1> DEFINE r == request[w]
           q == [r EXCEPT !.answer = 408]
<1>0. /\ TypesInv /\ HealthTypes /\ RequestInv(r) /\ r \in Request /\ r.pc \notin Outside
      /\ UNCHANGED <<access, process>> /\ Continue(w, q)
  BY DEF IInv, TypesInv, TimeOut, surroundings, Outside
<1>1. q \in Request /\ Same(r, q) /\ q.pc = r.pc /\ q.answer = 408 /\ q.wrote = r.wrote
  BY <1>0 DEF Request, Same
<1>2. TypesInv' /\ OthersStay(w) /\ request'[w] = q
  BY <1>0, <1>1, Continued
<1> HIDE DEF q
<1>3. PathInv(q) /\ TimerInv(q)
  BY <1>0, <1>1 DEF RequestInv, PathInv, RouteInv, TimerInv, Outside, Same
<1>4. EntitledInv(q) /\ LateInv(q) /\ AnswerInv(q)
  <2>1. EntitledInv(q) /\ LateInv(q)
    BY <1>0, <1>1 DEF RequestInv, EntitledInv, LateInv, Same
  <2>2. AnswerInv(q)
    BY <1>1 DEF AnswerInv, Refusals
  <2>3. QED BY <2>1, <2>2
<1>5. RequestInv(request'[w])
  BY <1>2, <1>3, <1>4 DEF RequestInv
<1>6. ProbeInv(w)' /\ HealthTypes'
  BY <1>0, <1>1, <1>2 DEF ProbeInv, HealthTypes, healthVars
<1>7. BackInv(w)'
  <2>1. BackInv(w)
    BY DEF IInv
  <2>2. QED BY <1>1, <1>2, <2>1 DEF BackInv, Renaming, Same, Settled
<1>8. QED BY <1>0, <1>2, <1>5, <1>6, <1>7, OneRequest DEF healthVars

LEMMA FailStep ==
  ASSUME IInv, NEW w \in Workers, Fail(w), UNCHANGED healthVars, Settled
  PROVE  IInv'
<1> DEFINE r == request[w]
           q == request'[w]
<1>0. /\ TypesInv /\ HealthTypes /\ RequestInv(r) /\ r \in Request
      /\ UNCHANGED <<access, process>> /\ Answer(w, 500)
      /\ r.pc = "guards" \/ (r.pc \notin Outside /\ r.route \notin Probes)
  BY DEF IInv, TypesInv, Fail, Idle, At, On, Public, Probes, Outside
<1>1. TypesInv' /\ OthersStay(w) /\ Same(r, q) /\ Ending(r, q, 500) /\ q.wrote = r.wrote
  BY <1>0, AnswerEffect
<1>2. Handled(r, q)
  BY <1>1 DEF Handled, Finishes, RouteInv, Ending
<1>3. r.pc = "guards" => q.pc = "done" /\ ~q.wrote /\ q.answer = 500
  BY <1>0, <1>1 DEF RequestInv, PathInv, TimerInv, NotYetWritten, Ending
<1>4. RequestInv(q)
  BY <1>0, <1>1, <1>2, <1>3, HandledRequest DEF TypesInv
<1>5. ProbeInv(w)' /\ HealthTypes' /\ BackInv(w)'
  BY <1>0, <1>1, <1>3 DEF ProbeInv, BackInv, Rereading, HealthTypes, healthVars, Same, Ending
<1>6. QED BY <1>0, <1>1, <1>4, <1>5, OneRequest DEF healthVars

\* What is known of a request does not depend on what it overlapped.
Alike(r, q) == Same(r, q) /\ q.pc = r.pc /\ q.answer = r.answer /\ q.wrote = r.wrote

LEMMA AlikeInv ==
  ASSUME NEW r, NEW q, RequestInv(r), Alike(r, q)
  PROVE  RequestInv(q)
<1>1. PathInv(q) /\ TimerInv(q)
  BY DEF RequestInv, PathInv, RouteInv, TimerInv, Alike, Same
<1>2. EntitledInv(q) /\ LateInv(q)
  BY DEF RequestInv, EntitledInv, LateInv, Alike, Same
<1>3. AnswerInv(q)
  BY DEF RequestInv, AnswerInv, Asks, Renaming, Alike, Same
<1>4. QED BY <1>1, <1>2, <1>3 DEF RequestInv

LEMMA ReceiveStep ==
  ASSUME IInv, NEW w \in Workers, NEW route \in Routes, NEW body \in Bodies(route), Receive(w, route, body),
         UNCHANGED healthVars, Settled
  PROVE  IInv'
<1> DEFINE beside == {v \in Workers \ {w} : On(v, {"update onboarding"}) /\ ~Idle(v)}
           met    == route = "update onboarding" /\ beside # {}
<1>0. TypesInv /\ HealthTypes /\ UNCHANGED <<access, process>> /\ request \in [Workers -> Request]
  BY DEF IInv, TypesInv, Receive, surroundings
<1>1. request' = [v \in Workers |->
           IF v = w
           THEN [NoRequest EXCEPT !.pc = "guards", !.route = route, !.body = body, !.overlapped = met,
                   !.entitled = Entitled(route, access), !.late = process # "serving"]
           ELSE [request[v] EXCEPT !.overlapped = @ \/ (met /\ v \in beside)]]
  BY DEF Receive
<1>2. PICK b \in BOOLEAN : b = met
  <2>1. met \in BOOLEAN
    OBVIOUS
  <2>2. QED BY <2>1
<1>3. PICK e \in BOOLEAN : e = Entitled(route, access)
  <2>1. Entitled(route, access) \in BOOLEAN
    BY DEF Entitled
  <2>2. QED BY <2>1
<1>4. PICK l \in BOOLEAN : l = (process # "serving")
  <2>1. (process # "serving") \in BOOLEAN
    OBVIOUS
  <2>2. QED BY <2>1
<1> DEFINE q == [pc |-> "guards", route |-> route, body |-> body, answer |-> 0, entitled |-> e, late |-> l,
                 wrote |-> FALSE, overlapped |-> b]
<1>5. request'[w] = q
  <2>1. request'[w] = [NoRequest EXCEPT !.pc = "guards", !.route = route, !.body = body, !.overlapped = met,
                         !.entitled = Entitled(route, access), !.late = process # "serving"]
    BY <1>1, Zenon
  <2>2. request'[w] = [NoRequest EXCEPT !.pc = "guards", !.route = route, !.body = body, !.overlapped = b,
                         !.entitled = e, !.late = l]
    BY <2>1, <1>2, <1>3, <1>4, Zenon
  <2>3. QED BY <2>2 DEF NoRequest
<1>6. q \in Request
  <2>1. "guards" \in Stages /\ 0 \in Nat
    BY DEF Stages, NotYetWritten
  <2>2. body \in SUBSET Contents
    BY DEF Contents
  <2>3. QED BY <2>1, <2>2 DEF Request
<1>7. ASSUME NEW v \in Workers, v # w
      PROVE  request'[v] \in Request /\ Alike(request[v], request'[v])
  <2>1. PICK o \in BOOLEAN : o = (request[v].overlapped \/ (met /\ v \in beside))
    <3>1. (request[v].overlapped \/ (met /\ v \in beside)) \in BOOLEAN
      OBVIOUS
    <3>2. QED BY <3>1
  <2>2. request'[v] = [request[v] EXCEPT !.overlapped = request[v].overlapped \/ (met /\ v \in beside)]
    BY <1>1, <1>7, Zenon
  <2>3. request'[v] = [request[v] EXCEPT !.overlapped = o]
    BY <2>1, <2>2, Zenon
  <2>4. request[v] \in Request
    BY <1>0
  <2>5. QED BY <2>3, <2>4 DEF Request, Alike, Same
<1>8. TypesInv'
  <2>1. DOMAIN request' = Workers /\ request' = [v \in Workers |-> request'[v]]
    BY <1>1
  <2>2. \A v \in Workers : request'[v] \in Request
    BY <1>5, <1>6, <1>7
  <2>3. QED BY <2>1, <2>2 DEF TypesInv
<1>9. RequestInv(q)
  <2>1. PathInv(q) /\ TimerInv(q) /\ AnswerInv(q)
    BY DEF PathInv, RouteInv, TimerInv, AnswerInv, NotYetWritten, ReadingBack, Refusals
  <2>2. EntitledInv(q)
    BY <1>3 DEF EntitledInv, Outside
  <2>3. LateInv(q)
    BY <1>4 DEF LateInv
  <2>4. QED BY <2>1, <2>2, <2>3 DEF RequestInv
<1>10. ASSUME NEW v \in Workers PROVE RequestInv(request[v])' /\ ProbeInv(v)' /\ BackInv(v)'
  <2>1. CASE v = w
    <3>1. RequestInv(request[v])'
      BY <1>0, <1>5, <1>9, <2>1, StillInv
    <3>2. request'[v].pc = "guards" /\ request'[v].answer = 0
      BY <1>5, <2>1
    <3>3. ProbeInv(v)'
      BY <3>2 DEF ProbeInv
    <3>4. BackInv(v)'
      BY <3>2 DEF BackInv, Rereading
    <3>5. QED BY <3>1, <3>3, <3>4
  <2>2. CASE v # w
    <3>1. RequestInv(request'[v])
      BY <1>7, <2>2, AlikeInv DEF IInv
    <3>2. ProbeInv(v)'
      BY <1>7, <2>2 DEF IInv, ProbeInv, Alike, Same, healthVars
    <3>3. BackInv(v)'
      BY <1>7, <2>2 DEF IInv, BackInv, Renaming, Alike, Same, Settled
    <3>4. QED BY <1>0, <3>1, <3>2, <3>3, StillInv
  <2>3. QED BY <2>1, <2>2
<1>11. HealthTypes'
  BY <1>0 DEF HealthTypes, healthVars
<1>12. QED BY <1>8, <1>10, <1>11 DEF IInv, Settled

LEMMA PipelineSteps ==
  ASSUME IInv, NEW w \in Workers, Pipeline(w)
  PROVE  IInv'
<1>1. UNCHANGED healthVars /\ Settled
  BY SettledAsIs DEF Pipeline, workspacesVars
<1>2. QED BY <1>1, ReceiveStep, GuardStep, RefuseMalformedStep, TimeOutStep, FailStep DEF Pipeline

-----------------------------------------------------------------------------
(* What happens around the requests.                                       *)

\* Rights that come while a request is served count for it.
LEMMA ChangeAccessStep ==
  ASSUME IInv, NEW a, ChangeAccess(a), UNCHANGED healthVars, workspace' = workspace
  PROVE  IInv'
<1>0. /\ TypesInv /\ HealthTypes /\ request \in [Workers -> Request] /\ process' = process /\ access' = a
      /\ request' = [w \in Workers |->
           IF Idle(w) THEN request[w]
           ELSE [request[w] EXCEPT !.entitled = @ \/ Entitled(request[w].route, a)]]
  BY DEF IInv, TypesInv, ChangeAccess
<1>1. ASSUME NEW w \in Workers
      PROVE  request'[w] \in Request /\ RequestInv(request[w])' /\ ProbeInv(w)' /\ BackInv(w)'
  <2> DEFINE r == request[w]
             q == request'[w]
  <2>1. r \in Request /\ RequestInv(r) /\ ProbeInv(w) /\ BackInv(w)
    BY <1>0 DEF IInv
  <2>2. PICK e \in BOOLEAN : e = (r.entitled \/ Entitled(r.route, a))
    <3>1. (r.entitled \/ Entitled(r.route, a)) \in BOOLEAN
      OBVIOUS
    <3>2. QED BY <3>1
  <2>3. q = IF Idle(w) THEN r ELSE [r EXCEPT !.entitled = r.entitled \/ Entitled(r.route, a)]
    BY <1>0, Zenon
  <2>4. q = IF Idle(w) THEN r ELSE [r EXCEPT !.entitled = e]
    BY <2>2, <2>3, Zenon
  <2>5. /\ q \in Request /\ q.route = r.route /\ q.body = r.body /\ q.late = r.late
        /\ q.pc = r.pc /\ q.answer = r.answer /\ q.wrote = r.wrote
        /\ q.entitled = IF Idle(w) THEN r.entitled ELSE e
    BY <2>1, <2>4 DEF Request
  <2>6. r.entitled => q.entitled
    BY <2>2, <2>5
  <2>7. r.pc \notin {"idle", "done"} /\ Entitled(r.route, a) => q.entitled
    BY <2>2, <2>5 DEF Idle
  <2>8. PathInv(q) /\ TimerInv(q) /\ AnswerInv(q)
    <3>1. PathInv(q) /\ TimerInv(q)
      BY <2>1, <2>5 DEF RequestInv, PathInv, RouteInv, TimerInv
    <3>2. AnswerInv(q)
      <4>1. (Asks(q) <=> Asks(r)) /\ (Renaming(q) <=> Renaming(r))
        BY <2>5 DEF Asks, Renaming
      <4>2. QED BY <2>1, <2>5, <4>1 DEF RequestInv, AnswerInv
    <3>3. QED BY <3>1, <3>2
  <2>9. PathInv(request[w])' /\ TimerInv(request[w])' /\ AnswerInv(request[w])'
    BY <2>8 DEF PathInv, RouteInv, TimerInv, AnswerInv, Asks, Renaming, Unshown
  <2>10. LateInv(request[w])'
    BY <1>0, <2>1, <2>5 DEF RequestInv, LateInv
  <2>11. (q.pc \notin Outside \/ q.wrote) => q.entitled
    BY <2>1, <2>5, <2>6 DEF RequestInv, EntitledInv
  <2>12. q.pc \notin {"idle", "done"} /\ Entitled(q.route, access') => q.entitled
    BY <1>0, <2>5, <2>7
  <2>13. EntitledInv(request[w])'
    BY <2>11, <2>12 DEF EntitledInv
  <2>14. ProbeInv(w)' /\ BackInv(w)'
    <3>1. ProbeInv(w)'
      BY <2>1, <2>5 DEF ProbeInv, healthVars
    <3>2. BackInv(w)'
      BY <2>1, <2>5 DEF BackInv, Renaming
    <3>3. QED BY <3>1, <3>2
  <2>15. QED BY <2>5, <2>9, <2>10, <2>13, <2>14 DEF RequestInv
<1>2. TypesInv' /\ HealthTypes'
  <2>1. DOMAIN request' = Workers /\ request' = [v \in Workers |-> request'[v]]
    BY <1>0
  <2>2. QED BY <1>0, <1>1, <2>1 DEF TypesInv, HealthTypes, healthVars
<1>3. DOMAIN workspace' = WorkspaceColumns
  BY DEF IInv
<1>4. QED BY <1>1, <1>2, <1>3 DEF IInv

\* The end of the pool comes once, and is not taken back.
LEMMA ShutdownStep ==
  ASSUME IInv, Disconnect \/ Stop, UNCHANGED healthVars, workspace' = workspace
  PROVE  IInv'
<1>0. UNCHANGED <<access, request>> /\ process' # "serving"
  BY DEF Disconnect, Stop
<1>1. ASSUME NEW w \in Workers PROVE RequestInv(request[w])' /\ ProbeInv(w)' /\ BackInv(w)'
  <2>1. RequestInv(request[w]) /\ ProbeInv(w) /\ BackInv(w)
    BY DEF IInv
  <2>2. PathInv(request[w])' /\ TimerInv(request[w])' /\ AnswerInv(request[w])'
    <3>1. PathInv(request[w])' /\ TimerInv(request[w])'
      BY <1>0, <2>1 DEF RequestInv, PathInv, RouteInv, TimerInv
    <3>2. AnswerInv(request[w])'
      BY <1>0, <2>1 DEF RequestInv, AnswerInv, Asks, Renaming, Unshown
    <3>3. QED BY <3>1, <3>2
  <2>3. EntitledInv(request[w])'
    BY <1>0, <2>1 DEF RequestInv, EntitledInv
  <2>4. LateInv(request[w])'
    BY <1>0 DEF LateInv
  <2>5. ProbeInv(w)' /\ BackInv(w)'
    BY <1>0, <2>1 DEF ProbeInv, BackInv, healthVars
  <2>6. QED BY <2>2, <2>3, <2>4, <2>5 DEF RequestInv
<1>2. TypesInv' /\ HealthTypes'
  BY <1>0 DEF IInv, TypesInv, HealthTypes, healthVars
<1>3. QED BY <1>1, <1>2 DEF IInv

LEMMA NothingHappens ==
  ASSUME IInv, UNCHANGED <<access, process, request, healthVars>>, Settled
  PROVE  IInv'
<1>1. ASSUME NEW w \in Workers PROVE RequestInv(request[w])' /\ ProbeInv(w)' /\ BackInv(w)'
  <2>1. RequestInv(request'[w]) /\ ProbeInv(w) /\ BackInv(w)
    BY DEF IInv
  <2>2. QED BY <2>1, StillInv DEF ProbeInv, BackInv, healthVars, Settled
<1>2. TypesInv' /\ HealthTypes'
  BY DEF IInv, TypesInv, HealthTypes, healthVars
<1>3. QED BY <1>1, <1>2 DEF IInv, Settled

-----------------------------------------------------------------------------
LEMMA InitInv == Init => IInv
<1> SUFFICES ASSUME Init PROVE IInv
  OBVIOUS
<1>1. request = [w \in Workers |-> NoRequest] /\ process = "serving"
  BY DEF Init, InitPipeline
<1>2. appState = [w \in Workers |-> FALSE] /\ reported = [w \in Workers |-> "none"]
  BY DEF Init, InitHealth
<1>3. NoRequest \in Request
  <2>1. "idle" \in Stages /\ 0 \in Nat
    BY DEF Stages
  <2>2. QED BY <2>1 DEF NoRequest, Request
<1>4. TypesInv /\ HealthTypes /\ DOMAIN workspace = WorkspaceColumns
  BY <1>1, <1>2, <1>3 DEF TypesInv, HealthTypes, Init, InitWorkspaces, WorkspaceColumns
<1>5. ASSUME NEW w \in Workers PROVE RequestInv(request[w]) /\ ProbeInv(w) /\ BackInv(w)
  <2>1. request[w] = NoRequest
    BY <1>1
  <2>2. PathInv(request[w]) /\ TimerInv(request[w])
    BY <2>1 DEF PathInv, RouteInv, TimerInv, NoRequest, Probes, NotYetWritten, ReadingBack
  <2>3. EntitledInv(request[w]) /\ LateInv(request[w]) /\ AnswerInv(request[w])
    BY <2>1 DEF EntitledInv, LateInv, AnswerInv, NoRequest, Outside, Refusals
  <2>4. QED BY <2>1, <2>2, <2>3 DEF RequestInv, ProbeInv, BackInv, Rereading, NoRequest
<1>6. QED BY <1>4, <1>5 DEF IInv

LEMMA NextInv == IInv /\ [Next]_vars => IInv'
<1> SUFFICES ASSUME IInv, [Next]_vars PROVE IInv'
  OBVIOUS
<1>1. ASSUME NEW w \in Workers, Serve(w) PROVE IInv'
  BY <1>1, PipelineSteps, AccountsSteps, WorkspacesSteps, HealthSteps, AnalyzerSteps DEF Serve
<1>2. CASE Surroundings
  <2>1. workspace' = workspace /\ UNCHANGED healthVars
    BY <1>2 DEF Surroundings, workspacesVars
  <2>2. QED BY <1>2, <2>1, ChangeAccessStep, ShutdownStep DEF Surroundings
<1>3. CASE Beside
  <2>1. UNCHANGED <<access, process, request, healthVars, workspace>>
    BY <1>3 DEF Beside, Recompute, RetireCurrency, RetireCountry, workspacesVars
  <2>2. QED BY <2>1, SettledAsIs, NothingHappens
<1>4. CASE UNCHANGED vars
  <2>1. UNCHANGED <<access, process, request, healthVars, workspace>>
    BY <1>4 DEF vars, pipelineVars, surroundings, workspacesVars
  <2>2. QED BY <2>1, SettledAsIs, NothingHappens
<1>5. QED BY <1>1, <1>2, <1>3, <1>4 DEF Next

\* What the proofs of this module rest on: where a request is tells on which route it is, whether
\* it has written, and that its caller was entitled at some time since it came in.
THEOREM ServerInvariant == Spec => []IInv
<1>1. Init => IInv
  BY InitInv
<1>2. IInv /\ [Next]_vars => IInv'
  BY NextInv
<1>3. QED BY <1>1, <1>2, PTL DEF Spec

\* A success is answered only after what was asked for is committed, and a refusal only when
\* nothing is nor will be, but for the new name of a workspace that came without settings,
\* whatever the timer, the failures of the database and other requests do.
THEOREM AnswersTruthful == Spec => []AnswersTellTheTruth
<1>1. IInv => AnswersTellTheTruth
  <2>1. SUFFICES ASSUME IInv, NEW w \in Workers
                 PROVE  /\ request[w].answer \in {200, 201} /\ AsksForAWrite(w) => request[w].wrote
                        /\ request[w].answer \in Refusals => At(w, "done") /\ (request[w].wrote => NotShown(w))
    BY DEF AnswersTellTheTruth, Refusals
  <2>2. AsksForAWrite(w) = Asks(request[w])
    BY DEF AsksForAWrite, Asks, On, Body
  <2>3. AnswerInv(request[w])
    BY <2>1 DEF IInv, RequestInv
  <2>4. QED BY <2>2, <2>3 DEF AnswerInv, At, NotShown, On, Renaming, Unshown
<1>2. QED BY <1>1, ServerInvariant, PTL

\* Nothing is written for a caller who lacked the membership or the role it takes all the time
\* from the arrival of the request to the write, whatever changes of access overlap it.
THEOREM WritesForTheEntitled == Spec => []WritesEntitled
<1>1. IInv => WritesEntitled
  BY DEF IInv, RequestInv, EntitledInv, WritesEntitled
<1>2. QED BY <1>1, ServerInvariant, PTL

\* A probe that comes in once the shutdown has begun never succeeds: a success needs a ping of the
\* database, and the pool is closed by then.
THEOREM ProbesFailLate == Spec => []LateProbesFail
<1>1. IInv => LateProbesFail
  BY DEF IInv, ProbeInv, LateProbesFail, On, Probes
<1>2. QED BY <1>1, ServerInvariant, PTL

-----------------------------------------------------------------------------
(* The analyses, which no other step touches.                              *)

FaithfulTo(o, shown) ==
  /\ o.valid
  /\ o.status = "VOUCHER" <=> shown.document = "voucher"
  /\ shown.text \in {"none", o.text} \ {"blank"}
  /\ o.status = "NOT_VOUCHER" => shown.text = "none" /\ shown.fields = "none" /\ shown.warnings # "none"

AnalysisInv ==
  /\ DOMAIN analysis = Workers
  /\ \A w \in Workers : \A o \in analysis[w].objects : FaithfulTo(o, analysis[w].shown)

\* The envelope the normaliser may take for the answer is refused by the schema.
LEMMA ShownFaithfully ==
  ASSUME NEW reply \in Replies, NEW o \in ParseNormalizedResult(reply)
  PROVE  FaithfulTo(reply.object, Shown(o))
<1>1. reply.object \in Objects
  BY DEF Replies
<1>2. o = reply.object /\ o \in Objects /\ o.valid
  <2>1. o \in Normalized(reply) /\ o.valid
    BY DEF ParseNormalizedResult
  <2>2. \A n \in Normalized(reply) : n = reply.object \/ n = Envelope
    BY DEF Normalized
  <2>3. ~Envelope.valid
    BY DEF Envelope
  <2>4. QED BY <1>1, <2>1, <2>2, <2>3
<1>3. o.status \in {"VOUCHER", "NOT_VOUCHER"} /\ o.text \in {"blank", "words"}
  BY <1>2 DEF Objects
<1>4. CASE o.status = "VOUCHER"
  <2>1. /\ Shown(o).document = "voucher"
        /\ Shown(o).text = IF o.text = "blank" THEN "none" ELSE o.text
    BY <1>4 DEF Shown
  <2>2. QED BY <1>2, <1>3, <1>4, <2>1 DEF FaithfulTo
<1>5. CASE o.status = "NOT_VOUCHER"
  <2>1. /\ Shown(o).document = "unknown" /\ Shown(o).text = "none" /\ Shown(o).fields = "none"
        /\ Shown(o).warnings \in {"its own", "default"}
    BY <1>5 DEF Shown
  <2>2. QED BY <1>2, <1>3, <1>5, <2>1 DEF FaithfulTo
<1>6. QED BY <1>3, <1>4, <1>5

LEMMA AnalysisNext == AnalysisInv /\ [Next]_vars => AnalysisInv'
<1> SUFFICES ASSUME AnalysisInv, [Next]_vars PROVE AnalysisInv'
  OBVIOUS
<1>1. CASE UNCHANGED analysis
  BY <1>1 DEF AnalysisInv
<1>2. ASSUME NEW w \in Workers, NEW reply \in Replies, NEW o \in ParseNormalizedResult(reply),
             analysis' = [analysis EXCEPT ![w] = [objects |-> {reply.object}, shown |-> Shown(o)]]
      PROVE  AnalysisInv'
  <2>1. FaithfulTo(reply.object, Shown(o))
    BY ShownFaithfully
  <2>2. analysis'[w].objects = {reply.object} /\ analysis'[w].shown = Shown(o)
    BY <1>2 DEF AnalysisInv
  <2>3. \A v \in Workers \ {w} : analysis'[v] = analysis[v]
    BY <1>2 DEF AnalysisInv
  <2>4. DOMAIN analysis' = Workers
    BY <1>2 DEF AnalysisInv
  <2>5. QED BY <2>1, <2>2, <2>3, <2>4 DEF AnalysisInv, FaithfulTo
<1>3. ASSUME NEW w \in Workers, AnalyzerStep(w) PROVE AnalysisInv'
  <2>1. CASE ResolveMimeType(w) \/ GatewayFails(w)
    BY <1>1, <2>1 DEF ResolveMimeType, GatewayFails
  <2>2. CASE GatewayReplies(w)
    BY <1>1, <1>2, <2>2 DEF GatewayReplies
  <2>3. QED BY <1>3, <2>1, <2>2 DEF AnalyzerStep
<1>4. CASE \E w \in Workers : Pipeline(w) \/ AccountsStep(w) \/ WorkspacesStep(w) \/ HealthStep(w)
  BY <1>1, <1>4 DEF Pipeline, AccountsStep, WorkspacesStep, HealthStep
<1>5. CASE Surroundings \/ Beside \/ UNCHANGED vars
  BY <1>1, <1>5 DEF Surroundings, Beside, vars
<1>6. QED BY <1>3, <1>4, <1>5 DEF Next, Serve

\* What is shown of an analysis was in a reply the schema accepts, and of an image the model does
\* not take for a voucher nothing is shown but a warning, for every place and form of a reply.
THEOREM AnalysesStayFaithful == Spec => []AnalysesFaithful
<1>1. Init => AnalysisInv
  BY DEF Init, InitAnalyzer, NoAnalysis, AnalysisInv
<1>2. AnalysisInv => AnalysesFaithful
  BY DEF AnalysisInv, FaithfulTo, AnalysesFaithful
<1>3. QED BY <1>1, <1>2, AnalysisNext, PTL DEF Spec

-----------------------------------------------------------------------------
(* Columns: who changes which, and the date of onboarding.                 *)

RowFields == {"type", "status", "profile", "name", "balance"}

RowsInv ==
  /\ \E n \in Nat : n >= 1 /\ DOMAIN accounts = 1..n
  /\ \A id \in DOMAIN accounts : DOMAIN accounts[id] = RowFields
  /\ DOMAIN workspace = {"name", "settings", "preferences"}
  /\ DOMAIN profile = {"country", "onboarding"}
  /\ DOMAIN read = Workers

Upserts == {"upsert profile", "upsert onboarding"}

\* The date an update has read is still there, unless another update ran beside it.
UpsertInv(w) ==
  /\ request[w].pc = "upsert profile" => request[w].route = "update profile"
  /\ request[w].pc = "upsert onboarding" =>
       request[w].route = "update onboarding" /\ (request[w].overlapped \/ read[w] = profile.onboarding)

Updating(r) == r.route = "update onboarding" /\ r.pc \notin {"idle", "done"}

OverlapInv ==
  \A v, w \in Workers : v # w /\ Updating(request[v]) /\ Updating(request[w]) => request[v].overlapped

Unpiped == Outside \cup {"pipe"}

Patches == AdminWrites \cup {"update preferences"}

\* The pipe has seen the body of whoever is past it.
BodyInv(r) ==
  r.route \in Patches =>
    r.body \in {{}, {"column"}, {"malformed"}} /\ (r.pc \notin Unpiped => "malformed" \notin r.body)

UpsertsInv == (\A w \in Workers : UpsertInv(w) /\ BodyInv(request[w])) /\ OverlapInv

ColumnsInv == RowsInv /\ UpsertsInv

ColumnsStep ==
  /\ \A id \in DOMAIN accounts :
       /\ accounts'[id].type = accounts[id].type
       /\ accounts'[id].balance # accounts[id].balance => changes' = changes + 1
       /\ accounts'[id].status # accounts[id].status => By({"archive", "reactivate"}, {})
       /\ accounts'[id].name # accounts[id].name => By({"update account"}, {"name"})
       /\ accounts'[id].profile # accounts[id].profile => By({"update account"}, {"profile"})
  /\ workspace'.name # workspace.name => By({"update workspace"}, {"column"})
  /\ workspace'.settings # workspace.settings => By({"update settings"}, {"column"})
  /\ workspace'.preferences # workspace.preferences => By({"update preferences"}, {"column"})
  /\ profile'.country # profile.country => By({"update profile"}, {"country"})
  /\ profile'.onboarding # profile.onboarding => By({"update onboarding"}, {})

OnboardingStep ==
  profile.onboarding # 0 /\ profile'.onboarding # profile.onboarding =>
    \E w \in Workers :
      /\ Writes(w) /\ On(w, {"update onboarding"})
      /\ request[w].overlapped \/ "not completed" \in Body(w)

Kept == ColumnsInv' /\ ColumnsStep /\ OnboardingStep

\* A request goes on, but not to an upsert.
Steady(r, q) == q.route = r.route /\ q.body = r.body /\ q.overlapped = r.overlapped

\* No malformed body passes the pipe.
Cleared(r) == r.pc \in {"guards", "pipe"} => r.route \in Public \/ "malformed" \notin r.body

Moved(w) ==
  /\ OthersStay(w) /\ Steady(request[w], request'[w]) /\ request[w].pc \notin {"idle", "done"}
  /\ request'[w].pc \in Upserts => request'[w].pc = request[w].pc
  /\ request'[w].pc \in Unpiped \/ Cleared(request[w])

LEMMA MovedUpserts ==
  ASSUME UpsertsInv, NEW w \in Workers, Moved(w), read' = read, profile'.onboarding = profile.onboarding
  PROVE  UpsertsInv'
<1>1. ASSUME NEW v \in Workers PROVE UpsertInv(v)' /\ BodyInv(request[v])'
  <2>1. UpsertInv(v)'
    BY DEF UpsertsInv, UpsertInv, Moved, OthersStay, Steady, Upserts
  <2>2. BodyInv(request[v])'
    <3>1. BodyInv(request[v])
      BY DEF UpsertsInv
    <3>2. CASE v # w
      BY <3>1, <3>2 DEF BodyInv, Moved, OthersStay
    <3>3. CASE v = w
      BY <3>1, <3>3 DEF BodyInv, Moved, Steady, Cleared, Unpiped, Outside, Patches, AdminWrites, Public
    <3>4. QED BY <3>2, <3>3
  <2>3. QED BY <2>1, <2>2
<1>2. ASSUME NEW v \in Workers
      PROVE  (Updating(request'[v]) => Updating(request[v])) /\ request'[v].overlapped = request[v].overlapped
  BY <1>2 DEF Moved, OthersStay, Steady, Updating
<1>3. OverlapInv'
  BY <1>2 DEF UpsertsInv, OverlapInv, Updating
<1>4. QED BY <1>1, <1>3 DEF UpsertsInv

LEMMA SteadyUpserts ==
  ASSUME UpsertsInv, read' = read, profile'.onboarding = profile.onboarding,
         \A w \in Workers : Steady(request[w], request'[w]) /\ request'[w].pc = request[w].pc
  PROVE  UpsertsInv'
<1>1. ASSUME NEW v \in Workers PROVE UpsertInv(v)' /\ BodyInv(request[v])'
  BY <1>1 DEF UpsertsInv, UpsertInv, BodyInv, Steady
<1>2. OverlapInv'
  BY DEF UpsertsInv, OverlapInv, Updating, Steady
<1>3. QED BY <1>1, <1>2 DEF UpsertsInv

\* A step that writes none of these columns.
LEMMA ReadsOnly ==
  ASSUME RowsInv, UpsertsInv', UNCHANGED <<accounts, workspace, profile>>, DOMAIN read' = Workers
  PROVE  Kept
<1>1. RowsInv'
  BY DEF RowsInv
<1>2. ColumnsStep /\ OnboardingStep
  BY DEF ColumnsStep, OnboardingStep
<1>3. QED BY <1>1, <1>2 DEF Kept, ColumnsInv

LEMMA Steps ==
  ASSUME TypesInv, NEW w \in Workers, request[w].pc \notin {"idle", "done"}
  PROVE  /\ \A pc \in Stages : Go(w, pc) =>
              OthersStay(w) /\ Steady(request[w], request'[w]) /\ request'[w].pc = pc
         /\ \A s \in Nat : Answer(w, s) => Moved(w)
<1>1. request[w] \in Request
  BY DEF TypesInv
<1>2. ASSUME NEW pc \in Stages, Go(w, pc)
      PROVE  OthersStay(w) /\ Steady(request[w], request'[w]) /\ request'[w].pc = pc
  <2> DEFINE q == [request[w] EXCEPT !.pc = pc]
  <2>1. request'[w] = q /\ OthersStay(w)
    BY <1>2 DEF Go, Continue, TypesInv, OthersStay
  <2>2. Steady(request[w], q) /\ q.pc = pc
    BY <1>1 DEF Steady, Request
  <2>3. QED BY <2>1, <2>2
<1>3. ASSUME NEW s \in Nat, Answer(w, s) PROVE Moved(w)
  <2> DEFINE q == Ended(request[w], s)
  <2>1. request'[w] = q /\ OthersStay(w)
    BY <1>3 DEF Answer, Continue, TypesInv, OthersStay
  <2>2. Steady(request[w], q) /\ q.pc = "done"
    BY <1>1 DEF Steady, Request, Ended
  <2>3. QED BY <2>1, <2>2 DEF Moved, Upserts, Unpiped, Outside
<1>4. QED BY <1>2, <1>3

LEMMA WritingSteps ==
  ASSUME TypesInv, NEW w \in Workers, request[w].pc \notin Unpiped, ~request[w].wrote
  PROVE  /\ \A pc \in ReadingBack : GoHavingWritten(w, pc) => Moved(w) /\ Writes(w)
         /\ \A s \in Nat : AnswerHavingWritten(w, s) => Moved(w) /\ Writes(w) /\ request'[w].pc = "done"
<1>1. request[w] \in Request
  BY DEF TypesInv
<1>2. ASSUME NEW pc \in ReadingBack, GoHavingWritten(w, pc) PROVE Moved(w) /\ Writes(w)
  <2> DEFINE q == [Wrote(w) EXCEPT !.pc = pc]
  <2>1. request'[w] = q /\ OthersStay(w)
    BY <1>2 DEF GoHavingWritten, Continue, TypesInv, OthersStay
  <2>2. Steady(request[w], q) /\ q.pc = pc /\ q.wrote
    BY <1>1 DEF Steady, Request, Wrote
  <2>3. QED BY <2>1, <2>2 DEF Moved, Upserts, ReadingBack, Writes, Unpiped, Outside, Cleared
<1>3. ASSUME NEW s \in Nat, AnswerHavingWritten(w, s)
      PROVE  Moved(w) /\ Writes(w) /\ request'[w].pc = "done"
  <2> DEFINE q == Ended(Wrote(w), s)
  <2>1. request'[w] = q /\ OthersStay(w)
    BY <1>3 DEF AnswerHavingWritten, Continue, TypesInv, OthersStay
  <2>2. Steady(request[w], q) /\ q.pc = "done" /\ q.wrote
    BY <1>1 DEF Steady, Request, Ended, Wrote
  <2>3. QED BY <2>1, <2>2 DEF Moved, Upserts, Writes, Unpiped, Outside
<1>4. QED BY <1>2, <1>3

\* Steps that move one request and write nothing.
LEMMA Passes ==
  ASSUME ColumnsInv, NEW w \in Workers, Moved(w), UNCHANGED <<accounts, workspace, profile, read>>
  PROVE  Kept
<1>1. UpsertsInv'
  BY MovedUpserts DEF ColumnsInv
<1>2. QED BY <1>1, ReadsOnly DEF ColumnsInv, RowsInv

LEMMA PassesOn ==
  ASSUME TypesInv, ColumnsInv, NEW w \in Workers, request[w].pc \notin {"idle", "done"},
         NEW pc \in Stages \ Upserts, pc = "pipe" \/ Cleared(request[w]), Go(w, pc),
         UNCHANGED <<accounts, workspace, profile, read>>
  PROVE  Kept
<1>1. Moved(w)
  BY Steps DEF Moved, Unpiped
<1>2. QED BY <1>1, Passes

LEMMA PassesOut ==
  ASSUME TypesInv, ColumnsInv, NEW w \in Workers, request[w].pc \notin {"idle", "done"},
         NEW s \in Nat, Answer(w, s), UNCHANGED <<accounts, workspace, profile, read>>
  PROVE  Kept
<1>1. Moved(w)
  BY Steps
<1>2. QED BY <1>1, Passes

LEMMA KnownThere ==
  ASSUME RowsInv
  PROVE  Known \in DOMAIN accounts
<1>1. PICK n \in Nat : n >= 1 /\ DOMAIN accounts = 1..n
  BY DEF RowsInv
<1>2. QED BY <1>1 DEF Known

\* A write to the accounts leaves everything else.
LEMMA RowWritten ==
  ASSUME RowsInv, UpsertsInv', UNCHANGED <<workspace, profile, read>>,
         NEW column \in RowFields \ {"type"}, NEW x,
         accounts' = [accounts EXCEPT ![Known][column] = x],
         /\ column = "balance" => changes' = changes + 1
         /\ column = "status" => By({"archive", "reactivate"}, {})
         /\ column = "name" => By({"update account"}, {"name"})
         /\ column = "profile" => By({"update account"}, {"profile"})
  PROVE  Kept
<1>1. Known \in DOMAIN accounts
  BY KnownThere
<1>2. DOMAIN accounts' = DOMAIN accounts /\ \A id \in DOMAIN accounts : DOMAIN accounts'[id] = RowFields
  BY <1>1 DEF RowsInv
<1>3. RowsInv'
  BY <1>2 DEF RowsInv
<1>4. \A id \in DOMAIN accounts, c \in RowFields : accounts'[id][c] # accounts[id][c] => c = column
  BY <1>1 DEF RowsInv
<1>5. ColumnsStep
  BY <1>4 DEF ColumnsStep, RowFields
<1>6. OnboardingStep
  BY DEF OnboardingStep
<1>7. QED BY <1>3, <1>5, <1>6 DEF Kept, ColumnsInv

LEMMA AccountsColumns ==
  ASSUME IInv, ColumnsInv, NEW w \in Workers, AccountsStep(w)
  PROVE  Kept
<1>0. TypesInv /\ PathInv(request[w]) /\ RowsInv /\ UpsertsInv
  BY DEF IInv, RequestInv, ColumnsInv
<1>1. UNCHANGED <<workspace, profile, read>>
  BY DEF AccountsStep, workspacesVars
<1>2. ASSUME request[w].pc \in {"handler", "read account back"}, accounts' = accounts,
             \/ \E pc \in {"create", "write account"} : Go(w, pc)
             \/ \E s \in {200, 400, 404, 409, Objection(w)} : Answer(w, s)
      PROVE  Kept
  <2>1. Objection(w) \in Nat
    BY DEF Objection
  <2>2. ASSUME NEW s \in {200, 400, 404, 409, Objection(w)}, Answer(w, s) PROVE Kept
    <3>1. s \in Nat
      BY <2>1
    <3>2. QED BY <1>0, <1>1, <1>2, <2>2, <3>1, PassesOut
  <2>3. ASSUME NEW pc \in {"create", "write account"}, Go(w, pc) PROVE Kept
    <3>1. pc \in Stages \ Upserts
      BY DEF Stages, NotYetWritten, Upserts
    <3>2. Cleared(request[w])
      BY <1>2 DEF Cleared
    <3>3. QED BY <1>0, <1>1, <1>2, <2>3, <3>1, <3>2, PassesOn
  <2>4. QED BY <1>2, <2>2, <2>3
<1>3. CASE FindCurrency(w)
  BY <1>2, <1>3 DEF FindCurrency, Statement, At, accountsVars
<1>4. CASE RefuseImmutable(w)
  BY <1>2, <1>4 DEF RefuseImmutable, At, accountsVars
<1>5. CASE FindAccount(w)
  <2>1. request[w].pc = "handler" /\ accounts' = accounts
    BY <1>5 DEF FindAccount, Statement, At
  <2>2. Answer(w, 404) \/ Answer(w, Objection(w)) \/ Go(w, "write account")
    BY <1>5 DEF FindAccount
  <2>3. QED BY <1>2, <2>1, <2>2
<1>6. CASE ReadAccountBack(w) \/ ReadAccounts(w)
  <2>1. request[w].pc \in {"handler", "read account back"} /\ accounts' = accounts
    BY <1>6 DEF ReadAccountBack, ReadAccounts, Statement, At, accountsVars
  <2>2. CASE ReadAccountBack(w)
    BY <1>2, <2>1, <2>2 DEF ReadAccountBack
  <2>3. CASE ReadAccounts(w)
    <3>1. Answer(w, 404) \/ Answer(w, 200)
      BY <2>3 DEF ReadAccounts
    <3>2. QED BY <1>2, <2>1, <3>1
  <2>4. QED BY <1>6, <2>2, <2>3
<1>7. CASE CreateAccount(w)
  <2>1. request[w].pc = "create" /\ AnswerHavingWritten(w, 201)
    BY <1>7 DEF CreateAccount, Statement, At
  <2>2. Moved(w)
    BY <1>0, <2>1, WritingSteps DEF PathInv, NotYetWritten, Unpiped, Outside
  <2>3. UpsertsInv'
    BY <1>0, <1>1, <2>2, MovedUpserts
  <2>4. PICK n \in Nat : n >= 1 /\ DOMAIN accounts = 1..n
    BY <1>0 DEF RowsInv
  <2>5. Cardinality(DOMAIN accounts) = n
    BY <2>4, FS_Interval
  <2>6. PICK row : /\ DOMAIN row = RowFields
                   /\ accounts' = [i \in DOMAIN accounts \cup {n + 1} |-> IF i = n + 1 THEN row ELSE accounts[i]]
    <3>1. PICK type \in AccountTypes \cap Body(w) :
             accounts' = [i \in DOMAIN accounts \cup {n + 1} |->
               IF i = n + 1 THEN [NewAccount(type, "NONE") EXCEPT !.profile = ProfileAfter(NewAccount(type, "NONE"), Body(w))]
               ELSE accounts[i]]
      BY <1>7, <2>5 DEF CreateAccount
    <3> DEFINE row == [NewAccount(type, "NONE") EXCEPT !.profile = ProfileAfter(NewAccount(type, "NONE"), Body(w))]
    <3>2. DOMAIN row = RowFields
      BY DEF NewAccount, RowFields
    <3>3. QED BY <3>1, <3>2
  <2>7. DOMAIN accounts' = 1..(n + 1) /\ n + 1 \in Nat /\ n + 1 >= 1
    BY <2>4, <2>6
  <2>8. \A id \in DOMAIN accounts : accounts'[id] = accounts[id]
    BY <2>4, <2>6
  <2>9. \A id \in DOMAIN accounts' : DOMAIN accounts'[id] = RowFields
    BY <1>0, <2>6 DEF RowsInv
  <2>10. RowsInv'
    BY <1>0, <1>1, <2>7, <2>9 DEF RowsInv
  <2>11. ColumnsStep /\ OnboardingStep
    BY <1>1, <2>8 DEF ColumnsStep, OnboardingStep
  <2>12. QED BY <2>3, <2>10, <2>11 DEF Kept, ColumnsInv
<1>8. CASE UpdateAccount(w)
  <2>1. request[w].pc = "write account" /\ On(w, {"update account"}) /\ AnswerHavingWritten(w, 200)
    BY <1>8 DEF UpdateAccount, Statement, At
  <2>2. Moved(w) /\ Writes(w)
    BY <1>0, <2>1, WritingSteps DEF PathInv, NotYetWritten, Unpiped, Outside
  <2>3. UpsertsInv'
    BY <1>0, <1>1, <2>2, MovedUpserts
  <2>4. Known \in DOMAIN accounts /\ DOMAIN accounts[Known] = RowFields
    BY <1>0 DEF RowsInv, Known
  <2>5. PICK x, y : /\ accounts' = [accounts EXCEPT ![Known].name = x, ![Known].profile = y]
                    /\ x # accounts[Known].name => "name" \in Body(w)
                    /\ y # accounts[Known].profile => "profile" \in Body(w)
    BY <1>8 DEF UpdateAccount, ProfileAfter
  <2>6. /\ DOMAIN accounts' = DOMAIN accounts
        /\ \A id \in DOMAIN accounts : DOMAIN accounts'[id] = DOMAIN accounts[id]
    BY <2>4, <2>5
  <2>7. RowsInv'
    BY <1>0, <1>1, <2>6 DEF RowsInv
  <2>8. \A id \in DOMAIN accounts :
          /\ \A c \in RowFields \ {"name", "profile"} : accounts'[id][c] = accounts[id][c]
          /\ accounts'[id].name # accounts[id].name => "name" \in Body(w)
          /\ accounts'[id].profile # accounts[id].profile => "profile" \in Body(w)
    BY <1>0, <2>4, <2>5 DEF RowsInv, RowFields
  <2>9. /\ "name" \in Body(w) => By({"update account"}, {"name"})
        /\ "profile" \in Body(w) => By({"update account"}, {"profile"})
    BY <2>1, <2>2 DEF By
  <2>10. ColumnsStep
    BY <1>1, <2>8, <2>9 DEF ColumnsStep, RowFields
  <2>11. OnboardingStep
    BY <1>1 DEF OnboardingStep
  <2>12. QED BY <2>3, <2>7, <2>10, <2>11 DEF Kept, ColumnsInv
<1>9. CASE UpdateStatus(w)
  <2>1. /\ request[w].pc = "write account" /\ On(w, {"archive", "reactivate"})
        /\ GoHavingWritten(w, "read account back")
        /\ accounts' = [accounts EXCEPT ![Known].status = StatusOf(w)]
    BY <1>9 DEF UpdateStatus, Statement, At
  <2>2. Moved(w) /\ Writes(w)
    BY <1>0, <2>1, WritingSteps DEF PathInv, NotYetWritten, Unpiped, Outside, ReadingBack
  <2>3. UpsertsInv'
    BY <1>0, <1>1, <2>2, MovedUpserts
  <2>4. By({"archive", "reactivate"}, {})
    BY <2>1, <2>2 DEF By
  <2>5. QED BY <1>0, <1>1, <2>1, <2>3, <2>4, RowWritten DEF RowFields
<1>10. QED BY <1>3, <1>4, <1>5, <1>6, <1>7, <1>8, <1>9 DEF AccountsStep

LEMMA ColumnWritten ==
  ASSUME RowsInv, UpsertsInv', UNCHANGED <<accounts, profile, read>>,
         NEW column \in {"name", "settings", "preferences"}, NEW x,
         workspace' = [workspace EXCEPT ![column] = x],
         /\ column = "name" => By({"update workspace"}, {"column"})
         /\ column = "settings" => By({"update settings"}, {"column"})
         /\ column = "preferences" => By({"update preferences"}, {"column"})
  PROVE  Kept
<1>1. RowsInv'
  BY DEF RowsInv
<1>2. \A c \in {"name", "settings", "preferences"} : workspace'[c] # workspace[c] => c = column
  BY DEF RowsInv
<1>3. ColumnsStep
  BY <1>2 DEF ColumnsStep
<1>4. OnboardingStep
  BY DEF OnboardingStep
<1>5. QED BY <1>1, <1>3, <1>4 DEF Kept, ColumnsInv

\* A request comes to its upsert.
LEMMA ToUpsert ==
  ASSUME UpsertsInv, NEW w \in Workers, OthersStay(w), Steady(request[w], request'[w]),
         request[w].pc = "handler", profile' = profile, \A v \in Workers \ {w} : read'[v] = read[v],
         \/ request[w].route = "update profile" /\ request'[w].pc = "upsert profile"
         \/ /\ request[w].route = "update onboarding" /\ request'[w].pc = "upsert onboarding"
            /\ read'[w] = profile.onboarding
  PROVE  UpsertsInv'
<1>1. ASSUME NEW v \in Workers PROVE UpsertInv(v)' /\ BodyInv(request[v])'
  <2>1. UpsertInv(v) /\ BodyInv(request[v])
    BY DEF UpsertsInv
  <2>2. UpsertInv(v)'
    BY <2>1 DEF UpsertInv, OthersStay, Steady
  <2>3. BodyInv(request[v])'
    BY <2>1 DEF BodyInv, OthersStay, Steady, Unpiped, Patches, AdminWrites
  <2>4. QED BY <2>2, <2>3
<1>2. ASSUME NEW v \in Workers
      PROVE  (Updating(request'[v]) => Updating(request[v])) /\ request'[v].overlapped = request[v].overlapped
  BY <1>2 DEF OthersStay, Steady, Updating
<1>3. OverlapInv'
  BY <1>2 DEF UpsertsInv, OverlapInv, Updating
<1>4. QED BY <1>1, <1>3 DEF UpsertsInv

\* After an update of the date, whoever has read the old one has overlapped it.
LEMMA AfterUpsert ==
  ASSUME UpsertsInv, NEW w \in Workers, Moved(w), request'[w].pc = "done",
         request[w].pc = "upsert onboarding", request[w].route = "update onboarding",
         \A v \in Workers \ {w} : read'[v] = read[v]
  PROVE  UpsertsInv'
<1>1. ASSUME NEW v \in Workers PROVE UpsertInv(v)' /\ BodyInv(request[v])'
  <2>1. UpsertInv(v) /\ BodyInv(request[v]) /\ OverlapInv
    BY DEF UpsertsInv
  <2>2. CASE v = w
    BY <2>1, <2>2 DEF UpsertInv, BodyInv, Unpiped, Outside, Moved, Steady
  <2>3. CASE v # w
    <3>1. request'[v] = request[v]
      BY <2>3 DEF Moved, OthersStay
    <3>2. request[v].pc = "upsert onboarding" => request[v].overlapped
      BY <2>1, <2>3 DEF UpsertInv, OverlapInv, Updating
    <3>3. QED BY <2>1, <3>1, <3>2 DEF UpsertInv, BodyInv
  <2>4. QED BY <2>2, <2>3
<1>2. ASSUME NEW v \in Workers
      PROVE  (Updating(request'[v]) => Updating(request[v])) /\ request'[v].overlapped = request[v].overlapped
  BY <1>2 DEF Moved, OthersStay, Steady, Updating
<1>3. OverlapInv'
  BY <1>2 DEF UpsertsInv, OverlapInv, Updating
<1>4. QED BY <1>1, <1>3 DEF UpsertsInv

LEMMA WorkspacesColumns ==
  ASSUME IInv, ColumnsInv, NEW w \in Workers, WorkspacesStep(w)
  PROVE  Kept
<1>0. TypesInv /\ PathInv(request[w]) /\ RowsInv /\ UpsertsInv /\ UpsertInv(w) /\ BodyInv(request[w])
  BY DEF IInv, RequestInv, ColumnsInv, UpsertsInv
<1>1. accounts' = accounts
  BY DEF WorkspacesStep, accountsVars
<1>2. CASE ReadWorkspace(w) \/ ReadWorkspaceBack(w) \/ ReadPreferences(w) \/ ReadProfile(w)
  <2>1. /\ request[w].pc \in {"handler", "read workspace back"}
        /\ Answer(w, 200) \/ Answer(w, 404)
        /\ UNCHANGED <<workspace, profile, read>>
    BY <1>2 DEF ReadWorkspace, ReadWorkspaceBack, ReadPreferences, ReadProfile, AnswerWithSettings,
                Statement, At, workspacesVars
  <2>2. request[w].pc \notin {"idle", "done"}
    BY <2>1
  <2>3. 200 \in Nat /\ 404 \in Nat
    OBVIOUS
  <2>4. QED BY <1>0, <1>1, <2>1, <2>2, <2>3, PassesOut
<1>3. CASE UpdateWorkspace(w) \/ UpsertPreferences(w)
  <2>1. /\ request[w].pc = "handler" /\ UNCHANGED <<profile, read>> /\ request[w].body # {}
        /\ GoHavingWritten(w, "read workspace back") \/ AnswerHavingWritten(w, 200)
    BY <1>3 DEF UpdateWorkspace, UpsertPreferences, WorkspaceUnchanged, Statement, At, Body
  <2>2. PICK column \in {"name", "settings", "preferences"} : \E content :
          /\ workspace' = [workspace EXCEPT ![column] = content]
          /\ column = "name" => request[w].route = "update workspace"
          /\ column = "settings" => request[w].route = "update settings"
          /\ column = "preferences" => request[w].route = "update preferences"
    BY <1>3 DEF UpdateWorkspace, UpsertPreferences, Column, On, AdminWrites
  <2>3. Moved(w) /\ Writes(w)
    BY <1>0, <2>1, WritingSteps DEF PathInv, NotYetWritten, ReadingBack, Unpiped, Outside
  <2>4. UpsertsInv'
    BY <1>0, <2>1, <2>3, MovedUpserts
  <2>5. {"column"} \subseteq Body(w)
    BY <1>0, <2>1, <2>2 DEF BodyInv, Patches, AdminWrites, Unpiped, Outside, Body
  <2>6. QED BY <1>0, <1>1, <2>1, <2>2, <2>3, <2>4, <2>5, ColumnWritten DEF By, On
<1>4. CASE EnsureCountryIsActive(w)
  <2>1. /\ request[w].pc = "handler" /\ request[w].route = "update profile"
        /\ UNCHANGED <<workspace, profile, read>>
        /\ Go(w, "upsert profile") \/ Answer(w, 400)
    BY <1>4 DEF EnsureCountryIsActive, Statement, At, On, workspacesVars
  <2>2. CASE Answer(w, 400)
    <3> DEFINE pc == request[w].pc
    <3>0. pc = "handler"
      BY <2>1
    <3> HIDE DEF pc
    <3>1. pc \notin {"idle", "done"}
      BY <3>0
    <3>2. UNCHANGED <<accounts, workspace, profile, read>>
      BY <1>1, <2>1
    <3>3. 400 \in Nat
      OBVIOUS
    <3>4. QED BY <1>0, <2>2, <3>1, <3>2, <3>3, PassesOut DEF pc
  <2>3. CASE Go(w, "upsert profile")
    <3>1. "upsert profile" \in Stages
      BY DEF Stages, NotYetWritten
    <3>2. OthersStay(w) /\ Steady(request[w], request'[w]) /\ request'[w].pc = "upsert profile"
      BY <1>0, <2>1, <2>3, <3>1, Steps
    <3>3. UpsertsInv'
      BY <1>0, <2>1, <3>2, ToUpsert
    <3>4. QED BY <1>0, <1>1, <2>1, <3>3, ReadsOnly DEF RowsInv
  <2>4. QED BY <2>1, <2>2, <2>3
<1>5. CASE ReadOnboarding(w)
  <2>1. /\ request[w].pc = "handler" /\ request[w].route = "update onboarding"
        /\ UNCHANGED <<workspace, profile>> /\ read' = [read EXCEPT ![w] = profile.onboarding]
        /\ Go(w, "upsert onboarding")
    BY <1>5 DEF ReadOnboarding, Statement, At, On
  <2>2. "upsert onboarding" \in Stages
    BY DEF Stages, NotYetWritten
  <2>3. OthersStay(w) /\ Steady(request[w], request'[w]) /\ request'[w].pc = "upsert onboarding"
    BY <1>0, <2>1, <2>2, Steps
  <2>4. /\ DOMAIN read' = Workers /\ read'[w] = profile.onboarding
        /\ \A v \in Workers \ {w} : read'[v] = read[v]
    BY <1>0, <2>1 DEF RowsInv
  <2>5. UpsertsInv'
    BY <1>0, <2>1, <2>3, <2>4, ToUpsert
  <2>6. QED BY <1>0, <1>1, <2>1, <2>4, <2>5, ReadsOnly
<1>6. CASE UpsertProfile(w)
  <2>1. /\ request[w].pc = "upsert profile" /\ request[w].route = "update profile"
        /\ UNCHANGED <<workspace, read>> /\ AnswerHavingWritten(w, 200)
    BY <1>0, <1>6 DEF UpsertProfile, WorkspaceUnchanged, Statement, At, UpsertInv
  <2>2. PICK x : /\ profile' = [profile EXCEPT !.country = x]
                 /\ x # profile.country => "country" \in Body(w)
    BY <1>6 DEF UpsertProfile
  <2>3. Moved(w) /\ Writes(w)
    BY <1>0, <2>1, WritingSteps DEF PathInv, NotYetWritten, Unpiped, Outside
  <2>4. /\ DOMAIN profile' = {"country", "onboarding"} /\ profile'.onboarding = profile.onboarding
        /\ profile'.country = x
    BY <1>0, <2>2 DEF RowsInv
  <2>5. UpsertsInv'
    BY <1>0, <2>1, <2>3, <2>4, MovedUpserts
  <2>6. RowsInv'
    BY <1>0, <1>1, <2>1, <2>4 DEF RowsInv
  <2>7. ColumnsStep
    BY <1>1, <2>1, <2>2, <2>3, <2>4 DEF ColumnsStep, By, On
  <2>8. OnboardingStep
    BY <2>4 DEF OnboardingStep
  <2>9. QED BY <2>5, <2>6, <2>7, <2>8 DEF Kept, ColumnsInv
<1>7. CASE UpsertOnboarding(w)
  <2>1. /\ request[w].pc = "upsert onboarding" /\ request[w].route = "update onboarding"
        /\ request[w].overlapped \/ read[w] = profile.onboarding
        /\ workspace' = workspace /\ read' = [read EXCEPT ![w] = 0] /\ AnswerHavingWritten(w, 200)
        /\ profile' = [profile EXCEPT !.onboarding = NextOnboarding(w)]
    BY <1>0, <1>7 DEF UpsertOnboarding, Statement, At, UpsertInv
  <2>2. Moved(w) /\ Writes(w) /\ request'[w].pc = "done"
    BY <1>0, <2>1, WritingSteps DEF PathInv, NotYetWritten, Unpiped, Outside
  <2>3. /\ DOMAIN profile' = {"country", "onboarding"} /\ profile'.country = profile.country
        /\ profile'.onboarding = NextOnboarding(w)
    BY <1>0, <2>1 DEF RowsInv
  <2>4. DOMAIN read' = Workers /\ \A v \in Workers \ {w} : read'[v] = read[v]
    BY <1>0, <2>1 DEF RowsInv
  <2>5. RowsInv'
    BY <1>0, <1>1, <2>1, <2>3, <2>4 DEF RowsInv
  <2>6. UpsertsInv'
    BY <1>0, <2>1, <2>2, <2>4, AfterUpsert
  <2>7. ColumnsStep
    BY <1>1, <2>1, <2>2, <2>3 DEF ColumnsStep, By, On
  \* Alone, it keeps the date it has read, unless it is asked to clear it.
  <2>8. OnboardingStep
    <3>1. SUFFICES ASSUME profile.onboarding # 0, profile'.onboarding # profile.onboarding
                   PROVE  request[w].overlapped \/ "not completed" \in Body(w)
      BY <2>1, <2>2 DEF OnboardingStep, On
    <3>2. QED BY <2>1, <2>3, <3>1 DEF NextOnboarding
  <2>9. QED BY <2>5, <2>6, <2>7, <2>8 DEF Kept, ColumnsInv
<1>8. QED BY <1>2, <1>3, <1>4, <1>5, <1>6, <1>7 DEF WorkspacesStep

LEMMA BodyOf ==
  ASSUME NEW route \in Patches, NEW body \in Bodies(route)
  PROVE  body \in {{}, {"column"}, {"malformed"}}
  BY DEF Patches, AdminWrites, Bodies, WorkspaceUpdates, SettingsUpdates, PreferencesUpdates

\* Whoever updates the date when another update comes in has overlapped it, and the other way round.
LEMMA ReceiveColumns ==
  ASSUME IInv, ColumnsInv, NEW w \in Workers, NEW route \in Routes, NEW body \in Bodies(route),
         Receive(w, route, body), UNCHANGED <<accounts, workspace, profile, read>>
  PROVE  Kept
<1> DEFINE beside == {v \in Workers \ {w} : On(v, {"update onboarding"}) /\ ~Idle(v)}
           met    == route = "update onboarding" /\ beside # {}
<1>0. TypesInv /\ UpsertsInv /\ RowsInv
  BY DEF IInv, ColumnsInv
<1>1. request' = [v \in Workers |->
           IF v = w
           THEN [NoRequest EXCEPT !.pc = "guards", !.route = route, !.body = body, !.overlapped = met,
                   !.entitled = Entitled(route, access), !.late = process # "serving"]
           ELSE [request[v] EXCEPT !.overlapped = @ \/ (met /\ v \in beside)]]
  BY DEF Receive
<1>2. request'[w].pc = "guards" /\ request'[w].route = route /\ request'[w].body = body
      /\ (met => request'[w].overlapped)
  <2>1. request'[w] = [NoRequest EXCEPT !.pc = "guards", !.route = route, !.body = body, !.overlapped = met,
                         !.entitled = Entitled(route, access), !.late = process # "serving"]
    BY <1>1, Zenon
  <2> HIDE DEF met, beside
  <2>2. QED BY <2>1 DEF NoRequest
<1>3. ASSUME NEW v \in Workers \ {w}
      PROVE  /\ request'[v].pc = request[v].pc /\ request'[v].route = request[v].route
             /\ request'[v].body = request[v].body
             /\ request[v].overlapped \/ (met /\ v \in beside) => request'[v].overlapped
  <2>1. request'[v] = [request[v] EXCEPT !.overlapped = request[v].overlapped \/ (met /\ v \in beside)]
    BY <1>1, <1>3, Zenon
  <2>2. request[v] \in Request
    BY <1>0 DEF TypesInv
  <2> HIDE DEF met, beside
  <2>3. QED BY <2>1, <2>2 DEF Request
<1>4. ASSUME NEW v \in Workers PROVE UpsertInv(v)' /\ BodyInv(request[v])'
  <2>1. CASE v = w
    <3>1. UpsertInv(v)'
      BY <1>2, <2>1 DEF UpsertInv
    <3>2. BodyInv(request[v])'
      BY <1>2, <2>1, BodyOf DEF BodyInv, Unpiped, Outside
    <3>3. QED BY <3>1, <3>2
  <2>2. CASE v # w
    <3>1. UpsertInv(v) /\ BodyInv(request[v])
      BY <1>0 DEF UpsertsInv
    <3>2. UpsertInv(v)'
      BY <1>3, <2>2, <3>1 DEF UpsertInv
    <3>3. BodyInv(request[v])'
      BY <1>3, <2>2, <3>1 DEF BodyInv
    <3>4. QED BY <3>2, <3>3
  <2>3. QED BY <2>1, <2>2
<1>5. OverlapInv'
  <2>1. SUFFICES ASSUME NEW u \in Workers, NEW v \in Workers, u # v,
                        Updating(request'[u]), Updating(request'[v])
                 PROVE  request'[u].overlapped
    BY DEF OverlapInv, Updating
  <2>2. ASSUME NEW x \in Workers \ {w}, Updating(request'[x]) PROVE x \in beside /\ Updating(request[x])
    BY <1>3, <2>2 DEF Updating, On, Idle
  <2>3. CASE u = w
    BY <1>2, <2>1, <2>2, <2>3 DEF Updating
  <2>4. CASE v = w
    BY <1>2, <1>3, <2>1, <2>2, <2>4 DEF Updating
  <2>5. CASE u # w /\ v # w
    BY <1>0, <1>3, <2>1, <2>2, <2>5 DEF UpsertsInv, OverlapInv
  <2>6. QED BY <2>3, <2>4, <2>5
<1>6. UpsertsInv'
  BY <1>4, <1>5 DEF UpsertsInv
<1>7. QED BY <1>0, <1>6, ReadsOnly DEF RowsInv

LEMMA PipelineColumns ==
  ASSUME IInv, ColumnsInv, NEW w \in Workers, Pipeline(w)
  PROVE  Kept
<1>0. TypesInv /\ RowsInv /\ UpsertsInv /\ request[w] \in Request
  BY DEF IInv, ColumnsInv, TypesInv
<1>1. UNCHANGED <<accounts, workspace, profile, read>>
  BY DEF Pipeline, accountsVars, workspacesVars
<1>2. CASE \E route \in Routes : \E body \in Bodies(route) : Receive(w, route, body)
  BY <1>1, <1>2, ReceiveColumns
<1>3. CASE Guard(w)
  <2>1. request[w].pc = "guards"
    BY <1>3 DEF Guard, At
  <2>2. \/ Go(w, "handler") /\ Cleared(request[w])
        \/ Go(w, "pipe")
        \/ \E s \in {401, 403} : Answer(w, s)
    BY <1>3 DEF Guard, Cleared, On, Body
  <2>3. "handler" \in Stages \ Upserts /\ "pipe" \in Stages \ Upserts
    BY DEF Stages, NotYetWritten, Upserts
  <2>4. QED BY <1>0, <1>1, <2>1, <2>2, <2>3, PassesOn, PassesOut
<1>4. CASE Fail(w) \/ RefuseMalformed(w)
  BY <1>0, <1>1, <1>4, PassesOut DEF Fail, RefuseMalformed, Idle, At
<1>5. CASE TimeOut(w)
  <2>1. request[w].pc \notin Outside /\ Continue(w, [request[w] EXCEPT !.answer = 408])
    BY <1>5 DEF TimeOut, Outside
  <2>2. request'[w] = [request[w] EXCEPT !.answer = 408] /\ OthersStay(w)
    BY <1>0, <2>1 DEF Continue, TypesInv, OthersStay
  <2>3. Moved(w)
    BY <1>0, <2>1, <2>2 DEF Moved, Steady, Request, Unpiped, Outside, Cleared
  <2>4. UpsertsInv'
    BY <1>0, <1>1, <2>3, MovedUpserts
  <2>5. QED BY <1>0, <1>1, <2>4, ReadsOnly DEF RowsInv
<1>6. QED BY <1>2, <1>3, <1>4, <1>5 DEF Pipeline

LEMMA ColumnsNext ==
  ASSUME IInv, ColumnsInv, Next
  PROVE  Kept
<1>0. TypesInv /\ RowsInv /\ UpsertsInv
  BY DEF IInv, ColumnsInv
<1>1. ASSUME NEW w \in Workers, HealthStep(w) \/ AnalyzerStep(w) PROVE Kept
  <2>1. UNCHANGED <<accounts, workspace, profile, read>>
    BY <1>1 DEF HealthStep, AnalyzerStep, accountsVars, workspacesVars
  <2>2. ASSUME request[w].pc \in {"handler", "ping", "gateway"},
               (\E pc \in {"ping", "gateway"} : Go(w, pc)) \/ \E s \in {200, 422, 502, 503} : Answer(w, s)
        PROVE  Kept
    <3>1. "ping" \in Stages \ Upserts /\ "gateway" \in Stages \ Upserts /\ Cleared(request[w])
      BY <2>2 DEF Stages, NotYetWritten, Upserts, Cleared
    <3>2. QED BY <1>0, <2>1, <2>2, <3>1, PassesOn, PassesOut
  <2>3. CASE HealthStep(w)
    <3>1. request[w].pc \in {"handler", "ping"}
      BY <2>3 DEF HealthStep, GetAppState, PingAnswers, PingFails, Statement, At
    <3>2. ASSUME NEW up, Report(w, up) PROVE Answer(w, 200) \/ Answer(w, 503)
      BY <3>2 DEF Report
    <3>3. CASE GetAppState(w)
      BY <2>2, <3>1, <3>3 DEF GetAppState
    <3>4. CASE PingAnswers(w) \/ PingFails(w)
      <4>1. PICK up \in BOOLEAN : Report(w, up)
        BY <3>4 DEF PingAnswers, PingFails
      <4>2. Answer(w, 200) \/ Answer(w, 503)
        BY <3>2, <4>1
      <4>3. QED BY <2>2, <3>1, <4>2
    <3>5. QED BY <2>3, <3>3, <3>4 DEF HealthStep
  <2>4. CASE AnalyzerStep(w)
    BY <2>2, <2>4 DEF AnalyzerStep, ResolveMimeType, GatewayReplies, GatewayFails, At
  <2>5. QED BY <1>1, <2>3, <2>4
<1>2. CASE Surroundings
  <2>1. UNCHANGED <<accounts, workspace, profile, read>>
    BY <1>2 DEF Surroundings, accountsVars, workspacesVars
  <2>2. ASSUME NEW w \in Workers
        PROVE  Steady(request[w], request'[w]) /\ request'[w].pc = request[w].pc
    <3>1. request[w] \in Request
      BY <1>0 DEF TypesInv
    <3>2. CASE request' = request
      BY <3>2 DEF Steady
    <3>3. ASSUME NEW a, ChangeAccess(a) PROVE Steady(request[w], request'[w]) /\ request'[w].pc = request[w].pc
      <4>1. \/ request'[w] = request[w]
            \/ request'[w] = [request[w] EXCEPT !.entitled = @ \/ Entitled(request[w].route, a)]
        BY <3>3 DEF ChangeAccess
      <4>2. QED BY <3>1, <4>1 DEF Steady, Request
    <3>4. QED BY <1>2, <3>2, <3>3 DEF Surroundings, Disconnect, Stop
  <2>3. UpsertsInv'
    BY <1>0, <2>1, <2>2, SteadyUpserts
  <2>4. QED BY <1>0, <2>1, <2>3, ReadsOnly DEF RowsInv
<1>3. CASE Beside
  <2>1. UNCHANGED <<request, workspace, profile, read>>
    BY <1>3 DEF Beside, Recompute, RetireCurrency, RetireCountry, workspacesVars
  <2>2. UpsertsInv'
    BY <1>0, <2>1, SteadyUpserts DEF Steady
  <2>3. CASE accounts' = accounts
    BY <1>0, <2>1, <2>2, <2>3, ReadsOnly DEF RowsInv
  <2>4. CASE Recompute
    BY <1>0, <2>1, <2>2, <2>4, RowWritten DEF Recompute, RowFields
  <2>5. QED BY <1>3, <2>3, <2>4 DEF Beside, RetireCurrency, RetireCountry, accountsVars
<1>4. QED BY <1>1, <1>2, <1>3, PipelineColumns, AccountsColumns, WorkspacesColumns DEF Next, Serve

LEMMA ColumnsStutter ==
  ASSUME ColumnsInv, UNCHANGED vars
  PROVE  ColumnsInv'
<1>1. UNCHANGED <<request, accounts, workspace, profile, read>>
  BY DEF vars, pipelineVars, accountsVars, workspacesVars
<1>2. UpsertsInv'
  BY <1>1, SteadyUpserts DEF ColumnsInv, Steady
<1>3. QED BY <1>1, <1>2 DEF ColumnsInv, RowsInv

LEMMA ColumnsInit == Init => ColumnsInv
<1> SUFFICES ASSUME Init PROVE ColumnsInv
  OBVIOUS
<1>1. RowsInv
  <2>1. DOMAIN accounts = 1..1 /\ \A id \in DOMAIN accounts : DOMAIN accounts[id] = RowFields
    BY DEF Init, InitAccounts, Known, NewAccount, RowFields
  <2>2. QED BY <2>1 DEF RowsInv, Init, InitWorkspaces
<1>2. ASSUME NEW w \in Workers PROVE request[w].pc = "idle" /\ request[w].route = "none"
  BY DEF Init, InitPipeline, NoRequest
<1>3. UpsertsInv
  BY <1>2 DEF UpsertsInv, UpsertInv, BodyInv, OverlapInv, Updating, Patches, AdminWrites
<1>4. QED BY <1>1, <1>3 DEF ColumnsInv

LEMMA ColumnsInductive == Spec => [](IInv /\ ColumnsInv)
<1>1. IInv /\ ColumnsInv /\ [Next]_vars => ColumnsInv'
  BY ColumnsNext, ColumnsStutter DEF Kept
<1>2. QED BY <1>1, ColumnsInit, ServerInvariant, PTL DEF Spec

\* No update is lost: a column changes only in the write of a request that asks for it, and a
\* balance only in a recompute, for any number of requests side by side.
THEOREM UpdatesAreKept == Spec => ColumnsKept
<1>1. IInv /\ ColumnsInv /\ [Next]_vars => [ColumnsStep]_vars
  BY ColumnsNext DEF Kept
<1>2. QED BY <1>1, ColumnsInductive, PTL DEF Spec, ColumnsKept, ColumnsStep

\* The date of onboarding is cleared only on request, and replaced only by an update that ran
\* beside another one.
THEOREM OnboardingDateIsKept == Spec => OnboardingKept
<1>1. IInv /\ ColumnsInv /\ [Next]_vars => [OnboardingStep]_vars
  BY ColumnsNext DEF Kept
<1>2. QED BY <1>1, ColumnsInductive, PTL DEF Spec, OnboardingKept, OnboardingStep
=============================================================================
