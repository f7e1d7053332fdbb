----------------------------- MODULE OneTimeCodes -----------------------------
(***************************************************************************)
(* The one-time codes of one user for one purpose (verifying an e-mail     *)
(* address or resetting a password).  Each worker serves one call at a     *)
(* time; every database statement is a step, and what the code decides     *)
(* after an await is decided on the row it read before.  No statement is   *)
(* in a transaction with another.                                          *)
(***************************************************************************)
EXTENDS FiniteSetsExt

CONSTANTS
  Workers,      \* calls served at the same time
  MaxAttempts,  \* OTP_CONSTANTS.MAX_ATTEMPTS, copied to every row
  MaxCodes      \* bound on the codes ever stored

ASSUME CodesAssumption ==
  /\ IsFiniteSet(Workers) /\ Workers # {}
  /\ MaxAttempts \in Nat \ {0}
  /\ MaxCodes \in Nat

Codes == 1..MaxCodes
Wrong == 0             \* a guess that matches no code of this user

VARIABLES
  stored,    \* rows of otp_codes: 1..stored, in createdAt order
  used,      \* rows with a usedAt
  expired,   \* rows past their expiresAt
  attempts,  \* row -> failed attempts
  accepted,  \* row -> verifications answered with success
  call       \* worker -> the call it is serving

rows == <<stored, used, expired, attempts>>
vars == <<rows, accepted, call>>

NoCall == [pc |-> "idle", guess |-> Wrong, code |-> Wrong, attempts |-> 0, late |-> {}]

Init ==
  /\ stored = 0
  /\ used = {}
  /\ expired = {}
  /\ attempts = [c \in Codes |-> 0]
  /\ accepted = [c \in Codes |-> 0]
  /\ call = [w \in Workers |-> NoCall]

At(w, pc)     == call[w].pc = pc
Advance(w, c) == call' = [call EXCEPT ![w] = c]

-----------------------------------------------------------------------------
(* generate: two statements.                                               *)

BeginGenerate(w) ==
  /\ At(w, "idle")
  /\ Advance(w, [NoCall EXCEPT !.pc = "invalidate"])
  /\ UNCHANGED <<rows, accepted>>

\* Faulty variant: only codes past their expiry are invalidated.
InvalidateExpired(w) ==
  /\ At(w, "invalidate")
  /\ used' = used \cup expired
  /\ Advance(w, [call[w] EXCEPT !.pc = "create"])
  /\ UNCHANGED <<stored, expired, attempts, accepted>>

\* Every unused code of the user and purpose, expired or not.
Invalidate(w) ==
  /\ At(w, "invalidate")
  /\ used' = 1..stored
  /\ Advance(w, [call[w] EXCEPT !.pc = "create"])
  /\ UNCHANGED <<stored, expired, attempts, accepted>>

\* The call ends here: a mail that cannot be sent is only logged.
Create(w) ==
  /\ At(w, "create")
  /\ stored < MaxCodes
  /\ stored' = stored + 1
  /\ Advance(w, NoCall)
  /\ UNCHANGED <<used, expired, attempts, accepted>>

-----------------------------------------------------------------------------
(* verify: read the newest active code, decide, write.                     *)

\* Faulty variant: a code counts as active until it expires.
NotExpired == {c \in 1..stored : c \notin expired}

Active == {c \in 1..stored : c \notin used /\ c \notin expired}

Exhausted == {c \in 1..stored : attempts[c] >= MaxAttempts}

\* late: the code typed in, if it was already used, expired or exhausted by then.
BeginVerify(w, guess) ==
  /\ At(w, "idle")
  /\ Advance(w, [NoCall EXCEPT !.pc = "find", !.guess = guess,
                               !.late = {guess} \cap (used \cup expired \cup Exhausted)])
  /\ UNCHANGED <<rows, accepted>>

\* findActiveOtp: no row ends the call.
Find(w) ==
  /\ At(w, "find")
  /\ IF Active = {}
     THEN Advance(w, NoCall)
     ELSE Advance(w, [call[w] EXCEPT !.pc = "check", !.code = Max(Active),
                                     !.attempts = attempts[Max(Active)]])
  /\ UNCHANGED <<rows, accepted>>

\* Faulty variant: the limit is taken as exclusive.
Above(n) == n > MaxAttempts

TooMany(n) == n >= MaxAttempts

\* The checks, in one turn of the event loop, on the row as it was read.
Check(w) ==
  LET c == call[w]
  IN  /\ At(w, "check")
      /\ \/ /\ c.code \in expired \/ TooMany(c.attempts)
            /\ Advance(w, NoCall)
         \/ /\ c.code \notin expired
            /\ ~TooMany(c.attempts)
            /\ Advance(w, IF c.guess = c.code
                          THEN [c EXCEPT !.pc = "mark", !.attempts = 0]
                          ELSE [c EXCEPT !.pc = "increment", !.guess = Wrong, !.late = {}])
      /\ UNCHANGED <<rows, accepted>>

\* attempts + 1 on the row as it is now; the call is answered with an error.
Increment(w) ==
  /\ At(w, "increment")
  /\ attempts' = [attempts EXCEPT ![call[w].code] = @ + 1]
  /\ Advance(w, NoCall)
  /\ UNCHANGED <<stored, used, expired, accepted>>

\* Faulty variant: the code stays usable.
MarkNothing(w) ==
  /\ At(w, "mark")
  /\ Advance(w, [call[w] EXCEPT !.pc = "answer"])
  /\ UNCHANGED <<rows, accepted>>

\* Whatever happened to the row since it was read.
MarkUsed(w) ==
  /\ At(w, "mark")
  /\ used' = used \cup {call[w].code}
  /\ Advance(w, [call[w] EXCEPT !.pc = "answer"])
  /\ UNCHANGED <<stored, expired, attempts, accepted>>

Answer(w) ==
  /\ At(w, "answer")
  /\ accepted' = [accepted EXCEPT ![call[w].code] = @ + 1]
  /\ Advance(w, NoCall)
  /\ UNCHANGED rows

-----------------------------------------------------------------------------
\* A statement that fails or whose answer is lost, a crash.
Fail(w) ==
  /\ ~At(w, "idle")
  /\ Advance(w, NoCall)
  /\ UNCHANGED <<rows, accepted>>

\* In any order: each instance that serves calls sets expiresAt by its own clock.
Expire(c) ==
  /\ c \in 1..stored
  /\ expired' = expired \cup {c}
  /\ UNCHANGED <<stored, used, attempts, accepted, call>>

Next ==
  \/ \E w \in Workers :
       \/ BeginGenerate(w) \/ Invalidate(w) \/ Create(w)
       \/ \E guess \in 1..stored \cup {Wrong} : BeginVerify(w, guess)
       \/ Find(w) \/ Check(w) \/ Increment(w) \/ MarkUsed(w) \/ Answer(w)
       \/ Fail(w)
  \/ \E c \in Codes : Expire(c)

Spec == Init /\ [][Next]_vars
-----------------------------------------------------------------------------
(* Properties.                                                             *)

Call == [pc : {"idle", "invalidate", "create",
               "find", "check", "increment", "mark", "answer"},
         guess : Codes \cup {Wrong}, code : Codes \cup {Wrong},
         attempts : Nat, late : SUBSET Codes]

HoldsCode == {"check", "increment", "mark", "answer"}

\* The table's columns, and what a call has read: once past its read it holds a
\* stored code; only stored codes are used or expire.
TypeOK ==
  /\ stored \in 0..MaxCodes
  /\ used \cup expired \subseteq 1..stored
  /\ attempts \in [Codes -> Nat]
  /\ accepted \in [Codes -> Nat]
  /\ call \in [Workers -> Call]
  /\ \A w \in Workers : call[w].pc \in HoldsCode => call[w].code \in 1..stored

Unused == {c \in 1..stored : c \notin used}

\* The check of maxAttempts and the increment are two steps: the counter may pass
\* the limit, but only by the calls that overlapped the one that reached it.
AttemptsBounded == \A c \in Codes : attempts[c] <= MaxAttempts + Cardinality(Workers) - 1

\* A code answers with success only once used, and at most once per overlapping call.
AcceptancesBounded ==
  \A c \in Codes : /\ accepted[c] <= Cardinality(Workers)
                   /\ accepted[c] > 0 => c \in used

\* Invalidating and creating are two steps: more than one code is usable only when
\* generations overlap, and no more codes than generations that did.
UnusedBounded == Cardinality(Unused) <= Cardinality(Workers)

\* A call accepts no code that was used, superseded, expired or exhausted when it began.
LateCodesRefused ==
  [][\A w \in Workers : Answer(w) => call[w].late = {}]_vars
=============================================================================
