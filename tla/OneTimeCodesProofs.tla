-------------------------- MODULE OneTimeCodesProofs --------------------------
(***************************************************************************)
(* Proofs about OneTimeCodes, for any number of workers, attempts and      *)
(* codes.  The bounds are not inductive: each is strengthened by counting  *)
(* the calls that have passed their check and may still add to it.         *)
(***************************************************************************)
EXTENDS OneTimeCodes, FiniteSetTheorems, WellFoundedInduction, TLAPS

-----------------------------------------------------------------------------
(* Least and greatest members of sets of naturals.                         *)

Earlier == {p \in Nat \X Nat : p[1] < p[2]}

LEMMA EarlierWellFounded == IsWellFoundedOn(Earlier, Nat)
  BY NatLessThanWellFounded DEF OpToRel, Earlier

\* Min of a non-empty set of naturals is its least element.
LEMMA MinOfNaturals ==
  ASSUME NEW S, S \subseteq Nat, S # {}
  PROVE  Min(S) \in S /\ \A y \in S : Min(S) <= y
<1>1. PICK x \in S : \A y \in S : ~(<<y, x>> \in Earlier)
  BY EarlierWellFounded, WFMin, Zenon
<1>2. ASSUME NEW y \in S PROVE x <= y
  <2>1. y < x => <<y, x>> \in Earlier
    BY DEF Earlier
  <2>2. ~(<<y, x>> \in Earlier)
    BY <1>1
  <2>3. x \in Nat /\ y \in Nat
    OBVIOUS
  <2>4. QED BY <2>1, <2>2, <2>3
<1>3. QED BY <1>2 DEF Min

\* Max of a non-empty set of naturals up to N is its greatest element.
LEMMA MaxOfInterval ==
  ASSUME NEW N \in Nat, NEW S, S \subseteq 0..N, S # {}
  PROVE  Max(S) \in S /\ \A y \in S : Max(S) >= y
<1> DEFINE T == {N - y : y \in S}
<1>1. T \subseteq Nat /\ T # {}
  <2>1. ASSUME NEW y \in S PROVE N - y \in Nat
    <3>1. y \in Int /\ 0 <= y /\ y <= N
      OBVIOUS
    <3>2. QED BY <3>1
  <2>2. PICK y \in S : TRUE
    OBVIOUS
  <2>3. QED BY <2>1, <2>2
<1>2. Min(T) \in T /\ \A t \in T : Min(T) <= t
  BY <1>1, MinOfNaturals
<1>3. PICK x \in S : Min(T) = N - x
  BY <1>2
<1>4. \A y \in S : x >= y
  <2>1. SUFFICES ASSUME NEW y \in S PROVE x >= y
    OBVIOUS
  <2>2. N - y \in T
    OBVIOUS
  <2>3. N - x <= N - y
    BY <1>2, <1>3, <2>2
  <2>4. QED BY <2>3
<1>5. QED BY <1>4 DEF Max

-----------------------------------------------------------------------------
(* The inductive invariants.                                               *)

\* Calls that read c while it had an attempt left and may still count one.
Guessing(c) == {w \in Workers : /\ call[w].pc \in {"check", "increment"}
                                /\ call[w].code = c /\ call[w].attempts < MaxAttempts}

\* Calls that read c before it was used and may still accept it.
Accepting(c) == {w \in Workers : call[w].pc \in {"check", "mark", "answer"} /\ call[w].code = c}

\* Calls that have invalidated the other codes and may still create one.
Generating == {w \in Workers : call[w].pc = "create"}

AttemptsInv ==
  /\ \A c \in Codes : attempts[c] >= MaxAttempts =>
       attempts[c] + Cardinality(Guessing(c)) <= MaxAttempts + Cardinality(Workers) - 1
  /\ \A w \in Workers : At(w, "increment") => call[w].attempts < MaxAttempts

AcceptancesInv ==
  \A c \in Codes :
    /\ c \in used => accepted[c] + Cardinality(Accepting(c)) <= Cardinality(Workers)
    /\ c \notin used => accepted[c] = 0 /\ \A w \in Workers : ~(At(w, "answer") /\ call[w].code = c)

UnusedInv == Cardinality(Unused) + Cardinality(Generating) <= Cardinality(Workers)

\* A late call can only come across its code as one without attempts left.
Dead == used \cup expired \cup Exhausted

LateInv ==
  \A w \in Workers :
    LET c == call[w]
    IN  /\ c.late \subseteq {c.guess}
        /\ At(w, "find") => c.late \subseteq Dead
        /\ At(w, "check") /\ c.code \in c.late => TooMany(c.attempts)
        /\ At(w, "mark") \/ At(w, "answer") => c.late = {}

IInv == TypeOK /\ AttemptsInv /\ AcceptancesInv /\ UnusedInv /\ LateInv

-----------------------------------------------------------------------------
(* Counting.                                                               *)

\* Sets of calls are finite, and no larger than the set of workers.
LEMMA CallsCounted ==
  ASSUME CodesAssumption, NEW S \in SUBSET Workers
  PROVE  /\ IsFiniteSet(S) /\ Cardinality(S) \in Nat /\ Cardinality(Workers) \in Nat
         /\ Cardinality(S) <= Cardinality(Workers)
BY FS_CardinalityType, FS_Subset DEF CodesAssumption

\* Fewer calls of a kind count for less.
LEMMA CallsShrink ==
  ASSUME CodesAssumption, NEW T \in SUBSET Workers, NEW S \in SUBSET T
  PROVE  Cardinality(S) <= Cardinality(T)
BY CallsCounted, FS_Subset

\* A kind that a call has left is smaller by one.
LEMMA CallLeaves ==
  ASSUME CodesAssumption, NEW T \in SUBSET Workers, NEW w \in T, NEW S \in SUBSET (T \ {w})
  PROVE  Cardinality(S) <= Cardinality(T) - 1
<1>1. IsFiniteSet(T) /\ Cardinality(T) \in Nat
  BY CallsCounted
<1>2. IsFiniteSet(T \ {w}) /\ Cardinality(T \ {w}) = Cardinality(T) - 1
  BY <1>1, FS_RemoveElement
<1>3. QED BY <1>2, FS_Subset

\* The codes of a user are finitely many.
LEMMA CodesCounted ==
  ASSUME CodesAssumption, NEW S \in SUBSET Codes
  PROVE  IsFiniteSet(S) /\ Cardinality(S) \in Nat
<1>1. IsFiniteSet(Codes)
  BY FS_Interval DEF CodesAssumption, Codes
<1>2. IsFiniteSet(S)
  BY <1>1, FS_Subset
<1>3. QED BY <1>2, FS_CardinalityType

-----------------------------------------------------------------------------
(* Type correctness.                                                       *)

\* The code a verification reads is one of the active ones.
LEMMA NewestActive ==
  ASSUME CodesAssumption, TypeOK, Active # {}
  PROVE  Max(Active) \in Active
<1>1. Active \subseteq 0..stored /\ stored \in Nat
  BY DEF Active, TypeOK, CodesAssumption
<1>2. QED BY <1>1, MaxOfInterval

\* Advancing a call leaves the other calls as they are.
LEMMA AdvanceEffect ==
  ASSUME TypeOK, NEW w \in Workers, NEW c, Advance(w, c)
  PROVE  /\ call'[w] = c
         /\ \A v \in Workers \ {w} : call'[v] = call[v]
         /\ c \in Call => call' \in [Workers -> Call]
BY DEF TypeOK, Advance

\* A well-typed call that holds a stored code, if it should, keeps the calls well typed.
LEMMA AdvanceTyped ==
  ASSUME CodesAssumption, TypeOK, NEW w \in Workers, NEW c \in Call, Advance(w, c),
         c.pc \in HoldsCode => c.code \in 1..stored,
         stored' \in 0..MaxCodes, stored <= stored',
         used' \cup expired' \subseteq 1..stored',
         attempts' \in [Codes -> Nat], accepted' \in [Codes -> Nat]
  PROVE  TypeOK'
<1>1. stored \in Nat /\ stored' \in Nat /\ 1..stored \subseteq 1..stored'
  BY DEF TypeOK, CodesAssumption
<1>2. call' \in [Workers -> Call]
  BY AdvanceEffect
<1>3. ASSUME NEW v \in Workers, call'[v].pc \in HoldsCode PROVE call'[v].code \in 1..stored'
  BY <1>1, <1>3, AdvanceEffect DEF TypeOK
<1>4. QED BY <1>2, <1>3 DEF TypeOK

\* Every step keeps the columns and the calls well typed.
LEMMA TypeStep ==
  ASSUME CodesAssumption, TypeOK, [Next]_vars
  PROVE  TypeOK'
<1>0. NoCall \in Call /\ NoCall.pc \notin HoldsCode
  BY DEF NoCall, Call, HoldsCode, Wrong
<1>t. /\ stored \in 0..MaxCodes /\ stored \in Nat /\ MaxCodes \in Nat
      /\ used \cup expired \subseteq 1..stored /\ 1..stored \subseteq Codes
      /\ attempts \in [Codes -> Nat] /\ accepted \in [Codes -> Nat]
      /\ \A w \in Workers : call[w] \in Call
      /\ \A w \in Workers : call[w].pc \in HoldsCode => call[w].code \in 1..stored
  BY DEF TypeOK, CodesAssumption, Codes
<1>1. ASSUME NEW w \in Workers, BeginGenerate(w) PROVE TypeOK'
  <2>1. [NoCall EXCEPT !.pc = "invalidate"] \in Call
    BY DEF NoCall, Call, Wrong
  <2>2. QED BY <1>1, <1>t, <2>1, AdvanceTyped DEF BeginGenerate, rows, HoldsCode, NoCall
<1>2. ASSUME NEW w \in Workers, Invalidate(w) PROVE TypeOK'
  <2> DEFINE c == [call[w] EXCEPT !.pc = "create"]
  <2>1. c \in Call /\ c.pc \notin HoldsCode
    BY <1>t DEF Call, HoldsCode
  <2>2. Advance(w, c) /\ used' = 1..stored /\ UNCHANGED <<stored, expired, attempts, accepted>>
    BY <1>2 DEF Invalidate
  <2> HIDE DEF c
  <2>3. QED BY <1>t, <2>1, <2>2, AdvanceTyped
<1>3. ASSUME NEW w \in Workers, Create(w) PROVE TypeOK'
  <2>1. stored' \in 0..MaxCodes /\ stored <= stored' /\ 1..stored \subseteq 1..stored'
    BY <1>3, <1>t DEF Create
  <2>2. QED BY <1>3, <1>t, <1>0, <2>1, AdvanceTyped DEF Create
<1>4. ASSUME NEW w \in Workers, NEW g \in 1..stored \cup {Wrong}, BeginVerify(w, g) PROVE TypeOK'
  <2> DEFINE c == [NoCall EXCEPT !.pc = "find", !.guess = g,
                                 !.late = {g} \cap (used \cup expired \cup Exhausted)]
  <2>1. {g} \cap (used \cup expired \cup Exhausted) \in SUBSET Codes /\ g \in Codes \cup {Wrong}
    BY <1>t DEF Exhausted
  <2>2. c \in Call /\ c.pc \notin HoldsCode
    BY <2>1 DEF NoCall, Call, HoldsCode
  <2>3. Advance(w, c) /\ UNCHANGED <<stored, used, expired, attempts, accepted>>
    BY <1>4 DEF BeginVerify, rows
  <2> HIDE DEF c
  <2>4. QED BY <1>t, <2>2, <2>3, AdvanceTyped
<1>5. ASSUME NEW w \in Workers, Find(w) PROVE TypeOK'
  <2>1. UNCHANGED <<stored, used, expired, attempts, accepted>>
    BY <1>5 DEF Find, rows
  <2>2. CASE Active = {}
    BY <2>1, <2>2, <1>5, <1>0, <1>t, AdvanceTyped DEF Find
  <2>3. CASE Active # {}
    <3> DEFINE c == [call[w] EXCEPT !.pc = "check", !.code = Max(Active),
                                    !.attempts = attempts[Max(Active)]]
    <3>1. Max(Active) \in 1..stored
      BY <2>3, NewestActive DEF Active
    <3>2. attempts[Max(Active)] \in Nat
      BY <3>1, <1>t
    <3>3. c \in Call /\ c.code \in 1..stored
      BY <3>1, <3>2, <1>t DEF Call
    <3>4. Advance(w, c)
      BY <2>3, <1>5 DEF Find
    <3> HIDE DEF c
    <3>5. QED BY <3>3, <3>4, <2>1, <1>t, AdvanceTyped
  <2>4. QED BY <2>2, <2>3
<1>6. ASSUME NEW w \in Workers, Check(w) PROVE TypeOK'
  <2> DEFINE right == [call[w] EXCEPT !.pc = "mark", !.attempts = 0]
             wrong == [call[w] EXCEPT !.pc = "increment", !.guess = Wrong, !.late = {}]
  <2>1. UNCHANGED <<stored, used, expired, attempts, accepted>> /\ call[w].code \in 1..stored
    BY <1>6, <1>t DEF Check, rows, At, HoldsCode
  <2>2. right \in Call /\ right.code \in 1..stored
    BY <2>1, <1>t DEF Call
  <2>3. wrong \in Call /\ wrong.code \in 1..stored
    BY <2>1, <1>t DEF Call
  <2>4. Advance(w, NoCall) \/ Advance(w, right) \/ Advance(w, wrong)
    <3>1. Advance(w, NoCall) \/ Advance(w, IF call[w].guess = call[w].code THEN right ELSE wrong)
      BY <1>6 DEF Check
    <3> HIDE DEF right, wrong
    <3>2. QED BY <3>1
  <2> HIDE DEF right, wrong
  <2>5. QED BY <1>t, <1>0, <2>1, <2>2, <2>3, <2>4, AdvanceTyped
<1>7. ASSUME NEW w \in Workers, Increment(w) PROVE TypeOK'
  <2>1. attempts' \in [Codes -> Nat]
    <3>1. call[w].code \in Codes
      BY <1>7, <1>t DEF Increment, At, HoldsCode
    <3>2. attempts' = [attempts EXCEPT ![call[w].code] = attempts[call[w].code] + 1]
      BY <1>7 DEF Increment
    <3>3. QED BY <3>1, <3>2, <1>t
  <2>2. QED BY <1>7, <1>t, <1>0, <2>1, AdvanceTyped DEF Increment
<1>8. ASSUME NEW w \in Workers, MarkUsed(w) PROVE TypeOK'
  <2> DEFINE c == [call[w] EXCEPT !.pc = "answer"]
  <2>1. call[w].code \in 1..stored
    BY <1>8, <1>t DEF MarkUsed, At, HoldsCode
  <2>2. c \in Call /\ c.code \in 1..stored
    BY <2>1, <1>t DEF Call
  <2>3. /\ Advance(w, c) /\ used' = used \cup {call[w].code}
        /\ UNCHANGED <<stored, expired, attempts, accepted>>
    BY <1>8 DEF MarkUsed
  <2> HIDE DEF c
  <2>4. QED BY <1>t, <2>1, <2>2, <2>3, AdvanceTyped
<1>9. ASSUME NEW w \in Workers, Answer(w) PROVE TypeOK'
  <2>1. accepted' \in [Codes -> Nat]
    <3>1. call[w].code \in Codes
      BY <1>9, <1>t DEF Answer, At, HoldsCode
    <3>2. accepted' = [accepted EXCEPT ![call[w].code] = accepted[call[w].code] + 1]
      BY <1>9 DEF Answer
    <3>3. QED BY <3>1, <3>2, <1>t
  <2>2. UNCHANGED <<stored, used, expired, attempts>> /\ Advance(w, NoCall)
    BY <1>9 DEF Answer, rows
  <2>3. QED BY <1>t, <1>0, <2>1, <2>2, AdvanceTyped
<1>10. ASSUME NEW w \in Workers, Fail(w) PROVE TypeOK'
  <2>1. UNCHANGED <<stored, used, expired, attempts, accepted>> /\ Advance(w, NoCall)
    BY <1>10 DEF Fail, rows
  <2>2. QED BY <1>t, <1>0, <2>1, AdvanceTyped
<1>11. ASSUME NEW c \in Codes, Expire(c) PROVE TypeOK'
  BY <1>11, <1>t DEF TypeOK, Expire
<1>12. CASE UNCHANGED vars
  BY <1>12 DEF TypeOK, vars, rows
<1>13. QED
  BY <1>1, <1>2, <1>3, <1>4, <1>5, <1>6, <1>7, <1>8, <1>9, <1>10, <1>11, <1>12 DEF Next

-----------------------------------------------------------------------------
(* Steps, by what they do to the calls.                                    *)

\* What a step of one call does to it; the other calls stay as they are.
Moves(w) ==
  \/ BeginGenerate(w) \/ Invalidate(w) \/ Create(w)
  \/ \E guess \in 1..stored \cup {Wrong} : BeginVerify(w, guess)
  \/ Find(w) \/ Check(w) \/ Increment(w) \/ MarkUsed(w) \/ Answer(w) \/ Fail(w)

LEMMA NextCases ==
  ASSUME [Next]_vars
  PROVE  \/ \E w \in Workers : Moves(w)
         \/ (\E c \in Codes : Expire(c)) \/ UNCHANGED vars
BY DEF Next, Moves

\* Expiry and stuttering concern no call and no counter.
LEMMA QuietStep ==
  ASSUME (\E c \in Codes : Expire(c)) \/ UNCHANGED vars
  PROVE  UNCHANGED <<stored, used, attempts, accepted, call>> /\ expired \subseteq expired'
BY DEF Expire, vars, rows

\* What a call holds after each of its steps.
LEMMA MoveShape ==
  ASSUME TypeOK, NEW w \in Workers, Moves(w)
  PROVE  /\ \A v \in Workers \ {w} : call'[v] = call[v]
         /\ call'[w].pc = "create" => Invalidate(w)
         /\ call'[w].pc = "check" => Find(w)
         /\ call'[w].pc \in {"increment", "mark"} =>
              /\ Check(w)
              /\ call[w].pc = "check" /\ call'[w].code = call[w].code
              /\ call'[w].pc = "increment" =>
                   call'[w].attempts = call[w].attempts /\ call[w].attempts < MaxAttempts
         /\ call'[w].pc = "answer" =>
              /\ MarkUsed(w)
              /\ call[w].pc = "mark" /\ call'[w].code = call[w].code
<1>t. call \in [Workers -> Call] /\ call[w] \in Call
  BY DEF TypeOK
<1>n. NoCall.pc = "idle"
  BY DEF NoCall
<1>1. CASE BeginGenerate(w) \/ Create(w) \/ Increment(w) \/ Answer(w) \/ Fail(w)
  <2>1. call' = [call EXCEPT ![w] = NoCall] \/ call' = [call EXCEPT ![w] = [NoCall EXCEPT !.pc = "invalidate"]]
    BY <1>1 DEF BeginGenerate, Create, Increment, Answer, Fail, Advance
  <2>2. call'[w].pc \in {"idle", "invalidate"} /\ \A v \in Workers \ {w} : call'[v] = call[v]
    BY <2>1, <1>t DEF NoCall
  <2>3. QED BY <2>2
<1>2. CASE Invalidate(w)
  <2>1. call'[w].pc = "create" /\ \A v \in Workers \ {w} : call'[v] = call[v]
    BY <1>2, <1>t DEF Invalidate, Advance, Call
  <2>2. QED BY <2>1, <1>2
<1>3. CASE \E guess \in 1..stored \cup {Wrong} : BeginVerify(w, guess)
  <2>1. call'[w].pc = "find" /\ \A v \in Workers \ {w} : call'[v] = call[v]
    BY <1>3, <1>t DEF BeginVerify, Advance, NoCall
  <2>2. QED BY <2>1
<1>4. CASE Find(w)
  <2>1. call'[w].pc \in {"idle", "check"} /\ \A v \in Workers \ {w} : call'[v] = call[v]
    <3> DEFINE c == [call[w] EXCEPT !.pc = "check", !.code = Max(Active),
                                    !.attempts = attempts[Max(Active)]]
    <3>1. c.pc = "check"
      BY <1>t DEF Call
    <3>2. Advance(w, NoCall) \/ Advance(w, c)
      BY <1>4 DEF Find
    <3> HIDE DEF c
    <3>3. QED BY <3>1, <3>2, <1>n, AdvanceEffect
  <2>2. QED BY <2>1, <1>4
<1>5. CASE Check(w)
  <2> DEFINE right == [call[w] EXCEPT !.pc = "mark", !.attempts = 0]
             wrong == [call[w] EXCEPT !.pc = "increment", !.guess = Wrong, !.late = {}]
  <2>1. /\ right.pc = "mark" /\ right.code = call[w].code
        /\ wrong.pc = "increment" /\ wrong.code = call[w].code /\ wrong.attempts = call[w].attempts
    BY <1>t DEF Call
  <2>2. \/ Advance(w, NoCall)
        \/ ~TooMany(call[w].attempts) /\ (Advance(w, right) \/ Advance(w, wrong))
    <3>1. \/ Advance(w, NoCall)
          \/ /\ ~TooMany(call[w].attempts)
             /\ Advance(w, IF call[w].guess = call[w].code THEN right ELSE wrong)
      BY <1>5 DEF Check
    <3> HIDE DEF right, wrong
    <3>2. QED BY <3>1
  <2>3. call[w].pc = "check"
    BY <1>5 DEF Check, At
  <2>4. ~TooMany(call[w].attempts) => call[w].attempts < MaxAttempts
    BY <1>t, CodesAssumption DEF TooMany, Call, CodesAssumption
  <2> HIDE DEF right, wrong
  <2>5. CASE Advance(w, NoCall)
    BY <2>5, <1>n, AdvanceEffect
  <2>6. CASE Advance(w, right)
    BY <2>1, <2>3, <2>6, <1>5, AdvanceEffect
  <2>7. CASE Advance(w, wrong) /\ ~TooMany(call[w].attempts)
    BY <2>1, <2>3, <2>4, <2>7, <1>5, AdvanceEffect
  <2>8. QED BY <2>2, <2>5, <2>6, <2>7
<1>6. CASE MarkUsed(w)
  <2>1. /\ call[w].pc = "mark" /\ call'[w].pc = "answer" /\ call'[w].code = call[w].code
        /\ \A v \in Workers \ {w} : call'[v] = call[v]
    BY <1>6, <1>t DEF MarkUsed, Advance, At, Call
  <2>2. QED BY <2>1, <1>6
<1>7. QED BY <1>1, <1>2, <1>3, <1>4, <1>5, <1>6 DEF Moves

-----------------------------------------------------------------------------
(* One code per overlapping generation.                                    *)

LEMMA UnusedStep ==
  ASSUME CodesAssumption, TypeOK, UnusedInv, [Next]_vars
  PROVE  UnusedInv'
<1>t. /\ stored \in Nat /\ used \subseteq 1..stored /\ 1..stored \subseteq Codes
      /\ Unused \subseteq Codes /\ Generating \subseteq Workers
  BY DEF TypeOK, Codes, CodesAssumption, Unused, Generating
<1>t1. stored' \in Nat /\ Unused' \subseteq Codes /\ Generating' \subseteq Workers
  BY TypeStep DEF TypeOK, Codes, CodesAssumption, Unused, Generating
<1>c. /\ Cardinality(Unused) \in Nat /\ Cardinality(Unused') \in Nat /\ IsFiniteSet(Unused)
      /\ Cardinality(Generating) \in Nat /\ Cardinality(Generating') \in Nat
      /\ Cardinality(Workers) \in Nat /\ Cardinality(Generating') <= Cardinality(Workers)
  BY <1>t, <1>t1, CodesCounted, CallsCounted
<1>1. ASSUME Unused' \subseteq Unused, Generating' \subseteq Generating PROVE UnusedInv'
  <2>1. Cardinality(Unused') <= Cardinality(Unused)
    BY <1>1, <1>c, FS_Subset
  <2>2. Cardinality(Generating') <= Cardinality(Generating)
    BY <1>1, <1>t, CallsShrink
  <2>3. QED BY <2>1, <2>2, <1>c DEF UnusedInv
<1>2. ASSUME NEW w \in Workers, Invalidate(w) PROVE UnusedInv'
  <2>1. Unused' = {}
    BY <1>2 DEF Invalidate, Unused
  <2>2. Cardinality(Unused') = 0
    BY <2>1, FS_EmptySet
  <2>3. QED BY <2>2, <1>c DEF UnusedInv
<1>3. ASSUME NEW w \in Workers, Create(w) PROVE UnusedInv'
  <2>1. Unused' \subseteq Unused \cup {stored + 1}
    BY <1>3, <1>t DEF Create, Unused
  <2>2. /\ IsFiniteSet(Unused \cup {stored + 1})
        /\ Cardinality(Unused \cup {stored + 1}) <= Cardinality(Unused) + 1
        /\ Cardinality(Unused \cup {stored + 1}) \in Nat
    BY <1>c, FS_AddElement
  <2>3. Cardinality(Unused') <= Cardinality(Unused) + 1
    BY <2>1, <2>2, <1>c, FS_Subset
  <2>4. w \in Generating /\ Generating' \in SUBSET (Generating \ {w})
    <3>1. Moves(w) /\ call[w].pc = "create" /\ Advance(w, NoCall)
      BY <1>3 DEF Moves, Create, At
    <3>2. call'[w].pc = "idle" /\ \A v \in Workers \ {w} : call'[v] = call[v]
      BY <3>1, AdvanceEffect DEF NoCall
    <3>3. QED BY <3>1, <3>2 DEF Generating
  <2>5. Cardinality(Generating') <= Cardinality(Generating) - 1
    BY <2>4, <1>t, CallLeaves
  <2>6. QED BY <2>3, <2>5, <1>c DEF UnusedInv
<1>4. ASSUME NEW w \in Workers, Moves(w), ~Invalidate(w), ~Create(w) PROVE UnusedInv'
  <2>1. stored' = stored /\ used \subseteq used'
    BY <1>4 DEF Moves, BeginGenerate, BeginVerify, Find, Check, Increment, MarkUsed, Answer, Fail, rows
  <2>2. Generating' \subseteq Generating
    BY <1>4, MoveShape DEF Generating
  <2>3. QED BY <2>1, <2>2, <1>1 DEF Unused
<1>5. ASSUME (\E c \in Codes : Expire(c)) \/ UNCHANGED vars PROVE UnusedInv'
  BY <1>5, <1>1, QuietStep DEF Unused, Generating
<1>6. QED BY <1>2, <1>3, <1>4, <1>5, NextCases

-----------------------------------------------------------------------------
(* The limit of attempts, passed only by the calls already on their way.   *)

LEMMA AttemptsStep ==
  ASSUME CodesAssumption, TypeOK, AttemptsInv, [Next]_vars
  PROVE  AttemptsInv'
<1>t. /\ stored \in Nat /\ 1..stored \subseteq Codes /\ MaxAttempts \in Nat
      /\ attempts \in [Codes -> Nat] /\ Cardinality(Workers) \in Nat
      /\ \A c \in Codes : Guessing(c) \subseteq Workers /\ Guessing(c)' \subseteq Workers
      /\ \A w \in Workers : call[w] \in Call
      /\ \A w \in Workers : call[w].pc \in HoldsCode => call[w].code \in 1..stored
  BY CallsCounted DEF TypeOK, Codes, CodesAssumption, Guessing
<1>c. \A c \in Codes : /\ Cardinality(Guessing(c)) \in Nat /\ Cardinality(Guessing(c)') \in Nat
                       /\ Cardinality(Guessing(c)') <= Cardinality(Workers)
  BY <1>t, CallsCounted
<1>1. ASSUME NEW c \in Codes, attempts'[c] = attempts[c],
             attempts[c] >= MaxAttempts => Guessing(c)' \subseteq Guessing(c)
      PROVE  attempts'[c] >= MaxAttempts =>
               attempts'[c] + Cardinality(Guessing(c)') <= MaxAttempts + Cardinality(Workers) - 1
  <2>1. SUFFICES ASSUME attempts[c] >= MaxAttempts
                 PROVE  attempts[c] + Cardinality(Guessing(c)') <= MaxAttempts + Cardinality(Workers) - 1
    BY <1>1
  <2>2. Cardinality(Guessing(c)') <= Cardinality(Guessing(c))
    BY <2>1, <1>1, <1>t, CallsShrink
  <2>3. attempts[c] + Cardinality(Guessing(c)) <= MaxAttempts + Cardinality(Workers) - 1
    BY <2>1 DEF AttemptsInv
  <2>4. QED BY <2>2, <2>3, <1>c, <1>t
<1>2. ASSUME NEW w \in Workers, Moves(w)
      PROVE  \A v \in Workers : At(v, "increment")' => call'[v].attempts < MaxAttempts
  BY <1>2, MoveShape DEF At, AttemptsInv
<1>3. ASSUME NEW w \in Workers, Moves(w), ~Find(w), NEW c \in Codes
      PROVE  Guessing(c)' \subseteq Guessing(c)
  <2>1. ASSUME NEW v \in Workers, v \in Guessing(c)' PROVE v \in Guessing(c)
    BY <2>1, <1>3, MoveShape DEF Guessing
  <2>2. QED BY <2>1, <1>t
<1>4. ASSUME NEW w \in Workers, Find(w), NEW c \in Codes, attempts[c] >= MaxAttempts
      PROVE  Guessing(c)' \subseteq Guessing(c)
  <2> DEFINE read == [call[w] EXCEPT !.pc = "check", !.code = Max(Active),
                                     !.attempts = attempts[Max(Active)]]
  <2>1. read.code = Max(Active) /\ read.attempts = attempts[Max(Active)]
    BY <1>t DEF Call
  <2>2. Advance(w, NoCall) \/ Advance(w, read)
    BY <1>4 DEF Find
  <2> HIDE DEF read
  <2>3. w \notin Guessing(c)'
    <3>1. CASE Advance(w, NoCall)
      BY <3>1, AdvanceEffect DEF Guessing, NoCall
    <3>2. CASE Advance(w, read)
      <4>1. call'[w] = read
        BY <3>2, AdvanceEffect
      <4>2. read.code = c => ~(read.attempts < MaxAttempts)
        BY <2>1, <1>4, <1>t
      <4>3. QED BY <4>1, <4>2 DEF Guessing
    <3>3. QED BY <2>2, <3>1, <3>2
  <2>4. \A v \in Workers \ {w} : call'[v] = call[v]
    BY <2>2, AdvanceEffect
  <2>5. QED BY <2>3, <2>4 DEF Guessing
<1>5. ASSUME NEW w \in Workers, Increment(w) PROVE AttemptsInv'
  <2>0. call[w].code \in Codes
    BY <1>5, <1>t DEF Increment, At, HoldsCode
  <2> PICK k \in Codes : k = call[w].code
    BY <2>0
  <2>1. /\ Moves(w) /\ ~Find(w) /\ call[w].pc = "increment"
        /\ attempts' = [attempts EXCEPT ![k] = attempts[k] + 1]
    BY <1>5 DEF Moves, Increment, Find, At
  <2>2. w \in Guessing(k) /\ w \notin Guessing(k)'
    <3>1. call'[w].pc = "idle"
      BY <1>5, AdvanceEffect DEF Increment, NoCall
    <3>2. call[w].attempts < MaxAttempts
      BY <2>1 DEF AttemptsInv, At
    <3>3. QED BY <2>1, <3>1, <3>2 DEF Guessing
  <2>3. Guessing(k)' \in SUBSET (Guessing(k) \ {w}) /\ Guessing(k)' \in SUBSET (Workers \ {w})
    BY <2>1, <2>2, <1>3, <1>t
  <2>4. /\ Cardinality(Guessing(k)') <= Cardinality(Guessing(k)) - 1
        /\ Cardinality(Guessing(k)') <= Cardinality(Workers) - 1
    BY <2>1, <2>2, <2>3, <1>t, CallLeaves
  <2>5. ASSUME attempts'[k] >= MaxAttempts
        PROVE  attempts'[k] + Cardinality(Guessing(k)') <= MaxAttempts + Cardinality(Workers) - 1
    <3>1. attempts'[k] = attempts[k] + 1 /\ attempts[k] \in Nat
      BY <2>1, <1>t
    <3>2. CASE attempts[k] >= MaxAttempts
      BY <3>1, <3>2, <2>1, <2>4, <1>c, <1>t DEF AttemptsInv
    <3>3. CASE ~(attempts[k] >= MaxAttempts)
      <4>1. attempts'[k] = MaxAttempts
        BY <3>1, <3>3, <2>5, <1>t
      <4>2. QED BY <4>1, <2>1, <2>4, <1>c, <1>t
    <3>4. QED BY <3>2, <3>3
  <2>6. ASSUME NEW c \in Codes, c # k
        PROVE  attempts'[c] >= MaxAttempts =>
                 attempts'[c] + Cardinality(Guessing(c)') <= MaxAttempts + Cardinality(Workers) - 1
    <3>1. attempts'[c] = attempts[c]
      BY <2>1, <2>6, <1>t
    <3>2. QED BY <3>1, <2>1, <1>1, <1>3
  <2>7. QED BY <2>5, <2>6, <2>1, <1>2 DEF AttemptsInv
<1>6. ASSUME NEW w \in Workers, Moves(w), ~Increment(w) PROVE AttemptsInv'
  <2>1. attempts' = attempts
    BY <1>6 DEF Moves, BeginGenerate, Invalidate, Create, BeginVerify, Find, Check, MarkUsed, Answer, Fail, rows
  <2>2. \A c \in Codes : attempts[c] >= MaxAttempts => Guessing(c)' \subseteq Guessing(c)
    BY <1>6, <1>3, <1>4
  <2>3. QED BY <1>6, <2>1, <2>2, <1>1, <1>2 DEF AttemptsInv
<1>7. ASSUME (\E c \in Codes : Expire(c)) \/ UNCHANGED vars PROVE AttemptsInv'
  BY <1>7, QuietStep DEF AttemptsInv, Guessing, At
<1>8. QED BY <1>5, <1>6, <1>7, NextCases

-----------------------------------------------------------------------------
(* One acceptance per overlapping call.                                    *)

LEMMA AcceptancesStep ==
  ASSUME CodesAssumption, TypeOK, AcceptancesInv, [Next]_vars
  PROVE  AcceptancesInv'
<1>t. /\ 1..stored \subseteq Codes /\ used \subseteq 1..stored
      /\ accepted \in [Codes -> Nat] /\ Cardinality(Workers) \in Nat
      /\ \A c \in Codes : Accepting(c) \subseteq Workers /\ Accepting(c)' \subseteq Workers
      /\ \A w \in Workers : call[w].pc \in HoldsCode => call[w].code \in 1..stored
  BY CallsCounted DEF TypeOK, Codes, CodesAssumption, Accepting
<1>c. \A c \in Codes : /\ Cardinality(Accepting(c)) \in Nat /\ Cardinality(Accepting(c)') \in Nat
                       /\ Cardinality(Accepting(c)') <= Cardinality(Workers)
  BY <1>t, CallsCounted
<1>1. ASSUME NEW w \in Workers, Moves(w), ~Find(w), NEW c \in Codes
      PROVE  Accepting(c)' \subseteq Accepting(c)
  BY <1>1, MoveShape DEF Accepting
\* A used code, when no call that might accept it is added.
<1>2. ASSUME NEW c \in Codes, c \in used, accepted'[c] = accepted[c], Accepting(c)' \subseteq Accepting(c)
      PROVE  accepted'[c] + Cardinality(Accepting(c)') <= Cardinality(Workers)
  <2>1. Cardinality(Accepting(c)') <= Cardinality(Accepting(c))
    BY <1>2, <1>t, CallsShrink
  <2>2. accepted[c] + Cardinality(Accepting(c)) <= Cardinality(Workers)
    BY <1>2 DEF AcceptancesInv
  <2>3. QED BY <2>1, <2>2, <1>2, <1>c, <1>t
\* A code that becomes used: no call has accepted it yet.
<1>3. ASSUME NEW c \in Codes, c \notin used, accepted'[c] = accepted[c]
      PROVE  accepted'[c] + Cardinality(Accepting(c)') <= Cardinality(Workers)
  <2>1. accepted'[c] = 0
    BY <1>3 DEF AcceptancesInv
  <2>2. QED BY <2>1, <1>c, <1>t
<1>4. ASSUME NEW w \in Workers, Moves(w), NEW c \in Codes, c \notin used'
      PROVE  \A v \in Workers : ~(At(v, "answer")' /\ call'[v].code = c)
  <2>1. used \subseteq used'
    BY <1>4, <1>t DEF Moves, BeginGenerate, Invalidate, Create, BeginVerify, Find, Check,
                      Increment, MarkUsed, Answer, Fail, rows
  <2>2. ~(At(w, "answer")' /\ call'[w].code = c)
    BY <1>4, MoveShape DEF MarkUsed, At
  <2>3. \A v \in Workers \ {w} : ~(At(v, "answer")' /\ call'[v].code = c)
    BY <1>4, <2>1, MoveShape DEF At, AcceptancesInv
  <2>4. QED BY <2>2, <2>3
<1>5. ASSUME NEW w \in Workers, Find(w) PROVE AcceptancesInv'
  <2>1. Moves(w) /\ used' = used /\ accepted' = accepted
    BY <1>5 DEF Moves, Find, rows
  <2>2. ASSUME NEW c \in Codes, c \in used PROVE Accepting(c)' \subseteq Accepting(c)
    <3>1. w \notin Accepting(c)'
      <4> DEFINE read == [call[w] EXCEPT !.pc = "check", !.code = Max(Active),
                                         !.attempts = attempts[Max(Active)]]
      <4>1. read.code = Max(Active)
        BY DEF TypeOK, Call
      <4>2. Advance(w, NoCall) \/ (Active # {} /\ Advance(w, read))
        <5>1. CASE Active = {}
          BY <5>1, <1>5 DEF Find
        <5>2. CASE Active # {}
          BY <5>2, <1>5 DEF Find
        <5>3. QED BY <5>1, <5>2
      <4> HIDE DEF read
      <4>3. CASE Advance(w, NoCall)
        BY <4>3, AdvanceEffect DEF Accepting, NoCall
      <4>4. CASE Active # {} /\ Advance(w, read)
        <5>1. Max(Active) \notin used
          BY <4>4, NewestActive DEF Active
        <5>2. call'[w].code # c
          BY <5>1, <4>1, <4>4, <2>2, AdvanceEffect
        <5>3. QED BY <5>2 DEF Accepting
      <4>5. QED BY <4>2, <4>3, <4>4
    <3>2. QED BY <3>1, <2>1, MoveShape DEF Accepting
  <2>3. QED BY <2>1, <2>2, <1>2, <1>4 DEF AcceptancesInv
<1>6. ASSUME NEW w \in Workers, Answer(w) PROVE AcceptancesInv'
  <2>0. call[w].code \in Codes
    BY <1>6, <1>t DEF Answer, At, HoldsCode
  <2> PICK k \in Codes : k = call[w].code
    BY <2>0
  <2>1. /\ Moves(w) /\ ~Find(w) /\ call[w].pc = "answer" /\ used' = used
        /\ accepted' = [accepted EXCEPT ![k] = accepted[k] + 1]
    BY <1>6 DEF Moves, Answer, Find, At, rows
  <2>2. k \in used
    BY <2>1 DEF AcceptancesInv, At
  <2>3. w \in Accepting(k) /\ w \notin Accepting(k)'
    <3>1. call'[w].pc = "idle"
      BY <1>6, AdvanceEffect DEF Answer, NoCall
    <3>2. QED BY <3>1, <2>1 DEF Accepting
  <2>4. Cardinality(Accepting(k)') <= Cardinality(Accepting(k)) - 1
    <3>1. Accepting(k)' \in SUBSET (Accepting(k) \ {w})
      BY <2>1, <2>3, <1>1
    <3>2. QED BY <3>1, <2>3, <1>t, CallLeaves
  <2>5. accepted'[k] + Cardinality(Accepting(k)') <= Cardinality(Workers)
    <3>1. accepted'[k] = accepted[k] + 1 /\ accepted[k] \in Nat
      BY <2>1, <1>t
    <3>2. accepted[k] + Cardinality(Accepting(k)) <= Cardinality(Workers)
      BY <2>2 DEF AcceptancesInv
    <3>3. QED BY <3>1, <3>2, <2>4, <1>c, <1>t
  <2>6. ASSUME NEW c \in Codes, c # k
        PROVE  /\ accepted'[c] = accepted[c]
               /\ c \in used' => accepted'[c] + Cardinality(Accepting(c)') <= Cardinality(Workers)
               /\ c \notin used' => accepted'[c] = 0
    <3>1. accepted'[c] = accepted[c]
      BY <2>1, <2>6, <1>t
    <3>2. QED BY <3>1, <2>1, <1>1, <1>2 DEF AcceptancesInv
  <2>7. QED BY <2>1, <2>2, <2>5, <2>6, <1>4 DEF AcceptancesInv
<1>7. ASSUME NEW w \in Workers, Moves(w), ~Find(w), ~Answer(w) PROVE AcceptancesInv'
  <2>1. accepted' = accepted /\ used \subseteq used'
    BY <1>7, <1>t DEF Moves, BeginGenerate, Invalidate, Create, BeginVerify, Check,
                      Increment, MarkUsed, Fail, rows
  <2>2. ASSUME NEW c \in Codes PROVE accepted'[c] + Cardinality(Accepting(c)') <= Cardinality(Workers)
    BY <2>1, <1>7, <1>1, <1>2, <1>3
  <2>3. ASSUME NEW c \in Codes, c \notin used' PROVE accepted'[c] = 0
    BY <2>1, <2>3 DEF AcceptancesInv
  <2>4. QED BY <2>2, <2>3, <1>4, <1>7 DEF AcceptancesInv
<1>8. ASSUME (\E c \in Codes : Expire(c)) \/ UNCHANGED vars PROVE AcceptancesInv'
  BY <1>8, QuietStep DEF AcceptancesInv, Accepting, At
<1>9. QED BY <1>5, <1>6, <1>7, <1>8, NextCases

-----------------------------------------------------------------------------
(* A code that was over when the call began is not accepted.               *)

\* Nothing brings a used, expired or exhausted code back.
LEMMA DeadStaysDead ==
  ASSUME CodesAssumption, TypeOK, [Next]_vars
  PROVE  Dead \subseteq Dead'
<1>t. /\ stored \in Nat /\ used \subseteq 1..stored /\ attempts \in [Codes -> Nat]
      /\ MaxAttempts \in Nat /\ 1..stored \subseteq Codes
  BY DEF TypeOK, CodesAssumption, Codes
<1>1. /\ used \subseteq used' /\ expired \subseteq expired' /\ stored' \in {stored, stored + 1}
      /\ \/ attempts' = attempts
         \/ \E w \in Workers : attempts' = [attempts EXCEPT ![call[w].code] = attempts[call[w].code] + 1]
  <2>1. CASE \E w \in Workers : Moves(w)
    BY <2>1, <1>t DEF Moves, BeginGenerate, Invalidate, Create, BeginVerify, Find, Check,
                      Increment, MarkUsed, Answer, Fail, rows
  <2>2. CASE (\E c \in Codes : Expire(c)) \/ UNCHANGED vars
    BY <2>2 DEF Expire, vars, rows
  <2>3. QED BY <2>1, <2>2, NextCases
<1>2. \A c \in Codes : attempts'[c] \in Nat /\ attempts[c] <= attempts'[c]
  BY <1>1, <1>t
<1>3. Exhausted \subseteq Exhausted'
  BY <1>1, <1>2, <1>t DEF Exhausted
<1>4. QED BY <1>1, <1>3 DEF Dead

LEMMA LateStep ==
  ASSUME CodesAssumption, TypeOK, LateInv, [Next]_vars
  PROVE  LateInv'
<1> DEFINE Fine(c, dead) ==
      /\ c.late \subseteq {c.guess}
      /\ c.pc = "find" => c.late \subseteq dead
      /\ c.pc = "check" /\ c.code \in c.late => TooMany(c.attempts)
      /\ c.pc = "mark" \/ c.pc = "answer" => c.late = {}
<1>t. /\ \A w \in Workers : call[w] \in Call
      /\ \A w \in Workers : Fine(call[w], Dead)
  BY DEF TypeOK, LateInv, At
<1>d. Dead \subseteq Dead'
  BY DeadStaysDead
<1>s. SUFFICES \A w \in Workers : Fine(call'[w], Dead')
  BY DEF LateInv, At, TooMany
<1>n. Fine(NoCall, Dead')
  BY DEF NoCall
<1>1. ASSUME NEW w \in Workers, Moves(w), NEW c, Advance(w, c), Fine(c, Dead')
      PROVE  \A v \in Workers : Fine(call'[v], Dead')
  <2>1. \A v \in Workers \ {w} : call'[v] = call[v]
    BY <1>1, AdvanceEffect
  <2>2. call'[w] = c
    BY <1>1, AdvanceEffect
  <2>3. \A v \in Workers \ {w} : Fine(call'[v], Dead')
    BY <2>1, <1>t, <1>d
  <2>4. QED BY <2>2, <2>3, <1>1
<1>2. ASSUME NEW w \in Workers, Moves(w) PROVE \E c : Advance(w, c) /\ Fine(c, Dead')
  <2>1. CASE Create(w) \/ Increment(w) \/ Answer(w) \/ Fail(w)
    BY <2>1, <1>n DEF Create, Increment, Answer, Fail
  <2>2. CASE BeginGenerate(w)
    <3>1. Fine([NoCall EXCEPT !.pc = "invalidate"], Dead')
      BY DEF NoCall
    <3>2. QED BY <3>1, <2>2 DEF BeginGenerate
  <2>3. CASE Invalidate(w)
    <3>1. Fine([call[w] EXCEPT !.pc = "create"], Dead')
      BY <1>t DEF Call
    <3>2. QED BY <3>1, <2>3 DEF Invalidate
  <2>4. CASE \E guess \in 1..stored \cup {Wrong} : BeginVerify(w, guess)
    <3>1. PICK guess \in 1..stored \cup {Wrong} : BeginVerify(w, guess)
      BY <2>4
    <3> DEFINE c == [NoCall EXCEPT !.pc = "find", !.guess = guess, !.late = {guess} \cap Dead]
    <3>2. Advance(w, c)
      BY <3>1 DEF BeginVerify, Dead
    <3>3. Fine(c, Dead')
      BY <1>d DEF NoCall
    <3>4. QED BY <3>2, <3>3
  <2>5. CASE Find(w)
    <3>1. CASE Active = {}
      BY <3>1, <2>5, <1>n DEF Find
    <3>2. CASE Active # {}
      <4> DEFINE c == [call[w] EXCEPT !.pc = "check", !.code = Max(Active),
                                      !.attempts = attempts[Max(Active)]]
      <4>1. /\ c.late = call[w].late /\ c.guess = call[w].guess /\ c.pc = "check"
            /\ c.code = Max(Active) /\ c.attempts = attempts[Max(Active)]
        BY <1>t DEF Call
      <4>2. Advance(w, c) /\ call[w].pc = "find"
        BY <3>2, <2>5 DEF Find, At
      <4>3. Max(Active) \in Dead => TooMany(attempts[Max(Active)])
        BY <3>2, NewestActive DEF Active, Dead, Exhausted, TooMany
      <4> HIDE DEF c
      <4>4. Fine(c, Dead')
        BY <4>1, <4>2, <4>3, <1>t
      <4>5. QED BY <4>2, <4>4
    <3>3. QED BY <3>1, <3>2
  <2>6. CASE Check(w)
    <3> DEFINE right == [call[w] EXCEPT !.pc = "mark", !.attempts = 0]
               wrong == [call[w] EXCEPT !.pc = "increment", !.guess = Wrong, !.late = {}]
    <3>1. Fine(wrong, Dead')
      BY <1>t DEF Call
    <3>2. call[w].guess = call[w].code /\ ~TooMany(call[w].attempts) => Fine(right, Dead')
      <4>1. /\ right.pc = "mark" /\ right.late = call[w].late /\ right.guess = call[w].guess
        BY <1>t DEF Call
      <4>2. call[w].pc = "check"
        BY <2>6 DEF Check, At
      <4> HIDE DEF right
      <4>3. call[w].guess = call[w].code /\ ~TooMany(call[w].attempts) => call[w].late = {}
        BY <4>2, <1>t
      <4>4. QED BY <4>1, <4>3
    <3>3. \/ Advance(w, NoCall)
          \/ /\ ~TooMany(call[w].attempts)
             /\ Advance(w, IF call[w].guess = call[w].code THEN right ELSE wrong)
      BY <2>6 DEF Check
    <3> HIDE DEF right, wrong, Fine
    <3>4. QED BY <3>1, <3>2, <3>3, <1>n
  <2>7. CASE MarkUsed(w)
    <3> DEFINE c == [call[w] EXCEPT !.pc = "answer"]
    <3>1. c.pc = "answer" /\ c.late = call[w].late /\ c.guess = call[w].guess
      BY <1>t DEF Call
    <3>2. Advance(w, c) /\ call[w].pc = "mark"
      BY <2>7 DEF MarkUsed, At
    <3> HIDE DEF c
    <3>3. Fine(c, Dead')
      BY <3>1, <3>2, <1>t
    <3>4. QED BY <3>2, <3>3
  <2>8. QED BY <1>2, <2>1, <2>2, <2>3, <2>4, <2>5, <2>6, <2>7 DEF Moves
<1>3. CASE \E w \in Workers : Moves(w)
  <2>1. PICK w \in Workers : Moves(w)
    BY <1>3
  <2>2. PICK c : Advance(w, c) /\ Fine(c, Dead')
    BY <2>1, <1>2
  <2> HIDE DEF Fine
  <2>3. QED BY <2>1, <2>2, <1>1
<1>4. CASE (\E c \in Codes : Expire(c)) \/ UNCHANGED vars
  BY <1>4, <1>t, <1>d, QuietStep
<1>5. QED BY <1>3, <1>4, NextCases

-----------------------------------------------------------------------------
(* The theorems.                                                           *)

LEMMA InitEstablishes ==
  ASSUME CodesAssumption, Init
  PROVE  IInv
<1>1. TypeOK
  <2>1. NoCall \in Call /\ NoCall.pc \notin HoldsCode
    BY DEF NoCall, Call, HoldsCode, Wrong
  <2>2. QED BY <2>1 DEF Init, TypeOK, CodesAssumption
<1>2. \A w \in Workers : call[w].pc = "idle" /\ call[w].late = {}
  BY DEF Init, NoCall
<1>3. AttemptsInv
  BY <1>2 DEF Init, AttemptsInv, At, CodesAssumption
<1>4. AcceptancesInv
  BY <1>2 DEF Init, AcceptancesInv, At
<1>5. UnusedInv
  <2>1. Unused = {} /\ Generating = {}
    BY <1>2 DEF Init, Unused, Generating
  <2>2. Cardinality(Unused) = 0 /\ Cardinality(Generating) = 0 /\ Cardinality(Workers) \in Nat
    BY <2>1, FS_EmptySet, CallsCounted
  <2>3. QED BY <2>2 DEF UnusedInv
<1>6. LateInv
  BY <1>2 DEF LateInv, At
<1>7. QED BY <1>1, <1>3, <1>4, <1>5, <1>6 DEF IInv

\* The columns are well typed, and each bound holds with the calls on their way counted in.
THEOREM CodesInductive == Spec => []IInv
<1>1. Init => IInv
  BY InitEstablishes, CodesAssumption
<1>2. IInv /\ [Next]_vars => IInv'
  BY TypeStep, AttemptsStep, AcceptancesStep, UnusedStep, LateStep, CodesAssumption DEF IInv
<1>3. QED BY <1>1, <1>2, PTL DEF Spec

\* Rows of otp_codes and calls of the service hold values of their columns.
THEOREM CodesTyped == Spec => []TypeOK
<1>1. IInv => TypeOK
  BY DEF IInv
<1>2. QED BY <1>1, CodesInductive, PTL

\* OtpService.verify: the attempts counted on a code pass maxAttempts only by the
\* other calls served at the same time.
THEOREM AttemptsLimit == Spec => []AttemptsBounded
<1>1. IInv => AttemptsBounded
  <2>1. SUFFICES ASSUME IInv, NEW c \in Codes
                 PROVE  attempts[c] <= MaxAttempts + Cardinality(Workers) - 1
    BY DEF AttemptsBounded
  <2>2. /\ attempts[c] \in Nat /\ MaxAttempts \in Nat
        /\ Cardinality(Guessing(c)) \in Nat /\ Cardinality(Workers) \in Nat
    BY <2>1, CallsCounted, CodesAssumption DEF IInv, TypeOK, CodesAssumption, Guessing
  <2>3. Cardinality(Workers) # 0
    BY FS_EmptySet, CodesAssumption DEF CodesAssumption
  <2>4. CASE attempts[c] >= MaxAttempts
    BY <2>1, <2>2, <2>4 DEF IInv, AttemptsInv
  <2>5. CASE ~(attempts[c] >= MaxAttempts)
    BY <2>2, <2>3, <2>5
  <2>6. QED BY <2>4, <2>5
<1>2. QED BY <1>1, CodesInductive, PTL

\* OtpService.verify: a code answers with success at most once per call served at the
\* same time, and only once it is marked used.
THEOREM AcceptancesLimit == Spec => []AcceptancesBounded
<1>1. IInv => AcceptancesBounded
  <2>1. SUFFICES ASSUME IInv, NEW c \in Codes
                 PROVE  accepted[c] <= Cardinality(Workers) /\ (accepted[c] > 0 => c \in used)
    BY DEF AcceptancesBounded
  <2>2. /\ accepted[c] \in Nat /\ Cardinality(Accepting(c)) \in Nat /\ Cardinality(Workers) \in Nat
    BY <2>1, CallsCounted, CodesAssumption DEF IInv, TypeOK, Accepting
  <2>3. QED BY <2>1, <2>2 DEF IInv, AcceptancesInv
<1>2. QED BY <1>1, CodesInductive, PTL

\* OtpService.generate: no more codes are usable at a time than calls are served.
THEOREM UsableLimit == Spec => []UnusedBounded
<1>1. IInv => UnusedBounded
  <2>1. SUFFICES ASSUME IInv PROVE UnusedBounded
    OBVIOUS
  <2>2. Unused \subseteq Codes /\ Generating \subseteq Workers
    BY <2>1, CodesAssumption DEF IInv, TypeOK, Unused, Generating, Codes, CodesAssumption
  <2>3. /\ Cardinality(Unused) \in Nat /\ Cardinality(Generating) \in Nat
        /\ Cardinality(Workers) \in Nat
    BY <2>2, CodesCounted, CallsCounted, CodesAssumption
  <2>4. QED BY <2>1, <2>3 DEF IInv, UnusedInv, UnusedBounded
<1>2. QED BY <1>1, CodesInductive, PTL

\* OtpService.verify: no call accepts a code that was over when it began.
THEOREM LateRefused == Spec => LateCodesRefused
<1>1. IInv /\ [Next]_vars => [\A w \in Workers : Answer(w) => call[w].late = {}]_vars
  BY DEF IInv, LateInv, Answer, At
<1>2. QED BY <1>1, CodesInductive, PTL DEF Spec, LateCodesRefused
=============================================================================
