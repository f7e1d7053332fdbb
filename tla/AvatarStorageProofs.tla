------------------------- MODULE AvatarStorageProofs -------------------------
(***************************************************************************)
(* Proofs about AvatarStorage, for any number of workers and of uploads.   *)
(* AvatarExists and NoOrphans are not inductive: that the profile's object *)
(* exists depends on which requests hold which keys.  A new key is held by *)
(* one request only until the profile refers to it, and a key about to be  *)
(* deleted is not the profile's, unless it is in doubt.                    *)
(***************************************************************************)
EXTENDS AvatarStorage, TLAPS

New(w) == At(w, "put") \/ At(w, "replace")

\* A key that is being uploaded is nobody else's, and has its object just from Put on.
NewKeysInv ==
  \A w \in Workers :
    /\ New(w) => request[w].key # avatar
    /\ New(w) => \A v \in Workers \ {w} : request[v].key # request[w].key
    /\ At(w, "put") => request[w].key \notin objects
    /\ At(w, "replace") => request[w].key \in objects

\* Nobody is about to delete the profile's object.
DeletesInv ==
  \A w \in Workers : At(w, "delete") /\ request[w].key = avatar => avatar \in doubtful

IInv == TypeOK /\ AvatarExists /\ NoOrphans /\ NewKeysInv /\ DeletesInv

LEMMA InitInv == ASSUME AvatarAssumption, Init PROVE IInv
BY DEF AvatarAssumption, Init, IInv, TypeOK, AvatarExists, NoOrphans, NewKeysInv, DeletesInv,
       NoRequest, New, At, NoKey

LEMMA TypeStep == ASSUME AvatarAssumption, TypeOK, [Next]_vars PROVE TypeOK'
<1>1. CASE UNCHANGED vars
  BY <1>1 DEF TypeOK, vars
<1>2. ASSUME NEW w \in Workers,
             \/ BeginUpload(w) \/ Put(w) \/ PutFails(w) \/ ReplaceAvatar(w) \/ ReplaceFails(w)
      PROVE  TypeOK'
  BY <1>2 DEF TypeOK, AvatarAssumption, BeginUpload, Put, PutFails, ReplaceAvatar, ReplaceFails,
       GoOnToDelete, End, Step, At, NoKey
<1>3. ASSUME NEW w \in Workers,
             \/ BeginRemove(w) \/ RemoveAvatar(w) \/ RemoveFails(w)
             \/ SafeDeleteStorageObject(w) \/ DeleteFails(w) \/ Crash(w)
      PROVE  TypeOK'
  BY <1>3 DEF TypeOK, BeginRemove, RemoveAvatar, RemoveFails, SafeDeleteStorageObject,
       DeleteFails, Crash, GoOnToDelete, End, Step, At, NoKey
<1>4. QED BY <1>1, <1>2, <1>3 DEF Next

\* The ownership of keys is preserved by every step.
LEMMA KeysStep ==
  ASSUME AvatarAssumption, IInv, NEW w \in Workers, TypeOK',
         \/ BeginUpload(w) \/ Put(w) \/ PutFails(w) \/ ReplaceAvatar(w) \/ ReplaceFails(w)
         \/ BeginRemove(w) \/ RemoveAvatar(w) \/ RemoveFails(w)
         \/ SafeDeleteStorageObject(w) \/ DeleteFails(w) \/ Crash(w)
  PROVE  NewKeysInv' /\ DeletesInv'
<1> USE DEF IInv, TypeOK, NewKeysInv, DeletesInv, New, At, NoKey, End, Step
<1>1. CASE BeginUpload(w)
  BY <1>1 DEF BeginUpload
<1>2. CASE Put(w)
  BY <1>2 DEF Put
<1>3. CASE PutFails(w)
  BY <1>3 DEF PutFails
<1>4. CASE ReplaceAvatar(w)
  BY <1>4 DEF ReplaceAvatar, GoOnToDelete
<1>5. CASE ReplaceFails(w)
  BY <1>5 DEF ReplaceFails
<1>6. CASE BeginRemove(w) \/ RemoveAvatar(w) \/ RemoveFails(w)
  BY <1>6 DEF BeginRemove, RemoveAvatar, RemoveFails, GoOnToDelete
<1>7. CASE SafeDeleteStorageObject(w)
  BY <1>7 DEF SafeDeleteStorageObject
<1>8. CASE DeleteFails(w) \/ Crash(w)
  BY <1>8 DEF DeleteFails, Crash
<1>9. QED BY <1>1, <1>2, <1>3, <1>4, <1>5, <1>6, <1>7, <1>8

\* The profile keeps its object.
LEMMA ExistsStep ==
  ASSUME IInv, NEW w \in Workers,
         \/ BeginUpload(w) \/ Put(w) \/ PutFails(w) \/ ReplaceAvatar(w) \/ ReplaceFails(w)
         \/ BeginRemove(w) \/ RemoveAvatar(w) \/ RemoveFails(w)
         \/ SafeDeleteStorageObject(w) \/ DeleteFails(w) \/ Crash(w)
  PROVE  AvatarExists'
BY DEF IInv, AvatarExists, NewKeysInv, DeletesInv, At,
       BeginUpload, Put, PutFails, ReplaceAvatar, ReplaceFails, BeginRemove, RemoveAvatar,
       RemoveFails, SafeDeleteStorageObject, DeleteFails, Crash

\* Every object stays accounted for.
LEMMA OrphansStep ==
  ASSUME AvatarAssumption, IInv, NEW w \in Workers, TypeOK',
         \/ BeginUpload(w) \/ Put(w) \/ PutFails(w) \/ ReplaceAvatar(w) \/ ReplaceFails(w)
         \/ BeginRemove(w) \/ RemoveAvatar(w) \/ RemoveFails(w)
         \/ SafeDeleteStorageObject(w) \/ DeleteFails(w) \/ Crash(w)
  PROVE  NoOrphans'
<1> USE DEF IInv, TypeOK, NoOrphans, At, NoKey, End, Step
<1>1. CASE BeginUpload(w)
  BY <1>1 DEF BeginUpload
<1>p. CASE Put(w)
  BY <1>p DEF Put
<1>f. CASE PutFails(w)
  BY <1>f DEF PutFails, NewKeysInv
<1>2. CASE ReplaceAvatar(w)
  BY <1>2 DEF ReplaceAvatar, GoOnToDelete
<1>3. CASE ReplaceFails(w)
  BY <1>3 DEF ReplaceFails
<1>4. CASE BeginRemove(w) \/ RemoveAvatar(w) \/ RemoveFails(w)
  BY <1>4 DEF BeginRemove, RemoveAvatar, RemoveFails, GoOnToDelete
<1>5. CASE SafeDeleteStorageObject(w) \/ DeleteFails(w) \/ Crash(w)
  BY <1>5 DEF SafeDeleteStorageObject, DeleteFails, Crash
<1>6. QED BY <1>1, <1>p, <1>f, <1>2, <1>3, <1>4, <1>5

LEMMA StepInv == ASSUME AvatarAssumption, IInv, [Next]_vars PROVE IInv'
<1>1. TypeOK'
  BY TypeStep DEF IInv
<1>2. CASE UNCHANGED vars
  BY <1>1, <1>2 DEF IInv, vars, AvatarExists, NoOrphans, NewKeysInv, DeletesInv, New, At
<1>3. CASE Next
  <2>1. PICK w \in Workers :
          \/ BeginUpload(w) \/ Put(w) \/ PutFails(w) \/ ReplaceAvatar(w) \/ ReplaceFails(w)
          \/ BeginRemove(w) \/ RemoveAvatar(w) \/ RemoveFails(w)
          \/ SafeDeleteStorageObject(w) \/ DeleteFails(w) \/ Crash(w)
    BY <1>3 DEF Next
  <2>2. NewKeysInv' /\ DeletesInv'
    BY <1>1, <2>1, KeysStep
  <2>3. AvatarExists'
    BY <2>1, ExistsStep
  <2>4. NoOrphans'
    BY <1>1, <2>1, OrphansStep
  <2>5. QED BY <1>1, <2>2, <2>3, <2>4 DEF IInv
<1>4. QED BY <1>2, <1>3

\* The inductive invariant: the properties, and who holds which key.
THEOREM AvatarInductive == ASSUME AvatarAssumption PROVE Spec => []IInv
<1>1. Init => IInv
  BY InitInv
<1>2. IInv /\ [Next]_vars => IInv'
  BY StepInv
<1>3. QED BY <1>1, <1>2, PTL DEF Spec

\* Keys, requests and the profile stay well typed.
THEOREM AvatarTyped == ASSUME AvatarAssumption PROVE Spec => []TypeOK
<1>1. IInv => TypeOK
  BY DEF IInv
<1>2. QED BY <1>1, AvatarInductive, PTL

\* However many uploads and removals overlap, the profile's object exists, but for
\* transactions that reported a failure after they had committed.
THEOREM ProfileObjectExists == ASSUME AvatarAssumption PROVE Spec => []AvatarExists
<1>1. IInv => AvatarExists
  BY DEF IInv
<1>2. QED BY <1>1, AvatarInductive, PTL

\* However they overlap, only a failure or a crash leaves an object behind.
THEOREM ObjectsAccountedFor == ASSUME AvatarAssumption PROVE Spec => []NoOrphans
<1>1. IInv => NoOrphans
  BY DEF IInv
<1>2. QED BY <1>1, AvatarInductive, PTL
=============================================================================
