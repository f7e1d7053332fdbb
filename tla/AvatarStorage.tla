---------------------------- MODULE AvatarStorage ----------------------------
(***************************************************************************)
(* The avatar of one user: a reference on the profile row and objects in   *)
(* the public bucket, written one after the other by overlapping uploads   *)
(* and removals.  The profile is changed in SERIALIZABLE transactions, one *)
(* step each; the bucket is another system, and any call to either may     *)
(* fail, with or without having had its effect.                            *)
(***************************************************************************)
EXTENDS FiniteSetsExt

CONSTANTS
  Workers,  \* requests served at the same time
  MaxKeys   \* bound on the uploads ever begun

ASSUME AvatarAssumption == MaxKeys \in Nat

Keys  == 1..MaxKeys
NoKey == 0

VARIABLES
  objects,   \* keys present in the bucket
  avatar,    \* UserProfile.avatarStorageKey
  uploads,   \* keys handed out so far; each is a new UUID
  request,   \* worker -> the request it is serving
  doubtful,  \* keys whose transaction failed after it had committed
  leftover   \* keys nobody is going to delete, after a failure or a crash

vars == <<objects, avatar, uploads, request, doubtful, leftover>>

NoRequest == [pc |-> "idle", key |-> NoKey]

Init ==
  /\ objects = {} /\ avatar = NoKey /\ uploads = 0
  /\ request = [w \in Workers |-> NoRequest]
  /\ doubtful = {} /\ leftover = {}

At(w, pc) == request[w].pc = pc
Step(w, pc, key) == request' = [request EXCEPT ![w] = [pc |-> pc, key |-> key]]
End(w) == Step(w, "idle", NoKey)

\* The request goes on to delete key, when there is one.
GoOnToDelete(w, key) == IF key = NoKey THEN End(w) ELSE Step(w, "delete", key)

-----------------------------------------------------------------------------
(* uploadAvatar: the object, the profile, then the object it replaces.     *)

BeginUpload(w) ==
  /\ At(w, "idle")
  /\ uploads < MaxKeys
  /\ uploads' = uploads + 1
  /\ Step(w, "put", uploads')
  /\ UNCHANGED <<objects, avatar, doubtful, leftover>>

Put(w) ==
  /\ At(w, "put")
  /\ objects' = objects \cup {request[w].key}
  /\ Step(w, "replace", request[w].key)
  /\ UNCHANGED <<avatar, uploads, doubtful, leftover>>

\* The error leaves before the try: an object stored all the same stays there.
PutFails(w) ==
  /\ At(w, "put")
  /\ \/ UNCHANGED <<objects, leftover>>
     \/ /\ objects' = objects \cup {request[w].key}
        /\ leftover' = leftover \cup {request[w].key}
  /\ End(w)
  /\ UNCHANGED <<avatar, uploads, doubtful>>

\* Faulty variant: the transaction does not report what it replaced.
ReplaceSilently(w) ==
  /\ At(w, "replace")
  /\ avatar' = request[w].key
  /\ End(w)
  /\ UNCHANGED <<objects, uploads, doubtful, leftover>>

ReplaceAvatar(w) ==
  /\ At(w, "replace")
  /\ avatar' = request[w].key
  /\ GoOnToDelete(w, avatar)
  /\ UNCHANGED <<objects, uploads, doubtful, leftover>>

\* A serialization failure or a lost connection: the new object is deleted again,
\* even when the transaction had committed.  What it had replaced is then forgotten.
ReplaceFails(w) ==
  /\ At(w, "replace")
  /\ \/ UNCHANGED <<avatar, doubtful, leftover>>
     \/ /\ avatar' = request[w].key
        /\ doubtful' = doubtful \cup {request[w].key}
        /\ leftover' = leftover \cup ({avatar} \ {NoKey})
  /\ Step(w, "delete", request[w].key)
  /\ UNCHANGED <<objects, uploads>>

-----------------------------------------------------------------------------
(* removeAvatar: the profile, then the object.                             *)

BeginRemove(w) ==
  /\ At(w, "idle")
  /\ Step(w, "remove", NoKey)
  /\ UNCHANGED <<objects, avatar, uploads, doubtful, leftover>>

\* Faulty variant: the URL is cleared, the storage key is not.
RemoveUrlOnly(w) ==
  /\ At(w, "remove")
  /\ GoOnToDelete(w, avatar)
  /\ UNCHANGED <<objects, avatar, uploads, doubtful, leftover>>

RemoveAvatar(w) ==
  /\ At(w, "remove")
  /\ avatar' = NoKey
  /\ GoOnToDelete(w, avatar)
  /\ UNCHANGED <<objects, uploads, doubtful, leftover>>

RemoveFails(w) ==
  /\ At(w, "remove")
  /\ \/ UNCHANGED <<avatar, leftover>>
     \/ /\ avatar' = NoKey
        /\ leftover' = leftover \cup ({avatar} \ {NoKey})
  /\ End(w)
  /\ UNCHANGED <<objects, uploads, doubtful>>

-----------------------------------------------------------------------------
(* Deleting an object, and dying.                                          *)

SafeDeleteStorageObject(w) ==
  /\ At(w, "delete")
  /\ objects' = objects \ {request[w].key}
  /\ End(w)
  /\ UNCHANGED <<avatar, uploads, doubtful, leftover>>

\* The failure is only logged.
DeleteFails(w) ==
  /\ At(w, "delete")
  /\ leftover' = leftover \cup {request[w].key}
  /\ End(w)
  /\ UNCHANGED <<objects, avatar, uploads, doubtful>>

Crash(w) ==
  /\ ~At(w, "idle")
  /\ leftover' = leftover \cup ({request[w].key} \ {NoKey})
  /\ End(w)
  /\ UNCHANGED <<objects, avatar, uploads, doubtful>>

Next ==
  \E w \in Workers :
    \/ BeginUpload(w) \/ Put(w) \/ PutFails(w) \/ ReplaceAvatar(w) \/ ReplaceFails(w)
    \/ BeginRemove(w) \/ RemoveAvatar(w) \/ RemoveFails(w)
    \/ SafeDeleteStorageObject(w) \/ DeleteFails(w) \/ Crash(w)

Spec == Init /\ [][Next]_vars
-----------------------------------------------------------------------------
(* Properties.                                                             *)

\* Keys are handed out once and in order; only requests that upload or delete hold one.
TypeOK ==
  /\ uploads \in 0..MaxKeys
  /\ avatar \in 0..uploads
  /\ objects \cup doubtful \cup leftover \subseteq 1..uploads
  /\ request \in [Workers -> [pc : {"idle", "put", "replace", "remove", "delete"}, key : 0..uploads]]
  /\ \A w \in Workers : request[w].key = NoKey <=> request[w].pc \in {"idle", "remove"}

\* The profile refers to an object that exists, however requests overlap and fail,
\* unless a transaction reported a failure after it had committed.
AvatarExists == avatar # NoKey => avatar \in objects \/ avatar \in doubtful

\* Every object is the avatar, or some request is still busy with it, unless a call
\* failed or a request died: no interleaving by itself leaves an object behind.
NoOrphans ==
  \A k \in objects : k = avatar \/ k \in leftover \/ \E w \in Workers : request[w].key = k
=============================================================================
