------------------------------- MODULE Bucket -------------------------------
(***************************************************************************)
(* The media bucket of MinIO as the tools of the repository use it: an     *)
(* object is written, read and removed by key, and an inventory            *)
(* (capture_object_inventory of minio_strict.py) lists the keys and then   *)
(* reads the objects one by one, while other programs write.               *)
(*                                                                         *)
(* The bucket has no versions, so an ETag tells no more than the content.  *)
(* The reads of one object by an inventory (stat, and get when its         *)
(* metadata carries no hashes) are one step: a record mixed from two       *)
(* objects has a hash or an ETag that belongs to neither.                  *)
(***************************************************************************)
EXTENDS Naturals, FiniteSetsExt

CONSTANTS
    MediaKeys,     \* object keys, numbered in the order of their names
    Observers,     \* the tools for which changes are remembered
    Operations,    \* the operation ids an object may carry
    NoObject,
    MaxForeign,    \* bound of the steps of other programs (model checking only)
    MaxMediaFaults \* bound of kills and failures (model checking only)

VARIABLES
    bucket,      \* the object under each key
    changed,     \* per tool, the keys other programs changed since it looked (history)
    foreign,     \* steps of other programs so far
    mediaFaults  \* kills and failures so far

bucketVars == <<bucket, changed, foreign, mediaFaults>>

\* body tells whether the content is the one the manifests name.
MediaObject == [body : {"approved", "other"}, op : {"none"} \cup Operations]

ASSUME BucketAssumption ==
    /\ MediaKeys \subseteq Nat /\ IsFiniteSet(MediaKeys)
    /\ NoObject \notin MediaObject
    /\ "none" \notin Operations
    /\ MaxForeign \in Nat /\ MaxMediaFaults \in Nat

Stored(body) == [body |-> body, op |-> "none"]

Inventory == [todo : SUBSET MediaKeys, seen : [MediaKeys -> MediaObject \cup {NoObject}]]

NoInventory == [todo |-> {}, seen |-> [k \in MediaKeys |-> NoObject]]

Present == {k \in MediaKeys : bucket[k] # NoObject}

-----------------------------------------------------------------------------
\* Writes or removes the object under k on behalf of one tool.
Change(k, object, by) ==
    /\ bucket' = [bucket EXCEPT ![k] = object]
    /\ changed' = [o \in Observers |->
                     IF o = by THEN changed[o] ELSE changed[o] \cup {k}]

\* One listing of the bucket: the keys, whose objects are still to be read.
Listed == [NoInventory EXCEPT !.todo = Present]

NextListed(inv) == Min(inv.todo)

ReadObject(inv) ==
    LET k == NextListed(inv)
    IN [todo |-> inv.todo \ {k}, seen |-> [inv.seen EXCEPT ![k] = bucket[k]]]

BucketFault ==
    /\ mediaFaults < MaxMediaFaults
    /\ mediaFaults' = mediaFaults + 1

-----------------------------------------------------------------------------
\* Another program: an importer of media, an operator.
OtherWrites ==
    /\ foreign < MaxForeign
    /\ foreign' = foreign + 1
    /\ \E k \in MediaKeys, object \in {Stored("approved"), Stored("other"), NoObject} :
          /\ bucket[k] # object
          /\ Change(k, object, "nobody")
    /\ UNCHANGED mediaFaults

BucketInit ==
    /\ bucket \in [MediaKeys -> {Stored("approved"), NoObject}]
    /\ changed = [o \in Observers |-> {}]
    /\ foreign = 0
    /\ mediaFaults = 0

BucketTypeOK ==
    /\ bucket \in [MediaKeys -> MediaObject \cup {NoObject}]
    /\ changed \in [Observers -> SUBSET MediaKeys]
    /\ foreign \in 0 .. MaxForeign
    /\ mediaFaults \in 0 .. MaxMediaFaults
=============================================================================
