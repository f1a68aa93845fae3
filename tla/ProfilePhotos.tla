---------------------------- MODULE ProfilePhotos ----------------------------
(***************************************************************************)
(* The photos of one member: the rows in PostgreSQL and the objects they   *)
(* refer to in S3 (profiles.service.ts, users.service.ts for the erasure,  *)
(* consolidate-profile-photos.ts for members with several photos from the  *)
(* time before there was one, and the backfill of missing variants).  The  *)
(* two stores change one after the other, a request may fail in between,   *)
(* and only the registration and the consolidation lock the member's row.     *)
(*                                                                         *)
(* The three variants of a photo are made and deleted together, so they    *)
(* are one object here.  The website registers each upload once, under a   *)
(* key of its own (createPhotoUpload), and the backfill runs one at a time.*)
(***************************************************************************)
EXTENDS Naturals, FiniteSets

CONSTANTS
    NewKey,     \* object keys of new uploads
    OldKey,     \* object keys of photos from before, numbered in their order
    Task,       \* requests and scripts in progress at a time
    MaxTasks,   \* bound on those begun
    None

ASSUME ProfilePhotosAssumption ==
    /\ None \notin NewKey \cup OldKey \cup Task
    /\ OldKey \subseteq Nat /\ NewKey \cap OldKey = {}
    /\ MaxTasks \in Nat

VARIABLES
    photos,     \* ProfilePhoto rows: id, objectKey, the key of their variants
    objects,    \* what S3 has: <<key, "original">>, <<key, "variants">>
    unused,     \* keys not yet uploaded under
    inRooms,    \* whether the member has RoomMembership rows
    erasing,    \* an erasure has begun to delete
    rowLock,    \* the transaction that holds the member's row
    task,       \* progress of each task
    tasks       \* tasks begun

photoVars == <<photos, objects, unused, inRooms, erasing, rowLock, task, tasks>>

\* seen: the rows a task has read.  of: its key or photo.  drop: objects it deletes last.
Rest == [pc |-> "none", of |-> None, seen |-> {}, drop |-> {}]

Original(k) == <<k, "original">>
Variants(k) == <<k, "variants">>
\* getPhotoObjectKeys
ObjectsOf(row) ==
    {Original(row.key)} \cup (IF row.variants = None THEN {} ELSE {Variants(row.variants)})
ObjectsOfAll(rs) == UNION {ObjectsOf(row) : row \in rs}
Ids(rs) == {row.id : row \in rs}
Without(rs, S) == {row \in rs : row.id \notin S}
\* The first in sortOrder: that of the photos from before; a new row is the only one.
First(rs) == CHOOSE row \in rs : \A other \in rs \ {row} : row.id < other.id
Additional(rs) == rs \ {First(rs)}

Photo(id, k, v) == [id |-> id, key |-> k, variants |-> v]

\* One photo, or several; the older ones may lack their variants.
PhotosInit ==
    /\ \E old \in SUBSET OldKey, bare \in SUBSET OldKey :
        photos = {Photo(k, k, IF k \in bare THEN None ELSE k) : k \in old}
    /\ objects = ObjectsOfAll(photos)
    /\ unused = NewKey
    /\ inRooms \in (IF photos = {} THEN {FALSE} ELSE BOOLEAN)
    /\ erasing = FALSE
    /\ rowLock = None
    /\ task = [t \in Task |-> Rest]
    /\ tasks = 0

TaskAt(t, pc) == task[t].pc = pc
Seen(t) == task[t].seen

TaskStarts(t, pc, of, seen) ==
    /\ task[t] = Rest /\ tasks < MaxTasks
    /\ tasks' = tasks + 1
    /\ task' = [task EXCEPT ![t] = [Rest EXCEPT !.pc = pc, !.of = of, !.seen = seen]]

TaskGoes(t, pc) == task' = [task EXCEPT ![t].pc = pc] /\ UNCHANGED tasks
Purge(t, D) == task' = [task EXCEPT ![t] = [Rest EXCEPT !.pc = "purge", !.drop = D]] /\ UNCHANGED tasks
TaskEnds(t) == task' = [task EXCEPT ![t] = Rest] /\ UNCHANGED tasks

\* A failed check, a fault or a crash: a transaction in progress rolls back.
Dies(t) ==
    /\ task[t] # Rest
    /\ TaskEnds(t)
    /\ rowLock' = IF rowLock = t THEN None ELSE rowLock
    /\ UNCHANGED <<photos, objects, unused, inRooms, erasing>>

\* deleteObjects: each object on its own, and a failure is not an error.
PurgeObjects(t) ==
    /\ TaskAt(t, "purge")
    /\ \E D \in SUBSET task[t].drop : objects' = objects \ D
    /\ TaskEnds(t)
    /\ UNCHANGED <<photos, unused, inRooms, erasing, rowLock>>

-----------------------------------------------------------------------------
(* registerPhoto *)

\* The browser has uploaded under the signed key; createOptimizedPhotoVariants.
Register(t, k) ==
    /\ k \in unused
    /\ TaskStarts(t, "register.read", k, {})
    /\ unused' = unused \ {k}
    /\ objects' = objects \cup {Original(k), Variants(k)}
    /\ UNCHANGED <<photos, inRooms, erasing, rowLock>>

RegisterRead(t) ==
    /\ TaskAt(t, "register.read") /\ rowLock = None
    /\ rowLock' = t
    /\ task' = [task EXCEPT ![t].pc = "register.commit", ![t].seen = photos]
    /\ UNCHANGED <<photos, objects, unused, inRooms, erasing, tasks>>

\* The first row gets the new photo and the others go; without a row there is a new one.
Registered(t) ==
    LET id == IF Seen(t) = {} THEN task[t].of ELSE First(Seen(t)).id
    IN {Photo(id, task[t].of, task[t].of)} \cup Without(photos, Ids(Seen(t)))
MayRegister(t) == Seen(t) # {} => First(Seen(t)).id \in Ids(photos)

\* The objects of the replaced rows go next.
RegisterCommit(t) ==
    /\ TaskAt(t, "register.commit") /\ MayRegister(t)
    /\ photos' = Registered(t)
    /\ rowLock' = None
    /\ Purge(t, ObjectsOfAll(Seen(t)) \ {Original(task[t].of), Variants(task[t].of)})
    /\ UNCHANGED <<objects, unused, inRooms, erasing>>

\* The transaction fails, or has committed when its answer is lost.
RegisterFails(t) ==
    /\ TaskAt(t, "register.commit")
    /\ photos' \in {photos} \cup (IF MayRegister(t) THEN {Registered(t)} ELSE {})
    /\ rowLock' = None
    /\ TaskGoes(t, "register.recover")
    /\ UNCHANGED <<objects, unused, inRooms, erasing>>

\* Mutant: the new objects go without a look at the rows.
RegisterRecover_Always(t) ==
    /\ TaskAt(t, "register.recover")
    /\ Purge(t, {Original(task[t].of), Variants(task[t].of)})
    /\ UNCHANGED <<photos, objects, unused, inRooms, erasing, rowLock>>

\* The new objects go if no row refers to them; a count that fails means one does.
RegisterRecover(t) ==
    LET new == {Original(task[t].of), Variants(task[t].of)}
    IN /\ TaskAt(t, "register.recover")
       /\ IF ObjectsOfAll(photos) \cap new = {} THEN Purge(t, new) ELSE TaskEnds(t)
       /\ UNCHANGED <<photos, objects, unused, inRooms, erasing, rowLock>>

-----------------------------------------------------------------------------
(* deletePhoto: no lock; the count and the object keys are from before. *)

Delete(t, row) ==
    /\ TaskStarts(t, "delete.count", row.id, {row})
    /\ UNCHANGED <<photos, objects, unused, inRooms, erasing, rowLock>>

DeleteCount(t) ==
    /\ TaskAt(t, "delete.count")
    /\ IF Cardinality(photos) > 1 THEN TaskGoes(t, "delete.row") ELSE TaskEnds(t)
    /\ UNCHANGED <<photos, objects, unused, inRooms, erasing, rowLock>>

DeleteRow(t) ==
    /\ TaskAt(t, "delete.row")
    /\ photos' = Without(photos, {task[t].of})
    /\ IF task[t].of \in Ids(photos) THEN TaskGoes(t, "delete.rooms") ELSE TaskEnds(t)
    /\ UNCHANGED <<objects, unused, inRooms, erasing, rowLock>>

\* removeRoomMembershipsIfProfileIncomplete
DeleteRooms(t) ==
    /\ TaskAt(t, "delete.rooms")
    /\ inRooms' = (inRooms /\ photos # {})
    /\ Purge(t, ObjectsOfAll(Seen(t)))
    /\ UNCHANGED <<photos, objects, unused, erasing, rowLock>>

(* joinRoom, and every use of a room, which ends the memberships of a member whose
   profile lost its photo. *)

JoinRoom(t) ==
    /\ photos # {}
    /\ TaskStarts(t, "join.write", None, {})
    /\ UNCHANGED <<photos, objects, unused, inRooms, erasing, rowLock>>

JoinWrite(t) ==
    /\ TaskAt(t, "join.write")
    /\ inRooms' = TRUE
    /\ TaskEnds(t)
    /\ UNCHANGED <<photos, objects, unused, erasing, rowLock>>

UseRoom ==
    /\ inRooms /\ photos = {}
    /\ inRooms' = FALSE
    /\ UNCHANGED <<photos, objects, unused, erasing, rowLock, task, tasks>>

-----------------------------------------------------------------------------
(* softDeleteAccount: the objects of the rows it has read, then all the rows. *)

Erase(t) ==
    /\ TaskStarts(t, "erase.objects", None, photos)
    /\ UNCHANGED <<photos, objects, unused, inRooms, erasing, rowLock>>

EraseObjects(t) ==
    /\ TaskAt(t, "erase.objects")
    /\ \E D \in SUBSET ObjectsOfAll(Seen(t)) : objects' = objects \ D
    /\ erasing' = TRUE
    /\ TaskGoes(t, "erase.rows")
    /\ UNCHANGED <<photos, unused, inRooms, rowLock>>

EraseRows(t) ==
    /\ TaskAt(t, "erase.rows")
    /\ photos' = {}
    /\ TaskEnds(t)
    /\ UNCHANGED <<objects, unused, inRooms, erasing, rowLock>>

(* backfillMissingPhotoVariants: made from the object of the row that was read, and
   written by the row's id. *)

Backfill(t, row) ==
    /\ row.variants = None /\ Original(row.key) \in objects
    /\ \A u \in Task : ~TaskAt(u, "backfill.write")
    /\ TaskStarts(t, "backfill.write", row.id, {row})
    /\ objects' = objects \cup {Variants(row.key)}
    /\ UNCHANGED <<photos, unused, inRooms, erasing, rowLock>>

BackfillWrite(t) ==
    /\ TaskAt(t, "backfill.write")
    /\ photos' = {IF row.id = task[t].of THEN [row EXCEPT !.variants = First(Seen(t)).key] ELSE row : row \in photos}
    /\ TaskEnds(t)
    /\ UNCHANGED <<objects, unused, inRooms, erasing, rowLock>>

-----------------------------------------------------------------------------
(* consolidate-profile-photos: a manifest, reviewed and then applied. *)

Manifest(t) ==
    /\ Cardinality(photos) > 1
    /\ TaskStarts(t, "apply", None, photos)
    /\ UNCHANGED <<photos, objects, unused, inRooms, erasing, rowLock>>

\* The kept photo is still the first, and the others are those of the plan, or gone.
PlanHolds(t) ==
    /\ photos # {} /\ First(photos).id = First(Seen(t)).id
    /\ Cardinality(photos) > 1 => Ids(Additional(photos)) = Ids(Additional(Seen(t)))

\* The transaction under the member's lock.  The objects of the rows it removed, or
\* of the plan when they had gone before, are deleted if nothing refers to them.
Apply(t) ==
    /\ TaskAt(t, "apply") /\ rowLock = None
    /\ IF PlanHolds(t)
       THEN LET removed == photos \ Without(photos, Ids(Additional(Seen(t))))
            IN /\ photos' = photos \ removed
               /\ task' = [task EXCEPT
                            ![t].pc = "unreferenced",
                            ![t].drop = ObjectsOfAll(IF removed = {} THEN Additional(Seen(t)) ELSE removed)]
               /\ UNCHANGED tasks
       ELSE TaskEnds(t) /\ UNCHANGED photos
    /\ UNCHANGED <<objects, unused, inRooms, erasing, rowLock>>

\* deleteUnreferencedObjects, again with --retry-manifest: the count, then the delete.
Unreferenced(t) ==
    /\ TaskAt(t, "unreferenced")
    /\ Purge(t, task[t].drop \ ObjectsOfAll(photos))
    /\ UNCHANGED <<photos, objects, unused, inRooms, erasing, rowLock>>

PhotosNext ==
    \/ UseRoom
    \/ \E t \in Task :
        \/ Dies(t) \/ PurgeObjects(t)
        \/ \E k \in NewKey : Register(t, k)
        \/ RegisterRead(t) \/ RegisterCommit(t) \/ RegisterFails(t) \/ RegisterRecover(t)
        \/ \E row \in photos : Delete(t, row) \/ Backfill(t, row)
        \/ DeleteCount(t) \/ DeleteRow(t) \/ DeleteRooms(t)
        \/ JoinRoom(t) \/ JoinWrite(t)
        \/ Erase(t) \/ EraseObjects(t) \/ EraseRows(t)
        \/ BackfillWrite(t)
        \/ Manifest(t) \/ Apply(t) \/ Unreferenced(t)

PhotosSpec == PhotosInit /\ [][PhotosNext]_photoVars

-----------------------------------------------------------------------------
(* Properties. *)

Name == NewKey \cup OldKey
Object == Name \X {"original", "variants"}
PhotoRow == [id : Name, key : Name, variants : Name \cup {None}]
TaskStep == {"none", "purge", "register.read", "register.commit", "register.recover", "delete.count",
         "delete.row", "delete.rooms", "join.write", "erase.objects", "erase.rows",
         "backfill.write", "apply", "unreferenced"}

PhotosTypeOK ==
    /\ photos \subseteq PhotoRow /\ \A p, q \in photos : p.id = q.id => p = q
    /\ objects \subseteq Object /\ unused \subseteq NewKey
    /\ inRooms \in BOOLEAN /\ erasing \in BOOLEAN
    /\ rowLock \in Task \cup {None}
    /\ task \in [Task -> [pc : TaskStep, of : Name \cup {None}, seen : SUBSET PhotoRow,
                          drop : SUBSET Object]]
    /\ tasks \in 0..MaxTasks

\* Every photo a profile shows is there: no row refers to an object that was deleted
\* by a replacement, a failed or half answered registration, a delete, the backfill
\* or the consolidation running at the same time.  An erasure deletes the objects
\* before the rows.
PhotosAreStored == erasing \/ ObjectsOfAll(photos) \subseteq objects
=============================================================================
