---------------------------- MODULE ProfilesProofs ----------------------------
(*************************************************************************)
(* Proofs about what members see of each other and of what concerns      *)
(* them: the photos of a profile, the people of a state, and the         *)
(* alerts.                                                               *)
(*************************************************************************)
EXTENDS ProfilePhotos, Alerts, DiscoveryWalk, FiniteSetTheorems, WellFoundedInduction, TLAPS

-----------------------------------------------------------------------------
(*************************************************************************)
(* Photos. An object is deleted only when no row can refer to it any     *)
(* more. A key belongs to one row for good; a row comes to refer to an   *)
(* object it did not have only in a registration, whose key nothing      *)
(* else has had yet, and in the backfill, which writes variants of a     *)
(* photo from before. Those objects (Coming) are in nobody's list of     *)
(* deletions.                                                            *)
(*************************************************************************)

Registering == {"register.read", "register.commit", "register.recover"}
New(k) == {Original(k), Variants(k)}

\* The rows a task or the database still has.
AllRows == photos \cup (UNION {task[t].seen : t \in Task})
\* The keys no row has had yet: not uploaded under, or not registered.
Fresh == unused \cup {task[t].of : t \in {u \in Task : task[u].pc \in {"register.read", "register.commit"}}}
\* The keys of the photos whose variants a task may be about to write.
Bare == {row.key : row \in {p \in photos : p.variants = None}}
        \cup {First(task[t].seen).key : t \in {u \in Task : task[u].pc = "backfill.write"}}
\* What a row may come to refer to.
Coming == (UNION {New(k) : k \in Fresh}) \cup {Variants(k) : k \in Bare}

\* A key belongs to one row for good, and no two rows share variants.
KeysHaveOneOwner ==
    \A p, q \in AllRows : p.id # q.id => p.key # q.key /\ (p.variants = q.variants => p.variants = None)
BareIsOld == \A p \in AllRows : p.variants = None => p.key \in OldKey

FreshIsFresh ==
    /\ \A t \in Task : task[t].pc \in Registering => task[t].of \in NewKey \ unused
    /\ \A t, u \in Task : t # u /\ {task[t].pc, task[u].pc} \subseteq Registering => task[t].of # task[u].of
    /\ \A p \in AllRows : p.id \notin Fresh /\ p.key \notin Fresh /\ p.variants \notin Fresh
BareIsBare == \A p \in AllRows : p.variants \notin Bare
DropsNothingComing == \A t \in Task : task[t].drop \cap Coming = {}
DropsNothingShown == \A t \in Task : task[t].pc = "purge" => task[t].drop \cap ObjectsOfAll(photos) = {}

\* What each task knows of the rows it has read.
Knows(t) ==
    /\ task[t].pc = "register.commit" => rowLock = t /\ Ids(photos) \subseteq Ids(task[t].seen)
    /\ task[t].pc \in {"delete.count", "delete.row", "delete.rooms"} =>
           \E row \in task[t].seen : task[t].seen = {row} /\ row.id = task[t].of
    /\ task[t].pc = "delete.rooms" => task[t].of \notin Ids(photos)
    /\ task[t].pc = "backfill.write" =>
           /\ \E row \in task[t].seen : task[t].seen = {row} /\ row.id = task[t].of /\ row.variants = None
           /\ \A u \in Task : task[u].pc = "backfill.write" => u = t
TasksKnow == \A t \in Task : Knows(t)

\* Until an erasure has begun.
Stored ==
    erasing \/ /\ ObjectsOfAll(photos) \subseteq objects
               /\ \A t \in Task : task[t].pc \in {"register.read", "register.commit"} => New(task[t].of) \subseteq objects
               /\ \A t \in Task : task[t].pc = "backfill.write" => Variants(First(task[t].seen).key) \in objects

TaskRow == [pc : TaskStep, of : Name \cup {None}, seen : SUBSET PhotoRow, drop : SUBSET Object]

PhotosInv ==
    /\ PhotosTypeOK /\ KeysHaveOneOwner /\ BareIsOld /\ FreshIsFresh /\ BareIsBare
    /\ DropsNothingComing /\ DropsNothingShown /\ TasksKnow /\ Stored

\* Most steps: rows only go, the objects that go are not needed, and one task moves to
\* what it has read or been given.
LEMMA Fades ==
    ASSUME PhotosInv, NEW t \in Task, NEW e \in TaskRow, task' = [task EXCEPT ![t] = e],
           photos' \subseteq photos, unused' \subseteq unused, objects' \subseteq Object,
           inRooms' \in BOOLEAN, erasing' \in BOOLEAN, tasks' \in 0..MaxTasks, rowLock' \in Task \cup {None},
           erasing => erasing',
           erasing' \/ (objects \ objects') \cap (Coming \cup ObjectsOfAll(photos)) = {},
           e.seen \subseteq AllRows,
           e.pc \in {"register.read", "register.commit"} =>
               e.of \in Fresh /\ (erasing' \/ New(e.of) \subseteq objects'),
           e.pc \in Registering =>
               /\ e.of \in NewKey \ unused'
               /\ \A u \in Task \ {t} : task[u].pc \in Registering => task[u].of # e.of,
           e.pc = "backfill.write" =>
               First(e.seen).key \in Bare /\ (erasing' \/ Variants(First(e.seen).key) \in objects'),
           e.drop \cap Coming = {},
           e.pc = "purge" => e.drop \cap ObjectsOfAll(photos') = {},
           rowLock' = rowLock \/ \A u \in Task \ {t} : task[u].pc # "register.commit",
           Knows(t)'
    PROVE  PhotosInv'
<1>1. task \in [Task -> TaskRow] /\ task' \in [Task -> TaskRow]
  BY DEF PhotosInv, PhotosTypeOK, TaskRow
<1>2. task'[t] = e /\ \A u \in Task \ {t} : task'[u] = task[u]
  BY <1>1
<1>3. PhotosTypeOK'
  <2>1. photos' \subseteq PhotoRow /\ \A p, q \in photos' : p.id = q.id => p = q
    BY DEF PhotosInv, PhotosTypeOK
  <2>2. unused' \subseteq NewKey
    BY DEF PhotosInv, PhotosTypeOK
  <2> QED
    BY <1>1, <2>1, <2>2 DEF PhotosTypeOK, TaskRow
<1>4. AllRows' \subseteq AllRows
  BY <1>2 DEF AllRows
<1>5. Fresh' \subseteq Fresh
  BY <1>2 DEF Fresh
<1>6. Bare' \subseteq Bare
  BY <1>2 DEF Bare
<1>7. Coming' \subseteq Coming
  BY <1>5, <1>6 DEF Coming
<1>8. ObjectsOfAll(photos') \subseteq ObjectsOfAll(photos)
  BY DEF ObjectsOfAll
<1>9. KeysHaveOneOwner' /\ BareIsOld' /\ BareIsBare'
  BY <1>4, <1>6 DEF PhotosInv, KeysHaveOneOwner, BareIsOld, BareIsBare
<1>10. FreshIsFresh'
  <2>1. \A u \in Task : task'[u].pc \in Registering => task'[u].of \in NewKey \ unused'
    BY <1>2 DEF PhotosInv, FreshIsFresh
  <2>2. \A u, v \in Task : u # v /\ {task'[u].pc, task'[v].pc} \subseteq Registering => task'[u].of # task'[v].of
    BY <1>2 DEF PhotosInv, FreshIsFresh
  <2> QED
    BY <1>4, <1>5, <2>1, <2>2 DEF PhotosInv, FreshIsFresh
<1>11. DropsNothingComing'
  BY <1>2, <1>7 DEF PhotosInv, DropsNothingComing
<1>12. DropsNothingShown'
  BY <1>2, <1>8 DEF PhotosInv, DropsNothingShown
<1>13. ASSUME NEW u \in Task, u # t PROVE Knows(u)'
  <2>1. Knows(u)
    BY DEF PhotosInv, TasksKnow
  <2>2. Ids(photos') \subseteq Ids(photos)
    BY DEF Ids
  <2>3. task[u].pc = "backfill.write" => \A v \in Task : task'[v].pc = "backfill.write" => v = u
    BY <1>2, <1>13, <2>1 DEF Knows
  <2> QED
    BY <1>2, <1>13, <2>1, <2>2, <2>3 DEF Knows
<1>14. TasksKnow'
  BY <1>13 DEF TasksKnow
<1>15. Stored'
  <2> SUFFICES ASSUME ~erasing'
               PROVE  /\ ObjectsOfAll(photos') \subseteq objects'
                      /\ \A u \in Task : task'[u].pc \in {"register.read", "register.commit"} => New(task'[u].of) \subseteq objects'
                      /\ \A u \in Task : task'[u].pc = "backfill.write" => Variants(First(task'[u].seen).key) \in objects'
    BY DEF Stored
  <2>1. /\ ObjectsOfAll(photos) \subseteq objects
        /\ \A u \in Task : task[u].pc \in {"register.read", "register.commit"} => New(task[u].of) \subseteq objects
        /\ \A u \in Task : task[u].pc = "backfill.write" => Variants(First(task[u].seen).key) \in objects
    BY DEF PhotosInv, Stored
  <2>2. ObjectsOfAll(photos') \subseteq objects'
    BY <1>8, <2>1
  <2>3. \A u \in Task : task[u].pc \in {"register.read", "register.commit"} => New(task[u].of) \subseteq Coming
    BY DEF Coming, Fresh
  <2>4. \A u \in Task : task[u].pc = "backfill.write" => Variants(First(task[u].seen).key) \in Coming
    <3>1. \A u \in Task : task[u].pc = "backfill.write" => First(task[u].seen).key \in Bare
      BY DEF Bare
    <3>2. \A k \in Bare : Variants(k) \in Coming
      BY DEF Coming
    <3> QED
      BY <3>1, <3>2
  <2> QED
    BY <1>2, <2>1, <2>2, <2>3, <2>4
<1> QED
  BY <1>3, <1>9, <1>10, <1>11, <1>12, <1>14, <1>15 DEF PhotosInv

LEMMA PhotosStart == PhotosInit => PhotosInv
<1> SUFFICES ASSUME PhotosInit PROVE PhotosInv
  OBVIOUS
<1> USE ProfilePhotosAssumption DEF PhotosInit
<1>1. PICK old \in SUBSET OldKey, bare \in SUBSET OldKey :
          photos = {Photo(k, k, IF k \in bare THEN None ELSE k) : k \in old}
  OBVIOUS
<1>2. \A p \in photos : p.id \in OldKey /\ p.key = p.id /\ p.variants \in {None, p.id} /\ p \in PhotoRow
  BY <1>1 DEF Photo, PhotoRow, Name
<1>3. \A p, q \in photos : p.id = q.id => p = q
  BY <1>1 DEF Photo
<1>4. objects \subseteq Object
  BY <1>2 DEF ObjectsOfAll, ObjectsOf, Object, Original, Variants, Name
<1>5. Rest \in TaskRow /\ Rest.pc = "none" /\ Rest.seen = {} /\ Rest.drop = {}
  BY DEF Rest, TaskRow, TaskStep
<1>6. task \in [Task -> TaskRow] /\ \A t \in Task : task[t] = Rest
  BY <1>5
<1>7. PhotosTypeOK
  <2>1. inRooms \in BOOLEAN /\ erasing \in BOOLEAN /\ rowLock \in Task \cup {None} /\ tasks \in 0..MaxTasks
    <3>1. inRooms \in BOOLEAN
      OBVIOUS
    <3>2. tasks \in 0..MaxTasks
      OBVIOUS
    <3> QED
      BY <3>1, <3>2
  <2>2. photos \subseteq PhotoRow /\ unused \subseteq NewKey
    BY <1>2
  <2> QED
    BY <1>3, <1>4, <1>6, <2>1, <2>2 DEF PhotosTypeOK, TaskRow
<1>8. AllRows = photos
  BY <1>5, <1>6 DEF AllRows
<1>9. Fresh = NewKey
  BY <1>5, <1>6 DEF Fresh
<1>10. KeysHaveOneOwner /\ BareIsOld
  BY <1>2, <1>8 DEF KeysHaveOneOwner, BareIsOld
<1>11. FreshIsFresh
  <2>1. \A t \in Task : task[t].pc \notin Registering
    BY <1>5, <1>6 DEF Registering
  <2> QED
    BY <1>2, <1>8, <1>9, <2>1 DEF FreshIsFresh
<1>12. BareIsBare
  <2>1. Bare = {row.key : row \in {p \in photos : p.variants = None}}
    BY <1>5, <1>6 DEF Bare
  <2>2. ASSUME NEW p \in photos, NEW q \in photos, q.variants = None PROVE p.variants # q.key
    BY <1>2, <1>3, <2>2
  <2> QED
    BY <1>8, <2>1, <2>2 DEF BareIsBare
<1>13. DropsNothingComing /\ DropsNothingShown
  BY <1>5, <1>6 DEF DropsNothingComing, DropsNothingShown
<1>14. TasksKnow
  BY <1>5, <1>6 DEF TasksKnow, Knows
<1>15. Stored
  BY <1>5, <1>6 DEF Stored
<1> QED
  BY <1>7, <1>10, <1>11, <1>12, <1>13, <1>14, <1>15 DEF PhotosInv

LEMMA FirstOfOne == ASSUME NEW row PROVE First({row}) = row
  BY DEF First

\* What the updates of a task's row amount to.
LEMMA TaskUpdates ==
    ASSUME PhotosInv, NEW t \in Task
    PROVE  /\ task \in [Task -> TaskRow] /\ Rest \in TaskRow
           /\ \A pc \in TaskStep : TaskGoes(t, pc) =>
                  \E e \in TaskRow : /\ task' = [task EXCEPT ![t] = e] /\ tasks' \in 0..MaxTasks
                                     /\ e.pc = pc /\ e.of = task[t].of /\ e.seen = task[t].seen /\ e.drop = task[t].drop
           /\ \A D \in SUBSET Object : Purge(t, D) =>
                  \E e \in TaskRow : /\ task' = [task EXCEPT ![t] = e] /\ tasks' \in 0..MaxTasks
                                     /\ e.pc = "purge" /\ e.seen = {} /\ e.drop = D
<1>1. task \in [Task -> TaskRow] /\ tasks \in 0..MaxTasks
  BY DEF PhotosInv, PhotosTypeOK, TaskRow
<1>2. Rest \in TaskRow
  BY DEF Rest, TaskRow, TaskStep
<1>3. ASSUME NEW pc \in TaskStep, TaskGoes(t, pc)
      PROVE  \E e \in TaskRow : /\ task' = [task EXCEPT ![t] = e] /\ tasks' \in 0..MaxTasks
                                /\ e.pc = pc /\ e.of = task[t].of /\ e.seen = task[t].seen /\ e.drop = task[t].drop
  <2>1. PICK x \in TaskRow : x = task[t]
    BY <1>1
  <2>2. PICK e \in TaskRow : e = [x EXCEPT !.pc = pc]
    BY DEF TaskRow
  <2>3. e.pc = pc /\ e.of = x.of /\ e.seen = x.seen /\ e.drop = x.drop
    BY <2>1, <2>2 DEF TaskRow
  <2>4. task' = [task EXCEPT ![t] = e] /\ tasks' = tasks
    BY <1>1, <1>3, <2>1, <2>2 DEF TaskGoes
  <2> QED
    BY <1>1, <2>1, <2>3, <2>4
<1>4. ASSUME NEW D \in SUBSET Object, Purge(t, D)
      PROVE  \E e \in TaskRow : /\ task' = [task EXCEPT ![t] = e] /\ tasks' \in 0..MaxTasks
                                /\ e.pc = "purge" /\ e.seen = {} /\ e.drop = D
  <2>1. PICK x \in TaskRow : x = Rest
    BY <1>2
  <2>2. PICK e \in TaskRow : e = [x EXCEPT !.pc = "purge", !.drop = D]
    BY DEF TaskRow, TaskStep
  <2>3. e.pc = "purge" /\ e.seen = x.seen /\ e.drop = D /\ x.seen = {}
    BY <2>1, <2>2 DEF TaskRow, Rest
  <2>4. task' = [task EXCEPT ![t] = e] /\ tasks' = tasks
    BY <1>4, <2>1, <2>2 DEF Purge
  <2> QED
    BY <1>1, <2>3, <2>4
<1> QED
  BY <1>1, <1>2, <1>3, <1>4

\* The keys whose variants are to come are of photos from before, none of which is fresh.
LEMMA Keys ==
    ASSUME PhotosInv
    PROVE  /\ Bare \subseteq OldKey /\ Fresh \subseteq NewKey
           /\ \A row \in AllRows : row \in PhotoRow /\ ObjectsOf(row) \cap Coming = {} /\ ObjectsOf(row) \subseteq Object
           /\ \A p, q \in AllRows : p.id # q.id => ObjectsOf(p) \cap ObjectsOf(q) = {}
<1>1. Bare \subseteq OldKey
  <2>1. ASSUME NEW t \in Task, task[t].pc = "backfill.write" PROVE First(task[t].seen).key \in OldKey
    <3>1. PICK row \in task[t].seen : task[t].seen = {row} /\ row.variants = None
      BY <2>1 DEF PhotosInv, TasksKnow, Knows
    <3>2. First(task[t].seen) = row /\ row \in AllRows
      BY <3>1, FirstOfOne DEF AllRows
    <3> QED
      BY <3>1, <3>2 DEF PhotosInv, BareIsOld
  <2>2. ASSUME NEW p \in photos, p.variants = None PROVE p.key \in OldKey
    BY <2>2 DEF PhotosInv, BareIsOld, AllRows
  <2> QED
    BY <2>1, <2>2 DEF Bare
<1>2. Fresh \subseteq NewKey
  BY DEF PhotosInv, FreshIsFresh, Fresh, Registering, PhotosTypeOK
<1>3. AllRows \subseteq PhotoRow
  <2>1. \A t \in Task : task[t].seen \subseteq PhotoRow
    BY DEF PhotosInv, PhotosTypeOK
  <2> QED
    BY <2>1 DEF AllRows, PhotosInv, PhotosTypeOK
<1>4. ASSUME NEW row \in AllRows PROVE ObjectsOf(row) \cap Coming = {} /\ ObjectsOf(row) \subseteq Object
  <2>1. row \in PhotoRow /\ row.key \notin Fresh /\ row.variants \notin Fresh /\ row.variants \notin Bare
    BY <1>3 DEF PhotosInv, FreshIsFresh, BareIsBare
  <2>2. ObjectsOf(row) \subseteq {Original(row.key), Variants(row.variants)}
    BY DEF ObjectsOf
  <2>3. Original(row.key) \notin Coming
    BY <2>1 DEF Coming, New, Original, Variants
  <2>4. Variants(row.variants) \notin Coming
    BY <2>1 DEF Coming, New, Original, Variants
  <2>5. ObjectsOf(row) \subseteq Object
    BY <2>1 DEF ObjectsOf, Object, PhotoRow, Original, Variants
  <2> QED
    BY <2>2, <2>3, <2>4, <2>5
<1>5. ASSUME NEW p \in AllRows, NEW q \in AllRows, p.id # q.id PROVE ObjectsOf(p) \cap ObjectsOf(q) = {}
  <2>1. p.key # q.key /\ (p.variants = q.variants => p.variants = None)
    BY <1>5 DEF PhotosInv, KeysHaveOneOwner
  <2> QED
    BY <2>1 DEF ObjectsOf, Original, Variants
<1> QED
  BY <1>1, <1>2, <1>3, <1>4, <1>5

\* What a row of the state knows, for the steps that follow it.
LEMMA Knowledge ==
    ASSUME PhotosInv, NEW t \in Task
    PROVE  /\ task[t] \in TaskRow /\ task[t].drop \cap Coming = {} /\ Knows(t)
           /\ task[t].seen \subseteq AllRows /\ photos \subseteq AllRows
           /\ \A u \in Task : task[u].pc = "register.commit" => rowLock = u
           /\ rowLock \in Task \cup {None} /\ objects \subseteq Object /\ inRooms \in BOOLEAN /\ erasing \in BOOLEAN
           /\ AllRows \subseteq PhotoRow
  BY Keys DEF PhotosInv, PhotosTypeOK, TaskRow, DropsNothingComing, TasksKnow, Knows, AllRows

\* A task that ends or dies, and what the last deletion of one does.
LEMMA Ends ==
    ASSUME PhotosInv, NEW t \in Task, TaskEnds(t), photos' \subseteq photos, unused' = unused,
           objects' \subseteq objects, inRooms' \in BOOLEAN, erasing' = erasing,
           objects \ objects' = {} \/ (task[t].pc = "purge" /\ objects \ objects' \subseteq task[t].drop),
           rowLock' = rowLock \/ (rowLock = t /\ rowLock' = None)
    PROVE  PhotosInv'
<1>1. task' = [task EXCEPT ![t] = Rest] /\ tasks' = tasks /\ Rest \in TaskRow /\ task \in [Task -> TaskRow]
  BY TaskUpdates DEF TaskEnds
<1>2. Rest.pc = "none" /\ Rest.seen = {} /\ Rest.drop = {}
  BY DEF Rest
<1>3. (objects \ objects') \cap (Coming \cup ObjectsOfAll(photos)) = {}
  BY Knowledge DEF PhotosInv, DropsNothingShown
<1>4. rowLock' = rowLock \/ \A u \in Task \ {t} : task[u].pc # "register.commit"
  BY Knowledge
<1>5. Knows(t)'
  BY <1>1, <1>2 DEF Knows
<1>6. tasks' \in 0..MaxTasks /\ rowLock' \in Task \cup {None} /\ objects' \subseteq Object /\ erasing' \in BOOLEAN
  BY <1>1, Knowledge DEF PhotosInv, PhotosTypeOK
<1>7. Rest.pc \notin {"register.read", "register.commit", "backfill.write", "purge"} \cup Registering
  BY <1>2 DEF Registering
<1> QED
  BY <1>1, <1>2, <1>3, <1>4, <1>5, <1>6, <1>7, Fades

LEMMA EndSteps ==
    ASSUME PhotosInv, NEW t \in Task,
           \/ Dies(t) \/ PurgeObjects(t) \/ JoinWrite(t) \/ EraseRows(t)
           \/ ((DeleteCount(t) \/ DeleteRow(t) \/ RegisterRecover(t) \/ Apply(t)) /\ TaskEnds(t))
    PROVE  PhotosInv'
<1>1. inRooms \in BOOLEAN
  BY DEF PhotosInv, PhotosTypeOK
<1>2. TaskEnds(t) /\ unused' = unused /\ erasing' = erasing /\ inRooms' \in BOOLEAN
  BY <1>1 DEF Dies, PurgeObjects, JoinWrite, EraseRows, DeleteCount, DeleteRow, RegisterRecover, Apply
<1>3. rowLock' = rowLock \/ (rowLock = t /\ rowLock' = None)
  BY DEF Dies, PurgeObjects, JoinWrite, EraseRows, DeleteCount, DeleteRow, RegisterRecover, Apply
<1>4. photos' \subseteq photos
  BY DEF Dies, PurgeObjects, JoinWrite, EraseRows, DeleteCount, DeleteRow, RegisterRecover, Apply, Without
<1>5. /\ objects' \subseteq objects
      /\ objects \ objects' = {} \/ (task[t].pc = "purge" /\ objects \ objects' \subseteq task[t].drop)
  BY DEF Dies, PurgeObjects, JoinWrite, EraseRows, DeleteCount, DeleteRow, RegisterRecover, Apply, TaskAt
<1> QED
  BY <1>2, <1>3, <1>4, <1>5, Ends

\* A step of a task that is not registering and is given no new key; rows may go.
LEMMA Proceeds ==
    ASSUME PhotosInv, NEW t \in Task, NEW e \in TaskRow, task' = [task EXCEPT ![t] = e], tasks' \in 0..MaxTasks,
           photos' \subseteq photos, UNCHANGED <<unused, rowLock>>, inRooms' \in BOOLEAN,
           UNCHANGED <<objects, erasing>> \/ (erasing' = TRUE /\ objects' \subseteq objects),
           e.pc \notin Registering \cup {"backfill.write"}, e.seen \subseteq AllRows,
           e.drop \cap Coming = {},
           e.pc = "purge" => e.drop \cap ObjectsOfAll(photos') = {},
           Knows(t)'
    PROVE  PhotosInv'
<1>1. objects' \subseteq Object /\ erasing' \in BOOLEAN /\ rowLock' \in Task \cup {None}
  BY Knowledge
<1>2. /\ erasing' \/ (objects \ objects') \cap (Coming \cup ObjectsOfAll(photos)) = {}
      /\ erasing => erasing'
  BY Knowledge
<1>3. e.pc \notin {"register.read", "register.commit", "backfill.write"} \cup Registering
  BY DEF Registering
<1>4. unused' \subseteq unused /\ rowLock' = rowLock
  OBVIOUS
<1> QED
  BY <1>1, <1>2, <1>3, <1>4, Fades

\* A task that begins with rows it reads.
LEMMA Begins ==
    ASSUME PhotosInv, NEW t \in Task, NEW pc \in TaskStep, NEW of \in Name \cup {None}, NEW seen \in SUBSET PhotoRow,
           TaskStarts(t, pc, of, seen), seen \subseteq photos,
           pc \notin Registering \cup {"purge", "backfill.write", "delete.row", "delete.rooms"},
           UNCHANGED <<photos, objects, unused, inRooms, erasing, rowLock>>,
           pc = "delete.count" => \E row \in photos : seen = {row} /\ of = row.id
    PROVE  PhotosInv'
<1>1. seen \subseteq AllRows
  BY Knowledge
<1>2. PICK e \in TaskRow : /\ task' = [task EXCEPT ![t] = e] /\ tasks' \in 0..MaxTasks
                           /\ e.pc = pc /\ e.of = of /\ e.seen = seen /\ e.drop = {}
  <2>1. PICK x \in TaskRow : x = Rest
    BY TaskUpdates
  <2>2. PICK e \in TaskRow : e = [x EXCEPT !.pc = pc, !.of = of, !.seen = seen]
    BY DEF TaskRow
  <2>3. e.pc = pc /\ e.of = of /\ e.seen = seen /\ e.drop = {}
    BY <2>1, <2>2 DEF TaskRow, Rest
  <2>4. task' = [task EXCEPT ![t] = e] /\ tasks < MaxTasks /\ tasks' = tasks + 1
    BY <2>1, <2>2 DEF TaskStarts
  <2>5. tasks' \in 0..MaxTasks
    BY <2>4, ProfilePhotosAssumption DEF PhotosInv, PhotosTypeOK
  <2> QED
    BY <2>3, <2>4, <2>5
<1>3. task'[t] = e
  BY <1>2, TaskUpdates
<1>4. Knows(t)'
  BY <1>2, <1>3 DEF Knows, Registering
<1>5. inRooms \in BOOLEAN /\ e.pc \notin Registering \cup {"backfill.write", "purge"}
  BY <1>2, Knowledge DEF Registering
<1> QED
  BY <1>1, <1>2, <1>4, <1>5, Proceeds

LEMMA StartSteps ==
    ASSUME PhotosInv, NEW t \in Task, (\E row \in photos : Delete(t, row)) \/ JoinRoom(t) \/ Erase(t) \/ Manifest(t)
    PROVE  PhotosInv'
<1>1. photos \in SUBSET PhotoRow /\ \A row \in photos : row.id \in Name /\ {row} \in SUBSET PhotoRow
  BY DEF PhotosInv, PhotosTypeOK, PhotoRow
<1>2. ASSUME NEW row \in photos, Delete(t, row) PROVE PhotosInv'
  BY <1>1, <1>2, Begins DEF Delete, TaskStep, Registering
<1>3. CASE JoinRoom(t)
  BY <1>3, Begins DEF JoinRoom, TaskStep, Registering
<1>4. CASE Erase(t) \/ Manifest(t)
  BY <1>1, <1>4, Begins DEF Erase, Manifest, TaskStep, Registering
<1> QED
  BY <1>2, <1>3, <1>4

\* The steps of a deletion, an erasure and a consolidation: what they delete in the end
\* belongs to rows that are gone.
LEMMA GoingSteps ==
    ASSUME PhotosInv, NEW t \in Task,
           DeleteCount(t) \/ DeleteRow(t) \/ DeleteRooms(t) \/ EraseObjects(t) \/ Apply(t) \/ Unreferenced(t)
    PROVE  PhotosInv'
<1>1. PICK x \in TaskRow : x = task[t]
  BY Knowledge
<1>2. /\ x.drop \cap Coming = {} /\ Knows(t) /\ x.seen \subseteq AllRows /\ x.drop \subseteq Object
      /\ inRooms \in BOOLEAN /\ task \in [Task -> TaskRow]
  BY <1>1, Knowledge, TaskUpdates DEF TaskRow
<1>3. ASSUME NEW rs \in SUBSET AllRows PROVE ObjectsOfAll(rs) \cap Coming = {} /\ ObjectsOfAll(rs) \in SUBSET Object
  BY Keys DEF ObjectsOfAll
<1>4. CASE DeleteCount(t)
  <2>1. CASE TaskGoes(t, "delete.row")
    <3>1. PICK e \in TaskRow : /\ task' = [task EXCEPT ![t] = e] /\ tasks' \in 0..MaxTasks
                               /\ e.pc = "delete.row" /\ e.of = x.of /\ e.seen = x.seen /\ e.drop = x.drop
      BY <1>1, <2>1, TaskUpdates DEF TaskStep
    <3>2. task'[t] = e
      BY <1>2, <3>1
    <3>3. Knows(t)'
      BY <1>1, <1>2, <1>4, <3>1, <3>2 DEF Knows, DeleteCount, TaskAt
    <3>4. e.pc \notin Registering \cup {"backfill.write", "purge"}
      BY <3>1 DEF Registering
    <3> QED
      BY <1>2, <1>4, <3>1, <3>3, <3>4, Proceeds DEF DeleteCount
  <2> QED
    BY <1>4, <2>1, EndSteps DEF DeleteCount
<1>5. CASE DeleteRow(t)
  <2>1. CASE TaskGoes(t, "delete.rooms")
    <3>1. PICK e \in TaskRow : /\ task' = [task EXCEPT ![t] = e] /\ tasks' \in 0..MaxTasks
                               /\ e.pc = "delete.rooms" /\ e.of = x.of /\ e.seen = x.seen /\ e.drop = x.drop
      BY <1>1, <2>1, TaskUpdates DEF TaskStep
    <3>2. task'[t] = e
      BY <1>2, <3>1
    <3>3. photos' \subseteq photos /\ x.of \notin Ids(photos')
      BY <1>1, <1>5 DEF DeleteRow, Without, Ids
    <3>4. Knows(t)'
      BY <1>1, <1>2, <1>5, <3>1, <3>2, <3>3 DEF Knows, DeleteRow, TaskAt
    <3>5. e.pc \notin Registering \cup {"backfill.write", "purge"}
      BY <3>1 DEF Registering
    <3> QED
      BY <1>2, <1>5, <3>1, <3>3, <3>4, <3>5, Proceeds DEF DeleteRow
  <2> QED
    BY <1>5, <2>1, EndSteps DEF DeleteRow
<1>6. CASE DeleteRooms(t)
  <2>1. PICK row \in x.seen : x.seen = {row} /\ row.id = x.of /\ x.of \notin Ids(photos)
    BY <1>1, <1>2, <1>6 DEF DeleteRooms, TaskAt, Knows
  <2>2. PICK D \in SUBSET Object : D = ObjectsOfAll(x.seen) /\ D \cap Coming = {}
    BY <1>2, <1>3
  <2>3. PICK e \in TaskRow : /\ task' = [task EXCEPT ![t] = e] /\ tasks' \in 0..MaxTasks
                             /\ e.pc = "purge" /\ e.seen = {} /\ e.drop = D
    BY <1>1, <1>6, <2>2, TaskUpdates DEF DeleteRooms, Seen
  <2>4. D \cap ObjectsOfAll(photos) = {}
    <3>1. \A p \in photos : p.id # row.id /\ p \in AllRows
      BY <2>1 DEF Ids, AllRows
    <3>2. D = ObjectsOf(row) /\ row \in AllRows
      BY <1>2, <2>1, <2>2 DEF ObjectsOfAll
    <3> QED
      BY <3>1, <3>2, Keys DEF ObjectsOfAll
  <2>5. task'[t] = e
    BY <1>2, <2>3
  <2>6. Knows(t)'
    BY <2>3, <2>5 DEF Knows
  <2>7. /\ UNCHANGED <<photos, objects, unused, erasing, rowLock>> /\ inRooms' \in BOOLEAN
        /\ e.pc \notin Registering \cup {"backfill.write"}
    BY <1>2, <1>6, <2>3 DEF DeleteRooms, Registering
  <2> QED
    BY <2>2, <2>3, <2>4, <2>6, <2>7, Proceeds
<1>7. CASE EraseObjects(t)
  <2>1. PICK e \in TaskRow : /\ task' = [task EXCEPT ![t] = e] /\ tasks' \in 0..MaxTasks
                             /\ e.pc = "erase.rows" /\ e.of = x.of /\ e.seen = x.seen /\ e.drop = x.drop
    BY <1>1, <1>7, TaskUpdates DEF TaskStep, EraseObjects
  <2>2. task'[t] = e
    BY <1>2, <2>1
  <2>3. Knows(t)'
    BY <2>1, <2>2 DEF Knows
  <2>4. e.pc \notin Registering \cup {"backfill.write", "purge"}
    BY <2>1 DEF Registering
  <2>5. UNCHANGED <<photos, unused, inRooms, rowLock>> /\ erasing' = TRUE /\ objects' \subseteq objects
    BY <1>7 DEF EraseObjects
  <2> QED
    BY <1>2, <2>1, <2>3, <2>4, <2>5, Proceeds
<1>8. CASE Apply(t) /\ ~TaskEnds(t)
  <2>1. PICK removed \in SUBSET photos, drop \in SUBSET Object :
            /\ photos' = photos \ removed
            /\ drop \cap Coming = {}
            /\ task' = [task EXCEPT ![t].pc = "unreferenced", ![t].drop = drop]
            /\ UNCHANGED tasks
    <3> DEFINE removed == photos \ Without(photos, Ids(Additional(Seen(t))))
               rs == IF removed = {} THEN Additional(Seen(t)) ELSE removed
    <3>1. rs \in SUBSET AllRows
      BY <1>1, <1>2, Knowledge DEF Additional, Seen
    <3>2. /\ photos' = photos \ removed
          /\ task' = [task EXCEPT ![t].pc = "unreferenced", ![t].drop = ObjectsOfAll(rs)]
          /\ UNCHANGED tasks
      BY <1>8 DEF Apply
    <3>3. removed \in SUBSET photos
      OBVIOUS
    <3> HIDE DEF removed, rs
    <3> QED
      BY <1>3, <3>1, <3>2, <3>3
  <2>2. PICK e \in TaskRow : e = [x EXCEPT !.pc = "unreferenced", !.drop = drop]
    BY DEF TaskRow, TaskStep
  <2>3. e.pc = "unreferenced" /\ e.seen = x.seen /\ e.drop = drop
    BY <1>1, <2>2 DEF TaskRow
  <2>4. task' = [task EXCEPT ![t] = e]
    BY <1>1, <1>2, <2>1, <2>2
  <2>5. task'[t] = e
    BY <1>2, <2>4
  <2>6. Knows(t)'
    BY <2>3, <2>5 DEF Knows
  <2>7. e.pc \notin Registering \cup {"backfill.write", "purge"}
    BY <2>3 DEF Registering
  <2>8. UNCHANGED <<objects, unused, inRooms, erasing, rowLock>> /\ tasks' \in 0..MaxTasks
    BY <1>8, <2>1 DEF Apply, PhotosInv, PhotosTypeOK
  <2> QED
    BY <1>2, <2>1, <2>3, <2>4, <2>6, <2>7, <2>8, Proceeds
<1>9. CASE Unreferenced(t)
  <2>1. PICK D \in SUBSET Object : D = x.drop \ ObjectsOfAll(photos)
    BY <1>2
  <2>2. PICK e \in TaskRow : /\ task' = [task EXCEPT ![t] = e] /\ tasks' \in 0..MaxTasks
                             /\ e.pc = "purge" /\ e.seen = {} /\ e.drop = D
    BY <1>1, <1>9, <2>1, TaskUpdates DEF Unreferenced
  <2>3. task'[t] = e
    BY <1>2, <2>2
  <2>4. Knows(t)'
    BY <2>2, <2>3 DEF Knows
  <2>5. /\ UNCHANGED <<photos, objects, unused, inRooms, erasing, rowLock>>
        /\ e.pc \notin Registering \cup {"backfill.write"}
    BY <1>9, <2>2 DEF Unreferenced, Registering
  <2> QED
    BY <1>2, <2>1, <2>2, <2>4, <2>5, Proceeds
<1> QED
  BY <1>4, <1>5, <1>6, <1>7, <1>8, <1>9, EndSteps
\* The signed upload, the read under the lock, a transaction that changed nothing, the
\* look at the rows afterwards, and the start of the backfill.
LEMMA RegisteringSteps ==
    ASSUME PhotosInv, NEW t \in Task,
           \/ \E k \in NewKey : Register(t, k)
           \/ RegisterRead(t) \/ (RegisterFails(t) /\ photos' = photos)
           \/ RegisterRecover(t) \/ \E row \in photos : Backfill(t, row)
    PROVE  PhotosInv'
<1>1. PICK x \in TaskRow : x = task[t]
  BY Knowledge
<1>2. /\ x.drop \cap Coming = {} /\ Knows(t) /\ x.seen \subseteq AllRows /\ photos \subseteq AllRows
      /\ x.drop \subseteq Object /\ x.seen \in SUBSET PhotoRow
      /\ inRooms \in BOOLEAN /\ erasing \in BOOLEAN /\ task \in [Task -> TaskRow] /\ tasks \in 0..MaxTasks
      /\ objects \subseteq Object /\ rowLock \in Task \cup {None}
  BY <1>1, Knowledge, TaskUpdates DEF TaskRow, PhotosInv, PhotosTypeOK
<1>3. PICK rest \in TaskRow : rest = Rest /\ rest.pc = "none" /\ rest.seen = {} /\ rest.drop = {}
  BY TaskUpdates DEF Rest
<1>4. ASSUME NEW k \in NewKey, Register(t, k) PROVE PhotosInv'
  <2>1. PICK e \in TaskRow : e = [rest EXCEPT !.pc = "register.read", !.of = k, !.seen = {}]
    BY DEF TaskRow, TaskStep, Name
  <2>2. e.pc = "register.read" /\ e.of = k /\ e.seen = {} /\ e.drop = {}
    BY <1>3, <2>1 DEF TaskRow
  <2>3. task' = [task EXCEPT ![t] = e] /\ tasks < MaxTasks /\ tasks' = tasks + 1
    BY <1>3, <1>4, <2>1 DEF Register, TaskStarts
  <2>4. tasks' \in 0..MaxTasks
    BY <1>2, <2>3, ProfilePhotosAssumption
  <2>5. /\ k \in unused /\ unused' = unused \ {k} /\ objects' = objects \cup New(k)
        /\ UNCHANGED <<photos, inRooms, erasing, rowLock>>
    BY <1>4 DEF Register, New
  <2>6. objects' \subseteq Object
    BY <1>2, <2>5 DEF New, Object, Name, Original, Variants
  <2>7. e.of \in Fresh /\ e.of \in NewKey \ unused' /\ New(e.of) \subseteq objects'
    BY <2>2, <2>5 DEF Fresh
  <2>8. \A u \in Task \ {t} : task[u].pc \in Registering => task[u].of # e.of
    BY <2>2, <2>5 DEF PhotosInv, FreshIsFresh
  <2>9. Knows(t)'
    <3>1. task'[t] = e
      BY <1>2, <2>3
    <3> QED
      BY <2>2, <3>1 DEF Knows
  <2>10. e.pc # "backfill.write" /\ e.pc # "purge" /\ e.seen \subseteq AllRows /\ e.drop \cap Coming = {}
         /\ (objects \ objects') \cap (Coming \cup ObjectsOfAll(photos)) = {} /\ unused' \subseteq unused
    BY <2>2, <2>5
  <2> QED
    BY <1>2, <2>3, <2>4, <2>5, <2>6, <2>7, <2>8, <2>9, <2>10, Fades
<1>5. CASE RegisterRead(t)
  <2>1. PICK rows \in SUBSET PhotoRow : rows = photos
    BY Knowledge
  <2>2. PICK e \in TaskRow : e = [x EXCEPT !.pc = "register.commit", !.seen = rows]
    BY DEF TaskRow, TaskStep
  <2>3. e.pc = "register.commit" /\ e.of = x.of /\ e.seen = photos /\ e.drop = x.drop
    BY <2>1, <2>2 DEF TaskRow
  <2>4. task' = [task EXCEPT ![t] = e] /\ tasks' = tasks
    BY <1>1, <1>2, <1>5, <2>1, <2>2 DEF RegisterRead
  <2>5. x.pc = "register.read" /\ rowLock = None /\ rowLock' = t /\ UNCHANGED <<photos, objects, unused, inRooms, erasing>>
    BY <1>1, <1>5 DEF RegisterRead, TaskAt
  <2>6. e.of \in Fresh /\ e.of \in NewKey \ unused'
    BY <1>1, <2>3, <2>5 DEF Fresh, PhotosInv, FreshIsFresh, Registering
  <2>7. erasing' \/ New(e.of) \subseteq objects'
    BY <1>1, <2>3, <2>5 DEF PhotosInv, Stored
  <2>8. \A u \in Task \ {t} : task[u].pc \in Registering => task[u].of # e.of
    BY <1>1, <2>3, <2>5 DEF PhotosInv, FreshIsFresh, Registering
  <2>9. \A u \in Task \ {t} : task[u].pc # "register.commit"
    BY <2>5, Knowledge, ProfilePhotosAssumption
  <2>10. Knows(t)'
    <3>1. task'[t] = e
      BY <1>2, <2>4
    <3> QED
      BY <2>3, <2>5, <3>1 DEF Knows, Ids
  <2>11. e.pc # "backfill.write" /\ e.pc # "purge" /\ e.seen \subseteq AllRows /\ e.drop \cap Coming = {}
         /\ tasks' \in 0..MaxTasks
    BY <1>2, <2>3, <2>4
  <2> QED
    BY <1>2, <2>4, <2>5, <2>6, <2>7, <2>8, <2>9, <2>10, <2>11, Fades
<1>6. CASE RegisterFails(t) /\ photos' = photos
  <2>1. PICK e \in TaskRow : e = [x EXCEPT !.pc = "register.recover"]
    BY DEF TaskRow, TaskStep
  <2>2. e.pc = "register.recover" /\ e.of = x.of /\ e.seen = x.seen /\ e.drop = x.drop
    BY <2>1 DEF TaskRow
  <2>3. task' = [task EXCEPT ![t] = e] /\ tasks' = tasks
    BY <1>1, <1>2, <1>6, <2>1 DEF RegisterFails, TaskGoes
  <2>4. x.pc = "register.commit" /\ rowLock' = None /\ UNCHANGED <<photos, objects, unused, inRooms, erasing>>
    BY <1>1, <1>6 DEF RegisterFails, TaskAt
  <2>5. \A u \in Task \ {t} : task[u].pc # "register.commit"
    BY <1>1, <2>4, Knowledge
  <2>6. e.of \in NewKey \ unused'
    BY <1>1, <2>2, <2>4 DEF PhotosInv, FreshIsFresh, Registering
  <2>7. \A u \in Task \ {t} : task[u].pc \in Registering => task[u].of # e.of
    BY <1>1, <2>2, <2>4 DEF PhotosInv, FreshIsFresh, Registering
  <2>8. Knows(t)'
    <3>1. task'[t] = e
      BY <1>2, <2>3
    <3> QED
      BY <2>2, <3>1 DEF Knows
  <2>9. e.pc \notin {"register.read", "register.commit", "backfill.write", "purge"}
         /\ e.seen \subseteq AllRows /\ e.drop \cap Coming = {} /\ tasks' \in 0..MaxTasks
    BY <1>2, <2>2, <2>3
  <2> QED
    BY <1>2, <2>3, <2>4, <2>5, <2>6, <2>7, <2>8, <2>9, Fades
<1>7. CASE RegisterRecover(t)
  <2>1. CASE ~TaskEnds(t)
    <3>1. PICK D \in SUBSET Object : D = New(x.of)
      BY <1>1, <1>7 DEF RegisterRecover, TaskAt, New, Object, Original, Variants, PhotosInv, FreshIsFresh, Registering, Name
    <3>2. Purge(t, D) /\ D \cap ObjectsOfAll(photos) = {} /\ x.pc = "register.recover"
          /\ UNCHANGED <<photos, objects, unused, inRooms, erasing, rowLock>>
      BY <1>1, <1>7, <2>1, <3>1 DEF RegisterRecover, New, TaskAt
    <3>3. PICK e \in TaskRow : /\ task' = [task EXCEPT ![t] = e] /\ tasks' \in 0..MaxTasks
                               /\ e.pc = "purge" /\ e.seen = {} /\ e.drop = D
      BY <3>2, TaskUpdates
    <3>4. x.of \in NewKey /\ x.of \notin Fresh
      BY <1>1, <3>2 DEF Fresh, PhotosInv, FreshIsFresh, Registering
    <3>5. x.of \notin Bare
      BY <3>4, Keys, ProfilePhotosAssumption
    <3>6. D \cap Coming = {}
      BY <3>1, <3>4, <3>5 DEF Coming, New, Original, Variants
    <3>7. task'[t] = e
      BY <1>2, <3>3
    <3>8. Knows(t)'
      BY <3>3, <3>7 DEF Knows
    <3>9. e.pc \notin Registering \cup {"backfill.write"} /\ e.seen \subseteq AllRows
      BY <3>3 DEF Registering
    <3> QED
      BY <1>2, <3>2, <3>3, <3>6, <3>8, <3>9, Proceeds
  <2> QED
    BY <1>7, <2>1, EndSteps
<1>8. ASSUME NEW row \in photos, Backfill(t, row) PROVE PhotosInv'
  <2>0. row \in PhotoRow
    BY Knowledge
  <2>1. PICK rows \in SUBSET PhotoRow : rows = {row} /\ row \in PhotoRow
    BY <2>0
  <2>2. PICK of \in Name : of = row.id
    BY <2>1 DEF PhotoRow
  <2>3. PICK e \in TaskRow : e = [rest EXCEPT !.pc = "backfill.write", !.of = of, !.seen = rows]
    BY DEF TaskRow, TaskStep
  <2>4. e.pc = "backfill.write" /\ e.of = row.id /\ e.seen = {row} /\ e.drop = {}
    BY <1>3, <2>1, <2>2, <2>3 DEF TaskRow
  <2>5. task' = [task EXCEPT ![t] = e] /\ tasks < MaxTasks /\ tasks' = tasks + 1
    BY <1>3, <1>8, <2>1, <2>2, <2>3 DEF Backfill, TaskStarts
  <2>6. tasks' \in 0..MaxTasks
    BY <1>2, <2>5, ProfilePhotosAssumption
  <2>7. /\ row.variants = None /\ (\A u \in Task : task[u].pc # "backfill.write")
        /\ objects' = objects \cup {Variants(row.key)} /\ UNCHANGED <<photos, unused, inRooms, erasing, rowLock>>
    BY <1>8 DEF Backfill, TaskAt
  <2>8. objects' \subseteq Object
    BY <1>2, <2>1, <2>7 DEF Object, PhotoRow, Variants
  <2>9. First(e.seen) = row /\ row.key \in Bare
    BY <2>4, <2>7, FirstOfOne DEF Bare
  <2>10. Knows(t)'
    <3>1. task'[t] = e /\ \A u \in Task \ {t} : task'[u] = task[u]
      BY <1>2, <2>5
    <3> QED
      BY <2>4, <2>7, <3>1 DEF Knows
  <2>11. e.pc \notin Registering \cup {"register.read", "register.commit", "purge"} /\ e.seen \subseteq AllRows
         /\ e.drop \cap Coming = {} /\ (objects \ objects') \cap (Coming \cup ObjectsOfAll(photos)) = {}
         /\ Variants(First(e.seen).key) \in objects'
    BY <1>2, <2>4, <2>7, <2>9 DEF Registering
  <2> QED
    BY <1>2, <2>5, <2>6, <2>7, <2>8, <2>9, <2>10, <2>11, Fades
<1> QED
  BY <1>4, <1>5, <1>6, <1>7, <1>8
\* The commit of a registration, heard of or not: one row, for a key nothing referred to.
LEMMA CommitSteps ==
    ASSUME PhotosInv, NEW t \in Task, RegisterCommit(t) \/ (RegisterFails(t) /\ photos' # photos)
    PROVE  PhotosInv'
<1>1. PICK x \in TaskRow : x = task[t]
  BY Knowledge
<1>2. /\ x.drop \cap Coming = {} /\ x.seen \subseteq AllRows /\ photos \subseteq AllRows /\ x.drop \subseteq Object
      /\ inRooms \in BOOLEAN /\ erasing \in BOOLEAN /\ task \in [Task -> TaskRow] /\ tasks \in 0..MaxTasks
      /\ objects \subseteq Object /\ unused \subseteq NewKey
  BY <1>1, Knowledge, TaskUpdates DEF TaskRow, PhotosInv, PhotosTypeOK
<1>3. /\ x.pc = "register.commit" /\ photos' = Registered(t) /\ MayRegister(t) /\ rowLock' = None
      /\ UNCHANGED <<objects, unused, inRooms, erasing>>
  BY <1>1 DEF RegisterCommit, RegisterFails, TaskAt
<1>4. rowLock = t /\ Ids(photos) \subseteq Ids(x.seen)
  BY <1>1, <1>3, Knowledge DEF Knows
<1>5. PICK k \in NewKey : k = x.of /\ k \in Fresh /\ k \notin unused
  BY <1>1, <1>3 DEF PhotosInv, FreshIsFresh, Registering, Fresh
<1>6. k \in Name /\ k # None /\ k \notin Bare
  BY Keys, ProfilePhotosAssumption DEF Name
<1>7. PICK id \in Name : photos' = {Photo(id, k, k)} /\ (id = k \/ id \in Ids(photos))
  <2> DEFINE id == IF x.seen = {} THEN k ELSE First(x.seen).id
  <2>1. Without(photos, Ids(x.seen)) = {}
    BY <1>4 DEF Without, Ids
  <2>2. photos' = {Photo(id, k, k)}
    BY <1>1, <1>3, <1>5, <2>1 DEF Registered, Seen
  <2>3. id = k \/ id \in Ids(photos)
    BY <1>1, <1>3 DEF MayRegister, Seen
  <2>4. Ids(photos) \subseteq Name
    BY Knowledge DEF Ids, PhotoRow
  <2> HIDE DEF id
  <2> QED
    BY <1>6, <2>2, <2>3, <2>4
<1>8. PICK new \in PhotoRow : photos' = {new} /\ new.id = id /\ new.key = k /\ new.variants = k
  <2>1. Photo(id, k, k) \in PhotoRow
    BY <1>6 DEF Photo, PhotoRow
  <2>2. Photo(id, k, k).id = id /\ Photo(id, k, k).key = k /\ Photo(id, k, k).variants = k
    BY DEF Photo
  <2> QED
    BY <1>7, <2>1, <2>2
<1>9. ObjectsOfAll(photos') = New(k)
  BY <1>6, <1>8 DEF ObjectsOfAll, ObjectsOf, New
<1>10. New(k) \subseteq Coming
  BY <1>5 DEF Coming
<1>11. PICK e \in TaskRow :
          /\ task' = [task EXCEPT ![t] = e] /\ tasks' \in 0..MaxTasks /\ e.seen \subseteq AllRows
          /\ e.pc = "purge" \/ (e.pc = "register.recover" /\ e.of = k)
          /\ e.drop \cap Coming = {} /\ (e.pc = "purge" => e.drop \cap New(k) = {})
  <2>1. CASE RegisterCommit(t)
    <3>1. ObjectsOfAll(x.seen) \cap Coming = {} /\ ObjectsOfAll(x.seen) \subseteq Object
      BY <1>2, Keys DEF ObjectsOfAll
    <3>2. PICK D \in SUBSET Object : D = ObjectsOfAll(x.seen) \ New(k)
      BY <3>1
    <3>3. Purge(t, D)
      BY <1>1, <1>5, <2>1, <3>2 DEF RegisterCommit, Seen, New
    <3>4. PICK e \in TaskRow : /\ task' = [task EXCEPT ![t] = e] /\ tasks' \in 0..MaxTasks
                               /\ e.pc = "purge" /\ e.seen = {} /\ e.drop = D
      BY <3>3, TaskUpdates
    <3> QED
      BY <3>1, <3>2, <3>4
  <2>2. CASE RegisterFails(t)
    <3>1. PICK e \in TaskRow : e = [x EXCEPT !.pc = "register.recover"]
      BY DEF TaskRow, TaskStep
    <3>2. e.pc = "register.recover" /\ e.of = x.of /\ e.seen = x.seen /\ e.drop = x.drop
      BY <3>1 DEF TaskRow
    <3>3. task' = [task EXCEPT ![t] = e] /\ tasks' = tasks
      BY <1>1, <1>2, <2>2, <3>1 DEF RegisterFails, TaskGoes
    <3> QED
      BY <1>2, <1>5, <3>2, <3>3
  <2> QED
    BY <2>1, <2>2
<1>12. task'[t] = e /\ \A u \in Task \ {t} : task'[u] = task[u]
  BY <1>2, <1>11
<1>13. AllRows' \subseteq AllRows \cup {new}
  BY <1>8, <1>11, <1>12 DEF AllRows
<1>14. Fresh' \subseteq Fresh \ {k}
  <2>1. \A u \in Task \ {t} : task[u].pc \in {"register.read", "register.commit"} => task[u].of # k
    BY <1>1, <1>3, <1>5 DEF PhotosInv, FreshIsFresh, Registering
  <2> QED
    BY <1>3, <1>5, <1>11, <1>12, <2>1 DEF Fresh
<1>15. Bare' \subseteq Bare
  BY <1>6, <1>8, <1>11, <1>12 DEF Bare
<1>16. Coming' \subseteq Coming
  BY <1>14, <1>15 DEF Coming
<1>17. PhotosTypeOK'
  <2>1. task' \in [Task -> TaskRow]
    BY <1>2, <1>11
  <2>2. photos' \subseteq PhotoRow /\ \A p, q \in photos' : p.id = q.id => p = q
    BY <1>8
  <2> QED
    BY <1>2, <1>3, <1>11, <2>1, <2>2 DEF PhotosTypeOK, TaskRow
<1>18. \A p \in AllRows : p.id # k /\ p.key # k /\ p.variants # k
  BY <1>5 DEF PhotosInv, FreshIsFresh
<1>19. KeysHaveOneOwner' /\ BareIsOld'
  <2>1. \A p, q \in AllRows \cup {new} :
            p.id # q.id => p.key # q.key /\ (p.variants = q.variants => p.variants = None)
    BY <1>8, <1>18 DEF PhotosInv, KeysHaveOneOwner
  <2>2. \A p \in AllRows \cup {new} : p.variants = None => p.key \in OldKey
    BY <1>6, <1>8 DEF PhotosInv, BareIsOld
  <2> QED
    BY <1>13, <2>1, <2>2 DEF KeysHaveOneOwner, BareIsOld
<1>20. FreshIsFresh'
  <2>1. \A u \in Task : task'[u].pc \in Registering => task'[u].of \in NewKey \ unused'
    BY <1>3, <1>5, <1>11, <1>12 DEF PhotosInv, FreshIsFresh, Registering
  <2>2. \A u, v \in Task : u # v /\ {task'[u].pc, task'[v].pc} \subseteq Registering => task'[u].of # task'[v].of
    <3>1. \A u, v \in Task : u # v /\ {task[u].pc, task[v].pc} \subseteq Registering => task[u].of # task[v].of
      BY DEF PhotosInv, FreshIsFresh
    <3>2. task[t].pc \in Registering /\ (task'[t].pc \in Registering => task'[t].of = task[t].of)
      BY <1>1, <1>3, <1>5, <1>11, <1>12 DEF Registering
    <3> QED
      BY <1>12, <3>1, <3>2
  <2>3. new.id \notin Fresh' /\ new.key \notin Fresh' /\ new.variants \notin Fresh'
    <3>1. id \notin Fresh'
      BY <1>2, <1>7, <1>14 DEF PhotosInv, FreshIsFresh, Ids
    <3> QED
      BY <1>8, <1>14, <3>1
  <2>4. \A p \in AllRows : p.id \notin Fresh' /\ p.key \notin Fresh' /\ p.variants \notin Fresh'
    BY <1>14 DEF PhotosInv, FreshIsFresh
  <2> QED
    BY <1>13, <2>1, <2>2, <2>3, <2>4 DEF FreshIsFresh
<1>21. BareIsBare'
  BY <1>6, <1>8, <1>13, <1>15 DEF PhotosInv, BareIsBare
<1>22. DropsNothingComing'
  BY <1>11, <1>12, <1>16 DEF PhotosInv, DropsNothingComing
<1>23. DropsNothingShown'
  <2>1. \A u \in Task : task[u].drop \cap New(k) = {}
    BY <1>10 DEF PhotosInv, DropsNothingComing
  <2> QED
    BY <1>9, <1>11, <1>12, <2>1 DEF DropsNothingShown
<1>24. ASSUME NEW u \in Task, u # t PROVE Knows(u)'
  <2>1. Knows(u) /\ task[u].seen \subseteq AllRows /\ task[u].pc # "register.commit"
    BY <1>4, <1>24, Knowledge
  <2>2. task[u].pc = "delete.rooms" => task[u].of \notin Ids(photos')
    <3>1. Ids(photos') = {id}
      BY <1>8 DEF Ids
    <3> QED
      BY <1>7, <1>18, <2>1, <3>1 DEF Knows
  <2>3. task[u].pc = "backfill.write" => \A v \in Task : task'[v].pc = "backfill.write" => v = u
    BY <1>11, <1>12, <2>1 DEF Knows
  <2> QED
    BY <1>12, <1>24, <2>1, <2>2, <2>3 DEF Knows
<1>25. TasksKnow'
  <2>1. Knows(t)'
    BY <1>11, <1>12 DEF Knows
  <2> QED
    BY <1>24, <2>1 DEF TasksKnow
<1>26. Stored'
  <2>1. erasing \/ New(k) \subseteq objects
    BY <1>1, <1>3, <1>5 DEF PhotosInv, Stored
  <2> QED
    BY <1>3, <1>9, <1>11, <1>12, <2>1 DEF PhotosInv, Stored
<1> QED
  BY <1>17, <1>19, <1>20, <1>21, <1>22, <1>23, <1>25, <1>26 DEF PhotosInv

\* The backfill's write: the row with the id it read, whatever key that row has by now,
\* and no other row lacks the variants of the key it read.
LEMMA BackfillSteps ==
    ASSUME PhotosInv, NEW t \in Task, BackfillWrite(t)
    PROVE  PhotosInv'
<1>1. /\ task \in [Task -> TaskRow] /\ photos \subseteq AllRows /\ objects \subseteq Object
      /\ task' = [task EXCEPT ![t] = Rest] /\ tasks' = tasks /\ Rest \in TaskRow
  BY TaskUpdates, Knowledge DEF BackfillWrite, TaskEnds
<1>2. task'[t] = Rest /\ \A u \in Task \ {t} : task'[u] = task[u]
  BY <1>1
<1>3. Rest.pc = "none" /\ Rest.seen = {} /\ Rest.drop = {}
  BY DEF Rest
<1>4. task[t].pc = "backfill.write" /\ UNCHANGED <<objects, unused, inRooms, erasing, rowLock>>
  BY DEF BackfillWrite, TaskAt
<1>5. PICK row \in AllRows : /\ task[t].seen = {row} /\ row.id = task[t].of /\ row.variants = None
                             /\ \A u \in Task : task[u].pc = "backfill.write" => u = t
  BY <1>4, Knowledge DEF Knows
<1>6. First(task[t].seen) = row
  BY <1>5, FirstOfOne
<1>7. PICK k \in OldKey : k = row.key /\ k \in Bare
  BY <1>4, <1>6, Keys DEF Bare
<1>8. k \in Name /\ k # None /\ k \notin Fresh
  BY Keys, ProfilePhotosAssumption DEF Name
<1> DEFINE Done(p) == [p EXCEPT !.variants = k]
<1>9. photos' = {IF p.id = row.id THEN Done(p) ELSE p : p \in photos}
  BY <1>5, <1>6, <1>7 DEF BackfillWrite, Seen
<1>10. \A p \in PhotoRow : Done(p) \in PhotoRow /\ Done(p).id = p.id /\ Done(p).key = p.key /\ Done(p).variants = k
  BY <1>8 DEF PhotoRow
<1> HIDE DEF Done
<1>11. ASSUME NEW q \in photos'
       PROVE  \E p \in photos : /\ q.id = p.id /\ q.key = p.key /\ q \in PhotoRow
                                /\ p.id = row.id => q = Done(p) /\ q.variants = k
                                /\ p.id # row.id => q = p
  BY <1>9, <1>10, Knowledge
<1>12. PhotosTypeOK'
  <2>1. photos' \subseteq PhotoRow /\ \A p, q \in photos' : p.id = q.id => p = q
    BY <1>11 DEF PhotosInv, PhotosTypeOK
  <2>2. task' \in [Task -> TaskRow]
    BY <1>1
  <2> QED
    BY <1>1, <1>4, <2>1, <2>2 DEF PhotosInv, PhotosTypeOK, TaskRow
<1>13. ASSUME NEW q \in AllRows'
       PROVE  \E p \in AllRows : /\ q.id = p.id /\ q.key = p.key
                                 /\ q = p \/ (q.variants = k /\ p.id = row.id)
  BY <1>1, <1>2, <1>3, <1>11 DEF AllRows
<1>14. \A q \in AllRows : q.variants # k
  BY <1>7 DEF PhotosInv, BareIsBare
<1>15. \A q \in AllRows : q.id # row.id => q.key # k
  BY <1>5, <1>7 DEF PhotosInv, KeysHaveOneOwner
<1>16. Fresh' = Fresh
  BY <1>2, <1>3, <1>4 DEF Fresh
<1>17. Bare' \subseteq Bare \ {k}
  <2>1. ASSUME NEW q \in photos', q.variants = None PROVE q.key \in Bare \ {k}
    <3>1. q \in photos /\ q.id # row.id
      BY <1>8, <1>11, <2>1
    <3> QED
      BY <1>1, <1>15, <2>1, <3>1 DEF Bare
  <2>2. \A u \in Task : task'[u].pc # "backfill.write"
    BY <1>2, <1>3, <1>5
  <2> QED
    BY <2>1, <2>2 DEF Bare
<1>18. Coming' \subseteq Coming
  BY <1>16, <1>17 DEF Coming
<1>19. KeysHaveOneOwner'
  <2>1. ASSUME NEW p \in AllRows', NEW q \in AllRows', p.id # q.id
        PROVE  p.key # q.key /\ (p.variants = q.variants => p.variants = None)
    <3>1. PICK p0 \in AllRows : p.id = p0.id /\ p.key = p0.key /\ (p = p0 \/ (p.variants = k /\ p0.id = row.id))
      BY <1>13
    <3>2. PICK q0 \in AllRows : q.id = q0.id /\ q.key = q0.key /\ (q = q0 \/ (q.variants = k /\ q0.id = row.id))
      BY <1>13
    <3>3. p0.key # q0.key /\ (p0.variants = q0.variants => p0.variants = None)
      BY <2>1, <3>1, <3>2 DEF PhotosInv, KeysHaveOneOwner
    <3> QED
      BY <1>14, <2>1, <3>1, <3>2, <3>3
  <2> QED
    BY <2>1 DEF KeysHaveOneOwner
<1>20. BareIsOld'
  <2>1. \A q \in AllRows' : q.variants = None => q.key \in OldKey
    BY <1>8, <1>13 DEF PhotosInv, BareIsOld
  <2> QED
    BY <2>1 DEF BareIsOld
<1>21. FreshIsFresh'
  <2>1. \A q \in AllRows' : q.id \notin Fresh /\ q.key \notin Fresh /\ q.variants \notin Fresh
    BY <1>8, <1>13 DEF PhotosInv, FreshIsFresh
  <2>2. \A u \in Task : task'[u].pc \in Registering => u # t
    BY <1>2, <1>3 DEF Registering
  <2> QED
    BY <1>2, <1>4, <1>16, <2>1, <2>2 DEF PhotosInv, FreshIsFresh
<1>22. BareIsBare'
  <2>1. \A q \in AllRows' : q.variants \notin Bare'
    BY <1>13, <1>17 DEF PhotosInv, BareIsBare
  <2> QED
    BY <2>1 DEF BareIsBare
<1>23. DropsNothingComing'
  BY <1>2, <1>3, <1>18 DEF PhotosInv, DropsNothingComing
<1>24. ObjectsOfAll(photos') \subseteq ObjectsOfAll(photos) \cup {Variants(k)}
  <2>1. ASSUME NEW q \in photos' PROVE ObjectsOf(q) \subseteq ObjectsOfAll(photos) \cup {Variants(k)}
    <3>1. PICK p \in photos : q.key = p.key /\ (q = p \/ q.variants = k)
      BY <1>11
    <3>2. ObjectsOf(q) \subseteq ObjectsOf(p) \cup {Variants(k)}
      BY <3>1 DEF ObjectsOf
    <3> QED
      BY <3>2 DEF ObjectsOfAll
  <2> QED
    BY <2>1 DEF ObjectsOfAll
<1>25. Variants(k) \in Coming
  BY <1>7 DEF Coming
<1>26. DropsNothingShown'
  <2>1. \A u \in Task : task[u].drop \cap {Variants(k)} = {}
    BY <1>25 DEF PhotosInv, DropsNothingComing
  <2> QED
    BY <1>2, <1>3, <1>24, <2>1 DEF PhotosInv, DropsNothingShown
<1>27. Ids(photos') = Ids(photos)
  BY <1>9, <1>10, Knowledge DEF Ids
<1>28. TasksKnow'
  BY <1>2, <1>3, <1>4, <1>27 DEF PhotosInv, TasksKnow, Knows
<1>29. Stored'
  <2>1. erasing \/ (ObjectsOfAll(photos) \subseteq objects /\ Variants(k) \in objects)
    BY <1>4, <1>6, <1>7 DEF PhotosInv, Stored
  <2> QED
    BY <1>2, <1>3, <1>4, <1>24, <2>1 DEF PhotosInv, Stored
<1> QED
  BY <1>12, <1>19, <1>20, <1>21, <1>22, <1>23, <1>26, <1>28, <1>29 DEF PhotosInv

LEMMA PhotosSteps == PhotosInv /\ [PhotosNext]_photoVars => PhotosInv'
<1> SUFFICES ASSUME PhotosInv, [PhotosNext]_photoVars PROVE PhotosInv'
  OBVIOUS
<1>1. CASE UNCHANGED <<photos, objects, unused, rowLock, erasing, task, tasks>> /\ inRooms' \in BOOLEAN
  <2>1. AllRows' = AllRows /\ Fresh' = Fresh /\ Bare' = Bare
    BY <1>1 DEF AllRows, Fresh, Bare
  <2>2. Coming' = Coming
    BY <2>1 DEF Coming
  <2>3. PhotosTypeOK' /\ DropsNothingShown' /\ TasksKnow' /\ Stored'
    BY <1>1 DEF PhotosInv, PhotosTypeOK, DropsNothingShown, TasksKnow, Knows, Stored
  <2>4. KeysHaveOneOwner' /\ BareIsOld' /\ FreshIsFresh' /\ BareIsBare' /\ DropsNothingComing'
    BY <1>1, <2>1, <2>2 DEF PhotosInv, KeysHaveOneOwner, BareIsOld, FreshIsFresh, BareIsBare, DropsNothingComing
  <2> QED
    BY <2>3, <2>4 DEF PhotosInv
<1>2. CASE UseRoom \/ UNCHANGED photoVars
  BY <1>1, <1>2 DEF UseRoom, photoVars, PhotosInv, PhotosTypeOK
<1>3. ASSUME NEW t \in Task,
             Dies(t) \/ PurgeObjects(t) \/ JoinWrite(t) \/ EraseRows(t) PROVE PhotosInv'
  BY <1>3, EndSteps
<1>4. ASSUME NEW t \in Task,
             \/ \E k \in NewKey : Register(t, k)
             \/ RegisterRead(t) \/ RegisterFails(t) \/ RegisterRecover(t) \/ RegisterCommit(t)
      PROVE PhotosInv'
  BY <1>4, RegisteringSteps, CommitSteps
<1>5. ASSUME NEW t \in Task, \E row \in photos : Delete(t, row) \/ Backfill(t, row) PROVE PhotosInv'
  BY <1>5, StartSteps, RegisteringSteps
<1>6. ASSUME NEW t \in Task, JoinRoom(t) \/ Erase(t) \/ Manifest(t) \/ BackfillWrite(t) PROVE PhotosInv'
  BY <1>6, StartSteps, BackfillSteps
<1>7. ASSUME NEW t \in Task,
             DeleteCount(t) \/ DeleteRow(t) \/ DeleteRooms(t) \/ EraseObjects(t) \/ Apply(t) \/ Unreferenced(t)
      PROVE PhotosInv'
  BY <1>7, GoingSteps
<1> QED
  BY <1>2, <1>3, <1>4, <1>5, <1>6, <1>7 DEF PhotosNext

LEMMA PhotosHold == PhotosSpec => []PhotosInv
  BY PhotosStart, PhotosSteps, PTL DEF PhotosSpec

\* Photos have rows with ids of their own, and what tasks have read and drop are rows and
\* objects (profiles.service.ts).
THEOREM PhotosAreWellTyped == PhotosSpec => []PhotosTypeOK
<1>1. PhotosInv => PhotosTypeOK
  BY DEF PhotosInv
<1> QED
  BY <1>1, PhotosHold, PTL

\* Every photo a profile shows is in S3, however replacements, half answered
\* registrations, deletes, the backfill and the consolidation cross each other
\* (profiles.service.ts, consolidate-profile-photos.ts), until an erasure begins.
THEOREM ProfilesShowWhatIsStored == PhotosSpec => []PhotosAreStored
<1>1. PhotosInv => PhotosAreStored
  BY DEF PhotosInv, Stored, PhotosAreStored
<1> QED
  BY <1>1, PhotosHold, PTL

-----------------------------------------------------------------------------
(*************************************************************************)
(* The walk through the people of a state. Whoever was there all along   *)
(* is listed or comes after the cursor (Reaches), and each page reaches  *)
(* as far as its cursor (PageReaches): some people in a row have a       *)
(* first and a last, which follows from the inclusion of finite sets     *)
(* being well founded.                                                   *)
(*************************************************************************)

\* The ranking is a strict order of all.
LEMMA RankingIsAnOrder ==
    ASSUME NEW st \in [Others -> Standing]
    PROVE  /\ \A x \in Others : ~Before(st, x, x)
           /\ \A x, y \in Others : x = y \/ Before(st, x, y) \/ Before(st, y, x)
           /\ \A x, y, z \in Others : Before(st, x, y) /\ Before(st, y, z) => Before(st, x, z)
           /\ \A x, y \in Others : ~(Before(st, x, y) /\ Before(st, y, x))
<1>1. \A x \in Others : x \in Int /\ st[x].score \in Int
  BY DiscoveryWalkAssumption DEF Standing
<1> QED
  BY <1>1 DEF Before

\* Some people have a first and a last of them.
LEMMA FirstAndLast ==
    ASSUME NEW st \in [Others -> Standing], NEW U \in SUBSET Others, U # {}
    PROVE  /\ \E x \in U : \A y \in U : y = x \/ Before(st, x, y)
           /\ \E x \in U : \A y \in U : y = x \/ Before(st, y, x)
<1> DEFINE R == StrictSubsetOrdering(Others)
           Above(x) == {y \in U : Before(st, y, x)}
           Below(x) == {y \in U : Before(st, x, y)}
<1>1. IsWellFoundedOn(R, SUBSET Others)
  BY FS_FiniteSubsetsOfFinite, FS_StrictSubsetOrderingWellFounded, DiscoveryWalkAssumption
<1>2. ASSUME NEW T \in SUBSET (SUBSET Others), T # {} PROVE \E A \in T : \A B \in T : <<B, A>> \notin R
  BY <1>1, <1>2, WFMin
<1>3. \A A, B \in SUBSET Others : B \subseteq A /\ B # A => <<B, A>> \in R
  BY DEF StrictSubsetOrdering
<1> HIDE DEF R
<1>4. PICK x \in U : \A y \in U : ~(Above(y) \subseteq Above(x) /\ Above(y) # Above(x))
  <2>1. {Above(x) : x \in U} \in SUBSET (SUBSET Others) /\ {Above(x) : x \in U} # {}
    OBVIOUS
  <2>2. \A x \in U : Above(x) \in SUBSET Others
    OBVIOUS
  <2> HIDE DEF Above
  <2>3. PICK A \in {Above(x) : x \in U} : \A B \in {Above(x) : x \in U} : <<B, A>> \notin R
    BY <1>2, <2>1
  <2>4. PICK a \in U : A = Above(a)
    BY <2>3
  <2>5. \A y \in U : <<Above(y), Above(a)>> \notin R
    BY <2>3, <2>4
  <2>6. \A y \in U : ~(Above(y) \subseteq Above(a) /\ Above(y) # Above(a))
    BY <1>3, <2>2, <2>5
  <2> QED
    BY <2>6
<1>5. \A y \in U : y = x \/ Before(st, x, y)
  <2>1. ASSUME NEW y \in U, y # x, ~Before(st, x, y) PROVE FALSE
    <3>1. y \in Above(x) /\ y \notin Above(y)
      BY <2>1, RankingIsAnOrder
    <3>2. Above(y) \subseteq Above(x)
      BY <3>1, RankingIsAnOrder
    <3> QED
      BY <1>4, <3>1, <3>2
  <2> QED
    BY <2>1
<1>6. PICK z \in U : \A y \in U : ~(Below(y) \subseteq Below(z) /\ Below(y) # Below(z))
  <2>1. {Below(z) : z \in U} \in SUBSET (SUBSET Others) /\ {Below(z) : z \in U} # {}
    OBVIOUS
  <2>2. \A z \in U : Below(z) \in SUBSET Others
    OBVIOUS
  <2> HIDE DEF Below
  <2>3. PICK A \in {Below(z) : z \in U} : \A B \in {Below(z) : z \in U} : <<B, A>> \notin R
    BY <1>2, <2>1
  <2>4. PICK a \in U : A = Below(a)
    BY <2>3
  <2>5. \A y \in U : <<Below(y), Below(a)>> \notin R
    BY <2>3, <2>4
  <2>6. \A y \in U : ~(Below(y) \subseteq Below(a) /\ Below(y) # Below(a))
    BY <1>3, <2>2, <2>5
  <2> QED
    BY <2>6
<1>7. \A y \in U : y = z \/ Before(st, y, z)
  <2>1. ASSUME NEW y \in U, y # z, ~Before(st, y, z) PROVE FALSE
    <3>1. y \in Below(z) /\ y \notin Below(y)
      BY <2>1, RankingIsAnOrder
    <3>2. Below(y) \subseteq Below(z)
      BY <3>1, RankingIsAnOrder
    <3> QED
      BY <1>6, <3>1, <3>2
  <2> QED
    BY <2>1
<1> QED
  BY <1>5, <1>7

\* A page and its cursor pass over nobody who comes after the cursor before.
LEMMA PageReaches ==
    ASSUME standing \in [Others -> Standing], NEW c \in Others \cup {0}
    PROVE  /\ PageAfter(c) \in SUBSET Others /\ NextAfter(c) \in Others \cup {0}
           /\ \A x \in After(c) : x \in PageAfter(c) \/ (NextAfter(c) # 0 /\ Before(standing, NextAfter(c), x))
<1> DEFINE Ahead(x) == {y \in After(c) : Before(standing, y, x)}
           A == After(c)
           P == PageAfter(c)
<1>1. A \in SUBSET Others /\ P = {x \in A : Cardinality(Ahead(x)) < PageSize} /\ PageSize \in Nat \ {0}
  BY DiscoveryWalkAssumption DEF After, Pool, PageAfter
<1>2. IsFiniteSet(A) /\ Cardinality(A) \in Nat
  BY <1>1, FS_Subset, FS_CardinalityType, DiscoveryWalkAssumption
<1>3. \A x \in A : Ahead(x) \in SUBSET A /\ x \notin Ahead(x)
  BY <1>1, RankingIsAnOrder
<1>4. \A x, y \in A : Before(standing, x, y) => Ahead(x) \in SUBSET Ahead(y)
  BY <1>1, RankingIsAnOrder
<1>5. \A x \in A : Ahead(x) = {} <=> \A y \in A : ~Before(standing, y, x)
  OBVIOUS
<1>6. NextAfter(c) = IF Cardinality(A) <= PageSize THEN 0 ELSE CHOOSE x \in P : \A y \in P : y = x \/ Before(standing, y, x)
  BY DEF NextAfter
<1> HIDE DEF A, P, Ahead
<1>7. \A x \in A : IsFiniteSet(Ahead(x)) /\ Cardinality(Ahead(x)) \in Nat
  BY <1>2, <1>3, FS_Subset, FS_CardinalityType
<1>8. CASE Cardinality(A) <= PageSize
  <2>1. ASSUME NEW x \in A PROVE x \in P
    <3>1. Cardinality(Ahead(x)) <= Cardinality(A) /\ Cardinality(Ahead(x)) # Cardinality(A)
      BY <1>2, <1>3, FS_Subset
    <3> QED
      BY <1>1, <1>2, <1>7, <1>8, <3>1
  <2> QED
    BY <1>1, <1>6, <1>8, <2>1 DEF A, P
<1>9. CASE ~(Cardinality(A) <= PageSize)
  <2>1. A # {}
    BY <1>1, <1>2, <1>9, FS_EmptySet
  <2>2. PICK f \in A : \A y \in A : y = f \/ Before(standing, f, y)
    BY <1>1, <2>1, FirstAndLast
  <2>3. f \in P
    <3>1. Ahead(f) = {}
      BY <1>1, <1>5, <2>2, RankingIsAnOrder
    <3>2. Cardinality(Ahead(f)) = 0
      BY <3>1, FS_EmptySet
    <3> QED
      BY <1>1, <3>2
  <2>4. \E n \in P : \A y \in P : y = n \/ Before(standing, y, n)
    BY <1>1, <2>3, FirstAndLast
  <2>5. PICK n \in P : n = NextAfter(c) /\ \A y \in P : y = n \/ Before(standing, y, n)
    BY <1>6, <1>9, <2>4
  <2>6. n \in A /\ n \in Others /\ n # 0
    BY <1>1, <2>5, DiscoveryWalkAssumption
  <2>7. ASSUME NEW x \in A, x \notin P PROVE Before(standing, n, x)
    <3>1. ASSUME Before(standing, x, n) PROVE FALSE
      <4>1. Ahead(x) \in SUBSET Ahead(n) /\ IsFiniteSet(Ahead(n))
        BY <1>4, <1>7, <2>6, <3>1
      <4>2. Cardinality(Ahead(x)) <= Cardinality(Ahead(n))
        BY <4>1, FS_Subset
      <4> QED
        BY <1>1, <1>7, <2>5, <2>6, <2>7, <4>2
    <3> QED
      BY <1>1, <2>5, <2>6, <2>7, <3>1, RankingIsAnOrder
  <2> QED
    BY <1>1, <2>5, <2>6, <2>7 DEF A, P
<1> QED
  BY <1>8, <1>9
\* Whoever was there all along is listed or comes after the cursor.
Reaches(shown, cursor) == \A x \in steady : x \in shown \/ (cursor # 0 /\ Before(standing, cursor, x))

WalkInv ==
    /\ DiscoveryTypeOK
    /\ whole => search.at = "idle"
    /\ whole \/ search.at = "read" => steady \subseteq Pool
    /\ whole => Reaches(people, nextCursor)
    /\ whole /\ more.awaited => Reaches(people \cup more.page, more.next)
    /\ search.at = "read" => Reaches(search.page, search.next)

LEMMA Answers ==
    /\ NoSearch \in [at : {"idle", "asked", "read"}, page : SUBSET Others, next : Others \cup {0}] /\ NoSearch.at = "idle"
    /\ NoAnswer \in [awaited : BOOLEAN, page : SUBSET Others, next : Others \cup {0}] /\ ~NoAnswer.awaited
    /\ [NoSearch EXCEPT !.at = "asked"] \in [at : {"idle", "asked", "read"}, page : SUBSET Others, next : Others \cup {0}]
    /\ [NoSearch EXCEPT !.at = "asked"].at = "asked"
  BY DEF NoSearch, NoAnswer

LEMMA WalkStarts == DiscoveryInit => WalkInv
<1> SUFFICES ASSUME DiscoveryInit PROVE WalkInv
  OBVIOUS
<1> USE DEF DiscoveryInit
<1>1. standing \in [Others -> Standing] /\ own \in [home : Home, live : BOOLEAN]
  OBVIOUS
<1>2. moves \in 0..MaxMoves /\ searches \in 0..MaxSearches
  BY DiscoveryWalkAssumption
<1>3. DiscoveryTypeOK
  BY <1>1, <1>2, Answers DEF DiscoveryTypeOK
<1> QED
  BY <1>3, Answers DEF WalkInv

\* The others change: whoever stays on the way keeps what was ahead of them ahead.
LEMMA OthersChange ==
    ASSUME WalkInv, NEW x \in Others, Moves(x) \/ Blocks(x)
    PROVE  WalkInv'
<1>1. /\ standing \in [Others -> Standing] /\ own \in [home : Home, live : BOOLEAN] /\ people \subseteq Others
      /\ nextCursor \in Others \cup {0}
      /\ search \in [at : {"idle", "asked", "read"}, page : SUBSET Others, next : Others \cup {0}]
      /\ more \in [awaited : BOOLEAN, page : SUBSET Others, next : Others \cup {0}]
  BY DEF WalkInv, DiscoveryTypeOK
<1>2. UNCHANGED <<own, nextCursor, searched, search, more, whole, searches>> /\ steady' = Stay(standing')
      /\ moves < MaxMoves /\ moves' = moves + 1
  BY DEF Moves, Blocks
<1>3. standing' \in [Others -> Standing]
  <2>1. CASE Moves(x)
    BY <1>1, <2>1 DEF Moves
  <2>2. CASE Blocks(x)
    <3>1. PICK s \in Standing : s = standing[x]
      BY <1>1
    <3>2. PICK gone \in Standing : gone = [s EXCEPT !.home = Away]
      BY DEF Standing
    <3>3. standing' = [standing EXCEPT ![x] = gone]
      BY <1>1, <2>2, <3>1, <3>2 DEF Blocks
    <3> QED
      BY <1>1, <3>3
  <2> QED
    BY <2>1, <2>2
<1>4. /\ steady' \subseteq steady /\ \A y \in steady' : standing'[y].home = own.home
      /\ \A y \in steady', z \in Others : Before(standing, z, y) => Before(standing', z, y)
  BY <1>2 DEF Stay
<1>5. steady' \subseteq Others /\ steady' \subseteq Pool'
  BY <1>2, <1>4 DEF WalkInv, DiscoveryTypeOK, Pool
<1>6. people' \subseteq people /\ people \cap steady' \subseteq people'
  <2>1. CASE Moves(x)
    BY <2>1 DEF Moves
  <2>2. CASE Blocks(x)
    <3>1. standing'[x].home = Away
      BY <1>1, <2>2 DEF Blocks, Standing
    <3>2. x \notin steady'
      BY <1>1, <1>4, <3>1, DiscoveryWalkAssumption
    <3> QED
      BY <2>2, <3>2 DEF Blocks
  <2> QED
    BY <2>1, <2>2
<1>7. DiscoveryTypeOK'
  <2>1. moves' \in 0..MaxMoves
    BY <1>2, DiscoveryWalkAssumption DEF WalkInv, DiscoveryTypeOK
  <2> QED
    BY <1>2, <1>3, <1>5, <1>6, <2>1 DEF WalkInv, DiscoveryTypeOK
<1>8. ASSUME NEW A \in SUBSET Others, NEW B \in SUBSET Others, NEW c \in Others \cup {0}, Reaches(A, c), A \cap steady' \subseteq B
      PROVE  Reaches(B, c)'
  BY <1>4, <1>8 DEF Reaches
<1>9. whole' => Reaches(people, nextCursor)'
  BY <1>1, <1>2, <1>6, <1>8 DEF WalkInv, Reaches
<1>10. whole' /\ more'.awaited => Reaches(people \cup more.page, more.next)'
  BY <1>1, <1>2, <1>4, <1>6 DEF WalkInv, Reaches
<1>11. search'.at = "read" => Reaches(search.page, search.next)'
  BY <1>1, <1>2, <1>4 DEF WalkInv, Reaches
<1> QED
  BY <1>2, <1>5, <1>7, <1>9, <1>10, <1>11 DEF WalkInv

LEMMA WalkSteps == WalkInv /\ [DiscoveryNext]_discoveryVars => WalkInv'
<1> SUFFICES ASSUME WalkInv, [DiscoveryNext]_discoveryVars PROVE WalkInv'
  OBVIOUS
<1>1. /\ standing \in [Others -> Standing] /\ own \in [home : Home, live : BOOLEAN] /\ people \subseteq Others
      /\ nextCursor \in Others \cup {0} /\ searched \in BOOLEAN /\ whole \in BOOLEAN /\ steady \subseteq Others
      /\ search \in [at : {"idle", "asked", "read"}, page : SUBSET Others, next : Others \cup {0}]
      /\ more \in [awaited : BOOLEAN, page : SUBSET Others, next : Others \cup {0}]
      /\ moves \in 0..MaxMoves /\ searches \in 0..MaxSearches
  BY DEF WalkInv, DiscoveryTypeOK
<1>2. ASSUME NEW c \in Others \cup {0}
      PROVE  /\ PageAfter(c) \in SUBSET Others /\ NextAfter(c) \in Others \cup {0}
             /\ \A x \in After(c) : x \in PageAfter(c) \/ (NextAfter(c) # 0 /\ Before(standing, NextAfter(c), x))
  BY <1>1, PageReaches
<1>3. ASSUME NEW h \in Home, Searches(h) PROVE WalkInv'
  <2>1. UNCHANGED <<standing, people, nextCursor, searched, more, steady, moves>> /\ whole' = FALSE
        /\ search' = [NoSearch EXCEPT !.at = "asked"] /\ own' = [own EXCEPT !.home = h]
        /\ searches < MaxSearches /\ searches' = searches + 1
    BY <1>3 DEF Searches
  <2>2. own' \in [home : Home, live : BOOLEAN]
    BY <1>1, <2>1
  <2>3. searches' \in 0..MaxSearches
    BY <1>1, <2>1, DiscoveryWalkAssumption
  <2>4. DiscoveryTypeOK'
    BY <1>1, <2>1, <2>2, <2>3, Answers DEF DiscoveryTypeOK
  <2> QED
    BY <2>1, <2>4, Answers DEF WalkInv
<1>4. CASE EntersPool
  <2>1. UNCHANGED <<standing, people, nextCursor, searched, more, steady, moves>> /\ whole' = FALSE
        /\ search' = [NoSearch EXCEPT !.at = "asked"] /\ own' = [own EXCEPT !.live = TRUE]
        /\ searches < MaxSearches /\ searches' = searches + 1
    BY <1>4 DEF EntersPool
  <2>2. own' \in [home : Home, live : BOOLEAN]
    BY <1>1, <2>1
  <2>3. searches' \in 0..MaxSearches
    BY <1>1, <2>1, DiscoveryWalkAssumption
  <2>4. DiscoveryTypeOK'
    BY <1>1, <2>1, <2>2, <2>3, Answers DEF DiscoveryTypeOK
  <2> QED
    BY <2>1, <2>4, Answers DEF WalkInv
<1>5. CASE ListIsRead
  <2>1. UNCHANGED <<standing, own, people, nextCursor, searched, more, whole, moves, searches>> /\ steady' = Pool
        /\ search.at = "asked" /\ search' = [at |-> "read", page |-> PageAfter(0), next |-> NextAfter(0)]
    BY <1>5 DEF ListIsRead
  <2>2. search'.at = "read" /\ search'.page = PageAfter(0) /\ search'.next = NextAfter(0)
        /\ search' \in [at : {"idle", "asked", "read"}, page : SUBSET Others, next : Others \cup {0}]
    BY <1>2, <2>1
  <2>3. DiscoveryTypeOK'
    BY <1>1, <2>1, <2>2 DEF DiscoveryTypeOK, Pool
  <2>4. ~whole /\ Pool' = Pool
    BY <2>1 DEF WalkInv, Pool
  <2>5. \A x \in Pool : x \in PageAfter(0) \/ (NextAfter(0) # 0 /\ Before(standing, NextAfter(0), x))
    BY <1>2 DEF After
  <2>6. Reaches(search.page, search.next)'
    BY <2>1, <2>2, <2>5 DEF Reaches
  <2> QED
    BY <2>1, <2>3, <2>4, <2>6 DEF WalkInv
<1>6. CASE ListBegins
  <2>1. /\ UNCHANGED <<standing, own, more, steady, moves, searches>> /\ search.at = "read" /\ search' = NoSearch
        /\ people' = search.page /\ nextCursor' = search.next /\ searched' = TRUE /\ whole' = ~more.awaited
    BY <1>6 DEF ListBegins
  <2>2. DiscoveryTypeOK'
    BY <1>1, <2>1, Answers DEF DiscoveryTypeOK
  <2>3. Pool' = Pool /\ steady \subseteq Pool
    BY <2>1 DEF WalkInv, Pool
  <2>4. Reaches(people, nextCursor)'
    BY <2>1 DEF WalkInv, Reaches
  <2> QED
    BY <2>1, <2>2, <2>3, <2>4, Answers DEF WalkInv
<1>7. CASE SearchFails \/ MoreFails
  <2>1. /\ UNCHANGED <<standing, own, people, nextCursor, searched, steady, whole, moves, searches>>
        /\ search' \in {search, NoSearch} /\ more' \in {more, NoAnswer}
    BY <1>7 DEF SearchFails, MoreFails
  <2>2. DiscoveryTypeOK'
    BY <1>1, <2>1, Answers DEF DiscoveryTypeOK
  <2>3. Pool' = Pool
    BY <2>1 DEF Pool
  <2> QED
    BY <2>1, <2>2, <2>3, Answers DEF WalkInv, Reaches
<1>8. CASE AsksMore
  <2>1. /\ UNCHANGED <<standing, own, people, nextCursor, searched, search, steady, whole, moves, searches>>
        /\ nextCursor # 0 /\ more' = [awaited |-> TRUE, page |-> PageAfter(nextCursor), next |-> NextAfter(nextCursor)]
    BY <1>8 DEF AsksMore
  <2>2. more' \in [awaited : BOOLEAN, page : SUBSET Others, next : Others \cup {0}]
        /\ more'.page = PageAfter(nextCursor) /\ more'.next = NextAfter(nextCursor)
    BY <1>1, <1>2, <2>1
  <2>3. DiscoveryTypeOK' /\ Pool' = Pool
    BY <1>1, <2>1, <2>2 DEF DiscoveryTypeOK, Pool
  <2>4. ASSUME whole PROVE Reaches(people \cup more.page, more.next)'
    <3>1. ASSUME NEW x \in steady, x \notin people
          PROVE  x \in PageAfter(nextCursor) \/ (NextAfter(nextCursor) # 0 /\ Before(standing, NextAfter(nextCursor), x))
      <4>1. x \in Pool /\ Before(standing, nextCursor, x)
        BY <2>4, <3>1 DEF WalkInv, Reaches
      <4>2. x \in After(nextCursor)
        BY <2>1, <4>1 DEF After
      <4> QED
        BY <1>1, <1>2, <4>2
    <3> QED
      BY <2>1, <2>2, <3>1 DEF Reaches
  <2>5. whole => Reaches(people, nextCursor)'
    BY <2>1 DEF WalkInv, Reaches
  <2>6. search.at = "read" => Reaches(search.page, search.next)'
    BY <2>1 DEF WalkInv, Reaches
  <2> QED
    BY <2>1, <2>3, <2>4, <2>5, <2>6 DEF WalkInv
<1>9. CASE MoreArrives
  <2>1. /\ UNCHANGED <<standing, own, searched, search, steady, whole, moves, searches>> /\ more.awaited
        /\ people' = people \cup more.page /\ nextCursor' = more.next /\ more' = NoAnswer
    BY <1>9 DEF MoreArrives
  <2>2. DiscoveryTypeOK' /\ Pool' = Pool
    BY <1>1, <2>1, Answers DEF DiscoveryTypeOK, Pool
  <2>3. whole => Reaches(people, nextCursor)'
    BY <2>1 DEF WalkInv, Reaches
  <2>4. search.at = "read" => Reaches(search.page, search.next)'
    BY <2>1 DEF WalkInv, Reaches
  <2> QED
    BY <2>1, <2>2, <2>3, <2>4, Answers DEF WalkInv
<1>10. CASE LeavesPool
  <2>1. /\ UNCHANGED <<standing, search, more, steady, moves, searches>> /\ own' = [own EXCEPT !.live = FALSE]
        /\ people' = {} /\ nextCursor' = 0 /\ searched' = FALSE /\ whole' = FALSE
    BY <1>10 DEF LeavesPool
  <2>2. own' \in [home : Home, live : BOOLEAN] /\ own'.home = own.home
    BY <1>1, <2>1
  <2>3. DiscoveryTypeOK' /\ Pool' = Pool
    BY <1>1, <2>1, <2>2 DEF DiscoveryTypeOK, Pool
  <2>4. search.at = "read" => Reaches(search.page, search.next)'
    BY <2>1 DEF WalkInv, Reaches
  <2> QED
    BY <2>1, <2>3, <2>4 DEF WalkInv
<1>11. CASE UNCHANGED discoveryVars
  BY <1>11 DEF discoveryVars, WalkInv, DiscoveryTypeOK, Reaches, Pool
<1> QED
  BY <1>3, <1>4, <1>5, <1>6, <1>7, <1>8, <1>9, <1>10, <1>11, OthersChange DEF DiscoveryNext

LEMMA WalkHolds == DiscoverySpec => []WalkInv
  BY WalkStarts, WalkSteps, PTL DEF DiscoverySpec

\* The list, the cursor and the answers under way are of other members (discovery-tab.tsx).
THEOREM WalksAreWellTyped == DiscoverySpec => []DiscoveryTypeOK
<1>1. WalkInv => DiscoveryTypeOK
  BY DEF WalkInv
<1> QED
  BY <1>1, WalkHolds, PTL

\* Whoever is discoverable from the first page to the last, and behind whom nobody ranked
\* above them fell, is listed when the list ends, for every page size and whatever the
\* others do between two pages (discovery.service.ts, discovery-tab.tsx).
THEOREM TheWalkMeetsEverybody == DiscoverySpec => []NobodyIsSkipped
<1>1. WalkInv => NobodyIsSkipped
  BY DEF WalkInv, Reaches, NobodyIsSkipped
<1> QED
  BY <1>1, WalkHolds, PTL

-----------------------------------------------------------------------------
(*************************************************************************)
(* Alerts. Only what the page has shown is marked, and an entity id      *)
(* names what its alert is about.                                        *)
(*************************************************************************)

ShownIds == {EntityId(a[1], a[2]) : a \in listed}

\* Only what was shown is marked, and what is in front was shown.
AlertsInv ==
    /\ {a \in feedPage.feed : a[1] \in KindsOf(feedPage.tab) \cup {"EVENT_PUBLISHED"}} \subseteq listed
    /\ marked \subseteq ShownIds
    /\ \A m \in marks : m \subseteq ShownIds

\* An entity id names what its alert is about.
LEMMA IdsAreAbout ==
    ASSUME NEW a, NEW b, EntityId(a[1], a[2]) = EntityId(b[1], b[2])
    PROVE  b[1] = a[1] /\ About(a[1], b[2]) = About(a[1], a[2])
<1>1. b[1] = a[1]
  BY DEF EntityId
<1> QED
  BY <1>1 DEF EntityId, About

\* The page is the record its query and its effects work on.
PageShape ==
    feedPage = [tab |-> feedPage.tab, feed |-> feedPage.feed, effects |-> feedPage.effects,
                submitted |-> feedPage.submitted, loading |-> feedPage.loading,
                before |-> feedPage.before, rows |-> feedPage.rows]

FeedInv == AlertsInv /\ PageShape

LEMMA AlertsStart == AlertsInit => FeedInv
<1> SUFFICES ASSUME AlertsInit PROVE FeedInv
  OBVIOUS
<1>1. PageShape
  BY DEF AlertsInit, PageShape, EmptyPage
<1>2. feedPage.feed = {} /\ listed = {} /\ marked = {} /\ marks = {}
  BY DEF AlertsInit, EmptyPage
<1> QED
  BY <1>1, <1>2 DEF FeedInv, AlertsInv

\* The rows change, a query begins, an effect finds nothing to mark: nothing else moves.
LEMMA FeedStays ==
    ASSUME FeedInv, listed \subseteq listed', PageShape',
           {a \in feedPage'.feed : a[1] \in KindsOf(feedPage'.tab) \cup {"EVENT_PUBLISHED"}} \subseteq listed',
           \A i \in marked' : i \in marked \/ i \in ShownIds,
           \A m \in marks' : m \in marks \/ m \subseteq ShownIds
    PROVE  FeedInv'
<1>1. ShownIds \subseteq ShownIds'
  BY DEF ShownIds
<1> QED
  BY <1>1 DEF FeedInv, AlertsInv

\* What an effect or a click sends was shown.
LEMMA SentWasShown ==
    ASSUME FeedInv, NEW kinds, kinds \subseteq KindsOf(feedPage.tab) \cup {"EVENT_PUBLISHED"}, Sends(ItemsOf(kinds))
    PROVE  \A m \in marks' : m \in marks \/ m \subseteq ShownIds
<1>1. ItemsOf(kinds) \subseteq ShownIds
  BY DEF ItemsOf, ShownIds, FeedInv, AlertsInv
<1> QED
  BY <1>1 DEF Sends

LEMMA AlertsSteps == FeedInv /\ [AlertsNext]_alertVars => FeedInv'
<1> SUFFICES ASSUME FeedInv, [AlertsNext]_alertVars PROVE FeedInv'
  OBVIOUS
<1>0. /\ PageShape
      /\ {a \in feedPage.feed : a[1] \in KindsOf(feedPage.tab) \cup {"EVENT_PUBLISHED"}} \subseteq listed
      /\ marked \subseteq ShownIds /\ \A m \in marks : m \subseteq ShownIds
  BY DEF FeedInv, AlertsInv
<1>1. CASE UNCHANGED pageVars
  BY <1>0, <1>1, FeedStays DEF pageVars, PageShape
<1>2. CASE EventChanges \/ SeatChanges \/ PaymentChanges \/ MembershipChanges \/ TimePasses \/ ReportChanges
  BY <1>1, <1>2 DEF EventChanges, SeatChanges, PaymentChanges, MembershipChanges, TimePasses, ReportChanges, Happens
<1>3. CASE SwitchesTab
  <2>1. PICK t : /\ feedPage' = [feedPage EXCEPT !.tab = t, !.effects = @ \cup {"tab"}]
                 /\ listed' = Sees(t, feedPage.feed)
    BY <1>3 DEF SwitchesTab
  <2>2. feedPage'.tab = t /\ feedPage'.feed = feedPage.feed /\ PageShape'
    BY <1>0, <2>1 DEF PageShape
  <2>3. marked' = marked /\ marks' = marks
    BY <1>3 DEF SwitchesTab
  <2>4. listed' = listed \cup {a \in feedPage.feed : a[1] \in KindsOf(t) \cup {"EVENT_PUBLISHED"}}
    BY <2>1 DEF Sees
  <2> QED
    BY <1>0, <2>2, <2>3, <2>4, FeedStays
<1>4. CASE Refetches
  <2>1. feedPage'.tab = feedPage.tab /\ feedPage'.feed = feedPage.feed /\ PageShape'
    BY <1>0, <1>4 DEF Refetches, Loads, PageShape
  <2>2. listed' = listed /\ marked' = marked /\ marks' = marks
    BY <1>4 DEF Refetches
  <2> QED
    BY <1>0, <2>1, <2>2, FeedStays
<1>5. CASE FeedArrives
  <2> DEFINE feed == FeedOf(feedPage)
  <2>1. PICK fx, none : feedPage' = [feedPage EXCEPT !.loading = FALSE, !.before = {}, !.rows = none, !.feed = feed,
                                                     !.effects = fx]
    BY <1>5 DEF FeedArrives
  <2>2. listed' = Sees(feedPage.tab, feed) /\ marked' = marked /\ marks' = marks
    BY <1>5 DEF FeedArrives
  <2> HIDE DEF feed
  <2>3. feedPage'.tab = feedPage.tab /\ feedPage'.feed = feed /\ PageShape'
    BY <1>0, <2>1 DEF PageShape
  <2>4. listed' = listed \cup {a \in feed : a[1] \in KindsOf(feedPage.tab) \cup {"EVENT_PUBLISHED"}}
    BY <2>2 DEF Sees
  <2> QED
    BY <1>0, <2>2, <2>3, <2>4, FeedStays
<1>6. ASSUME NEW x \in {"feed", "tab"}, RunsEffect(x) PROVE FeedInv'
  <2>1. KindsMarked(x) \subseteq KindsOf(feedPage.tab) \cup {"EVENT_PUBLISHED"}
    BY DEF KindsMarked
  <2>2. \A m \in marks' : m \in marks \/ m \subseteq ShownIds
    BY <1>6, <2>1, SentWasShown DEF RunsEffect
  <2>3. feedPage'.tab = feedPage.tab /\ feedPage'.feed = feedPage.feed /\ PageShape'
    BY <1>0, <1>6 DEF RunsEffect, PageShape
  <2>4. listed' = listed /\ marked' = marked
    BY <1>6 DEF RunsEffect
  <2> QED
    BY <1>0, <2>2, <2>3, <2>4, FeedStays
<1>7. ASSUME NEW k \in Kind, Clicks(k) PROVE FeedInv'
  <2>1. {k} \subseteq KindsOf(feedPage.tab) \cup {"EVENT_PUBLISHED"}
    BY <1>7 DEF Clicks, KindsMarked
  <2>2. \A m \in marks' : m \in marks \/ m \subseteq ShownIds
    BY <1>7, <2>1, SentWasShown DEF Clicks
  <2>3. feedPage' = feedPage /\ listed' = listed /\ marked' = marked
    BY <1>7 DEF Clicks
  <2> QED
    BY <1>0, <2>2, <2>3, FeedStays DEF PageShape
<1>8. ASSUME NEW m \in marks, MarksSeen(m) \/ MarkFails(m) PROVE FeedInv'
  <2>1. listed' = listed /\ marked' \subseteq marked \cup m /\ marks' \subseteq marks
    BY <1>8 DEF MarksSeen, MarkFails
  <2>2. feedPage'.tab = feedPage.tab /\ feedPage'.feed = feedPage.feed /\ PageShape'
    BY <1>0, <1>8 DEF MarksSeen, MarkFails, PageShape
  <2> QED
    BY <1>0, <2>1, <2>2, FeedStays
<1> QED
  BY <1>1, <1>2, <1>3, <1>4, <1>5, <1>6, <1>7, <1>8 DEF AlertsNext, alertVars, pageVars

\* An alert in force that is marked was shown to the member with what it is about as it is
\* now: a mark of an older version, start, end or report's status, or of another tab, hides
\* nothing newer (notifications-tab.tsx:104).  Of a failed payment only that it failed.
THEOREM MarksHideOnlyWhatWasShown == AlertsSpec => []NewsIsNotLost
<1>1. FeedInv => NewsIsNotLost
  <2> SUFFICES ASSUME FeedInv, NEW a \in AlertsIn(news), EntityId(a[1], a[2]) \in marked
               PROVE  \E b \in listed : b[1] = a[1] /\ About(a[1], b[2]) = About(a[1], a[2])
    BY DEF NewsIsNotLost
  <2>1. PICK b \in listed : EntityId(a[1], a[2]) = EntityId(b[1], b[2])
    BY DEF FeedInv, AlertsInv, ShownIds
  <2> QED
    BY <2>1, IdsAreAbout
<1> QED
  BY <1>1, AlertsStart, AlertsSteps, PTL DEF AlertsSpec
=============================================================================
