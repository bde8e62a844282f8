---------------------------- MODULE StoreProofs ----------------------------
(***************************************************************************)
(* Theorems about one profile's files, for any number of sessions, edits,  *)
(* deletes, listings and crashes.                                          *)
(***************************************************************************)
EXTENDS ProfileStore, TLAPS

Guarded == {"tmp", "rename", "shred", "rmdir"}

(* Where each kind of task can be. Nobody but create and list has the        *)
(* profile's id before create has returned.                                  *)
StationInv ==
    /\ made # "made" => \A t \in Tasks \ Listers : pc[t] = "idle"
    /\ \A t \in Deleters : pc[t] \in {"idle", "shred", "rmdir", "end"}
    /\ \A t \in Editors : pc[t] \in {"idle", "tmp", "rename", "end"}
    /\ \A t \in Listers : pc[t] \in {"idle", "end"}
    /\ \A s \in Sessions : held[s] # "no" => pc[s] \in {"live", "tmp", "rename", "touched"}
    /\ \A t \in Editors : pc[t] # "end" => ret[t] = "none"

(* An edit works on what the metadata still is, since it has the guard.      *)
EditInv ==
    \A t \in Edits : pc[t] \in {"tmp", "rename"} =>
        /\ t \notin Deleters \cup Releasers \cup Listers
        /\ Whole(meta)
        /\ local[t] = meta \cup {t}

(* The directory is there as long as the metadata is.                        *)
DirInv ==
    /\ made = "making" => dir
    /\ meta # None => dir

IInv == TypeOK /\ StationInv /\ EditInv /\ DirInv /\ NoLostEdit /\ MetaIsWhole

USE StoreAssumption, NoContent DEF Tasks, Edits, Complete, Whole, LockFile

LEMMA InitInv == Init => IInv
<1> SUFFICES ASSUME Init PROVE IInv
    OBVIOUS
<1> USE DEF Init
<1>1. TypeOK
  <2>1. local \in [Tasks -> Complete \cup SUBSET {"meta", "lock"}]
    BY {} \in Complete
  <2>2. crashes \in 0 .. MaxCrashes
    OBVIOUS
  <2> QED
    BY <2>1, <2>2 DEF TypeOK
<1>2. StationInv /\ EditInv /\ DirInv /\ MetaIsWhole
  BY DEF StationInv, EditInv, DirInv, MetaIsWhole, Undeleted
<1>3. NoLostEdit
  BY DEF NoLostEdit, AfterEdit
<1> QED
  BY <1>1, <1>2, <1>3 DEF IInv

(* create                                                                    *)
LEMMA CreateKeeps == IInv /\ (CreateDir \/ CreateMeta) => IInv'
<1> SUFFICES ASSUME IInv, CreateDir \/ CreateMeta PROVE IInv'
    OBVIOUS
<1> USE DEF IInv
<1>1. CASE CreateDir
  BY <1>1 DEF CreateDir, tasks, TypeOK, StationInv, EditInv, DirInv, NoLostEdit,
             MetaIsWhole, Undeleted, AfterEdit
<1>2. CASE CreateMeta
  <2>1. \A t \in Edits : pc[t] = "idle"
    BY <1>2 DEF CreateMeta, StationInv
  <2>2. EditInv' /\ NoLostEdit'
    BY <1>2, <2>1 DEF CreateMeta, tasks, EditInv, NoLostEdit, AfterEdit, TypeOK
  <2>3. TypeOK' /\ StationInv' /\ DirInv' /\ MetaIsWhole'
    BY <1>2 DEF CreateMeta, tasks, TypeOK, StationInv, DirInv, MetaIsWhole, Undeleted
  <2> QED
    BY <2>2, <2>3
<1> QED
  BY <1>1, <1>2

(* acquire_lock, release_lock and list leave the metadata and the guard      *)
(* alone.                                                                    *)
LEMMA LockKeeps ==
  ASSUME IInv,
         \/ \E s \in Sessions : Acquire(s)
         \/ \E t \in Releasers : Release(t)
         \/ \E t \in Listers : List(t)
  PROVE  IInv'
<1> USE DEF IInv
<1>1. CASE \E s \in Sessions : Acquire(s)
  <2>1. PICK s \in Sessions : Acquire(s)
    BY <1>1
  <2>2. TypeOK'
    BY <2>1 DEF Acquire, AcquireCheck, AcquireCreate, AcquireWrite, OwnsFile, Goto,
                Return, files, TypeOK
  <2>3. StationInv' /\ EditInv' /\ DirInv' /\ NoLostEdit' /\ MetaIsWhole'
    BY <2>1 DEF Acquire, AcquireCheck, AcquireCreate, AcquireWrite, Goto, Return, files,
                TypeOK, StationInv, EditInv, DirInv, NoLostEdit, MetaIsWhole, Undeleted,
                AfterEdit
  <2> QED
    BY <2>2, <2>3
<1>2. CASE \E t \in Releasers : Release(t)
  <2>1. PICK t \in Releasers : Release(t)
    BY <1>2
  <2>2. TypeOK'
    BY <2>1 DEF Release, ReleaseRead, ReleaseRemove, Goto, Return, files, TypeOK
  <2>3. StationInv' /\ EditInv' /\ DirInv' /\ NoLostEdit' /\ MetaIsWhole'
    BY <2>1 DEF Release, ReleaseRead, ReleaseRemove, Goto, Return, files,
                TypeOK, StationInv, EditInv, DirInv, NoLostEdit, MetaIsWhole, Undeleted,
                AfterEdit
  <2> QED
    BY <2>2, <2>3
<1>3. CASE \E t \in Listers : List(t)
  <2>1. PICK t \in Listers : List(t)
    BY <1>3
  <2> QED
    BY <2>1 DEF List, Goto, Return, files, TypeOK, StationInv, EditInv, DirInv,
                NoLostEdit, MetaIsWhole, Undeleted, AfterEdit
<1> QED
  BY <1>1, <1>2, <1>3

(* A call that ends outside the critical section, with the guard free.       *)
LEMMA EndReturns ==
  ASSUME TypeOK, NEW t \in Edits \cup Deleters, pc[t] \in Guarded,
         NEW result \in {"ok", "error"}, guard = t, guard' = None,
         Return(t, IF t \in Sessions THEN "touched" ELSE "end", result),
         made' = made, dir' \in BOOLEAN, meta' \in Complete \cup {None, Torn},
         lockfile' = lockfile,
         local' \in [Tasks -> Complete \cup SUBSET {"meta", "lock"}],
         UNCHANGED <<job, held, crashes>>
  PROVE  TypeOK'
<1>1. pc' \in [Tasks -> {"idle", "create", "write", "live", "touched", "remove", "tmp",
                         "rename", "shred", "rmdir", "end"}]
  BY DEF TypeOK, Return, Goto
<1>2. ret' \in [Tasks -> {"none", "ok", "busy", "notfound", "refused", "error",
                          "skipped", "listed", "failed"}]
  BY DEF TypeOK, Return
<1>3. \A u \in Tasks : pc'[u] \notin Guarded
  BY DEF TypeOK, Return, Goto, Guarded
<1>4. \A u \in Releasers : pc'[u] = "remove" <=> job'[u] # None
  BY DEF TypeOK, Return, Goto, Guarded
<1> QED
  BY <1>1, <1>2, <1>3, <1>4 DEF TypeOK, Guarded

(* update and touch_launch: only the renaming changes the metadata, into     *)
(* what it was and the edit.                                                 *)
LEMMA EditKeeps ==
  ASSUME IInv, NEW t \in Edits, Edit(t)
  PROVE  IInv'
<1> USE DEF IInv
<1>1. CASE EditRead(t)
  <2>1. TypeOK'
    BY <1>1 DEF EditRead, BeforeEdit, AfterEdit, Goto, Return, files, TypeOK
  <2>2. StationInv' /\ DirInv' /\ MetaIsWhole'
    BY <1>1 DEF EditRead, BeforeEdit, AfterEdit, Goto, Return, files, TypeOK, StationInv,
                DirInv, MetaIsWhole, Undeleted
  <2>3. EditInv' /\ NoLostEdit'
    BY <1>1 DEF EditRead, BeforeEdit, AfterEdit, Goto, Return, files, TypeOK, StationInv,
                EditInv, NoLostEdit
  <2> QED
    BY <2>1, <2>2, <2>3
<1>2. CASE EditFails(t)
  <2>1. guard = t /\ guard' = None
    BY <1>2 DEF EditFails, Unguard, TypeOK
  <2>2. TypeOK'
    <3>1. local' \in [Tasks -> Complete \cup SUBSET {"meta", "lock"}]
      BY <1>2, {} \in Complete DEF EditFails, TypeOK
    <3> QED
      BY <1>2, <2>1, <3>1, EndReturns DEF EditFails, AfterEdit, Guarded, files, TypeOK
  <2>3. StationInv' /\ DirInv' /\ MetaIsWhole'
    BY <1>2 DEF EditFails, AfterEdit, Return, Goto, files, TypeOK, StationInv, DirInv,
                MetaIsWhole, Undeleted
  <2>4. EditInv' /\ NoLostEdit'
    BY <1>2 DEF EditFails, AfterEdit, Return, Goto, files, TypeOK, StationInv, EditInv,
                NoLostEdit
  <2> QED
    BY <2>2, <2>3, <2>4
<1>3. CASE EditTmp(t)
  BY <1>3 DEF EditTmp, Goto, AfterEdit, TypeOK, StationInv, EditInv, DirInv, NoLostEdit,
              MetaIsWhole, Undeleted
<1>4. CASE EditRename(t)
  <2>1. meta' = meta \cup {t} /\ Whole(meta) /\ Whole(meta') /\ dir
    BY <1>4 DEF EditRename, EditInv, DirInv, TypeOK
  <2>2. \A u \in Edits \ {t} : pc[u] \notin {"tmp", "rename"}
    BY <1>4 DEF EditRename, TypeOK
  <2>3. TypeOK'
    <3>1. guard = t /\ guard' = None
      BY <1>4 DEF EditRename, Unguard, TypeOK
    <3>2. meta' \in Complete /\ local' \in [Tasks -> Complete \cup SUBSET {"meta", "lock"}]
      BY <1>4, <2>1, {} \in Complete DEF EditRename, TypeOK
    <3> QED
      BY <1>4, <3>1, <3>2, EndReturns DEF EditRename, AfterEdit, Guarded, TypeOK
  <2>4. StationInv'
    BY <1>4 DEF EditRename, AfterEdit, Return, Goto, TypeOK, StationInv
  <2>5. DirInv' /\ MetaIsWhole'
    BY <1>4, <2>1 DEF EditRename, DirInv, MetaIsWhole
  <2>6. EditInv' /\ NoLostEdit'
    <3>1. \A u \in Edits \ {t} : pc'[u] = pc[u] /\ ret'[u] = ret[u]
      BY <1>4 DEF EditRename, Return, Goto, TypeOK
    <3>2. pc'[t] \notin {"tmp", "rename"}
      BY <1>4 DEF EditRename, Return, Goto, AfterEdit, TypeOK
    <3> QED
      BY <2>1, <2>2, <3>1, <3>2 DEF EditInv, NoLostEdit
  <2> QED
    BY <2>3, <2>4, <2>5, <2>6
<1> QED
  BY <1>1, <1>2, <1>3, <1>4 DEF Edit

(* delete: it has the guard, so no edit is under way.                        *)
LEMMA DeleteKeeps ==
  ASSUME IInv, NEW t \in Deleters, Delete(t)
  PROVE  IInv' /\ ~Undeleted'
<1> USE DEF IInv
<1>1. t \notin Edits /\ pc[t] \in {"idle", "shred", "rmdir", "end"}
  BY DEF StationInv
<1>2. CASE DeleteScan(t)
  <2>1. TypeOK'
    <3>1. {f \in {"meta", "lock"} : IF f = "meta" THEN meta # None ELSE lockfile # None}
            \in SUBSET {"meta", "lock"}
      OBVIOUS
    <3> QED
      BY <1>2, <3>1 DEF DeleteScan, Goto, Return, files, TypeOK
  <2>2. StationInv' /\ EditInv' /\ DirInv' /\ NoLostEdit' /\ ~Undeleted'
    BY <1>1, <1>2 DEF DeleteScan, Goto, Return, files, TypeOK, StationInv, EditInv,
                      DirInv, NoLostEdit, Undeleted, AfterEdit
  <2> QED
    BY <2>1, <2>2 DEF MetaIsWhole
<1>3. CASE ~DeleteScan(t)
  <2>1. pc[t] \in {"shred", "rmdir"} /\ guard = t /\ made = "made"
    BY <1>3 DEF Delete, DeleteOverwrite, DeleteUnlink, DeleteRmdir, DeleteFails, TypeOK,
                StationInv
  <2>2. \A u \in Edits : pc[u] \notin Guarded
    BY <1>1, <2>1 DEF TypeOK, Guarded
  <2>3. CASE DeleteOverwrite(t)
    <3>1. TypeOK'
      BY <2>1, <2>3 DEF DeleteOverwrite, TypeOK
    <3>2. StationInv' /\ EditInv' /\ DirInv' /\ NoLostEdit' /\ ~Undeleted'
      BY <2>1, <2>2, <2>3 DEF DeleteOverwrite, TypeOK, StationInv, EditInv, DirInv,
                              NoLostEdit, Undeleted, AfterEdit, Guarded
    <3> QED
      BY <3>1, <3>2 DEF MetaIsWhole
  <2>4. CASE DeleteUnlink(t)
    BY <1>1, <2>1, <2>2, <2>4 DEF DeleteUnlink, Goto, TypeOK, StationInv, EditInv, DirInv,
                            NoLostEdit, MetaIsWhole, Undeleted, AfterEdit, Guarded
  <2>5. CASE DeleteRmdir(t)
    <3>1. TypeOK'
      <4>1. \E result \in {"ok", "error"} : Return(t, "end", result)
        BY <2>5 DEF DeleteRmdir
      <4> QED
        BY <1>1, <2>1, <2>5, <4>1, EndReturns DEF DeleteRmdir, Unguard, TypeOK, Guarded
    <3>2. StationInv' /\ ~Undeleted'
      BY <1>1, <2>5 DEF DeleteRmdir, Return, Goto, TypeOK, StationInv, Undeleted
    <3>3. EditInv' /\ DirInv' /\ NoLostEdit'
      BY <1>1, <2>1, <2>2, <2>5 DEF DeleteRmdir, Return, Goto, TypeOK, EditInv, DirInv,
                                    NoLostEdit, AfterEdit, Guarded
    <3> QED
      BY <3>1, <3>2, <3>3 DEF MetaIsWhole
  <2>6. CASE DeleteFails(t)
    <3>1. TypeOK'
      <4>1. local' \in [Tasks -> Complete \cup SUBSET {"meta", "lock"}]
        BY <2>6, {} \in Complete DEF DeleteFails, TypeOK
      <4> QED
        BY <1>1, <2>1, <2>6, <4>1, EndReturns DEF DeleteFails, Unguard, files, TypeOK, Guarded
    <3>2. StationInv' /\ ~Undeleted'
      BY <1>1, <2>6 DEF DeleteFails, Return, Goto, files, TypeOK, StationInv, Undeleted
    <3>3. EditInv' /\ DirInv' /\ NoLostEdit'
      BY <1>1, <2>1, <2>2, <2>6 DEF DeleteFails, Return, Goto, files, TypeOK, EditInv,
                                    DirInv, NoLostEdit, AfterEdit, Guarded
    <3> QED
      BY <3>1, <3>2, <3>3 DEF MetaIsWhole
  <2> QED
    BY <1>3, <2>3, <2>4, <2>5, <2>6 DEF Delete
<1> QED
  BY <1>2, <1>3

(* A crash leaves the files; a task that was under way does not come back.   *)
LEMMA CrashKeeps == IInv /\ Crash => IInv'
<1> SUFFICES ASSUME IInv, Crash PROVE IInv'
    OBVIOUS
<1> USE DEF IInv, Crash
<1>1. TypeOK'
  <2>1. local' \in [Tasks -> Complete \cup SUBSET {"meta", "lock"}]
    BY {} \in Complete
  <2>2. crashes' \in 0 .. MaxCrashes
    BY DEF TypeOK
  <2> QED
    BY <2>1, <2>2 DEF TypeOK, StationInv
<1>2. StationInv' /\ EditInv' /\ DirInv' /\ MetaIsWhole'
  BY DEF TypeOK, StationInv, EditInv, DirInv, MetaIsWhole, Undeleted
<1>3. NoLostEdit'
  BY DEF NoLostEdit, AfterEdit, TypeOK, StationInv, EditInv
<1> QED
  BY <1>1, <1>2, <1>3

LEMMA NextKeeps == IInv /\ [Next]_vars => IInv'
<1> SUFFICES ASSUME IInv, [Next]_vars PROVE IInv'
    OBVIOUS
<1>1. CASE UNCHANGED vars
  BY <1>1 DEF vars, files, tasks, IInv, TypeOK, StationInv, EditInv, DirInv, NoLostEdit,
              MetaIsWhole, Undeleted, AfterEdit
<1>2. CASE Next
  BY <1>2, CreateKeeps, LockKeeps, EditKeeps, DeleteKeeps, CrashKeeps DEF Next
<1> QED
  BY <1>1, <1>2

LEMMA Inductive == Spec => []IInv
BY InitInv, NextKeeps, PTL DEF Spec

(* The states are typed, and write_guard is held exactly by the one task     *)
(* that is between its first and its last step (store.rs, write_guard).      *)
THEOREM StoreType == Spec => []TypeOK
<1>1. IInv => TypeOK
  BY DEF IInv
<1> QED
  BY <1>1, Inductive, PTL

(* An edit that was reported done is never lost to another task's            *)
(* read-modify-write (store.rs, update and touch_launch).                    *)
THEOREM NoEditLost == Spec => []NoLostEdit
<1>1. IInv => NoLostEdit
  BY DEF IInv
<1> QED
  BY <1>1, Inductive, PTL

(* However edits and crashes fall, profile.json is one complete version      *)
(* until somebody deletes the profile (store.rs, write_meta).                *)
THEOREM MetaStaysWhole == Spec => []MetaIsWhole
<1>1. IInv => MetaIsWhole
  BY DEF IInv
<1> QED
  BY <1>1, Inductive, PTL

(* No edit or launch that was under way recreates the directory of a         *)
(* deleted profile (store.rs, write_meta and delete).                        *)
THEOREM DeletedForGood == Spec => DeletedStaysGone
<1>1. IInv /\ [Next]_vars => [made = "made" /\ ~dir => ~dir']_vars
  <2> SUFFICES ASSUME IInv, Next, made = "made", ~dir PROVE ~dir'
    OBVIOUS
  <2>1. \A t \in Edits : pc[t] \notin {"tmp", "rename"}
    BY DEF IInv, EditInv, DirInv
  <2>2. ASSUME NEW t \in Edits, Edit(t) PROVE ~dir'
    BY <2>1, <2>2 DEF Edit, EditRead, EditFails, EditTmp, EditRename, files
  <2>3. ASSUME NEW t \in Deleters, Delete(t) PROVE ~dir'
    BY <2>3 DEF Delete, DeleteScan, DeleteOverwrite, DeleteUnlink, DeleteRmdir,
                DeleteFails, files
  <2>4. ~(CreateDir \/ CreateMeta)
    BY DEF CreateDir, CreateMeta
  <2> QED
    BY <2>2, <2>3, <2>4 DEF Next, Crash, Acquire, AcquireCheck, AcquireCreate,
       AcquireWrite, Release, ReleaseRead, ReleaseRemove, List, files
<1> QED
  BY <1>1, Inductive, PTL DEF Spec, DeletedStaysGone

-----------------------------------------------------------------------------
(* The lease. Releases are made one at a time: two of one lease take the     *)
(* next holder's lock (StoreOpen.cfg refutes NoTheft).                       *)
OneReleaser == \A t, u \in Releasers : t = u

(* The session in whose file the token is about to be written, the one that  *)
(* holds the lease and the one whose lease is being returned are the one     *)
(* that created the lock file.                                               *)
LeaseInv ==
    Undeleted =>
        /\ \A s \in Sessions : pc[s] = "write" => OwnsFile(s)
        /\ LeaseIsLock
        /\ \A t \in Releasers : pc[t] = "remove" =>
              HasToken(job[t]) /\ held[job[t]] = "over"

LEMMA LeaseKeeps ==
  ASSUME OneReleaser, IInv, LeaseInv, [Next]_vars
  PROVE  LeaseInv'
<1> USE DEF IInv
<1> SUFFICES ASSUME Undeleted' PROVE
      /\ \A s \in Sessions : pc'[s] = "write" => OwnsFile(s)'
      /\ LeaseIsLock'
      /\ \A t \in Releasers : pc'[t] = "remove" =>
            HasToken(job[t])' /\ held'[job'[t]] = "over"
    BY DEF LeaseInv
<1>1. ASSUME NEW t \in Deleters, Delete(t) PROVE FALSE
  BY <1>1, DeleteKeeps
<1>2. CASE UNCHANGED vars
  BY <1>2 DEF vars, files, tasks, LeaseInv, LeaseIsLock, HasToken, OwnsFile, Undeleted
<1>3. CASE CreateDir \/ CreateMeta
  BY <1>3 DEF CreateDir, CreateMeta, tasks, LeaseInv, LeaseIsLock, HasToken, OwnsFile,
              Undeleted
<1>4. CASE Crash
  BY <1>4 DEF Crash, TypeOK, LeaseIsLock
<1>5. ASSUME NEW s \in Sessions, Acquire(s) PROVE LeaseInv'
  <2>1. Undeleted
    BY <1>5 DEF Undeleted, Acquire, AcquireCheck, AcquireCreate, AcquireWrite, Goto,
                Return, TypeOK
  <2>2. CASE AcquireCheck(s)
    BY <2>1, <2>2 DEF AcquireCheck, Goto, Return, files, LeaseInv, LeaseIsLock, HasToken,
                      OwnsFile, TypeOK
  <2>3. CASE AcquireCreate(s)
    BY <2>1, <2>3 DEF AcquireCreate, Goto, Return, LeaseInv, LeaseIsLock, HasToken,
                      OwnsFile, TypeOK
  <2>4. CASE AcquireWrite(s)
    <3>1. held[s] = "no" /\ OwnsFile(s)
      BY <2>1, <2>4 DEF AcquireWrite, LeaseInv, StationInv, TypeOK
    <3>2. \A u \in Sessions \ {s} : pc[u] # "write" /\ held[u] # "held"
      BY <2>1, <3>1 DEF LeaseInv, LeaseIsLock, HasToken, OwnsFile
    <3>3. \A t \in Releasers : pc[t] # "remove"
      BY <2>1, <3>1 DEF LeaseInv, HasToken, OwnsFile, TypeOK
    <3>4. lockfile'.by = s /\ lockfile' # None
      BY <2>4, <3>1 DEF AcquireWrite, OwnsFile, TypeOK
    <3>5. \A t \in Releasers : pc'[t] # "remove"
      BY <2>4, <3>3 DEF AcquireWrite, Goto, Return, TypeOK
    <3>6. held'[s] = "held" => HasToken(s)'
      BY <2>4, <3>1 DEF AcquireWrite, HasToken, OwnsFile, TypeOK
    <3>7. \A u \in Sessions : pc'[u] # "write" /\ (held'[u] = "held" => u = s)
      BY <2>4, <3>1, <3>2 DEF AcquireWrite, Goto, Return, TypeOK
    <3> QED
      BY <3>5, <3>6, <3>7 DEF LeaseInv, LeaseIsLock
  <2> QED
    BY <1>5, <2>2, <2>3, <2>4 DEF Acquire
<1>6. ASSUME NEW t \in Releasers, Release(t) PROVE LeaseInv'
  <2>1. Undeleted
    BY <1>6 DEF Undeleted, Release, ReleaseRead, ReleaseRemove, Goto, Return, TypeOK
  <2>2. CASE \E s \in Sessions : ReleaseRead(t, s)
    <3>1. PICK s \in Sessions : ReleaseRead(t, s)
      BY <2>2
    <3>2. UNCHANGED lockfile /\ held' = [held EXCEPT ![s] = "over"]
      BY <3>1 DEF ReleaseRead, files
    <3>3. \A u \in Sessions : pc'[u] = pc[u]
      BY <3>1 DEF ReleaseRead, Goto, Return, TypeOK
    <3>4. pc'[t] = "remove" => job'[t] = s /\ HasToken(s)
      BY <3>1 DEF ReleaseRead, Goto, Return, TypeOK
    <3> QED
      BY <2>1, <3>2, <3>3, <3>4 DEF OneReleaser, LeaseInv, LeaseIsLock, HasToken, OwnsFile,
                                    TypeOK
  <2>3. CASE ReleaseRemove(t)
    <3>1. job[t] \in Sessions /\ HasToken(job[t]) /\ held[job[t]] = "over"
      BY <2>1, <2>3 DEF ReleaseRemove, LeaseInv, TypeOK
    <3>2. \A u \in Sessions : pc[u] # "write" /\ held[u] # "held"
      BY <2>1, <3>1 DEF LeaseInv, LeaseIsLock, HasToken, OwnsFile, StationInv
    <3>3. \A u \in Sessions : pc'[u] = pc[u] /\ held'[u] = held[u]
      BY <2>3 DEF ReleaseRemove, Goto, Return, TypeOK
    <3>4. \A u \in Releasers : pc'[u] # "remove"
      BY <2>3 DEF OneReleaser, ReleaseRemove, Goto, Return, TypeOK
    <3> QED
      BY <3>2, <3>3, <3>4 DEF LeaseInv, LeaseIsLock
  <2> QED
    BY <1>6, <2>2, <2>3 DEF Release
<1>7. ASSUME NEW t \in Edits, Edit(t) PROVE LeaseInv'
  <2>1. UNCHANGED <<lockfile, held, job>>
    BY <1>7 DEF Edit, EditRead, EditFails, EditTmp, EditRename, files
  <2>2. \A u \in Tasks \ {t} : pc'[u] = pc[u]
    BY <1>7 DEF Edit, EditRead, EditFails, EditTmp, EditRename, Goto, Return, TypeOK
  <2>3. pc'[t] # "write"
    BY <1>7 DEF Edit, EditRead, EditFails, EditTmp, EditRename, Goto, Return, AfterEdit,
                TypeOK
  <2>4. Undeleted
    BY <2>2 DEF Undeleted
  <2> QED
    BY <2>1, <2>2, <2>3, <2>4 DEF LeaseInv, LeaseIsLock, HasToken, OwnsFile
<1>8. ASSUME NEW t \in Listers, List(t) PROVE LeaseInv'
  BY <1>8 DEF List, Goto, Return, files, LeaseInv, LeaseIsLock, HasToken, OwnsFile,
              Undeleted, TypeOK
<1> QED
  BY <1>1, <1>2, <1>3, <1>4, <1>5, <1>6, <1>7, <1>8 DEF Next, LeaseInv

(* As long as nobody deletes the profile, a session that holds its lease has *)
(* its token in the lock file, so no two hold one (store.rs, acquire_lock    *)
(* and release_lock).                                                        *)
THEOREM LeaseIsExclusive ==
  ASSUME OneReleaser
  PROVE  Spec => [](HeldMeansLocked /\ SoleWriter)
<1>1. Init => LeaseInv
  BY DEF Init, LeaseInv, LeaseIsLock
<1>2. LeaseInv => HeldMeansLocked /\ SoleWriter
  BY DEF LeaseInv, HeldMeansLocked, SoleWriter, LeaseIsLock, HasToken, OwnsFile
<1>3. IInv /\ LeaseInv /\ [Next]_vars => LeaseInv'
  BY LeaseKeeps
<1> QED
  BY <1>1, <1>2, <1>3, Inductive, PTL DEF Spec
=============================================================================
