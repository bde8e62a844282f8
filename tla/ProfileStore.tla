---------------------------- MODULE ProfileStore ----------------------------
(***************************************************************************)
(* FileProfileStore, seen from one profile: its directory, profile.json    *)
(* and profile.lock, and the tasks of one daemon that use them.            *)
(*                                                                         *)
(* Changes of the metadata and deletion hold the store's write_guard from  *)
(* their first to their last step; the lock calls and list do not take it. *)
(* Each file operation is a step of its own. A crash loses the tasks and   *)
(* keeps the files.                                                        *)
(*                                                                         *)
(* The metadata is the set of edits it contains. A lock file is identified *)
(* by the session that created it, since its token is fresh; a task that   *)
(* has it open writes into that very file, wherever its name points now.   *)
(***************************************************************************)
EXTENDS Naturals, FiniteSets

CONSTANTS
    Sessions,    \* sessions started for the profile (a lease each)
    Releasers,   \* tasks that release a session's lease: teardowns
    Editors,     \* update calls
    Deleters,    \* delete calls
    Listers,     \* list calls
    MaxCrashes,  \* bound on crashes
    None, Torn   \* no such file; a file whose content is not what was written

Tasks == Sessions \cup Releasers \cup Editors \cup Deleters \cup Listers

ASSUME StoreAssumption ==
    /\ MaxCrashes \in Nat
    /\ Sessions \cap (Releasers \cup Editors \cup Deleters \cup Listers) = {}
    /\ Releasers \cap (Editors \cup Deleters \cup Listers) = {}
    /\ Editors \cap (Deleters \cup Listers) = {}
    /\ Deleters \cap Listers = {}
    /\ None \notin Tasks

VARIABLES
    made,      \* how far create() has come
    dir,       \* does the profile's directory exist?
    meta,      \* profile.json
    lockfile,  \* profile.lock
    guard,     \* who holds write_guard
    pc,        \* where each task is
    job,       \* the session whose lease a releaser returns
    local,     \* metadata a task has read, files a delete has yet to overwrite
    held,      \* what each session believes of its lease
    ret,       \* how each call ended
    crashes

files == <<made, dir, meta, lockfile>>
tasks == <<guard, pc, job, local, held, ret>>
vars  == <<files, tasks, crashes>>

Edits == Editors \cup Sessions
Complete == SUBSET Edits
Whole(m) == m \notin {None, Torn}

LockFile == [by : Sessions, body : {"empty", "token", "zeros"}]

(* None and Torn are no content of a file.                                   *)
ASSUME NoContent ==
    /\ None # Torn
    /\ \A m \in Complete : m \notin {None, Torn}
    /\ \A f \in LockFile : f \notin {None, Torn}

Init ==
    /\ made = "no"
    /\ dir = FALSE
    /\ meta = None
    /\ lockfile = None
    /\ guard = None
    /\ pc = [t \in Tasks |-> "idle"]
    /\ job = [t \in Releasers |-> None]
    /\ local = [t \in Tasks |-> {}]
    /\ held = [s \in Sessions |-> "no"]
    /\ ret = [t \in Tasks |-> "none"]
    /\ crashes = 0

Goto(t, station) == pc' = [pc EXCEPT ![t] = station]

Return(t, station, result) ==
    /\ Goto(t, station)
    /\ ret' = [ret EXCEPT ![t] = result]

-----------------------------------------------------------------------------
(* create: the data directory first, then the metadata. The client learns    *)
(* the id when it returns.                                                   *)
CreateDir ==
    /\ made = "no"
    /\ made' = "making"
    /\ dir' = TRUE
    /\ UNCHANGED <<meta, lockfile, tasks, crashes>>

CreateMeta ==
    /\ made = "making"
    /\ made' = "made"
    /\ meta' = {}
    /\ UNCHANGED <<dir, lockfile, tasks, crashes>>

-----------------------------------------------------------------------------
(* acquire_lock and release_lock                                             *)

(* The profile must exist to be locked.                                      *)
AcquireCheck(s) ==
    /\ pc[s] = "idle" /\ made = "made"
    /\ IF dir THEN Goto(s, "create") /\ UNCHANGED ret
              ELSE Return(s, "end", "notfound")
    /\ UNCHANGED <<files, guard, job, local, held, crashes>>

AcquireCreate(s) ==
    /\ pc[s] = "create"
    /\ IF ~dir THEN Return(s, "end", "error") /\ UNCHANGED lockfile
       ELSE IF lockfile # None THEN Return(s, "end", "busy") /\ UNCHANGED lockfile
       ELSE /\ lockfile' = [by |-> s, body |-> "empty"]
            /\ Goto(s, "write") /\ UNCHANGED ret
    /\ UNCHANGED <<made, dir, meta, guard, job, local, held, crashes>>

OwnsFile(s) == lockfile # None /\ lockfile.by = s

(* The token goes into the file s created; a failure leaves it empty.        *)
AcquireWrite(s) ==
    /\ pc[s] = "write"
    /\ \/ /\ lockfile' = IF OwnsFile(s) THEN [by |-> s, body |-> "token"] ELSE lockfile
          /\ held' = [held EXCEPT ![s] = "held"]
          /\ Return(s, "live", "ok")
       \/ Return(s, "end", "error") /\ UNCHANGED <<lockfile, held>>
    /\ UNCHANGED <<made, dir, meta, guard, job, local, crashes>>

HasToken(s) == OwnsFile(s) /\ lockfile.body = "token"

(* Fault: the token is not compared.                                         *)
ReleaseRead_NoCompare(t, s) ==
    /\ pc[t] = "idle" /\ held[s] # "no"
    /\ held' = [held EXCEPT ![s] = "over"]
    /\ IF lockfile # None
       THEN /\ Goto(t, "remove") /\ job' = [job EXCEPT ![t] = s] /\ UNCHANGED ret
       ELSE Return(t, "idle", "refused") /\ UNCHANGED job
    /\ UNCHANGED <<files, guard, local, crashes>>

(* Only the holder of the matching token may release the lock.               *)
ReleaseRead(t, s) ==
    /\ pc[t] = "idle" /\ held[s] # "no"
    /\ held' = [held EXCEPT ![s] = "over"]
    /\ IF HasToken(s)
       THEN /\ Goto(t, "remove") /\ job' = [job EXCEPT ![t] = s] /\ UNCHANGED ret
       ELSE Return(t, "idle", "refused") /\ UNCHANGED job
    /\ UNCHANGED <<files, guard, local, crashes>>

(* remove_file, on whatever has the name by then; it may fail.               *)
ReleaseRemove(t) ==
    /\ pc[t] = "remove"
    /\ job' = [job EXCEPT ![t] = None]
    /\ \/ lockfile # None /\ lockfile' = None /\ Return(t, "idle", "ok")
       \/ Return(t, "idle", "error") /\ UNCHANGED lockfile
    /\ UNCHANGED <<made, dir, meta, guard, local, held, crashes>>

-----------------------------------------------------------------------------
(* update and touch_launch: read-modify-write under write_guard              *)

BeforeEdit(t) == IF t \in Sessions THEN "live" ELSE "idle"
AfterEdit(t) == IF t \in Sessions THEN "touched" ELSE "end"

(* Fault: the guard is not taken.                                            *)
EditRead_Unguarded(t) ==
    /\ pc[t] = BeforeEdit(t) /\ made = "made"
    /\ IF Whole(meta)
       THEN /\ local' = [local EXCEPT ![t] = meta \cup {t}]
            /\ Goto(t, "tmp") /\ UNCHANGED ret
       ELSE Return(t, AfterEdit(t), "error") /\ UNCHANGED local
    /\ UNCHANGED <<files, guard, job, held, crashes>>

EditRead(t) ==
    /\ pc[t] = BeforeEdit(t) /\ made = "made"
    /\ guard = None
    /\ IF Whole(meta)
       THEN /\ guard' = t
            /\ local' = [local EXCEPT ![t] = meta \cup {t}]
            /\ Goto(t, "tmp") /\ UNCHANGED ret
       ELSE Return(t, AfterEdit(t), "error") /\ UNCHANGED <<guard, local>>
    /\ UNCHANGED <<files, job, held, crashes>>

Unguard(t) == guard' = IF guard = t THEN None ELSE guard

EditFails(t) ==
    /\ pc[t] \in {"tmp", "rename"}
    /\ Unguard(t)
    /\ local' = [local EXCEPT ![t] = {}]
    /\ Return(t, AfterEdit(t), "error")
    /\ UNCHANGED <<files, job, held, crashes>>

(* Fault: profile.json is rewritten in place.                                *)
EditTmp_InPlace(t) ==
    /\ pc[t] = "tmp"
    /\ dir' = TRUE
    /\ meta' = Torn
    /\ Goto(t, "rename")
    /\ UNCHANGED <<made, lockfile, guard, job, local, held, ret, crashes>>

(* create_dir_all, then the temporary file.                                  *)
EditTmp(t) ==
    /\ pc[t] = "tmp"
    /\ dir' = TRUE
    /\ Goto(t, "rename")
    /\ UNCHANGED <<made, meta, lockfile, guard, job, local, held, ret, crashes>>

EditRename(t) ==
    /\ pc[t] = "rename"
    /\ meta' = local[t]
    /\ Unguard(t)
    /\ local' = [local EXCEPT ![t] = {}]
    /\ Return(t, AfterEdit(t), "ok")
    /\ UNCHANGED <<made, dir, lockfile, job, held, crashes>>

-----------------------------------------------------------------------------
(* delete: shred_dir under write_guard                                       *)

DeleteScan(t) ==
    /\ pc[t] = "idle" /\ made = "made"
    /\ guard = None
    /\ IF dir
       THEN /\ guard' = t
            /\ local' = [local EXCEPT ![t] =
                  {f \in {"meta", "lock"} : IF f = "meta" THEN meta # None
                                                           ELSE lockfile # None}]
            /\ Goto(t, "shred") /\ UNCHANGED ret
       ELSE Return(t, "end", "notfound") /\ UNCHANGED <<guard, local>>
    /\ UNCHANGED <<files, job, held, crashes>>

(* A file that vanished is shredded already; an empty one needs no zeros.    *)
DeleteOverwrite(t) ==
    /\ pc[t] = "shred"
    /\ \E f \in local[t] :
          /\ local' = [local EXCEPT ![t] = @ \ {f}]
          /\ meta' = IF f = "meta" /\ meta # None THEN Torn ELSE meta
          /\ lockfile' = IF f = "lock" /\ lockfile # None /\ lockfile.body # "empty"
                         THEN [lockfile EXCEPT !.body = "zeros"] ELSE lockfile
    /\ UNCHANGED <<made, dir, guard, pc, job, held, ret, crashes>>

DeleteUnlink(t) ==
    /\ pc[t] = "shred" /\ local[t] = {}
    /\ meta' = None
    /\ lockfile' = None
    /\ Goto(t, "rmdir")
    /\ UNCHANGED <<made, dir, guard, job, local, held, ret, crashes>>

(* The directory itself, unless a lock file was created meanwhile.           *)
DeleteRmdir(t) ==
    /\ pc[t] = "rmdir"
    /\ Unguard(t)
    /\ IF lockfile = None /\ meta = None
       THEN dir' = FALSE /\ Return(t, "end", "ok")
       ELSE UNCHANGED dir /\ Return(t, "end", "error")
    /\ UNCHANGED <<made, meta, lockfile, job, local, held, crashes>>

DeleteFails(t) ==
    /\ pc[t] \in {"shred", "rmdir"}
    /\ Unguard(t)
    /\ local' = [local EXCEPT ![t] = {}]
    /\ Return(t, "end", "error")
    /\ UNCHANGED <<files, job, held, crashes>>

-----------------------------------------------------------------------------
(* list, as far as this profile decides its outcome: a directory without     *)
(* metadata is skipped, metadata that does not parse is an error.            *)
List(t) ==
    /\ pc[t] = "idle"
    /\ Return(t, "end", IF ~dir \/ meta = None THEN "skipped"
                        ELSE IF Whole(meta) THEN "listed" ELSE "failed")
    /\ UNCHANGED <<files, guard, job, local, held, crashes>>

-----------------------------------------------------------------------------
(* The daemon dies. Nothing is repaired when it starts again.                *)
Crash ==
    /\ crashes < MaxCrashes
    /\ crashes' = crashes + 1
    /\ made' = IF made = "making" THEN "abandoned" ELSE made
    /\ guard' = None
    /\ pc' = [t \in Tasks |->
                IF pc[t] = "idle" \/ t \in Releasers THEN "idle" ELSE "end"]
    /\ job' = [t \in Releasers |-> None]
    /\ local' = [t \in Tasks |-> {}]
    /\ held' = [s \in Sessions |-> "no"]
    /\ UNCHANGED <<dir, meta, lockfile, ret>>

Acquire(s) == AcquireCheck(s) \/ AcquireCreate(s) \/ AcquireWrite(s)
Release(t) == ReleaseRemove(t) \/ \E s \in Sessions : ReleaseRead(t, s)
Edit(t)    == EditRead(t) \/ EditFails(t) \/ EditTmp(t) \/ EditRename(t)
Delete(t)  == \/ DeleteScan(t) \/ DeleteOverwrite(t) \/ DeleteUnlink(t)
              \/ DeleteRmdir(t) \/ DeleteFails(t)

Next ==
    \/ CreateDir \/ CreateMeta \/ Crash
    \/ \E s \in Sessions : Acquire(s) \/ Edit(s)
    \/ \E t \in Releasers : Release(t)
    \/ \E t \in Editors : Edit(t)
    \/ \E t \in Deleters : Delete(t)
    \/ \E t \in Listers : List(t)

Spec == Init /\ [][Next]_vars
-----------------------------------------------------------------------------
(* Types; write_guard is held exactly by the task that is in its critical    *)
(* section, and a releaser has a lease exactly while it returns it.          *)
TypeOK ==
    /\ made \in {"no", "making", "made", "abandoned"}
    /\ dir \in BOOLEAN
    /\ meta \in Complete \cup {None, Torn}
    /\ lockfile \in LockFile \cup {None}
    /\ guard \in Tasks \cup {None}
    /\ pc \in [Tasks -> {"idle", "create", "write", "live", "touched", "remove", "tmp",
                         "rename", "shred", "rmdir", "end"}]
    /\ job \in [Releasers -> Sessions \cup {None}]
    /\ local \in [Tasks -> Complete \cup SUBSET {"meta", "lock"}]
    /\ held \in [Sessions -> {"no", "held", "over"}]
    /\ ret \in [Tasks -> {"none", "ok", "busy", "notfound", "refused", "error",
                          "skipped", "listed", "failed"}]
    /\ crashes \in 0..MaxCrashes
    /\ \A t \in Tasks : pc[t] \in {"tmp", "rename", "shred", "rmdir"} <=> guard = t
    /\ \A t \in Releasers : pc[t] = "remove" <=> job[t] # None

Undeleted == \A t \in Deleters : pc[t] = "idle"

(* A lease proves exclusive ownership: no two sessions hold one at a time,   *)
(* unless delete, which does not ask, has removed the lock file of one.      *)
SoleWriter ==
    Undeleted => \A s1, s2 \in Sessions : held[s1] = "held" /\ held[s2] = "held" => s1 = s2

(* While a session holds its lease, its token is in the lock file.           *)
LeaseIsLock == \A s \in Sessions : held[s] = "held" => HasToken(s)

(* The same with the same exception.                                         *)
HeldMeansLocked == Undeleted => LeaseIsLock

(* "Only the holder of the matching token may release the lock": a release   *)
(* does not remove the lock file of a session that still holds its lease.    *)
NoTheft ==
    [][\A t \in Releasers, s \in Sessions :
          (pc[t] = "remove" /\ pc'[t] = "idle" /\ HasToken(s) /\ ~HasToken(s)')
              => held[s] # "held"]_vars

(* "Whether a session currently holds the single-writer lock": a lock file   *)
(* is there on behalf of a session that is starting, live or being stopped.  *)
LockedMeansHeld ==
    lockfile # None =>
        \/ pc[lockfile.by] = "write"
        \/ held[lockfile.by] = "held"
        \/ \E t \in Releasers : job[t] = lockfile.by
        \/ ret[lockfile.by] = "error"

(* "a crash never leaves a half-written metadata file": whenever it exists   *)
(* and nobody is deleting it, profile.json is one complete version.          *)
MetaIsWhole ==
    made = "made" /\ Undeleted => Whole(meta)

(* Metadata mutations "cannot interleave a read-modify-write": an edit that  *)
(* was reported done stays in the metadata for as long as that is readable.  *)
NoLostEdit ==
    \A t \in Edits :
        (pc[t] = AfterEdit(t) /\ ret[t] = "ok" /\ Whole(meta)) => t \in meta

(* A deleted profile does not come back: no update or launch that was under  *)
(* way recreates its directory.                                              *)
DeletedStaysGone == [][made = "made" /\ ~dir => ~dir']_vars

(* "Skip directories with no (or corrupt) metadata rather than failing the   *)
(* whole listing".                                                           *)
ListSurvives == \A t \in Listers : ret[t] # "failed"
=============================================================================
