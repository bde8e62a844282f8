------------------------------ MODULE Updates -------------------------------
(***************************************************************************)
(* CheckUpdate and ApplyUpdate: a command line checks what is published    *)
(* and sends it back, other clients send a manifest of their own; the      *)
(* handler verifies it and SignedUpdateClient installs its artifacts one   *)
(* by one, keeping a backup of each file it replaces and rolling back when *)
(* a step fails.                                                           *)
(*                                                                         *)
(* A file's content is the manifest and artifact it comes from, <<m, a>>.  *)
(* The bytes a transport serves for a location may be right, other bytes   *)
(* or an error, differently at every fetch. Each file operation is a step; *)
(* Faults names those the disk may refuse. A crash loses the requests and  *)
(* keeps the files: nothing looks at them when the daemon starts again.    *)
(***************************************************************************)
EXTENDS Naturals, Sequences, SequencesExt

CONSTANTS
    Requests,     \* ApplyUpdate requests
    Manifests, Signed, Version, \* manifests; the signed ones; their versions
    ListOf,       \* the artifacts a manifest lists, in order
    Targets,      \* install paths
    TargetOf,     \* install_path: an artifact's install path
    MayAsk,       \* the manifests that are published and that requests carry
    Cli, Own,     \* the requests of command lines; the version these were built as
    Base,         \* what is installed at first: a manifest
    Serial,       \* is a request made only when no other is under way?
    Faults,       \* file operations that may fail
    MaxCrashes,   \* bound on crashes
    None, Torn    \* no such file; a file cut short while it was written

Artifacts == UNION {Range(ListOf[m]) : m \in Manifests}
Contents == Manifests \X Artifacts
FaultKinds == {"mkdir", "probe", "move", "write", "install", "cleanup",
               "remove", "restore"}

ASSUME UpdatesAssumption ==
    /\ Signed \subseteq Manifests /\ MayAsk \subseteq Manifests
    /\ Base \in Signed
    /\ Cli \subseteq Requests /\ Own \in Nat
    /\ Version \in [Manifests -> Nat]
    /\ ListOf \in [Manifests -> Seq(Artifacts)]
    /\ TargetOf \in [Artifacts -> Targets]
    /\ Serial \in BOOLEAN /\ Faults \subseteq FaultKinds
    /\ MaxCrashes \in Nat
    /\ {None, Torn} \cap Contents = {}

VARIABLES
    files,     \* the installed files
    bak,       \* <name>.aegis-bak
    tmp,       \* <name>.aegis-tmp
    pc,        \* where each request is
    asks,      \* the manifest it carries
    at,        \* index of the artifact it works on
    backups,   \* the Backup records it has pushed
    ret,       \* how it ended
    before,    \* history: the installed files when apply began
    left,      \* history: the paths its rollback could not clear or restore
    crashes

disk == <<files, bak, tmp>>
vars == <<disk, pc, asks, at, backups, ret, before, left, crashes>>

Stations == {"idle", "sent", "probe", "move", "fetch", "write", "install",
             "cleanup", "remove", "restore", "end"}
Record == [target : Targets, saved : BOOLEAN, wrote_new : BOOLEAN]

Connected(r) == pc[r] \notin {"idle", "end"}
Busy(r) == pc[r] \notin {"idle", "sent", "end"}

(* The previous installation: Base's artifacts at their targets.             *)
Installed(m) ==
    [t \in Targets |->
        IF \E a \in Range(ListOf[m]) : TargetOf[a] = t
        THEN <<m, CHOOSE a \in Range(ListOf[m]) : TargetOf[a] = t>>
        ELSE None]

Init ==
    /\ files = Installed(Base)
    /\ bak = [t \in Targets |-> None]
    /\ tmp = [t \in Targets |-> None]
    /\ pc = [r \in Requests |-> "idle"]
    /\ asks = [r \in Requests |-> None]
    /\ at = [r \in Requests |-> 1]
    /\ backups = [r \in Requests |-> <<>>]
    /\ ret = [r \in Requests |-> "none"]
    /\ before = [r \in Requests |-> files]
    /\ left = [r \in Requests |-> {}]
    /\ crashes = 0

Artifact(r) == ListOf[asks[r]][at[r]]
Target(r) == TargetOf[Artifact(r)]

Goto(r, station) == pc' = [pc EXCEPT ![r] = station]

Return(r, outcome) ==
    /\ Goto(r, "end")
    /\ ret' = [ret EXCEPT ![r] = outcome]

(* apply's loop goes on with artifact i, or cleans up after the last one.    *)
Continue(r, i) ==
    /\ at' = [at EXCEPT ![r] = i]
    /\ IF i <= Len(ListOf[asks[r]]) THEN Goto(r, "probe") ELSE Goto(r, "cleanup")

Push(r, saved) ==
    backups' = [backups EXCEPT ![r] =
        Append(@, [target |-> Target(r), saved |-> saved, wrote_new |-> FALSE])]

(* A step of apply fails: `?` leaves the loop, the rollback begins.          *)
Fail(r) == Goto(r, "remove")

-----------------------------------------------------------------------------
(* check_for_update and the command that asks for it                         *)

IsNewer(m, version) == Version[m] > version

(* The canonical bytes of the manifest bear the signature of the key.        *)
VerifySignature(m) == m \in Signed

(* What the directory holds as manifest.json is fetched at every call.       *)
FetchManifest == MayAsk \cup {None}

CheckForUpdate(m, current) ==
    IF m = None \/ ~VerifySignature(m) THEN "refused"
    ELSE IF IsNewer(m, current) THEN "sent" ELSE "current"

(* `update apply`: the manifest that was offered is sent back as it came.    *)
DispatchUpdateApply(r) ==
    /\ pc[r] = "idle" /\ r \in Cli
    /\ \E m \in FetchManifest :
          LET checked == CheckForUpdate(m, Own) IN
          IF checked = "sent"
          THEN Goto(r, "sent") /\ asks' = [asks EXCEPT ![r] = m] /\ UNCHANGED ret
          ELSE Return(r, checked) /\ UNCHANGED asks
    /\ UNCHANGED <<disk, at, backups, before, left, crashes>>

(* Any other client sends what it likes.                                     *)
SendApply(r) ==
    /\ pc[r] = "idle" /\ r \notin Cli
    /\ \E m \in MayAsk : asks' = [asks EXCEPT ![r] = m]
    /\ Goto(r, "sent")
    /\ UNCHANGED <<disk, at, backups, ret, before, left, crashes>>

-----------------------------------------------------------------------------
(* verify                                                                    *)

(* The version the handler takes for the installed one: 0.0.0.               *)
Current == 0

(* Fault: the signature is not checked.                                      *)
Accepts_Unsigned(r, hashesMatch) ==
    /\ IsNewer(asks[r], Current)
    /\ hashesMatch

(* Signature, version, then every artifact is fetched and its hash compared. *)
Accepts(r, hashesMatch) ==
    /\ VerifySignature(asks[r])
    /\ IsNewer(asks[r], Current)
    /\ hashesMatch

Verify(r) ==
    /\ pc[r] = "sent"
    /\ Serial => \A q \in Requests : ~Busy(q)
    /\ \E hashesMatch \in BOOLEAN :
          IF Accepts(r, hashesMatch)
          THEN Continue(r, 1) /\ before' = [before EXCEPT ![r] = files] /\ UNCHANGED ret
          ELSE Return(r, "refused") /\ UNCHANGED <<at, before>>
    /\ UNCHANGED <<disk, asks, backups, left, crashes>>

-----------------------------------------------------------------------------
(* apply: install one artifact                                               *)

(* create_dir_all, then try_exists; an error of the latter counts as "no".   *)
ProbeTarget(r) ==
    /\ pc[r] = "probe"
    /\ \/ "mkdir" \in Faults /\ Fail(r) /\ UNCHANGED backups
       \/ files[Target(r)] # None /\ Goto(r, "move") /\ UNCHANGED backups
       \/ /\ files[Target(r)] = None \/ "probe" \in Faults
          /\ Push(r, FALSE) /\ Goto(r, "fetch")
    /\ UNCHANGED <<disk, asks, at, ret, before, left, crashes>>

(* Fault: the installed file is removed instead of being moved to a backup.  *)
MoveAside_Removes(r) ==
    /\ pc[r] = "move"
    /\ files' = [files EXCEPT ![Target(r)] = None]
    /\ Push(r, TRUE) /\ Goto(r, "fetch")
    /\ UNCHANGED <<bak, tmp, asks, at, ret, before, left, crashes>>

(* Rename the installed file to its backup, over any earlier backup.         *)
MoveAside(r) ==
    /\ pc[r] = "move"
    /\ \/ /\ files[Target(r)] # None
          /\ bak' = [bak EXCEPT ![Target(r)] = files[Target(r)]]
          /\ files' = [files EXCEPT ![Target(r)] = None]
          /\ Push(r, TRUE) /\ Goto(r, "fetch")
       \/ /\ files[Target(r)] = None \/ "move" \in Faults
          /\ Fail(r) /\ UNCHANGED <<files, bak, backups>>
    /\ UNCHANGED <<tmp, asks, at, ret, before, left, crashes>>

(* Fetched again, hashed again: only the right bytes go on.                  *)
Fetch(r) ==
    /\ pc[r] = "fetch"
    /\ \E right \in BOOLEAN : IF right THEN Goto(r, "write") ELSE Fail(r)
    /\ UNCHANGED <<disk, asks, at, backups, ret, before, left, crashes>>

(* Fault: what failed to be written is installed all the same.               *)
WriteTemp_IgnoresError(r) ==
    /\ pc[r] = "write"
    /\ \E bytes \in {<<asks[r], Artifact(r)>>, Torn} :
          tmp' = [tmp EXCEPT ![Target(r)] = bytes]
    /\ Goto(r, "install")
    /\ UNCHANGED <<files, bak, asks, at, backups, ret, before, left, crashes>>

(* A failed write leaves what it had written in the temporary file.          *)
WriteTemp(r) ==
    /\ pc[r] = "write"
    /\ \/ tmp' = [tmp EXCEPT ![Target(r)] = <<asks[r], Artifact(r)>>] /\ Goto(r, "install")
       \/ "write" \in Faults /\ tmp' = [tmp EXCEPT ![Target(r)] = Torn] /\ Fail(r)
    /\ UNCHANGED <<files, bak, asks, at, backups, ret, before, left, crashes>>

(* Fault: wrote_new is never set.                                            *)
Install_Unrecorded(r) ==
    /\ pc[r] = "install"
    /\ \/ /\ tmp[Target(r)] # None
          /\ files' = [files EXCEPT ![Target(r)] = tmp[Target(r)]]
          /\ tmp' = [tmp EXCEPT ![Target(r)] = None]
          /\ Continue(r, at[r] + 1)
       \/ /\ tmp[Target(r)] = None \/ "install" \in Faults
          /\ Fail(r) /\ UNCHANGED <<files, tmp, at>>
    /\ UNCHANGED <<bak, asks, backups, ret, before, left, crashes>>

Install(r) ==
    /\ pc[r] = "install"
    /\ \/ /\ tmp[Target(r)] # None
          /\ files' = [files EXCEPT ![Target(r)] = tmp[Target(r)]]
          /\ tmp' = [tmp EXCEPT ![Target(r)] = None]
          /\ backups' = [backups EXCEPT ![r][Len(backups[r])].wrote_new = TRUE]
          /\ Continue(r, at[r] + 1)
       \/ /\ tmp[Target(r)] = None \/ "install" \in Faults
          /\ Fail(r) /\ UNCHANGED <<files, tmp, backups, at>>
    /\ UNCHANGED <<bak, asks, ret, before, left, crashes>>

-----------------------------------------------------------------------------
(* apply: the end                                                            *)

(* Success: the backups are removed, first to last; a failure is ignored.    *)
Cleanup(r) ==
    /\ pc[r] = "cleanup"
    /\ IF backups[r] = <<>> THEN Return(r, "applied") /\ UNCHANGED <<bak, backups>>
       ELSE /\ \/ /\ Head(backups[r]).saved
                  /\ bak' = [bak EXCEPT ![Head(backups[r]).target] = None]
               \/ /\ Head(backups[r]).saved => "cleanup" \in Faults
                  /\ UNCHANGED bak
            /\ backups' = [backups EXCEPT ![r] = Tail(@)]
            /\ UNCHANGED <<pc, ret>>
    /\ UNCHANGED <<files, tmp, asks, at, before, left, crashes>>

(* Rollback, last record first: the new file goes, if it can be removed ...   *)
RemoveNew(r) ==
    /\ pc[r] = "remove"
    /\ IF backups[r] = <<>> THEN Return(r, "rolledback") /\ UNCHANGED <<files, left>>
       ELSE LET old == Last(backups[r]) IN
            /\ \/ /\ files' = IF old.wrote_new THEN [files EXCEPT ![old.target] = None]
                                              ELSE files
                  /\ UNCHANGED left
               \/ /\ old.wrote_new /\ "remove" \in Faults
                  /\ left' = [left EXCEPT ![r] = @ \cup {old.target}]
                  /\ UNCHANGED files
            /\ Goto(r, "restore") /\ UNCHANGED ret
    /\ UNCHANGED <<bak, tmp, asks, at, backups, before, crashes>>

(* ... and the previous one is renamed over whatever is there. A failure of  *)
(* either is at most logged: the answer is the same.                         *)
Restore(r) ==
    /\ pc[r] = "restore"
    /\ LET old == Last(backups[r]) IN
          \/ /\ old.saved /\ bak[old.target] # None
             /\ files' = [files EXCEPT ![old.target] = bak[old.target]]
             /\ bak' = [bak EXCEPT ![old.target] = None]
             /\ left' = [left EXCEPT ![r] = @ \ {old.target}]
          \/ /\ old.saved /\ (bak[old.target] = None \/ "restore" \in Faults)
             /\ left' = [left EXCEPT ![r] = @ \cup {old.target}]
             /\ UNCHANGED <<files, bak>>
          \/ ~old.saved /\ UNCHANGED <<files, bak, left>>
    /\ backups' = [backups EXCEPT ![r] = Front(@)]
    /\ Goto(r, "remove")
    /\ UNCHANGED <<tmp, asks, at, ret, before, crashes>>

(* The process ends. Requests under way are lost with their records, and so  *)
(* are the connections of those that have been checked or are being sent.    *)
Crash ==
    /\ crashes < MaxCrashes
    /\ crashes' = crashes + 1
    /\ \E r \in Requests : Busy(r)
    /\ ret' = [r \in Requests |-> IF Connected(r) THEN "lost" ELSE ret[r]]
    /\ pc' = [r \in Requests |-> IF Connected(r) THEN "end" ELSE pc[r]]
    /\ backups' = [r \in Requests |-> <<>>]
    /\ UNCHANGED <<disk, asks, at, before, left>>

Step(r) ==
    \/ DispatchUpdateApply(r) \/ SendApply(r) \/ Verify(r) \/ ProbeTarget(r)
    \/ MoveAside(r) \/ Fetch(r) \/ WriteTemp(r) \/ Install(r)
    \/ Cleanup(r) \/ RemoveNew(r) \/ Restore(r)

Next == Crash \/ \E r \in Requests : Step(r)

Spec == Init /\ [][Next]_vars

-----------------------------------------------------------------------------
(* Properties                                                                *)

(* Every file is a complete artifact or absent, except a temporary one; the  *)
(* records an apply keeps are those it needs.                                *)
TypeOK ==
    /\ files \in [Targets -> Contents \cup {None}]
    /\ bak \in [Targets -> Contents \cup {None}]
    /\ tmp \in [Targets -> Contents \cup {None, Torn}]
    /\ pc \in [Requests -> Stations]
    /\ asks \in [Requests -> Manifests \cup {None}]
    /\ \A r \in Requests :
          at[r] \in 1 .. 1 + (IF asks[r] = None THEN 0 ELSE Len(ListOf[asks[r]]))
    /\ \A r \in Requests : /\ backups[r] \in Seq(Record)
                           /\ Len(backups[r]) <= at[r]
    /\ ret \in [Requests -> {"none", "refused", "current", "applied", "rolledback", "lost"}]
    /\ before \in [Requests -> [Targets -> Contents \cup {None}]]
    /\ left \in [Requests -> SUBSET Targets]
    /\ crashes \in 0 .. MaxCrashes

(* While apply is under way the previous version of every file it has        *)
(* touched is still on the disk, in place or as its backup: what the         *)
(* rollback needs is never destroyed before the last artifact is installed.  *)
PreviousRetained ==
    \A r \in Requests : Busy(r) /\ pc[r] # "cleanup" =>
        \A t \in Targets : before[r][t] # None => before[r][t] \in {files[t], bak[t]}

(* A rolled-back apply leaves every installed file as apply found it, those  *)
(* that did not exist included ("previous version intact"), except where the *)
(* rollback's own removal or rename has failed, which the answer does not    *)
(* say: there, what was installed is still in its backup.                    *)
RolledBackIsPrevious ==
    [][\A r \in Requests :
          ret[r] # "rolledback" /\ ret'[r] = "rolledback" =>
             \A t \in Targets :
                IF t \in left[r] THEN before[r][t] \in {None, bak'[t]}
                                 ELSE files'[t] = before[r][t]]_vars

(* An apply that reports Applied has installed every artifact of its         *)
(* manifest and has touched no other file.                                   *)
AppliedIsWhole ==
    [][\A r \in Requests :
          ret[r] # "applied" /\ ret'[r] = "applied" =>
             files' = [t \in Targets |-> IF Installed(asks[r])[t] # None
                                         THEN Installed(asks[r])[t] ELSE before[r][t]]]_vars

(* Nothing unsigned, and no bytes cut short, is ever installed or kept as    *)
(* the version to go back to.                                                *)
OnlySignedInstalled ==
    \A t \in Targets : {files[t], bak[t]} \subseteq (Signed \X Artifacts) \cup {None}

(* With no apply under way, every file the product was installed with is     *)
(* there: an update that failed or was interrupted leaves it usable.         *)
StillInstalled ==
    (\A r \in Requests : ~Busy(r)) =>
        \A t \in Targets : Installed(Base)[t] # None => files[t] # None

(* A file is never replaced by an older version of it.  Refuted, even when   *)
(* all requests come from command lines that have checked what they apply:   *)
(* what is published may change between a check and its apply, and neither   *)
(* compares with what is installed.                                          *)
NeverOlder ==
    \A t \in Targets : files[t] # None /\ bak[t] # None =>
        Version[files[t][1]] >= Version[bak[t][1]]
=============================================================================
