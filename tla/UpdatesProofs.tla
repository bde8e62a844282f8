---------------------------- MODULE UpdatesProofs ----------------------------
(***************************************************************************)
(* Theorems about updates, for any number of requests, any manifests and   *)
(* any crashes, where requests do not overlap.                             *)
(*                                                                         *)
(* SignedInv types the disk with the artifacts of signed manifests only;   *)
(* with it, IInv follows one apply record by record: what each file and    *)
(* each backup holds at every station of the loop and of the rollback.     *)
(***************************************************************************)
EXTENDS Updates, SequenceTheorems, TLAPS

Wanted == Signed \X Artifacts
Files == [Targets -> Wanted \cup {None}]
Working == {"probe", "move", "fetch", "write", "install"}

Types ==
    /\ files \in Files /\ bak \in Files
    /\ DOMAIN tmp = Targets
    /\ pc \in [Requests -> Stations]
    /\ asks \in [Requests -> Manifests \cup {None}]
    /\ at \in [Requests -> Nat]
    /\ backups \in [Requests -> Seq(Record)]
    /\ before \in [Requests -> Files]
    /\ left \in [Requests -> SUBSET Targets]
    /\ DOMAIN ret = Requests

(* One apply at a time: all requests share the names of the backups and of   *)
(* the temporary files.                                                      *)
Alone == \A q, r \in Requests : Busy(q) /\ Busy(r) => q = r

(* Nothing gets past verify but a signed manifest.                           *)
Asked ==
    \A r \in Requests :
        /\ pc[r] = "sent" => asks[r] \in Manifests
        /\ Busy(r) => asks[r] \in Signed
        /\ pc[r] \in Working => at[r] \in 1 .. Len(ListOf[asks[r]])
        /\ pc[r] \in {"fetch", "write", "install", "restore"} => backups[r] # <<>>

(* What is about to be installed is the whole artifact.                      *)
Whole == \A r \in Requests :
    pc[r] = "install" => tmp[Target(r)] = <<asks[r], Artifact(r)>>

SignedInv == Types /\ Alone /\ Asked /\ Whole
-----------------------------------------------------------------------------
(* The records of an apply as a stack.                                       *)

\* The last record is taken off.
LEMMA Popped ==
    ASSUME NEW S, NEW s \in Seq(S), s # <<>>
    PROVE  /\ Front(s) \in Seq(S)
           /\ Len(s) \in Nat \ {0}
           /\ Len(Front(s)) = Len(s) - 1
           /\ \A k \in 1 .. Len(s) - 1 : Front(s)[k] = s[k]
           /\ Last(s) = s[Len(s)] /\ Last(s) \in S
<1>1. Len(s) \in Nat \ {0}
  BY EmptySeq
<1>2. \A k \in 1 .. Len(s) : s[k] \in S
  BY ElementOfSeq
<1>3. /\ Front(s) \in Seq(S)
      /\ Len(Front(s)) = Len(s) - 1
      /\ \A k \in 1 .. Len(s) - 1 : Front(s)[k] = s[k]
  <2> DEFINE n == Len(s) - 1
  <2>1. n \in Int /\ \A k \in 1 .. n : s[k] \in S
    BY <1>1, <1>2
  <2>2. Front(s) = SubSeq(s, 1, n)
    BY DEF Front
  <2> HIDE DEF n
  <2>3. /\ SubSeq(s, 1, n) \in Seq(S)
        /\ Len(SubSeq(s, 1, n)) = IF 1 <= n THEN n - 1 + 1 ELSE 0
        /\ \A k \in 1 .. n - 1 + 1 : SubSeq(s, 1, n)[k] = s[1 + k - 1]
    BY <2>1, SubSeqProperties
  <2>4. n \in Nat
    BY <1>1 DEF n
  <2>5. ASSUME NEW k \in 1 .. n PROVE SubSeq(s, 1, n)[k] = s[k]
    <3>1. k \in 1 .. n - 1 + 1 /\ 1 + k - 1 = k
      BY <2>4
    <3>2. SubSeq(s, 1, n)[k] = s[1 + k - 1]
      BY <2>3, <3>1
    <3>3. s[1 + k - 1] = s[k]
      BY <3>1, Zenon
    <3> QED BY <3>2, <3>3
  <2>6. Len(SubSeq(s, 1, n)) = n
    BY <2>3, <2>4
  <2> QED BY <2>2, <2>3, <2>5, <2>6 DEF n
<1> QED BY <1>1, <1>2, <1>3 DEF Last

MarkLast(s) == [s EXCEPT ![Len(s)].wrote_new = TRUE]

\* The last record is marked as written.
LEMMA Marked ==
    ASSUME NEW s \in Seq(Record), s # <<>>, NEW x, x = MarkLast(s)
    PROVE  /\ x \in Seq(Record) /\ Len(x) = Len(s) /\ x # <<>>
           /\ \A k \in 1 .. Len(s) - 1 : x[k] = s[k]
           /\ x[Len(s)] = [s[Len(s)] EXCEPT !.wrote_new = TRUE]
<1>1. Len(s) \in Nat \ {0}
  BY EmptySeq
<1>2. s[Len(s)] \in Record
  BY <1>1, ElementOfSeq
<1> DEFINE marked == [s[Len(s)] EXCEPT !.wrote_new = TRUE]
<1>3. marked \in Record
  BY <1>2 DEF Record
<1>4. x = [s EXCEPT ![Len(s)] = marked]
  <2>1. s \in [1 .. Len(s) -> Record]
    BY LenProperties
  <2> QED BY <1>1, <2>1 DEF MarkLast
<1> HIDE DEF marked
<1>5. /\ x \in Seq(Record) /\ Len(x) = Len(s)
      /\ \A k \in 1 .. Len(s) : x[k] = IF k = Len(s) THEN marked ELSE s[k]
  <2>1. Len(s) \in 1 .. Len(s)
    BY <1>1
  <2> DEFINE y == [s EXCEPT ![Len(s)] = marked]
  <2>2. /\ y \in Seq(Record) /\ Len(y) = Len(s)
        /\ \A k \in 1 .. Len(s) : y[k] = IF k = Len(s) THEN marked ELSE s[k]
    BY <2>1, <1>3, ExceptSeq
  <2> QED BY <1>4, <2>2
<1>6. x # <<>>
  BY <1>1, <1>5, EmptySeq
<1>7. /\ \A k \in 1 .. Len(s) - 1 : x[k] = s[k]
      /\ x[Len(s)] = marked
  BY <1>1, <1>5
<1> QED BY <1>5, <1>6, <1>7 DEF marked
-----------------------------------------------------------------------------
(* Where the requests do not overlap, what is installed is signed.           *)

\* The types of the configuration in a form the provers can use.
LEMMA Listed ==
    ASSUME NEW m \in Manifests
    PROVE  /\ ListOf[m] \in Seq(Artifacts) /\ Len(ListOf[m]) \in Nat
           /\ \A k \in 1 .. Len(ListOf[m]) :
                 ListOf[m][k] \in Artifacts /\ TargetOf[ListOf[m][k]] \in Targets
<1>1. ListOf[m] \in Seq(Artifacts)
  BY UpdatesAssumption
<1>2. Len(ListOf[m]) \in Nat
  BY <1>1, LenProperties
<1>3. \A k \in 1 .. Len(ListOf[m]) : ListOf[m][k] \in Artifacts
  BY <1>1, ElementOfSeq
<1> QED BY <1>1, <1>2, <1>3, UpdatesAssumption

\* The invariant holds initially.
LEMMA SignedInit == Init => SignedInv
<1> SUFFICES ASSUME Init PROVE SignedInv
  OBVIOUS
<1> USE UpdatesAssumption DEF Init
<1>1. Installed(Base) \in Files
  <2>1. \A a \in Range(ListOf[Base]) : a \in Artifacts
    BY DEF Artifacts
  <2> QED BY <2>1 DEF Installed, Files, Wanted
<1>2. [r \in Requests |-> <<>>] \in [Requests -> Seq(Record)]
  BY EmptySeq
<1>3. Types
  BY <1>1, <1>2 DEF Types, Stations, Files
<1>4. Alone /\ Asked /\ Whole
  BY DEF Alone, Busy, Asked, Working, Whole
<1> QED BY <1>3, <1>4 DEF SignedInv

\* A step of one request keeps the others where they are, and none of them is
\* under way while it is.
LEMMA StepAlone ==
    ASSUME SignedInv, NEW r \in Requests, NEW p \in Stations,
           pc' = [pc EXCEPT ![r] = p],
           \A q \in Requests \ {r} :
              at'[q] = at[q] /\ asks'[q] = asks[q] /\ backups'[q] = backups[q],
           p \in {"idle", "sent", "end"} \/ \A q \in Requests \ {r} : ~ Busy(q),
           p \in {"idle", "sent", "end"} \/ asks'[r] \in Signed,
           p = "sent" => asks'[r] \in Manifests,
           p \in Working => at'[r] \in 1 .. Len(ListOf[asks'[r]]),
           p \in {"fetch", "write", "install", "restore"} => backups'[r] # <<>>
    PROVE  Alone' /\ Asked'
<1> USE DEF SignedInv, Types
<1>1. \A q \in Requests \ {r} : pc'[q] = pc[q] /\ (Busy(q)' <=> Busy(q))
  BY DEF Busy
<1>2. pc'[r] = p /\ (Busy(r)' <=> p \notin {"idle", "sent", "end"})
  BY DEF Busy
<1>3. Alone'
  BY <1>1, <1>2 DEF Alone
<1>4. Asked'
  BY <1>1, <1>2 DEF Asked, Busy, Working
<1> QED BY <1>3, <1>4

\* Where r is under way no other request is.
LEMMA OthersRest ==
    ASSUME Alone, NEW r \in Requests, Busy(r)
    PROVE  \A q \in Requests \ {r} : ~ Busy(q)
BY DEF Alone

\* Whole is about the request that is about to install.
LEMMA StepWhole ==
    ASSUME SignedInv, NEW r \in Requests, NEW p \in Stations \ {"install"},
           pc' = [pc EXCEPT ![r] = p],
           \A q \in Requests \ {r} :
              at'[q] = at[q] /\ asks'[q] = asks[q] /\ (Busy(q) => tmp' = tmp)
    PROVE  Whole'
<1> SUFFICES ASSUME NEW q \in Requests, pc'[q] = "install"
             PROVE  (tmp[Target(q)] = <<asks[q], Artifact(q)>>)'
  BY DEF Whole
<1>1. q # r /\ pc[q] = "install"
  BY DEF SignedInv, Types
<1>2. tmp' = tmp
  BY <1>1 DEF Busy
<1> QED BY <1>1, <1>2 DEF SignedInv, Whole, Target, Artifact

\* The steps before an apply, and its end.
LEMMA SignedOutside ==
    ASSUME SignedInv, Serial, NEW r \in Requests,
           DispatchUpdateApply(r) \/ SendApply(r) \/ Verify(r)
    PROVE  SignedInv'
<1> USE UpdatesAssumption DEF SignedInv, Types
<1>1. CASE DispatchUpdateApply(r)
  <2>1. PICK m \in FetchManifest :
           LET checked == CheckForUpdate(m, Own) IN
           IF checked = "sent"
           THEN Goto(r, "sent") /\ asks' = [asks EXCEPT ![r] = m] /\ UNCHANGED ret
           ELSE Return(r, checked) /\ UNCHANGED asks
    BY <1>1 DEF DispatchUpdateApply
  <2>2. UNCHANGED <<files, bak, tmp, at, backups, before, left, crashes>>
    BY <1>1 DEF DispatchUpdateApply, disk
  <2>3. CASE CheckForUpdate(m, Own) = "sent"
    <3>1. m \in Signed
      BY <2>3 DEF CheckForUpdate, VerifySignature
    <3>2. pc' = [pc EXCEPT ![r] = "sent"] /\ asks' = [asks EXCEPT ![r] = m] /\ ret' = ret
      BY <2>1, <2>3 DEF Goto
    <3>3. Types'
      BY <2>2, <3>1, <3>2 DEF Stations
    <3>4. Alone' /\ Asked'
      BY <2>2, <3>1, <3>2, StepAlone DEF Stations, Working
    <3>5. Whole'
      BY <2>2, <3>2, StepWhole DEF Stations
    <3> QED BY <3>3, <3>4, <3>5
  <2>4. CASE CheckForUpdate(m, Own) # "sent"
    <3>1. pc' = [pc EXCEPT ![r] = "end"] /\ asks' = asks /\ DOMAIN ret' = Requests
      BY <2>1, <2>4 DEF Return, Goto
    <3>2. Types'
      BY <2>2, <3>1 DEF Stations
    <3>3. Alone' /\ Asked'
      BY <2>2, <3>1, StepAlone DEF Stations, Working
    <3>4. Whole'
      BY <2>2, <3>1, StepWhole DEF Stations
    <3> QED BY <3>2, <3>3, <3>4
  <2> QED BY <2>3, <2>4
<1>2. CASE SendApply(r)
  <2>1. PICK m \in MayAsk : asks' = [asks EXCEPT ![r] = m]
    BY <1>2 DEF SendApply
  <2>2. /\ UNCHANGED <<files, bak, tmp, at, backups, before, left, ret>>
        /\ pc' = [pc EXCEPT ![r] = "sent"] /\ m \in Manifests
    BY <1>2 DEF SendApply, disk, Goto
  <2>3. Types'
    BY <2>1, <2>2 DEF Stations
  <2>4. Alone' /\ Asked'
    BY <2>1, <2>2, StepAlone DEF Stations, Working
  <2>5. Whole'
    BY <2>1, <2>2, StepWhole DEF Stations
  <2> QED BY <2>3, <2>4, <2>5
<1>3. CASE Verify(r)
  <2>1. PICK hashesMatch \in BOOLEAN :
          IF Accepts(r, hashesMatch)
          THEN Continue(r, 1) /\ before' = [before EXCEPT ![r] = files] /\ UNCHANGED ret
          ELSE Return(r, "refused") /\ UNCHANGED <<at, before>>
    BY <1>3 DEF Verify
  <2>2. /\ UNCHANGED <<files, bak, tmp, asks, backups, left, crashes>>
        /\ \A q \in Requests : ~ Busy(q)
        /\ pc[r] = "sent"
    BY <1>3 DEF Verify, disk
  <2>3. CASE Accepts(r, hashesMatch)
    <3>1. PICK p \in {"probe", "cleanup"} :
             /\ pc' = [pc EXCEPT ![r] = p] /\ at' = [at EXCEPT ![r] = 1]
             /\ p = "probe" => 1 <= Len(ListOf[asks[r]])
      BY <2>1, <2>3 DEF Continue, Goto
    <3>2. asks[r] \in Signed /\ before' = [before EXCEPT ![r] = files] /\ ret' = ret
      BY <2>1, <2>3 DEF Accepts, VerifySignature
    <3>3. Types'
      BY <2>2, <3>1, <3>2 DEF Stations
    <3>4. p = "probe" => 1 \in 1 .. Len(ListOf[asks[r]])
      BY <3>1, <3>2, Listed
    <3>5. Alone' /\ Asked'
      BY <2>2, <3>1, <3>2, <3>4, StepAlone DEF Stations, Working
    <3>6. Whole'
      BY <2>2, <3>1, <3>2, StepWhole DEF Stations
    <3> QED BY <3>3, <3>5, <3>6
  <2>4. CASE ~ Accepts(r, hashesMatch)
    <3>1. /\ pc' = [pc EXCEPT ![r] = "end"] /\ UNCHANGED <<at, before>>
          /\ DOMAIN ret' = Requests
      BY <2>1, <2>4 DEF Return, Goto
    <3>2. Types'
      BY <2>2, <3>1 DEF Stations
    <3>3. Alone' /\ Asked'
      BY <2>2, <3>1, StepAlone DEF Stations, Working
    <3>4. Whole'
      BY <2>2, <3>1, StepWhole DEF Stations
    <3> QED BY <3>2, <3>3, <3>4
  <2> QED BY <2>3, <2>4
<1> QED BY <1>1, <1>2, <1>3

\* What Busy, the types and the stations say of a request in the loop.
LEMMA AtWork ==
    ASSUME SignedInv, NEW r \in Requests, pc[r] \in Working
    PROVE  /\ Busy(r) /\ asks[r] \in Signed /\ asks[r] \in Manifests
           /\ at[r] \in Nat /\ at[r] \in 1 .. Len(ListOf[asks[r]])
           /\ Target(r) \in Targets
           /\ <<asks[r], Artifact(r)>> \in Wanted
           /\ \A q \in Requests \ {r} : ~ Busy(q)
<1>1. Busy(r)
  BY DEF Busy, Working
<1>2. asks[r] \in Signed /\ asks[r] \in Manifests /\ at[r] \in 1 .. Len(ListOf[asks[r]])
  BY <1>1, UpdatesAssumption DEF SignedInv, Asked
<1>3. Artifact(r) \in Artifacts /\ Target(r) \in Targets
  BY <1>2, Listed DEF Artifact, Target
<1> QED BY <1>1, <1>2, <1>3, OthersRest DEF SignedInv, Types, Wanted

\* The steps that install one artifact.
LEMMA SignedLoop ==
    ASSUME SignedInv, NEW r \in Requests,
           ProbeTarget(r) \/ MoveAside(r) \/ Fetch(r) \/ WriteTemp(r) \/ Install(r)
    PROVE  SignedInv'
<1> USE DEF SignedInv, Types
<1>0. pc[r] \in Working
  BY DEF ProbeTarget, MoveAside, Fetch, WriteTemp, Install, Working
<1>1. /\ Busy(r) /\ asks[r] \in Signed /\ asks[r] \in Manifests
      /\ at[r] \in Nat /\ at[r] \in 1 .. Len(ListOf[asks[r]])
      /\ Target(r) \in Targets /\ <<asks[r], Artifact(r)>> \in Wanted
      /\ \A q \in Requests \ {r} : ~ Busy(q)
  BY <1>0, AtWork
<1>2. ASSUME NEW saved \in BOOLEAN, Push(r, saved)
      PROVE  /\ backups' \in [Requests -> Seq(Record)] /\ backups'[r] # <<>>
             /\ \A q \in Requests \ {r} : backups'[q] = backups[q]
  <2> DEFINE new == [target |-> Target(r), saved |-> saved, wrote_new |-> FALSE]
  <2>1. new \in Record
    BY <1>1 DEF Record
  <2> HIDE DEF new
  <2>2. Append(backups[r], new) \in Seq(Record) /\ Append(backups[r], new) # <<>>
    BY <2>1, AppendProperties
  <2>3. backups' = [backups EXCEPT ![r] = Append(backups[r], new)]
    BY <1>2 DEF Push, new
  <2> QED BY <2>2, <2>3
<1>3. CASE ProbeTarget(r)
  <2>1. PICK p \in {"remove", "move", "fetch"} :
           /\ pc' = [pc EXCEPT ![r] = p]
           /\ UNCHANGED <<files, bak, tmp, asks, at, ret, before, left, crashes>>
           /\ IF p = "fetch" THEN Push(r, FALSE) ELSE UNCHANGED backups
    BY <1>3 DEF ProbeTarget, Fail, Goto, disk
  <2>2. Types' /\ (p = "fetch" => backups'[r] # <<>>)
               /\ \A q \in Requests \ {r} : backups'[q] = backups[q]
    BY <1>2, <2>1 DEF Stations
  <2>3. Alone' /\ Asked'
    BY <1>1, <2>1, <2>2, StepAlone DEF Stations, Working
  <2>4. Whole'
    BY <2>1, StepWhole DEF Stations
  <2> QED BY <2>2, <2>3, <2>4
<1>4. CASE MoveAside(r)
  <2>1. /\ UNCHANGED <<tmp, asks, at, ret, before, left, crashes>>
        /\ \/ /\ bak' = [bak EXCEPT ![Target(r)] = files[Target(r)]]
              /\ files' = [files EXCEPT ![Target(r)] = None]
              /\ Push(r, TRUE) /\ pc' = [pc EXCEPT ![r] = "fetch"]
           \/ pc' = [pc EXCEPT ![r] = "remove"] /\ UNCHANGED <<files, bak, backups>>
    BY <1>4 DEF MoveAside, Fail, Goto
  <2>2. files' \in Files /\ bak' \in Files
    BY <1>1, <2>1 DEF Files
  <2>3. PICK p \in {"fetch", "remove"} :
           /\ pc' = [pc EXCEPT ![r] = p]
           /\ IF p = "fetch" THEN Push(r, TRUE) ELSE UNCHANGED backups
    BY <2>1
  <2>4. Types' /\ (p = "fetch" => backups'[r] # <<>>)
               /\ \A q \in Requests \ {r} : backups'[q] = backups[q]
    BY <1>2, <2>1, <2>2, <2>3 DEF Stations
  <2>5. Alone' /\ Asked'
    BY <1>1, <2>1, <2>3, <2>4, StepAlone DEF Stations, Working
  <2>6. Whole'
    BY <2>1, <2>3, StepWhole DEF Stations
  <2> QED BY <2>4, <2>5, <2>6
<1>5. CASE Fetch(r)
  <2>1. PICK p \in {"write", "remove"} :
           /\ pc[r] = "fetch" /\ pc' = [pc EXCEPT ![r] = p]
           /\ UNCHANGED <<files, bak, tmp, asks, at, backups, ret, before, left, crashes>>
    BY <1>5 DEF Fetch, Fail, Goto, disk
  <2>2. Types'
    BY <2>1 DEF Stations
  <2>3. Alone' /\ Asked'
    BY <1>1, <2>1, StepAlone DEF Stations, Working, Asked
  <2>4. Whole'
    BY <2>1, StepWhole DEF Stations
  <2> QED BY <2>2, <2>3, <2>4
<1>6. CASE WriteTemp(r)
  <2>1. /\ pc[r] = "write"
        /\ UNCHANGED <<files, bak, asks, at, backups, ret, before, left, crashes>>
        /\ \/ /\ tmp' = [tmp EXCEPT ![Target(r)] = <<asks[r], Artifact(r)>>]
              /\ pc' = [pc EXCEPT ![r] = "install"]
           \/ /\ tmp' = [tmp EXCEPT ![Target(r)] = Torn]
              /\ pc' = [pc EXCEPT ![r] = "remove"]
    BY <1>6 DEF WriteTemp, Fail, Goto
  <2>2. PICK p \in {"install", "remove"} : pc' = [pc EXCEPT ![r] = p]
    BY <2>1
  <2>3. Types'
    BY <2>1, <2>2 DEF Stations
  <2>4. Alone' /\ Asked'
    BY <1>1, <2>1, <2>2, StepAlone DEF Stations, Working, Asked
  <2>5. ASSUME NEW q \in Requests, pc'[q] = "install"
        PROVE  tmp'[Target(q)'] = <<asks'[q], Artifact(q)'>>
    <3>1. q = r
      BY <1>1, <2>5, <2>1 DEF Busy
    <3>2. tmp' = [tmp EXCEPT ![Target(r)] = <<asks[r], Artifact(r)>>]
      BY <2>1, <2>5, <3>1
    <3> QED BY <1>1, <2>1, <3>1, <3>2 DEF Target, Artifact
  <2> QED BY <2>3, <2>4, <2>5 DEF Whole
<1>7. CASE Install(r)
  <2>1. /\ pc[r] = "install" /\ backups[r] # <<>>
        /\ tmp[Target(r)] = <<asks[r], Artifact(r)>>
    BY <1>7 DEF Install, Whole, Asked
  <2>2. UNCHANGED <<bak, asks, ret, before, left, crashes>>
    BY <1>7 DEF Install
  <2>3. CASE /\ files' = [files EXCEPT ![Target(r)] = tmp[Target(r)]]
             /\ tmp' = [tmp EXCEPT ![Target(r)] = None]
             /\ backups' = [backups EXCEPT ![r][Len(backups[r])].wrote_new = TRUE]
             /\ Continue(r, at[r] + 1)
    <3>1. files' \in Files
      BY <1>1, <2>1, <2>3 DEF Files
    <3> DEFINE marked == [backups[r] EXCEPT ![Len(backups[r])].wrote_new = TRUE]
    <3>3. backups' = [backups EXCEPT ![r] = marked]
      BY <2>3
    <3>9. marked = MarkLast(backups[r])
      BY DEF MarkLast
    <3> HIDE DEF marked
    <3>2. marked \in Seq(Record) /\ marked # <<>>
      <4>1. backups[r] \in Seq(Record)
        OBVIOUS
      <4> QED BY <2>1, <3>9, <4>1, Marked
    <3>4. PICK p \in {"probe", "cleanup"} :
             /\ pc' = [pc EXCEPT ![r] = p] /\ at' = [at EXCEPT ![r] = at[r] + 1]
             /\ p = "probe" => at[r] + 1 <= Len(ListOf[asks[r]])
      BY <2>3 DEF Continue, Goto
    <3>5. Types'
      <4>1. DOMAIN tmp' = Targets /\ at' \in [Requests -> Nat]
        BY <1>1, <2>3, <3>4
      <4>2. backups' \in [Requests -> Seq(Record)]
        BY <3>2, <3>3
      <4>3. pc' \in [Requests -> Stations]
        BY <3>4 DEF Stations
      <4> QED BY <2>2, <3>1, <4>1, <4>2, <4>3
    <3>6. p = "probe" => at[r] + 1 \in 1 .. Len(ListOf[asks[r]])
      BY <1>1, <3>4, Listed
    <3>7. Alone' /\ Asked'
      BY <1>1, <2>2, <3>3, <3>4, <3>6, StepAlone DEF Stations, Working
    <3>8. Whole'
      BY <1>1, <2>2, <3>4, StepWhole DEF Stations
    <3> QED BY <3>5, <3>7, <3>8
  <2>4. CASE Fail(r) /\ UNCHANGED <<files, tmp, backups, at>>
    <3>1. pc' = [pc EXCEPT ![r] = "remove"]
      BY <2>4 DEF Fail, Goto
    <3>2. Types'
      BY <2>2, <2>4, <3>1 DEF Stations
    <3>3. Alone' /\ Asked'
      BY <1>1, <2>2, <2>4, <3>1, StepAlone DEF Stations, Working
    <3>4. Whole'
      BY <2>2, <2>4, <3>1, StepWhole DEF Stations
    <3> QED BY <3>2, <3>3, <3>4
  <2> QED BY <1>7, <2>3, <2>4 DEF Install
<1> QED BY <1>3, <1>4, <1>5, <1>6, <1>7

\* The end of an apply: the clean-up and the rollback.
LEMMA SignedUndo ==
    ASSUME SignedInv, NEW r \in Requests, Cleanup(r) \/ RemoveNew(r) \/ Restore(r)
    PROVE  SignedInv'
<1> USE DEF SignedInv, Types
<1>1. /\ Busy(r) /\ asks[r] \in Signed
      /\ \A q \in Requests \ {r} : ~ Busy(q)
  BY OthersRest DEF Cleanup, RemoveNew, Restore, Busy, Asked
<1>2. backups[r] \in Seq(Record)
  OBVIOUS
<1>3. CASE Cleanup(r)
  <2>1. /\ UNCHANGED <<files, tmp, asks, at, before, left, crashes>>
        /\ IF backups[r] = <<>> THEN Return(r, "applied") /\ UNCHANGED <<bak, backups>>
           ELSE /\ \/ bak' = [bak EXCEPT ![Head(backups[r]).target] = None]
                   \/ UNCHANGED bak
                /\ backups' = [backups EXCEPT ![r] = Tail(@)]
                /\ UNCHANGED <<pc, ret>>
        /\ pc[r] = "cleanup"
    BY <1>3 DEF Cleanup
  <2>2. PICK p \in {"cleanup", "end"} : pc' = [pc EXCEPT ![r] = p]
    BY <2>1 DEF Return, Goto
  <2>3. backups' \in [Requests -> Seq(Record)]
    <3>1. CASE backups[r] = <<>>
      BY <2>1, <3>1
    <3>2. CASE backups[r] # <<>>
      <4>1. Tail(backups[r]) \in Seq(Record)
        BY <1>2, <3>2, HeadTailProperties
      <4> QED BY <2>1, <3>2, <4>1
    <3> QED BY <3>1, <3>2
  <2>4. bak' \in Files
    BY <2>1 DEF Files
  <2>5. DOMAIN ret' = Requests
    BY <2>1 DEF Return
  <2>6. Types'
    BY <2>1, <2>2, <2>3, <2>4, <2>5 DEF Stations
  <2>7. \A q \in Requests \ {r} : backups'[q] = backups[q]
    BY <2>1
  <2>8. Alone' /\ Asked'
    BY <1>1, <2>1, <2>2, <2>7, StepAlone DEF Stations, Working
  <2>9. Whole'
    BY <2>1, <2>2, StepWhole DEF Stations
  <2> QED BY <2>6, <2>8, <2>9
<1>4. CASE RemoveNew(r)
  <2> DEFINE old == Last(backups[r])
  <2>1. PICK p \in {"restore", "end"} :
           /\ pc' = [pc EXCEPT ![r] = p]
           /\ p = "restore" => backups[r] # <<>>
           /\ UNCHANGED <<bak, tmp, asks, at, backups, before, crashes>>
           /\ DOMAIN ret' = Requests
           /\ \/ /\ files' = files \/ files' = [files EXCEPT ![old.target] = None]
                 /\ left' = left
              \/ /\ files' = files /\ backups[r] # <<>>
                 /\ left' = [left EXCEPT ![r] = @ \cup {old.target}]
    BY <1>4 DEF RemoveNew, Return, Goto
  <2>2. backups[r] # <<>> => old.target \in Targets
    <3>1. backups[r] # <<>> => Last(backups[r]) \in Record
      BY <1>2, Popped
    <3> QED BY <3>1 DEF Record
  <2> HIDE DEF old
  <2>3. files' \in Files /\ left' \in [Requests -> SUBSET Targets]
    <3>1. CASE left' = left
      BY <2>1, <3>1 DEF Files
    <3>2. CASE /\ files' = files /\ backups[r] # <<>>
               /\ left' = [left EXCEPT ![r] = @ \cup {old.target}]
      BY <2>2, <3>2
    <3> QED BY <2>1, <3>1, <3>2
  <2>4. Types'
    BY <2>1, <2>3 DEF Stations
  <2>5. Alone' /\ Asked'
    BY <1>1, <2>1, StepAlone DEF Stations, Working
  <2>6. Whole'
    BY <2>1, StepWhole DEF Stations
  <2> QED BY <2>4, <2>5, <2>6
<1>5. CASE Restore(r)
  <2> DEFINE old == Last(backups[r])
  <2>1. /\ pc[r] = "restore" /\ pc' = [pc EXCEPT ![r] = "remove"]
        /\ UNCHANGED <<tmp, asks, at, ret, before, crashes>>
        /\ backups' = [backups EXCEPT ![r] = Front(@)]
        /\ \/ /\ files' = [files EXCEPT ![old.target] = bak[old.target]]
              /\ bak' = [bak EXCEPT ![old.target] = None]
           \/ UNCHANGED <<files, bak>>
        /\ \/ left' = [left EXCEPT ![r] = @ \ {old.target}]
           \/ left' = [left EXCEPT ![r] = @ \cup {old.target}]
           \/ left' = left
    BY <1>5 DEF Restore, Goto
  <2>2. Front(backups[r]) \in Seq(Record) /\ old.target \in Targets
    <3>1. backups[r] # <<>>
      BY <2>1 DEF Asked
    <3>2. Front(backups[r]) \in Seq(Record) /\ Last(backups[r]) \in Record
      BY <1>2, <3>1, Popped
    <3> QED BY <3>2 DEF Record
  <2> HIDE DEF old
  <2>3. files' \in Files /\ bak' \in Files /\ left' \in [Requests -> SUBSET Targets]
    <3>1. files' \in Files /\ bak' \in Files
      BY <2>1, <2>2 DEF Files
    <3>2. left' \in [Requests -> SUBSET Targets]
      BY <2>1, <2>2
    <3> QED BY <3>1, <3>2
  <2>4. Types'
    BY <2>1, <2>2, <2>3 DEF Stations
  <2>5. Alone' /\ Asked'
    BY <1>1, <2>1, StepAlone DEF Stations, Working
  <2>6. Whole'
    BY <2>1, StepWhole DEF Stations
  <2> QED BY <2>4, <2>5, <2>6
<1> QED BY <1>3, <1>4, <1>5

\* The process may end anywhere.
LEMMA SignedCrash == ASSUME SignedInv, Crash PROVE SignedInv'
<1> USE DEF SignedInv, Types
<1>1. /\ UNCHANGED <<files, bak, tmp, asks, at, before, left>>
      /\ pc' = [r \in Requests |-> IF Connected(r) THEN "end" ELSE pc[r]]
      /\ backups' = [r \in Requests |-> <<>>]
      /\ DOMAIN ret' = Requests
  BY DEF Crash, disk
<1>2. \A r \in Requests : pc'[r] \in {"idle", "end"}
  BY <1>1 DEF Connected
<1>3. Types'
  <2>1. <<>> \in Seq(Record)
    BY EmptySeq
  <2> QED BY <1>1, <1>2, <2>1 DEF Stations
<1>4. Alone' /\ Asked' /\ Whole'
  BY <1>2 DEF Alone, Busy, Asked, Working, Whole
<1> QED BY <1>3, <1>4

\* Every step keeps the invariant.
LEMMA SignedNext == ASSUME SignedInv, Serial, [Next]_vars PROVE SignedInv'
<1>1. ASSUME NEW r \in Requests, Step(r) PROVE SignedInv'
  BY <1>1, SignedOutside, SignedLoop, SignedUndo DEF Step
<1>2. CASE UNCHANGED vars
  BY <1>2 DEF vars, disk, SignedInv, Types, Alone, Asked, Whole, Busy, Target, Artifact
<1> QED BY <1>1, <1>2, SignedCrash DEF Next

\* Nothing unsigned and nothing cut short is ever installed or kept as a
\* backup, whatever clients send, the directory serves, the disk refuses and
\* the crashes interrupt (update-client/src/lib.rs, verify and apply).
THEOREM OnlySigned == ASSUME Serial PROVE Spec => []OnlySignedInstalled
<1>1. SignedInv => OnlySignedInstalled
  BY DEF SignedInv, Types, Files, Wanted, OnlySignedInstalled
<1>2. SignedInv /\ [Next]_vars => SignedInv'
  BY SignedNext
<1> QED BY <1>1, <1>2, SignedInit, PTL DEF Spec
-----------------------------------------------------------------------------
(* One apply, record by record.  What follows is about the values a request  *)
(* has at a station: p, its manifest m, its index i, its records recs, the   *)
(* files old that it has found, the disk with files f and backups b, and the *)
(* paths l that its rollback could not clear or restore.                     *)

(* No two artifacts of one manifest share a path, as where a daemon installs *)
(* each location at a path of its own; the disk always says whether a file   *)
(* exists.                                                                   *)
OwnPaths ==
    \A m \in Manifests : \A j, k \in 1 .. Len(ListOf[m]) :
        TargetOf[ListOf[m][j]] = TargetOf[ListOf[m][k]] => j = k
SureDisk == "probe" \notin Faults

Path(m, k) == TargetOf[ListOf[m][k]]
Content(m, k) == <<m, ListOf[m][k]>>

(* A record says what was there, and its backup holds it.                    *)
Kept(m, recs, old, f, b) ==
    \A k \in 1 .. Len(recs) :
        /\ recs[k].target = Path(m, k)
        /\ recs[k].saved <=> old[Path(m, k)] # None
        /\ recs[k].saved => b[Path(m, k)] = old[Path(m, k)]
        /\ ~ recs[k].wrote_new => f[Path(m, k)] = None

(* The files without a record are as they were found, or could not be undone *)
(* and are still in their backups.                                           *)
Untouched(m, n, old, f, b, l) ==
    \A t \in Targets : (\A k \in 1 .. n : Path(m, k) # t) =>
        IF t \in l THEN old[t] \in {None, b[t]} ELSE f[t] = old[t]

Written(m, recs, n, f) ==
    \A k \in 1 .. n : recs[k].wrote_new /\ f[Path(m, k)] = Content(m, k)

Undoing == {"remove", "restore"}

Good(p, m, i, recs, old, f, b, l) ==
    /\ p \in Working \cup Undoing =>
          /\ Len(recs) <= Len(ListOf[m])
          /\ Kept(m, recs, old, f, b)
          /\ Untouched(m, Len(recs), old, f, b, l)
    /\ p \in Working \cup {"cleanup"} => l = {}
    /\ p \in {"probe", "move"} => Len(recs) = i - 1 /\ Written(m, recs, i - 1, f)
    /\ p \in {"fetch", "write", "install"} =>
          Len(recs) = i /\ Written(m, recs, i - 1, f) /\ ~ recs[i].wrote_new
    /\ p = "restore" => f[Path(m, Len(recs))] = None \/ Path(m, Len(recs)) \in l
    /\ p = "cleanup" =>
          /\ \A k \in 1 .. Len(ListOf[m]) : f[Path(m, k)] = Content(m, k)
          /\ Untouched(m, Len(ListOf[m]), old, f, b, l)

\* Two paths of one manifest differ.
LEMMA Apart ==
    ASSUME OwnPaths, NEW m \in Manifests, NEW i \in 1 .. Len(ListOf[m])
    PROVE  /\ Path(m, i) \in Targets
           /\ \A k \in 1 .. Len(ListOf[m]) : k # i => Path(m, k) # Path(m, i)
BY Listed DEF OwnPaths, Path

\* A file is given its record, with or without a backup.
LEMMA Recorded ==
    ASSUME OwnPaths, NEW m \in Manifests, NEW i \in 1 .. Len(ListOf[m]),
           NEW recs \in Seq(Record), NEW old \in Files, NEW f \in Files, NEW b \in Files, NEW l,
           NEW p \in {"probe", "move"}, Good(p, m, i, recs, old, f, b, l),
           NEW saved \in BOOLEAN, NEW f2, NEW b2,
           saved <=> f[Path(m, i)] # None,
           saved => /\ f2 = [f EXCEPT ![Path(m, i)] = None]
                    /\ b2 = [b EXCEPT ![Path(m, i)] = f[Path(m, i)]],
           ~ saved => f2 = f /\ b2 = b
    PROVE  Good("fetch", m, i,
                Append(recs, [target |-> Path(m, i), saved |-> saved, wrote_new |-> FALSE]),
                old, f2, b2, l)
<1> DEFINE new == [target |-> Path(m, i), saved |-> saved, wrote_new |-> FALSE]
           longer == Append(recs, new)
<1>1. /\ Path(m, i) \in Targets
      /\ \A k \in 1 .. Len(ListOf[m]) : k # i => Path(m, k) # Path(m, i)
  BY Apart
<1>2. Len(ListOf[m]) \in Nat
  BY Listed
<1>3. /\ Len(recs) = i - 1 /\ Written(m, recs, i - 1, f)
      /\ Kept(m, recs, old, f, b) /\ Untouched(m, i - 1, old, f, b, l) /\ l = {}
  BY DEF Good, Working
<1>4. new \in Record
  BY <1>1 DEF Record
<1>5. new.target = Path(m, i) /\ new.saved = saved /\ new.wrote_new = FALSE
  OBVIOUS
<1> HIDE DEF new
<1>6. /\ Len(longer) = i /\ longer[i] = new
      /\ \A k \in 1 .. i - 1 : longer[k] = recs[k]
  BY <1>3, <1>4, AppendProperties
<1> HIDE DEF longer
<1>7. old[Path(m, i)] = f[Path(m, i)]
  BY <1>1, <1>2, <1>3 DEF Untouched
<1>8. \A t \in Targets : t # Path(m, i) => f2[t] = f[t] /\ b2[t] = b[t]
  BY DEF Files
<1>9. f2[Path(m, i)] = None /\ (saved => b2[Path(m, i)] = f[Path(m, i)])
  BY <1>1 DEF Files
<1>10. \A k \in 1 .. i - 1 : Path(m, k) \in Targets /\ Path(m, k) # Path(m, i)
  BY <1>1, <1>2, Apart
<1>11. Kept(m, longer, old, f2, b2)
  <2> SUFFICES ASSUME NEW k \in 1 .. i
               PROVE  /\ longer[k].target = Path(m, k)
                      /\ longer[k].saved <=> old[Path(m, k)] # None
                      /\ longer[k].saved => b2[Path(m, k)] = old[Path(m, k)]
                      /\ ~ longer[k].wrote_new => f2[Path(m, k)] = None
    BY <1>6 DEF Kept
  <2>1. CASE k = i
    BY <1>5, <1>6, <1>7, <1>9, <2>1
  <2>2. CASE k \in 1 .. i - 1
    BY <1>3, <1>6, <1>8, <1>10, <2>2 DEF Kept
  <2> QED BY <2>1, <2>2
<1>12. Untouched(m, i, old, f2, b2, l)
  BY <1>3, <1>8 DEF Untouched
<1>13. Written(m, longer, i - 1, f2)
  BY <1>3, <1>6, <1>8, <1>10 DEF Written
<1>14. Good("fetch", m, i, longer, old, f2, b2, l)
  BY <1>2, <1>3, <1>5, <1>6, <1>11, <1>12, <1>13 DEF Good, Undoing
<1> QED BY <1>14 DEF longer, new

\* The file is installed and its record marked; the next one follows, if any.
LEMMA Replaced ==
    ASSUME OwnPaths, NEW m \in Manifests, NEW i \in 1 .. Len(ListOf[m]),
           NEW recs \in Seq(Record), NEW old \in Files, NEW f \in Files, NEW b \in Files, NEW l,
           Good("install", m, i, recs, old, f, b, l), recs # <<>>,
           NEW marked, marked = MarkLast(recs),
           NEW f2, f2 = [f EXCEPT ![Path(m, i)] = Content(m, i)]
    PROVE  IF i + 1 <= Len(ListOf[m]) THEN Good("probe", m, i + 1, marked, old, f2, b, l)
                                      ELSE Good("cleanup", m, i + 1, marked, old, f2, b, l)
<1>1. /\ Path(m, i) \in Targets
      /\ \A k \in 1 .. i - 1 : Path(m, k) \in Targets /\ Path(m, k) # Path(m, i)
  BY Apart, Listed
<1>2. Len(ListOf[m]) \in Nat
  BY Listed
<1>3. /\ Len(recs) = i /\ Written(m, recs, i - 1, f)
      /\ Kept(m, recs, old, f, b) /\ Untouched(m, i, old, f, b, l) /\ l = {}
  BY DEF Good, Working
<1>4. /\ Len(marked) = i
      /\ \A k \in 1 .. i - 1 : marked[k] = recs[k]
      /\ marked[i] = [recs[i] EXCEPT !.wrote_new = TRUE]
  <2>1. /\ Len(marked) = Len(recs)
        /\ \A k \in 1 .. Len(recs) - 1 : marked[k] = recs[k]
        /\ marked[Len(recs)] = [recs[Len(recs)] EXCEPT !.wrote_new = TRUE]
    BY Marked
  <2> QED BY <1>3, <2>1
<1>5. recs[i] \in Record
  BY <1>3, ElementOfSeq
<1>6. /\ marked[i].target = recs[i].target /\ marked[i].saved = recs[i].saved
      /\ marked[i].wrote_new = TRUE
  BY <1>4, <1>5 DEF Record
<1>7. /\ \A t \in Targets : t # Path(m, i) => f2[t] = f[t]
      /\ f2[Path(m, i)] = Content(m, i)
  BY <1>1 DEF Files
<1>8. Kept(m, marked, old, f2, b)
  <2> SUFFICES ASSUME NEW k \in 1 .. i
               PROVE  /\ marked[k].target = Path(m, k)
                      /\ marked[k].saved <=> old[Path(m, k)] # None
                      /\ marked[k].saved => b[Path(m, k)] = old[Path(m, k)]
                      /\ ~ marked[k].wrote_new => f2[Path(m, k)] = None
    BY <1>4 DEF Kept
  <2>1. CASE k = i
    BY <1>3, <1>6, <2>1 DEF Kept
  <2>2. CASE k \in 1 .. i - 1
    BY <1>1, <1>3, <1>4, <1>7, <2>2 DEF Kept
  <2> QED BY <2>1, <2>2
<1>9. Untouched(m, i, old, f2, b, l)
  BY <1>3, <1>7 DEF Untouched
<1>10. Written(m, marked, i, f2)
  <2> SUFFICES ASSUME NEW k \in 1 .. i
               PROVE  marked[k].wrote_new /\ f2[Path(m, k)] = Content(m, k)
    BY DEF Written
  <2>1. CASE k = i
    BY <1>6, <1>7, <2>1
  <2>2. CASE k \in 1 .. i - 1
    BY <1>1, <1>3, <1>4, <1>7, <2>2 DEF Written
  <2> QED BY <2>1, <2>2
<1>11. CASE i + 1 <= Len(ListOf[m])
  <2>1. i + 1 - 1 = i
    OBVIOUS
  <2> QED BY <1>2, <1>3, <1>4, <1>8, <1>9, <1>10, <1>11, <2>1 DEF Good, Undoing
<1>12. CASE ~ (i + 1 <= Len(ListOf[m]))
  <2>1. i = Len(ListOf[m])
    BY <1>2, <1>12
  <2> QED BY <1>3, <1>9, <1>10, <1>12, <2>1 DEF Good, Working, Undoing, Written
<1> QED BY <1>11, <1>12

\* The rollback removes what the last record has written, or cannot ...
LEMMA Removed ==
    ASSUME OwnPaths, NEW m \in Manifests, NEW i,
           NEW recs \in Seq(Record), NEW old \in Files, NEW f \in Files, NEW b \in Files, NEW l,
           Good("remove", m, i, recs, old, f, b, l), recs # <<>>,
           NEW f2, NEW l2,
           \/ /\ f2 = IF Last(recs).wrote_new
                      THEN [f EXCEPT ![Last(recs).target] = None] ELSE f
              /\ l2 = l
           \/ f2 = f /\ l2 = l \cup {Last(recs).target}
    PROVE  Good("restore", m, i, recs, old, f2, b, l2)
<1> DEFINE n == Len(recs)
<1>1. /\ n \in Nat \ {0} /\ n <= Len(ListOf[m])
      /\ Kept(m, recs, old, f, b) /\ Untouched(m, n, old, f, b, l)
  BY EmptySeq DEF Good, Undoing
<1>2. n \in 1 .. Len(ListOf[m])
  BY <1>1, Listed
<1> HIDE DEF n
<1>3. Last(recs) = recs[n]
  BY Popped DEF n
<1>4. recs[n].target = Path(m, n) /\ (~ recs[n].wrote_new => f[Path(m, n)] = None)
  BY <1>1 DEF Kept, n
<1>5. Path(m, n) \in Targets
  BY <1>2, Apart
<1>6. /\ f2[Path(m, n)] \in {None, f[Path(m, n)]}
      /\ f2[Path(m, n)] = None \/ Path(m, n) \in l2
      /\ \A t \in Targets : t # Path(m, n) => f2[t] = f[t] /\ (t \in l2 <=> t \in l)
  BY <1>3, <1>4, <1>5 DEF Files
<1>7. \A k \in 1 .. n : Path(m, k) \in Targets
  BY <1>2, Apart, Listed
<1>8. Kept(m, recs, old, f2, b)
  <2> SUFFICES ASSUME NEW k \in 1 .. n, ~ recs[k].wrote_new PROVE f2[Path(m, k)] = None
    BY <1>1 DEF Kept, n
  <2>1. f[Path(m, k)] = None
    BY <1>1 DEF Kept, n
  <2> QED BY <1>6, <1>7, <2>1
<1>9. Untouched(m, n, old, f2, b, l2)
  <2> SUFFICES ASSUME NEW t \in Targets, \A k \in 1 .. n : Path(m, k) # t
               PROVE  IF t \in l2 THEN old[t] \in {None, b[t]} ELSE f2[t] = old[t]
    BY DEF Untouched
  <2>1. t # Path(m, n)
    BY <1>1
  <2>2. IF t \in l THEN old[t] \in {None, b[t]} ELSE f[t] = old[t]
    BY <1>1 DEF Untouched
  <2> QED BY <1>6, <2>1, <2>2
<1> QED BY <1>1, <1>6, <1>8, <1>9 DEF Good, Working, n

\* ... and restores what it has saved, or leaves it in its backup.
LEMMA Restored ==
    ASSUME OwnPaths, NEW m \in Manifests, NEW i,
           NEW recs \in Seq(Record), NEW old \in Files, NEW f \in Files, NEW b \in Files, NEW l,
           Good("restore", m, i, recs, old, f, b, l), recs # <<>>,
           NEW f2, NEW b2, NEW l2,
           \/ /\ Last(recs).saved
              /\ f2 = [f EXCEPT ![Last(recs).target] = b[Last(recs).target]]
              /\ b2 = [b EXCEPT ![Last(recs).target] = None]
              /\ l2 = l \ {Last(recs).target}
           \/ /\ Last(recs).saved /\ l2 = l \cup {Last(recs).target}
              /\ f2 = f /\ b2 = b
           \/ /\ ~ Last(recs).saved /\ l2 = l
              /\ f2 = f /\ b2 = b
    PROVE  Good("remove", m, i, Front(recs), old, f2, b2, l2)
<1> DEFINE n == Len(recs)
<1>1. /\ n \in Nat \ {0} /\ n <= Len(ListOf[m])
      /\ Kept(m, recs, old, f, b) /\ Untouched(m, n, old, f, b, l)
      /\ f[Path(m, n)] = None \/ Path(m, n) \in l
  BY EmptySeq DEF Good, Undoing
<1>2. n \in 1 .. Len(ListOf[m]) /\ Len(ListOf[m]) \in Nat
  BY <1>1, Listed
<1> HIDE DEF n
<1>3. /\ Last(recs) = recs[n] /\ Len(Front(recs)) = n - 1
      /\ \A k \in 1 .. n - 1 : Front(recs)[k] = recs[k]
  BY Popped DEF n
<1>4. /\ recs[n].target = Path(m, n)
      /\ recs[n].saved <=> old[Path(m, n)] # None
      /\ recs[n].saved => b[Path(m, n)] = old[Path(m, n)]
  BY <1>1 DEF Kept, n
<1>5. /\ Path(m, n) \in Targets
      /\ \A k \in 1 .. n - 1 : Path(m, k) \in Targets /\ Path(m, k) # Path(m, n)
  BY <1>2, Apart
<1>6. \A t \in Targets : t # Path(m, n) =>
          f2[t] = f[t] /\ b2[t] = b[t] /\ (t \in l2 <=> t \in l)
  BY <1>3, <1>4 DEF Files
<1>7. IF Path(m, n) \in l2 THEN old[Path(m, n)] \in {None, b2[Path(m, n)]}
                           ELSE f2[Path(m, n)] = old[Path(m, n)]
  <2>1. CASE recs[n].saved
    BY <1>3, <1>4, <1>5, <2>1 DEF Files
  <2>2. CASE ~ recs[n].saved
    BY <1>1, <1>3, <1>4, <2>2
  <2> QED BY <2>1, <2>2
<1>8. Kept(m, Front(recs), old, f2, b2)
  <2> SUFFICES ASSUME NEW k \in 1 .. n - 1
               PROVE  /\ Front(recs)[k].target = Path(m, k)
                      /\ Front(recs)[k].saved <=> old[Path(m, k)] # None
                      /\ Front(recs)[k].saved => b2[Path(m, k)] = old[Path(m, k)]
                      /\ ~ Front(recs)[k].wrote_new => f2[Path(m, k)] = None
    BY <1>3 DEF Kept
  <2>1. k \in 1 .. Len(recs)
    BY <1>1 DEF n
  <2> QED BY <1>1, <1>3, <1>5, <1>6, <2>1 DEF Kept
<1>9. Untouched(m, n - 1, old, f2, b2, l2)
  <2> SUFFICES ASSUME NEW t \in Targets, \A k \in 1 .. n - 1 : Path(m, k) # t
               PROVE  IF t \in l2 THEN old[t] \in {None, b2[t]} ELSE f2[t] = old[t]
    BY DEF Untouched
  <2>1. CASE t = Path(m, n)
    BY <1>7, <2>1
  <2>2. CASE t # Path(m, n)
    <3>1. \A k \in 1 .. n : Path(m, k) # t
      BY <1>1, <2>2
    <3>2. IF t \in l THEN old[t] \in {None, b[t]} ELSE f[t] = old[t]
      BY <1>1, <3>1 DEF Untouched
    <3> QED BY <1>6, <2>2, <3>2
  <2> QED BY <2>1, <2>2
<1>10. n - 1 <= Len(ListOf[m])
  BY <1>1, <1>2
<1> QED BY <1>3, <1>8, <1>9, <1>10 DEF Good, Working

(* Every request under way stands where its records say.                     *)
Records ==
    \A r \in Requests :
        /\ ~ Busy(r) => backups[r] = <<>>
        /\ pc[r] \in {"idle", "sent"} => left[r] = {}
        /\ Busy(r) => Good(pc[r], asks[r], at[r], backups[r], before[r], files, bak, left[r])

IInv == SignedInv /\ Records

\* A step of one request is judged by where it leaves that request.
LEMMA StepRecords ==
    ASSUME IInv, NEW r \in Requests, NEW p \in Stations,
           pc' = [pc EXCEPT ![r] = p],
           \A q \in Requests \ {r} :
              /\ backups'[q] = backups[q] /\ asks'[q] = asks[q]
              /\ at'[q] = at[q] /\ before'[q] = before[q] /\ left'[q] = left[q],
           (files' = files /\ bak' = bak) \/ (\A q \in Requests \ {r} : ~ Busy(q)),
           IF p \in {"idle", "sent", "end"}
           THEN backups'[r] = <<>> /\ (p # "end" => left'[r] = {})
           ELSE Good(p, asks'[r], at'[r], backups'[r], before'[r], files', bak', left'[r])
    PROVE  Records'
<1>1. /\ pc'[r] = p /\ (Busy(r)' <=> p \notin {"idle", "sent", "end"})
      /\ \A q \in Requests \ {r} : pc'[q] = pc[q] /\ (Busy(q)' <=> Busy(q))
  BY DEF Busy, IInv, SignedInv, Types
<1>2. ASSUME NEW q \in Requests \ {r}
      PROVE  /\ ~ Busy(q)' => backups'[q] = <<>>
             /\ pc'[q] \in {"idle", "sent"} => left'[q] = {}
             /\ Busy(q)' => Good(pc'[q], asks'[q], at'[q], backups'[q], before'[q],
                                 files', bak', left'[q])
  BY <1>1 DEF IInv, Records
<1>3. /\ ~ Busy(r)' => backups'[r] = <<>>
      /\ pc'[r] \in {"idle", "sent"} => left'[r] = {}
      /\ Busy(r)' => Good(pc'[r], asks'[r], at'[r], backups'[r], before'[r], files', bak', left'[r])
  BY <1>1
<1> QED BY <1>2, <1>3 DEF Records

\* From one station of the loop to the next; from any of them to the rollback.
LEMMA Onwards ==
    ASSUME NEW m, NEW i, NEW recs, NEW old, NEW f, NEW b, NEW l
    PROVE  /\ Good("probe", m, i, recs, old, f, b, l) => Good("move", m, i, recs, old, f, b, l)
           /\ Good("fetch", m, i, recs, old, f, b, l) => Good("write", m, i, recs, old, f, b, l)
           /\ Good("write", m, i, recs, old, f, b, l) => Good("install", m, i, recs, old, f, b, l)
           /\ \A p \in Working :
                 Good(p, m, i, recs, old, f, b, l) => Good("remove", m, i, recs, old, f, b, l)
BY DEF Good, Working, Undoing

\* The steps before an apply.
LEMMA RecordsOutside ==
    ASSUME IInv, Serial, NEW r \in Requests,
           DispatchUpdateApply(r) \/ SendApply(r) \/ Verify(r)
    PROVE  Records'
<1> USE DEF IInv, SignedInv, Types
<1>0. backups[r] = <<>> /\ left[r] = {} /\ left' = left
  BY DEF Records, Busy, DispatchUpdateApply, SendApply, Verify
<1>1. CASE DispatchUpdateApply(r) \/ SendApply(r)
  <2>1. /\ UNCHANGED <<files, bak, at, backups, before>>
        /\ \A q \in Requests \ {r} : asks'[q] = asks[q]
    BY <1>1 DEF DispatchUpdateApply, SendApply, disk, Return
  <2>2. PICK p \in {"sent", "end"} : pc' = [pc EXCEPT ![r] = p]
    BY <1>1 DEF DispatchUpdateApply, SendApply, Return, Goto
  <2> QED BY <1>0, <2>1, <2>2, StepRecords DEF Stations
<1>2. CASE Verify(r)
  <2>1. PICK hashesMatch \in BOOLEAN :
          IF Accepts(r, hashesMatch)
          THEN Continue(r, 1) /\ before' = [before EXCEPT ![r] = files] /\ UNCHANGED ret
          ELSE Return(r, "refused") /\ UNCHANGED <<at, before>>
    BY <1>2 DEF Verify
  <2>2. UNCHANGED <<files, bak, asks, backups>>
    BY <1>2 DEF Verify, disk
  <2>3. CASE Accepts(r, hashesMatch)
    <3>1. PICK p \in {"probe", "cleanup"} :
             /\ pc' = [pc EXCEPT ![r] = p] /\ at' = [at EXCEPT ![r] = 1]
             /\ (p = "probe") <=> 1 <= Len(ListOf[asks[r]])
      BY <2>1, <2>3 DEF Continue, Goto
    <3>2. asks[r] \in Manifests /\ before' = [before EXCEPT ![r] = files]
      BY <2>1, <2>3, UpdatesAssumption, <1>2 DEF Accepts, VerifySignature, Asked, Verify
    <3>3. Good(p, asks[r], 1, <<>>, files, files, bak, {})
      <4>1. Len(<<>>) = 0 /\ Len(ListOf[asks[r]]) \in Nat
        BY <3>2, EmptySeq, Listed
      <4> QED BY <3>1, <4>1
              DEF Good, Working, Undoing, Kept, Untouched, Written
    <3>4. at'[r] = 1 /\ before'[r] = files /\ backups'[r] = <<>>
      BY <1>0, <2>2, <3>1, <3>2
    <3>5. Good(p, asks'[r], at'[r], backups'[r], before'[r], files', bak', left'[r])
      BY <1>0, <2>2, <3>3, <3>4
    <3>6. \A q \in Requests \ {r} : at'[q] = at[q] /\ before'[q] = before[q]
      BY <3>1, <3>2
    <3>7. p \in Stations /\ p \notin {"idle", "sent", "end"}
      BY DEF Stations
    <3> QED BY <1>0, <2>2, <3>1, <3>5, <3>6, <3>7, StepRecords
  <2>4. CASE ~ Accepts(r, hashesMatch)
    <3>1. pc' = [pc EXCEPT ![r] = "end"] /\ UNCHANGED <<at, before>>
      BY <2>1, <2>4 DEF Return, Goto
    <3> QED BY <1>0, <2>2, <3>1, StepRecords DEF Stations
  <2> QED BY <2>3, <2>4
<1> QED BY <1>1, <1>2

\* The steps that install one artifact.
LEMMA RecordsLoop ==
    ASSUME IInv, OwnPaths, SureDisk, NEW r \in Requests,
           ProbeTarget(r) \/ MoveAside(r) \/ Fetch(r) \/ WriteTemp(r) \/ Install(r)
    PROVE  Records'
<1> USE DEF IInv, SignedInv, Types
<1> DEFINE m == asks[r]
           i == at[r]
<1>0. pc[r] \in Working
  BY DEF ProbeTarget, MoveAside, Fetch, WriteTemp, Install, Working
<1>1. /\ Busy(r) /\ m \in Manifests /\ i \in 1 .. Len(ListOf[m])
      /\ Target(r) = Path(m, i) /\ <<m, Artifact(r)>> = Content(m, i)
      /\ \A q \in Requests \ {r} : ~ Busy(q)
  BY <1>0, AtWork DEF Target, Artifact, Path, Content
<1>2. Good(pc[r], m, i, backups[r], before[r], files, bak, left[r])
  BY <1>1 DEF Records
<1>3. Good("remove", m, i, backups[r], before[r], files, bak, left[r])
  BY <1>0, <1>2, Onwards
<1>4. /\ UNCHANGED <<asks, before, left>>
      /\ \A q \in Requests \ {r} :
           /\ backups'[q] = backups[q] /\ asks'[q] = asks[q]
           /\ at'[q] = at[q] /\ before'[q] = before[q] /\ left'[q] = left[q]
  <2>1. UNCHANGED <<asks, before, left>>
    BY DEF ProbeTarget, MoveAside, Fetch, WriteTemp, Install
  <2>2. \A q \in Requests \ {r} : at'[q] = at[q] /\ backups'[q] = backups[q]
    BY DEF ProbeTarget, MoveAside, Fetch, WriteTemp, Install, Push, Continue
  <2> QED BY <2>1, <2>2
<1>5. CASE Fail(r) /\ UNCHANGED <<files, bak, at, backups>>
  <2>1. pc' = [pc EXCEPT ![r] = "remove"]
    BY <1>5 DEF Fail, Goto
  <2> QED BY <1>3, <1>4, <1>5, <2>1, StepRecords DEF Stations
<1>6. ASSUME NEW saved \in BOOLEAN, pc[r] \in {"probe", "move"}, Push(r, saved),
             Goto(r, "fetch"), UNCHANGED at,
             saved <=> files[Path(m, i)] # None,
             saved => /\ files' = [files EXCEPT ![Path(m, i)] = None]
                      /\ bak' = [bak EXCEPT ![Path(m, i)] = files[Path(m, i)]],
             ~ saved => files' = files /\ bak' = bak
      PROVE  Records'
  <2> DEFINE longer == Append(backups[r], [target |-> Path(m, i), saved |-> saved,
                                           wrote_new |-> FALSE])
  <2>1. Good("fetch", m, i, longer, before[r], files', bak', left[r])
    <3> DEFINE recs == backups[r]
               old == before[r]
               l == left[r]
               f2 == files'
               b2 == bak'
               p == pc[r]
    <3>1. /\ recs \in Seq(Record) /\ old \in Files /\ files \in Files /\ bak \in Files
          /\ p \in {"probe", "move"} /\ Good(p, m, i, recs, old, files, bak, l)
      BY <1>2, <1>6
    <3>2. saved => /\ f2 = [files EXCEPT ![Path(m, i)] = None]
                   /\ b2 = [bak EXCEPT ![Path(m, i)] = files[Path(m, i)]]
      BY <1>6
    <3>3. ~ saved => f2 = files /\ b2 = bak
      BY <1>6
    <3>4. m \in Manifests /\ i \in 1 .. Len(ListOf[m])
      BY <1>1
    <3> HIDE DEF recs, old, l, f2, b2, p, m, i, IInv, SignedInv, Types
    <3>5. Good("fetch", m, i,
               Append(recs, [target |-> Path(m, i), saved |-> saved, wrote_new |-> FALSE]),
               old, f2, b2, l)
      BY <1>6, <3>1, <3>2, <3>3, <3>4, Recorded
    <3> QED BY <3>5 DEF recs, old, l, f2, b2
  <2>2. backups'[r] = longer
    BY <1>1, <1>6 DEF Push
  <2> HIDE DEF longer
  <2>3. pc' = [pc EXCEPT ![r] = "fetch"]
    BY <1>6 DEF Goto
  <2>4. Good("fetch", asks'[r], at'[r], backups'[r], before'[r], files', bak', left'[r])
    BY <1>4, <1>6, <2>1, <2>2
  <2>5. "fetch" \in Stations /\ "fetch" \notin {"idle", "sent", "end"}
    BY DEF Stations
  <2> HIDE DEF m, i, IInv, SignedInv, Types
  <2> QED BY <1>1, <1>4, <2>3, <2>4, <2>5, StepRecords DEF IInv
<1>7. CASE ProbeTarget(r)
  <2>1. pc[r] = "probe" /\ UNCHANGED <<files, bak, at>>
    BY <1>7 DEF ProbeTarget, disk
  <2>2. CASE Goto(r, "move") /\ UNCHANGED backups
    <3>1. Good("move", m, i, backups[r], before[r], files, bak, left[r])
      BY <1>2, <2>1, Onwards
    <3>2. pc' = [pc EXCEPT ![r] = "move"]
      BY <2>2 DEF Goto
    <3> QED BY <1>4, <2>1, <2>2, <3>1, <3>2, StepRecords DEF Stations
  <2>3. CASE files[Target(r)] = None /\ Push(r, FALSE) /\ Goto(r, "fetch")
    BY <1>1, <1>6, <2>1, <2>3
  <2> QED BY <1>5, <1>7, <2>1, <2>2, <2>3 DEF ProbeTarget, SureDisk
<1>8. CASE MoveAside(r)
  <2>1. pc[r] = "move" /\ UNCHANGED at
    BY <1>8 DEF MoveAside
  <2>2. CASE /\ files[Target(r)] # None
             /\ bak' = [bak EXCEPT ![Target(r)] = files[Target(r)]]
             /\ files' = [files EXCEPT ![Target(r)] = None]
             /\ Push(r, TRUE) /\ Goto(r, "fetch")
    BY <1>1, <1>6, <2>1, <2>2
  <2> QED BY <1>5, <1>8, <2>1, <2>2 DEF MoveAside
<1>9. CASE Fetch(r) \/ WriteTemp(r)
  <2>1. UNCHANGED <<files, bak, at, backups>>
    BY <1>9 DEF Fetch, WriteTemp, disk
  <2>2. PICK p \in {"write", "install", "remove"} :
           pc' = [pc EXCEPT ![r] = p] /\ Good(p, m, i, backups[r], before[r], files, bak, left[r])
    BY <1>2, <1>3, <1>9, Onwards DEF Fetch, WriteTemp, Goto, Fail
  <2> QED BY <1>4, <2>1, <2>2, StepRecords DEF Stations
<1>10. CASE Install(r)
  <2>1. /\ pc[r] = "install" /\ backups[r] # <<>>
        /\ tmp[Target(r)] = Content(m, i) /\ UNCHANGED bak
    BY <1>1, <1>10 DEF Install, Whole, Asked
  <2>2. CASE /\ files' = [files EXCEPT ![Target(r)] = tmp[Target(r)]]
             /\ backups' = [backups EXCEPT ![r][Len(backups[r])].wrote_new = TRUE]
             /\ Continue(r, at[r] + 1)
    <3> DEFINE marked == MarkLast(backups[r])
    <3>1. backups' = [backups EXCEPT ![r] = marked]
      BY <2>2 DEF MarkLast
    <3> HIDE DEF marked
    <3>2. IF i + 1 <= Len(ListOf[m])
          THEN Good("probe", m, i + 1, marked, before[r], files', bak, left[r])
          ELSE Good("cleanup", m, i + 1, marked, before[r], files', bak, left[r])
      <4>1. marked = MarkLast(backups[r])
        BY DEF marked
      <4>2. files' = [files EXCEPT ![Path(m, i)] = Content(m, i)]
        BY <1>1, <2>1, <2>2
      <4>3. Good("install", m, i, backups[r], before[r], files, bak, left[r])
        BY <1>2, <2>1
      <4> QED BY <1>1, <2>1, <4>1, <4>2, <4>3, Replaced
    <3>3. PICK p \in {"probe", "cleanup"} :
             /\ pc' = [pc EXCEPT ![r] = p] /\ at' = [at EXCEPT ![r] = i + 1]
             /\ (p = "probe") <=> i + 1 <= Len(ListOf[m])
      BY <2>2 DEF Continue, Goto
    <3>4. Good(p, m, i + 1, marked, before[r], files', bak, left[r])
      BY <3>2, <3>3
    <3>5. Good(p, asks'[r], at'[r], backups'[r], before'[r], files', bak', left'[r])
      BY <1>4, <2>1, <3>1, <3>3, <3>4
    <3>6. \A q \in Requests \ {r} : at'[q] = at[q] /\ backups'[q] = backups[q]
      BY <3>1, <3>3
    <3>7. p \in Stations /\ p \notin {"idle", "sent", "end"}
      BY DEF Stations
    <3> QED BY <1>1, <1>4, <3>3, <3>5, <3>6, <3>7, StepRecords
  <2> QED BY <1>5, <1>10, <2>1, <2>2 DEF Install
<1> QED BY <1>7, <1>8, <1>9, <1>10

\* The clean-up and the rollback.
LEMMA RecordsUndo ==
    ASSUME IInv, OwnPaths, SureDisk, NEW r \in Requests,
           Cleanup(r) \/ RemoveNew(r) \/ Restore(r)
    PROVE  Records'
<1> USE DEF IInv, SignedInv, Types
<1> DEFINE m == asks[r]
           recs == backups[r]
<1>1. /\ Busy(r) /\ m \in Manifests
      /\ \A q \in Requests \ {r} : ~ Busy(q)
  BY OthersRest, UpdatesAssumption DEF Cleanup, RemoveNew, Restore, Busy, Asked
<1>2. Good(pc[r], m, at[r], recs, before[r], files, bak, left[r])
  BY <1>1 DEF Records
<1>3. /\ UNCHANGED <<asks, at, before>>
      /\ \A q \in Requests \ {r} : backups'[q] = backups[q]
  BY DEF Cleanup, RemoveNew, Restore
<1>4. CASE Cleanup(r)
  <2>1. pc[r] = "cleanup" /\ UNCHANGED <<files, left>>
    BY <1>4 DEF Cleanup
  <2>2. CASE recs = <<>>
    <3>1. pc' = [pc EXCEPT ![r] = "end"] /\ backups'[r] = <<>>
      BY <1>4, <2>2 DEF Cleanup, Return, Goto
    <3> QED BY <1>1, <1>3, <2>1, <3>1, StepRecords DEF Stations
  <2>3. CASE recs # <<>>
    <3>1. pc' = [pc EXCEPT ![r] = "cleanup"]
      BY <1>4, <2>1, <2>3 DEF Cleanup
    <3>2. Good("cleanup", asks'[r], at'[r], backups'[r], before'[r], files', bak', left'[r])
      BY <1>2, <1>3, <2>1 DEF Good, Working, Undoing, Untouched
    <3> QED BY <1>1, <1>3, <2>1, <3>1, <3>2, StepRecords DEF Stations
  <2> QED BY <2>2, <2>3
<1>5. CASE RemoveNew(r)
  <2>1. pc[r] = "remove" /\ UNCHANGED <<bak, backups>>
    BY <1>5 DEF RemoveNew
  <2>2. CASE recs = <<>>
    <3>1. pc' = [pc EXCEPT ![r] = "end"] /\ left' = left
      BY <1>5, <2>2 DEF RemoveNew, Return, Goto
    <3> QED BY <1>1, <1>3, <2>1, <2>2, <3>1, StepRecords DEF Stations
  <2>3. CASE recs # <<>>
    <3>1. /\ pc' = [pc EXCEPT ![r] = "restore"]
          /\ \/ /\ files' = IF Last(recs).wrote_new
                            THEN [files EXCEPT ![Last(recs).target] = None] ELSE files
                /\ left' = left
             \/ /\ files' = files
                /\ left' = [left EXCEPT ![r] = left[r] \cup {Last(recs).target}]
      BY <1>5, <2>3 DEF RemoveNew, Goto
    <3>4. \A q \in Requests \ {r} : left'[q] = left[q]
      BY <3>1
    <3>5. \/ /\ files' = IF Last(recs).wrote_new
                        THEN [files EXCEPT ![Last(recs).target] = None] ELSE files
             /\ left'[r] = left[r]
          \/ files' = files /\ left'[r] = left[r] \cup {Last(recs).target}
      BY <3>1
    <3>6. /\ Good("remove", m, at[r], recs, before[r], files, bak, left[r])
          /\ recs \in Seq(Record) /\ before[r] \in Files /\ files \in Files /\ bak \in Files
      BY <1>2, <2>1
    <3>2. Good("restore", m, at[r], recs, before[r], files', bak, left'[r])
      <4> HIDE DEF recs, m
      <4> QED BY <1>1, <2>3, <3>5, <3>6, Removed
    <3>3. Good("restore", asks'[r], at'[r], backups'[r], before'[r], files', bak', left'[r])
      BY <1>3, <2>1, <3>2
    <3> QED BY <1>1, <1>3, <3>1, <3>3, <3>4, StepRecords DEF Stations
  <2> QED BY <2>2, <2>3
<1>6. CASE Restore(r)
  <2>1. /\ pc[r] = "restore" /\ recs # <<>>
        /\ pc' = [pc EXCEPT ![r] = "remove"]
        /\ backups' = [backups EXCEPT ![r] = Front(recs)]
    BY <1>6 DEF Restore, Goto, Asked
  <2>2. \/ /\ Last(recs).saved
           /\ files' = [files EXCEPT ![Last(recs).target] = bak[Last(recs).target]]
           /\ bak' = [bak EXCEPT ![Last(recs).target] = None]
           /\ left' = [left EXCEPT ![r] = left[r] \ {Last(recs).target}]
        \/ /\ Last(recs).saved
           /\ left' = [left EXCEPT ![r] = left[r] \cup {Last(recs).target}]
           /\ files' = files /\ bak' = bak
        \/ ~ Last(recs).saved /\ left' = left /\ files' = files /\ bak' = bak
    BY <1>6 DEF Restore
  <2>5. \A q \in Requests \ {r} : left'[q] = left[q]
    BY <2>2
  <2>6. \/ /\ Last(recs).saved
           /\ files' = [files EXCEPT ![Last(recs).target] = bak[Last(recs).target]]
           /\ bak' = [bak EXCEPT ![Last(recs).target] = None]
           /\ left'[r] = left[r] \ {Last(recs).target}
        \/ /\ Last(recs).saved
           /\ left'[r] = left[r] \cup {Last(recs).target}
           /\ files' = files /\ bak' = bak
        \/ ~ Last(recs).saved /\ left'[r] = left[r] /\ files' = files /\ bak' = bak
    BY <2>2
  <2>3. Good("remove", m, at[r], Front(recs), before[r], files', bak', left'[r])
    <3>1. Good("restore", m, at[r], recs, before[r], files, bak, left[r])
      BY <1>2, <2>1
    <3>2. /\ recs \in Seq(Record) /\ before[r] \in Files /\ files \in Files /\ bak \in Files
      OBVIOUS
    <3>3. m \in Manifests /\ recs # <<>>
      BY <1>1, <2>1
    <3>4. ASSUME NEW f2, NEW b2, NEW l2, f2 = files', b2 = bak', l2 = left'[r]
          PROVE  Good("remove", m, at[r], Front(recs), before[r], f2, b2, l2)
      <4> DEFINE old == before[r]
                 i == at[r]
                 l == left[r]
      <4>1. \/ /\ Last(recs).saved
               /\ f2 = [files EXCEPT ![Last(recs).target] = bak[Last(recs).target]]
               /\ b2 = [bak EXCEPT ![Last(recs).target] = None]
               /\ l2 = l \ {Last(recs).target}
            \/ /\ Last(recs).saved /\ l2 = l \cup {Last(recs).target}
               /\ f2 = files /\ b2 = bak
            \/ ~ Last(recs).saved /\ l2 = l /\ f2 = files /\ b2 = bak
        BY <2>6, <3>4
      <4>2. Good("restore", m, i, recs, old, files, bak, l)
        BY <3>1
      <4>3. /\ recs \in Seq(Record) /\ old \in Files /\ files \in Files /\ bak \in Files
            /\ m \in Manifests /\ recs # <<>>
        BY <3>2, <3>3
      <4>4. Good("remove", m, i, Front(recs), old, f2, b2, l2)
        <5> HIDE DEF recs, m, old, i, l
        <5> QED BY <4>1, <4>2, <4>3, Restored
      <4> QED BY <4>4
    <3> QED BY <3>4
  <2>4. Good("remove", asks'[r], at'[r], backups'[r], before'[r], files', bak', left'[r])
    BY <1>3, <2>1, <2>3
  <2> QED BY <1>1, <1>3, <2>1, <2>4, <2>5, StepRecords DEF Stations
<1> QED BY <1>4, <1>5, <1>6

\* Every step keeps the invariant; a crash leaves nobody under way.
LEMMA IInvNext ==
    ASSUME Serial, OwnPaths, SureDisk, IInv, [Next]_vars
    PROVE  IInv'
<1>1. SignedInv'
  BY SignedNext DEF IInv
<1> SUFFICES Records'
  BY <1>1 DEF IInv
<1>2. ASSUME NEW r \in Requests, Step(r) PROVE Records'
  BY <1>2, RecordsOutside, RecordsLoop, RecordsUndo DEF Step
<1>3. CASE Crash
  <2>1. /\ pc' = [r \in Requests |-> IF Connected(r) THEN "end" ELSE pc[r]]
        /\ backups' = [r \in Requests |-> <<>>]
    BY <1>3 DEF Crash
  <2>2. \A r \in Requests : ~ Busy(r)' /\ backups'[r] = <<>>
    BY <2>1 DEF Connected, Busy
  <2>3. \A r \in Requests : pc'[r] \in {"idle", "sent"} => pc[r] = "idle" /\ left'[r] = left[r]
    BY <1>3, <2>1 DEF Crash, Connected
  <2> QED BY <2>2, <2>3 DEF IInv, Records
<1>4. CASE UNCHANGED vars
  BY <1>4 DEF IInv, Records, vars, disk, Busy
<1> QED BY <1>2, <1>3, <1>4 DEF Next

\* The invariant holds initially.
LEMMA IInvInit == Init => IInv
<1> SUFFICES ASSUME Init PROVE Records
  BY SignedInit DEF IInv
<1> QED BY DEF Init, Records, Busy

-----------------------------------------------------------------------------

\* While an apply is under way, what it has found is still on the disk.
LEMMA Retained == ASSUME IInv, OwnPaths PROVE PreviousRetained
<1> SUFFICES ASSUME NEW r \in Requests, Busy(r), pc[r] # "cleanup",
                    NEW t \in Targets, before[r][t] # None
             PROVE  before[r][t] \in {files[t], bak[t]}
  BY DEF PreviousRetained
<1> DEFINE n == Len(backups[r])
<1>1. pc[r] \in Working \cup Undoing
  BY DEF IInv, SignedInv, Types, Stations, Busy, Working, Undoing
<1>2. /\ Kept(asks[r], backups[r], before[r], files, bak)
      /\ Untouched(asks[r], n, before[r], files, bak, left[r])
  BY <1>1 DEF IInv, Records, Good
<1>3. CASE \A k \in 1 .. n : Path(asks[r], k) # t
  BY <1>2, <1>3 DEF Untouched
<1>4. ASSUME NEW k \in 1 .. n, Path(asks[r], k) = t
      PROVE  bak[t] = before[r][t]
  BY <1>2, <1>4 DEF Kept
<1> QED BY <1>3, <1>4

\* With its last record gone, a rollback has put back what it could.
LEMMA BackAsBefore ==
    ASSUME IInv, NEW r \in Requests, RemoveNew(r), ret'[r] = "rolledback", ret[r] # "rolledback",
           NEW t \in Targets
    PROVE  IF t \in left[r] THEN before[r][t] \in {None, bak'[t]} ELSE files'[t] = before[r][t]
<1>1. backups[r] = <<>> /\ UNCHANGED <<files, bak>>
  BY DEF RemoveNew, Return
<1>2. Untouched(asks[r], 0, before[r], files, bak, left[r])
  BY <1>1, EmptySeq DEF RemoveNew, IInv, Records, Busy, Good, Undoing
<1> QED BY <1>1, <1>2 DEF Untouched

\* What a manifest installs at a path of its own is the one artifact it has there.
LEMMA InstalledHere ==
    ASSUME OwnPaths, NEW m \in Manifests
    PROVE  /\ \A k \in 1 .. Len(ListOf[m]) : Installed(m)[Path(m, k)] = Content(m, k)
           /\ \A t \in Targets : (\A k \in 1 .. Len(ListOf[m]) : Path(m, k) # t)
                                    => Installed(m)[t] = None
<1> DEFINE n == Len(ListOf[m])
<1>1. DOMAIN ListOf[m] = 1 .. n
  BY Listed, LenProperties
<1>2. \A a : a \in Range(ListOf[m]) <=> \E k \in 1 .. n : a = ListOf[m][k]
  BY <1>1 DEF Range
<1>3. ASSUME NEW k \in 1 .. n PROVE Installed(m)[Path(m, k)] = Content(m, k)
  <2> DEFINE a == CHOOSE x \in Range(ListOf[m]) : TargetOf[x] = Path(m, k)
  <2>1. ListOf[m][k] \in Range(ListOf[m]) /\ TargetOf[ListOf[m][k]] = Path(m, k)
    BY <1>2 DEF Path
  <2>2. a \in Range(ListOf[m]) /\ TargetOf[a] = Path(m, k)
    BY <2>1
  <2>3. PICK j \in 1 .. n : a = ListOf[m][j]
    BY <1>2, <2>2
  <2>4. j = k
    BY <2>2, <2>3 DEF OwnPaths, Path
  <2>5. Path(m, k) \in Targets
    BY Apart
  <2>6. Installed(m)[Path(m, k)] = <<m, a>>
    BY <2>1, <2>5 DEF Installed
  <2> QED BY <2>3, <2>4, <2>6 DEF Content
<1>4. ASSUME NEW t \in Targets, \A k \in 1 .. n : Path(m, k) # t
      PROVE  Installed(m)[t] = None
  BY <1>2, <1>4 DEF Installed, Path
<1> QED BY <1>3, <1>4

\* With its records cleaned up, an apply has installed its manifest.
LEMMA WholeManifest ==
    ASSUME IInv, OwnPaths, NEW r \in Requests, Cleanup(r),
           ret'[r] = "applied", ret[r] # "applied"
    PROVE  files' = [t \in Targets |-> IF Installed(asks[r])[t] # None
                                       THEN Installed(asks[r])[t] ELSE before[r][t]]
<1> DEFINE m == asks[r]
           n == Len(ListOf[m])
<1>1. m \in Manifests
  BY UpdatesAssumption DEF IInv, SignedInv, Asked, Busy, Cleanup
<1>2. /\ UNCHANGED files
      /\ \A k \in 1 .. n : files[Path(m, k)] = Content(m, k)
      /\ Untouched(m, n, before[r], files, bak, left[r]) /\ left[r] = {}
  BY DEF Cleanup, IInv, Records, Busy, Good
<1>3. \A k \in 1 .. n : Content(m, k) # None
  BY <1>1, Listed, UpdatesAssumption DEF Content, Contents
<1>4. ASSUME NEW t \in Targets
      PROVE  files[t] = IF Installed(m)[t] # None THEN Installed(m)[t] ELSE before[r][t]
  <2>1. CASE \A k \in 1 .. n : Path(m, k) # t
    BY <1>1, <1>2, <2>1, InstalledHere DEF Untouched
  <2>2. ASSUME NEW k \in 1 .. n, Path(m, k) = t
        PROVE  files[t] = Installed(m)[t] /\ Installed(m)[t] # None
    BY <1>1, <1>2, <1>3, <2>2, InstalledHere
  <2> QED BY <2>1, <2>2
<1>5. files \in Files
  BY DEF IInv, SignedInv, Types
<1> QED BY <1>2, <1>4, <1>5 DEF Files

\* Only the end of a rollback answers so, and only the end of an apply.
LEMMA Answers ==
    ASSUME IInv, [Next]_vars, NEW r \in Requests
    PROVE  /\ ret[r] # "rolledback" /\ ret'[r] = "rolledback" => RemoveNew(r)
           /\ ret[r] # "applied" /\ ret'[r] = "applied" => Cleanup(r)
<1> USE DEF IInv, SignedInv, Types
<1>1. ASSUME NEW q \in Requests, Step(q)
      PROVE  /\ q # r => ret'[r] = ret[r]
             /\ \/ ret'[q] \in {ret[q], "refused", "current"}
                \/ RemoveNew(q) /\ ret'[q] = "rolledback"
                \/ Cleanup(q) /\ ret'[q] = "applied"
  BY <1>1 DEF Step, DispatchUpdateApply, CheckForUpdate, SendApply, Verify, ProbeTarget, MoveAside,
          Fetch, WriteTemp, Install, Cleanup, RemoveNew, Restore, Return
<1>2. CASE Crash
  BY <1>2 DEF Crash
<1>3. CASE UNCHANGED vars
  BY <1>3 DEF vars
<1> QED BY <1>1, <1>2, <1>3 DEF Next

-----------------------------------------------------------------------------

\* What a rollback needs is never destroyed before the last artifact is
\* installed: of every file an apply has touched the previous version is in
\* place or is its backup (update-client/src/lib.rs, apply).
THEOREM PreviousKept ==
    ASSUME Serial, OwnPaths, SureDisk PROVE Spec => []PreviousRetained
<1>1. IInv /\ [Next]_vars => IInv'
  BY IInvNext
<1>2. IInv => PreviousRetained
  BY Retained
<1> QED BY <1>1, <1>2, IInvInit, PTL DEF Spec

\* Whichever step fails, and however far it had come, an apply that answers
\* RolledBack leaves every file as it found it ("previous version intact"),
\* except where the rollback itself could not remove or rename, which the code
\* ignores: of those files the previous version is still in the backup.
THEOREM RollbackIsExact ==
    ASSUME Serial, OwnPaths, SureDisk PROVE Spec => RolledBackIsPrevious
<1> DEFINE Exact == \A r \in Requests :
                 ret[r] # "rolledback" /\ ret'[r] = "rolledback" =>
                    \A t \in Targets :
                       IF t \in left[r] THEN before[r][t] \in {None, bak'[t]}
                                        ELSE files'[t] = before[r][t]
<1>1. IInv /\ [Next]_vars => IInv'
  BY IInvNext
<1>2. IInv /\ [Next]_vars => [Exact]_vars
  BY Answers, BackAsBefore
<1>3. RolledBackIsPrevious <=> [][Exact]_vars
  BY DEF RolledBackIsPrevious
<1> QED BY <1>1, <1>2, <1>3, IInvInit, PTL DEF Spec

\* An apply that answers Applied has installed every artifact of its manifest
\* and has touched no other file.
THEOREM ApplyIsWhole ==
    ASSUME Serial, OwnPaths, SureDisk PROVE Spec => AppliedIsWhole
<1> DEFINE Exact == \A r \in Requests :
                 ret[r] # "applied" /\ ret'[r] = "applied" =>
                    files' = [t \in Targets |-> IF Installed(asks[r])[t] # None
                                                THEN Installed(asks[r])[t]
                                                ELSE before[r][t]]
<1>1. IInv /\ [Next]_vars => IInv'
  BY IInvNext
<1>2. IInv /\ [Next]_vars => [Exact]_vars
  BY Answers, WholeManifest
<1>3. AppliedIsWhole <=> [][Exact]_vars
  BY DEF AppliedIsWhole
<1> QED BY <1>1, <1>2, <1>3, IInvInit, PTL DEF Spec
=============================================================================
