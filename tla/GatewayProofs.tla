--------------------------- MODULE GatewayProofs ---------------------------
(***************************************************************************)
(* Theorems about the gateway controller, for any number of callers and    *)
(* any use they make of its methods, and about the firewall it loads, for  *)
(* every policy and every packet.                                          *)
(***************************************************************************)
EXTENDS Gateway, WellFoundedInduction, TLAPS

Checked(p) == p \in Policies /\ Sound(p)

(* Every ruleset that can reach the kernel was validated, after a backend    *)
(* had been configured: those that are loaded, stored, and about to be.      *)
SoundInv ==
    /\ Carries => Sound(kernel) /\ config # Unset
    /\ firewall # Unset => Sound(firewall) /\ config # Unset
    /\ \A c \in Callers :
          pc[c] \in {"load", "arm"} => Checked(local[c]) /\ config # Unset

(* configure() works with the mode it was called for until it has stored it. *)
ModeInv == \A c \in Callers : pc[c] \in {"backend", "save"} => local[c] \in Modes

IInv == TypeOK /\ SoundInv /\ ModeInv
-----------------------------------------------------------------------------
\* The invariant holds initially.
LEMMA IInvInit == Init => IInv
<1> SUFFICES ASSUME Init PROVE IInv
  OBVIOUS
<1>1. TypeOK
  BY GatewayAssumption DEF Init, TypeOK
<1>2. SoundInv
  BY GatewayAssumption DEF Init, SoundInv, Carries
<1>3. ModeInv
  BY DEF Init, ModeInv
<1> QED BY <1>1, <1>2, <1>3 DEF IInv

(* The steps of one caller keep the types.                                   *)
LEMMA CallerTypes ==
    ASSUME TypeOK, SoundInv, ModeInv, NEW c \in Callers, Begin(c) \/ Continue(c)
    PROVE  TypeOK'
<1> USE GatewayAssumption DEF TypeOK
<1>1. ASSUME NEW mode \in Modes, Configure(c, mode) PROVE TypeOK'
  BY <1>1 DEF Configure, Call, Goto, MayCall, With, record, world, Methods
<1>2. ASSUME EngageKillswitch(c) PROVE TypeOK'
  BY <1>2 DEF EngageKillswitch, Call, Owes, Goto, MayCall, record, world, Methods
<1>3. ASSUME ReleaseKillswitch(c) PROVE TypeOK'
  BY <1>3 DEF ReleaseKillswitch, Call, Owes, Goto, MayCall, With, record, world, Methods
<1>4. ASSUME NEW method, Refused(c, method) PROVE TypeOK'
  BY <1>4 DEF Refused, Return, Owes, Goto, With, record, world
<1>5. ASSUME TunnelStatus(c) PROVE TypeOK'
  BY <1>5 DEF TunnelStatus, Call, Goto, MayCall, With, record, world, Methods
<1>6. ASSUME NEW policy \in Policies, ApplyFirewall(c, policy) PROVE TypeOK'
  BY <1>6 DEF ApplyFirewall, Call, Goto, MayCall, With, record, world, Methods
<1>7. ASSUME StartBackend(c) PROVE TypeOK'
  BY <1>7 DEF StartBackend, CutFirst, Owes, Goto, record
<1>8. ASSUME SaveConfig(c) PROVE TypeOK'
  BY <1>8 DEF SaveConfig, ModeInv, Return, Owes, Goto, With, world
<1>9. ASSUME LoadBlock(c) PROVE TypeOK'
  BY <1>9 DEF LoadBlock, Owes, Goto, With, record
<1>10. ASSUME RecordCut(c) PROVE TypeOK'
  BY <1>10 DEF RecordCut, Return, Owes, Goto, With, world
<1>11. ASSUME Probe(c) PROVE TypeOK'
  BY <1>11 DEF Probe, CutFirst, Return, Owes, Goto, With, record, world
<1>12. ASSUME LoadRules(c) PROVE TypeOK'
  <2>1. pc[c] = "load" => local[c] \in Policies
    BY DEF SoundInv, Checked
  <2> QED BY <1>12, <2>1 DEF LoadRules, CutFirst, Owes, Goto, record
<1>13. ASSUME Arm(c) PROVE TypeOK'
  <2>1. local[c] \in Policies
    BY <1>13 DEF SoundInv, Checked, Arm
  <2> QED BY <1>13, <2>1 DEF Arm, Return, Owes, Goto, With, world
<1> QED
  BY <1>1, <1>2, <1>3, <1>4, <1>5, <1>6, <1>7, <1>8, <1>9, <1>10, <1>11, <1>12, <1>13
     DEF Begin, Continue, ReleaseRefused, StatusRefused, ApplyRefused, Policies

(* The steps of one caller keep every ruleset sound.                         *)
LEMMA CallerSound ==
    ASSUME TypeOK, SoundInv, ModeInv, NEW c \in Callers, Begin(c) \/ Continue(c)
    PROVE  SoundInv'
<1> USE GatewayAssumption DEF TypeOK
(* A step that stores no ruleset and renders none.                           *)
<1>1. ASSUME UNCHANGED <<firewall, kernel>>, config' = config \/ config' # Unset,
             \A b \in Callers : pc'[b] \in {"load", "arm"} =>
                 pc[b] \in {"load", "arm"} /\ local'[b] = local[b]
      PROVE  SoundInv'
  BY <1>1 DEF SoundInv, Carries
<1>2. ASSUME NEW policy \in Policies, Checked(policy), config # Unset,
             UNCHANGED <<config, firewall, kernel>>, With(c, policy),
             \A b \in Callers : b # c => pc'[b] = pc[b]
      PROVE  SoundInv'
  BY <1>2 DEF SoundInv, Carries, With
<1>3. ASSUME NEW mode \in Modes, Configure(c, mode) PROVE SoundInv'
  BY <1>1, <1>3 DEF Configure, Call, Goto, With, record, world
<1>4. ASSUME EngageKillswitch(c) PROVE SoundInv'
  BY <1>1, <1>4 DEF EngageKillswitch, Call, Goto, record, world
<1>5. ASSUME ReleaseKillswitch(c) PROVE SoundInv'
  BY <1>2, <1>5 DEF ReleaseKillswitch, Call, Goto, record, world, SoundInv, Checked
<1>6. ASSUME NEW method, Refused(c, method) PROVE SoundInv'
  BY <1>1, <1>6 DEF Refused, Return, Owes, Goto, With, record, world
<1>7. ASSUME TunnelStatus(c) PROVE SoundInv'
  BY <1>1, <1>7 DEF TunnelStatus, Call, Goto, With, record, world
<1>8. ASSUME NEW policy \in Policies, ApplyFirewall(c, policy) PROVE SoundInv'
  BY <1>2, <1>8 DEF ApplyFirewall, Call, Goto, record, world, Checked
<1>9. ASSUME StartBackend(c) PROVE SoundInv'
  BY <1>1, <1>9 DEF StartBackend, CutFirst, Owes, Goto, record
<1>10. ASSUME SaveConfig(c) PROVE SoundInv'
  BY <1>1, <1>10 DEF SaveConfig, ModeInv, Return, Owes, Goto, With, world
<1>11. ASSUME LoadRules(c) PROVE SoundInv'
  <2>1. Checked(local[c]) /\ config # Unset
    BY <1>11 DEF LoadRules, SoundInv
  <2>2. \A b \in Callers : pc'[b] \in {"load", "arm"} => pc[b] \in {"load", "arm"}
    BY <1>11 DEF LoadRules, CutFirst, Owes, Goto
  <2>3. kernel' \in {kernel, local[c]} /\ local' = local /\ config' = config
        /\ firewall' = firewall
    BY <1>11 DEF LoadRules, record
  <2> QED BY <2>1, <2>2, <2>3 DEF SoundInv, Carries, Checked
<1>12. ASSUME Arm(c) PROVE SoundInv'
  <2>1. Checked(local[c]) /\ config # Unset
    BY <1>12 DEF Arm, SoundInv
  <2>2. \A b \in Callers :
            pc'[b] \in {"load", "arm"} => pc[b] \in {"load", "arm"} /\ local'[b] = local[b]
    BY <1>12 DEF Arm, Return, Owes, Goto, With
  <2>3. firewall' \in {firewall, local[c]} /\ kernel' = kernel /\ config' = config
    BY <1>12 DEF Arm, world
  <2> QED BY <2>1, <2>2, <2>3 DEF SoundInv, Carries, Checked
<1>13. ASSUME LoadBlock(c) PROVE SoundInv'
  <2>1. kernel' \in {kernel, Block} /\ config' = config /\ firewall' = firewall
    BY <1>13 DEF LoadBlock, record
  <2>2. \A b \in Callers :
            pc'[b] \in {"load", "arm"} => pc[b] \in {"load", "arm"} /\ local'[b] = local[b]
    BY <1>13 DEF LoadBlock, Owes, Goto, With
  <2> QED BY <2>1, <2>2 DEF SoundInv, Carries
<1>14. ASSUME RecordCut(c) PROVE SoundInv'
  BY <1>1, <1>14 DEF RecordCut, Return, Owes, Goto, With, world
<1>15. ASSUME Probe(c) PROVE SoundInv'
  BY <1>1, <1>15 DEF Probe, CutFirst, Return, Owes, Goto, With, record, world
<1> QED
  BY <1>3, <1>4, <1>5, <1>6, <1>7, <1>8, <1>9, <1>10, <1>11, <1>12, <1>13, <1>14, <1>15
     DEF Begin, Continue, ReleaseRefused, StatusRefused, ApplyRefused, Policies

(* The steps of one caller keep the mode of a configure().                   *)
LEMMA CallerMode ==
    ASSUME TypeOK, SoundInv, ModeInv, NEW c \in Callers, Begin(c) \/ Continue(c)
    PROVE  ModeInv'
<1> USE GatewayAssumption DEF TypeOK
(* A step after which only callers that were there before hold a mode.       *)
<1>1. ASSUME \A b \in Callers : pc'[b] \in {"backend", "save"} =>
                 pc[b] \in {"backend", "save"} /\ local'[b] = local[b]
      PROVE  ModeInv'
  BY <1>1 DEF ModeInv
<1>2. ASSUME NEW mode \in Modes, Configure(c, mode) PROVE ModeInv'
  BY <1>2 DEF Configure, ModeInv, Call, Goto, With
<1>3. ASSUME NEW method, NEW station, station \notin {"backend", "save"},
             NEW value, Call(c, method, station), With(c, value) \/ UNCHANGED local
      PROVE  ModeInv'
  BY <1>1, <1>3 DEF Call, Goto, With
<1>4. ASSUME NEW result, Return(c, result) PROVE ModeInv'
  BY <1>1, <1>4 DEF Return, Owes, Goto, With
<1>5. CASE StartBackend(c)
  BY <1>1, <1>5 DEF StartBackend, CutFirst, Owes, Goto
<1>6. CASE LoadRules(c) \/ Probe(c) \/ LoadBlock(c)
  BY <1>1, <1>4, <1>6 DEF LoadRules, Probe, LoadBlock, CutFirst, Goto, With
<1>7. CASE SaveConfig(c) \/ Arm(c) \/ RecordCut(c)
  BY <1>4, <1>7 DEF SaveConfig, Arm, RecordCut
<1>8. CASE Begin(c)
  BY <1>2, <1>3, <1>4, <1>8
     DEF Begin, EngageKillswitch, ReleaseKillswitch, ReleaseRefused, TunnelStatus,
         StatusRefused, ApplyFirewall, ApplyRefused, Refused
<1> QED BY <1>5, <1>6, <1>7, <1>8 DEF Continue

\* Every step of every caller keeps the invariant.
LEMMA IInvStep == IInv /\ [Next]_vars => IInv'
<1> SUFFICES ASSUME IInv, [Next]_vars PROVE IInv'
  OBVIOUS
<1> USE DEF IInv
<1>1. CASE UNCHANGED vars
  BY <1>1 DEF TypeOK, SoundInv, ModeInv, Carries, vars, record, world, call
<1>2. ASSUME NEW m \in Modes, TunnelMoves(m) PROVE IInv'
  <2>1. tunnel' \in [Modes -> {"down", "connecting", "up", "failed"}]
    BY <1>2 DEF TunnelMoves, TunnelEdge, TypeOK
  <2> QED
    BY <1>2, <2>1 DEF TunnelMoves, TypeOK, SoundInv, ModeInv, Carries, record, call
<1>3. CASE Next
  BY <1>2, <1>3, CallerTypes, CallerSound, CallerMode DEF Next
<1> QED BY <1>1, <1>3

(* The record, the kernel and the calls in progress are always well typed.   *)
THEOREM GatewayType == Spec => []TypeOK
<1>1. IInv => TypeOK BY DEF IInv
<1> QED BY <1>1, IInvInit, IInvStep, PTL DEF Spec

(* However the calls of any number of sessions overlap, traffic is carried   *)
(* only under rules whose policy validate() accepted, after configure().     *)
THEOREM GatewaySound == Spec => []OnlySoundRules
<1>1. IInv => OnlySoundRules BY DEF IInv, SoundInv, OnlySoundRules
<1> QED BY <1>1, IInvInit, IInvStep, PTL DEF Spec

(* Whatever a method's error is, the switch is engaged and the record says so *)
(* before the caller reads it (gateway-controller/src/lib.rs, fail_closed).   *)
THEOREM ErrorsEngage == Spec => ErrorEngages
<1> DEFINE Engages == \A c \in Callers : pc[c] # "idle" /\ pc'[c] = "idle" /\ ret'[c] = "error"
                                            => killswitch' = "engaged" /\ ~applied'
<1>1. ASSUME IInv, [Next]_vars PROVE Engages
  <2> SUFFICES ASSUME NEW c \in Callers, pc[c] # "idle", pc'[c] = "idle", ret'[c] = "error"
               PROVE  killswitch' = "engaged" /\ ~applied'
    OBVIOUS
  <2> USE <1>1 DEF IInv, TypeOK
  <2>1. ASSUME NEW d \in Callers, Begin(d) PROVE FALSE
    <3>1. pc[d] = "idle"
      BY <2>1 DEF Begin, Configure, EngageKillswitch, ReleaseKillswitch, ReleaseRefused,
             TunnelStatus, StatusRefused, ApplyFirewall, ApplyRefused, Refused, Call, MayCall
    <3>2. d # c
      BY <3>1
    <3>3. pc'[c] = pc[c]
      BY <2>1, <3>2 DEF Begin, Configure, EngageKillswitch, ReleaseKillswitch, ReleaseRefused,
             TunnelStatus, StatusRefused, ApplyFirewall, ApplyRefused, Refused, Call, Return,
             Goto
    <3> QED BY <3>3
  <2>2. ASSUME NEW d \in Callers, Continue(d) PROVE killswitch' = "engaged" /\ ~applied'
    <3>1. d = c
      BY <2>2 DEF Continue, StartBackend, SaveConfig, LoadRules, Arm, LoadBlock, RecordCut,
             Probe, CutFirst, Return, Owes, Goto
    <3>2. RecordCut(c) \/ ret'[c] # "error" \/ pc'[c] # "idle"
      BY <2>2, <3>1 DEF Continue, StartBackend, SaveConfig, LoadRules, Arm, LoadBlock, Probe,
             CutFirst, Return, Owes, Goto
    <3>3. killswitch' = "engaged" /\ applied' = FALSE
      BY <3>2 DEF RecordCut
    <3> QED BY <3>3
  <2>3. ASSUME NEW m \in Modes, TunnelMoves(m) PROVE FALSE
    BY <2>3 DEF TunnelMoves, call
  <2>4. CASE UNCHANGED vars
    BY <2>4 DEF vars, call
  <2> QED BY <2>1, <2>2, <2>3, <2>4 DEF Next
<1>2. IInv /\ [Next]_vars => [Engages]_vars
  BY <1>1
<1>3. ErrorEngages <=> [][Engages]_vars
  BY DEF ErrorEngages
<1> QED BY <1>2, <1>3, IInvInit, IInvStep, PTL DEF Spec
-----------------------------------------------------------------------------
(* The record and the kernel, when calls do not overlap.                     *)

Tells ==
    /\ applied => kernel = firewall /\ killswitch = "armed"
    /\ Carries => applied \/ missed
    /\ killswitch = "engaged" => ~Carries \/ missed

(* Between its first step on the host and its last on the record a call      *)
(* leaves them apart; what it works with will bring them together again.     *)
CallInv(c) ==
    /\ pc[c] \in {"idle", "backend", "save", "load", "probe"} => Tells
    /\ pc[c] \in {"load", "arm"} /\ op[c] # "apply" => local[c] = firewall
    /\ pc[c] = "arm" => kernel = local[c]
    /\ pc[c] = "engaged" => kernel = Block \/ missed

\* The steps of the only caller keep its part.
LEMMA CallStep ==
    ASSUME IInv, NEW c \in Callers, CallInv(c), Begin(c) \/ Continue(c)
    PROVE  CallInv(c)'
<1> USE GatewayAssumption DEF IInv, TypeOK
<1>1. \A x : Goto(c, x) => pc'[c] = x
  BY DEF Goto
<1>2. \A x : With(c, x) => local'[c] = x
  BY DEF With
<1>3. ASSUME pc'[c] \in {"idle", "backend", "save", "probe", "cut"}, Tells,
             UNCHANGED <<firewall, applied, killswitch, kernel, missed>>
      PROVE  CallInv(c)'
  BY <1>3 DEF CallInv, Tells, Carries
<1>4. CASE Begin(c)
  <2>1. pc[c] = "idle" /\ UNCHANGED <<firewall, applied, killswitch, kernel, missed>>
    BY <1>4 DEF Begin, Configure, EngageKillswitch, ReleaseKillswitch, ReleaseRefused,
           TunnelStatus, StatusRefused, ApplyFirewall, ApplyRefused, Refused, Call, MayCall,
           record, world
  <2>2. Tells
    BY <2>1 DEF CallInv
  <2>3. ASSUME pc'[c] \in {"idle", "backend", "probe", "cut"} PROVE CallInv(c)'
    BY <1>3, <2>1, <2>2, <2>3
  <2>4. CASE ReleaseKillswitch(c)
    <3>1. \/ pc'[c] = "load" /\ local'[c] = firewall
          \/ pc'[c] = "cut"
      BY <1>1, <1>2, <2>4 DEF ReleaseKillswitch, Call
    <3> QED BY <2>1, <2>2, <2>3, <3>1 DEF CallInv, Tells, Carries
  <2>5. ASSUME NEW policy \in Policies, ApplyFirewall(c, policy) PROVE CallInv(c)'
    <3>1. pc'[c] = "load" /\ op'[c] = "apply"
      BY <1>1, <2>5 DEF ApplyFirewall, Call
    <3> QED BY <2>1, <2>2, <3>1 DEF CallInv, Tells, Carries
  <2>6. ASSUME ~ReleaseKillswitch(c), \A policy \in Policies : ~ApplyFirewall(c, policy)
        PROVE  CallInv(c)'
    BY <1>1, <1>4, <2>3, <2>6 DEF Begin, Configure, EngageKillswitch, ReleaseRefused,
           TunnelStatus, StatusRefused, ApplyRefused, Refused, Call, Return
  <2> QED BY <2>4, <2>5, <2>6
<1>5. CASE StartBackend(c) \/ SaveConfig(c) \/ Probe(c)
  <2>1. Tells /\ UNCHANGED <<firewall, applied, killswitch, kernel, missed>>
    BY <1>5 DEF StartBackend, SaveConfig, Probe, CallInv, record, world
  <2>2. pc'[c] \in {"idle", "save", "cut"}
    BY <1>1, <1>5 DEF StartBackend, SaveConfig, Probe, CutFirst, Return
  <2> QED BY <1>3, <2>1, <2>2
<1>6. CASE LoadRules(c)
  <2>1. pc[c] = "load" /\ local' = local /\ op' = op /\ firewall' = firewall
        /\ (pc'[c] = "cut" \/ (pc'[c] = "arm" /\ kernel' = local[c]))
    BY <1>1, <1>6 DEF LoadRules, CutFirst, record
  <2> QED BY <2>1 DEF CallInv
<1>7. CASE Arm(c)
  <2>1. kernel = local[c] /\ (op[c] # "apply" => local[c] = firewall) /\ pc'[c] = "idle"
    BY <1>1, <1>7 DEF Arm, CallInv, Return
  <2>2. kernel' = kernel /\ killswitch' = "armed" /\ firewall' = local[c]
    BY <1>7, <2>1 DEF Arm, world
  <2>3. applied' = TRUE
    BY <1>7 DEF Arm
  <2>4. Tells'
    BY <2>1, <2>2, <2>3 DEF Tells
  <2> QED BY <2>1, <2>4 DEF CallInv
<1>8. CASE LoadBlock(c)
  <2>1. pc'[c] = "engaged" /\ (kernel' = Block \/ missed' = TRUE)
    BY <1>1, <1>8 DEF LoadBlock
  <2> QED BY <2>1 DEF CallInv
<1>9. CASE RecordCut(c)
  <2>1. /\ pc'[c] = "idle" /\ (kernel = Block \/ missed)
        /\ kernel' = kernel /\ missed' = missed /\ killswitch' = "engaged"
    BY <1>1, <1>9 DEF RecordCut, CallInv, Return, world
  <2>2. applied' = FALSE
    BY <1>9 DEF RecordCut
  <2>3. Tells'
    BY <2>1, <2>2 DEF Tells, Carries
  <2> QED BY <2>1, <2>3 DEF CallInv
<1> QED BY <1>4, <1>5, <1>6, <1>7, <1>8, <1>9 DEF Continue

(* With calls that do not overlap, an applied firewall is the one in the      *)
(* kernel and an engaged switch means that nothing is carried, except where   *)
(* nft could not load the block; for every order of calls and any failures.   *)
THEOREM RecordIsTrue ==
    ASSUME \A c, d \in Callers : c = d, Callers # {}
    PROVE  Spec => []RecordTellsKernel
<1> DEFINE Inv == IInv /\ \A c \in Callers : CallInv(c)
<1>1. Init => Inv
  BY IInvInit, GatewayAssumption DEF Init, CallInv, Tells, Carries
<1>2. Inv /\ [Next]_vars => Inv'
  <2> SUFFICES ASSUME Inv, [Next]_vars, NEW c \in Callers PROVE CallInv(c)'
    BY IInvStep
  <2>1. ASSUME NEW d \in Callers, Begin(d) \/ Continue(d) PROVE CallInv(c)'
    BY <2>1, CallStep
  <2>2. ASSUME NEW m \in Modes, TunnelMoves(m) PROVE CallInv(c)'
    BY <2>2 DEF TunnelMoves, CallInv, Tells, Carries, record, call
  <2>3. CASE UNCHANGED vars
    BY <2>3 DEF vars, CallInv, Tells, Carries, record, world, call
  <2> QED BY <2>1, <2>2, <2>3 DEF Next
<1>3. Inv => RecordTellsKernel
  BY DEF CallInv, Tells, RecordTellsKernel, EngagedIsCut, Quiet
<1> QED BY <1>1, <1>2, <1>3, PTL DEF Spec
-----------------------------------------------------------------------------
(* The table in the kernel and the packets it lets through.                  *)

(* What a packet is before and after a redirect; a rule; a chain of them.     *)
PacketType ==
    [src : Any.src, to : Any.to, family : Any.family, proto : Any.proto, port : Any.port,
     phase : Any.phase]
OnType ==
    [src : SUBSET Any.src, to : SUBSET Any.to, family : SUBSET Any.family,
     proto : SUBSET Any.proto, port : SUBSET Any.port, phase : SUBSET Any.phase]
RuleType == [on : OnType, verdict : {"accept", "drop", "reject", "DNSPort", "TransPort"}]

Meets(on, p) ==
    /\ p.src \in on.src /\ p.to \in on.to /\ p.family \in on.family
    /\ p.proto \in on.proto /\ p.port \in on.port /\ p.phase \in on.phase
Chains == Seq(RuleType)

\* A rule looks at the six fields of a packet.
LEMMA MatchesFields ==
    ASSUME NEW p \in PacketType, NEW rule \in RuleType
    PROVE  Matches(rule, p) <=> Meets(rule.on, p)
<1>1. DOMAIN p = {"src", "to", "family", "proto", "port", "phase"}
  BY DEF PacketType
<1> QED BY <1>1 DEF Matches, Meets

\* A chain has a first rule that matches, if any does, and that one decides.
LEMMA FirstMatchDecides ==
    ASSUME NEW chain \in Chains, NEW policy, NEW p,
           NEW k \in DOMAIN chain, Matches(chain[k], p)
    PROVE  \E i \in DOMAIN chain :
              /\ Matches(chain[i], p) /\ \A j \in 1 .. i - 1 : ~Matches(chain[j], p)
              /\ Verdict(chain, policy, p) = chain[i].verdict
<1> DEFINE hits == {i \in DOMAIN chain : Matches(chain[i], p)}
           less == OpToRel(<, Nat)
<1>1. hits \subseteq Nat /\ hits # {}
  BY DEF Chains
<1>2. PICK i \in hits : \A j \in hits : <<j, i>> \notin less
  <2> HIDE DEF hits, less
  <2>1. IsWellFoundedOn(less, Nat)
    BY NatLessThanWellFounded DEF less
  <2> QED BY <1>1, <2>1, WFMin
<1>3. \A j \in 1 .. i - 1 : ~Matches(chain[j], p)
  <2> SUFFICES ASSUME NEW j \in 1 .. i - 1, Matches(chain[j], p) PROVE FALSE
    OBVIOUS
  <2>1. i \in Nat /\ i \in DOMAIN chain
    BY <1>1
  <2>2. j \in hits /\ j \in Nat /\ j < i
    BY <2>1 DEF Chains
  <2>3. <<j, i>> \in less
    BY <2>1, <2>2 DEF OpToRel
  <2> QED BY <1>2, <2>2, <2>3
<1> DEFINE isFirst(n) == Matches(chain[n], p) /\ \A j \in 1 .. n - 1 : ~Matches(chain[j], p)
           first == CHOOSE n \in DOMAIN chain : isFirst(n)
<1>4. first \in DOMAIN chain /\ isFirst(first)
  <2>1. \E n \in DOMAIN chain : isFirst(n)
    BY <1>3
  <2> HIDE DEF isFirst
  <2> QED BY <2>1
<1>5. Verdict(chain, policy, p) = chain[first].verdict
  BY DEF Verdict
<1> HIDE DEF first
<1> QED BY <1>4, <1>5

\* No rule: the policy decides.
LEMMA VerdictEmpty ==
    ASSUME NEW policy, NEW p
    PROVE  Verdict(<<>>, policy, p) = policy
BY DEF Verdict

\* One rule: it decides about what it matches.
LEMMA VerdictRule ==
    ASSUME NEW rule \in RuleType, NEW policy, NEW p
    PROVE  Verdict(<<rule>>, policy, p) = IF Matches(rule, p) THEN rule.verdict ELSE policy
<1>1. <<rule>> \in Chains /\ DOMAIN <<rule>> = {1} /\ <<rule>>[1] = rule
  BY DEF Chains
<1>2. CASE Matches(rule, p)
  BY <1>1, <1>2, FirstMatchDecides
<1>3. CASE ~Matches(rule, p)
  BY <1>1, <1>3 DEF Verdict
<1> QED BY <1>2, <1>3

\* Two chains in a row: the second decides as the policy of the first.
LEMMA VerdictConcat ==
    ASSUME NEW s \in Chains, NEW t \in Chains, NEW policy, NEW p
    PROVE  Verdict(s \o t, policy, p) = Verdict(s, Verdict(t, policy, p), p)
<1> DEFINE both == s \o t
           hit(c, i) == Matches(c[i], p)
           first(c, i) == i \in DOMAIN c /\ hit(c, i) /\ \A j \in 1 .. i - 1 : ~hit(c, j)
<1>1. /\ both \in Chains /\ Len(both) = Len(s) + Len(t)
      /\ \A i \in 1 .. Len(s) : both[i] = s[i]
      /\ \A i \in 1 .. Len(t) : both[Len(s) + i] = t[i]
      /\ DOMAIN s = 1 .. Len(s) /\ DOMAIN t = 1 .. Len(t) /\ DOMAIN both = 1 .. Len(both)
      /\ Len(s) \in Nat /\ Len(t) \in Nat
  BY DEF Chains
<1> HIDE DEF both
<1>2. ASSUME NEW c \in Chains, NEW d, \E i \in DOMAIN c : hit(c, i)
      PROVE  \E i : first(c, i) /\ Verdict(c, d, p) = c[i].verdict
  BY <1>2, FirstMatchDecides
<1>3. ASSUME NEW c \in Chains, NEW d, \A i \in DOMAIN c : ~hit(c, i)
      PROVE  Verdict(c, d, p) = d
  BY <1>3 DEF Verdict
<1>4. CASE \E i \in DOMAIN s : hit(s, i)
  <2>1. PICK i : first(s, i) /\ Verdict(s, Verdict(t, policy, p), p) = s[i].verdict
    BY <1>2, <1>4
  <2>2. PICK k : first(both, k) /\ Verdict(both, policy, p) = both[k].verdict
    <3>1. i \in DOMAIN both /\ hit(both, i)
      BY <1>1, <2>1
    <3>2. both \in Chains /\ \E n \in DOMAIN both : hit(both, n)
      BY <1>1, <3>1
    <3> QED BY <1>2, <3>2
  <2>3. i \in DOMAIN both /\ hit(both, i) /\ i \in Nat /\ k \in Nat /\ 1 <= i
    BY <1>1, <2>1, <2>2
  <2>4. ~(k < i)
    BY <1>1, <2>1, <2>2
  <2>5. ~(i < k)
    BY <2>2, <2>3
  <2>6. k = i
    BY <2>3, <2>4, <2>5
  <2> QED BY <1>1, <2>1, <2>2, <2>6 DEF both
<1>5. CASE (\A i \in DOMAIN s : ~hit(s, i)) /\ \E i \in DOMAIN t : hit(t, i)
  <2>1. PICK i : first(t, i) /\ Verdict(t, policy, p) = t[i].verdict
    BY <1>2, <1>5
  <2>2. Verdict(s, Verdict(t, policy, p), p) = Verdict(t, policy, p)
    BY <1>3, <1>5
  <2>3. PICK k : first(both, k) /\ Verdict(both, policy, p) = both[k].verdict
    <3>1. hit(both, Len(s) + i) /\ Len(s) + i \in DOMAIN both
      BY <1>1, <2>1
    <3>2. both \in Chains /\ \E n \in DOMAIN both : hit(both, n)
      BY <1>1, <3>1
    <3> QED BY <1>2, <3>2
  <2>4. k = Len(s) + i
    <3>1. k \in Nat /\ k > Len(s) /\ k <= Len(s) + Len(t)
      BY <1>1, <1>5, <2>3
    <3>2. k - Len(s) \in 1 .. Len(t) /\ both[k] = t[k - Len(s)]
      <4>1. k - Len(s) \in 1 .. Len(t) /\ Len(s) + (k - Len(s)) = k
        BY <1>1, <3>1
      <4> QED BY <1>1, <4>1
    <3>3. ~(k - Len(s) < i)
      BY <1>1, <2>1, <2>3, <3>2
    <3>4. ~(Len(s) + i < k)
      BY <1>1, <2>1, <2>3, <3>1
    <3>5. i \in Nat /\ Len(s) \in Nat
      BY <1>1, <2>1
    <3> QED BY <3>1, <3>3, <3>4, <3>5
  <2> QED BY <1>1, <2>1, <2>2, <2>3, <2>4 DEF both
<1>6. CASE (\A i \in DOMAIN s : ~hit(s, i)) /\ (\A i \in DOMAIN t : ~hit(t, i))
  <2>1. ASSUME NEW i \in DOMAIN both PROVE ~hit(both, i)
    <3>1. CASE i <= Len(s)
      BY <1>1, <1>6, <2>1, <3>1
    <3>2. CASE i > Len(s)
      <4>1. i - Len(s) \in 1 .. Len(t) /\ Len(s) + (i - Len(s)) = i
        BY <1>1, <2>1, <3>2
      <4> QED BY <1>1, <1>6, <4>1
    <3> QED BY <1>1, <2>1, <3>1, <3>2
  <2> QED BY <1>1, <1>3, <1>6, <2>1 DEF both
<1> QED BY <1>4, <1>5, <1>6

\* A chain of one rule, whose packets are known.
LEMMA RuleVerdict ==
    ASSUME NEW on \in OnType, NEW verdict \in {"accept", "drop", "reject", "DNSPort", "TransPort"},
           NEW p \in PacketType
    PROVE  /\ Rule(on, verdict) \in Chains
           /\ \A policy : Verdict(Rule(on, verdict), policy, p) =
                             IF Meets(on, p) THEN verdict ELSE policy
<1> DEFINE rule == [on |-> on, verdict |-> verdict]
<1>1. rule \in RuleType /\ rule.on = on /\ rule.verdict = verdict
  BY DEF RuleType
<1>2. Rule(on, verdict) = <<rule>>
  BY DEF Rule
<1> HIDE DEF rule
<1>3. <<rule>> \in Chains
  BY <1>1 DEF Chains
<1> QED BY <1>1, <1>2, <1>3, VerdictRule, MatchesFields

\* Rules that are written on a condition.
LEMMA IfVerdict ==
    ASSUME NEW condition \in BOOLEAN, NEW rules \in Chains, NEW p
    PROVE  /\ If(condition, rules) \in Chains
           /\ \A policy : Verdict(If(condition, rules), policy, p) =
                             IF condition THEN Verdict(rules, policy, p) ELSE policy
<1>1. <<>> \in Chains
  BY DEF Chains
<1> QED BY <1>1, VerdictEmpty DEF If

\* A chain of chains.
LEMMA ConcatVerdict ==
    ASSUME NEW s \in Chains, NEW t \in Chains, NEW p
    PROVE  /\ s \o t \in Chains
           /\ \A policy : Verdict(s \o t, policy, p) = Verdict(s, Verdict(t, policy, p), p)
<1>1. s \o t \in Chains
  BY DEF Chains
<1> QED BY <1>1, VerdictConcat

\* The rules that several chains share.
LEMMA SharedRules ==
    ASSUME NEW p \in PacketType
    PROVE  /\ Established \in Chains /\ Loopback \in Chains
           /\ Subnet \in OnType /\ Ipv6 \in OnType /\ [Ipv6 EXCEPT !.to = {"link"}] \in OnType
           /\ \A d : Verdict(Established, d, p) = IF p.phase = "established" THEN "accept" ELSE d
           /\ \A d : Verdict(Loopback, d, p) =
                        IF p.src = "gateway" /\ p.to = "gateway" THEN "accept" ELSE d
           /\ Meets(Subnet, p) <=> p.src = "browser" /\ p.family = "v4"
           /\ Meets(Ipv6, p) <=> p.family = "v6"
           /\ Meets([Ipv6 EXCEPT !.to = {"link"}], p) <=> p.family = "v6" /\ p.to = "link"
<1> DEFINE established == [Any EXCEPT !.phase = {"established"}]
           loopback == [Any EXCEPT !.src = {"gateway"}, !.to = {"gateway"}]
<1>1. /\ established \in OnType /\ loopback \in OnType
      /\ Subnet \in OnType /\ Ipv6 \in OnType /\ [Ipv6 EXCEPT !.to = {"link"}] \in OnType
  BY DEF OnType, Subnet, Ipv6, Any
<1>2. /\ Meets(established, p) <=> p.phase = "established"
      /\ Meets(loopback, p) <=> p.src = "gateway" /\ p.to = "gateway"
      /\ Meets(Subnet, p) <=> p.src = "browser" /\ p.family = "v4"
      /\ Meets(Ipv6, p) <=> p.family = "v6"
      /\ Meets([Ipv6 EXCEPT !.to = {"link"}], p) <=> p.family = "v6" /\ p.to = "link"
  BY DEF Meets, PacketType, Subnet, Ipv6, Any
<1>3. Established = Rule(established, "accept") /\ Loopback = Rule(loopback, "accept")
  BY DEF Established, Loopback
<1> HIDE DEF established, loopback
<1> QED BY <1>1, <1>2, <1>3, RuleVerdict

\* The nat chain: a name and a connection of the browser's subnet, in Tor mode.
LEMMA PreroutingVerdict ==
    ASSUME NEW policy \in Policies, NEW p \in PacketType
    PROVE  Verdict(Prerouting(policy), "none", p) =
              IF /\ Redirects(policy) /\ p.src = "browser" /\ p.family = "v4"
                 /\ p.proto # "icmp" /\ p.port = "dns" THEN "DNSPort"
              ELSE IF /\ Redirects(policy) /\ p.src = "browser" /\ p.family = "v4"
                      /\ p.proto = "tcp" /\ p.port # "dns" /\ p.phase = "opens"
              THEN "TransPort"
              ELSE "none"
<1> DEFINE dns == [Subnet EXCEPT !.proto = {"udp", "tcp"}, !.port = {"dns"}]
           tcp == [Subnet EXCEPT !.proto = {"tcp"}, !.port = Any.port \ {"dns"},
                                 !.phase = {"opens"}]
           rules == Rule(dns, "DNSPort") \o Rule(tcp, "TransPort")
<1>1. dns \in OnType /\ tcp \in OnType
  BY DEF OnType, Subnet, Any
<1>2. Meets(dns, p) <=> /\ p.src = "browser" /\ p.family = "v4"
                        /\ p.proto # "icmp" /\ p.port = "dns"
  BY DEF Meets, PacketType, Subnet, Any
<1>3. Meets(tcp, p) <=> /\ p.src = "browser" /\ p.family = "v4" /\ p.proto = "tcp"
                        /\ p.port # "dns" /\ p.phase = "opens"
  BY DEF Meets, PacketType, Subnet, Any
<1>4. Prerouting(policy) = If(Redirects(policy), rules) /\ Redirects(policy) \in BOOLEAN
  BY DEF Prerouting, Redirects
<1> HIDE DEF dns, tcp
<1>5. /\ rules \in Chains
      /\ Verdict(rules, "none", p) =
            IF Meets(dns, p) THEN "DNSPort" ELSE IF Meets(tcp, p) THEN "TransPort" ELSE "none"
  BY <1>1, RuleVerdict, ConcatVerdict
<1> HIDE DEF rules
<1>6. Verdict(Prerouting(policy), "none", p) =
         IF Redirects(policy) THEN Verdict(rules, "none", p) ELSE "none"
  BY <1>4, <1>5, IfVerdict
<1> QED BY <1>2, <1>3, <1>5, <1>6

\* The input chain of a sound policy.
LEMMA InputVerdict ==
    ASSUME NEW policy \in Policies, Sound(policy), NEW p \in PacketType
    PROVE  Passes(Input(policy), p) <=>
              \/ p.phase = "established"
              \/ p.src = "gateway" /\ p.to = "gateway"
              \/ /\ Redirects(policy) /\ p.src = "browser" /\ p.family = "v4"
                 /\ \/ p.proto # "icmp" /\ p.port = "DNSPort"
                    \/ p.proto = "tcp" /\ p.port = "TransPort"
<1> DEFINE dns == [Subnet EXCEPT !.proto = {"udp", "tcp"}, !.port = {"DNSPort"}]
           tcp == [Subnet EXCEPT !.proto = {"tcp"}, !.port = {"TransPort"}]
           v4 == [Any EXCEPT !.family = {"v4"}]
           redirects == Rule(dns, "accept") \o Rule(tcp, "accept")
           rejects == If(policy.reject_host_initiated, Rule(v4, "reject"))
<1>1. dns \in OnType /\ tcp \in OnType /\ v4 \in OnType
  BY DEF OnType, Subnet, Any
<1>2. Meets(dns, p) <=> /\ p.src = "browser" /\ p.family = "v4"
                        /\ p.proto # "icmp" /\ p.port = "DNSPort"
  BY DEF Meets, PacketType, Subnet, Any
<1>3. Meets(tcp, p) <=> /\ p.src = "browser" /\ p.family = "v4" /\ p.proto = "tcp"
                        /\ p.port = "TransPort"
  BY DEF Meets, PacketType, Subnet, Any
<1>4. /\ Input(policy) = Established \o Loopback \o If(Redirects(policy), redirects) \o rejects
      /\ Redirects(policy) \in BOOLEAN /\ policy.reject_host_initiated \in BOOLEAN
  BY DEF Input, Redirects, Policies
<1> HIDE DEF dns, tcp, v4
<1>5. /\ redirects \in Chains
      /\ \A d : Verdict(redirects, d, p) = IF Meets(dns, p) \/ Meets(tcp, p) THEN "accept" ELSE d
  BY <1>1, RuleVerdict, ConcatVerdict
<1> HIDE DEF redirects
<1>6. /\ If(Redirects(policy), redirects) \in Chains
      /\ \A d : Verdict(If(Redirects(policy), redirects), d, p) =
                   IF Redirects(policy) /\ (Meets(dns, p) \/ Meets(tcp, p)) THEN "accept" ELSE d
  BY <1>4, <1>5, IfVerdict
<1>7. rejects \in Chains /\ Verdict(rejects, "drop", p) # "accept"
  <2>1. /\ Rule(v4, "reject") \in Chains
        /\ Verdict(Rule(v4, "reject"), "drop", p) # "accept"
    BY <1>1, RuleVerdict
  <2> QED BY <1>4, <2>1, IfVerdict
<1> HIDE DEF rejects
<1> DEFINE tor == If(Redirects(policy), redirects)
<1> HIDE DEF tor
<1>8. /\ Established \o Loopback \in Chains
      /\ \A d : Verdict(Established \o Loopback, d, p) =
                   Verdict(Established, Verdict(Loopback, d, p), p)
  BY SharedRules, ConcatVerdict
<1>9. /\ Established \o Loopback \o tor \in Chains
      /\ \A d : Verdict(Established \o Loopback \o tor, d, p) =
                   Verdict(Established \o Loopback, Verdict(tor, d, p), p)
  BY <1>6, <1>8, ConcatVerdict DEF tor
<1>10. Verdict(Input(policy), "drop", p) =
          Verdict(Established \o Loopback \o tor, Verdict(rejects, "drop", p), p)
  BY <1>4, <1>7, <1>9, ConcatVerdict DEF tor
<1>11. Verdict(Input(policy), "drop", p) =
          Verdict(Established, Verdict(Loopback, Verdict(tor, Verdict(rejects, "drop", p), p), p), p)
  BY <1>8, <1>9, <1>10
<1>12. Verdict(tor, Verdict(rejects, "drop", p), p) = "accept"
          <=> Redirects(policy) /\ (Meets(dns, p) \/ Meets(tcp, p))
  BY <1>6, <1>7 DEF tor
<1>13. \A d : /\ Verdict(Established, d, p) = IF p.phase = "established" THEN "accept" ELSE d
              /\ Verdict(Loopback, d, p) =
                    IF p.src = "gateway" /\ p.to = "gateway" THEN "accept" ELSE d
  BY SharedRules
<1>14. Passes(Input(policy), p) <=>
          \/ p.phase = "established"
          \/ p.src = "gateway" /\ p.to = "gateway"
          \/ Redirects(policy) /\ (Meets(dns, p) \/ Meets(tcp, p))
  <2> DEFINE rest == Verdict(tor, Verdict(rejects, "drop", p), p)
  <2>1. rest = "accept" <=> Redirects(policy) /\ (Meets(dns, p) \/ Meets(tcp, p))
    BY <1>12
  <2> HIDE DEF rest
  <2>2. Verdict(Input(policy), "drop", p) = Verdict(Established, Verdict(Loopback, rest, p), p)
    BY <1>11 DEF rest
  <2> QED BY <1>13, <2>1, <2>2 DEF Passes
<1> QED BY <1>2, <1>3, <1>14

\* The forward chain of a sound policy.
LEMMA ForwardVerdict ==
    ASSUME NEW policy \in Policies, Sound(policy), NEW p \in PacketType
    PROVE  Passes(Forward(policy), p) <=>
              \/ p.phase = "established"
              \/ policy.ipv6 # "block" /\ p.family = "v6" /\ p.to = "link"
              \/ p.src = "browser" /\ p.family = "v4" /\ p.proto # "udp"
<1> DEFINE block == policy.ipv6 = "block"
           v6 == IF block THEN Ipv6 ELSE [Ipv6 EXCEPT !.to = {"link"}]
           udp == [Subnet EXCEPT !.proto = {"udp"}]
           ipv6 == Rule(v6, IF block THEN "drop" ELSE "accept")
           udps == If(policy.block_direct_udp, Rule(udp, "drop"))
           subnet == Rule(Subnet, "accept")
<1>1. v6 \in OnType /\ udp \in OnType
  <2>1. v6 \in OnType
    BY SharedRules
  <2>2. udp \in OnType
    BY DEF OnType, Subnet, Any
  <2> QED BY <2>1, <2>2
<1>2. Meets(v6, p) <=> p.family = "v6" /\ (block \/ p.to = "link")
  BY SharedRules
<1>3. Meets(udp, p) <=> p.src = "browser" /\ p.family = "v4" /\ p.proto = "udp"
  BY DEF Meets, PacketType, Subnet, Any
<1>4. /\ Forward(policy) = Established \o ipv6 \o udps \o subnet
      /\ policy.block_direct_udp
  BY DEF Forward, Sound
<1> HIDE DEF v6, udp
<1>5. /\ ipv6 \in Chains /\ subnet \in Chains
      /\ \A d : Verdict(ipv6, d, p) =
                   IF Meets(v6, p) THEN IF block THEN "drop" ELSE "accept" ELSE d
      /\ \A d : Verdict(subnet, d, p) = IF Meets(Subnet, p) THEN "accept" ELSE d
  BY <1>1, SharedRules, RuleVerdict
<1>6. udps \in Chains /\ \A d : Verdict(udps, d, p) = IF Meets(udp, p) THEN "drop" ELSE d
  <2>1. udps = Rule(udp, "drop")
    BY <1>4 DEF If
  <2> HIDE DEF udps
  <2> QED BY <1>1, <2>1, RuleVerdict
<1> HIDE DEF ipv6, udps, subnet
<1>7. /\ Established \o ipv6 \in Chains
      /\ \A d : Verdict(Established \o ipv6, d, p) = Verdict(Established, Verdict(ipv6, d, p), p)
  BY <1>5, SharedRules, ConcatVerdict
<1>8. /\ Established \o ipv6 \o udps \in Chains
      /\ \A d : Verdict(Established \o ipv6 \o udps, d, p) =
                   Verdict(Established \o ipv6, Verdict(udps, d, p), p)
  BY <1>6, <1>7, ConcatVerdict
<1>9. Verdict(Forward(policy), "drop", p) =
         Verdict(Established \o ipv6 \o udps, Verdict(subnet, "drop", p), p)
  BY <1>4, <1>5, <1>8, ConcatVerdict
<1>10. Verdict(Forward(policy), "drop", p) =
          IF p.phase = "established" THEN "accept"
          ELSE IF Meets(v6, p) THEN IF block THEN "drop" ELSE "accept"
          ELSE IF Meets(udp, p) THEN "drop"
          ELSE IF Meets(Subnet, p) THEN "accept" ELSE "drop"
  BY <1>5, <1>6, <1>7, <1>8, <1>9, SharedRules
<1>11. p.family \in {"v4", "v6"}
  BY DEF PacketType, Any
<1> QED BY <1>2, <1>3, <1>10, <1>11, SharedRules DEF Passes

\* Where the table of a sound policy takes a packet that does not come from the
\* gateway.
LEMMA SoundFate ==
    ASSUME NEW policy \in Policies, Sound(policy), NEW p \in Packets,
           p.src # "gateway", p.phase # "established"
    PROVE  LET mine == p.src = "browser" /\ p.family = "v4"
               dns  == mine /\ Redirects(policy) /\ p.proto # "icmp" /\ p.port = "dns"
               tcp  == /\ mine /\ Redirects(policy) /\ p.proto = "tcp" /\ p.port # "dns"
                       /\ p.phase = "opens"
           IN  /\ dns => Fate(Render(policy), p) = "DNSPort"
               /\ tcp => Fate(Render(policy), p) = "TransPort"
               /\ ~dns /\ ~tcp /\ p.to # "gateway" =>
                     Fate(Render(policy), p) =
                        IF \/ policy.ipv6 # "block" /\ p.family = "v6" /\ p.to = "link"
                           \/ mine /\ p.proto # "udp"
                        THEN "forwarded" ELSE "dropped"
               /\ p.to = "gateway" /\ p.src = "elsewhere" =>
                     Fate(Render(policy), p) = "dropped"
<1> DEFINE mine == p.src = "browser" /\ p.family = "v4"
           dns  == mine /\ Redirects(policy) /\ p.proto # "icmp" /\ p.port = "dns"
           tcp  == /\ mine /\ Redirects(policy) /\ p.proto = "tcp" /\ p.port # "dns"
                   /\ p.phase = "opens"
           rules == Render(policy)
           q == Redirected(rules, p)
<1>1. p \in PacketType
  BY DEF Packets, PacketType, Any
<1>2. rules.prerouting = Prerouting(policy) /\ rules.input = Input(policy)
      /\ rules.forward = Forward(policy)
  BY DEF Render
<1>3. Verdict(rules.prerouting, "none", p) = IF dns THEN "DNSPort" ELSE IF tcp THEN "TransPort"
                                             ELSE "none"
  BY <1>1, <1>2, PreroutingVerdict
<1>4. q = IF dns THEN [p EXCEPT !.to = "gateway", !.port = "DNSPort"]
          ELSE IF tcp THEN [p EXCEPT !.to = "gateway", !.port = "TransPort"] ELSE p
  BY <1>3 DEF Redirected
<1>5. Fate(rules, p) = IF q.to = "gateway"
                       THEN IF Passes(Input(policy), q) THEN q.port ELSE "dropped"
                       ELSE IF Passes(Forward(policy), q) THEN "forwarded" ELSE "dropped"
  BY <1>2 DEF Fate
<1> HIDE DEF q, rules
<1>6. q \in PacketType
  BY <1>1, <1>4 DEF PacketType, Any
<1>7. CASE dns \/ tcp
  <2>1. /\ q.to = "gateway" /\ q.src = "browser" /\ q.family = "v4" /\ q.proto = p.proto
        /\ q.port = IF dns THEN "DNSPort" ELSE "TransPort"
    BY <1>1, <1>4, <1>7 DEF PacketType
  <2>2. Passes(Input(policy), q)
    BY <1>6, <1>7, <2>1, InputVerdict
  <2>3. Fate(rules, p) = q.port /\ p.src # "elsewhere"
    BY <1>5, <1>7, <2>1, <2>2
  <2> QED BY <1>7, <2>1, <2>3 DEF rules
<1>8. CASE ~dns /\ ~tcp
  <2>1. q = p
    BY <1>4, <1>8
  <2> QED BY <1>1, <1>5, <1>8, <2>1, InputVerdict, ForwardVerdict DEF rules
<1> QED BY <1>7, <1>8

(* What the gate lets into the kernel keeps the browser's traffic in the     *)
(* tunnel: the table rendered for any policy that validate() accepts lets no *)
(* UDP or IPv6 of the browser out, takes its connections where the mode says *)
(* and nobody else's in (firewall.rs render_nftables, policy.rs validate).   *)
THEOREM SoundRulesTunnel ==
    ASSUME NEW policy \in Policies, Sound(policy)
    PROVE  /\ NoDatagramLeaves(Render(policy))
           /\ OpensIntoTunnel(Render(policy), Redirects(policy))
           /\ StrangersStayOut(Render(policy))
<1>1. NoDatagramLeaves(Render(policy))
  <2> SUFFICES ASSUME NEW p \in New("browser"), p.proto = "udp" \/ p.family = "v6"
               PROVE  Fate(Render(policy), p) \in {"dropped", "DNSPort"}
    BY DEF NoDatagramLeaves
  <2>1. p \in Packets /\ p.src = "browser" /\ p.to = "beyond" /\ p.phase # "established"
    BY DEF New
  <2>2. p.family \in {"v4", "v6"} /\ p.proto \in {"tcp", "udp", "icmp"}
    BY <2>1 DEF Packets
  <2> QED BY <2>1, <2>2, SoundFate
<1>2. OpensIntoTunnel(Render(policy), Redirects(policy))
  <2> SUFFICES ASSUME NEW p \in New("browser"),
                      p.family = "v4" /\ p.proto # "icmp" /\ p.phase = "opens"
               PROVE  Fate(Render(policy), p) =
                         IF Redirects(policy) /\ p.port = "dns" THEN "DNSPort"
                         ELSE IF p.proto # "tcp" THEN "dropped"
                         ELSE IF Redirects(policy) THEN "TransPort" ELSE "forwarded"
    BY DEF OpensIntoTunnel
  <2>1. p \in Packets /\ p.src = "browser" /\ p.to = "beyond"
    BY DEF New
  <2>2. p.proto \in {"tcp", "udp"}
    BY <2>1 DEF Packets
  <2> QED BY <2>1, <2>2, SoundFate
<1>3. StrangersStayOut(Render(policy))
  <2> SUFFICES ASSUME NEW p \in Packets, p.src = "elsewhere", p.phase # "established",
                      p.to # "link"
               PROVE  Fate(Render(policy), p) = "dropped"
    BY DEF StrangersStayOut
  <2> QED BY SoundFate
<1> QED BY <1>1, <1>2, <1>3

\* Under the killswitch's table no packet moves.
LEMMA BlockIsTotal == TotalBlock(Killswitch)
<1> SUFFICES ASSUME NEW p \in Packets PROVE Fate(Killswitch, p) = "dropped"
  BY DEF TotalBlock
<1>1. \A q : ~Passes(<<>>, q)
  BY VerdictEmpty DEF Passes
<1>2. Redirected(Killswitch, p) = p
  BY VerdictEmpty DEF Redirected, Killswitch
<1> QED BY <1>1, <1>2 DEF Fate, Killswitch

(* Whatever callers do and in whichever order, the packets that move are     *)
(* those of a sound policy's table, and none under the block: no sequence of *)
(* calls opens another way out of the browser's machine or into it.          *)
THEOREM TunnelPathsOnly == Spec => []OnlyTunnelPaths
<1>1. IInv => OnlyTunnelPaths
  <2> SUFFICES ASSUME IInv PROVE OnlyTunnelPaths
    OBVIOUS
  <2>1. Carries => kernel \in Policies /\ Sound(kernel)
    BY DEF IInv, TypeOK, SoundInv, Carries
  <2> QED BY <2>1, SoundRulesTunnel, BlockIsTotal DEF OnlyTunnelPaths
<1> QED BY <1>1, IInvInit, IInvStep, PTL DEF Spec
=============================================================================
