---------------------------- MODULE AnswerProofs ----------------------------
(***************************************************************************)
(* Theorems about the answers that the daemon's clients get.  The channel  *)
(* (module Ipc): each is the reply to the call it is taken for, for any    *)
(* number of clients and strays and any limit on frames.  Their contents   *)
(* (module Preflight): what is shown of a session was measured, for any    *)
(* number of requests for diagnostics and any movement of the network.     *)
(***************************************************************************)
EXTENDS Preflight, Ipc, FiniteSetTheorems, SequenceTheorems, TLAPS

ItemType == [level : {"ok", "down", "unknown"},
             evidence : {"verified", "measured", "unknown", "configured"}]
AnswerType == [protection : Protections,
               items : [Checks \cup {"profile"} -> ItemType] \cup {<<>>},
               site_ip : {"ok", "down", "unknown"}, browser : {"ok", "down", "unknown"},
               state : States, ip : Observations \cup {Unobserved}, locked : BOOLEAN,
               checklist : [Checks -> Outcomes \cup {"missing"}]]

AnswerTypes == answer \in [Readers -> AnswerType]

(* A check that passed was measured, and held then; the public IP passes     *)
(* only on an observation that will be shown as good.                        *)
GoodIp(obs) == obs # Unobserved /\ obs.via_tunnel /\ obs.differs_from_host

AuditInv ==
    /\ \A c \in Probed : reports[c] = "pass" => c \in held
    /\ reports["public_ip"] = "pass" => GoodIp(observed)
    /\ mode = "host" => held = {}

(* Past the gate, and whenever a browser runs, everything had been measured. *)
GateInv ==
    /\ mode = "vm" /\ phase \in {"launching", "checking", "started"} => Probed \subseteq held
    /\ alive /\ mode = "vm" => Probed \subseteq held
    /\ phase = "starting" => step = 0
    /\ phase \in {"starting", "probing"} => ~entry.recorded

(* What the entry shows was taken from one complete preflight.               *)
EntryInv ==
    /\ ~entry.recorded => entry.protection = "none"
    /\ entry.protection = "active" =>
          /\ Probed \subseteq held
          /\ AllPassed(entry.checklist)
          /\ GoodIp(entry.ip)
    /\ entry.recorded =>
          {c \in Checks : entry.checklist[c] = "pass"}
              \subseteq IF mode = "vm" THEN held \cup {"webrtc"} ELSE {"tunnel"}

(* A request that has read an active aggregate will find the reports of the  *)
(* same preflight.                                                           *)
ReadInv ==
    \A r \in Readers :
        /\ answer[r].protection = "active" => entry.protection = "active"
        /\ reader[r] \in {"handle", "poll", "answered"} =>
              /\ answer[r].items \in [Checks \cup {"profile"} -> ItemType]
              /\ answer[r].items = Items(answer[r].checklist)
              /\ answer[r].protection = "active" =>
                    /\ \A c \in Checks : Verified(answer[r].items[c])
                    /\ answer[r].site_ip = "ok"
              /\ \A key \in Checks \cup {"profile"} : Verified(answer[r].items[key]) =>
                    key \in IF mode = "vm" THEN held \cup {"webrtc"} ELSE {"tunnel"}

IInv == TypeOK /\ AnswerTypes /\ AuditInv /\ GateInv /\ EntryInv /\ ReadInv
-----------------------------------------------------------------------------
\* The six checks, in the order the auditor runs them.
LEMMA OrderFacts ==
    /\ Len(Order) = 6 /\ DOMAIN Order = 1..6
    /\ \A i \in 1..6 : Order[i] \in Checks
    /\ \A i, j \in 1..6 : Order[i] = Order[j] => i = j
    /\ Checks = {"gateway", "tunnel", "dns", "public_ip", "webrtc", "ipv6"}
  BY DEF Order, Checks

\* The invariant holds initially.
LEMMA IInvInit == Init => IInv
<1> SUFFICES ASSUME Init PROVE IInv
  OBVIOUS
<1> USE DEF Init
<1>1. Unreported \in [Checks -> Outcomes \cup {"missing"}]
  BY DEF Unreported
<1>2. TypeOK
  <2>1. entry \in Entries
    BY <1>1 DEF Entries, States, Protections
  <2>2. \A i \in DOMAIN Order : (reports[Order[i]] = "missing") <=> (i > step)
    BY OrderFacts DEF Unreported
  <2>3. \A r \in Readers : answer[r].protection = "none" /\ answer[r].site_ip = "unknown"
                              /\ answer[r].browser = "unknown"
    BY DEF NoAnswer
  <2>4. step \in 0..Len(Order) /\ moves \in 0..MaxMoves
    BY OrderFacts, MovesAssumption
  <2>5. reader \in [Readers -> Stations]
    BY DEF Stations
  <2> HIDE DEF Init
  <2>6. /\ mode \in {"vm", "host"} /\ world \in [Guarantees -> BOOLEAN]
        /\ phase = "starting" /\ observed = Unobserved /\ held = {} /\ alive = FALSE
        /\ stop = "idle" /\ reports = Unreported
    BY DEF Init
  <2> QED BY <1>1, <2>1, <2>2, <2>3, <2>4, <2>5, <2>6 DEF TypeOK, Protections
<1>3. AnswerTypes
  BY <1>1 DEF AnswerTypes, AnswerType, NoAnswer, Protections, States
<1>4. AuditInv /\ GateInv /\ EntryInv /\ ReadInv
  BY OrderFacts DEF AuditInv, GateInv, EntryInv, ReadInv, Unreported, NoAnswer, Probed
<1> QED BY <1>2, <1>3, <1>4 DEF IInv

(* The items of any checklist are well formed, and verified only where the   *)
(* checklist passes.                                                         *)
LEMMA ItemFacts ==
    ASSUME NEW checklist
    PROVE  /\ Items(checklist) \in [Checks \cup {"profile"} -> ItemType]
           /\ \A c \in Checks : Verified(Items(checklist)[c]) <=> checklist[c] = "pass"
           /\ ~Verified(Items(checklist)["profile"])
<1>1. \A c \in Checks : Items(checklist)[c] = CheckItem(checklist[c])
  BY OrderFacts DEF Items
<1>2. ASSUME NEW o
      PROVE  CheckItem(o) \in ItemType /\ (Verified(CheckItem(o)) <=> o = "pass")
  BY DEF CheckItem, Item, ItemType, Verified
<1>3. ConfiguredItem \in ItemType /\ ~Verified(ConfiguredItem)
  BY DEF ConfiguredItem, Item, ItemType, Verified
<1>4. Items(checklist)["profile"] = ConfiguredItem
  BY DEF Items
<1>5. Items(checklist) \in [Checks \cup {"profile"} -> ItemType]
  BY <1>2, <1>3 DEF Items
<1> QED BY <1>1, <1>2, <1>3, <1>4, <1>5
-----------------------------------------------------------------------------
(* An update of the entry stays an entry.                                    *)
LEMMA EntryUpdates ==
    ASSUME entry \in Entries
    PROVE  /\ \A x \in States, h \in BOOLEAN :
                  [entry EXCEPT !.state = x, !.handle = h] \in Entries
           /\ \A x \in States : [entry EXCEPT !.state = x] \in Entries
           /\ \A h \in BOOLEAN : [entry EXCEPT !.handle = h] \in Entries
           /\ \A x \in Protections, c \in [Checks -> Outcomes \cup {"missing"}],
                  obs \in Observations \cup {Unobserved} :
                  [entry EXCEPT !.protection = x, !.recorded = TRUE, !.checklist = c, !.ip = obs]
                      \in Entries
  BY DEF Entries

(* What one measurement does.                                                *)
LEMMA MeasureFacts ==
    ASSUME TypeOK, Measure
    PROVE  \E c \in Checks, o \in {"pass", "fail"}, truly \in BOOLEAN :
              /\ c = Order[step + 1] /\ step \in 0..5
              /\ reports' = [reports EXCEPT ![c] = o]
              /\ held' = IF truly THEN held \cup {c} ELSE held
              /\ step' = step + 1
              /\ IF c = "public_ip" THEN o = "pass" => GoodIp(observed')
                                    ELSE UNCHANGED observed
              /\ c \in Probed /\ o = "pass" => truly
              /\ observed' \in Observations \cup {Unobserved}
<1> DEFINE c == Order[step + 1]
<1>1. step \in 0..5 /\ c \in Checks
  BY OrderFacts DEF Measure, TypeOK
<1>2. world \in [Guarantees -> BOOLEAN] /\ observed \in Observations \cup {Unobserved}
  BY DEF TypeOK
<1>3. CASE c \notin {"public_ip", "webrtc"}
  <2>1. c \in Guarantees
    BY <1>1, <1>3, OrderFacts DEF Guarantees
  <2>2. PICK result \in Probe(c) : Reported(c, BooleanReport(result), world[c])
    BY <1>3 DEF Measure
  <2>3. UNCHANGED observed
    BY <1>3 DEF Measure
  <2>4. world[c] \in BOOLEAN
    BY <1>2, <2>1
  <2>5. BooleanReport(result) \in {"pass", "fail"} /\ (BooleanReport(result) = "pass" => world[c])
    BY <2>2 DEF Probe, BooleanReport
  <2> QED
    BY <1>1, <1>2, <1>3, <2>2, <2>3, <2>4, <2>5 DEF Reported
<1>4. CASE c = "public_ip"
  <2>1. PICK obs \in ObservePublicIp :
           /\ Reported(c, PublicIpReport(obs, Context), world["tunnelled"] /\ world["foreign"])
           /\ observed' = obs
    BY <1>4 DEF Measure
  <2>2. world["tunnelled"] \in BOOLEAN /\ world["foreign"] \in BOOLEAN
    BY <1>2 DEF Guarantees
  <2>3. obs \in Observations \cup {Unobserved}
    BY <2>1, <2>2 DEF ObservePublicIp, Observations
  <2>4. PublicIpReport(obs, Context) = "pass" =>
            GoodIp(obs) /\ world["tunnelled"] /\ world["foreign"]
    BY <2>1, <2>2 DEF ObservePublicIp, PublicIpReport, GoodIp, Unobserved
  <2>5. PublicIpReport(obs, Context) \in {"pass", "fail"}
    BY DEF PublicIpReport
  <2> QED
    BY <1>1, <1>4, <2>1, <2>2, <2>3, <2>4, <2>5 DEF Reported
<1>5. CASE c = "webrtc"
  <2>1. Reported(c, WebrtcReport(Context), FALSE) /\ UNCHANGED observed
    BY <1>5 DEF Measure
  <2>2. WebrtcReport(Context) \in {"pass", "fail"}
    BY DEF WebrtcReport
  <2> QED
    BY <1>1, <1>2, <1>5, <2>1, <2>2 DEF Reported, Probed
<1> QED BY <1>3, <1>4, <1>5
-----------------------------------------------------------------------------
(* Any field of what a request has gathered may be filled in.                *)
LEMMA AnswerUpdates ==
    ASSUME NEW a \in AnswerType
    PROVE  /\ \A b \in BOOLEAN : [a EXCEPT !.locked = b] \in AnswerType
           /\ \A l \in {"ok", "down", "unknown"} : [a EXCEPT !.browser = l] \in AnswerType
           /\ \A p \in Protections, x \in States, obs \in Observations \cup {Unobserved} :
                  [a EXCEPT !.protection = p, !.state = x, !.ip = obs] \in AnswerType
           /\ \A c \in [Checks -> Outcomes \cup {"missing"}],
                 i \in [Checks \cup {"profile"} -> ItemType], l \in {"ok", "down", "unknown"} :
                  [a EXCEPT !.checklist = c, !.items = i, !.site_ip = l] \in AnswerType
  BY DEF AnswerType

(* What a request has read stays true while it is left alone, or begins.     *)
LEMMA ReadKept ==
    ASSUME ReadInv, UNCHANGED <<mode, held, entry>>,
           \A r \in Readers :
               \/ /\ answer'[r].protection = entry.protection
                  /\ reader'[r] \notin {"handle", "poll", "answered"}
               \/ /\ answer'[r].protection = answer[r].protection
                  /\ answer'[r].items = answer[r].items
                  /\ answer'[r].checklist = answer[r].checklist
                  /\ answer'[r].site_ip = answer[r].site_ip
                  /\ reader'[r] \in {"handle", "poll", "answered"}
                        => reader[r] \in {"handle", "poll", "answered"}
    PROVE  ReadInv'
<1> SUFFICES ASSUME NEW r \in Readers
             PROVE  /\ answer'[r].protection = "active" => entry'.protection = "active"
                    /\ reader'[r] \in {"handle", "poll", "answered"} =>
                        /\ answer'[r].items \in [Checks \cup {"profile"} -> ItemType]
                        /\ answer'[r].items = Items(answer'[r].checklist)
                        /\ answer'[r].protection = "active" =>
                              /\ \A c \in Checks : Verified(answer'[r].items[c])
                              /\ answer'[r].site_ip = "ok"
                        /\ \A key \in Checks \cup {"profile"} :
                              Verified(answer'[r].items[key]) =>
                                 key \in IF mode' = "vm" THEN held' \cup {"webrtc"} ELSE {"tunnel"}
  BY DEF ReadInv
<1>1. CASE /\ answer'[r].protection = entry.protection
           /\ reader'[r] \notin {"handle", "poll", "answered"}
  BY <1>1
<1>2. CASE /\ answer'[r].protection = answer[r].protection
           /\ answer'[r].items = answer[r].items
           /\ answer'[r].checklist = answer[r].checklist
           /\ answer'[r].site_ip = answer[r].site_ip
           /\ reader'[r] \in {"handle", "poll", "answered"}
                 => reader[r] \in {"handle", "poll", "answered"}
  <2>1. answer[r].protection = "active" => entry.protection = "active"
    BY DEF ReadInv
  <2>2. reader[r] \in {"handle", "poll", "answered"} =>
          /\ answer[r].items \in [Checks \cup {"profile"} -> ItemType]
          /\ answer[r].items = Items(answer[r].checklist)
          /\ answer[r].protection = "active" =>
                /\ \A c \in Checks : Verified(answer[r].items[c])
                /\ answer[r].site_ip = "ok"
          /\ \A key \in Checks \cup {"profile"} : Verified(answer[r].items[key]) =>
                key \in IF mode = "vm" THEN held \cup {"webrtc"} ELSE {"tunnel"}
    BY DEF ReadInv
  <2> QED BY <1>2, <2>1, <2>2
<1> QED BY <1>1, <1>2

(* The step of a request for diagnostics: types, and what it has read.       *)
LEMMA DiagnoseKeeps ==
    ASSUME IInv, NEW r \in Readers, Diagnose(r)
    PROVE  /\ reader' \in [Readers -> Stations]
           /\ AnswerTypes' /\ ReadInv' /\ UNCHANGED reading
<1> USE DEF IInv, Stations
<1>1. reader \in [Readers -> Stations]
  BY DEF TypeOK
<1>2. /\ entry \in Entries /\ entry.protection \in Protections
      /\ entry.checklist \in [Checks -> Outcomes \cup {"missing"}]
  BY DEF TypeOK, Entries
<1>3. answer \in [Readers -> AnswerType]
  BY DEF AnswerTypes
<1>4. UNCHANGED reading
  BY DEF Diagnose, ReadSummary, ReadProfile, ReadChecklist, ReadHandle, Poll
<1>5. UNCHANGED <<mode, held, entry>>
  BY <1>4 DEF reading, auditing
<1>6. CASE ReadSummary(r)
  <2>1. reader' = [reader EXCEPT ![r] = "profile"]
    BY <1>6 DEF ReadSummary, Advance
  <2>2. answer' = [answer EXCEPT ![r] = [NoAnswer EXCEPT !.protection = entry.protection]]
    BY <1>6 DEF ReadSummary
  <2> DEFINE fresh == [NoAnswer EXCEPT !.protection = entry.protection]
  <2>3. fresh \in AnswerType
    <3>1. Unreported \in [Checks -> Outcomes \cup {"missing"}]
      BY DEF Unreported
    <3> QED BY <1>2, <3>1 DEF NoAnswer, AnswerType, States
  <2>4. AnswerTypes'
    BY <1>3, <2>2, <2>3 DEF AnswerTypes
  <2>5. answer'[r].protection = entry.protection
    BY <1>3, <2>2 DEF NoAnswer
  <2>6. ReadInv'
    BY <1>1, <1>3, <1>5, <2>1, <2>2, <2>5 DEF ReadInv
  <2> QED BY <1>1, <1>4, <2>1, <2>4, <2>6
<1>7. CASE ReadProfile(r)
  <2>1. /\ reader' = [reader EXCEPT ![r] = "checklist"] \/ reader' = [reader EXCEPT ![r] = "error"]
        /\ answer' = answer
    BY <1>7 DEF ReadProfile, Advance
  <2>2. \A b \in Readers : reader'[b] \in {"handle", "poll", "answered"}
                              => reader[b] \in {"handle", "poll", "answered"}
    BY <1>1, <2>1
  <2>3. ReadInv'
    BY <1>5, <2>1, <2>2, ReadKept
  <2> QED BY <1>1, <1>3, <1>4, <2>1, <2>3 DEF AnswerTypes
<1>8. CASE ReadChecklist(r)
  <2> DEFINE shown == IF entry.recorded THEN entry.checklist ELSE UnknownChecklist
             ip    == IF entry.recorded THEN entry.ip ELSE Unobserved
  <2>1. reader' = [reader EXCEPT ![r] = "handle"]
    BY <1>8 DEF ReadChecklist, Advance
  <2>2. answer' = [answer EXCEPT ![r].checklist = shown, ![r].items = Items(shown),
                                 ![r].site_ip = SiteIpLevel(ip)]
    BY <1>8 DEF ReadChecklist
  <2>3. SiteIpLevel(ip) \in {"ok", "down", "unknown"}
    BY DEF SiteIpLevel
  <2>4. /\ Items(shown) \in [Checks \cup {"profile"} -> ItemType]
        /\ shown \in [Checks -> Outcomes \cup {"missing"}]
    BY ItemFacts, <1>2 DEF UnknownChecklist, Outcomes
  <2>5. /\ answer'[r].protection = answer[r].protection
        /\ answer'[r].items = Items(shown) /\ answer'[r].checklist = shown
        /\ answer'[r].site_ip = SiteIpLevel(ip)
        /\ answer'[r].browser = answer[r].browser
        /\ \A b \in Readers \ {r} : answer'[b] = answer[b]
    <3> HIDE DEF shown, ip
    <3> QED BY <1>3, <2>2 DEF AnswerType
  <2>6. AnswerTypes'
    <3> HIDE DEF shown, ip
    <3>1. answer' = [answer EXCEPT ![r] = [answer[r] EXCEPT !.checklist = shown,
                        !.items = Items(shown), !.site_ip = SiteIpLevel(ip)]]
      BY <2>2
    <3> QED BY <1>3, <2>3, <2>4, <3>1, AnswerUpdates DEF AnswerTypes
  <2>7. ASSUME NEW c \in Checks, shown[c] = "pass"
        PROVE  c \in IF mode = "vm" THEN held \cup {"webrtc"} ELSE {"tunnel"}
    BY <2>7 DEF EntryInv, UnknownChecklist
  <2>8. entry.protection = "active" =>
            (\A c \in Checks : shown[c] = "pass") /\ SiteIpLevel(ip) = "ok"
    BY DEF EntryInv, AllPassed, GoodIp, SiteIpLevel
  <2>9. /\ \A c \in Checks : Verified(Items(shown)[c]) <=> shown[c] = "pass"
        /\ ~Verified(Items(shown)["profile"])
    BY ItemFacts
  <2>10. answer[r].protection = "active" => entry.protection = "active"
    BY DEF ReadInv
  <2>11. ReadInv'
    <3> HIDE DEF shown, ip
    <3>1. \A b \in Readers \ {r} : reader'[b] = reader[b]
      BY <1>1, <2>1
    <3> QED
      BY <1>5, <2>4, <2>5, <2>7, <2>8, <2>9, <2>10, <3>1 DEF ReadInv
  <2> QED BY <1>1, <1>4, <2>1, <2>6, <2>11
<1>9. CASE ReadHandle(r)
  <2>1. /\ reader[r] = "handle" /\ answer' = answer
        /\ reader' = [reader EXCEPT ![r] = "poll"] \/ reader' = [reader EXCEPT ![r] = "answered"]
    BY <1>9 DEF ReadHandle, Advance
  <2>2. \A b \in Readers : reader'[b] \in {"handle", "poll", "answered"}
                              => reader[b] \in {"handle", "poll", "answered"}
    BY <1>1, <2>1
  <2>3. ReadInv'
    BY <1>5, <2>1, <2>2, ReadKept
  <2> QED BY <1>1, <1>3, <1>4, <2>1, <2>3 DEF AnswerTypes
<1>10. CASE Poll(r)
  <2>1. reader[r] = "poll" /\ reader' = [reader EXCEPT ![r] = "answered"]
    BY <1>10 DEF Poll, Advance
  <2>2. PICK level \in {"unknown", "ok", "down"} :
            answer' = [answer EXCEPT ![r].browser = level]
    BY <1>10 DEF Poll
  <2>3. AnswerTypes'
    <3>1. answer' = [answer EXCEPT ![r] = [answer[r] EXCEPT !.browser = level]]
      BY <2>2
    <3>2. [answer[r] EXCEPT !.browser = level] \in AnswerType
      BY <1>3, AnswerUpdates
    <3> HIDE DEF Stations
    <3> QED BY <1>3, <3>1, <3>2 DEF AnswerTypes
  <2>4. \A b \in Readers : /\ answer'[b].protection = answer[b].protection
                          /\ answer'[b].items = answer[b].items
                          /\ answer'[b].checklist = answer[b].checklist
                          /\ answer'[b].site_ip = answer[b].site_ip
    <3> HIDE DEF Stations
    <3> DEFINE polled == [answer[r] EXCEPT !.browser = level]
    <3>1. answer[r] \in AnswerType
      BY <1>3
    <3>2. /\ polled.protection = answer[r].protection /\ polled.items = answer[r].items
          /\ polled.checklist = answer[r].checklist /\ polled.site_ip = answer[r].site_ip
      BY <3>1 DEF AnswerType
    <3>3. answer' = [answer EXCEPT ![r] = polled]
      BY <2>2
    <3> HIDE DEF polled
    <3>4. \A b \in Readers : answer'[b] = IF b = r THEN polled ELSE answer[b]
      BY <1>3, <3>3
    <3> QED BY <3>2, <3>4
  <2>5. \A b \in Readers : reader'[b] \in {"handle", "poll", "answered"}
                              => reader[b] \in {"handle", "poll", "answered"}
    BY <1>1, <2>1
  <2>6. ReadInv'
    BY <1>5, <2>4, <2>5, ReadKept
  <2> QED BY <1>1, <1>4, <2>1, <2>3, <2>6
<1> QED BY <1>6, <1>7, <1>8, <1>9, <1>10 DEF Diagnose

(* The same of a request for a list.                                         *)
LEMMA ListKeeps ==
    ASSUME IInv, NEW r \in Readers, List(r)
    PROVE  /\ reader' \in [Readers -> Stations]
           /\ AnswerTypes' /\ ReadInv' /\ UNCHANGED reading
<1> USE DEF IInv, Stations
<1>1. reader \in [Readers -> Stations] /\ answer \in [Readers -> AnswerType]
  BY DEF TypeOK, AnswerTypes
<1>2. UNCHANGED reading
  BY DEF List, ListProfiles, ListSessions, ListNone
<1>3. UNCHANGED <<mode, held, entry>>
  BY <1>2 DEF reading, auditing
<1>4. \E to \in {"profiles", "listed", "unlisted"} : reader' = [reader EXCEPT ![r] = to]
  BY DEF List, ListProfiles, ListSessions, ListNone, Advance
<1>7. \A b \in Readers : /\ reader'[b] \in {"handle", "poll", "answered"}
                                => reader[b] \in {"handle", "poll", "answered"}
                         /\ b = r => reader'[b] \notin {"handle", "poll", "answered"}
  BY <1>1, <1>4
<1>5. CASE ListProfiles(r) \/ ListNone(r)
  <2>1. \/ answer' = answer
        \/ \E b \in BOOLEAN : answer' = [answer EXCEPT ![r].locked = b]
    BY <1>5 DEF ListProfiles, ListNone, Locked
  <2>2. AnswerTypes'
    <3>1. CASE answer' = answer
      BY <1>1, <3>1 DEF AnswerTypes
    <3>2. ASSUME NEW b \in BOOLEAN, answer' = [answer EXCEPT ![r].locked = b] PROVE AnswerTypes'
      <4>1. answer' = [answer EXCEPT ![r] = [answer[r] EXCEPT !.locked = b]]
        BY <3>2
      <4>2. [answer[r] EXCEPT !.locked = b] \in AnswerType
        BY <1>1, AnswerUpdates
      <4> QED BY <1>1, <4>1, <4>2 DEF AnswerTypes
    <3> QED BY <2>1, <3>1, <3>2
  <2>3. \A b \in Readers : /\ answer'[b].protection = answer[b].protection
                          /\ answer'[b].items = answer[b].items
                          /\ answer'[b].checklist = answer[b].checklist
                          /\ answer'[b].site_ip = answer[b].site_ip
    BY <1>1, <2>1 DEF AnswerType
  <2>4. ReadInv'
    BY <1>3, <1>7, <2>3, ReadKept
  <2> QED BY <1>1, <1>2, <1>4, <2>2, <2>4
<1>6. CASE ListSessions(r)
  <2>1. answer' = [answer EXCEPT ![r].protection = entry.protection,
                                 ![r].state = entry.state, ![r].ip = entry.ip]
    BY <1>6 DEF ListSessions
  <2>2. entry.protection \in Protections /\ entry.state \in States
            /\ entry.ip \in Observations \cup {Unobserved}
    BY DEF TypeOK, Entries
  <2>3. AnswerTypes'
    <3> DEFINE row == [answer[r] EXCEPT !.protection = entry.protection,
                                        !.state = entry.state, !.ip = entry.ip]
    <3>1. answer' = [answer EXCEPT ![r] = row]
      BY <2>1
    <3>2. row \in AnswerType
      BY <1>1, <2>2, AnswerUpdates
    <3> HIDE DEF row
    <3> QED BY <1>1, <3>1, <3>2 DEF AnswerTypes
  <2>4. /\ answer'[r].protection = entry.protection
        /\ \A b \in Readers \ {r} : answer'[b] = answer[b]
    BY <1>1, <2>1 DEF AnswerType
  <2>5. ReadInv'
    <3>1. \A b \in Readers : b = r \/ b \in Readers \ {r}
      OBVIOUS
    <3> QED BY <1>3, <1>7, <2>4, <3>1, ReadKept
  <2> QED BY <1>1, <1>2, <1>4, <2>3, <2>5
<1> QED BY <1>5, <1>6 DEF List
-----------------------------------------------------------------------------
(* A step that is not a request's leaves what requests have read true, as    *)
(* long as it loses no measurement and no active record.                     *)
LEMMA OthersKeepReads ==
    ASSUME IInv, UNCHANGED clients, mode' = mode, held \subseteq held',
           entry.protection = "active" => entry'.protection = "active"
    PROVE  ReadInv' /\ AnswerTypes'
  BY DEF IInv, ReadInv, AnswerTypes, clients

(* A step of the start or of a stop that changes, of the entry, only where   *)
(* the session is and whether it has a browser.                              *)
LEMMA EntryKeeps ==
    ASSUME IInv, UNCHANGED <<mode, world, moves, auditing, clients>>,
           entry' \in Entries,
           entry'.protection = entry.protection, entry'.recorded = entry.recorded,
           entry'.checklist = entry.checklist, entry'.ip = entry.ip,
           phase' \in {"starting", "probing", "launching", "checking", "started", "failing", "failed"},
           phase' = "starting" => phase = "starting",
           phase' = "probing" => phase \in {"starting", "probing"},
           phase' \in {"launching", "checking", "started"} =>
               phase \in {"launching", "checking", "started"},
           alive' \in BOOLEAN,
           alive' => alive \/ phase = "launching",
           stop' \in {"idle", "killing", "ending", "done"}
    PROVE  IInv'
<1> USE DEF IInv
<1>1. UNCHANGED <<mode, world, moves, step, reports, observed, held, reader, answer>>
  BY DEF auditing, clients
<1>2. TypeOK'
  BY <1>1 DEF TypeOK
<1>3. AuditInv' /\ GateInv'
  BY <1>1 DEF AuditInv, GateInv
<1>4. EntryInv'
  BY <1>1 DEF EntryInv, AllPassed
<1>5. ReadInv' /\ AnswerTypes'
  BY <1>1, OthersKeepReads DEF clients
<1> QED BY <1>2, <1>3, <1>4, <1>5

\* A probe of the auditor adds one report and what it measured.
LEMMA MeasureKeeps == IInv /\ mode = "vm" /\ Measure => IInv'
<1> SUFFICES ASSUME IInv, mode = "vm", Measure PROVE IInv'
  OBVIOUS
<1> USE DEF IInv
<1>1. UNCHANGED <<mode, world, moves, phase, entry, alive, stop, reader, answer>>
  BY DEF Measure, clients
<1>2. PICK c \in Checks, o \in {"pass", "fail"}, truly \in BOOLEAN :
              /\ c = Order[step + 1] /\ step \in 0..5
              /\ reports' = [reports EXCEPT ![c] = o]
              /\ held' = IF truly THEN held \cup {c} ELSE held
              /\ step' = step + 1
              /\ IF c = "public_ip" THEN o = "pass" => GoodIp(observed')
                                    ELSE UNCHANGED observed
              /\ c \in Probed /\ o = "pass" => truly
              /\ observed' \in Observations \cup {Unobserved}
  BY MeasureFacts
<1>3. held \subseteq held' /\ held' \subseteq Checks
  BY <1>2 DEF TypeOK
<1>4. reports \in [Checks -> Outcomes \cup {"missing"}]
  BY DEF TypeOK
<1>5. reports' \in [Checks -> Outcomes \cup {"missing"}]
  BY <1>2, <1>4 DEF Outcomes
<1>6. \A i \in DOMAIN Order : (reports'[Order[i]] = "missing") <=> (i > step')
  <2>1. SUFFICES ASSUME NEW i \in 1..6
                 PROVE  (reports'[Order[i]] = "missing") <=> (i > step + 1)
    BY <1>2, OrderFacts
  <2>2. (reports[Order[i]] = "missing") <=> (i > step)
    BY OrderFacts DEF TypeOK
  <2>3. CASE i = step + 1
    BY <1>2, <1>4, <2>3
  <2>4. CASE i # step + 1
    <3>1. Order[i] # c
      BY <1>2, <2>4, OrderFacts
    <3> QED BY <1>2, <1>4, <2>2, <2>4, <3>1, OrderFacts
  <2> QED BY <2>3, <2>4
<1>7. TypeOK'
  BY <1>1, <1>2, <1>3, <1>5, <1>6, OrderFacts DEF TypeOK
<1>8. AuditInv'
  <2>1. ASSUME NEW d \in Probed, reports'[d] = "pass" PROVE d \in held'
    <3>1. d \in Checks
      BY DEF Probed
    <3> QED BY <1>2, <1>3, <1>4, <2>1, <3>1 DEF AuditInv
  <2>2. reports'["public_ip"] = "pass" => GoodIp(observed')
    <3>1. "public_ip" \in Checks
      BY OrderFacts
    <3>2. CASE c = "public_ip"
      BY <1>2, <1>4, <3>1, <3>2
    <3>3. CASE c # "public_ip"
      BY <1>2, <1>4, <3>1, <3>3 DEF AuditInv, GoodIp
    <3> QED BY <3>2, <3>3
  <2> QED BY <1>1, <2>1, <2>2 DEF AuditInv, GoodIp
<1>9. GateInv'
  BY <1>1, <1>3 DEF GateInv, Measure
<1>10. EntryInv'
  BY <1>1, <1>3 DEF EntryInv, AllPassed, GoodIp
<1>11. ReadInv' /\ AnswerTypes'
  BY <1>1, <1>3, OthersKeepReads DEF clients
<1> QED BY <1>7, <1>8, <1>9, <1>10, <1>11

\* Recording takes checklist, aggregate and address from the finished reports.
LEMMA RecordKeeps == IInv /\ RecordChecklist => IInv'
<1> SUFFICES ASSUME IInv, RecordChecklist PROVE IInv'
  OBVIOUS
<1> USE DEF IInv
<1>1. /\ mode = "vm" /\ phase = "probing"
      /\ UNCHANGED <<mode, world, moves, step, reports, observed, held, alive, stop, reader, answer>>
  BY DEF RecordChecklist, auditing, clients
<1>2. entry' = [entry EXCEPT !.protection = Status(reports), !.recorded = TRUE,
                             !.checklist = reports, !.ip = observed]
  BY DEF RecordChecklist, Record
<1>3. Status(reports) \in Protections
  BY DEF Status, Protections
<1>4. reports \in [Checks -> Outcomes \cup {"missing"}] /\ entry \in Entries
        /\ observed \in Observations \cup {Unobserved}
  BY DEF TypeOK
<1>5. entry' \in Entries
  BY <1>2, <1>3, <1>4, EntryUpdates
<1>6. /\ entry'.protection = Status(reports) /\ entry'.recorded = TRUE
      /\ entry'.checklist = reports /\ entry'.ip = observed
  BY <1>2, <1>4 DEF Entries
<1>7. phase' \in {"launching", "failing"} /\ (phase' = "launching" => Status(reports) = "active")
  BY DEF RecordChecklist, PermitsBrowsing, Permits
<1>8. Status(reports) = "active" => AllPassed(reports)
  BY DEF Status
<1>9. AllPassed(reports) => Probed \subseteq held /\ GoodIp(observed)
  BY OrderFacts DEF AllPassed, AuditInv, Probed
<1>10. TypeOK'
  BY <1>1, <1>5, <1>7 DEF TypeOK
<1>11. AuditInv' /\ GateInv'
  BY <1>1, <1>6, <1>7, <1>8, <1>9 DEF AuditInv, GateInv, GoodIp
<1>12. {d \in Checks : reports[d] = "pass"} \subseteq held \cup {"webrtc"}
  BY DEF AuditInv, Probed
<1>13. EntryInv'
  BY <1>1, <1>6, <1>8, <1>9, <1>12 DEF EntryInv, AllPassed, GoodIp
<1>14. entry.protection # "active"
  BY <1>1 DEF GateInv, EntryInv
<1>15. ReadInv' /\ AnswerTypes'
  BY <1>1, <1>14, OthersKeepReads DEF clients
<1> QED BY <1>10, <1>11, <1>13, <1>15

\* The probe of a host session records the host checklist, which is never active.
LEMMA ProxyKeeps == IInv /\ ProbeProxy => IInv'
<1> SUFFICES ASSUME IInv, ProbeProxy PROVE IInv'
  OBVIOUS
<1> USE DEF IInv
<1>1. /\ mode = "host" /\ phase = "probing"
      /\ UNCHANGED <<mode, world, moves, step, reports, observed, held, alive, stop, reader, answer>>
  BY DEF ProbeProxy, auditing, clients
<1>2. CASE UNCHANGED entry /\ phase' = "failing"
  <2>1. entry \in Entries /\ alive \in BOOLEAN /\ stop \in {"idle", "killing", "ending", "done"}
    BY DEF TypeOK
  <2> QED BY <1>1, <1>2, <2>1, EntryKeeps DEF auditing, clients
<1>3. CASE Record("partial", HostChecklist, Unobserved) /\ phase' = "launching"
  <2>1. entry \in Entries
    BY DEF TypeOK
  <2>2. HostChecklist \in [Checks -> Outcomes \cup {"missing"}] /\ "partial" \in Protections
    BY DEF HostChecklist, Outcomes, Protections
  <2>3. entry' \in Entries
    BY <1>3, <2>1, <2>2, EntryUpdates DEF Record
  <2>4. /\ entry'.protection = "partial" /\ entry'.recorded = TRUE
        /\ entry'.checklist = HostChecklist
    BY <1>3, <2>1 DEF Record, Entries
  <2>5. TypeOK'
    BY <1>1, <1>3, <2>3 DEF TypeOK
  <2>6. AuditInv' /\ GateInv'
    BY <1>1, <1>3, <2>4 DEF AuditInv, GateInv, GoodIp
  <2>7. EntryInv'
    BY <1>1, <2>4 DEF EntryInv, HostChecklist
  <2>8. entry.protection # "active"
    BY <1>1 DEF GateInv, EntryInv
  <2>9. ReadInv' /\ AnswerTypes'
    BY <1>1, <2>8, OthersKeepReads DEF clients
  <2> QED BY <2>5, <2>6, <2>7, <2>9
<1> QED BY <1>2, <1>3 DEF ProbeProxy

(* The other steps of the start, and a stop.                                 *)
LEMMA LaunchKeeps ==
    IInv /\ (EnterPreflight \/ Launch \/ CheckAlive \/ FailStart \/ Stop \/ EndStop) => IInv'
<1> SUFFICES ASSUME IInv,
                    EnterPreflight \/ Launch \/ CheckAlive \/ FailStart \/ Stop \/ EndStop
             PROVE  IInv'
  OBVIOUS
<1>1. /\ entry \in Entries /\ alive \in BOOLEAN /\ entry.state \in States
      /\ stop \in {"idle", "killing", "ending", "done"}
      /\ phase \in {"starting", "probing", "launching", "checking", "started", "failing", "failed"}
  BY DEF IInv, TypeOK, Entries
<1>2. UNCHANGED <<mode, world, moves, auditing, clients>>
  BY DEF EnterPreflight, Launch, CheckAlive, FailStart, Stop, EndStop
(* What these steps do to the entry.                                         *)
<1>3. \/ entry' = entry
      \/ \E x \in States, h \in BOOLEAN : entry' = [entry EXCEPT !.state = x, !.handle = h]
      \/ \E x \in States : entry' = [entry EXCEPT !.state = x]
      \/ \E h \in BOOLEAN : entry' = [entry EXCEPT !.handle = h]
  <2>1. CASE EnterPreflight
    BY <2>1 DEF EnterPreflight, States
  <2>2. CASE Launch
    BY <2>2 DEF Launch
  <2>3. CASE CheckAlive
    BY <2>3 DEF CheckAlive, States
  <2>4. CASE FailStart
    BY <2>4 DEF FailStart, States
  <2>5. CASE Stop
    <3> DEFINE x == IF entry.state \in {"destroyed", "failed"} THEN entry.state ELSE "closing"
    <3>1. x \in States
      BY <1>1 DEF States
    <3>2. entry' = [entry EXCEPT !.state = x, !.handle = FALSE]
      BY <1>1, <2>5 DEF Stop, Entries
    <3> QED BY <3>1, <3>2
  <2>6. CASE EndStop
    BY <2>6 DEF EndStop, States
  <2> QED BY <2>1, <2>2, <2>3, <2>4, <2>5, <2>6
<1>4. entry' \in Entries
  BY <1>1, <1>3, EntryUpdates
<1>5. /\ entry'.protection = entry.protection /\ entry'.recorded = entry.recorded
      /\ entry'.checklist = entry.checklist /\ entry'.ip = entry.ip
  BY <1>1, <1>3 DEF Entries
<1>6. /\ phase' \in {"starting", "probing", "launching", "checking", "started", "failing", "failed"}
      /\ phase' = "starting" => phase = "starting"
      /\ phase' = "probing" => phase \in {"starting", "probing"}
      /\ phase' \in {"launching", "checking", "started"} =>
             phase \in {"launching", "checking", "started"}
  BY <1>1 DEF EnterPreflight, Launch, CheckAlive, FailStart, Stop, EndStop
<1>7. /\ alive' \in BOOLEAN
      /\ alive' => alive \/ phase = "launching"
  <2>1. CASE UNCHANGED alive
    BY <1>1, <2>1
  <2>2. CASE Launch
    BY <1>1, <2>2 DEF Launch
  <2>3. ASSUME NEW b \in BOOLEAN, alive' = (alive /\ b)
        PROVE  alive' \in BOOLEAN /\ (alive' => alive)
    BY <2>3
  <2>4. CASE FailStart
    BY <2>3, <2>4 DEF FailStart
  <2>5. CASE EndStop
    BY <2>3, <2>5 DEF EndStop
  <2> QED
    BY <2>1, <2>2, <2>4, <2>5 DEF EnterPreflight, CheckAlive, Stop
<1>8. stop' \in {"idle", "killing", "ending", "done"}
  BY <1>1 DEF EnterPreflight, Launch, CheckAlive, FailStart, Stop, EndStop
<1> QED BY <1>2, <1>4, <1>5, <1>6, <1>7, <1>8, EntryKeeps

(* The network moves, the browser exits: no measurement is undone.           *)
LEMMA WorldKeeps == IInv /\ (WorldMoves \/ BrowserExits) => IInv'
<1> SUFFICES ASSUME IInv, WorldMoves \/ BrowserExits PROVE IInv'
  OBVIOUS
<1> USE DEF IInv
<1>1. /\ UNCHANGED <<mode, phase, step, reports, observed, held, entry, stop, reader, answer>>
  BY DEF WorldMoves, BrowserExits, auditing, clients
<1>2. alive' \in BOOLEAN /\ (alive' => alive)
  <2>1. CASE WorldMoves
    BY <2>1 DEF WorldMoves, TypeOK
  <2>2. CASE BrowserExits
    BY <2>2 DEF BrowserExits
  <2> QED BY <2>1, <2>2
<1>3. world' \in [Guarantees -> BOOLEAN] /\ moves' \in 0..MaxMoves
  <2>1. CASE WorldMoves
    BY <2>1, MovesAssumption DEF WorldMoves, TypeOK
  <2>2. CASE BrowserExits
    BY <2>2 DEF BrowserExits, TypeOK
  <2> QED BY <2>1, <2>2
<1>4. TypeOK'
  BY <1>1, <1>2, <1>3 DEF TypeOK
<1>5. AuditInv' /\ GateInv'
  BY <1>1, <1>2 DEF AuditInv, GateInv, GoodIp
<1>6. EntryInv'
  BY <1>1 DEF EntryInv, AllPassed, GoodIp
<1>7. ReadInv' /\ AnswerTypes'
  BY <1>1, OthersKeepReads DEF clients
<1> QED BY <1>4, <1>5, <1>6, <1>7

\* Every step keeps the invariant.
LEMMA IInvStep == IInv /\ [Next]_vars => IInv'
<1> SUFFICES ASSUME IInv, [Next]_vars PROVE IInv'
  OBVIOUS
<1>1. ASSUME NEW r \in Readers, Diagnose(r) \/ List(r) PROVE IInv'
  <2> USE DEF IInv
  <2>1. /\ reader' \in [Readers -> Stations]
        /\ AnswerTypes' /\ ReadInv' /\ UNCHANGED reading
    BY <1>1, DiagnoseKeeps, ListKeeps
  <2>2. UNCHANGED <<mode, world, moves, phase, step, reports, observed, held, entry, alive, stop>>
    BY <2>1 DEF reading, auditing
  <2>3. TypeOK'
    BY <2>1, <2>2 DEF TypeOK, AnswerTypes, AnswerType
  <2>4. AuditInv' /\ GateInv'
    BY <2>2 DEF AuditInv, GateInv, GoodIp
  <2>5. EntryInv'
    BY <2>2 DEF EntryInv, AllPassed, GoodIp
  <2> QED BY <2>1, <2>3, <2>4, <2>5
<1>2. CASE UNCHANGED vars
  <2> USE DEF IInv, vars
  <2>1. TypeOK'
    BY <1>2 DEF TypeOK
  <2>2. AuditInv' /\ GateInv'
    BY <1>2 DEF AuditInv, GateInv, GoodIp
  <2>3. EntryInv'
    BY <1>2 DEF EntryInv, AllPassed, GoodIp
  <2>4. ReadInv' /\ AnswerTypes'
    BY <1>2, OthersKeepReads DEF clients
  <2> QED BY <2>1, <2>2, <2>3, <2>4
<1> QED
  BY <1>1, <1>2, MeasureKeeps, RecordKeeps, ProxyKeeps, LaunchKeeps, WorldKeeps
     DEF Next, Start
-----------------------------------------------------------------------------
(* Every behaviour keeps the inductive invariant.                            *)
THEOREM Inductive == Spec => []IInv
  BY IInvInit, IInvStep, PTL DEF Spec

(* Types, and the reports are those of the checks measured so far, in the    *)
(* order in which run_preflight measures them.                               *)
THEOREM TypeCorrect == Spec => []TypeOK
<1>1. IInv => TypeOK
  BY DEF IInv
<1> QED BY <1>1, Inductive, PTL

(* A session is active only after its own preflight has measured every       *)
(* guarantee a probe can measure, and each held when it was measured.        *)
THEOREM ActiveMeasured == Spec => []ActiveIsMeasured
<1>1. IInv => ActiveIsMeasured
  BY DEF IInv, EntryInv, ActiveIsMeasured
<1> QED BY <1>1, Inductive, PTL

(* The browser of a full-VM session runs only behind such a preflight: the   *)
(* gate of drive_start holds, wherever a stop or a failure strikes.          *)
THEOREM GateHolds == Spec => []RunsBehindGate
<1>1. IInv => RunsBehindGate
  BY DEF IInv, GateInv, RunsBehindGate
<1> QED BY <1>1, Inductive, PTL

(* An answer to GetDiagnostics that says "active" shows six verified checks  *)
(* and a good public IP, though it is put together from several reads.       *)
THEOREM AnswersAgree == Spec => []AnswerAgrees
<1>1. IInv => AnswerAgrees
  BY DEF IInv, ReadInv, AnswerAgrees, Answered
<1> QED BY <1>1, Inductive, PTL

(* Nothing is shown as verified that this session has not measured.          *)
THEOREM GreenEarned == Spec => []GreenIsEarned
<1>1. IInv => GreenIsEarned
  <2> SUFFICES ASSUME IInv, NEW r \in Answered
               PROVE  {key \in DOMAIN answer[r].items : Verified(answer[r].items[key])}
                        \subseteq Measured
    BY DEF GreenIsEarned
  <2>1. r \in Readers /\ reader[r] = "answered"
    BY DEF Answered
  <2>2. DOMAIN answer[r].items = Checks \cup {"profile"}
    BY <2>1 DEF IInv, ReadInv
  <2> QED BY <2>1, <2>2 DEF IInv, ReadInv, Measured
<1> QED BY <1>1, Inductive, PTL

(* Both clients say of a check that it passed exactly where the checklist    *)
(* does, and that all did only where it says so of each.                     *)
LEMMA ViewsAreTrue ==
    ASSUME NEW checklist, NEW c \in Checks
    PROVE  /\ CheckViews(checklist)[c].passed <=> checklist[c] = "pass"
           /\ OutcomeLabel(checklist[c]) = "pass" <=> checklist[c] = "pass"
           /\ DiagItemView(Items(checklist)[c]) = "ok" <=> checklist[c] = "pass"
           /\ Failures(checklist) = {} => checklist[c] = "pass"
           /\ Status(checklist) = "active" => checklist[c] = "pass"
<1>1. CheckViews(checklist)[c].passed <=> checklist[c] = "pass"
  BY DEF CheckViews, CheckView
<1>2. OutcomeLabel(checklist[c]) = "pass" <=> checklist[c] = "pass"
  BY DEF OutcomeLabel
<1>3. Items(checklist)[c] = CheckItem(checklist[c])
  BY OrderFacts DEF Items
<1>4. DiagItemView(Items(checklist)[c]) = "ok" <=> checklist[c] = "pass"
  BY <1>3 DEF DiagItemView, CheckItem, Item
<1>5. Failures(checklist) = {} => checklist[c] = "pass"
  BY DEF Failures
<1>6. Status(checklist) = "active" => checklist[c] = "pass"
  BY DEF Status, AllPassed
<1> QED BY <1>1, <1>2, <1>4, <1>5, <1>6

(* Whatever list, panel or report a client makes of whatever it was sent, it *)
(* claims nothing of a session that was not measured.                        *)
THEOREM SafeEarned == Spec => []SafeIsEarned
<1>1. IInv => SafeIsEarned
  <2> SUFFICES ASSUME IInv PROVE SafeIsEarned
    OBVIOUS
  <2>1. ASSUME NEW r \in Readers, answer[r].protection = "active" PROVE Probed \subseteq held
    BY <2>1 DEF IInv, ReadInv, EntryInv
  <2>2. ASSUME NEW r \in Listed, RowClaims(r) PROVE Probed \subseteq held
    BY <2>1, <2>2 DEF Listed, RowClaims, IsSafe, SessionRow, Summary, Permits
  <2>3. ASSUME NEW r \in Answered
        PROVE  /\ PanelClaims(r) => Probed \subseteq held
               /\ \A c \in Checks : ClaimsCheck(r, c) => c \in Measured
    <3> DEFINE list == answer[r].checklist
    <3>1. r \in Readers /\ reader[r] = "answered" /\ answer[r].items = Items(list)
      BY <2>3 DEF Answered, IInv, ReadInv
    <3>2. ASSUME NEW c \in Checks, list[c] = "pass" PROVE c \in Measured
      <4>1. Verified(Items(list)[c])
        BY <3>2, ItemFacts
      <4> QED BY <3>1, <4>1 DEF IInv, ReadInv, Measured
    <3>3. (\A c \in Checks : list[c] = "pass") => Probed \subseteq held
      BY <3>2, OrderFacts DEF Measured, Probed
    <3>4. /\ Panel(r).permits_browsing <=> Status(list) = "active"
          /\ Panel(r).badge = Status(list)
          /\ Report(r).all_passed <=> Failures(list) = {}
          /\ Report(r).badge = answer[r].protection
      BY DEF Panel, Report, DiagnosticsView, DiagnosticsReport, ChecklistReport,
             PermitsBrowsing, Permits
    <3>5. PanelClaims(r) => Probed \subseteq held
      <4>1. Status(list) = "active" \/ Failures(list) = {} => \A c \in Checks : list[c] = "pass"
        BY ViewsAreTrue
      <4> QED BY <2>1, <3>1, <3>3, <3>4, <4>1 DEF PanelClaims
    <3>6. ASSUME NEW c \in Checks
          PROVE  /\ Panel(r).checks[c] = CheckViews(list)[c]
                 /\ Panel(r).items[c] = DiagItemView(Items(list)[c])
                 /\ Report(r).lines[c] = OutcomeLabel(list[c])
      <4>1. c \in DOMAIN Items(list)
        BY ItemFacts
      <4> QED
        BY <3>1, <4>1 DEF Panel, Report, DiagnosticsView, DiagnosticsReport, ChecklistReport
    <3>7. ASSUME NEW c \in Checks, ClaimsCheck(r, c) PROVE c \in Measured
      <4>1. list[c] = "pass"
        BY <3>6, <3>7, ViewsAreTrue DEF ClaimsCheck
      <4> QED BY <3>2, <4>1
    <3> QED BY <3>5, <3>7
  <2> QED BY <2>2, <2>3 DEF SafeIsEarned
<1> QED BY <1>1, Inductive, PTL

(* Every reply of the handler is of the kind that its client takes there, in *)
(* the commands of both clients, those of several requests included.         *)
THEOREM RepliesAreUnderstood ==
    /\ Understood(CliRequests, CliReads)
    /\ Understood(ManagerRequests, ManagerReads)
(* The kinds, one by one.                                                    *)
<1>1. /\ Reply("list-profiles") = "profiles" /\ Reply("create-profile") = "profile"
      /\ Reply("delete-profile") = "ok" /\ Reply("start-session") = "session"
      /\ Reply("stop-session") = "session" /\ Reply("list-sessions") = "sessions"
      /\ Reply("get-diagnostics") = "diagnostics" /\ Reply("doctor") = "doctor"
      /\ Reply("check-update") = "update-available"
      /\ Reply("apply-update") = "update-applied" /\ Reply("get-status") = "status"
      /\ Reply("get-enforcement") = "enforcement" /\ Reply("set-enforcement") = "enforcement"
  BY DEF Reply
<1>2. Understood(CliRequests, CliReads)
  <2>1. SUFFICES ASSUME NEW command \in DOMAIN CliRequests
                 PROVE  /\ Len(CliRequests[command]) = Len(CliReads[command])
                        /\ \A i \in DOMAIN CliRequests[command] :
                              Reply(CliRequests[command][i]) = CliReads[command][i]
    BY DEF Understood
  <2>2. Len(CliRequests[command]) = Len(CliReads[command])
    BY DEF CliRequests, CliReads
  <2>3. ASSUME NEW i \in DOMAIN CliRequests[command]
        PROVE  Reply(CliRequests[command][i]) = CliReads[command][i]
    <3>1. i = 1 \/ i = 2
      BY DEF CliRequests
    <3>2. CASE i = 1
      BY <1>1, <3>2 DEF CliRequests, CliReads
    <3>3. CASE i = 2
      BY <1>1, <3>3 DEF CliRequests, CliReads
    <3> QED BY <3>1, <3>2, <3>3
  <2> QED BY <2>2, <2>3
<1>3. Understood(ManagerRequests, ManagerReads)
  <2>1. SUFFICES ASSUME NEW command \in DOMAIN ManagerRequests
                 PROVE  /\ Len(ManagerRequests[command]) = Len(ManagerReads[command])
                        /\ \A i \in DOMAIN ManagerRequests[command] :
                              Reply(ManagerRequests[command][i]) = ManagerReads[command][i]
    BY DEF Understood
  <2>2. Len(ManagerRequests[command]) = Len(ManagerReads[command])
    BY DEF ManagerRequests, ManagerReads
  <2>3. ASSUME NEW i \in DOMAIN ManagerRequests[command]
        PROVE  Reply(ManagerRequests[command][i]) = ManagerReads[command][i]
    <3>1. i = 1 \/ i = 2
      BY DEF ManagerRequests
    <3>2. CASE i = 1
      BY <1>1, <3>2 DEF ManagerRequests, ManagerReads
    <3>3. CASE i = 2
      BY <1>1, <3>3 DEF ManagerRequests, ManagerReads
    <3> QED BY <3>1, <3>2, <3>3
  <2> QED BY <2>2, <2>3
<1> QED BY <1>2, <1>3
---------------------------------------------------------------------------
(* The channel between a client and the daemon (module Ipc).                 *)

PeerStates == {"idle", "greeting", "greeted", "ready", "writing", "waiting", "gone", "failed"}
ReplyPieces == Pieces \ {Hello}

(* What the variables of the channel are.                                    *)
ShapeInv ==
    /\ transport \in Transports /\ authorized \in SUBSET Peers
    /\ loop \in {"accept", "stopped"}
    /\ conn \in [Peers -> {"new", "pending", "visiting", "serving", "ended"}]
    /\ outcome \in [Peers -> {"none", "closed", "too_large", "io", "decode"}]
    /\ server \in [Peers -> {"header", "body", "handle", "reply"}]
    /\ request \in [Peers -> Frames \cup {NoFrame}]
    /\ handled \in [Peers -> Seq(Nat)]
    /\ client \in [Peers -> PeerStates]
    /\ calls \in [Peers -> 0..MaxCalls]
    /\ sending \in [Peers -> Frames \cup {NoFrame}]
    /\ sent \in [Peers -> 0..3]
    /\ replied \in [Peers -> 0..2]
    /\ up \in [Peers -> Seq(Pieces)]
    /\ down \in [Peers -> Seq(ReplyPieces)]
    /\ got \in [Peers -> Seq(Nat)]

(* A frame that is being worked on, or written, is a frame; one at a time    *)
(* visits the loop.                                                          *)
FrameInv(p) ==
    /\ server[p] # "header" => request[p] \in Frames
    /\ client[p] = "writing" => sending[p] \in Frames /\ sent[p] <= 2
    /\ client[p] = "waiting" => p \in Clients

VisitInv == \A p, q \in Peers : conn[p] = "visiting" /\ conn[q] = "visiting" => p = q

(* Until a connection is served nothing has been read of it or written to    *)
(* it, and over tcp nothing was sent but the handshake.                      *)
HelloInv(p) ==
    /\ conn[p] \in {"new", "pending", "visiting"} =>
          /\ server[p] = "header" /\ request[p] = NoFrame /\ replied[p] = 0
          /\ handled[p] = <<>> /\ down[p] = <<>>
    /\ conn[p] = "new" => client[p] = "idle"
    /\ client[p] = "idle" => conn[p] \in {"new", "ended"} /\ up[p] = <<>> /\ calls[p] = 0
    /\ client[p] \in {"greeting", "greeted"} => transport = "tcp" /\ calls[p] = 0
    /\ client[p] = "greeting" => conn[p] # "serving" /\ up[p] = <<>>
    /\ transport = "tcp" /\ conn[p] \in {"pending", "visiting"} =>
          /\ client[p] \in {"greeting", "greeted", "gone"}
          /\ up[p] \in {<<>>, <<Hello>>}
    /\ conn[p] = "visiting" => transport = "tcp"

(* The pieces that a peer writes follow one another: within a frame in the   *)
(* order of its parts, and a frame of a later call after its last.           *)
Follows(a, b) ==
    /\ a.part = "half" => b = Piece("head", a.frame)
    /\ a.part = "head" => b = Piece("body", a.frame)
    /\ a.part = "body" => b.part = "half" /\ b.frame.call > a.frame.call
    /\ a.part # "hello"

LastRead(p) == Piece(IF server[p] = "body" THEN "head" ELSE "body", request[p])
LastWritten(p) == IF up[p] = <<>> THEN LastRead(p) ELSE up[p][Len(up[p])]

(* Once the handshake is over they do so from what the server has read last  *)
(* over what is on its way to what the peer is about to write.               *)
Framed(p) == conn[p] = "serving" \/ (transport = "unix" /\ conn[p] # "ended")

FlowInv(p) ==
    Framed(p) =>
        /\ up[p] # <<>> => Follows(LastRead(p), up[p][1])
        /\ \A i \in 1 .. Len(up[p]) - 1 : Follows(up[p][i], up[p][i + 1])
        /\ client[p] = "writing" => Follows(LastWritten(p), Piece(Parts[sent[p] + 1], sending[p]))
        /\ client[p] \in {"idle", "greeted", "ready", "waiting"} =>
              LastWritten(p).part = "body" /\ LastWritten(p).frame.call <= calls[p]

(* What has been carried out is older than the request at hand, and every    *)
(* reply belongs to a request that was carried out.                          *)
HandledInv(p) ==
    /\ InOrder(handled[p])
    /\ conn[p] # "ended" =>
          \A i \in DOMAIN handled[p] :
              IF server[p] \in {"body", "handle"} THEN handled[p][i] < request[p].call
                                                  ELSE handled[p][i] <= request[p].call
    /\ server[p] = "reply" => \E i \in DOMAIN handled[p] : handled[p][i] = request[p].call
    /\ \A i \in DOMAIN down[p] :
          \E j \in DOMAIN handled[p] : handled[p][j] = down[p][i].frame.call

(* What a client has received is older than the call it is in.               *)
GotInv(p) ==
    /\ InOrder(got[p])
    /\ \A i \in DOMAIN got[p] : \E j \in DOMAIN handled[p] : handled[p][j] = got[p][i]
    /\ \A i \in DOMAIN got[p] : got[p][i] <= calls[p]
    /\ client[p] \in {"writing", "waiting"} =>
          sending[p].call = calls[p] /\ \A i \in DOMAIN got[p] : got[p][i] < calls[p]

(* One exchange at a time lies between a client and the server: the three    *)
(* pieces of its request, then the request at the server, then the three of  *)
(* the reply.                                                                *)
ExchangeInv(c) ==
    /\ client[c] \in {"idle", "greeting", "greeted", "ready", "writing"} => down[c] = <<>>
    /\ client[c] = "waiting" =>
          Len(down[c]) <= 3 /\ \A i \in DOMAIN down[c] : down[c][i].frame = sending[c]
    /\ client[c] \in {"greeted", "ready"} /\ Framed(c) =>
          up[c] = <<>> /\ server[c] = "header" /\ replied[c] = 0
    /\ client[c] = "writing" /\ Framed(c) =>
          /\ replied[c] = 0
          /\ \A i \in DOMAIN up[c] : up[c][i].frame = sending[c]
          /\ \/ server[c] = "header" /\ Len(up[c]) = sent[c]
             \/ server[c] = "body" /\ sent[c] = 2 /\ up[c] = <<>> /\ request[c] = sending[c]
    /\ client[c] = "waiting" /\ Framed(c) =>
          /\ \A i \in DOMAIN up[c] : up[c][i].frame = sending[c]
          /\ server[c] # "header" => request[c] = sending[c]
          /\ server[c] = "header" =>
                /\ replied[c] = 0
                /\ \/ Len(up[c]) = 3 /\ down[c] = <<>>
                   \/ up[c] = <<>> /\ Len(down[c]) = 3
          /\ server[c] = "body" => Len(up[c]) = 1 /\ down[c] = <<>> /\ replied[c] = 0
          /\ server[c] = "handle" => up[c] = <<>> /\ down[c] = <<>> /\ replied[c] = 0
          /\ server[c] = "reply" => up[c] = <<>> /\ Len(down[c]) = replied[c]

PeerInv(p) ==
    /\ FrameInv(p) /\ HelloInv(p) /\ FlowInv(p) /\ HandledInv(p) /\ GotInv(p)
    /\ p \in Clients => ExchangeInv(p)

ChannelInv == ShapeInv /\ VisitInv /\ \A p \in Peers : PeerInv(p)
-----------------------------------------------------------------------------
\* The channel's invariant holds initially.
LEMMA ChannelInvInit == ChannelInit => ChannelInv
<1> SUFFICES ASSUME ChannelInit PROVE ChannelInv
  OBVIOUS
<1>1. ShapeInv
  BY BoundsAssumption DEF ChannelInit, ShapeInv, PeerStates
<1>2. VisitInv
  BY DEF ChannelInit, VisitInv
<1>3. ASSUME NEW p \in Peers PROVE PeerInv(p)
  <2>1. /\ conn[p] = "new" /\ server[p] = "header" /\ request[p] = NoFrame
        /\ handled[p] = <<>> /\ client[p] = "idle" /\ calls[p] = 0 /\ replied[p] = 0
        /\ up[p] = <<>> /\ down[p] = <<>> /\ got[p] = <<>>
    BY DEF ChannelInit
  <2> QED
    BY <2>1 DEF PeerInv, FrameInv, HelloInv, FlowInv, LastWritten, LastRead, Piece, NoFrame,
       HandledInv, GotInv, ExchangeInv, InOrder
<1> QED BY <1>1, <1>2, <1>3 DEF ChannelInv

\* A step of one peer leaves the others as they are.
LEMMA OthersStay ==
    ASSUME ShapeInv, NEW p \in Peers, Listen(p) \/ Serve(p) \/ Speak(p) \/ Leave(p),
           NEW q \in Peers, q # p
    PROVE  /\ transport' = transport /\ authorized' = authorized /\ outcome'[q] = outcome[q]
           /\ conn'[q] = conn[q] /\ server'[q] = server[q] /\ request'[q] = request[q]
           /\ handled'[q] = handled[q] /\ client'[q] = client[q] /\ calls'[q] = calls[q]
           /\ sending'[q] = sending[q] /\ sent'[q] = sent[q] /\ replied'[q] = replied[q]
           /\ up'[q] = up[q] /\ down'[q] = down[q] /\ got'[q] = got[q]
<1> USE DEF ShapeInv, setup, serving, writing, calling
<1>1. CASE Listen(p)
  BY <1>1 DEF Listen, AcceptUnix, AcceptTcp, Authorize, Admit
<1>2. CASE Serve(p)
  <2>1. CASE ReadHeader(p)
    BY <2>1 DEF ReadHeader, Ends
  <2>2. CASE ReadBody(p)
    BY <2>2 DEF ReadBody, Ends
  <2>3. CASE Handle(p)
    BY <2>3 DEF Handle
  <2>4. CASE WriteReply(p)
    BY <2>4 DEF WriteReply, WriteReplyPiece, Ends
  <2> QED BY <1>2, <2>1, <2>2, <2>3, <2>4 DEF Serve
<1>3. CASE Speak(p)
  <2>1. CASE Connect(p)
    BY <2>1 DEF Connect
  <2>2. CASE Greet(p)
    BY <2>2 DEF Greet
  <2>3. CASE Call(p)
    BY <2>3 DEF Call, Begins
  <2>4. CASE Babble(p)
    BY <2>4 DEF Babble, Begins
  <2>5. CASE WritePiece(p)
    BY <2>5 DEF WritePiece
  <2>6. CASE ReadReply(p)
    BY <2>6 DEF ReadReply
  <2> QED BY <1>3, <2>1, <2>2, <2>3, <2>4, <2>5, <2>6 DEF Speak
<1>4. CASE Leave(p)
  BY <1>4 DEF Leave
<1> QED BY <1>1, <1>2, <1>3, <1>4

\* What is known of a peer stays true while nothing of it changes.
LEMMA SamePeer ==
    ASSUME NEW q, PeerInv(q),
           transport' = transport,
           conn'[q] = conn[q] /\ server'[q] = server[q] /\ request'[q] = request[q],
           handled'[q] = handled[q] /\ client'[q] = client[q] /\ calls'[q] = calls[q],
           sending'[q] = sending[q] /\ sent'[q] = sent[q] /\ replied'[q] = replied[q],
           up'[q] = up[q] /\ down'[q] = down[q] /\ got'[q] = got[q]
    PROVE  PeerInv(q)'
<1>1. FrameInv(q)'
  BY DEF PeerInv, FrameInv
<1>2. HelloInv(q)'
  BY DEF PeerInv, HelloInv
<1>3. FlowInv(q)'
  BY DEF PeerInv, FlowInv, Framed, LastWritten, LastRead
<1>4. HandledInv(q)'
  BY DEF PeerInv, HandledInv
<1>5. GotInv(q)'
  BY DEF PeerInv, GotInv
<1>6. q \in Clients => ExchangeInv(q)'
  BY DEF PeerInv, ExchangeInv, Framed
<1> QED BY <1>1, <1>2, <1>3, <1>4, <1>5, <1>6 DEF PeerInv

\* What lies on a channel.
LEMMA PieceIsPiece ==
    ASSUME NEW i \in 1..3, NEW frame \in Frames
    PROVE  Piece(Parts[i], frame) \in Pieces /\ Piece(Parts[i], frame) \in ReplyPieces
<1>1. Piece(Parts[i], frame) \in Pieces /\ i \in DOMAIN Parts
  BY DEF Pieces, Parts
<1>2. Piece(Parts[i], frame).part # "hello"
  BY DEF Piece, Parts
<1> QED BY <1>1, <1>2 DEF ReplyPieces, Hello, Piece

LEMMA PieceFields ==
    ASSUME NEW x \in Pieces
    PROVE  /\ x = Piece(x.part, x.frame)
           /\ \/ x.part = "hello" /\ x.frame = NoFrame
              \/ x.part \in {"half", "head", "body"} /\ x.frame \in Frames
BY DEF Pieces, Piece, Parts, Hello

LEMMA FrameCalls ==
    /\ \A f \in Frames : f.call \in 1..MaxCalls /\ f.len \in Lengths
    /\ \A f \in Frames \cup {NoFrame} : f.call \in 0..MaxCalls /\ f.call \in Nat
    /\ NoFrame \notin Frames
BY BoundsAssumption DEF Frames, NoFrame

\* What a peer's variables are.
LEMMA PeerShape ==
    ASSUME ShapeInv, NEW p \in Peers
    PROVE  /\ request[p] \in Frames \cup {NoFrame} /\ request[p].call \in Nat
           /\ handled[p] \in Seq(Nat) /\ got[p] \in Seq(Nat)
           /\ calls[p] \in Nat /\ calls[p] \in 0..MaxCalls
           /\ sending[p] \in Frames \cup {NoFrame} /\ sending[p].call \in Nat
           /\ sent[p] \in 0..3 /\ replied[p] \in 0..2
           /\ up[p] \in Seq(Pieces) /\ down[p] \in Seq(ReplyPieces)
<1>1. request[p] \in Frames \cup {NoFrame} /\ sending[p] \in Frames \cup {NoFrame}
  BY DEF ShapeInv
<1>2. request[p].call \in Nat /\ sending[p].call \in Nat
  BY <1>1, FrameCalls
<1>3. calls[p] \in 0..MaxCalls /\ calls[p] \in Nat
  BY BoundsAssumption DEF ShapeInv
<1> QED BY <1>1, <1>2, <1>3 DEF ShapeInv

\* How a connection ends is one of the outcomes.
LEMMA EndsShape ==
    ASSUME ShapeInv, NEW p \in Peers,
           \/ UNCHANGED <<conn, outcome>>
           \/ \E how \in {"closed", "too_large", "io", "decode"} : Ends(p, how)
    PROVE  /\ conn' \in [Peers -> {"new", "pending", "visiting", "serving", "ended"}]
           /\ outcome' \in [Peers -> {"none", "closed", "too_large", "io", "decode"}]
<1>1. /\ conn \in [Peers -> {"new", "pending", "visiting", "serving", "ended"}]
      /\ outcome \in [Peers -> {"none", "closed", "too_large", "io", "decode"}]
  BY DEF ShapeInv
<1>2. CASE UNCHANGED <<conn, outcome>>
  BY <1>1, <1>2
<1>3. ASSUME NEW how \in {"closed", "too_large", "io", "decode"}, Ends(p, how)
      PROVE  /\ conn' \in [Peers -> {"new", "pending", "visiting", "serving", "ended"}]
             /\ outcome' \in [Peers -> {"none", "closed", "too_large", "io", "decode"}]
  <2>1. conn' = [conn EXCEPT ![p] = "ended"] /\ outcome' = [outcome EXCEPT ![p] = how]
    BY <1>3 DEF Ends
  <2>2. conn' \in [Peers -> {"new", "pending", "visiting", "serving", "ended"}]
    BY <1>1, <2>1
  <2>3. outcome' \in [Peers -> {"none", "closed", "too_large", "io", "decode"}]
    BY <1>1, <2>1
  <2> QED BY <2>2, <2>3
<1> QED BY <1>2, <1>3

\* The steps of a peer keep the shape of the variables.
LEMMA ListenShape ==
    ASSUME ShapeInv, NEW p \in Peers, Listen(p)
    PROVE  ShapeInv'
<1>1. CASE AcceptUnix(p) \/ AcceptTcp(p)
  BY <1>1 DEF ShapeInv, setup, serving, writing, calling, AcceptUnix, AcceptTcp, Admit
<1>2. CASE Authorize(p)
  <2>1. up' \in [Peers -> Seq(Pieces)]
    <3>1. HasBody(up[p]) => Tail(up[p]) \in Seq(Pieces)
      BY PeerShape DEF HasBody
    <3>2. up' = up \/ (HasBody(up[p]) /\ up' = [up EXCEPT ![p] = Tail(up[p])])
      BY <1>2 DEF Authorize
    <3>3. up \in [Peers -> Seq(Pieces)]
      BY DEF ShapeInv
    <3> QED BY <3>1, <3>2, <3>3
  <2>2. conn' \in [Peers -> {"new", "pending", "visiting", "serving", "ended"}]
    <3>1. \/ conn' = [conn EXCEPT ![p] = "serving"]
          \/ conn' = [conn EXCEPT ![p] = "ended"]
      BY <1>2 DEF Authorize, Admit
    <3>2. conn \in [Peers -> {"new", "pending", "visiting", "serving", "ended"}]
      BY DEF ShapeInv
    <3> QED BY <3>1, <3>2
  <2> QED BY <1>2, <2>1, <2>2 DEF Authorize, ShapeInv, setup, serving, writing, calling
<1> QED BY <1>1, <1>2 DEF Listen

LEMMA ServeShape ==
    ASSUME ShapeInv, NEW p \in Peers, PeerInv(p), Serve(p)
    PROVE  ShapeInv'
<1> DEFINE Conns == conn' \in [Peers -> {"new", "pending", "visiting", "serving", "ended"}]
           Returns == outcome' \in [Peers -> {"none", "closed", "too_large", "io", "decode"}]
           Servers == server' \in [Peers -> {"header", "body", "handle", "reply"}]
<1>1. CASE ReadHeader(p)
  <2>1. Conns /\ Returns /\ Servers
    <3>1. UNCHANGED <<conn, outcome>> \/ Ends(p, "too_large") \/ Ends(p, "closed")
      BY <1>1 DEF ReadHeader
    <3>2. Conns /\ Returns
      BY <3>1, EndsShape
    <3>3. server' = server \/ server' = [server EXCEPT ![p] = "body"]
      BY <1>1 DEF ReadHeader
    <3>4. server \in [Peers -> {"header", "body", "handle", "reply"}]
      BY DEF ShapeInv
    <3> QED BY <3>2, <3>3, <3>4
  <2>2. up' \in [Peers -> Seq(Pieces)] /\ request' \in [Peers -> Frames \cup {NoFrame}]
    <3>1. ASSUME HasHeader(up[p])
          PROVE  Tail(Tail(up[p])) \in Seq(Pieces) /\ up[p][1].frame \in Frames \cup {NoFrame}
      <4>1. up[p] \in Seq(Pieces) /\ Len(up[p]) >= 2
        BY <3>1, PeerShape DEF HasHeader
      <4>2. Tail(up[p]) \in Seq(Pieces) /\ Len(Tail(up[p])) >= 1 /\ up[p][1] \in Pieces
        BY <4>1
      <4> QED BY <4>2, PieceFields
    <3>2. \/ UNCHANGED <<up, request>>
          \/ /\ HasHeader(up[p])
             /\ up' = [up EXCEPT ![p] = Tail(Tail(up[p]))]
             /\ request' = [request EXCEPT ![p] = up[p][1].frame]
      BY <1>1 DEF ReadHeader
    <3>3. up' \in [Peers -> Seq(Pieces)]
      <4>1. up \in [Peers -> Seq(Pieces)]
        BY DEF ShapeInv
      <4> QED BY <3>1, <3>2, <4>1
    <3>4. request' \in [Peers -> Frames \cup {NoFrame}]
      <4>1. request \in [Peers -> Frames \cup {NoFrame}]
        BY DEF ShapeInv
      <4> QED BY <3>1, <3>2, <4>1
    <3> QED BY <3>3, <3>4
  <2> QED BY <1>1, <2>1, <2>2 DEF ReadHeader, ShapeInv, setup, writing, calling
<1>2. CASE ReadBody(p)
  <2>1. Conns /\ Returns /\ Servers
    <3>1. UNCHANGED <<conn, outcome>> \/ Ends(p, "decode") \/ Ends(p, "io")
      BY <1>2 DEF ReadBody
    <3>2. Conns /\ Returns
      BY <3>1, EndsShape
    <3>3. server' = server \/ server' = [server EXCEPT ![p] = "handle"]
      BY <1>2 DEF ReadBody
    <3>4. server \in [Peers -> {"header", "body", "handle", "reply"}]
      BY DEF ShapeInv
    <3> QED BY <3>2, <3>3, <3>4
  <2>2. up' \in [Peers -> Seq(Pieces)]
    <3>1. HasBody(up[p]) => Tail(up[p]) \in Seq(Pieces)
      BY PeerShape DEF HasBody
    <3>2. up' = up \/ (HasBody(up[p]) /\ up' = [up EXCEPT ![p] = Tail(up[p])])
      BY <1>2 DEF ReadBody
    <3>3. up \in [Peers -> Seq(Pieces)]
      BY DEF ShapeInv
    <3> QED BY <3>1, <3>2, <3>3
  <2> QED BY <1>2, <2>1, <2>2 DEF ReadBody, ShapeInv, setup, writing, calling
<1>3. CASE Handle(p)
  <2>1. Append(handled[p], request[p].call) \in Seq(Nat)
    BY PeerShape
  <2>2. handled' \in [Peers -> Seq(Nat)] /\ Servers
    BY <1>3, <2>1 DEF Handle, ShapeInv
  <2> QED BY <1>3, <2>2 DEF Handle, ShapeInv, setup, writing, calling
<1>4. CASE WriteReply(p)
  <2>1. Conns /\ Returns
    <3>1. UNCHANGED <<conn, outcome>> \/ Ends(p, "too_large") \/ Ends(p, "io")
      BY <1>4 DEF WriteReply
    <3> QED BY <3>1, EndsShape
  <2>2. Servers /\ replied' \in [Peers -> 0..2] /\ down' \in [Peers -> Seq(ReplyPieces)]
    <3>1. request[p] \in Frames
      BY <1>4 DEF WriteReply, Serves, PeerInv, FrameInv
    <3>2. replied[p] + 1 \in 1..3 /\ (replied[p] + 1) % 3 \in 0..2
      <4>1. replied[p] = 0 \/ replied[p] = 1 \/ replied[p] = 2
        BY PeerShape
      <4> QED BY <4>1
    <3>3. Append(down[p], Piece(Parts[replied[p] + 1], request[p])) \in Seq(ReplyPieces)
      BY <3>1, <3>2, PieceIsPiece, PeerShape
    <3>4. \/ UNCHANGED <<server, replied, down>>
          \/ /\ server' = [server EXCEPT ![p] = IF replied[p] = 2 THEN "header" ELSE "reply"]
             /\ replied' = [replied EXCEPT ![p] = (replied[p] + 1) % 3]
             /\ down' = [down EXCEPT ![p] =
                            Append(down[p], Piece(Parts[replied[p] + 1], request[p]))]
      BY <1>4 DEF WriteReply, WriteReplyPiece
    <3>5. Servers
      BY <3>4 DEF ShapeInv
    <3>6. replied' \in [Peers -> 0..2]
      <4>1. replied \in [Peers -> 0..2]
        BY DEF ShapeInv
      <4> QED BY <3>2, <3>4, <4>1
    <3>7. down' \in [Peers -> Seq(ReplyPieces)]
      <4>1. down \in [Peers -> Seq(ReplyPieces)]
        BY DEF ShapeInv
      <4> QED BY <3>3, <3>4, <4>1
    <3> QED BY <3>5, <3>6, <3>7
  <2> QED BY <1>4, <2>1, <2>2 DEF WriteReply, ShapeInv, setup, writing, calling
<1> QED BY <1>1, <1>2, <1>3, <1>4 DEF Serve

\* A peer that moves is where a peer can be.
LEMMA ClientShape ==
    ASSUME ShapeInv, NEW p \in Peers, NEW to \in PeerStates, client' = [client EXCEPT ![p] = to]
    PROVE  client' \in [Peers -> PeerStates]
<1>1. client \in [Peers -> PeerStates]
  BY DEF ShapeInv
<1> QED BY <1>1

LEMMA SpeakShape ==
    ASSUME ShapeInv, NEW p \in Peers, PeerInv(p), Speak(p) \/ Leave(p)
    PROVE  ShapeInv'
<1>1. CASE Connect(p) \/ Leave(p)
  BY <1>1 DEF Connect, Leave, ShapeInv, PeerStates, setup, serving, writing
<1>2. CASE Greet(p)
  <2>1. <<Hello>> \in Seq(Pieces)
    BY DEF Pieces
  <2>2. up' \in [Peers -> Seq(Pieces)]
    <3>1. up' = up \/ up' = [up EXCEPT ![p] = <<Hello>>]
      BY <1>2 DEF Greet
    <3>2. up \in [Peers -> Seq(Pieces)]
      BY DEF ShapeInv
    <3> QED BY <2>1, <3>1, <3>2
  <2>3. client' \in [Peers -> PeerStates]
    <3>1. \E to \in {"greeted", "ready", "failed"} : client' = [client EXCEPT ![p] = to]
      BY <1>2 DEF Greet
    <3> QED BY <3>1, ClientShape DEF PeerStates
  <2> QED BY <1>2, <2>2, <2>3 DEF Greet, ShapeInv, setup, serving, writing
<1>3. CASE Call(p) \/ Babble(p)
  <2>1. calls[p] + 1 \in 1..MaxCalls
    BY <1>3, BoundsAssumption, PeerShape DEF Call, Babble
  <2>2. \A len \in Lengths, decodes \in BOOLEAN :
            [call |-> calls[p] + 1, len |-> len, decodes |-> decodes] \in Frames
    BY <2>1 DEF Frames
  <2>3. calls' \in [Peers -> 0..MaxCalls] /\ client' \in [Peers -> PeerStates]
        /\ sending' \in [Peers -> Frames \cup {NoFrame}] /\ sent' \in [Peers -> 0..3]
    <3>1. calls' = [calls EXCEPT ![p] = calls[p] + 1] /\ calls[p] + 1 \in 0..MaxCalls
      BY <1>3, <2>1, BoundsAssumption DEF Call, Babble
    <3>2. calls' \in [Peers -> 0..MaxCalls]
      BY <3>1 DEF ShapeInv
    <3>3. \/ UNCHANGED <<client, sending, sent>>
          \/ \E frame \in Frames : Begins(p, frame)
      BY <1>3, <2>2 DEF Call, Babble
    <3>4. client' \in [Peers -> PeerStates]
      <4>1. client \in [Peers -> PeerStates] /\ "writing" \in PeerStates
        BY DEF ShapeInv, PeerStates
      <4> QED BY <3>3, <4>1 DEF Begins
    <3>5. sending' \in [Peers -> Frames \cup {NoFrame}]
      <4>1. sending \in [Peers -> Frames \cup {NoFrame}]
        BY DEF ShapeInv
      <4> QED BY <3>3, <4>1 DEF Begins
    <3>6. sent' \in [Peers -> 0..3]
      <4>1. sent \in [Peers -> 0..3] /\ 0 \in 0..3
        BY DEF ShapeInv
      <4> QED BY <3>3, <4>1 DEF Begins
    <3> QED BY <3>2, <3>4, <3>5, <3>6
  <2> QED BY <1>3, <2>3 DEF Call, Babble, ShapeInv, setup, serving
<1>4. CASE WritePiece(p)
  <2>1. sending[p] \in Frames /\ sent[p] <= 2
    BY <1>4 DEF WritePiece, PeerInv, FrameInv
  <2>2. sent[p] + 1 \in 1..3
    BY <2>1, PeerShape
  <2>3. Append(up[p], Piece(Parts[sent[p] + 1], sending[p])) \in Seq(Pieces)
    BY <2>1, <2>2, PieceIsPiece, PeerShape
  <2>4. up' \in [Peers -> Seq(Pieces)] /\ sent' \in [Peers -> 0..3]
    <3>1. \/ UNCHANGED <<up, sent>>
          \/ /\ up' = [up EXCEPT ![p] = Append(up[p], Piece(Parts[sent[p] + 1], sending[p]))]
             /\ sent' = [sent EXCEPT ![p] = sent[p] + 1]
      BY <1>4 DEF WritePiece
    <3>2. sent[p] + 1 \in 0..3
      BY <2>2
    <3>3. up' \in [Peers -> Seq(Pieces)]
      <4>1. up \in [Peers -> Seq(Pieces)]
        BY DEF ShapeInv
      <4> QED BY <2>3, <3>1, <4>1
    <3>4. sent' \in [Peers -> 0..3]
      <4>1. sent \in [Peers -> 0..3]
        BY DEF ShapeInv
      <4> QED BY <3>1, <3>2, <4>1
    <3> QED BY <3>3, <3>4
  <2>5. client' \in [Peers -> PeerStates]
    <3>1. \E to \in {"writing", "waiting", "ready", "failed"} :
              client' = [client EXCEPT ![p] = to]
      BY <1>4 DEF WritePiece
    <3> QED BY <3>1, ClientShape DEF PeerStates
  <2> QED BY <1>4, <2>4, <2>5 DEF WritePiece, ShapeInv, setup, serving
<1>5. CASE ReadReply(p)
  <2>1. client' \in [Peers -> PeerStates]
    <3>1. \E to \in {"ready", "failed"} : client' = [client EXCEPT ![p] = to]
      BY <1>5 DEF ReadReply
    <3> QED BY <3>1, ClientShape DEF PeerStates
  <2>2. down' \in [Peers -> Seq(ReplyPieces)] /\ got' \in [Peers -> Seq(Nat)]
    <3>1. ASSUME Len(down[p]) >= 3
          PROVE  /\ SubSeq(down[p], 4, Len(down[p])) \in Seq(ReplyPieces)
                 /\ Append(got[p], down[p][1].frame.call) \in Seq(Nat)
      <4>1. down[p] \in Seq(ReplyPieces) /\ down[p][1] \in ReplyPieces
        BY <3>1, PeerShape
      <4>2. down[p][1].frame \in Frames \cup {NoFrame}
        BY <4>1, PieceFields DEF ReplyPieces
      <4>3. down[p][1].frame.call \in Nat
        BY <4>2, FrameCalls
      <4>4. Append(got[p], down[p][1].frame.call) \in Seq(Nat)
        BY <4>3, PeerShape
      <4>5. SubSeq(down[p], 4, Len(down[p])) \in Seq(ReplyPieces)
        BY <4>1
      <4> QED BY <4>4, <4>5
    <3>2. \/ UNCHANGED <<down, got>>
          \/ /\ Len(down[p]) >= 3
             /\ down' = [down EXCEPT ![p] = SubSeq(down[p], 4, Len(down[p]))]
             /\ got' = [got EXCEPT ![p] = Append(got[p], down[p][1].frame.call)]
      BY <1>5 DEF ReadReply
    <3>3. down' \in [Peers -> Seq(ReplyPieces)]
      <4>1. down \in [Peers -> Seq(ReplyPieces)]
        BY DEF ShapeInv
      <4> QED BY <3>1, <3>2, <4>1
    <3>4. got' \in [Peers -> Seq(Nat)]
      <4>1. got \in [Peers -> Seq(Nat)]
        BY DEF ShapeInv
      <4> QED BY <3>1, <3>2, <4>1
    <3> QED BY <3>3, <3>4
  <2> QED BY <1>5, <2>1, <2>2 DEF ReadReply, ShapeInv, setup, serving, writing
<1> QED BY <1>1, <1>2, <1>3, <1>4, <1>5 DEF Speak

\* The connection ends: what was carried out and replied stays.
LEMMA EndedPeer ==
    ASSUME NEW p, PeerInv(p), transport' = transport, conn'[p] = "ended",
           server'[p] = server[p],
           request'[p] = request[p] \/ server[p] = "header",
           up'[p] = up[p] \/ client[p] \notin {"idle", "greeting"},
           handled'[p] = handled[p] /\ client'[p] = client[p] /\ calls'[p] = calls[p],
           sending'[p] = sending[p] /\ sent'[p] = sent[p] /\ replied'[p] = replied[p],
           down'[p] = down[p] /\ got'[p] = got[p]
    PROVE  PeerInv(p)'
<1>1. FrameInv(p)'
  BY DEF PeerInv, FrameInv
<1>2. HelloInv(p)'
  BY DEF PeerInv, HelloInv
<1>3. FlowInv(p)' /\ ~Framed(p)'
  BY DEF FlowInv, Framed
<1>4. HandledInv(p)'
  BY DEF PeerInv, HandledInv
<1>5. GotInv(p)'
  BY DEF PeerInv, GotInv
<1>6. p \in Clients => ExchangeInv(p)'
  BY <1>3 DEF PeerInv, ExchangeInv
<1> QED BY <1>1, <1>2, <1>3, <1>4, <1>5, <1>6 DEF PeerInv

\* The peer goes away, or gives up.
LEMMA GonePeer ==
    ASSUME NEW p, PeerInv(p), transport' = transport, client'[p] \in {"gone", "failed"},
           client[p] # "idle", client'[p] = "failed" => conn[p] = "ended",
           conn'[p] = conn[p] /\ server'[p] = server[p] /\ request'[p] = request[p],
           handled'[p] = handled[p] /\ calls'[p] = calls[p],
           sending'[p] = sending[p] /\ sent'[p] = sent[p] /\ replied'[p] = replied[p],
           up'[p] = up[p] /\ down'[p] = down[p] /\ got'[p] = got[p]
    PROVE  PeerInv(p)'
<1>1. FrameInv(p)'
  BY DEF PeerInv, FrameInv
<1>2. HelloInv(p)'
  BY DEF PeerInv, HelloInv
<1>3. FlowInv(p)'
  BY DEF PeerInv, FlowInv, Framed, LastWritten, LastRead
<1>4. HandledInv(p)'
  BY DEF PeerInv, HandledInv
<1>5. GotInv(p)'
  BY DEF PeerInv, GotInv
<1>6. p \in Clients => ExchangeInv(p)'
  BY DEF PeerInv, ExchangeInv
<1> QED BY <1>1, <1>2, <1>3, <1>4, <1>5, <1>6 DEF PeerInv

\* The accept loop's steps.
LEMMA ListenStep ==
    ASSUME ShapeInv, NEW p \in Peers, PeerInv(p), Listen(p)
    PROVE  PeerInv(p)'
<1>1. /\ transport' = transport /\ server'[p] = server[p] /\ request'[p] = request[p]
      /\ handled'[p] = handled[p] /\ client'[p] = client[p] /\ calls'[p] = calls[p]
      /\ sending'[p] = sending[p] /\ sent'[p] = sent[p] /\ replied'[p] = replied[p]
      /\ down'[p] = down[p] /\ got'[p] = got[p]
  BY DEF Listen, AcceptUnix, AcceptTcp, Authorize, setup, serving, writing, calling
<1>2. CASE AcceptUnix(p)
  <2>1. /\ transport = "unix" /\ conn[p] = "pending" /\ up'[p] = up[p]
        /\ conn'[p] = "ended" \/ conn'[p] = "serving"
    BY <1>2 DEF AcceptUnix, Admit, ShapeInv
  <2>2. CASE conn'[p] = "ended"
    BY <1>1, <2>1, <2>2, EndedPeer
  <2>3. CASE conn'[p] = "serving"
    <3>1. Framed(p) /\ Framed(p)'
      BY <2>1, <2>3 DEF Framed
    <3>2. FrameInv(p)' /\ HelloInv(p)'
      BY <1>1, <2>1, <2>3 DEF PeerInv, FrameInv, HelloInv
    <3>3. FlowInv(p)'
      BY <1>1, <2>1, <3>1 DEF PeerInv, FlowInv, LastWritten, LastRead
    <3>4. HandledInv(p)'
      BY <1>1, <2>1 DEF PeerInv, HandledInv
    <3>5. GotInv(p)'
      BY <1>1 DEF PeerInv, GotInv
    <3>6. p \in Clients => ExchangeInv(p)'
      BY <1>1, <2>1, <3>1 DEF PeerInv, ExchangeInv
    <3> QED BY <3>2, <3>3, <3>4, <3>5, <3>6 DEF PeerInv
  <2> QED BY <2>1, <2>2, <2>3
<1>3. CASE AcceptTcp(p)
  <2>1. /\ transport = "tcp" /\ conn[p] = "pending" /\ up'[p] = up[p] /\ conn'[p] = "visiting"
    BY <1>3 DEF AcceptTcp, ShapeInv
  <2>2. ~Framed(p) /\ ~Framed(p)'
    BY <1>1, <2>1 DEF Framed
  <2>3. FrameInv(p)' /\ HelloInv(p)'
    BY <1>1, <2>1 DEF PeerInv, FrameInv, HelloInv
  <2>4. FlowInv(p)'
    BY <2>2 DEF FlowInv
  <2>5. HandledInv(p)'
    BY <1>1, <2>1 DEF PeerInv, HandledInv
  <2>6. GotInv(p)'
    BY <1>1 DEF PeerInv, GotInv
  <2>7. p \in Clients => ExchangeInv(p)'
    BY <1>1, <2>2 DEF PeerInv, ExchangeInv
  <2> QED BY <2>3, <2>4, <2>5, <2>6, <2>7 DEF PeerInv
<1>4. CASE Authorize(p)
  <2>1. conn[p] = "visiting" /\ conn'[p] \in {"ended", "serving"}
    BY <1>4 DEF Authorize, Admit, ShapeInv
  <2>2. transport = "tcp" /\ client[p] \in {"greeting", "greeted", "gone"}
        /\ up[p] \in {<<>>, <<Hello>>}
    BY <2>1 DEF PeerInv, HelloInv
  <2>3. CASE conn'[p] = "ended"
    <3>1. up'[p] = up[p] \/ client[p] # "greeting"
      <4>1. client[p] = "greeting" => up[p] = <<>>
        BY DEF PeerInv, HelloInv
      <4> QED BY <1>4, <4>1 DEF Authorize, HasBody, ShapeInv
    <3> QED BY <1>1, <2>2, <2>3, <3>1, EndedPeer
  <2>4. CASE conn'[p] = "serving"
    <3>1. up'[p] = <<>> /\ up[p] = <<Hello>>
      <4>1. HasBody(up[p]) /\ up'[p] = Tail(up[p])
        BY <1>4, <2>4 DEF Authorize, ShapeInv
      <4>2. up[p] = <<Hello>>
        BY <2>2, <4>1 DEF HasBody
      <4>3. Tail(<<Hello>>) = <<>>
        OBVIOUS
      <4> QED BY <4>1, <4>2, <4>3
    <3>2. client[p] # "greeting" /\ (client[p] = "greeted" => calls[p] = 0)
      BY <3>1 DEF PeerInv, HelloInv
    <3>3. FrameInv(p)' /\ HelloInv(p)'
      BY <1>1, <2>2, <2>4, <3>1, <3>2 DEF PeerInv, FrameInv, HelloInv
    <3>4. server[p] = "header" /\ request[p] = NoFrame /\ replied[p] = 0 /\ down[p] = <<>>
      BY <2>1 DEF PeerInv, HelloInv
    <3>5. FlowInv(p)'
      BY <1>1, <2>2, <3>1, <3>2, <3>4 DEF FlowInv, LastWritten, LastRead, Piece, NoFrame
    <3>6. HandledInv(p)'
      BY <1>1, <2>1 DEF PeerInv, HandledInv
    <3>7. GotInv(p)'
      BY <1>1 DEF PeerInv, GotInv
    <3>8. p \in Clients => ExchangeInv(p)'
      BY <1>1, <2>2, <3>1, <3>4 DEF PeerInv, ExchangeInv
    <3> QED BY <3>3, <3>5, <3>6, <3>7, <3>8 DEF PeerInv
  <2> QED BY <2>1, <2>3, <2>4
<1> QED BY <1>2, <1>3, <1>4 DEF Listen

\* What is left of the pieces when one, or two, are read.
LEMMA TailOfPieces ==
    ASSUME NEW S, NEW s \in Seq(S), Len(s) >= 1
    PROVE  /\ s[1] \in S /\ Tail(s) \in Seq(S) /\ Len(Tail(s)) = Len(s) - 1
           /\ \A i \in 1 .. Len(s) - 1 : Tail(s)[i] = s[i + 1]
           /\ s # <<>> /\ (Tail(s) = <<>> <=> Len(s) = 1)
           /\ Len(s) > 1 => Tail(s)[Len(Tail(s))] = s[Len(s)]
<1>1. s # <<>> /\ s[1] \in S /\ Tail(s) \in Seq(S) /\ Len(Tail(s)) = Len(s) - 1
  OBVIOUS
<1>2. \A i \in 1 .. Len(s) - 1 : Tail(s)[i] = s[i + 1]
  OBVIOUS
<1>3. Tail(s) = <<>> <=> Len(s) = 1
  <2>1. Tail(s) = <<>> <=> Len(Tail(s)) = 0
    BY <1>1, EmptySeq
  <2> QED BY <1>1, <2>1
<1>4. ASSUME Len(s) > 1 PROVE Tail(s)[Len(Tail(s))] = s[Len(s)]
  <2>1. Len(s) - 1 \in 1 .. Len(s) - 1 /\ (Len(s) - 1) + 1 = Len(s)
    BY <1>4
  <2> QED BY <1>1, <1>2, <2>1
<1> QED BY <1>1, <1>2, <1>3, <1>4

LEMMA RestOfPieces ==
    ASSUME NEW S, NEW s \in Seq(S), Len(s) >= 2
    PROVE  /\ Tail(Tail(s)) \in Seq(S) /\ Len(Tail(Tail(s))) = Len(s) - 2
           /\ \A i \in 1 .. Len(s) - 2 : Tail(Tail(s))[i] = s[i + 2]
           /\ Tail(Tail(s)) = <<>> <=> Len(s) = 2
           /\ Len(s) = 2 \/ (Len(s) > 2 /\ Tail(Tail(s))[Len(Tail(Tail(s)))] = s[Len(s)])
<1> DEFINE t == Tail(s)
<1>1. /\ t \in Seq(S) /\ Len(t) = Len(s) - 1 /\ Len(t) >= 1 /\ Len(s) \in Nat
      /\ \A i \in 1 .. Len(s) - 1 : t[i] = s[i + 1]
      /\ Len(s) > 1 => t[Len(t)] = s[Len(s)]
  BY TailOfPieces
<1> HIDE DEF t
<1>2. /\ Tail(t) \in Seq(S) /\ Len(Tail(t)) = Len(t) - 1
      /\ \A i \in 1 .. Len(t) - 1 : Tail(t)[i] = t[i + 1]
      /\ Tail(t) = <<>> <=> Len(t) = 1
      /\ Len(t) > 1 => Tail(t)[Len(Tail(t))] = t[Len(t)]
  BY <1>1, TailOfPieces
<1>3. ASSUME NEW i \in 1 .. Len(s) - 2 PROVE Tail(t)[i] = s[i + 2]
  <2>1. i \in 1 .. Len(t) - 1 /\ i + 1 \in 1 .. Len(s) - 1 /\ (i + 1) + 1 = i + 2
    BY <1>1
  <2>2. Tail(t)[i] = t[i + 1] /\ t[i + 1] = s[(i + 1) + 1]
    BY <1>1, <1>2, <2>1
  <2> QED BY <2>1, <2>2
<1>4. /\ Len(Tail(t)) = Len(s) - 2 /\ (Tail(t) = <<>> <=> Len(s) = 2)
      /\ Len(s) = 2 \/ Len(s) > 2
  BY <1>1, <1>2
<1>5. Len(s) > 2 => Tail(t)[Len(Tail(t))] = s[Len(s)]
  BY <1>1, <1>2
<1> QED BY <1>2, <1>3, <1>4, <1>5 DEF t

\* The server's steps.
LEMMA ReadHeaderStep ==
    ASSUME ShapeInv, NEW p \in Peers, PeerInv(p), ReadHeader(p)
    PROVE  PeerInv(p)'
<1> DEFINE U == up[p]
           f == up[p][1].frame
<1>1. /\ transport' = transport /\ handled'[p] = handled[p] /\ client'[p] = client[p]
      /\ calls'[p] = calls[p] /\ sending'[p] = sending[p] /\ sent'[p] = sent[p]
      /\ replied'[p] = replied[p] /\ down'[p] = down[p] /\ got'[p] = got[p]
      /\ conn[p] = "serving" /\ server[p] = "header"
  BY DEF ReadHeader, Serves, setup, writing, calling
<1>2. Framed(p) /\ client[p] \notin {"idle", "greeting"}
  BY <1>1 DEF Framed, PeerInv, HelloInv
<1>3. CASE conn'[p] = "ended"
  <2>1. server'[p] = server[p]
    BY <1>1, <1>3 DEF ReadHeader, ShapeInv
  <2> QED BY <1>1, <1>2, <1>3, <2>1, EndedPeer
<1>4. CASE conn'[p] # "ended"
  <2>1. /\ HasHeader(U) /\ up'[p] = Tail(Tail(U)) /\ request'[p] = f
        /\ server'[p] = "body" /\ conn'[p] = conn[p]
    BY <1>4 DEF ReadHeader, Ends, ShapeInv
  <2>2. U \in Seq(Pieces) /\ Len(U) >= 2 /\ Len(U) \in Nat
    BY <2>1, PeerShape DEF HasHeader
  <2> DEFINE V == Tail(Tail(U))
  <2>3. /\ V \in Seq(Pieces) /\ Len(V) = Len(U) - 2
        /\ \A i \in 1 .. Len(U) - 2 : V[i] = U[i + 2]
        /\ V = <<>> <=> Len(U) = 2
        /\ Len(U) = 2 \/ (Len(U) > 2 /\ V[Len(V)] = U[Len(U)])
    <3> HIDE DEF U
    <3> QED BY <2>2, RestOfPieces
  <2>4. /\ U # <<>> /\ U[1] \in Pieces
        /\ Follows(LastRead(p), U[1]) /\ Follows(U[1], U[2])
        /\ \A i \in 1 .. Len(U) - 1 : Follows(U[i], U[i + 1])
    <3>1. /\ U # <<>> => Follows(LastRead(p), U[1])
          /\ \A i \in 1 .. Len(U) - 1 : Follows(U[i], U[i + 1])
      BY <1>2 DEF PeerInv, FlowInv
    <3> HIDE DEF U
    <3>2. U # <<>> /\ U[1] \in Pieces /\ 1 \in 1 .. Len(U) - 1 /\ 1 + 1 = 2
      BY <2>2
    <3>3. Follows(U[1], U[2])
      BY <3>1, <3>2
    <3> QED BY <3>1, <3>2, <3>3
  <2>5. /\ U[1].part = "half" /\ f \in Frames /\ f.call > request[p].call
        /\ U[2] = Piece("head", f)
    <3>1. U[1].part = "half" /\ f.call > request[p].call
      BY <1>1, <2>4 DEF Follows, LastRead, Piece
    <3>2. f \in Frames
      BY <2>4, <3>1, PieceFields
    <3> QED BY <2>4, <3>1, <3>2 DEF Follows
  <2>6. LastRead(p)' = U[2]
    BY <2>1, <2>5 DEF LastRead
  <2>7. LastWritten(p)' = LastWritten(p) /\ LastWritten(p) = U[Len(U)]
    <3>1. LastWritten(p) = U[Len(U)]
      BY <2>4 DEF LastWritten
    <3>2. CASE Len(U) = 2
      <4>1. V = <<>>
        BY <2>3, <3>2
      <4> QED BY <2>1, <2>6, <3>1, <3>2, <4>1 DEF LastWritten
    <3>3. CASE Len(U) > 2
      <4>1. V # <<>> /\ V[Len(V)] = U[Len(U)]
        <5> HIDE DEF U, V
        <5> QED BY <2>2, <2>3, <3>3
      <4>2. LastWritten(p)' = V[Len(V)]
        BY <2>1, <4>1 DEF LastWritten
      <4> QED BY <3>1, <4>1, <4>2
    <3> QED BY <2>3, <3>2, <3>3
  <2> HIDE DEF f
  <2>8. FrameInv(p)' /\ HelloInv(p)'
    BY <1>1, <1>2, <2>1, <2>5 DEF PeerInv, FrameInv, HelloInv
  <2>9. FlowInv(p)'
    <3>1. V # <<>> => Follows(LastRead(p)', V[1])
      <4> SUFFICES ASSUME V # <<>> PROVE Follows(LastRead(p)', V[1])
        OBVIOUS
      <4>1. Len(U) >= 3 /\ 1 \in 1 .. Len(U) - 2 /\ 2 \in 1 .. Len(U) - 1
        BY <2>2, <2>3
      <4>2. V[1] = U[3] /\ Follows(U[2], U[3])
        <5>1. \A i \in 1 .. Len(U) - 2 : V[i] = U[i + 2]
          BY <2>3
        <5>2. \A i \in 1 .. Len(U) - 1 : Follows(U[i], U[i + 1])
          BY <2>4
        <5> HIDE DEF U, V
        <5>3. V[1] = U[1 + 2] /\ Follows(U[2], U[2 + 1])
          BY <4>1, <5>1, <5>2
        <5> QED BY <5>3
      <4> QED BY <2>6, <4>2
    <3>2. ASSUME NEW i \in 1 .. Len(V) - 1 PROVE Follows(V[i], V[i + 1])
      <4>1. Len(V) = Len(U) - 2 /\ Len(U) \in Nat
        BY <2>2, <2>3
      <4>2. /\ i \in 1 .. Len(U) - 2 /\ i + 1 \in 1 .. Len(U) - 2 /\ i + 2 \in 1 .. Len(U) - 1
            /\ (i + 1) + 2 = (i + 2) + 1
        <5> HIDE DEF U, V
        <5> QED BY <4>1
      <4>3. V[i] = U[i + 2] /\ V[i + 1] = U[(i + 1) + 2]
        BY <2>3, <4>2
      <4> HIDE DEF U, V
      <4> QED BY <2>4, <4>2, <4>3
    <3>3. /\ client[p] = "writing" => Follows(LastWritten(p), Piece(Parts[sent[p] + 1], sending[p]))
          /\ client[p] \in {"idle", "greeted", "ready", "waiting"} =>
                LastWritten(p).part = "body" /\ LastWritten(p).frame.call <= calls[p]
      BY <1>2 DEF PeerInv, FlowInv
    <3> HIDE DEF V
    <3> QED BY <1>1, <2>1, <2>7, <3>1, <3>2, <3>3 DEF FlowInv, V
  <2>10. HandledInv(p)'
    <3>1. \A i \in DOMAIN handled[p] : handled[p][i] <= request[p].call
      BY <1>1 DEF PeerInv, HandledInv
    <3>2. /\ request[p].call \in Nat /\ f.call \in Nat
          /\ \A i \in DOMAIN handled[p] : handled[p][i] \in Nat
      BY <2>5, FrameCalls, PeerShape
    <3>3. \A i \in DOMAIN handled[p] : handled[p][i] < f.call
      BY <2>5, <3>1, <3>2
    <3> QED BY <1>1, <2>1, <3>3 DEF PeerInv, HandledInv, f
  <2>11. GotInv(p)'
    BY <1>1 DEF PeerInv, GotInv
  <2>12. ASSUME p \in Clients PROVE ExchangeInv(p)'
    <3>1. ExchangeInv(p)
      BY <2>12 DEF PeerInv
    <3>2. client[p] \notin {"greeted", "ready"}
      BY <1>2, <2>4, <3>1 DEF ExchangeInv
    <3>3. client[p] = "writing" => /\ Len(U) = 2 /\ sent[p] = 2 /\ V = <<>> /\ f = sending[p]
                                   /\ replied[p] = 0 /\ down[p] = <<>>
      <4> SUFFICES ASSUME client[p] = "writing"
                   PROVE  /\ Len(U) = 2 /\ sent[p] = 2 /\ V = <<>> /\ f = sending[p]
                          /\ replied[p] = 0 /\ down[p] = <<>>
        OBVIOUS
      <4>1. /\ Len(U) = sent[p] /\ replied[p] = 0 /\ down[p] = <<>>
            /\ \A i \in DOMAIN U : U[i].frame = sending[p]
        BY <1>1, <1>2, <3>1 DEF ExchangeInv
      <4>2. sent[p] \in 0..3 /\ sent[p] <= 2
        BY PeerShape DEF PeerInv, FrameInv
      <4>3. 1 \in DOMAIN U
        BY <2>2
      <4> QED BY <2>2, <2>3, <4>1, <4>2, <4>3 DEF f
    <3>4. client[p] = "waiting" => /\ Len(U) = 3 /\ Len(V) = 1 /\ f = sending[p]
                                   /\ replied[p] = 0 /\ down[p] = <<>>
                                   /\ \A i \in DOMAIN V : V[i].frame = sending[p]
      <4> SUFFICES ASSUME client[p] = "waiting"
                   PROVE  /\ Len(U) = 3 /\ Len(V) = 1 /\ f = sending[p]
                          /\ replied[p] = 0 /\ down[p] = <<>>
                          /\ \A i \in DOMAIN V : V[i].frame = sending[p]
        OBVIOUS
      <4>1. /\ Len(U) = 3 /\ replied[p] = 0 /\ down[p] = <<>>
            /\ \A i \in DOMAIN U : U[i].frame = sending[p]
        BY <1>1, <1>2, <2>4, <3>1 DEF ExchangeInv
      <4>2. 1 \in DOMAIN U /\ 3 \in DOMAIN U
        BY <2>2, <4>1
      <4>3. Len(V) = 1 /\ V[1] = U[3] /\ DOMAIN V = 1 .. 1
        <5> HIDE DEF U, V
        <5> QED BY <2>3, <4>1
      <4> QED BY <4>1, <4>2, <4>3 DEF f
    <3> HIDE DEF V
    <3> QED BY <1>1, <1>2, <2>1, <3>1, <3>2, <3>3, <3>4 DEF ExchangeInv, V, f
  <2> QED BY <2>8, <2>9, <2>10, <2>11, <2>12 DEF PeerInv
<1> QED BY <1>3, <1>4

LEMMA ReadBodyStep ==
    ASSUME ShapeInv, NEW p \in Peers, PeerInv(p), ReadBody(p)
    PROVE  PeerInv(p)'
<1> DEFINE U == up[p]
           V == Tail(U)
<1>1. /\ transport' = transport /\ handled'[p] = handled[p] /\ client'[p] = client[p]
      /\ calls'[p] = calls[p] /\ sending'[p] = sending[p] /\ sent'[p] = sent[p]
      /\ replied'[p] = replied[p] /\ down'[p] = down[p] /\ got'[p] = got[p]
      /\ request'[p] = request[p] /\ conn[p] = "serving" /\ server[p] = "body"
  BY DEF ReadBody, Serves, setup, writing, calling
<1>2. Framed(p) /\ client[p] \notin {"idle", "greeting"}
  BY <1>1 DEF Framed, PeerInv, HelloInv
<1>3. CASE conn'[p] = "ended"
  <2>1. server'[p] = server[p]
    BY <1>1, <1>3 DEF ReadBody, ShapeInv
  <2> QED BY <1>1, <1>2, <1>3, <2>1, EndedPeer
<1>4. CASE conn'[p] # "ended"
  <2>1. /\ HasBody(U) /\ up'[p] = V /\ server'[p] = "handle" /\ conn'[p] = conn[p]
    BY <1>4 DEF ReadBody, Ends, ShapeInv
  <2>2. U \in Seq(Pieces) /\ Len(U) >= 1 /\ Len(U) \in Nat
    BY <2>1, PeerShape DEF HasBody
  <2>3. /\ Len(V) = Len(U) - 1 /\ U # <<>>
        /\ \A i \in 1 .. Len(U) - 1 : V[i] = U[i + 1]
        /\ V = <<>> <=> Len(U) = 1
        /\ Len(U) > 1 => V[Len(V)] = U[Len(U)]
    <3> HIDE DEF U
    <3> QED BY <2>2, TailOfPieces
  <2>4. /\ Follows(LastRead(p), U[1])
        /\ \A i \in 1 .. Len(U) - 1 : Follows(U[i], U[i + 1])
    BY <1>2, <2>3 DEF PeerInv, FlowInv
  <2>5. U[1] = Piece("body", request[p]) /\ LastRead(p)' = U[1]
    BY <1>1, <2>1, <2>4 DEF LastRead, Follows, Piece
  <2>6. LastWritten(p)' = LastWritten(p)
    <3>1. LastWritten(p) = U[Len(U)]
      BY <2>3 DEF LastWritten
    <3>2. CASE V = <<>>
      BY <2>1, <2>3, <2>5, <3>1, <3>2 DEF LastWritten
    <3>3. CASE V # <<>>
      <4>1. V[Len(V)] = U[Len(U)]
        <5> HIDE DEF U, V
        <5> QED BY <2>2, <2>3, <3>3
      <4>2. LastWritten(p)' = V[Len(V)]
        BY <2>1, <3>3 DEF LastWritten
      <4> QED BY <3>1, <4>1, <4>2
    <3> QED BY <3>2, <3>3
  <2>7. FrameInv(p)' /\ HelloInv(p)'
    BY <1>1, <1>2, <2>1 DEF PeerInv, FrameInv, HelloInv
  <2>8. FlowInv(p)'
    <3>1. V # <<>> => Follows(LastRead(p)', V[1])
      <4> HIDE DEF U, V
      <4> SUFFICES ASSUME V # <<>> PROVE Follows(U[1], V[1])
        BY <2>5
      <4>1. 1 \in 1 .. Len(U) - 1 /\ 1 + 1 = 2
        BY <2>2, <2>3
      <4> QED BY <2>3, <2>4, <4>1
    <3>2. ASSUME NEW i \in 1 .. Len(V) - 1 PROVE Follows(V[i], V[i + 1])
      <4> HIDE DEF U, V
      <4>1. i \in 1 .. Len(U) - 1 /\ i + 1 \in 1 .. Len(U) - 1
        BY <2>2, <2>3
      <4>2. V[i] = U[i + 1] /\ V[i + 1] = U[(i + 1) + 1]
        BY <2>3, <4>1
      <4> QED BY <2>4, <4>1, <4>2
    <3>3. /\ client[p] = "writing" => Follows(LastWritten(p), Piece(Parts[sent[p] + 1], sending[p]))
          /\ client[p] \in {"idle", "greeted", "ready", "waiting"} =>
                LastWritten(p).part = "body" /\ LastWritten(p).frame.call <= calls[p]
      BY <1>2 DEF PeerInv, FlowInv
    <3> HIDE DEF V
    <3> QED BY <1>1, <2>1, <2>6, <3>1, <3>2, <3>3 DEF FlowInv, V
  <2>9. HandledInv(p)'
    BY <1>1, <2>1 DEF PeerInv, HandledInv
  <2>10. GotInv(p)'
    BY <1>1 DEF PeerInv, GotInv
  <2>11. ASSUME p \in Clients PROVE ExchangeInv(p)'
    <3>1. ExchangeInv(p)
      BY <2>11 DEF PeerInv
    <3>2. client[p] \notin {"greeted", "ready", "writing"}
      BY <1>1, <1>2, <2>3, <3>1 DEF ExchangeInv
    <3>3. client[p] = "waiting" => V = <<>>
      BY <1>1, <1>2, <2>3, <3>1 DEF ExchangeInv
    <3> HIDE DEF V
    <3> QED BY <1>1, <1>2, <2>1, <3>1, <3>2, <3>3 DEF ExchangeInv, V
  <2> QED BY <2>7, <2>8, <2>9, <2>10, <2>11 DEF PeerInv
<1> QED BY <1>3, <1>4

\* A later call may be added to those in order.
LEMMA InOrderAppend ==
    ASSUME NEW s \in Seq(Nat), NEW n \in Nat, InOrder(s), \A i \in DOMAIN s : s[i] < n
    PROVE  /\ InOrder(Append(s, n))
           /\ \A i \in DOMAIN s : i \in DOMAIN Append(s, n) /\ Append(s, n)[i] = s[i]
           /\ Len(s) + 1 \in DOMAIN Append(s, n) /\ Append(s, n)[Len(s) + 1] = n
           /\ \A i \in DOMAIN Append(s, n) : Append(s, n)[i] <= n
<1> DEFINE t == Append(s, n)
<1>1. /\ DOMAIN t = 1 .. Len(s) + 1 /\ DOMAIN s = 1 .. Len(s) /\ Len(s) \in Nat
      /\ \A i \in 1 .. Len(s) : t[i] = s[i] /\ s[i] \in Nat
      /\ t[Len(s) + 1] = n
  OBVIOUS
<1> HIDE DEF t
<1>2. ASSUME NEW i \in DOMAIN t, NEW j \in DOMAIN t, i < j PROVE t[i] < t[j]
  <2>1. i \in 1 .. Len(s) /\ (j \in 1 .. Len(s) \/ j = Len(s) + 1)
    BY <1>1, <1>2
  <2> QED BY <1>1, <1>2, <2>1 DEF InOrder
<1>3. ASSUME NEW i \in DOMAIN t PROVE t[i] <= n
  <2>1. i \in 1 .. Len(s) \/ i = Len(s) + 1
    BY <1>1
  <2> QED BY <1>1, <2>1
<1>4. InOrder(t)
  BY <1>2 DEF InOrder
<1> QED BY <1>1, <1>3, <1>4 DEF t

LEMMA HandleStep ==
    ASSUME ShapeInv, NEW p \in Peers, PeerInv(p), Handle(p)
    PROVE  PeerInv(p)'
<1>1. /\ transport' = transport /\ client'[p] = client[p]
      /\ calls'[p] = calls[p] /\ sending'[p] = sending[p] /\ sent'[p] = sent[p]
      /\ replied'[p] = replied[p] /\ down'[p] = down[p] /\ got'[p] = got[p]
      /\ request'[p] = request[p] /\ up'[p] = up[p]
      /\ conn[p] = "serving" /\ server[p] = "handle" /\ conn'[p] = conn[p]
  BY DEF Handle, Serves, setup, writing, calling
<1>2. handled'[p] = Append(handled[p], request[p].call) /\ server'[p] = "reply"
  BY DEF Handle, ShapeInv
<1>3. Framed(p)
  BY <1>1 DEF Framed
<1>4. /\ InOrder(handled'[p])
      /\ \A i \in DOMAIN handled[p] : i \in DOMAIN handled'[p] /\ handled'[p][i] = handled[p][i]
      /\ \E i \in DOMAIN handled'[p] : handled'[p][i] = request[p].call
      /\ \A i \in DOMAIN handled'[p] : handled'[p][i] <= request[p].call
  <2>1. \A i \in DOMAIN handled[p] : handled[p][i] < request[p].call
    BY <1>1 DEF PeerInv, HandledInv
  <2>2. InOrder(handled[p]) /\ handled[p] \in Seq(Nat) /\ request[p].call \in Nat
    BY PeerShape DEF PeerInv, HandledInv
  <2> DEFINE s == handled[p]
             n == request[p].call
  <2> HIDE DEF s, n
  <2>3. /\ InOrder(Append(s, n))
        /\ \A i \in DOMAIN s : i \in DOMAIN Append(s, n) /\ Append(s, n)[i] = s[i]
        /\ Len(s) + 1 \in DOMAIN Append(s, n) /\ Append(s, n)[Len(s) + 1] = n
        /\ \A i \in DOMAIN Append(s, n) : Append(s, n)[i] <= n
    BY <2>1, <2>2, InOrderAppend DEF s, n
  <2>4. handled'[p] = Append(s, n)
    BY <1>2 DEF s, n
  <2>5. \E i \in DOMAIN Append(s, n) : Append(s, n)[i] = n
    BY <2>3
  <2> QED BY <2>3, <2>4, <2>5 DEF s, n
<1>5. FrameInv(p)' /\ HelloInv(p)'
  <2>1. request[p] \in Frames
    BY <1>1 DEF PeerInv, FrameInv
  <2> QED BY <1>1, <1>2, <2>1 DEF PeerInv, FrameInv, HelloInv
<1>6. FlowInv(p)'
  <2>1. LastRead(p)' = LastRead(p)
    BY <1>1, <1>2 DEF LastRead
  <2> QED BY <1>1, <1>3, <2>1 DEF PeerInv, FlowInv, LastWritten
<1>7. HandledInv(p)'
  <2>1. \A i \in DOMAIN down[p] :
           \E j \in DOMAIN handled[p] : handled[p][j] = down[p][i].frame.call
    BY DEF PeerInv, HandledInv
  <2>2. \A i \in DOMAIN down[p] :
           \E j \in DOMAIN handled'[p] : handled'[p][j] = down[p][i].frame.call
    BY <1>4, <2>1
  <2> QED BY <1>1, <1>2, <1>4, <2>2 DEF HandledInv
<1>8. GotInv(p)'
  <2>1. \A i \in DOMAIN got[p] : \E j \in DOMAIN handled'[p] : handled'[p][j] = got[p][i]
    BY <1>4 DEF PeerInv, GotInv
  <2> QED BY <1>1, <2>1 DEF PeerInv, GotInv
<1>9. ASSUME p \in Clients PROVE ExchangeInv(p)'
  <2>1. ExchangeInv(p)
    BY <1>9 DEF PeerInv
  <2>2. client[p] \notin {"greeted", "ready", "writing"}
    BY <1>1, <1>3, <2>1 DEF ExchangeInv
  <2> QED BY <1>1, <1>2, <1>3, <2>1, <2>2 DEF ExchangeInv
<1> QED BY <1>5, <1>6, <1>7, <1>8, <1>9 DEF PeerInv

LEMMA WriteReplyStep ==
    ASSUME ShapeInv, NEW p \in Peers, PeerInv(p), WriteReply(p)
    PROVE  PeerInv(p)'
<1> DEFINE x == Piece(Parts[replied[p] + 1], request[p])
<1>1. /\ transport' = transport /\ handled'[p] = handled[p] /\ client'[p] = client[p]
      /\ calls'[p] = calls[p] /\ sending'[p] = sending[p] /\ sent'[p] = sent[p]
      /\ got'[p] = got[p] /\ up'[p] = up[p]
      /\ request'[p] = request[p] /\ conn[p] = "serving" /\ server[p] = "reply"
  BY DEF WriteReply, Serves, setup, writing, calling
<1>2. Framed(p) /\ client[p] \notin {"idle", "greeting"}
  BY <1>1 DEF Framed, PeerInv, HelloInv
<1>3. CASE conn'[p] = "ended"
  <2>1. server'[p] = server[p] /\ replied'[p] = replied[p] /\ down'[p] = down[p]
    BY <1>1, <1>3 DEF WriteReply, ShapeInv
  <2> QED BY <1>1, <1>2, <1>3, <2>1, EndedPeer
<1>4. CASE conn'[p] # "ended"
  <2>1. /\ down'[p] = Append(down[p], x) /\ replied'[p] = (replied[p] + 1) % 3
        /\ server'[p] = IF replied[p] = 2 THEN "header" ELSE "reply"
        /\ conn'[p] = conn[p]
    BY <1>4 DEF WriteReply, WriteReplyPiece, Ends, ShapeInv
  <2>2. replied[p] = 0 \/ replied[p] = 1 \/ replied[p] = 2
    BY PeerShape
  <2>3. /\ DOMAIN down'[p] = 1 .. Len(down[p]) + 1 /\ Len(down'[p]) = Len(down[p]) + 1
        /\ DOMAIN down[p] = 1 .. Len(down[p]) /\ Len(down[p]) \in Nat
        /\ \A i \in 1 .. Len(down[p]) : down'[p][i] = down[p][i]
        /\ down'[p][Len(down[p]) + 1] = x
    <3>1. request[p] \in Frames /\ replied[p] + 1 \in 1 .. 3
      BY <1>1, <2>2 DEF PeerInv, FrameInv
    <3>2. x \in ReplyPieces
      BY <3>1, PieceIsPiece
    <3> HIDE DEF x
    <3>3. down[p] \in Seq(ReplyPieces)
      BY PeerShape
    <3> QED BY <2>1, <3>2, <3>3
  <2>4. x.frame = request[p]
    BY DEF Piece
  <2> HIDE DEF x
  <2>5. FrameInv(p)' /\ HelloInv(p)'
    BY <1>1, <1>2, <2>1 DEF PeerInv, FrameInv, HelloInv
  <2>6. FlowInv(p)'
    <3>1. LastRead(p)' = LastRead(p)
      BY <1>1, <2>1 DEF LastRead
    <3> QED BY <1>1, <1>2, <3>1 DEF PeerInv, FlowInv, LastWritten
  <2>7. HandledInv(p)'
    <3>1. /\ InOrder(handled[p])
          /\ \E j \in DOMAIN handled[p] : handled[p][j] = request[p].call
          /\ \A i \in DOMAIN handled[p] : handled[p][i] <= request[p].call
          /\ \A i \in DOMAIN down[p] :
                \E j \in DOMAIN handled[p] : handled[p][j] = down[p][i].frame.call
      BY <1>1 DEF PeerInv, HandledInv
    <3>2. ASSUME NEW i \in DOMAIN down'[p]
          PROVE  \E j \in DOMAIN handled[p] : handled[p][j] = down'[p][i].frame.call
      <4>1. i \in 1 .. Len(down[p]) \/ i = Len(down[p]) + 1
        BY <2>3
      <4> QED BY <2>3, <2>4, <3>1, <4>1
    <3>3. server'[p] \in {"header", "reply"}
      BY <2>1
    <3> QED BY <1>1, <3>1, <3>2, <3>3 DEF HandledInv
  <2>8. GotInv(p)'
    BY <1>1 DEF PeerInv, GotInv
  <2>9. ASSUME p \in Clients PROVE ExchangeInv(p)'
    <3>1. ExchangeInv(p)
      BY <2>9 DEF PeerInv
    <3>2. client[p] \notin {"greeted", "ready", "writing"}
      BY <1>1, <1>2, <3>1 DEF ExchangeInv
    <3>3. ASSUME client[p] = "waiting"
          PROVE  /\ Len(down[p]) = replied[p] /\ request[p] = sending[p] /\ up[p] = <<>>
                 /\ \A i \in DOMAIN down'[p] : down'[p][i].frame = sending[p]
      <4>1. /\ Len(down[p]) = replied[p] /\ request[p] = sending[p] /\ up[p] = <<>>
            /\ \A i \in DOMAIN down[p] : down[p][i].frame = sending[p]
        BY <1>1, <1>2, <3>1, <3>3 DEF ExchangeInv
      <4>2. ASSUME NEW i \in DOMAIN down'[p] PROVE down'[p][i].frame = sending[p]
        <5>1. i \in 1 .. Len(down[p]) \/ i = Len(down[p]) + 1
          BY <2>3
        <5> QED BY <2>3, <2>4, <4>1, <5>1
      <4> QED BY <4>1, <4>2
    <3>4. client[p] = "waiting" => /\ Len(down'[p]) = replied[p] + 1 /\ Len(down'[p]) <= 3
                                   /\ server'[p] = "header" => replied'[p] = 0 /\ Len(down'[p]) = 3
                                   /\ server'[p] = "reply" => Len(down'[p]) = replied'[p]
      BY <2>1, <2>2, <2>3, <3>3
    <3>5. server'[p] \in {"header", "reply"} /\ client'[p] \in PeerStates
      BY <1>1, <2>1 DEF ShapeInv
    <3> QED BY <1>1, <1>2, <2>1, <3>1, <3>2, <3>3, <3>4, <3>5 DEF ExchangeInv, PeerStates
  <2> QED BY <2>5, <2>6, <2>7, <2>8, <2>9 DEF PeerInv
<1> QED BY <1>3, <1>4

\* A peer's steps.
LEMMA ConnectStep ==
    ASSUME ShapeInv, NEW p \in Peers, PeerInv(p), Connect(p)
    PROVE  PeerInv(p)'
<1>1. /\ transport' = transport /\ server'[p] = server[p] /\ request'[p] = request[p]
      /\ handled'[p] = handled[p] /\ calls'[p] = calls[p]
      /\ sending'[p] = sending[p] /\ sent'[p] = sent[p] /\ replied'[p] = replied[p]
      /\ up'[p] = up[p] /\ down'[p] = down[p] /\ got'[p] = got[p]
      /\ conn[p] = "new" /\ conn'[p] = "pending" /\ client[p] = "idle"
      /\ client'[p] = IF transport = "tcp" THEN "greeting" ELSE "ready"
  BY DEF Connect, ShapeInv, setup, serving, writing
<1>2. /\ server[p] = "header" /\ request[p] = NoFrame /\ replied[p] = 0
      /\ handled[p] = <<>> /\ down[p] = <<>> /\ up[p] = <<>> /\ calls[p] = 0
  BY <1>1 DEF PeerInv, HelloInv
<1>3. transport \in {"unix", "tcp"}
  BY PeersAssumption DEF ShapeInv
<1>4. FrameInv(p)' /\ HelloInv(p)'
  BY <1>1, <1>2, <1>3 DEF FrameInv, HelloInv
<1>5. FlowInv(p)'
  BY <1>1, <1>2, <1>3 DEF FlowInv, Framed, LastWritten, LastRead, Piece, NoFrame
<1>6. HandledInv(p)'
  BY <1>1, <1>2 DEF HandledInv, InOrder
<1>7. GotInv(p)'
  BY <1>1, <1>3 DEF PeerInv, GotInv
<1>8. p \in Clients => ExchangeInv(p)'
  BY <1>1, <1>2, <1>3 DEF ExchangeInv
<1> QED BY <1>4, <1>5, <1>6, <1>7, <1>8 DEF PeerInv

LEMMA GreetStep ==
    ASSUME ShapeInv, NEW p \in Peers, PeerInv(p), Greet(p)
    PROVE  PeerInv(p)'
<1>1. /\ transport' = transport /\ server'[p] = server[p] /\ request'[p] = request[p]
      /\ handled'[p] = handled[p] /\ calls'[p] = calls[p]
      /\ sending'[p] = sending[p] /\ sent'[p] = sent[p] /\ replied'[p] = replied[p]
      /\ down'[p] = down[p] /\ got'[p] = got[p] /\ conn'[p] = conn[p]
  BY DEF Greet, setup, serving, writing
<1>2. CASE client[p] = "greeting" /\ conn[p] # "ended"
  <2>1. client'[p] = "greeted" /\ up'[p] = <<Hello>>
    BY <1>2 DEF Greet, ShapeInv
  <2>2. transport = "tcp" /\ conn[p] \in {"pending", "visiting"} /\ calls[p] = 0
    BY <1>2 DEF PeerInv, HelloInv, ShapeInv
  <2>3. ~Framed(p) /\ ~Framed(p)'
    BY <1>1, <2>2 DEF Framed
  <2>4. FrameInv(p)' /\ HelloInv(p)'
    BY <1>1, <2>1, <2>2 DEF PeerInv, FrameInv, HelloInv
  <2>5. FlowInv(p)'
    BY <2>3 DEF FlowInv
  <2>6. HandledInv(p)'
    BY <1>1 DEF PeerInv, HandledInv
  <2>7. GotInv(p)'
    BY <1>1, <2>1 DEF PeerInv, GotInv
  <2>8. p \in Clients => ExchangeInv(p)'
    BY <1>1, <1>2, <2>1, <2>3 DEF PeerInv, ExchangeInv
  <2> QED BY <2>4, <2>5, <2>6, <2>7, <2>8 DEF PeerInv
<1>3. CASE client[p] = "greeted" /\ conn[p] = "serving"
  <2>1. client'[p] = "ready" /\ up'[p] = up[p]
    BY <1>3 DEF Greet, ShapeInv
  <2>2. Framed(p)
    BY <1>3 DEF Framed
  <2>3. FrameInv(p)' /\ HelloInv(p)'
    BY <1>1, <1>3, <2>1 DEF PeerInv, FrameInv, HelloInv
  <2>4. FlowInv(p)'
    BY <1>1, <1>3, <2>1, <2>2 DEF PeerInv, FlowInv, LastWritten, LastRead
  <2>5. HandledInv(p)'
    BY <1>1 DEF PeerInv, HandledInv
  <2>6. GotInv(p)'
    BY <1>1, <2>1 DEF PeerInv, GotInv
  <2>7. p \in Clients => ExchangeInv(p)'
    BY <1>1, <1>3, <2>1, <2>2 DEF PeerInv, ExchangeInv
  <2> QED BY <2>3, <2>4, <2>5, <2>6, <2>7 DEF PeerInv
<1>4. CASE client[p] \in {"greeting", "greeted"} /\ conn[p] = "ended"
  <2>1. client'[p] = "failed" /\ up'[p] = up[p]
    BY <1>4 DEF Greet, ShapeInv
  <2> QED BY <1>1, <1>4, <2>1, GonePeer
<1> QED BY <1>2, <1>3, <1>4 DEF Greet

\* The next call is taken up, to be written or because it is too large.
LEMMA BeginStep ==
    ASSUME ShapeInv, NEW p \in Peers, PeerInv(p), Call(p) \/ Babble(p)
    PROVE  PeerInv(p)'
<1>1. /\ transport' = transport /\ server'[p] = server[p] /\ request'[p] = request[p]
      /\ handled'[p] = handled[p] /\ replied'[p] = replied[p] /\ conn'[p] = conn[p]
      /\ up'[p] = up[p] /\ down'[p] = down[p] /\ got'[p] = got[p]
      /\ client[p] = "ready" /\ calls'[p] = calls[p] + 1
  BY DEF Call, Babble, ShapeInv, setup, serving
<1>2. \/ client'[p] = "ready" /\ sending'[p] = sending[p] /\ sent'[p] = sent[p]
      \/ /\ client'[p] = "writing" /\ sending'[p] \in Frames /\ sent'[p] = 0
         /\ sending'[p].call = calls[p] + 1
  <2>1. calls[p] + 1 \in 1..MaxCalls
    BY BoundsAssumption, PeerShape DEF Call, Babble
  <2>2. \A len \in Lengths, decodes \in BOOLEAN :
            [call |-> calls[p] + 1, len |-> len, decodes |-> decodes] \in Frames
    BY <2>1 DEF Frames
  <2>3. \/ UNCHANGED <<client, sending, sent>>
        \/ \E f \in Frames : Begins(p, f) /\ f.call = calls[p] + 1
    BY <2>2 DEF Call, Babble
  <2> QED BY <1>1, <2>3 DEF Begins, ShapeInv
<1>3. calls[p] \in Nat /\ sent'[p] \in {0, sent[p]}
  BY <1>2, PeerShape
<1>4. FrameInv(p)' /\ HelloInv(p)'
  BY <1>1, <1>2 DEF PeerInv, FrameInv, HelloInv
<1>5. FlowInv(p)'
  <2> SUFFICES ASSUME Framed(p) PROVE FlowInv(p)'
    BY <1>1 DEF FlowInv, Framed
  <2>1. LastWritten(p)' = LastWritten(p) /\ LastRead(p)' = LastRead(p)
    BY <1>1 DEF LastWritten, LastRead
  <2>2. LastWritten(p).part = "body" /\ LastWritten(p).frame.call <= calls[p]
    BY <1>1 DEF PeerInv, FlowInv
  <2>3. LastWritten(p).frame.call \in Nat
    <3>1. CASE up[p] = <<>>
      BY <3>1, PeerShape DEF LastWritten, LastRead, Piece
    <3>2. CASE up[p] # <<>>
      <4>1. up[p][Len(up[p])] \in Pieces
        BY <3>2, PeerShape, EmptySeq
      <4>2. up[p][Len(up[p])].frame \in Frames \cup {NoFrame}
        BY <4>1, PieceFields
      <4> QED BY <3>2, <4>2, FrameCalls DEF LastWritten
    <3> QED BY <3>1, <3>2
  <2>4. LastWritten(p).frame.call < calls[p] + 1 /\ LastWritten(p).frame.call <= calls[p] + 1
    BY <1>3, <2>2, <2>3
  <2>5. client'[p] = "writing" =>
           Follows(LastWritten(p), Piece(Parts[sent'[p] + 1], sending'[p]))
    <3> SUFFICES ASSUME client'[p] = "writing"
                 PROVE  Follows(LastWritten(p), Piece("half", sending'[p]))
      BY <1>2 DEF Parts
    <3> QED BY <1>2, <1>3, <2>2, <2>3, <2>4 DEF Follows, Piece
  <2>6. /\ up[p] # <<>> => Follows(LastRead(p), up[p][1])
        /\ \A i \in 1 .. Len(up[p]) - 1 : Follows(up[p][i], up[p][i + 1])
    BY DEF PeerInv, FlowInv
  <2> QED BY <1>1, <2>1, <2>2, <2>4, <2>5, <2>6 DEF FlowInv
<1>6. HandledInv(p)'
  BY <1>1 DEF PeerInv, HandledInv
<1>7. GotInv(p)'
  <2>1. \A i \in DOMAIN got[p] : got[p][i] \in Nat /\ got[p][i] <= calls[p]
    BY PeerShape DEF PeerInv, GotInv
  <2>2. \A i \in DOMAIN got[p] : got[p][i] <= calls[p] + 1 /\ got[p][i] < calls[p] + 1
    BY <1>3, <2>1
  <2> QED BY <1>1, <1>2, <2>2 DEF PeerInv, GotInv
<1>8. ASSUME p \in Clients PROVE ExchangeInv(p)'
  <2>1. ExchangeInv(p)
    BY <1>8 DEF PeerInv
  <2>2. down[p] = <<>> /\ (Framed(p) => up[p] = <<>> /\ server[p] = "header" /\ replied[p] = 0)
    BY <1>1, <2>1 DEF ExchangeInv
  <2>3. Framed(p)' <=> Framed(p)
    BY <1>1 DEF Framed
  <2> QED BY <1>1, <1>2, <2>2, <2>3 DEF ExchangeInv
<1> QED BY <1>4, <1>5, <1>6, <1>7, <1>8 DEF PeerInv

LEMMA WritePieceStep ==
    ASSUME ShapeInv, NEW p \in Peers, PeerInv(p), WritePiece(p)
    PROVE  PeerInv(p)'
<1> DEFINE U == up[p]
           x == Piece(Parts[sent[p] + 1], sending[p])
<1>1. /\ transport' = transport /\ server'[p] = server[p] /\ request'[p] = request[p]
      /\ handled'[p] = handled[p] /\ replied'[p] = replied[p] /\ conn'[p] = conn[p]
      /\ calls'[p] = calls[p] /\ sending'[p] = sending[p]
      /\ down'[p] = down[p] /\ got'[p] = got[p] /\ client[p] = "writing"
  BY DEF WritePiece, setup, serving
<1>2. CASE conn[p] = "ended"
  <2>1. client'[p] = "failed" /\ up'[p] = up[p] /\ sent'[p] = sent[p]
    BY <1>2 DEF WritePiece, ShapeInv
  <2> QED BY <1>1, <1>2, <2>1, GonePeer
<1>3. CASE conn[p] # "ended"
  <2>1. /\ up'[p] = Append(U, x) /\ sent'[p] = sent[p] + 1
        /\ client'[p] = IF sent[p] < 2 THEN "writing"
                        ELSE IF p \in Clients THEN "waiting" ELSE "ready"
    BY <1>3 DEF WritePiece, ShapeInv
  <2>2. sending[p] \in Frames /\ (sent[p] = 0 \/ sent[p] = 1 \/ sent[p] = 2)
    BY <1>1, PeerShape DEF PeerInv, FrameInv
  <2>3. Framed(p)
    BY <1>1, <1>3, PeersAssumption DEF Framed, PeerInv, HelloInv, ShapeInv
  <2>4. /\ x.frame = sending[p] /\ x.part = Parts[sent[p] + 1] /\ x \in Pieces
        /\ sent[p] = 2 => x.part = "body"
    <3>1. sent[p] + 1 \in 1 .. 3
      BY <2>2
    <3> QED BY <2>2, <3>1, PieceIsPiece DEF Piece, Parts
  <2>5. sent[p] < 2 => Follows(x, Piece(Parts[(sent[p] + 1) + 1], sending[p]))
    BY <2>2, <2>4 DEF Follows, Parts, Piece
  <2>6. Follows(LastWritten(p), x)
    BY <1>1, <2>3 DEF PeerInv, FlowInv
  <2> HIDE DEF x
  <2>7. /\ U \in Seq(Pieces) /\ Len(U) \in Nat
        /\ Len(Append(U, x)) = Len(U) + 1 /\ Append(U, x) # <<>>
        /\ \A i \in 1 .. Len(U) : Append(U, x)[i] = U[i]
        /\ Append(U, x)[Len(U) + 1] = x
        /\ DOMAIN Append(U, x) = 1 .. Len(U) + 1 /\ DOMAIN U = 1 .. Len(U)
        /\ U # <<>> => Len(U) >= 1
    <3>1. U \in Seq(Pieces) /\ Len(U) \in Nat /\ (U # <<>> => Len(U) >= 1)
      BY PeerShape, EmptySeq
    <3> HIDE DEF U
    <3> QED BY <2>4, <3>1
  <2> DEFINE V == Append(U, x)
  <2>8. FrameInv(p)' /\ HelloInv(p)'
    <3>1. FrameInv(p)'
      BY <1>1, <2>1, <2>2 DEF PeerInv, FrameInv
    <3>2. client'[p] \notin {"idle", "greeting", "greeted", "gone"}
      BY <2>1
    <3>3. HelloInv(p)'
      BY <1>1, <2>3, <3>2 DEF PeerInv, HelloInv, Framed
    <3> QED BY <3>1, <3>3
  <2>9. FlowInv(p)'
    <3>1. LastRead(p)' = LastRead(p)
      BY <1>1 DEF LastRead
    <3>2. Follows(LastRead(p), V[1])
      <4>1. CASE U = <<>>
        <5>1. V[1] = x
          BY <2>7, <4>1
        <5> QED BY <2>6, <4>1, <5>1 DEF LastWritten
      <4>2. CASE U # <<>>
        <5>1. V[1] = U[1]
          <6> HIDE DEF U
          <6> QED BY <2>7, <4>2
        <5> QED BY <2>3, <4>2, <5>1 DEF PeerInv, FlowInv
      <4> QED BY <4>1, <4>2
    <3>3. ASSUME NEW i \in 1 .. Len(V) - 1 PROVE Follows(V[i], V[i + 1])
      <4>1. i \in 1 .. Len(U)
        <5> HIDE DEF U
        <5> QED BY <2>7
      <4>2. CASE i < Len(U)
        <5>1. i \in 1 .. Len(U) - 1 /\ i + 1 \in 1 .. Len(U)
          BY <2>7, <4>1, <4>2
        <5>2. Follows(U[i], U[i + 1])
          BY <2>3, <5>1 DEF PeerInv, FlowInv
        <5> QED BY <2>7, <4>1, <5>1, <5>2
      <4>3. CASE i = Len(U)
        <5>1. LastWritten(p) = U[i]
          BY <2>7, <4>1, <4>3, EmptySeq DEF LastWritten
        <5> QED BY <2>6, <2>7, <4>1, <4>3, <5>1
      <4> QED BY <2>7, <4>1, <4>2, <4>3
    <3>4. LastWritten(p)' = x
      BY <2>1, <2>7 DEF LastWritten
    <3>5. client'[p] = "writing" => Follows(x, Piece(Parts[sent'[p] + 1], sending[p]))
      BY <2>1, <2>5
    <3>6. client'[p] \in {"idle", "greeted", "ready", "waiting"} =>
             x.part = "body" /\ x.frame.call <= calls[p]
      <4>1. x.frame.call = calls[p] /\ calls[p] \in Nat
        BY <1>1, <2>4, PeerShape DEF PeerInv, GotInv
      <4> QED BY <2>1, <2>2, <2>4, <4>1
    <3> HIDE DEF V
    <3> QED BY <1>1, <2>1, <3>1, <3>2, <3>3, <3>4, <3>5, <3>6 DEF FlowInv, V
  <2>10. HandledInv(p)'
    BY <1>1 DEF PeerInv, HandledInv
  <2>11. GotInv(p)'
    BY <1>1, <2>1 DEF PeerInv, GotInv
  <2>12. ASSUME p \in Clients PROVE ExchangeInv(p)'
    <3>1. ExchangeInv(p)
      BY <2>12 DEF PeerInv
    <3>2. /\ replied[p] = 0 /\ down[p] = <<>>
          /\ \A i \in DOMAIN U : U[i].frame = sending[p]
          /\ \/ server[p] = "header" /\ Len(U) = sent[p]
             \/ server[p] = "body" /\ sent[p] = 2 /\ U = <<>> /\ request[p] = sending[p]
      BY <1>1, <2>3, <3>1 DEF ExchangeInv
    <3>3. \A i \in DOMAIN V : V[i].frame = sending[p]
      <4> HIDE DEF U
      <4> SUFFICES ASSUME NEW i \in DOMAIN V PROVE V[i].frame = sending[p]
        OBVIOUS
      <4>1. i \in 1 .. Len(U) \/ i = Len(U) + 1
        BY <2>7
      <4> QED BY <2>4, <2>7, <3>2, <4>1
    <3>4. Len(V) = Len(U) + 1 /\ (U = <<>> => Len(V) = 1)
      BY <2>7
    <3>5. down[p] = <<>> => Len(down[p]) = 0 /\ DOMAIN down[p] = {}
      OBVIOUS
    <3>6. CASE sent[p] < 2
      <4>1. client'[p] = "writing" /\ Len(V) = sent'[p] /\ server[p] = "header"
        BY <2>1, <2>2, <3>2, <3>4, <3>6
      <4> HIDE DEF V
      <4> QED BY <1>1, <2>1, <3>2, <3>3, <4>1 DEF ExchangeInv, V
    <3>7. CASE sent[p] = 2
      <4>1. /\ client'[p] = "waiting"
            /\ \/ server[p] = "header" /\ Len(V) = 3
               \/ server[p] = "body" /\ Len(V) = 1 /\ request[p] = sending[p]
        <5>1. client'[p] = "waiting"
          BY <2>1, <2>12, <3>7
        <5> HIDE DEF U, V
        <5>2. \/ server[p] = "header" /\ Len(U) = 2
              \/ server[p] = "body" /\ U = <<>> /\ request[p] = sending[p]
          BY <3>2, <3>7
        <5>3. Len(U) = 2 => Len(V) = 3
          BY <3>4
        <5> QED BY <3>4, <5>1, <5>2, <5>3
      <4> HIDE DEF V
      <4> QED BY <1>1, <2>1, <3>2, <3>3, <3>5, <4>1 DEF ExchangeInv, V
    <3> QED BY <2>2, <3>6, <3>7
  <2> QED BY <2>8, <2>9, <2>10, <2>11, <2>12 DEF PeerInv
<1> QED BY <1>2, <1>3

LEMMA ReadReplyStep ==
    ASSUME ShapeInv, NEW p \in Peers, PeerInv(p), ReadReply(p)
    PROVE  PeerInv(p)'
<1> DEFINE n == down[p][1].frame.call
<1>1. /\ transport' = transport /\ server'[p] = server[p] /\ request'[p] = request[p]
      /\ handled'[p] = handled[p] /\ replied'[p] = replied[p] /\ conn'[p] = conn[p]
      /\ calls'[p] = calls[p] /\ sending'[p] = sending[p] /\ sent'[p] = sent[p]
      /\ up'[p] = up[p] /\ client[p] = "waiting"
  BY DEF ReadReply, setup, serving, writing
<1>2. p \in Clients /\ ExchangeInv(p)
  BY <1>1 DEF PeerInv, FrameInv
<1>3. CASE Len(down[p]) < 3
  <2>1. /\ client'[p] = "failed" /\ conn[p] = "ended" /\ down'[p] = down[p] /\ got'[p] = got[p]
    BY <1>3, PeerShape DEF ReadReply, ShapeInv
  <2> QED BY <1>1, <2>1, GonePeer
<1>4. CASE ~(Len(down[p]) < 3)
  <2>1. /\ down'[p] = SubSeq(down[p], 4, Len(down[p])) /\ got'[p] = Append(got[p], n)
        /\ client'[p] = "ready"
    BY <1>4 DEF ReadReply, ShapeInv
  <2>2. down[p] \in Seq(ReplyPieces) /\ Len(down[p]) = 3
    <3>1. down[p] \in Seq(ReplyPieces) /\ Len(down[p]) \in Nat
      BY PeerShape
    <3>2. Len(down[p]) <= 3
      BY <1>1, <1>2 DEF ExchangeInv
    <3>3. \A k \in Nat : k <= 3 /\ ~(k < 3) => k = 3
      OBVIOUS
    <3> QED BY <1>4, <3>1, <3>2, <3>3
  <2>3. down'[p] = <<>>
    BY <2>1, <2>2
  <2>4. 1 \in DOMAIN down[p] /\ n = calls[p] /\ n \in Nat
    <3>1. 1 \in DOMAIN down[p]
      BY <2>2
    <3>2. down[p][1].frame = sending[p]
      BY <1>1, <1>2, <3>1 DEF ExchangeInv
    <3> QED BY <1>1, <3>1, <3>2, PeerShape DEF PeerInv, GotInv
  <2>5. \E j \in DOMAIN handled[p] : handled[p][j] = n
    BY <2>4 DEF PeerInv, HandledInv
  <2> HIDE DEF n
  <2> DEFINE s == got[p]
             t == Append(s, n)
  <2>6. /\ InOrder(t) /\ \A i \in DOMAIN t : t[i] <= n
        /\ DOMAIN t = 1 .. Len(s) + 1 /\ DOMAIN s = 1 .. Len(s)
        /\ \A i \in 1 .. Len(s) : t[i] = s[i]
        /\ t[Len(s) + 1] = n
    <3>1. s \in Seq(Nat) /\ InOrder(s) /\ \A i \in DOMAIN s : s[i] < n
      BY <1>1, <2>4, PeerShape DEF PeerInv, GotInv
    <3> HIDE DEF s
    <3>2. InOrder(t) /\ \A i \in DOMAIN t : t[i] <= n
      BY <2>4, <3>1, InOrderAppend
    <3> QED BY <2>4, <3>1, <3>2
  <2>7. ASSUME NEW i \in DOMAIN t PROVE \E j \in DOMAIN handled[p] : handled[p][j] = t[i]
    <3>1. \A k \in DOMAIN s : \E j \in DOMAIN handled[p] : handled[p][j] = s[k]
      BY DEF PeerInv, GotInv
    <3> HIDE DEF s, t
    <3>2. i \in 1 .. Len(s) \/ i = Len(s) + 1
      <4>1. Len(s) \in Nat
        BY PeerShape DEF s
      <4> QED BY <2>6, <4>1
    <3> QED BY <2>5, <2>6, <3>1, <3>2
  <2>8. FrameInv(p)' /\ HelloInv(p)'
    <3>1. conn[p] # "new" /\ ~(transport = "tcp" /\ conn[p] \in {"pending", "visiting"})
      BY <1>1 DEF PeerInv, HelloInv
    <3> QED BY <1>1, <2>1, <2>3, <3>1 DEF PeerInv, FrameInv, HelloInv
  <2>9. FlowInv(p)'
    BY <1>1, <2>1 DEF PeerInv, FlowInv, Framed, LastWritten, LastRead
  <2>10. HandledInv(p)'
    BY <1>1, <2>3 DEF PeerInv, HandledInv
  <2> HIDE DEF t
  <2>11. GotInv(p)'
    BY <1>1, <2>1, <2>4, <2>6, <2>7 DEF GotInv, t
  <2>12. ExchangeInv(p)'
    <3>1. Framed(p)' <=> Framed(p)
      BY <1>1 DEF Framed
    <3>2. Framed(p) => up[p] = <<>> /\ server[p] = "header" /\ replied[p] = 0
      <4> SUFFICES ASSUME Framed(p) PROVE up[p] = <<>> /\ server[p] = "header" /\ replied[p] = 0
        OBVIOUS
      <4>1. down[p] # <<>> /\ Len(down[p]) = 3 /\ replied[p] # 3
        <5>1. replied[p] \in 0..2
          BY PeerShape
        <5>2. replied[p] # 3
          BY <5>1
        <5>3. down[p] # <<>>
          <6>1. \A d : Len(d) = 3 => d # <<>>
            OBVIOUS
          <6> QED BY <2>2, <6>1
        <5> QED BY <2>2, <5>2, <5>3
      <4>2. server[p] \in {"header", "body", "handle", "reply"}
        BY DEF ShapeInv
      <4> QED BY <1>1, <1>2, <4>1, <4>2 DEF ExchangeInv
    <3> QED BY <1>1, <2>1, <2>3, <3>1, <3>2 DEF ExchangeInv
  <2> QED BY <2>8, <2>9, <2>10, <2>11, <2>12 DEF PeerInv
<1> QED BY <1>3, <1>4

\* Every step of a peer, or of the server on its behalf, keeps what is known of it.
LEMMA PeerStep ==
    ASSUME ShapeInv, NEW p \in Peers, PeerInv(p),
           Listen(p) \/ Serve(p) \/ Speak(p) \/ Leave(p)
    PROVE  PeerInv(p)'
<1>1. CASE Leave(p)
  <2>1. client[p] # "idle" /\ client'[p] = "gone"
    BY <1>1 DEF Leave, ShapeInv
  <2> QED BY <1>1, <2>1, GonePeer DEF Leave, setup, serving, writing
<1>2. CASE Listen(p)
  BY <1>2, ListenStep
<1>3. CASE Serve(p)
  BY <1>3, ReadHeaderStep, ReadBodyStep, HandleStep, WriteReplyStep DEF Serve
<1>4. CASE Speak(p)
  BY <1>4, ConnectStep, GreetStep, BeginStep, WritePieceStep, ReadReplyStep DEF Speak
<1> QED BY <1>1, <1>2, <1>3, <1>4

\* The loop waits for one handshake at a time.
LEMMA VisitStep ==
    ASSUME ShapeInv, VisitInv, NEW p \in Peers, Listen(p) \/ Serve(p) \/ Speak(p) \/ Leave(p)
    PROVE  VisitInv'
<1>1. \A q \in Peers : q # p => conn'[q] = conn[q]
  BY OthersStay
<1>2. conn'[p] = "visiting" => \/ conn[p] = "visiting"
                               \/ \A q \in Peers : conn[q] # "visiting"
  <2> USE DEF ShapeInv, setup, serving, writing, calling
  <2>1. CASE Listen(p)
    BY <2>1 DEF Listen, AcceptUnix, AcceptTcp, Authorize, Admit, Accepting
  <2>2. CASE Serve(p)
    BY <2>2 DEF Serve, ReadHeader, ReadBody, Handle, WriteReply, Ends
  <2>3. CASE Speak(p) \/ Leave(p)
    BY <2>3 DEF Speak, Leave, Connect, Greet, Call, Babble, WritePiece, ReadReply
  <2> QED BY <2>1, <2>2, <2>3
<1> QED BY <1>1, <1>2 DEF VisitInv

\* Every step of the channel keeps its invariant.
LEMMA ChannelInvStep == ChannelInv /\ [ChannelNext]_channelVars => ChannelInv'
<1> SUFFICES ASSUME ChannelInv, [ChannelNext]_channelVars PROVE ChannelInv'
  OBVIOUS
<1> USE DEF ChannelInv
<1>1. ASSUME NEW p \in Peers, Listen(p) \/ Serve(p) \/ Speak(p) \/ Leave(p) PROVE ChannelInv'
  <2>1. ShapeInv'
    BY <1>1, ListenShape, ServeShape, SpeakShape
  <2>2. VisitInv'
    BY <1>1, VisitStep
  <2>3. ASSUME NEW q \in Peers PROVE PeerInv(q)'
    <3>1. CASE q = p
      BY <1>1, <3>1, PeerStep
    <3>2. CASE q # p
      BY <1>1, <3>2, OthersStay, SamePeer
    <3> QED BY <3>1, <3>2
  <2> QED BY <2>1, <2>2, <2>3
<1>2. CASE Shutdown
  <2>1. ShapeInv'
    BY <1>2 DEF Shutdown, ShapeInv, setup, serving, writing, calling
  <2>2. \A p \in Peers : conn'[p] = "ended"
    BY <1>2 DEF Shutdown
  <2>3. ASSUME NEW p \in Peers PROVE PeerInv(p)'
    BY <1>2, <2>2, EndedPeer DEF Shutdown, setup, serving, writing, calling
  <2> QED BY <2>1, <2>2, <2>3 DEF VisitInv
<1>3. CASE UNCHANGED channelVars
  <2>1. ShapeInv' /\ VisitInv'
    BY <1>3 DEF channelVars, ShapeInv, VisitInv
  <2>2. ASSUME NEW p \in Peers PROVE PeerInv(p)'
    BY <1>3, SamePeer DEF channelVars
  <2> QED BY <2>1, <2>2
<1> QED BY <1>1, <1>2, <1>3 DEF ChannelNext

(* The daemon's sockets and tasks are well typed, and its loop waits for the *)
(* handshake of one connection at a time (server.rs, serve).                 *)
THEOREM ChannelType == ChannelSpec => []ChannelTypeOK
<1>1. ChannelInv => ChannelTypeOK
  <2> SUFFICES ASSUME ChannelInv PROVE ChannelTypeOK
    OBVIOUS
  <2>1. Cardinality({p \in Peers : conn[p] = "visiting"}) <= 1
    <3> DEFINE visiting == {p \in Peers : conn[p] = "visiting"}
    <3>1. CASE visiting = {}
      BY <3>1, FS_EmptySet
    <3>2. ASSUME NEW p \in visiting PROVE Cardinality(visiting) <= 1
      <4>1. visiting = {p}
        BY DEF ChannelInv, VisitInv
      <4> HIDE DEF visiting
      <4>2. Cardinality(visiting) = 1
        BY <4>1, FS_Singleton
      <4> QED BY <4>2
    <3> QED BY <3>1, <3>2
  <2>2. ASSUME NEW p \in Peers
        PROVE  /\ \A i \in DOMAIN up[p] : up[p][i] \in Pieces
               /\ \A i \in DOMAIN down[p] : down[p][i] \in Pieces \ {Hello}
    <3>1. up[p] \in Seq(Pieces) /\ down[p] \in Seq(ReplyPieces)
      BY PeerShape DEF ChannelInv
    <3> QED BY <3>1 DEF ReplyPieces
  <2> QED BY <2>1, <2>2 DEF ChannelInv, ShapeInv, ChannelTypeOK, PeerStates
<1> QED BY <1>1, ChannelInvInit, ChannelInvStep, PTL DEF ChannelSpec

(* However the pieces of the frames of any number of clients and strays      *)
(* interleave, and whenever a connection ends, a request is carried out at   *)
(* most once, in the order of the calls, and nobody gets a reply to a call   *)
(* that was not carried out (serve_connection, IpcClient::call).             *)
THEOREM CarriedOutOnce == ChannelSpec => []AtMostOnce
<1>1. ChannelInv => AtMostOnce
  BY DEF ChannelInv, PeerInv, HandledInv, GotInv, AtMostOnce
<1> QED BY <1>1, ChannelInvInit, ChannelInvStep, PTL DEF ChannelSpec

(* What a waiting client finds on its connection are pieces of the reply to  *)
(* the call it has made, and nothing is left there when it makes the next.   *)
THEOREM OwnReply == ChannelSpec => []ReplyIsToThisCall
<1>1. ChannelInv => ReplyIsToThisCall
  BY DEF ChannelInv, PeerInv, ExchangeInv, ReplyIsToThisCall, Peers
<1> QED BY <1>1, ChannelInvInit, ChannelInvStep, PTL DEF ChannelSpec
-----------------------------------------------------------------------------
(* What the handler is given.                                                *)

Fits(frame) == frame.decodes /\ frame.len <= MaxFrame

(* Past its header a frame is known to fit, past its body to decode; those   *)
(* of a client do both from the start.  A connection has no outcome before   *)
(* it has ended.                                                             *)
WholeInv(p) ==
    /\ conn[p] # "ended" => outcome[p] = "none"
    /\ conn[p] = "serving" => p \in authorized
    /\ conn[p] = "serving" /\ server[p] # "header" => request[p].len <= MaxFrame
    /\ conn[p] = "serving" /\ server[p] \in {"handle", "reply"} => request[p].decodes
    /\ p \in Clients =>
          /\ client[p] = "writing" => Fits(sending[p])
          /\ \A i \in DOMAIN up[p] : up[p][i].part # "hello" => Fits(up[p][i].frame)
          /\ conn[p] = "serving" /\ server[p] = "body" => request[p].decodes
          /\ outcome[p] # "decode" /\ ~(outcome[p] = "too_large" /\ server[p] = "header")

\* A step of the loop or of the server on behalf of a peer keeps it.
LEMMA ServeWhole ==
    ASSUME ShapeInv, NEW p \in Peers, PeerInv(p), WholeInv(p), Listen(p) \/ Serve(p)
    PROVE  WholeInv(p)'
<1>1. /\ authorized' = authorized /\ client'[p] = client[p] /\ sending'[p] = sending[p]
  BY DEF Listen, AcceptUnix, AcceptTcp, Authorize, Serve, ReadHeader, ReadBody, Handle, WriteReply,
     setup, serving, writing, calling
<1>2. CASE Listen(p)
  <2>1. /\ server'[p] = server[p] /\ request'[p] = request[p] /\ outcome'[p] = outcome[p]
    BY <1>2 DEF Listen, AcceptUnix, AcceptTcp, Authorize, serving
  <2>2. /\ conn'[p] = "serving" => p \in authorized /\ server[p] = "header"
        /\ conn[p] # "ended"
    BY <1>2 DEF Listen, AcceptUnix, AcceptTcp, Authorize, Admit, ShapeInv, PeerInv, HelloInv
  <2>3. up'[p] = up[p] \/ up'[p] = <<>>
    <3>1. Authorize(p) => transport = "tcp" /\ up[p] \in {<<>>, <<Hello>>}
      BY DEF Authorize, PeerInv, HelloInv
    <3>2. Tail(<<Hello>>) = <<>> /\ Len(<<>>) = 0
      OBVIOUS
    <3> QED
      BY <1>2, <3>1, <3>2 DEF Listen, AcceptUnix, AcceptTcp, Authorize, HasBody, ShapeInv
  <2>4. p \in Clients => \A i \in DOMAIN up'[p] : up'[p][i].part # "hello" => Fits(up'[p][i].frame)
    BY <2>3 DEF WholeInv
  <2> QED BY <1>1, <2>1, <2>2, <2>4 DEF WholeInv
<1>3. CASE ReadHeader(p)
  <2> DEFINE U == up[p]
  <2>1. /\ conn[p] = "serving" /\ server[p] = "header" /\ Framed(p)
        /\ conn'[p] \in {"serving", "ended"}
    BY <1>3 DEF ReadHeader, Serves, Ends, Framed, ShapeInv
  <2>2. CASE HasHeader(U)
    <3>1. /\ up'[p] = Tail(Tail(U)) /\ request'[p] = U[1].frame
          /\ IF TooLarge(U[1].frame.len)
             THEN conn'[p] = "ended" /\ outcome'[p] = "too_large" /\ server'[p] = "header"
             ELSE server'[p] = "body" /\ outcome'[p] = outcome[p] /\ conn'[p] = "serving"
      BY <1>3, <2>1, <2>2 DEF ReadHeader, Ends, ShapeInv
    <3>2. U \in Seq(Pieces) /\ Len(U) >= 2 /\ U # <<>>
      BY <2>2, PeerShape, EmptySeq DEF HasHeader
    <3>3. U[1].part = "half" /\ U[1].frame \in Frames
      <4>1. U[1].part = "half"
        BY <2>1, <3>2 DEF PeerInv, FlowInv, Follows, LastRead, Piece
      <4>2. U[1] \in Pieces
        BY <3>2
      <4> QED BY <4>1, <4>2, PieceFields
    <3>4. TooLarge(U[1].frame.len) <=> ~(U[1].frame.len <= MaxFrame)
      <4>1. U[1].frame.len \in Nat /\ MaxFrame \in Nat
        BY <3>3, BoundsAssumption DEF Frames, Lengths
      <4> QED BY <4>1 DEF TooLarge
    <3>5. p \in Clients => /\ Fits(U[1].frame)
                           /\ \A i \in DOMAIN up'[p] :
                                 up'[p][i].part # "hello" => Fits(up'[p][i].frame)
      <4> SUFFICES ASSUME p \in Clients
                   PROVE  /\ Fits(U[1].frame)
                          /\ \A i \in DOMAIN Tail(Tail(U)) : Tail(Tail(U))[i].part # "hello"
                                                  => Fits(Tail(Tail(U))[i].frame)
        BY <3>1
      <4>1. \A i \in DOMAIN U : U[i].part # "hello" => Fits(U[i].frame)
        BY DEF WholeInv
      <4> HIDE DEF U
      <4>2. 1 \in DOMAIN U /\ DOMAIN U = 1 .. Len(U) /\ Len(U) \in Nat
        BY <3>2
      <4>3. /\ DOMAIN Tail(Tail(U)) = 1 .. Len(U) - 2
            /\ \A i \in 1 .. Len(U) - 2 : Tail(Tail(U))[i] = U[i + 2]
        BY <3>2, RestOfPieces
      <4>4. \A i \in 1 .. Len(U) - 2 : i + 2 \in DOMAIN U
        BY <4>2
      <4> QED BY <3>3, <4>1, <4>2, <4>3, <4>4
    <3> HIDE DEF U
    <3> QED BY <1>1, <2>1, <3>1, <3>4, <3>5 DEF WholeInv, Fits
  <2>3. CASE ~HasHeader(U)
    <3>1. /\ conn'[p] = "ended" /\ outcome'[p] = "closed" /\ server'[p] = server[p]
          /\ request'[p] = request[p] /\ up'[p] = up[p]
      BY <1>3, <2>3 DEF ReadHeader, Ends, ShapeInv
    <3> QED BY <1>1, <3>1 DEF WholeInv
  <2> QED BY <2>2, <2>3
<1>4. CASE ReadBody(p)
  <2> DEFINE U == up[p]
  <2>1. /\ conn[p] = "serving" /\ server[p] = "body" /\ request'[p] = request[p]
        /\ p \in Clients => request[p].decodes
    BY <1>4 DEF ReadBody, Serves, WholeInv
  <2>2. p \in Clients => \A i \in DOMAIN up'[p] :
                            up'[p][i].part # "hello" => Fits(up'[p][i].frame)
    <3>1. CASE HasBody(U)
      <4>1. up'[p] = Tail(U)
        BY <1>4, <3>1 DEF ReadBody, ShapeInv
      <4>2. U \in Seq(Pieces) /\ Len(U) >= 1
        BY <3>1, PeerShape DEF HasBody
      <4>3. p \in Clients => \A i \in DOMAIN U : U[i].part # "hello" => Fits(U[i].frame)
        BY DEF WholeInv
      <4> HIDE DEF U
      <4>4. DOMAIN U = 1 .. Len(U) /\ Len(U) \in Nat
        BY <4>2
      <4>5. DOMAIN Tail(U) = 1 .. Len(U) - 1 /\ \A i \in 1 .. Len(U) - 1 : Tail(U)[i] = U[i + 1]
        BY <4>2, TailOfPieces
      <4>6. \A i \in 1 .. Len(U) - 1 : i + 1 \in DOMAIN U
        BY <4>4
      <4> QED BY <4>1, <4>3, <4>5, <4>6
    <3>2. CASE ~HasBody(U)
      <4>1. up'[p] = U
        BY <1>4, <3>2 DEF ReadBody
      <4> QED BY <4>1 DEF WholeInv
    <3> QED BY <3>1, <3>2
  <2>3. \/ /\ server'[p] = "handle" /\ conn'[p] = conn[p] /\ outcome'[p] = outcome[p]
           /\ request[p].decodes
        \/ /\ server'[p] = "body" /\ conn'[p] = "ended"
           /\ \/ outcome'[p] = "decode" /\ ~request[p].decodes
              \/ outcome'[p] = "io"
    BY <1>4, <2>1 DEF ReadBody, Ends, ShapeInv
  <2> HIDE DEF U
  <2> QED BY <1>1, <2>1, <2>2, <2>3 DEF WholeInv
<1>5. CASE Handle(p)
  <2>1. /\ conn[p] = "serving" /\ server[p] = "handle" /\ server'[p] = "reply"
        /\ conn'[p] = conn[p] /\ request'[p] = request[p] /\ outcome'[p] = outcome[p]
        /\ up'[p] = up[p]
    BY <1>5 DEF Handle, Serves, ShapeInv
  <2> QED BY <1>1, <2>1 DEF WholeInv
<1>6. CASE WriteReply(p)
  <2>1. /\ conn[p] = "serving" /\ server[p] = "reply" /\ request'[p] = request[p]
        /\ up'[p] = up[p]
        /\ \/ server'[p] \in {"reply", "header"} /\ conn'[p] = conn[p] /\ outcome'[p] = outcome[p]
           \/ /\ server'[p] = "reply" /\ conn'[p] = "ended"
              /\ outcome'[p] \in {"too_large", "io"}
    BY <1>6 DEF WriteReply, WriteReplyPiece, Serves, Ends, ShapeInv
  <2> QED BY <1>1, <2>1 DEF WholeInv
<1> QED BY <1>2, <1>3, <1>4, <1>5, <1>6 DEF Serve


\* A step of the peer itself keeps it.
LEMMA SpeakWhole ==
    ASSUME ShapeInv, NEW p \in Peers, PeerInv(p), WholeInv(p), Speak(p) \/ Leave(p)
    PROVE  WholeInv(p)'
<1>1. /\ authorized' = authorized /\ server'[p] = server[p] /\ request'[p] = request[p]
      /\ outcome'[p] = outcome[p]
      /\ conn'[p] = conn[p] \/ (conn[p] = "new" /\ conn'[p] = "pending")
  BY DEF Speak, Leave, Connect, Greet, Call, Babble, WritePiece, ReadReply, setup, serving, ShapeInv
<1>2. ASSUME p \in Clients, client'[p] = "writing"
      PROVE  Fits(sending'[p])
  <2>1. CASE Call(p)
    <3>1. CASE client[p] = "writing"
      BY <2>1, <3>1 DEF Call
    <3>2. CASE client[p] # "writing"
      <4>1. PICK len \in Lengths : /\ ~(len > MaxFrame)
                                   /\ Begins(p, [call |-> calls[p] + 1, len |-> len, decodes |-> TRUE])
        BY <1>2, <2>1, <3>2 DEF Call
      <4>2. sending'[p] = [call |-> calls[p] + 1, len |-> len, decodes |-> TRUE]
        BY <4>1 DEF Begins, ShapeInv
      <4>3. len \in Nat /\ MaxFrame \in Nat
        BY BoundsAssumption DEF Lengths
      <4> QED BY <4>1, <4>2, <4>3 DEF Fits
    <3> QED BY <3>1, <3>2
  <2>2. CASE Connect(p) \/ Greet(p) \/ WritePiece(p) \/ ReadReply(p) \/ Leave(p)
    <3>1. sending'[p] = sending[p] /\ client[p] = "writing"
      BY <1>2, <2>2 DEF Leave, Connect, Greet, WritePiece, ReadReply, writing, ShapeInv
    <3> QED BY <1>2, <3>1 DEF WholeInv
  <2>3. ~Babble(p)
    BY <1>2, PeersAssumption DEF Babble
  <2> QED BY <2>1, <2>2, <2>3 DEF Speak
<1>3. p \in Clients => \A i \in DOMAIN up'[p] : up'[p][i].part # "hello" => Fits(up'[p][i].frame)
  <2> SUFFICES ASSUME p \in Clients
               PROVE  \A i \in DOMAIN up'[p] : up'[p][i].part # "hello" => Fits(up'[p][i].frame)
    OBVIOUS
  <2>1. \A i \in DOMAIN up[p] : up[p][i].part # "hello" => Fits(up[p][i].frame)
    BY DEF WholeInv
  <2>2. CASE up'[p] = up[p]
    BY <2>1, <2>2
  <2>3. CASE up'[p] = <<Hello>>
    <3>1. \A i \in DOMAIN <<Hello>> : <<Hello>>[i] = Hello
      OBVIOUS
    <3>2. Hello.part = "hello"
      BY DEF Hello, Piece
    <3> QED BY <2>3, <3>1, <3>2
  <2>4. CASE client[p] = "writing" /\ up'[p] = Append(up[p], Piece(Parts[sent[p] + 1], sending[p]))
    <3> DEFINE U == up[p]
               x == Piece(Parts[sent[p] + 1], sending[p])
    <3>1. Fits(x.frame)
      BY <2>4 DEF WholeInv, Piece
    <3>2. U \in Seq(Pieces)
      BY PeerShape
    <3>3. up'[p] = Append(U, x) /\ \A i \in DOMAIN U : U[i].part # "hello" => Fits(U[i].frame)
      BY <2>1, <2>4
    <3> HIDE DEF U, x
    <3>4. /\ DOMAIN Append(U, x) = 1 .. Len(U) + 1 /\ Append(U, x)[Len(U) + 1] = x
          /\ \A i \in 1 .. Len(U) : Append(U, x)[i] = U[i]
          /\ DOMAIN U = 1 .. Len(U) /\ Len(U) \in Nat
      BY <3>2
    <3>5. \A i \in 1 .. Len(U) + 1 : i \in 1 .. Len(U) \/ i = Len(U) + 1
      BY <3>4
    <3> QED BY <3>1, <3>3, <3>4, <3>5
  <2>5. \/ up'[p] = up[p] \/ up'[p] = <<Hello>>
        \/ client[p] = "writing" /\ up'[p] = Append(up[p], Piece(Parts[sent[p] + 1], sending[p]))
    BY DEF Speak, Leave, Connect, Greet, Call, Babble, WritePiece, ReadReply, ShapeInv
  <2> QED BY <2>2, <2>3, <2>4, <2>5
<1>4. conn'[p] = "serving" <=> conn[p] = "serving"
  BY <1>1
<1>5. conn'[p] # "ended" => conn[p] # "ended"
  BY <1>1
<1> QED BY <1>1, <1>2, <1>3, <1>4, <1>5 DEF WholeInv

\* With every step of the channel, the other peers and the end of the daemon included.
LEMMA WholeStep ==
    ChannelInv /\ (\A p \in Peers : WholeInv(p)) /\ [ChannelNext]_channelVars
        => (\A p \in Peers : WholeInv(p))'
<1> SUFFICES ASSUME ChannelInv, \A p \in Peers : WholeInv(p), [ChannelNext]_channelVars,
                    NEW q \in Peers
             PROVE  WholeInv(q)'
  OBVIOUS
<1>1. ShapeInv /\ PeerInv(q) /\ WholeInv(q)
  BY DEF ChannelInv
<1>2. ASSUME NEW p \in Peers, Listen(p) \/ Serve(p) \/ Speak(p) \/ Leave(p) PROVE WholeInv(q)'
  <2>1. CASE q = p
    BY <1>1, <1>2, <2>1, ServeWhole, SpeakWhole
  <2>2. CASE q # p
    <3>1. /\ authorized' = authorized /\ outcome'[q] = outcome[q] /\ conn'[q] = conn[q]
          /\ server'[q] = server[q] /\ request'[q] = request[q] /\ client'[q] = client[q]
          /\ sending'[q] = sending[q] /\ up'[q] = up[q]
      BY <1>1, <1>2, <2>2, OthersStay
    <3> QED BY <1>1, <3>1 DEF WholeInv
  <2> QED BY <2>1, <2>2
<1>3. CASE Shutdown
  <2>1. /\ conn'[q] = "ended" /\ outcome' = outcome /\ server' = server /\ client' = client
        /\ sending' = sending /\ up' = up
    BY <1>3 DEF Shutdown, serving, calling, writing
  <2> QED BY <1>1, <2>1 DEF WholeInv
<1>4. CASE UNCHANGED channelVars
  BY <1>1, <1>4 DEF channelVars, WholeInv
<1> QED BY <1>2, <1>3, <1>4 DEF ChannelNext

LEMMA WholeInit == ChannelInit => \A p \in Peers : WholeInv(p)
<1> SUFFICES ASSUME ChannelInit, NEW p \in Peers PROVE WholeInv(p)
  OBVIOUS
<1>1. /\ conn[p] = "new" /\ outcome[p] = "none" /\ server[p] = "header"
      /\ client[p] = "idle" /\ up[p] = <<>> /\ DOMAIN <<>> = {}
  BY DEF ChannelInit
<1> QED BY <1>1 DEF WholeInv

(* Whatever a stray sends and wherever it stops, the handler is given whole  *)
(* frames within the limit that decode, of peers the loop has authorized     *)
(* (read_frame, serve_connection).                                           *)
THEOREM WholeRequests == ChannelSpec => []OnlyWholeRequests
<1>1. (\A p \in Peers : WholeInv(p)) => OnlyWholeRequests
  BY DEF WholeInv, OnlyWholeRequests
<1> QED BY <1>1, WholeInit, WholeStep, ChannelInvInit, ChannelInvStep, PTL DEF ChannelSpec

(* The limits of the two ends agree: no connection of a client ends over a   *)
(* request that the server finds malformed or too large (write_frame,        *)
(* read_frame).                                                              *)
THEOREM WriterFits == ChannelSpec => []WriterFitsReader
<1>1. (\A p \in Peers : WholeInv(p)) => WriterFitsReader
  BY DEF WholeInv, WriterFitsReader, Peers
<1> QED BY <1>1, WholeInit, WholeStep, ChannelInvInit, ChannelInvStep, PTL DEF ChannelSpec
=============================================================================
