------------------------- MODULE RegistrationProofs -------------------------
(***************************************************************************)
(* What holds of a registration in every state, and why no step breaks it. *)
(* A step is described by what it does to the state of Registration (an    *)
(* "effect"); MobileIPProofs shows that the steps of the three processes   *)
(* have these effects.  RegLifetime is any number of seconds that one byte *)
(* holds, and there is any supply of identifications.                      *)
(***************************************************************************)
EXTENDS Registration, TLAPS

-----------------------------------------------------------------------------
(***************************************************************************)
(* The packets there are.  A node leaves the foreign network or enters it, *)
(* the foreign agent relays what enters; the home agent answers both, and  *)
(* the foreign agent passes the answer on or refuses for itself.           *)
(***************************************************************************)
Full == Htons(RegLifetime)

Asking(life, coa, from, to) ==
    [type : {RequestType}, whole : {TRUE}, flags : {{}}, lifetime : {life},
     homeAddr : {mn}, homeAgent : {ha}, coAddr : {coa}, id : Ids,
     src : {from}, dst : {to}, link : Links]

Answering(codes, lives, from, to) ==
    [type : {ReplyType}, whole : {TRUE}, code : codes, lifetime : lives,
     homeAddr : {mn}, homeAgent : {ha}, id : Ids,
     src : {from}, dst : {to}, link : Links]

Leaving == Asking(0, ha, mn, hap)

Entering == Asking(Full, fa, mn, fap)

Relayed == Asking(Full, fa, fa, ha)

Released == Answering({0}, {0}, hap, mn)

Granted == Answering({0}, {Full}, ha, fa)

PassedOn == Answering({0}, {Full}, fap, mn)

Refused == Answering(Nat \ {0, 1}, Uint16, fap, mn)

Live == Leaving \cup Entering \cup Relayed \cup Released \cup Granted
          \cup PassedOn

Asks == Leaving \cup Entering \cup Relayed

-----------------------------------------------------------------------------
(***************************************************************************)
(* The type of the state: all lifetimes are of at most RegLifetime         *)
(* seconds, and an advertisement, a request, a binding, a visitor is of    *)
(* one of the two agents.                                                  *)
(***************************************************************************)
Seconds == {Htons(s) : s \in 0 .. RegLifetime}

SecondsLeft == {Htons(s) : s \in 1 .. RegLifetime}

HeardFrom(priv, pub) ==
    [private_addr : {priv}, COA : {pub}, lifetime : Uint16,
     reg_lifetime : {Full}, sequenceNum : Uint16]

AskedOf(priv, pub) ==
    [ipDst : {priv}, COA : {pub}, id : Ids, requestedLifetime : {Full},
     remainingLifetime : SecondsLeft]

Heard == HeardFrom(hap, ha) \cup HeardFrom(fap, fa)

Asked == AskedOf(hap, ha) \cup AskedOf(fap, fa)

NodeOK ==
    /\ home \in BOOLEAN /\ connected \in BOOLEAN /\ counting \in BOOLEAN
    /\ connected => counting
    /\ remainingConnectionTime \in Seconds
    /\ remainingConnectionTime # 0 => curr_coa = fa
    /\ current_advertisements \in Seq(Heard)
    /\ currentRequests \subseteq Asked
    /\ \A q, p \in currentRequests : q.id = p.id => q = p

BindingToForeignAgent ==
    [mobile_node_coa : {fa}, lifetime : SecondsLeft, id : Ids]

HomeAgentOK ==
    /\ DOMAIN table = Nodes /\ table = [n \in Nodes |-> table[n]]
    /\ DOMAIN list = Nodes /\ list = [n \in Nodes |-> list[n]]
    /\ \/ table[mn] = NoEntry /\ list[mn] = 0
       \/ table[mn] \in BindingToForeignAgent /\ list[mn] = 1

PendingOfNode ==
    [ipSrc : {mn}, ipDst : {fap}, homeAgent : {ha}, id : Ids,
     lifetimeReq : {Full}, lifetimeRem : SecondsLeft]

VisitOfNode ==
    [ipSrc : {mn}, homeAgent : {ha}, id : Ids, lifetimeReq : {Full},
     lifetimeRem : Seconds]

ForeignAgentOK ==
    /\ registrationReq \in Seq(PendingOfNode)
    /\ Len(registrationReq) <= maxRequests
    /\ visitorMap \subseteq VisitOfNode
    /\ "fa" \in forgetful => visitorMap = {}

NetOK == net \subseteq Live \cup Refused

-----------------------------------------------------------------------------
(***************************************************************************)
(* Who backs a belief of x seconds.  All three processes are compared at   *)
(* the beginning of the current second: a timer that has run this second   *)
(* has taken one off already.  The home agent backs it with the binding;   *)
(* a deregistration the node remembers stands in for a binding that it     *)
(* ended.  The foreign agent backs it with the visitor.  An entry that has *)
(* lapsed in this second counts for one.                                   *)
(***************************************************************************)
Ran(t) == IF t \in ticked THEN 1 ELSE 0

Bound == IF AtHome THEN 0 ELSE Ntohs(table[mn].lifetime)

HomeBacks(x) ==
    \/ "ha" \in forgetful
    \/ x <= Bound + Ran("ha")
    \/ x <= Ran("requests")
    \/ \E q \in currentRequests :
         q.ipDst = hap /\ x <= Ntohs(q.remainingLifetime) + Ran("requests")

VisitBacks(x) ==
    \/ "fa" \in forgetful
    \/ x <= Ran("fa")
    \/ \E v \in visitorMap : x <= Ntohs(v.lifetimeRem) + Ran("fa")

(***************************************************************************)
(* No identification is under way twice, and none that is bound already.   *)
(***************************************************************************)
OneEach ==
    /\ \A p, q \in net \cap Live : p.id = q.id => p = q
    /\ ~AtHome => \A p \in net \cap Asks : p.id # table[mn].id

(***************************************************************************)
(* What is under way for a request the node remembers is about that        *)
(* request; a deregistration under way was sent this second, and a grant   *)
(* under way was given this second.                                        *)
(***************************************************************************)
Known ==
    \A q \in currentRequests, p \in net \cap Live : p.id = q.id =>
        /\ p.lifetime = 0 <=> q.ipDst = hap
        /\ p \in Leaving =>
             RegLifetime <= Ntohs(q.remainingLifetime) + Ran("requests")
        /\ p \in Granted \cup PassedOn => HomeBacks(RegLifetime)

(***************************************************************************)
(* The foreign agent waits for the answer to what it has relayed, and has  *)
(* entered the node when it passes a grant on.                             *)
(***************************************************************************)
AwaitedIn(items, i) ==
    \E item \in Range(items) :
        item.id = i /\ RegLifetime <= Ntohs(item.lifetimeRem) + Ran("fa")

Awaited ==
    /\ \A p \in net \cap (Relayed \cup Granted) :
         VisitBacks(RegLifetime) \/ AwaitedIn(registrationReq, p.id)
    /\ \A p \in net \cap PassedOn : VisitBacks(RegLifetime)

Believed == Ntohs(remainingConnectionTime) + Ran("connection") - 1

Belief == Believes => HomeBacks(Believed) /\ VisitBacks(Believed)

TypesOK == NodeOK /\ HomeAgentOK /\ ForeignAgentOK /\ NetOK

Inv == TypesOK /\ OneEach /\ Known /\ Awaited /\ Belief

-----------------------------------------------------------------------------
(***************************************************************************)
(* A number of seconds that one byte holds, in network byte order: it is a *)
(* uint16_t, ntohs finds it again, and a second less is a second less.     *)
(***************************************************************************)
LEMMA SecondsOnTheWire ==
    ASSUME NEW s \in 0 .. (Byte - 1)
    PROVE  /\ Htons(s) \in Uint16
           /\ Htons(s) = 0 <=> s = 0
           /\ Ntohs(Htons(s)) = s
           /\ s > 0 => OneSecondLess(Htons(s)) = Htons(s - 1)
<1>1. ASSUME NEW b \in Nat, b >= 2, NEW t \in 0 .. (b - 1)
      PROVE  /\ t % b = t /\ t \div b = 0
             /\ (t * b) % b = 0 /\ (t * b) \div b = t
             /\ t * b \in 0 .. (b * b - 1)
             /\ t * b = 0 <=> t = 0
             /\ t > 0 => t * b >= b /\ t * b - b = (t - 1) * b
  <2>1. t * b <= (b - 1) * b /\ (b - 1) * b = b * b - b
    BY <1>1
  <2>2. t * b \in Nat /\ (t > 0 => t * b > 0)
    BY <1>1
  <2>3. t > 0 => t * b >= b /\ t * b - b = (t - 1) * b
    BY <1>1
  <2> QED
    BY <1>1, <2>1, <2>2, <2>3
<1>2. Byte \in Nat /\ Byte >= 2 /\ 1 \in 0 .. (Byte - 1)
  BY ByteAssumption
<1>3. \A t \in 0 .. (Byte - 1) : Htons(t) = t * Byte
  BY <1>1, <1>2 DEF Htons
<1>4. Htons(s) \in Uint16 /\ (Htons(s) = 0 <=> s = 0)
  <2>1. s * Byte \in 0 .. (Byte * Byte - 1) /\ (s * Byte = 0 <=> s = 0)
    BY <1>1, <1>2, Zenon
  <2> QED
    BY <1>3, <2>1, Zenon DEF Uint16, Word
<1>5. Ntohs(Htons(s)) = s
  <2>1. Htons(s * Byte) = 0 * Byte + s
    BY <1>1, <1>2 DEF Htons
  <2> QED
    BY <1>2, <1>3, <2>1 DEF Ntohs
<1>6. s > 0 => OneSecondLess(Htons(s)) = Htons(s - 1)
  <2> SUFFICES ASSUME s > 0
               PROVE  OneSecondLess(Htons(s)) = Htons(s - 1)
    BY Zenon
  <2>1. s * Byte >= Byte /\ s * Byte - Byte = (s - 1) * Byte
    BY <1>1, <1>2, Zenon
  <2>2. Htons(s) = s * Byte /\ Htons(1) = Byte /\ Htons(s - 1) = (s - 1) * Byte
    BY <1>2, <1>3
  <2> QED
    BY <2>1, <2>2, Zenon DEF OneSecondLess, Sub16
<1> QED
  BY <1>4, <1>5, <1>6, Zenon

(***************************************************************************)
(* The difference of two uint16_t is one, and nothing is left of a number  *)
(* less itself.                                                            *)
(***************************************************************************)
LEMMA DifferenceOnTheWire ==
    ASSUME NEW a \in Uint16, NEW b \in Uint16
    PROVE  Sub16(a, b) \in Uint16 /\ Sub16(a, a) = 0 /\ Sub16(a, 0) = a
<1>1. Word \in Nat /\ Word > 0
  <2>1. ASSUME NEW c \in Nat, c >= 2
        PROVE  c * c \in Nat /\ c * c > 0
    BY <2>1
  <2> QED
    BY <2>1, ByteAssumption, Zenon DEF Word
<1> QED
  BY <1>1 DEF Sub16, Uint16

(***************************************************************************)
(* The lifetimes of the state as seconds.                                  *)
(***************************************************************************)
LEMMA InSeconds ==
    ASSUME NEW x \in Seconds
    PROVE  /\ Ntohs(x) \in 0 .. RegLifetime
           /\ x \in Uint16
           /\ x = 0 <=> Ntohs(x) = 0
           /\ x # 0 => x \in SecondsLeft
<1>1. PICK s \in 0 .. RegLifetime : x = Htons(s)
  BY Zenon DEF Seconds
<1>2. s \in 0 .. (Byte - 1)
  BY MobileIPAssumption, ByteAssumption
<1>3. Ntohs(x) = s /\ x \in Uint16 /\ (x = 0 <=> s = 0)
  BY <1>1, <1>2, SecondsOnTheWire, Zenon
<1>4. s # 0 => s \in 1 .. RegLifetime
  BY MobileIPAssumption
<1> QED
  BY <1>1, <1>3, <1>4, Zenon DEF SecondsLeft

(***************************************************************************)
(* A lifetime of at least a second, before and after a timer has run.      *)
(***************************************************************************)
LEMMA InSecondsLeft ==
    ASSUME NEW x \in SecondsLeft
    PROVE  /\ x \in Seconds
           /\ x # 0
           /\ Ntohs(x) \in 1 .. RegLifetime
           /\ OneSecondLess(x) \in Seconds
           /\ Ntohs(OneSecondLess(x)) = Ntohs(x) - 1
<1>1. PICK s \in 1 .. RegLifetime : x = Htons(s)
  BY Zenon DEF SecondsLeft
<1>2. /\ s \in 1 .. (Byte - 1) /\ s \in 0 .. (Byte - 1)
      /\ s \in 0 .. RegLifetime
      /\ s - 1 \in 0 .. (Byte - 1)
      /\ s - 1 \in 0 .. RegLifetime
  BY MobileIPAssumption, ByteAssumption
<1>3. Ntohs(x) = s /\ x # 0
  BY <1>1, <1>2, SecondsOnTheWire
<1>4. OneSecondLess(x) = Htons(s - 1)
  BY <1>1, <1>2, SecondsOnTheWire
<1>5. Ntohs(OneSecondLess(x)) = s - 1
  BY <1>2, <1>4, SecondsOnTheWire, Zenon
<1> QED
  BY <1>1, <1>2, <1>3, <1>4, <1>5, Zenon DEF Seconds

(***************************************************************************)
(* The lifetime that is advertised and asked for.                          *)
(***************************************************************************)
LEMMA FullIsLeft ==
    Full \in SecondsLeft /\ Full \in Seconds /\ Full # 0 /\ Full \in Uint16
      /\ Ntohs(Full) = RegLifetime /\ 0 \in Seconds /\ Ntohs(0) = 0
<1>1. RegLifetime \in 1 .. RegLifetime /\ RegLifetime \in 0 .. (Byte - 1)
      /\ 0 \in 0 .. RegLifetime /\ 0 \in 0 .. (Byte - 1)
  BY MobileIPAssumption, ByteAssumption
<1>2. Full \in SecondsLeft
  BY <1>1, Zenon DEF Full, SecondsLeft
<1>3. Htons(0) = 0
  BY <1>1, SecondsOnTheWire, Zenon
<1>4. 0 \in Seconds
  BY <1>1, <1>3, Zenon DEF Seconds
<1> QED
  BY <1>1, <1>2, <1>3, <1>4, InSecondsLeft, InSeconds, SecondsOnTheWire, Zenon
    DEF Full

(***************************************************************************)
(* What a run of a timer does to the second: it goes on, or it is over     *)
(* because every timer has run.                                            *)
(***************************************************************************)
GoesOn(t) == ticked' = ticked \cup {t}

IsOver(t) ==
    /\ ticked' = {}
    /\ {"ha", "requests"} \subseteq ticked \cup {t}
    /\ counting' => "connection" \in ticked \cup {t}

(***************************************************************************)
(* HasRun does one or the other.                                           *)
(***************************************************************************)
LEMMA SecondGoesOnOrIsOver ==
    ASSUME NEW t, HasRun(t)
    PROVE  GoesOn(t) \/ IsOver(t)
BY Zenon DEF HasRun, GoesOn, IsOver, Timers

(***************************************************************************)
(* What is under way after a step.                                         *)
(***************************************************************************)
LEMMA NetAfter ==
    ASSUME NEW gone, NEW new, UnderWay(gone, new)
    PROVE  /\ net' \subseteq (net \ gone) \cup new
           /\ \A t : IsOver(t) /\ t \in {"ha", "fa", "adv", "requests", "connection"}
                => net' = new
<1>1. ASSUME NEW t \in {"ha", "fa", "adv", "requests", "connection"}, IsOver(t)
      PROVE  ticked' = {} /\ ticked # {}
  BY <1>1, Zenon DEF IsOver
<1> QED
  BY <1>1, Zenon DEF UnderWay

-----------------------------------------------------------------------------
(***************************************************************************)
(* The clock of a step: the timers T have run in it, and d seconds are     *)
(* over with it.                                                           *)
(***************************************************************************)
Clock(T, d) ==
    \/ d = 0 /\ ticked' = ticked \cup T
    \/ /\ d = 1
       /\ ticked' = {}
       /\ {"ha", "requests"} \subseteq ticked \cup T
       /\ counting' => "connection" \in ticked \cup T
       /\ net' \subseteq out'

(***************************************************************************)
(* The numbers in HomeBacks and VisitBacks.                                *)
(***************************************************************************)
LEMMA NumbersOfState ==
    ASSUME TypesOK
    PROVE  /\ Bound \in 0 .. RegLifetime
           /\ \A q \in currentRequests : Ntohs(q.remainingLifetime) \in 1 .. RegLifetime
           /\ \A v \in visitorMap : Ntohs(v.lifetimeRem) \in 0 .. RegLifetime
<1>1. Bound \in 0 .. RegLifetime
  <2>1. CASE AtHome
    BY <2>1, MobileIPAssumption DEF Bound
  <2>2. CASE ~AtHome
    <3>1. table[mn] \in BindingToForeignAgent
      BY <2>2, Zenon DEF TypesOK, HomeAgentOK, AtHome
    <3>2. table[mn].lifetime \in SecondsLeft
      BY <3>1, Zenon DEF BindingToForeignAgent
    <3> QED
      BY <2>2, <3>2, InSecondsLeft DEF Bound
  <2> QED
    BY <2>1, <2>2, Zenon
<1>2. \A q \in currentRequests : q.remainingLifetime \in SecondsLeft
  BY Zenon DEF TypesOK, NodeOK, Asked, AskedOf
<1>3. \A v \in visitorMap : v.lifetimeRem \in Seconds
  BY Zenon DEF TypesOK, ForeignAgentOK, VisitOfNode
<1> QED
  BY <1>1, <1>2, <1>3, InSecondsLeft, InSeconds, Zenon

(***************************************************************************)
(* What is backed for long is backed for less long.                        *)
(***************************************************************************)
LEMMA BacksLess ==
    ASSUME TypesOK, NEW x \in Int, NEW y \in Int, y <= x
    PROVE  /\ HomeBacks(x) => HomeBacks(y)
           /\ VisitBacks(x) => VisitBacks(y)
<1>1. Ran("ha") \in {0, 1} /\ Ran("requests") \in {0, 1} /\ Ran("fa") \in {0, 1}
  BY Zenon DEF Ran
<1>2. /\ Bound \in Int
      /\ \A q \in currentRequests : Ntohs(q.remainingLifetime) \in Int
      /\ \A v \in visitorMap : Ntohs(v.lifetimeRem) \in Int
  BY NumbersOfState
<1>3. HomeBacks(x) => HomeBacks(y)
  BY <1>1, <1>2 DEF HomeBacks
<1>4. VisitBacks(x) => VisitBacks(y)
  BY <1>1, <1>2 DEF VisitBacks
<1> QED
  BY <1>3, <1>4, Zenon

(***************************************************************************)
(* The home agent goes on backing while neither it nor the timer of the    *)
(* requests has a step.                                                    *)
(***************************************************************************)
LEMMA HomeBacksOn ==
    ASSUME TypesOK, NEW T \in SUBSET {"fa", "adv", "connection", "hear"},
           NEW d \in {0, 1}, Clock(T, d), table' = table,
           forgetful \subseteq forgetful', currentRequests \subseteq currentRequests',
           NEW x \in Int, HomeBacks(x)
    PROVE  HomeBacks(x - d)'
<1>1. /\ Ran("ha")' >= Ran("ha") - d /\ Ran("ha") \in Int /\ Ran("ha")' \in Int
      /\ Ran("requests")' >= Ran("requests") - d
      /\ Ran("requests") \in Int /\ Ran("requests")' \in Int
  BY DEF Ran, Clock
<1>2. Bound' = Bound
  BY Zenon DEF Bound, AtHome
<1>3. Bound \in Int /\ \A q \in currentRequests : Ntohs(q.remainingLifetime) \in Int
  BY NumbersOfState
<1>4. CASE "ha" \in forgetful
  BY <1>4, Zenon DEF HomeBacks
<1>5. CASE x <= Bound + Ran("ha")
  BY <1>1, <1>2, <1>3, <1>5 DEF HomeBacks
<1>6. CASE x <= Ran("requests")
  BY <1>1, <1>6 DEF HomeBacks
<1>7. ASSUME NEW q \in currentRequests, q.ipDst = hap,
             x <= Ntohs(q.remainingLifetime) + Ran("requests")
      PROVE  HomeBacks(x - d)'
  <2>1. x - d <= Ntohs(q.remainingLifetime) + Ran("requests")'
    BY <1>1, <1>3, <1>7
  <2> QED
    BY <1>7, <2>1, Zenon DEF HomeBacks
<1> QED
  BY <1>4, <1>5, <1>6, <1>7, Zenon DEF HomeBacks

(***************************************************************************)
(* So does the foreign agent, while it has no step.                        *)
(***************************************************************************)
LEMMA VisitBacksOn ==
    ASSUME TypesOK, NEW T, "fa" \notin T,
           NEW d \in {0, 1}, Clock(T, d), visitorMap' = visitorMap,
           forgetful \cap {"fa"} \subseteq forgetful',
           NEW x \in Int, VisitBacks(x)
    PROVE  VisitBacks(x - d)'
<1>1. Ran("fa")' >= Ran("fa") - d /\ Ran("fa") \in Int /\ Ran("fa")' \in Int
  BY DEF Ran, Clock
<1>2. \A v \in visitorMap : Ntohs(v.lifetimeRem) \in Int
  BY NumbersOfState
<1> QED
  BY <1>1, <1>2 DEF VisitBacks

(***************************************************************************)
(* A run of a timer as a clock.                                            *)
(***************************************************************************)
LEMMA ClockOfTimer ==
    ASSUME NEW t \in {"ha", "fa", "adv", "requests", "connection"}, HasRun(t),
           NEW gone, NEW new, UnderWay(gone, new), new \subseteq out'
    PROVE  \E d \in {0, 1} : Clock({t}, d)
<1>1. CASE GoesOn(t)
  BY <1>1, Zenon DEF GoesOn, Clock
<1>2. CASE IsOver(t)
  <2>1. net' \subseteq out'
    BY <1>2, NetAfter
  <2>2. Clock({t}, 1)
    BY <1>2, <2>1, Zenon DEF IsOver, Clock
  <2> QED
    BY <2>2, Zenon
<1> QED
  BY <1>1, <1>2, SecondGoesOnOrIsOver, Zenon

(***************************************************************************)
(* The kinds of packets are told apart by type, lifetime and addresses.    *)
(***************************************************************************)
LEMMA KindsDiffer ==
    /\ Asks \cap (Released \cup Granted \cup PassedOn \cup Refused) = {}
    /\ Leaving \cap Entering = {} /\ Leaving \cap Relayed = {}
    /\ Entering \cap Relayed = {}
    /\ Released \cap Granted = {} /\ Released \cap PassedOn = {}
    /\ Granted \cap PassedOn = {}
    /\ Refused \cap (Released \cup Granted \cup PassedOn) = {}
<1>1. /\ \A p \in Asks : p.type = RequestType
      /\ \A p \in Released \cup Granted \cup PassedOn \cup Refused :
           p.type = ReplyType
  BY Zenon DEF Asks, Leaving, Entering, Relayed, Asking, Released, Granted,
     PassedOn, Refused, Answering
<1>2. /\ \A p \in Leaving : p.dst = hap
      /\ \A p \in Entering : p.dst = fap
      /\ \A p \in Relayed : p.dst = ha
      /\ \A p \in Released : p.src = hap /\ p.code = 0
      /\ \A p \in Granted : p.src = ha /\ p.code = 0
      /\ \A p \in PassedOn : p.src = fap /\ p.code = 0
      /\ \A p \in Refused : p.code # 0
  BY Zenon DEF Leaving, Entering, Relayed, Asking, Released, Granted,
     PassedOn, Refused, Answering
<1>3. ha # hap /\ ha # fap /\ hap # fap
  BY MobileIPAssumption, Zenon
<1>4. RequestType # ReplyType
  BY DEF RequestType, ReplyType
<1> QED
  BY <1>1, <1>2, <1>3, <1>4, Zenon

-----------------------------------------------------------------------------
(***************************************************************************)
(* What the node does to its requests.  Those it keeps may have been aged; *)
(* each new one has a packet of its own, to the same agent.                *)
(***************************************************************************)
OfAnAgent(a) ==
    /\ \/ a.private_addr = hap /\ a.COA = ha
       \/ a.private_addr = fap /\ a.COA = fa
    /\ a.reg_lifetime = Full

Pushed(kept) ==
    /\ kept \subseteq currentRequests'
    /\ out' \subseteq Leaving \cup Entering
    /\ \A p, q \in out' : p.id = q.id => p = q
    /\ \A q \in currentRequests' \ kept :
         /\ q.remainingLifetime = Full
         /\ \E p \in out' : p.id = q.id /\ (p.lifetime = 0 <=> q.ipDst = hap)

(***************************************************************************)
(* The case of no call of makePacket at all.                               *)
(***************************************************************************)
LEMMA MadeNone ==
    ASSUME out' = {}, currentRequests' = currentRequests
    PROVE  Pushed(currentRequests)
BY Zenon DEF Pushed

(***************************************************************************)
(* An entry of the node's list of advertisements is of one of the agents.  *)
(***************************************************************************)
LEMMA HeardOfAgent ==
    ASSUME NEW e \in Heard
    PROVE  OfAnAgent(e)
BY Zenon DEF Heard, HeardFrom, OfAnAgent

(***************************************************************************)
(* An entry that was aged.                                                 *)
(***************************************************************************)
LEMMA AgedHeard ==
    ASSUME NEW e \in Heard
    PROVE  [e EXCEPT !.lifetime = OneSecondLess(e.lifetime)] \in Heard
<1>1. e.lifetime \in Uint16
  BY Zenon DEF Heard, HeardFrom
<1>2. 1 \in 0 .. (Byte - 1)
  BY ByteAssumption
<1>3. OneSecondLess(e.lifetime) \in Uint16
  BY <1>1, <1>2, SecondsOnTheWire, DifferenceOnTheWire, Zenon DEF OneSecondLess
<1> QED
  BY <1>3, Zenon DEF Heard, HeardFrom

(***************************************************************************)
(* What a step of the node does to the node.  "Quiet": it believes no more *)
(* than it did, "s" seconds later.                                         *)
(***************************************************************************)
Quiet(s) ==
    Believes' =>
        Believes /\ Ntohs(remainingConnectionTime)' = Ntohs(remainingConnectionTime) - s

NodeEffect(s) == NodeOK' /\ Pushed(currentRequests) /\ Quiet(s)

(***************************************************************************)
(* A step of the node, other than the timer of its requests, after which   *)
(* its belief is backed.                                                   *)
(***************************************************************************)
LEMMA NodeStep ==
    ASSUME Inv, NodeOK', Pushed(currentRequests), NEW gone, NodePushes(gone),
           UNCHANGED <<homeAgent, registrationReq, visitorMap, forgetful>>,
           NEW T \in SUBSET {"adv", "connection", "hear"}, NEW d \in {0, 1},
           Clock(T, d), Belief'
    PROVE  Inv'
<1>1. TypesOK
  BY Zenon DEF Inv
<1>2. /\ net' \subseteq (net \ gone) \cup out'
      /\ d = 1 => net' \subseteq out'
  <2>1. net' \subseteq (net \ gone) \cup {p \in out' : p.dst = agentOf(at)}
    BY NetAfter, Zenon DEF NodePushes
  <2> QED
    BY <2>1 DEF Clock
<1>3. \A p \in out' : /\ \A q \in currentRequests \cup net : q.id # p.id
                      /\ ~AtHome => table[mn].id # p.id
  BY Zenon DEF NodePushes, LeastFresh, UsedIds
<1>4. TypesOK'
  <2>1. HomeAgentOK' /\ ForeignAgentOK'
    BY <1>1, Zenon DEF TypesOK, HomeAgentOK, ForeignAgentOK, homeAgent
  <2>2. NetOK'
    BY <1>1, <1>2, Zenon DEF TypesOK, NetOK, Pushed, Live
  <2> QED
    BY <2>1, <2>2, Zenon DEF TypesOK
<1>5. table' = table /\ (AtHome' <=> AtHome)
  BY Zenon DEF homeAgent, AtHome
<1>6. OneEach'
  <2>1. ASSUME NEW p \in net' \cap Live, NEW q \in net' \cap Live, p.id = q.id
        PROVE  p = q
    BY <1>2, <1>3, <2>1, Zenon DEF Inv, OneEach, Pushed
  <2>2. ASSUME ~AtHome', NEW p \in net' \cap Asks
        PROVE  p.id # table'[mn].id
    BY <1>2, <1>3, <1>5, <2>2, Zenon DEF Inv, OneEach
  <2> QED
    BY <2>1, <2>2, Zenon DEF OneEach
<1>7. HomeBacks(RegLifetime) /\ d = 0 => HomeBacks(RegLifetime)'
  <2>1. HomeBacks(RegLifetime) => HomeBacks(RegLifetime - d)'
    BY <1>1, <1>5, HomeBacksOn, MobileIPAssumption DEF Pushed
  <2> QED
    BY <2>1, MobileIPAssumption
<1>8. VisitBacks(RegLifetime) /\ d = 0 => VisitBacks(RegLifetime)'
  <2>1. VisitBacks(RegLifetime) => VisitBacks(RegLifetime - d)'
    BY <1>1, VisitBacksOn, MobileIPAssumption
  <2> QED
    BY <2>1, MobileIPAssumption
<1>9. Known'
  <2> SUFFICES ASSUME NEW q \in currentRequests', NEW p \in net' \cap Live, p.id = q.id
               PROVE  /\ p.lifetime = 0 <=> q.ipDst = hap
                      /\ p \in Leaving =>
                           RegLifetime <= Ntohs(q.remainingLifetime) + Ran("requests")'
                      /\ p \in Granted \cup PassedOn => HomeBacks(RegLifetime)'
    BY Zenon DEF Known
  <2>1. CASE p \in out'
    <3>1. q \notin currentRequests
      BY <1>3, <2>1, Zenon
    <3>2. q.remainingLifetime = Full /\ (p.lifetime = 0 <=> q.ipDst = hap)
      BY <2>1, <3>1 DEF Pushed
    <3>3. p \in Asks
      BY <2>1, Zenon DEF Pushed, Asks
    <3>4. RegLifetime <= Ntohs(q.remainingLifetime) + Ran("requests")'
      BY <3>2, FullIsLeft, MobileIPAssumption DEF Ran
    <3> QED
      BY <3>2, <3>3, <3>4, KindsDiffer, Zenon
  <2>2. CASE p \notin out'
    <3>1. p \in net \cap Live /\ d = 0
      BY <1>2, <2>2, Zenon
    <3>2. q \in currentRequests
      BY <1>3, <3>1 DEF Pushed
    <3>3. /\ p.lifetime = 0 <=> q.ipDst = hap
          /\ p \in Leaving =>
               RegLifetime <= Ntohs(q.remainingLifetime) + Ran("requests")
          /\ p \in Granted \cup PassedOn => HomeBacks(RegLifetime)
      BY <3>1, <3>2, Zenon DEF Inv, Known
    <3>4. Ran("requests") = Ran("requests")'
      BY <3>1, Zenon DEF Clock, Ran
    <3> QED
      BY <1>7, <3>1, <3>3, <3>4, Zenon
  <2> QED
    BY <2>1, <2>2, Zenon
<1>10. Awaited'
  <2>1. ASSUME NEW p \in net' \cap (Relayed \cup Granted \cup PassedOn)
        PROVE  p \in net /\ d = 0
    <3>1. p \notin out'
      BY KindsDiffer, Zenon DEF Pushed, Asks
    <3> QED
      BY <1>2, <3>1, Zenon
  <2>2. d = 0 => Ran("fa") = Ran("fa")'
    BY Zenon DEF Clock, Ran
  <2>3. \A i : d = 0 /\ AwaitedIn(registrationReq, i) => AwaitedIn(registrationReq, i)'
    BY <2>2, Zenon DEF AwaitedIn
  <2> QED
    BY <1>8, <2>1, <2>3, Zenon DEF Inv, Awaited
<1> QED
  BY <1>4, <1>6, <1>9, <1>10, Zenon DEF Inv

(***************************************************************************)
(* The belief of a node that believes no more than before.                 *)
(***************************************************************************)
LEMMA BeliefKept ==
    ASSUME TypesOK, Belief, NEW s \in {0, 1}, Quiet(s), NEW d \in {0, 1},
           Believes' => Ran("connection")' - s <= Ran("connection") - d,
           Believes' => \A x \in Int : HomeBacks(x) => HomeBacks(x - d)',
           Believes' => \A x \in Int : VisitBacks(x) => VisitBacks(x - d)'
    PROVE  Belief'
<1> SUFFICES ASSUME Believes'
             PROVE  HomeBacks(Believed)' /\ VisitBacks(Believed)'
  BY Zenon DEF Belief
<1>1. /\ Believes
      /\ Ntohs(remainingConnectionTime)' = Ntohs(remainingConnectionTime) - s
  BY Zenon DEF Quiet
<1>2. Ntohs(remainingConnectionTime) \in Int
  BY InSeconds DEF TypesOK, NodeOK
<1>3. Ran("connection") \in Int /\ Ran("connection")' \in Int
  BY DEF Ran
<1>4. Believed \in Int /\ Believed' \in Int /\ Believed' + d <= Believed
  BY <1>1, <1>2, <1>3 DEF Believed
<1>5. PICK b \in Int : b = Believed'
  BY <1>4, Zenon
<1>6. HomeBacks(b + d) /\ VisitBacks(b + d)
  <2>1. PICK c \in Int : c = Believed
    BY <1>4, Zenon
  <2>2. HomeBacks(c) /\ VisitBacks(c)
    BY <1>1, <2>1, Zenon DEF Belief
  <2>3. b + d \in Int
    OBVIOUS
  <2>4. b + d <= c
    BY <1>4, <1>5, <2>1, Zenon
  <2> QED
    BY <2>2, <2>3, <2>4, BacksLess, Zenon
<1>7. b + d \in Int /\ (b + d) - d = b
  OBVIOUS
<1>8. HomeBacks(b + d - d)' /\ VisitBacks(b + d - d)'
  BY <1>6, <1>7
<1>9. HomeBacks(b)' /\ VisitBacks(b)'
  BY <1>7, <1>8
<1> QED
  BY <1>5, <1>9, Zenon DEF HomeBacks, VisitBacks

(***************************************************************************)
(* The clock and the belief: the timer of the connection and the node's    *)
(* belief count the same seconds.                                          *)
(***************************************************************************)
LEMMA ConnectionClock ==
    ASSUME NodeOK', NEW T, NEW d \in {0, 1}, Clock(T, d), Believes'
    PROVE  /\ "connection" \notin T => Ran("connection")' - 0 <= Ran("connection") - d
           /\ "connection" \in T /\ "connection" \notin ticked =>
                Ran("connection")' - 1 <= Ran("connection") - d
<1>1. counting'
  BY Zenon DEF NodeOK, Believes
<1> QED
  BY <1>1 DEF Clock, Ran

(***************************************************************************)
(* A step of the node after which it believes no more than before.         *)
(***************************************************************************)
LEMMA QuietNodeStep ==
    ASSUME Inv, NodeOK', Pushed(currentRequests), NEW gone, NodePushes(gone),
           UNCHANGED <<homeAgent, registrationReq, visitorMap, forgetful>>,
           NEW T \in SUBSET {"adv", "connection", "hear"}, NEW d \in {0, 1},
           Clock(T, d), NEW s \in {0, 1}, Quiet(s),
           s = 1 <=> "connection" \in T, T \cap {"connection"} \cap ticked = {}
    PROVE  Inv'
<1>1. TypesOK /\ Belief
  BY Zenon DEF Inv
<1>2. Believes' => Ran("connection")' - s <= Ran("connection") - d
  <2>1. CASE s = 0
    BY <2>1, ConnectionClock, Zenon
  <2>2. CASE s = 1
    BY <2>2, ConnectionClock, Zenon
  <2> QED
    BY <2>1, <2>2, Zenon
<1>3. \A x \in Int : HomeBacks(x) => HomeBacks(x - d)'
  BY <1>1, HomeBacksOn, Zenon DEF Pushed, homeAgent
<1>4. \A x \in Int : VisitBacks(x) => VisitBacks(x - d)'
  BY <1>1, VisitBacksOn, Zenon
<1>5. Belief'
  BY <1>1, <1>2, <1>3, <1>4, BeliefKept, Zenon
<1> QED
  BY <1>5, NodeStep, Zenon

(***************************************************************************)
(* A timer of the node that leaves its requests alone.                     *)
(***************************************************************************)
LEMMA QuietTimerStep ==
    ASSUME Inv, NEW t \in {"adv", "connection"}, HasRun(t), t \notin ticked,
           NEW s \in {0, 1}, NodeEffect(s), s = 1 <=> t = "connection",
           NodePushes({}),
           UNCHANGED <<homeAgent, registrationReq, visitorMap, forgetful>>
    PROVE  Inv'
<1>1. PICK d \in {0, 1} : Clock({t}, d)
  BY ClockOfTimer, ZenonT(30) DEF NodePushes
<1>2. NodeOK' /\ Pushed(currentRequests) /\ Quiet(s)
  BY Zenon DEF NodeEffect
<1> QED
  BY <1>1, <1>2, QuietNodeStep

(***************************************************************************)
(* The timer of the requests: each is a second older, and those that were  *)
(* in their last second are gone.                                          *)
(***************************************************************************)
RequestsAge ==
    /\ NodeOK'
    /\ out' = {}
    /\ Believes' = Believes
    /\ remainingConnectionTime' = remainingConnectionTime
    /\ \A q \in currentRequests' : \E p \in currentRequests :
         /\ q.id = p.id /\ q.ipDst = p.ipDst
         /\ Ntohs(q.remainingLifetime) = Ntohs(p.remainingLifetime) - 1
    /\ \A p \in currentRequests :
         \/ Ntohs(p.remainingLifetime) = 1
         \/ \E q \in currentRequests' :
              /\ q.ipDst = p.ipDst
              /\ Ntohs(q.remainingLifetime)
                   = Ntohs(p.remainingLifetime) - 1

(***************************************************************************)
(* The effect of that timer.                                               *)
(***************************************************************************)
LEMMA RequestsAged ==
    ASSUME NodeOK, out' = {},
           UNCHANGED <<home, connected, remainingConnectionTime, curr_coa,
                       current_advertisements, counting>>,
           currentRequests' =
             {q \in {[p EXCEPT !.remainingLifetime = OneSecondLess(@)] :
                       p \in currentRequests} : q.remainingLifetime # 0}
    PROVE  RequestsAge
<1> DEFINE aged(p) == [p EXCEPT !.remainingLifetime = OneSecondLess(@)]
<1>1. ASSUME NEW p \in currentRequests
      PROVE  /\ aged(p).id = p.id /\ aged(p).ipDst = p.ipDst
             /\ aged(p).remainingLifetime = OneSecondLess(p.remainingLifetime)
             /\ p.remainingLifetime \in SecondsLeft
             /\ aged(p).remainingLifetime # 0 => aged(p) \in Asked
             /\ aged(p).remainingLifetime \in Seconds
             /\ Ntohs(aged(p).remainingLifetime) = Ntohs(p.remainingLifetime) - 1
  <2>1. p \in Asked
    BY Zenon DEF NodeOK
  <2>2. p.remainingLifetime \in SecondsLeft
    BY <2>1, Zenon DEF Asked, AskedOf
  <2>3. aged(p).remainingLifetime = OneSecondLess(p.remainingLifetime)
    BY <2>1, Zenon DEF Asked, AskedOf
  <2>4. /\ OneSecondLess(p.remainingLifetime) \in Seconds
        /\ Ntohs(OneSecondLess(p.remainingLifetime))
             = Ntohs(p.remainingLifetime) - 1
    BY <2>2, InSecondsLeft, Zenon
  <2>5. aged(p).remainingLifetime # 0 =>
          OneSecondLess(p.remainingLifetime) \in SecondsLeft
    BY <2>3, <2>4, InSeconds, Zenon
  <2>6. aged(p).remainingLifetime # 0 => aged(p) \in Asked
    BY <2>1, <2>5, Zenon DEF Asked, AskedOf
  <2>7. aged(p).id = p.id /\ aged(p).ipDst = p.ipDst
    BY <2>1, Zenon DEF Asked, AskedOf
  <2> QED
    BY <2>2, <2>3, <2>4, <2>6, <2>7, Zenon
<1>2. currentRequests' =
        {q \in {aged(p) : p \in currentRequests} : q.remainingLifetime # 0}
  BY Zenon
<1> HIDE DEF aged
<1>3. \A q \in currentRequests' : \E p \in currentRequests :
        q = aged(p) /\ q.remainingLifetime # 0
  BY <1>2, Zenon
<1>4. /\ currentRequests' \subseteq Asked
      /\ \A q, p \in currentRequests' : q.id = p.id => q = p
  BY <1>1, <1>3 DEF NodeOK
<1>5. NodeOK'
  BY <1>4, Zenon DEF NodeOK
<1>6. \A q \in currentRequests' : \E p \in currentRequests :
        /\ q.id = p.id /\ q.ipDst = p.ipDst
        /\ Ntohs(q.remainingLifetime) = Ntohs(p.remainingLifetime) - 1
  BY <1>1, <1>3, Zenon
<1>7. ASSUME NEW p \in currentRequests
      PROVE  \/ Ntohs(p.remainingLifetime) = 1
             \/ \E q \in currentRequests' :
                  /\ q.ipDst = p.ipDst
                  /\ Ntohs(q.remainingLifetime)
                       = Ntohs(p.remainingLifetime) - 1
  <2>1. CASE aged(p).remainingLifetime # 0
    BY <1>2, <1>1, <2>1, Zenon
  <2>2. CASE aged(p).remainingLifetime = 0
    BY <1>1, <2>2, InSeconds, InSecondsLeft
  <2> QED
    BY <2>1, <2>2, Zenon
<1> QED
  BY <1>5, <1>6, <1>7, Zenon DEF Believes, RequestsAge

(***************************************************************************)
(* The timer of the requests.  A deregistration that backs a belief is a   *)
(* second older when the timer has run, which Ran("requests") makes up     *)
(* for; one that lapses was backing a belief of one second.                *)
(***************************************************************************)
LEMMA RequestsAgeStep ==
    ASSUME Inv, RequestsAge, HasRun("requests"), "requests" \notin ticked,
           NodePushes({}),
           UNCHANGED <<homeAgent, registrationReq, visitorMap, forgetful>>
    PROVE  Inv'
<1>1. TypesOK /\ NodeOK /\ Belief
  BY Zenon DEF Inv, TypesOK
<1>2. /\ NodeOK'
      /\ out' = {}
      /\ Believes' = Believes
      /\ remainingConnectionTime' = remainingConnectionTime
      /\ \A q \in currentRequests' : \E p \in currentRequests :
           /\ q.id = p.id /\ q.ipDst = p.ipDst
           /\ Ntohs(q.remainingLifetime) = Ntohs(p.remainingLifetime) - 1
      /\ \A p \in currentRequests :
           \/ Ntohs(p.remainingLifetime) = 1
           \/ \E q \in currentRequests' :
                /\ q.ipDst = p.ipDst
                /\ Ntohs(q.remainingLifetime) = Ntohs(p.remainingLifetime) - 1
  BY Zenon DEF RequestsAge
<1>3. PICK d \in {0, 1} : Clock({"requests"}, d)
  BY ClockOfTimer, Zenon DEF NodePushes
<1>4. net' \subseteq net /\ (d = 1 => net' = {})
  <2>1. net' \subseteq net
    BY <1>2, NetAfter DEF NodePushes
  <2> QED
    BY <1>2, <1>3, <2>1 DEF Clock
<1>5. table' = table /\ (AtHome' <=> AtHome) /\ Bound' = Bound
  BY Zenon DEF homeAgent, AtHome, Bound
<1>6. TypesOK'
  <2>1. HomeAgentOK' /\ ForeignAgentOK' /\ NetOK'
    BY <1>1, <1>4, Zenon
      DEF TypesOK, HomeAgentOK, ForeignAgentOK, homeAgent, NetOK
  <2> QED
    BY <1>2, <2>1, Zenon DEF TypesOK
<1>7. OneEach'
  BY <1>4, <1>5, Zenon DEF Inv, OneEach
<1>8. /\ Ran("requests") = 0 /\ Ran("requests")' = 1 - d
      /\ Ran("ha") \in Int /\ Ran("ha")' \in Int /\ Ran("ha")' >= Ran("ha") - d
      /\ d = 0 => Ran("fa")' = Ran("fa")
  BY <1>3 DEF Clock, Ran
<1>9. \A p \in currentRequests : Ntohs(p.remainingLifetime) \in 1 .. RegLifetime
  BY <1>1, NumbersOfState, Zenon
<1>10. ASSUME NEW x \in Int, HomeBacks(x)
       PROVE  HomeBacks(x - d)'
  <2>1. CASE "ha" \in forgetful
    BY <2>1, Zenon DEF HomeBacks
  <2>2. CASE x <= Bound + Ran("ha")
    <3>1. Bound \in Int
      BY <1>1, NumbersOfState
    <3> QED
      BY <1>5, <1>8, <2>2, <3>1 DEF HomeBacks
  <2>3. CASE x <= Ran("requests")
    BY <1>8, <2>3 DEF HomeBacks
  <2>4. ASSUME NEW p \in currentRequests, p.ipDst = hap,
               x <= Ntohs(p.remainingLifetime) + Ran("requests")
        PROVE  HomeBacks(x - d)'
    <3>1. CASE Ntohs(p.remainingLifetime) = 1
      BY <1>8, <2>4, <3>1 DEF HomeBacks
    <3>2. ASSUME NEW q \in currentRequests', q.ipDst = p.ipDst,
                 Ntohs(q.remainingLifetime) = Ntohs(p.remainingLifetime) - 1
          PROVE  HomeBacks(x - d)'
      <4>1. Ntohs(p.remainingLifetime) \in Int
        BY <1>9
      <4>2. x - d <= Ntohs(q.remainingLifetime) + Ran("requests")'
        BY <1>8, <2>4, <3>2, <4>1
      <4> QED
        BY <2>4, <3>2, <4>2, Zenon DEF HomeBacks
    <3> QED
      BY <1>2, <3>1, <3>2, Zenon
  <2> QED
    BY <1>10, <2>1, <2>2, <2>3, <2>4, Zenon DEF HomeBacks
<1>11. ASSUME NEW x \in Int, VisitBacks(x)
       PROVE  VisitBacks(x - d)'
  BY <1>1, <1>3, <1>11, VisitBacksOn, Zenon
<1>12. Known'
  <2> SUFFICES ASSUME NEW q \in currentRequests', NEW p \in net' \cap Live, p.id = q.id
               PROVE  /\ p.lifetime = 0 <=> q.ipDst = hap
                      /\ p \in Leaving =>
                           RegLifetime <= Ntohs(q.remainingLifetime) + Ran("requests")'
                      /\ p \in Granted \cup PassedOn => HomeBacks(RegLifetime)'
    BY Zenon DEF Known
  <2>1. d = 0 /\ p \in net \cap Live
    BY <1>4, Zenon
  <2>2. PICK o \in currentRequests :
           /\ q.id = o.id /\ q.ipDst = o.ipDst
           /\ Ntohs(q.remainingLifetime) = Ntohs(o.remainingLifetime) - 1
    BY <1>2, Zenon
  <2>3. /\ p.lifetime = 0 <=> o.ipDst = hap
        /\ p \in Leaving =>
             RegLifetime <= Ntohs(o.remainingLifetime) + Ran("requests")
        /\ p \in Granted \cup PassedOn => HomeBacks(RegLifetime)
    BY <2>1, <2>2, Zenon DEF Inv, Known
  <2>4. RegLifetime \in Int /\ RegLifetime - d = RegLifetime
    BY <2>1, MobileIPAssumption
  <2>5. HomeBacks(RegLifetime) => HomeBacks(RegLifetime)'
    BY <1>10, <2>4, Zenon
  <2>6. Ntohs(o.remainingLifetime) \in Int
    BY <1>9
  <2> QED
    BY <1>8, <2>1, <2>2, <2>3, <2>5, <2>6
<1>13. Awaited'
  <2>1. net' # {} => d = 0
    BY <1>4, Zenon
  <2>2. d = 0 /\ VisitBacks(RegLifetime) => VisitBacks(RegLifetime)'
    <3>1. RegLifetime \in Int /\ (d = 0 => RegLifetime - d = RegLifetime)
      BY MobileIPAssumption
    <3> QED
      BY <1>11, <3>1, Zenon
  <2>3. \A i : d = 0 /\ AwaitedIn(registrationReq, i) => AwaitedIn(registrationReq, i)'
    BY <1>8, Zenon DEF AwaitedIn
  <2> QED
    BY <1>4, <2>1, <2>2, <2>3, Zenon DEF Inv, Awaited
<1>14. Belief'
  <2>1. Quiet(0)
    <3>1. Ntohs(remainingConnectionTime) \in Int
      BY <1>1, InSeconds DEF NodeOK
    <3> QED
      BY <1>2, <3>1 DEF Quiet
  <2>2. Believes' => Ran("connection")' - 0 <= Ran("connection") - d
    BY <1>2, <1>3, ConnectionClock
  <2> QED
    BY <1>1, <1>10, <1>11, <2>1, <2>2, BeliefKept, Zenon
<1> QED
  BY <1>6, <1>7, <1>12, <1>13, <1>14, Zenon DEF Inv

(***************************************************************************)
(* A reply the node ignores, or one that tells it that it is home.         *)
(***************************************************************************)
HomeReplyEffect ==
    /\ out' = {}
    /\ UNCHANGED <<connected, current_advertisements, currentRequests, counting>>
    /\ \/ UNCHANGED <<home, remainingConnectionTime, curr_coa>>
       \/ home' = TRUE /\ remainingConnectionTime' = 0

(***************************************************************************)
(* Such a reply keeps Inv.                                                 *)
(***************************************************************************)
LEMMA HomeReplyStep ==
    ASSUME Inv, NEW r, HomeReplyEffect, NodePushes({r}),
           UNCHANGED <<ticked, homeAgent, registrationReq, visitorMap, forgetful>>
    PROVE  Inv'
<1>1. /\ out' = {}
      /\ UNCHANGED <<connected, current_advertisements, currentRequests, counting>>
      /\ \/ UNCHANGED <<home, remainingConnectionTime, curr_coa>>
         \/ home' = TRUE /\ remainingConnectionTime' = 0
  BY Zenon DEF HomeReplyEffect
<1>2. NodeOK /\ remainingConnectionTime \in Seconds
  BY Zenon DEF Inv, TypesOK, NodeOK
<1>3. NodeOK'
  BY <1>1, <1>2, FullIsLeft, Zenon DEF NodeOK
<1>4. Quiet(0)
  BY <1>1, <1>2, InSeconds DEF Quiet, Believes
<1>5. Clock({}, 0)
  BY Zenon DEF Clock
<1>6. Pushed(currentRequests)
  BY <1>1, MadeNone, Zenon
<1> QED
  BY <1>3, <1>4, <1>5, <1>6, QuietNodeStep

(***************************************************************************)
(* A reply that makes the node believe.  The node takes off what has       *)
(* passed since it asked.                                                  *)
(***************************************************************************)
AbroadReplyEffect(r, q) ==
    /\ r.lifetime # 0 /\ r.code \in {0, 1} /\ r.id = q.id /\ r.type = ReplyType
    /\ home' = FALSE /\ connected' = TRUE /\ counting' = TRUE /\ out' = {}
    /\ UNCHANGED <<current_advertisements, currentRequests>>
    /\ curr_coa' = q.COA
    /\ remainingConnectionTime' =
         Sub16(q.remainingLifetime, Sub16(q.requestedLifetime, r.lifetime))

(***************************************************************************)
(* A reply that makes the node believe: it is a grant the foreign agent    *)
(* passed on, for as long as was asked, and both agents back it.           *)
(***************************************************************************)
LEMMA AbroadReplyStep ==
    ASSUME Inv, NEW r \in net, r.dst = mn,
           NEW q \in currentRequests, AbroadReplyEffect(r, q),
           HasRun("connection"), NodePushes({r}),
           UNCHANGED <<homeAgent, registrationReq, visitorMap, forgetful>>
    PROVE  Inv'
<1>1. TypesOK /\ NodeOK /\ NetOK
  BY Zenon DEF Inv, TypesOK
<1>2. /\ curr_coa' = q.COA
      /\ remainingConnectionTime' =
           Sub16(q.remainingLifetime, Sub16(q.requestedLifetime, r.lifetime))
  BY Zenon DEF AbroadReplyEffect
<1>3. /\ r.lifetime # 0 /\ home' = FALSE /\ connected' = TRUE /\ counting' = TRUE
      /\ out' = {} /\ UNCHANGED <<current_advertisements, currentRequests>>
  BY Zenon DEF AbroadReplyEffect
<1>4. r.code \in {0, 1} /\ r.id = q.id /\ r.type = ReplyType
  BY Zenon DEF AbroadReplyEffect
<1>5. r \in PassedOn
  <2>1. r \notin Asks
    <3>1. \A p \in Asks : p.type = RequestType
      BY Zenon DEF Asks, Leaving, Entering, Relayed, Asking
    <3>2. RequestType # ReplyType
      BY DEF RequestType, ReplyType
    <3> QED
      BY <1>4, <3>1, <3>2, Zenon
  <2>2. r \notin Refused /\ r \notin Released
    BY <1>3, <1>4, Zenon DEF Refused, Released, Answering
  <2>3. r \notin Granted
    BY MobileIPAssumption, Zenon DEF Granted, Answering
  <2> QED
    BY <1>1, <2>1, <2>2, <2>3, Zenon DEF NetOK, Live, Asks
<1>6. r \in Live /\ r.lifetime = Full
  <2>1. r \in Live
    BY <1>5, Zenon DEF Live
  <2>2. r.lifetime = Full
    BY <1>5, Zenon DEF PassedOn, Answering
  <2> QED
    BY <2>1, <2>2, Zenon
<1>7. q.ipDst # hap /\ HomeBacks(RegLifetime) /\ VisitBacks(RegLifetime)
  BY <1>3, <1>4, <1>5, <1>6, Zenon DEF Inv, Known, Awaited
<1>8. /\ q.COA = fa /\ q.requestedLifetime = Full
      /\ q.remainingLifetime \in SecondsLeft
  BY <1>1, <1>7, Zenon DEF NodeOK, Asked, AskedOf
<1>9. remainingConnectionTime' = q.remainingLifetime
  <2>1. Full \in Uint16 /\ q.remainingLifetime \in Uint16
    BY <1>8, FullIsLeft, InSecondsLeft, InSeconds, Zenon
  <2>2. Sub16(Full, Full) = 0 /\ Sub16(q.remainingLifetime, 0) = q.remainingLifetime
    BY <2>1, DifferenceOnTheWire, Zenon
  <2> QED
    BY <1>2, <1>6, <1>8, <2>2, Zenon
<1>10. NodeOK'
  BY <1>1, <1>2, <1>3, <1>8, <1>9, InSecondsLeft, Zenon DEF NodeOK
<1>11. PICK d \in {0, 1} : Clock({"connection"}, d)
  BY ClockOfTimer, Zenon DEF NodePushes
<1>12. Pushed(currentRequests)
  BY <1>3, MadeNone, Zenon
<1>13. Belief'
  <2>1. Ntohs(q.remainingLifetime) \in 1 .. RegLifetime /\ RegLifetime \in Int
    BY <1>8, InSecondsLeft, MobileIPAssumption
  <2>2. Ran("connection")' = 1 - d
    BY <1>11 DEF Clock, Ran
  <2>3. PICK b \in Int : b = Believed'
    BY <1>9, <2>1, <2>2 DEF Believed
  <2>4. b + d \in Int /\ b + d <= RegLifetime /\ b + d - d = b
    BY <1>9, <2>1, <2>2, <2>3 DEF Believed
  <2>5. HomeBacks(b + d) /\ VisitBacks(b + d)
    BY <1>1, <1>7, <2>1, <2>4, BacksLess, Zenon
  <2>6. HomeBacks(b + d - d)'
    BY <1>1, <1>11, <1>12, <2>4, <2>5, HomeBacksOn DEF Pushed, homeAgent
  <2>7. VisitBacks(b + d - d)'
    BY <1>1, <1>11, <2>4, <2>5, VisitBacksOn
  <2>8. HomeBacks(b)' /\ VisitBacks(b)'
    BY <2>4, <2>6, <2>7, Zenon
  <2> QED
    BY <2>3, <2>8, Zenon DEF Belief, HomeBacks, VisitBacks
<1> QED
  BY <1>10, <1>11, <1>12, <1>13, NodeStep, Zenon

-----------------------------------------------------------------------------
(***************************************************************************)
(* What arrives at the home agent is a request of the node, from home or   *)
(* relayed.                                                                *)
(***************************************************************************)
LEMMA AtHomeAgent ==
    ASSUME NetOK, NEW p \in net, p.dst \in {ha, hap}, MobileIPFilter(ha, p) = 2
    PROVE  p \in Leaving \cup Relayed
<1>1. p.type # ReplyType
  <2>1. RequestType # ReplyType
    BY DEF RequestType, ReplyType
  <2>2. p.type = ReplyType => MobileIPFilter(ha, p) = 1
    BY <2>1, Zenon DEF MobileIPFilter
  <2> QED
    BY <2>2
<1>2. p \notin Released \cup Granted \cup PassedOn \cup Refused
  BY <1>1, Zenon DEF Released, Granted, PassedOn, Refused, Answering
<1>3. p \notin Entering
  BY MobileIPAssumption, Zenon DEF Entering, Asking
<1> QED
  BY <1>2, <1>3, Zenon DEF NetOK, Live

(***************************************************************************)
(* A binding is not mistaken for no binding.                               *)
(***************************************************************************)
LEMMA BindingIsEntry ==
    /\ BindingToForeignAgent
         \subseteq [mobile_node_coa : Hosts, lifetime : Uint16, id : Ids]
    /\ NoEntry \notin BindingToForeignAgent
<1>1. BindingToForeignAgent
        \subseteq [mobile_node_coa : Hosts, lifetime : Uint16, id : Ids]
  BY MobileIPAssumption, InSecondsLeft, InSeconds, Zenon
    DEF BindingToForeignAgent
<1> QED
  BY <1>1, MobileIPAssumption, Zenon

(***************************************************************************)
(* What the home agent does for a request: a registration that was relayed *)
(* binds the node and is granted, a deregistration ends the binding and is *)
(* answered.                                                               *)
(***************************************************************************)
BindEffect(p, g) ==
    /\ table' = [table EXCEPT ![mn] =
                   [mobile_node_coa |-> fa, lifetime |-> Full, id |-> p.id]]
    /\ list' = [list EXCEPT ![mn] = IF @ = 0 THEN 1 ELSE @]
    /\ g \in Granted /\ g.id = p.id /\ out' = {g}

UnbindEffect(p, g) ==
    /\ table' = [table EXCEPT ![mn] = NoEntry]
    /\ list' = [list EXCEPT ![mn] = IF AtHome \/ @ = 0 THEN @ ELSE @ - 1]
    /\ g \in Released /\ g.id = p.id /\ out' = {g}

(***************************************************************************)
(* The home agent after a registration.                                    *)
(***************************************************************************)
LEMMA Binds ==
    ASSUME HomeAgentOK, NEW p \in Relayed, NEW g, BindEffect(p, g)
    PROVE  HomeAgentOK' /\ ~AtHome' /\ table'[mn].id = p.id /\ Bound' = RegLifetime
<1> DEFINE e == [mobile_node_coa |-> fa, lifetime |-> Full, id |-> p.id]
<1>1. Full \in Uint16 /\ Full # 0 /\ Full \in SecondsLeft
  BY FullIsLeft, Zenon
<1>2. p.id \in Ids
  BY Zenon DEF Asking, Relayed
<1>3. /\ DOMAIN table = Nodes /\ DOMAIN list = Nodes /\ mn \in Nodes
      /\ list[mn] \in {0, 1}
      /\ table = [n \in Nodes |-> table[n]] /\ list = [n \in Nodes |-> list[n]]
  BY MobileIPAssumption, Zenon DEF HomeAgentOK
<1>4. e \in BindingToForeignAgent /\ e.id = p.id /\ e.lifetime = Full
  BY <1>1, <1>2, Zenon DEF BindingToForeignAgent
<1>5. /\ table' = [table EXCEPT ![mn] = e]
      /\ list' = [list EXCEPT ![mn] = IF @ = 0 THEN 1 ELSE @]
  BY Zenon DEF BindEffect
<1> HIDE DEF e
<1>6. /\ table'[mn] = e /\ list'[mn] = 1
      /\ DOMAIN table' = Nodes /\ DOMAIN list' = Nodes
      /\ table' = [n \in Nodes |-> table'[n]] /\ list' = [n \in Nodes |-> list'[n]]
  BY <1>3, <1>5, Zenon
<1>7. ~AtHome'
  BY <1>4, <1>6, BindingIsEntry, Zenon DEF AtHome
<1>8. Bound' = RegLifetime
  BY <1>4, <1>6, <1>7, FullIsLeft, Zenon DEF Bound
<1> QED
  BY <1>4, <1>6, <1>7, <1>8, Zenon DEF HomeAgentOK

(***************************************************************************)
(* The home agent after a deregistration.                                  *)
(***************************************************************************)
LEMMA Unbinds ==
    ASSUME HomeAgentOK, NEW p, NEW g, UnbindEffect(p, g)
    PROVE  HomeAgentOK' /\ AtHome'
<1>1. /\ table' = [table EXCEPT ![mn] = NoEntry]
      /\ list' = [list EXCEPT ![mn] = IF AtHome \/ @ = 0 THEN @ ELSE @ - 1]
  BY Zenon DEF UnbindEffect
<1>2. /\ DOMAIN table = Nodes /\ DOMAIN list = Nodes /\ mn \in Nodes
      /\ table = [n \in Nodes |-> table[n]] /\ list = [n \in Nodes |-> list[n]]
  BY MobileIPAssumption, Zenon DEF HomeAgentOK
<1>3. \/ AtHome /\ list[mn] = 0
      \/ ~AtHome /\ list[mn] = 1
  BY BindingIsEntry, Zenon DEF HomeAgentOK, AtHome
<1>4. /\ table'[mn] = NoEntry /\ list'[mn] = 0
      /\ DOMAIN table' = Nodes /\ DOMAIN list' = Nodes
      /\ table' = [n \in Nodes |-> table'[n]] /\ list' = [n \in Nodes |-> list'[n]]
  <2>1. list' = [list EXCEPT ![mn] = 0]
    <3>1. CASE AtHome /\ list[mn] = 0
      BY <1>1, <3>1, Zenon
    <3>2. CASE ~AtHome /\ list[mn] = 1
      BY <1>1, <3>2
    <3> QED
      BY <1>3, <3>1, <3>2, Zenon
  <2> QED
    BY <1>1, <1>2, <2>1, Zenon
<1> QED
  BY <1>4, Zenon DEF HomeAgentOK, AtHome

(***************************************************************************)
(* A packet that takes the place of another with its identification.       *)
(***************************************************************************)
LEMMA OneForAnother ==
    ASSUME OneEach, NEW p \in net \cap Live, NEW g, g.id = p.id,
           net' \subseteq (net \ {p}) \cup {g}
    PROVE  \A a, b \in net' \cap Live : a.id = b.id => a = b
BY Zenon DEF OneEach

(***************************************************************************)
(* A request arrives at the home agent and is answered.  A belief of any   *)
(* length is backed afterwards: by the new binding, by the deregistration  *)
(* the node remembers, or because the agent forgot the node behind its     *)
(* back.  Only when there was no binding to end does it stay as it was.    *)
(***************************************************************************)
LEMMA HomeAgentStep ==
    ASSUME Inv, NEW p \in net, NEW g,
           \/ p \in Relayed /\ BindEffect(p, g)
           \/ p \in Leaving /\ UnbindEffect(p, g),
           forgetful' = IF AtHome /\ ~AtHome' THEN forgetful \ {"ha"}
                        ELSE IF ~AtHome /\ AtHome' /\ ~Remembers(p)
                        THEN forgetful \cup {"ha"}
                        ELSE forgetful,
           UNCHANGED <<node, foreignAgent, ticked>>, UnderWay({p}, out')
    PROVE  Inv'
<1>1. TypesOK /\ NodeOK /\ NetOK
  BY Zenon DEF Inv, TypesOK
<1>2. p \in Leaving \cup Relayed
  BY Zenon
<1>3. p \in net \cap Live /\ p \in net \cap Asks
  BY <1>2, Zenon DEF Live, Asks
<1>4. /\ HomeAgentOK'
      /\ ~AtHome' => table'[mn].id = p.id
      /\ p \in Relayed => Bound' = RegLifetime
      /\ p \in Leaving => AtHome'
  <2>1. Leaving \cap Relayed = {}
    BY KindsDiffer, Zenon
  <2>2. HomeAgentOK
    BY <1>1, Zenon DEF TypesOK
  <2>3. CASE p \in Relayed /\ BindEffect(p, g)
    BY <2>1, <2>2, <2>3, Binds, Zenon
  <2>4. CASE p \in Leaving /\ UnbindEffect(p, g)
    BY <2>1, <2>2, <2>4, Unbinds, Zenon
  <2> QED
    BY <2>3, <2>4, Zenon
<1>5. /\ g.id = p.id /\ out' = {g}
      /\ \/ p \in Relayed /\ g \in Granted
         \/ p \in Leaving /\ g \in Released
  BY Zenon DEF BindEffect, UnbindEffect
<1>6. net' \subseteq (net \ {p}) \cup {g}
  BY <1>5, NetAfter, Zenon
<1>7. "fa" \in forgetful' <=> "fa" \in forgetful
  BY Zenon
<1>8. UNCHANGED <<home, connected, remainingConnectionTime, curr_coa,
                  current_advertisements, currentRequests, counting,
                  registrationReq, visitorMap>>
  BY Zenon DEF node, foreignAgent
<1>9. \A t : Ran(t)' = Ran(t)
  BY Zenon DEF Ran
<1>10. TypesOK'
  <2>1. NodeOK' /\ ForeignAgentOK'
    BY <1>1, <1>7, <1>8, Zenon DEF NodeOK, TypesOK, ForeignAgentOK
  <2>2. NetOK'
    BY <1>1, <1>5, <1>6, Zenon DEF NetOK, Live
  <2> QED
    BY <1>4, <2>1, <2>2, Zenon DEF TypesOK
<1>11. OneEach'
  <2>1. \A a, b \in net' \cap Live : a.id = b.id => a = b
    BY <1>3, <1>5, <1>6, OneForAnother, Zenon DEF Inv
  <2>2. g \notin Asks
    BY <1>5, KindsDiffer, Zenon
  <2>3. \A a \in net' \cap Asks : a.id # p.id
    BY <1>3, <1>6, <2>2, Zenon DEF Inv, OneEach, Live, Asks
  <2> QED
    BY <1>4, <2>1, <2>3, Zenon DEF OneEach
<1>12. ASSUME NEW x \in Int, x <= RegLifetime, HomeBacks(x) \/ p \in Relayed
       PROVE  HomeBacks(x)'
  <2>1. Ran("ha")' \in {0, 1} /\ Ran("requests") \in {0, 1}
        /\ Ran("requests")' = Ran("requests")
    BY <1>9, Zenon DEF Ran
  <2>2. RegLifetime \in Int
    BY MobileIPAssumption
  <2>3. CASE p \in Relayed
    <3>1. x <= Bound' + Ran("ha")'
      BY <1>4, <1>12, <2>1, <2>2, <2>3
    <3> QED
      BY <3>1, Zenon DEF HomeBacks
  <2>4. CASE p \in Leaving /\ ~Remembers(p)
    <3>1. AtHome' /\ p \notin Relayed
      BY <1>4, <2>4, KindsDiffer, Zenon
    <3>2. CASE ~AtHome
      <4>1. "ha" \in forgetful'
        BY <2>4, <3>1, <3>2, Zenon
      <4> QED
        BY <4>1, Zenon DEF HomeBacks
    <3>3. CASE AtHome
      <4>1. forgetful' = forgetful /\ Bound' = Bound
        BY <3>1, <3>3, Zenon DEF Bound
      <4> QED
        BY <1>8, <1>9, <1>12, <3>1, <4>1, Zenon DEF HomeBacks
    <3> QED
      BY <3>2, <3>3, Zenon
  <2>5. CASE p \in Leaving /\ Remembers(p)
    <3>1. PICK q \in currentRequests : q.id = p.id
      BY <2>5, Zenon DEF Remembers
    <3>2. p.lifetime = 0
      BY <2>5, Zenon DEF Leaving, Asking
    <3>3. /\ q.ipDst = hap
          /\ RegLifetime <= Ntohs(q.remainingLifetime) + Ran("requests")
      BY <1>3, <2>5, <3>1, <3>2, Zenon DEF Inv, Known
    <3>4. Ntohs(q.remainingLifetime) \in Int
      BY <1>1, NumbersOfState
    <3>5. x <= Ntohs(q.remainingLifetime) + Ran("requests")'
      BY <1>12, <2>1, <2>2, <3>3, <3>4
    <3> QED
      BY <1>8, <3>1, <3>3, <3>5, Zenon DEF HomeBacks
  <2> QED
    BY <1>2, <2>3, <2>4, <2>5, Zenon
<1>13. HomeBacks(RegLifetime) \/ p \in Relayed => HomeBacks(RegLifetime)'
  BY <1>12, MobileIPAssumption
<1>14. \A x : VisitBacks(x) => VisitBacks(x)'
  BY <1>7, <1>8, <1>9, Zenon DEF VisitBacks
<1>15. Known'
  <2> SUFFICES ASSUME NEW q \in currentRequests, NEW a \in net' \cap Live, a.id = q.id
               PROVE  /\ a.lifetime = 0 <=> q.ipDst = hap
                      /\ a \in Leaving =>
                           RegLifetime <= Ntohs(q.remainingLifetime) + Ran("requests")'
                      /\ a \in Granted \cup PassedOn => HomeBacks(RegLifetime)'
    BY <1>8, Zenon DEF Known
  <2>1. CASE a \in net
    BY <1>9, <1>13, <2>1, Zenon DEF Inv, Known
  <2>2. CASE a = g
    <3>1. a.lifetime = p.lifetime /\ a \notin Leaving
      <4>1. a \notin Asks
        BY <1>5, <2>2, KindsDiffer, Zenon
      <4>2. a.lifetime = p.lifetime
        BY <1>5, <2>2, Zenon
          DEF Relayed, Leaving, Asking, Granted, Released, Answering
      <4> QED
        BY <4>1, <4>2, Zenon DEF Asks
    <3>2. p.lifetime = 0 <=> q.ipDst = hap
      BY <1>3, <1>5, <2>2, Zenon DEF Inv, Known
    <3>3. a \in Granted \cup PassedOn => p \in Relayed
      BY <1>5, <2>2, KindsDiffer, Zenon
    <3> QED
      BY <1>13, <3>1, <3>2, <3>3, Zenon
  <2> QED
    BY <1>6, <2>1, <2>2, Zenon
<1>16. Awaited'
  <2>1. \A i : AwaitedIn(registrationReq, i) => AwaitedIn(registrationReq, i)'
    BY <1>8, <1>9, Zenon DEF AwaitedIn
  <2>2. /\ g \notin PassedOn /\ g \notin Relayed
        /\ g \in Granted => p \in Relayed
    BY <1>5, KindsDiffer, Zenon DEF Asks
  <2>3. ASSUME NEW a \in net' \cap (Relayed \cup Granted)
        PROVE  VisitBacks(RegLifetime) \/ AwaitedIn(registrationReq, a.id)
    BY <1>3, <1>5, <1>6, <2>2, Zenon DEF Inv, Awaited
  <2>4. ASSUME NEW a \in net' \cap PassedOn
        PROVE  VisitBacks(RegLifetime)
    BY <1>6, <2>2, Zenon DEF Inv, Awaited
  <2> QED
    BY <1>14, <2>1, <2>3, <2>4, Zenon DEF Awaited
<1>17. Belief'
  <2>1. Believes' = Believes /\ Believed' = Believed
    BY <1>8, <1>9, Zenon DEF Believes, Believed
  <2>2. Believed \in Int /\ Believed <= RegLifetime
    <3>1. Ntohs(remainingConnectionTime) \in 0 .. RegLifetime
      BY <1>1, InSeconds, Zenon DEF NodeOK
    <3>2. Ran("connection") \in {0, 1}
      BY Zenon DEF Ran
    <3> QED
      BY <3>1, <3>2, MobileIPAssumption DEF Believed
  <2>3. PICK b \in Int : b = Believed'
    BY <2>1, <2>2, Zenon
  <2>4. Believes' => HomeBacks(b)'
    BY <1>12, <2>1, <2>2, <2>3, Zenon DEF Inv, Belief
  <2>5. Believes' => VisitBacks(b)'
    BY <1>14, <2>1, <2>3, Zenon DEF Inv, Belief
  <2> QED
    BY <2>3, <2>4, <2>5, Zenon DEF Belief, HomeBacks, VisitBacks
<1> QED
  BY <1>10, <1>11, <1>15, <1>16, <1>17, Zenon DEF Inv

-----------------------------------------------------------------------------
(***************************************************************************)
(* What arrives at the foreign agent is a registration of the node, or its *)
(* grant.                                                                  *)
(***************************************************************************)
LEMMA AtForeignAgent ==
    ASSUME NetOK, NEW p \in net
    PROVE  /\ p.dst = fap /\ MobileIPFilter(fa, p) = 3 => p \in Entering
           /\ p.dst = fa /\ MobileIPFilter(fa, p) = 1 => p \in Granted
<1>1. RequestType # ReplyType
  BY DEF RequestType, ReplyType
<1>2. p.type = ReplyType => MobileIPFilter(fa, p) = 1
  BY <1>1, Zenon DEF MobileIPFilter
<1>3. p.type = RequestType => MobileIPFilter(fa, p) # 1
  BY <1>1 DEF MobileIPFilter
<1>4. ASSUME p.dst = fap, MobileIPFilter(fa, p) = 3
      PROVE  p \in Entering
  <2>0. p.type # ReplyType
    BY <1>2, <1>4
  <2>1. p \notin Released \cup Granted \cup PassedOn \cup Refused
    BY <2>0, Zenon DEF Released, Granted, PassedOn, Refused, Answering
  <2>2. p \notin Leaving \cup Relayed
    BY <1>4, MobileIPAssumption, Zenon DEF Leaving, Relayed, Asking
  <2> QED
    BY <2>1, <2>2, Zenon DEF NetOK, Live
<1>5. ASSUME p.dst = fa, MobileIPFilter(fa, p) = 1
      PROVE  p \in Granted
  <2>1. p \notin Leaving \cup Relayed \cup Entering
    BY <1>3, <1>5, Zenon DEF Leaving, Relayed, Entering, Asking
  <2>2. p \notin Released \cup PassedOn \cup Refused
    BY <1>5, MobileIPAssumption, Zenon
      DEF Released, PassedOn, Refused, Answering
  <2> QED
    BY <2>1, <2>2, Zenon DEF NetOK, Live
<1> QED
  BY <1>4, <1>5, Zenon

(***************************************************************************)
(* What the foreign agent does for a registration: it relays it and waits  *)
(* for the answer, or it has too many to wait for and refuses.             *)
(***************************************************************************)
RelayEffect(p, g) ==
    /\ registrationReq' \in Seq(PendingOfNode)
    /\ Len(registrationReq') <= maxRequests
    /\ Range(registrationReq) \subseteq Range(registrationReq')
    /\ visitorMap' = visitorMap
    /\ g.id = p.id /\ out' = {g}
    /\ \/ g \in Refused
       \/ /\ g \in Relayed
          /\ \E item \in Range(registrationReq') :
               item.id = p.id /\ item.lifetimeRem = Full

(***************************************************************************)
(* A registration arrives at the foreign agent.                            *)
(***************************************************************************)
LEMMA RelayStep ==
    ASSUME Inv, NEW p \in net \cap Entering, NEW g, RelayEffect(p, g),
           UNCHANGED <<node, homeAgent, ticked, forgetful>>, UnderWay({p}, out')
    PROVE  Inv'
<1>1. TypesOK /\ NodeOK /\ NetOK /\ ForeignAgentOK
  BY Zenon DEF Inv, TypesOK
<1>2. p \in Entering
  BY Zenon
<1>3. p \in net \cap Live /\ p \in net \cap Asks
  BY <1>2, Zenon DEF Live, Asks
<1>4. /\ registrationReq' \in Seq(PendingOfNode)
      /\ Len(registrationReq') <= maxRequests
      /\ Range(registrationReq) \subseteq Range(registrationReq')
      /\ visitorMap' = visitorMap
  BY Zenon DEF RelayEffect
<1>5. /\ g.id = p.id /\ out' = {g}
      /\ \/ g \in Refused
         \/ /\ g \in Relayed
            /\ \E item \in Range(registrationReq') :
                 item.id = p.id /\ item.lifetimeRem = Full
  BY Zenon DEF RelayEffect
<1>6. net' \subseteq (net \ {p}) \cup {g}
  BY <1>5, NetAfter, Zenon
<1>7. /\ UNCHANGED <<home, connected, remainingConnectionTime, curr_coa,
                     current_advertisements, currentRequests, counting,
                     table, list, forgetful>>
      /\ AtHome' <=> AtHome
  BY Zenon DEF node, homeAgent, AtHome
<1>8. \A t : Ran(t)' = Ran(t)
  BY Zenon DEF Ran
<1>9. TypesOK'
  <2>1. NodeOK' /\ HomeAgentOK' /\ ForeignAgentOK'
    BY <1>1, <1>4, <1>7, Zenon DEF NodeOK, TypesOK, ForeignAgentOK, HomeAgentOK
  <2>2. NetOK'
    BY <1>1, <1>5, <1>6, Zenon DEF NetOK, Live
  <2> QED
    BY <2>1, <2>2, Zenon DEF TypesOK
<1>10. g \in Live => g \in Relayed
  BY <1>5, KindsDiffer, Zenon DEF Live, Asks
<1>11. OneEach'
  <2>1. \A a, b \in net' \cap Live : a.id = b.id => a = b
    BY <1>3, <1>5, <1>6, OneForAnother, Zenon DEF Inv
  <2>2. ASSUME ~AtHome', NEW a \in net' \cap Asks
        PROVE  a.id # table'[mn].id
    BY <1>3, <1>5, <1>6, <1>7, <2>2, Zenon DEF Inv, OneEach
  <2> QED
    BY <2>1, <2>2, Zenon DEF OneEach
<1>12. \A x : HomeBacks(x)' <=> HomeBacks(x)
  <2>1. Bound' = Bound
    BY <1>7, Zenon DEF Bound
  <2> QED
    BY <1>7, <1>8, <2>1, Zenon DEF HomeBacks
<1>13. \A x : VisitBacks(x)' <=> VisitBacks(x)
  BY <1>4, <1>7, <1>8, Zenon DEF VisitBacks
<1>14. Known'
  <2> SUFFICES ASSUME NEW q \in currentRequests, NEW a \in net' \cap Live, a.id = q.id
               PROVE  /\ a.lifetime = 0 <=> q.ipDst = hap
                      /\ a \in Leaving =>
                           RegLifetime <= Ntohs(q.remainingLifetime) + Ran("requests")
                      /\ a \in Granted \cup PassedOn => HomeBacks(RegLifetime)
    BY <1>7, <1>8, <1>12, Zenon DEF Known
  <2>1. CASE a \in net
    BY <2>1, Zenon DEF Inv, Known
  <2>2. CASE a = g
    <3>1. a \notin Leaving /\ a \notin Granted \cup PassedOn /\ a \in Relayed
      BY <1>10, <2>2, KindsDiffer, Zenon DEF Asks
    <3>2. a.lifetime = p.lifetime
      BY <1>2, <3>1, Zenon DEF Relayed, Entering, Asking
    <3>3. p.lifetime = 0 <=> q.ipDst = hap
      BY <1>3, <1>5, <2>2, Zenon DEF Inv, Known
    <3> QED
      BY <3>1, <3>2, <3>3, Zenon
  <2> QED
    BY <1>6, <2>1, <2>2, Zenon
<1>15. Awaited'
  <2>1. \A i : AwaitedIn(registrationReq, i) => AwaitedIn(registrationReq, i)'
    BY <1>4, <1>8, Zenon DEF AwaitedIn
  <2>2. g \in Relayed => AwaitedIn(registrationReq, g.id)'
    <3>1. Ntohs(Full) = RegLifetime /\ RegLifetime \in Nat /\ Ran("fa")' \in {0, 1}
      BY FullIsLeft, MobileIPAssumption DEF Ran
    <3>2. g \in Relayed => \E item \in Range(registrationReq') :
            item.id = g.id /\ item.lifetimeRem = Full
      BY <1>5, KindsDiffer, Zenon DEF Asks
    <3> QED
      BY <3>1, <3>2 DEF AwaitedIn
  <2>3. g \notin Granted /\ g \notin PassedOn
    BY <1>5, KindsDiffer, Zenon DEF Asks
  <2>4. ASSUME NEW a \in net' \cap (Relayed \cup Granted)
        PROVE  VisitBacks(RegLifetime) \/ AwaitedIn(registrationReq, a.id)'
    BY <1>6, <2>1, <2>2, <2>3, Zenon DEF Inv, Awaited
  <2>5. ASSUME NEW a \in net' \cap PassedOn
        PROVE  VisitBacks(RegLifetime)
    BY <1>6, <2>3, Zenon DEF Inv, Awaited
  <2> QED
    BY <1>13, <2>4, <2>5, Zenon DEF Awaited
<1>16. Belief'
  <2>1. Believes' = Believes /\ Believed' = Believed
    BY <1>7, <1>8, Zenon DEF Believes, Believed
  <2>2. Bound' = Bound
    BY <1>7 DEF Bound
  <2> QED
    BY <1>4, <1>7, <1>8, <2>1, <2>2, Zenon
      DEF Inv, Belief, HomeBacks, VisitBacks
<1> QED
  BY <1>9, <1>11, <1>14, <1>15, <1>16, Zenon DEF Inv

(***************************************************************************)
(* It passes a grant on.  If it was waiting for it, the node is now a      *)
(* visitor for the full time; if not, nothing changes.                     *)
(***************************************************************************)
PassEffect(r, g) ==
    /\ registrationReq' \in Seq(PendingOfNode)
    /\ Len(registrationReq') <= maxRequests
    /\ visitorMap' \subseteq VisitOfNode
    /\ \/ \E v \in visitorMap' : v.lifetimeRem = Full
       \/ /\ registrationReq' = registrationReq /\ visitorMap' = visitorMap
          /\ \A item \in Range(registrationReq) : item.id # r.id
    /\ g \in PassedOn /\ g.id = r.id /\ out' = {g}

(***************************************************************************)
(* A grant arrives at the foreign agent.  When it is passed on the node is *)
(* a visitor for the full time: now, or since an answer before it (Awaited *)
(* says so of a grant nobody waits for).                                   *)
(***************************************************************************)
LEMMA PassStep ==
    ASSUME Inv, NEW r \in net \cap Granted, NEW g, PassEffect(r, g),
           forgetful' = IF \E v \in visitorMap' : v.ipSrc = mn
                        THEN forgetful \ {"fa"} ELSE forgetful,
           UNCHANGED <<node, homeAgent, ticked>>, UnderWay({r}, out')
    PROVE  Inv'
<1>1. TypesOK /\ NodeOK /\ NetOK /\ ForeignAgentOK
  BY Zenon DEF Inv, TypesOK
<1>2. r \in Granted
  BY Zenon
<1>3. r \in net \cap Live /\ r \in net \cap (Relayed \cup Granted)
  BY <1>2, Zenon DEF Live
<1>4. /\ registrationReq' \in Seq(PendingOfNode)
      /\ Len(registrationReq') <= maxRequests
      /\ visitorMap' \subseteq VisitOfNode
      /\ \/ \E v \in visitorMap' : v.lifetimeRem = Full
         \/ /\ registrationReq' = registrationReq /\ visitorMap' = visitorMap
            /\ \A item \in Range(registrationReq) : item.id # r.id
  BY Zenon DEF PassEffect
<1>5. g \in PassedOn /\ g.id = r.id /\ out' = {g}
  BY Zenon DEF PassEffect
<1>6. net' \subseteq (net \ {r}) \cup {g}
  BY <1>5, NetAfter, Zenon
<1>7. /\ UNCHANGED <<home, connected, remainingConnectionTime, curr_coa,
                     current_advertisements, currentRequests, counting,
                     table, list>>
      /\ AtHome' <=> AtHome
      /\ Bound' = Bound
      /\ "ha" \in forgetful' <=> "ha" \in forgetful
  BY Zenon DEF node, homeAgent, AtHome, Bound
<1>8. \A t : Ran(t)' = Ran(t)
  BY Zenon DEF Ran
<1>9. "fa" \in forgetful' => visitorMap' = {} /\ "fa" \in forgetful
  <2>1. \A v \in visitorMap' : v.ipSrc = mn
    BY <1>4, Zenon DEF VisitOfNode
  <2> QED
    BY <2>1, Zenon
<1>10. TypesOK'
  <2>1. NodeOK' /\ HomeAgentOK' /\ ForeignAgentOK'
    BY <1>1, <1>4, <1>7, <1>9, Zenon
      DEF NodeOK, TypesOK, ForeignAgentOK, HomeAgentOK
  <2>2. NetOK'
    BY <1>1, <1>5, <1>6, Zenon DEF NetOK, Live
  <2> QED
    BY <2>1, <2>2, Zenon DEF TypesOK
<1>11. OneEach'
  <2>1. \A a, b \in net' \cap Live : a.id = b.id => a = b
    BY <1>3, <1>5, <1>6, OneForAnother, Zenon DEF Inv
  <2>2. g \notin Asks
    BY <1>5, KindsDiffer, Zenon
  <2>3. ASSUME ~AtHome', NEW a \in net' \cap Asks
        PROVE  a.id # table'[mn].id
    BY <1>6, <1>7, <2>2, <2>3, Zenon DEF Inv, OneEach
  <2> QED
    BY <2>1, <2>3, Zenon DEF OneEach
<1>12. \A x : HomeBacks(x)' <=> HomeBacks(x)
  BY <1>7, <1>8, Zenon DEF HomeBacks
<1>13. VisitBacks(RegLifetime)'
  <2>1. CASE \E v \in visitorMap' : v.lifetimeRem = Full
    <3>1. Ntohs(Full) = RegLifetime /\ RegLifetime \in Nat /\ Ran("fa")' \in {0, 1}
      BY FullIsLeft, MobileIPAssumption DEF Ran
    <3> QED
      BY <2>1, <3>1 DEF VisitBacks
  <2>2. CASE /\ registrationReq' = registrationReq /\ visitorMap' = visitorMap
             /\ \A item \in Range(registrationReq) : item.id # r.id
    <3>1. VisitBacks(RegLifetime)
      BY <1>3, <2>2, Zenon DEF Inv, Awaited, AwaitedIn
    <3>2. "fa" \in forgetful => "fa" \in forgetful'
      <4>1. "fa" \in forgetful => visitorMap' = {}
        BY <1>1, <2>2, Zenon DEF ForeignAgentOK
      <4> QED
        BY <4>1, Zenon
    <3> QED
      BY <1>8, <2>2, <3>1, <3>2, Zenon DEF VisitBacks
  <2> QED
    BY <1>4, <2>1, <2>2, Zenon
<1>14. ASSUME NEW x \in Int, x <= RegLifetime
       PROVE  VisitBacks(x)'
  <2>1. /\ \A v \in visitorMap' : Ntohs(v.lifetimeRem) \in Int
        /\ Ran("fa")' \in Int /\ RegLifetime \in Int
    <3>1. \A v \in visitorMap' : v.lifetimeRem \in Seconds
      BY <1>4, Zenon DEF VisitOfNode
    <3> QED
      BY <3>1, InSeconds, MobileIPAssumption DEF Ran
  <2> QED
    BY <1>13, <1>14, <2>1 DEF VisitBacks
<1>15. Known'
  <2> SUFFICES ASSUME NEW q \in currentRequests, NEW a \in net' \cap Live, a.id = q.id
               PROVE  /\ a.lifetime = 0 <=> q.ipDst = hap
                      /\ a \in Leaving =>
                           RegLifetime <= Ntohs(q.remainingLifetime) + Ran("requests")
                      /\ a \in Granted \cup PassedOn => HomeBacks(RegLifetime)
    BY <1>7, <1>8, <1>12, Zenon DEF Known
  <2>1. CASE a \in net
    BY <2>1, Zenon DEF Inv, Known
  <2>2. CASE a = g
    <3>1. a \notin Leaving
      BY <1>5, <2>2, KindsDiffer, Zenon DEF Asks
    <3>2. a.lifetime = r.lifetime
      BY <1>2, <1>5, <2>2, Zenon DEF Granted, PassedOn, Answering
    <3>3. (r.lifetime = 0 <=> q.ipDst = hap) /\ HomeBacks(RegLifetime)
      BY <1>2, <1>3, <1>5, <2>2, Zenon DEF Inv, Known
    <3> QED
      BY <3>1, <3>2, <3>3, Zenon
  <2> QED
    BY <1>6, <2>1, <2>2, Zenon
<1>16. Awaited'
  BY <1>13, Zenon DEF Awaited
<1>17. Belief'
  <2>1. Believes' = Believes /\ Believed' = Believed
    BY <1>7, <1>8, Zenon DEF Believes, Believed
  <2>2. Believed \in Int /\ Believed <= RegLifetime
    <3>1. Ntohs(remainingConnectionTime) \in 0 .. RegLifetime
      BY <1>1, InSeconds, Zenon DEF NodeOK
    <3>2. Ran("connection") \in {0, 1}
      BY Zenon DEF Ran
    <3> QED
      BY <3>1, <3>2, MobileIPAssumption DEF Believed
  <2>3. PICK b \in Int : b = Believed'
    BY <2>1, <2>2, Zenon
  <2>4. VisitBacks(b)'
    BY <1>14, <2>1, <2>2, <2>3, Zenon
  <2>5. Believes' => HomeBacks(b)'
    BY <1>12, <2>1, <2>3, Zenon DEF Inv, Belief
  <2> QED
    BY <2>3, <2>4, <2>5, Zenon DEF Belief, HomeBacks, VisitBacks
<1> QED
  BY <1>10, <1>11, <1>15, <1>16, <1>17, Zenon DEF Inv

-----------------------------------------------------------------------------
(***************************************************************************)
(* The home agent's timer takes a second off the binding, and erases it    *)
(* when nothing is left.                                                   *)
(***************************************************************************)
Remains(n) == Sub16(table[n].lifetime, list[n] * Htons(1))

BindingAges ==
    /\ out' = {}
    /\ table' = [n \in Nodes |->
                   CASE list[n] = 0 -> table[n]
                     [] list[n] # 0 /\ Remains(n) = 0 -> NoEntry
                     [] list[n] # 0 /\ Remains(n) # 0 ->
                          [table[n] EXCEPT !.lifetime = Remains(n)]]
    /\ list' = [n \in Nodes |->
                  IF list[n] # 0 /\ Remains(n) = 0 THEN list[n] - 1 ELSE list[n]]

(***************************************************************************)
(* The binding before and after.                                           *)
(***************************************************************************)
LEMMA BindingAged ==
    ASSUME HomeAgentOK, BindingAges
    PROVE  /\ HomeAgentOK'
           /\ out' = {}
           /\ ~AtHome' => ~AtHome /\ table'[mn].id = table[mn].id
           /\ Bound' = Bound - 1 \/ (Bound = 0 /\ Bound' = 0)
<1>1. /\ table' = [n \in Nodes |->
                     CASE list[n] = 0 -> table[n]
                       [] list[n] # 0 /\ Remains(n) = 0 -> NoEntry
                       [] list[n] # 0 /\ Remains(n) # 0 ->
                            [table[n] EXCEPT !.lifetime = Remains(n)]]
      /\ list' = [n \in Nodes |->
                    IF list[n] # 0 /\ Remains(n) = 0 THEN list[n] - 1 ELSE list[n]]
      /\ out' = {}
  BY Zenon DEF BindingAges
<1>2. mn \in Nodes
  BY MobileIPAssumption, Zenon
<1>3. /\ DOMAIN table' = Nodes /\ table' = [n \in Nodes |-> table'[n]]
      /\ DOMAIN list' = Nodes /\ list' = [n \in Nodes |-> list'[n]]
  BY <1>1, Zenon
<1>4. CASE table[mn] = NoEntry /\ list[mn] = 0
  <2>1. table'[mn] = NoEntry /\ list'[mn] = 0
    BY <1>1, <1>2, <1>4, Zenon
  <2> QED
    BY <1>1, <1>3, <1>4, <2>1, Zenon DEF HomeAgentOK, AtHome, Bound
<1>5. CASE table[mn] \in BindingToForeignAgent /\ list[mn] = 1
  <2> DEFINE left == OneSecondLess(table[mn].lifetime)
  <2>1. table[mn].lifetime \in SecondsLeft
    BY <1>5, Zenon DEF BindingToForeignAgent
  <2>2. /\ left \in Seconds /\ Ntohs(left) = Ntohs(table[mn].lifetime) - 1
        /\ left # 0 => left \in SecondsLeft
        /\ left = 0 <=> Ntohs(left) = 0
        /\ Ntohs(table[mn].lifetime) \in Int
    BY <2>1, InSecondsLeft, InSeconds
  <2>3. Remains(mn) = left
    <3>1. 1 \in 0 .. (Byte - 1)
      BY ByteAssumption
    <3>2. 1 * Htons(1) = Htons(1)
      BY <3>1, SecondsOnTheWire DEF Uint16
    <3> QED
      BY <1>5, <3>2, Zenon DEF Remains, OneSecondLess
  <2> HIDE DEF left
  <2>4. NoEntry \notin BindingToForeignAgent
    BY BindingIsEntry, Zenon
  <2>5. ~AtHome /\ Bound = Ntohs(table[mn].lifetime)
    BY <1>5, <2>4, Zenon DEF AtHome, Bound
  <2>6. CASE left = 0
    <3>1. table'[mn] = NoEntry /\ list'[mn] = 0
      BY <1>1, <1>2, <1>5, <2>3, <2>6
    <3> QED
      BY <1>1, <1>3, <2>2, <2>5, <2>6, <3>1, Zenon
        DEF HomeAgentOK, AtHome, Bound
  <2>7. CASE left # 0
    <3>1. table'[mn] = [table[mn] EXCEPT !.lifetime = left] /\ list'[mn] = 1
      BY <1>1, <1>2, <1>5, <2>3, <2>7
    <3>2. /\ table'[mn] \in BindingToForeignAgent
          /\ table'[mn].lifetime = left /\ table'[mn].id = table[mn].id
      BY <1>5, <2>2, <2>7, <3>1, Zenon DEF BindingToForeignAgent
    <3>3. ~AtHome' /\ Bound' = Ntohs(left)
      BY <2>4, <3>2, Zenon DEF AtHome, Bound
    <3> QED
      BY <1>1, <1>3, <2>2, <2>5, <3>1, <3>2, <3>3, Zenon DEF HomeAgentOK
  <2> QED
    BY <2>6, <2>7, Zenon
<1> QED
  BY <1>4, <1>5, Zenon DEF HomeAgentOK

(***************************************************************************)
(* The home agent's timer keeps Inv.                                       *)
(***************************************************************************)
LEMMA BindingAgesStep ==
    ASSUME Inv, BindingAges, HasRun("ha"), "ha" \notin ticked,
           UNCHANGED <<node, foreignAgent, forgetful>>, UnderWay({}, out')
    PROVE  Inv'
<1>1. TypesOK /\ NodeOK /\ Belief
  BY Zenon DEF Inv, TypesOK
<1>2. /\ HomeAgentOK'
      /\ out' = {}
      /\ ~AtHome' => ~AtHome /\ table'[mn].id = table[mn].id
      /\ Bound' = Bound - 1 \/ (Bound = 0 /\ Bound' = 0)
  BY BindingAged, Zenon DEF Inv, TypesOK
<1>3. PICK d \in {0, 1} : Clock({"ha"}, d)
  BY ClockOfTimer, Zenon
<1>4. net' \subseteq net /\ (d = 1 => net' = {})
  <2>1. net' \subseteq net
    BY <1>2, NetAfter
  <2> QED
    BY <1>2, <1>3, <2>1 DEF Clock
<1>5. UNCHANGED <<home, connected, remainingConnectionTime, curr_coa,
                  current_advertisements, currentRequests, counting,
                  registrationReq, visitorMap, forgetful>>
  BY Zenon DEF node, foreignAgent
<1>6. TypesOK'
  <2>1. NodeOK' /\ ForeignAgentOK' /\ NetOK'
    BY <1>1, <1>4, <1>5, Zenon DEF TypesOK, NodeOK, ForeignAgentOK, NetOK
  <2> QED
    BY <1>2, <2>1, Zenon DEF TypesOK
<1>7. OneEach'
  BY <1>2, <1>4, Zenon DEF Inv, OneEach
<1>8. /\ Ran("ha") = 0 /\ Ran("ha")' = 1 - d
      /\ Ran("requests")' >= Ran("requests") - d
      /\ Ran("requests") \in Int /\ Ran("requests")' \in Int
      /\ d = 0 => Ran("requests")' = Ran("requests") /\ Ran("fa")' = Ran("fa")
  BY <1>3 DEF Clock, Ran
<1>9. ASSUME NEW x \in Int, HomeBacks(x)
       PROVE  HomeBacks(x - d)'
  <2>1. /\ Bound \in Int
        /\ \A q \in currentRequests : Ntohs(q.remainingLifetime) \in Int
    BY <1>1, NumbersOfState
  <2>2. CASE "ha" \in forgetful
    BY <1>5, <2>2, Zenon DEF HomeBacks
  <2>3. CASE x <= Bound + Ran("ha")
    <3>1. x - d <= Bound' + Ran("ha")'
      BY <1>2, <1>8, <2>1, <2>3
    <3> QED
      BY <3>1, Zenon DEF HomeBacks
  <2>4. CASE x <= Ran("requests")
    BY <1>8, <2>4 DEF HomeBacks
  <2>5. ASSUME NEW q \in currentRequests, q.ipDst = hap,
               x <= Ntohs(q.remainingLifetime) + Ran("requests")
        PROVE  HomeBacks(x - d)'
    <3>1. x - d <= Ntohs(q.remainingLifetime) + Ran("requests")'
      BY <1>8, <2>1, <2>5
    <3> QED
      BY <1>5, <2>5, <3>1, Zenon DEF HomeBacks
  <2> QED
    BY <1>9, <2>2, <2>3, <2>4, <2>5, Zenon DEF HomeBacks
<1>10. ASSUME NEW x \in Int, VisitBacks(x)
       PROVE  VisitBacks(x - d)'
  BY <1>1, <1>3, <1>5, <1>10, VisitBacksOn, Zenon
<1>11. RegLifetime \in Int /\ (d = 0 => RegLifetime - d = RegLifetime)
  BY MobileIPAssumption
<1>12. net' # {} => d = 0
  BY <1>4, Zenon
<1>13. Known'
  <2>1. d = 0 /\ HomeBacks(RegLifetime) => HomeBacks(RegLifetime)'
    BY <1>9, <1>11, Zenon
  <2> QED
    BY <1>4, <1>5, <1>8, <1>12, <2>1, Zenon DEF Inv, Known
<1>14. Awaited'
  <2>1. d = 0 /\ VisitBacks(RegLifetime) => VisitBacks(RegLifetime)'
    BY <1>10, <1>11
  <2>2. \A i : d = 0 /\ AwaitedIn(registrationReq, i) => AwaitedIn(registrationReq, i)'
    BY <1>5, <1>8, Zenon DEF AwaitedIn
  <2> QED
    BY <1>4, <1>12, <2>1, <2>2, Zenon DEF Inv, Awaited
<1>15. Belief'
  <2>1. Quiet(0)
    <3>1. Ntohs(remainingConnectionTime) \in Int
      BY <1>1, InSeconds DEF NodeOK
    <3> QED
      BY <1>5, <3>1 DEF Quiet, Believes
  <2>2. Believes' => Ran("connection")' - 0 <= Ran("connection") - d
    BY <1>3, <1>6, ConnectionClock DEF TypesOK
  <2> QED
    BY <1>1, <1>9, <1>10, <2>1, <2>2, BeliefKept, Zenon
<1> QED
  BY <1>6, <1>7, <1>13, <1>14, <1>15, Zenon DEF Inv

(***************************************************************************)
(* The foreign agent's timer takes at most a second off the pending        *)
(* registrations and the visitors: none, where it stops early.  A          *)
(* registration that has waited no second yet is kept unless it was for    *)
(* one second.                                                             *)
(***************************************************************************)
VisitsAge ==
    /\ registrationReq' \in Seq(PendingOfNode)
    /\ Len(registrationReq') <= maxRequests
    /\ out' \subseteq Refused
    /\ visitorMap' \subseteq VisitOfNode
    /\ visitorMap = {} => visitorMap' = {}
    /\ \A v \in visitorMap :
         \/ Ntohs(v.lifetimeRem) = 0
         \/ \E w \in visitorMap' :
              Ntohs(w.lifetimeRem) >= Ntohs(v.lifetimeRem) - 1
    /\ \A item \in Range(registrationReq) :
         RegLifetime <= Ntohs(item.lifetimeRem) =>
           \/ RegLifetime < 2
           \/ \E i \in Range(registrationReq') :
                /\ i.id = item.id
                /\ Ntohs(i.lifetimeRem) >= Ntohs(item.lifetimeRem) - 1

(***************************************************************************)
(* The foreign agent's timer keeps Inv.                                    *)
(***************************************************************************)
LEMMA VisitsAgeStep ==
    ASSUME Inv, VisitsAge, HasRun("fa"), "fa" \notin ticked,
           UNCHANGED <<node, homeAgent, forgetful>>, UnderWay({}, out')
    PROVE  Inv'
<1>1. TypesOK /\ NodeOK /\ Belief /\ ForeignAgentOK
  BY Zenon DEF Inv, TypesOK
<1>2. /\ registrationReq' \in Seq(PendingOfNode)
      /\ Len(registrationReq') <= maxRequests
      /\ out' \subseteq Refused
      /\ visitorMap' \subseteq VisitOfNode
      /\ visitorMap = {} => visitorMap' = {}
      /\ \A v \in visitorMap :
           \/ Ntohs(v.lifetimeRem) = 0
           \/ \E w \in visitorMap' :
                Ntohs(w.lifetimeRem) >= Ntohs(v.lifetimeRem) - 1
      /\ \A item \in Range(registrationReq) :
           RegLifetime <= Ntohs(item.lifetimeRem) =>
             \/ RegLifetime < 2
             \/ \E i \in Range(registrationReq') :
                  /\ i.id = item.id
                  /\ Ntohs(i.lifetimeRem) >= Ntohs(item.lifetimeRem) - 1
  BY Zenon DEF VisitsAge
<1>3. PICK d \in {0, 1} : Clock({"fa"}, d)
  BY ClockOfTimer, Zenon
<1>4. /\ net' \subseteq net \cup Refused
      /\ net' \cap Live \subseteq net
      /\ net' \cap Live # {} => d = 0
  <2>1. net' \subseteq net \cup out'
    BY NetAfter, Zenon
  <2>2. Refused \cap Live = {}
    BY KindsDiffer, Zenon DEF Live, Asks
  <2> QED
    BY <1>2, <1>3, <2>1, <2>2, Zenon DEF Clock
<1>5. /\ UNCHANGED <<home, connected, remainingConnectionTime, curr_coa,
                     current_advertisements, currentRequests, counting,
                     table, list, forgetful>>
      /\ AtHome' <=> AtHome
  BY Zenon DEF node, homeAgent, AtHome
<1>6. TypesOK'
  <2>1. NodeOK' /\ HomeAgentOK' /\ NetOK'
    BY <1>1, <1>4, <1>5, Zenon DEF TypesOK, NodeOK, HomeAgentOK, NetOK
  <2>2. ForeignAgentOK'
    BY <1>1, <1>2, <1>5, Zenon DEF ForeignAgentOK
  <2> QED
    BY <2>1, <2>2, Zenon DEF TypesOK
<1>7. OneEach'
  <2>1. Asks \subseteq Live
    BY Zenon DEF Asks, Live
  <2> QED
    BY <1>4, <1>5, <2>1, Zenon DEF Inv, OneEach
<1>8. /\ Ran("fa") = 0 /\ Ran("fa")' = 1 - d
      /\ d = 0 => Ran("requests")' = Ran("requests")
  BY <1>3 DEF Clock, Ran
<1>9. ASSUME NEW x \in Int, HomeBacks(x)
       PROVE  HomeBacks(x - d)'
  BY <1>1, <1>3, <1>5, <1>9, HomeBacksOn, Zenon
<1>10. ASSUME NEW x \in Int, VisitBacks(x)
       PROVE  VisitBacks(x - d)'
  <2>1. CASE "fa" \in forgetful
    BY <1>5, <2>1, Zenon DEF VisitBacks
  <2>2. CASE x <= 0
    BY <1>8, <2>2 DEF VisitBacks
  <2>3. ASSUME NEW v \in visitorMap, x <= Ntohs(v.lifetimeRem) + 0, ~(x <= 0)
        PROVE  VisitBacks(x - d)'
    <3>1. Ntohs(v.lifetimeRem) \in Int
      BY <1>1, NumbersOfState
    <3>2. PICK w \in visitorMap' : Ntohs(w.lifetimeRem) >= Ntohs(v.lifetimeRem) - 1
      BY <1>2, <2>3, <3>1
    <3>3. Ntohs(w.lifetimeRem) \in Int
      <4>1. w.lifetimeRem \in Seconds
        BY <1>2, <3>2, Zenon DEF VisitOfNode
      <4> QED
        BY <4>1, InSeconds
    <3>4. x - d <= Ntohs(w.lifetimeRem) + Ran("fa")'
      BY <1>8, <2>3, <3>1, <3>2, <3>3
    <3> QED
      BY <3>4, Zenon DEF VisitBacks
  <2> QED
    BY <1>8, <1>10, <2>1, <2>2, <2>3, Zenon DEF VisitBacks
<1>11. RegLifetime \in Nat /\ (d = 0 => RegLifetime - d = RegLifetime)
  BY MobileIPAssumption
<1>12. Known'
  <2>1. d = 0 /\ HomeBacks(RegLifetime) => HomeBacks(RegLifetime)'
    BY <1>9, <1>11
  <2> QED
    BY <1>4, <1>5, <1>8, <2>1, Zenon DEF Inv, Known
<1>13. Awaited'
  <2>1. d = 0 /\ VisitBacks(RegLifetime) => VisitBacks(RegLifetime)'
    BY <1>10, <1>11
  <2>2. ASSUME NEW i, d = 0, AwaitedIn(registrationReq, i)
        PROVE  VisitBacks(RegLifetime)' \/ AwaitedIn(registrationReq, i)'
    <3>1. PICK item \in Range(registrationReq) :
            item.id = i /\ RegLifetime <= Ntohs(item.lifetimeRem) + 0
      BY <1>8, <2>2, Zenon DEF AwaitedIn
    <3>2. Ntohs(item.lifetimeRem) \in Int
      <4>1. item \in PendingOfNode
        BY <1>1 DEF ForeignAgentOK, Range
      <4>2. item.lifetimeRem \in SecondsLeft
        BY <4>1, Zenon DEF PendingOfNode
      <4> QED
        BY <4>2, InSecondsLeft
    <3>3. CASE RegLifetime < 2
      <4>1. RegLifetime <= Ran("fa")'
        BY <1>8, <1>11, <2>2, <3>3
      <4> QED
        BY <4>1, Zenon DEF VisitBacks
    <3>4. CASE ~(RegLifetime < 2)
      <4>1. PICK j \in Range(registrationReq') :
              j.id = i /\ Ntohs(j.lifetimeRem) >= Ntohs(item.lifetimeRem) - 1
        BY <1>2, <3>1, <3>2, <3>4
      <4>2. j \in PendingOfNode
        BY <1>2 DEF Range
      <4>3. Ntohs(j.lifetimeRem) \in Int
        <5>1. j.lifetimeRem \in SecondsLeft
          BY <4>2, Zenon DEF PendingOfNode
        <5> QED
          BY <5>1, InSecondsLeft
      <4>4. RegLifetime <= Ntohs(j.lifetimeRem) + Ran("fa")'
        BY <1>8, <1>11, <2>2, <3>1, <3>2, <4>1, <4>3
      <4> QED
        BY <4>1, <4>4, Zenon DEF AwaitedIn
    <3> QED
      BY <3>3, <3>4, Zenon
  <2>3. Relayed \cup Granted \cup PassedOn \subseteq Live
    BY Zenon DEF Live
  <2>4. ASSUME NEW p \in net' \cap (Relayed \cup Granted)
        PROVE  VisitBacks(RegLifetime)' \/ AwaitedIn(registrationReq, p.id)'
    <3>1. d = 0 /\ p \in net
      BY <1>4, <2>3, Zenon
    <3>2. VisitBacks(RegLifetime) \/ AwaitedIn(registrationReq, p.id)
      BY <3>1, Zenon DEF Inv, Awaited
    <3> QED
      BY <2>1, <2>2, <3>1, <3>2, Zenon
  <2>5. ASSUME NEW p \in net' \cap PassedOn
        PROVE  VisitBacks(RegLifetime)'
    <3>1. d = 0 /\ p \in net
      BY <1>4, <2>3, Zenon
    <3> QED
      BY <2>1, <3>1, Zenon DEF Inv, Awaited
  <2> QED
    BY <2>4, <2>5, Zenon DEF Awaited
<1>14. Belief'
  <2>1. Quiet(0)
    <3>1. Ntohs(remainingConnectionTime) \in Int
      BY <1>1, InSeconds DEF NodeOK
    <3> QED
      BY <1>5, <3>1 DEF Quiet, Believes
  <2>2. Believes' => Ran("connection")' - 0 <= Ran("connection") - d
    BY <1>3, <1>6, ConnectionClock DEF TypesOK
  <2> QED
    BY <1>1, <1>9, <1>10, <2>1, <2>2, BeliefKept, Zenon
<1> QED
  BY <1>6, <1>7, <1>12, <1>13, <1>14, Zenon DEF Inv

-----------------------------------------------------------------------------
(***************************************************************************)
(* A step that changes nothing Inv speaks of, or only loses packets: a     *)
(* move of the node, or a request an agent can make no packet for.         *)
(***************************************************************************)
LEMMA SameStep ==
    ASSUME Inv, UNCHANGED <<node, homeAgent, registrationReq, visitorMap,
                            ticked, forgetful>>,
           net' \subseteq net
    PROVE  Inv'
<1>1. UNCHANGED <<home, connected, remainingConnectionTime, curr_coa,
                  current_advertisements, currentRequests, counting, table,
                  list, registrationReq, visitorMap, ticked, forgetful>>
  BY Zenon DEF node, homeAgent
<1>2. TypesOK'
  BY <1>1, Zenon DEF Inv, TypesOK, NodeOK, HomeAgentOK, ForeignAgentOK, NetOK
<1>3. OneEach'
  BY <1>1, Zenon DEF Inv, OneEach, AtHome
<1>4. \A x : HomeBacks(x)' <=> HomeBacks(x)
  BY <1>1, Zenon DEF HomeBacks, Bound, AtHome, Ran
<1>5. \A x : VisitBacks(x)' <=> VisitBacks(x)
  BY <1>1, Zenon DEF VisitBacks, Ran
<1>6. \A t : Ran(t)' = Ran(t)
  BY <1>1, Zenon DEF Ran
<1>7. Known'
  BY <1>1, <1>4, <1>6, Zenon DEF Inv, Known
<1>8. Awaited'
  <2>1. \A i : AwaitedIn(registrationReq, i)' <=> AwaitedIn(registrationReq, i)
    BY <1>1, <1>6, Zenon DEF AwaitedIn
  <2> QED
    BY <1>1, <1>5, <2>1, Zenon DEF Inv, Awaited
<1>9. Belief'
  BY <1>1, Zenon
    DEF Inv, Belief, Believes, Believed, HomeBacks, VisitBacks, Bound,
     AtHome, Ran
<1> QED
  BY <1>2, <1>3, <1>7, <1>8, <1>9, Zenon DEF Inv

(***************************************************************************)
(* The restarts.  An agent that was restarted has forgotten the node, and  *)
(* a node that was restarted believes nothing.                             *)
(***************************************************************************)
LEMMA HomeAgentForgets ==
    ASSUME Inv, table' = [n \in Nodes |-> NoEntry], list' = [n \in Nodes |-> 0],
           forgetful' = forgetful \cup {"ha"},
           UNCHANGED <<node, foreignAgent, ticked, net>>
    PROVE  Inv'
<1>1. UNCHANGED <<home, connected, remainingConnectionTime, curr_coa,
                  current_advertisements, currentRequests, counting,
                  registrationReq, visitorMap, net, ticked>>
  BY Zenon DEF node, foreignAgent
<1>2. HomeAgentOK' /\ AtHome'
  BY MobileIPAssumption, Zenon DEF HomeAgentOK, AtHome
<1>3. TypesOK'
  BY <1>1, <1>2, Zenon DEF Inv, TypesOK, NodeOK, ForeignAgentOK, NetOK
<1>4. OneEach'
  BY <1>1, <1>2, Zenon DEF Inv, OneEach
<1>5. \A x : HomeBacks(x)'
  BY Zenon DEF HomeBacks
<1>6. \A x : VisitBacks(x)' <=> VisitBacks(x)
  BY <1>1, Zenon DEF VisitBacks, Ran
<1>7. \A t : Ran(t)' = Ran(t)
  BY <1>1, Zenon DEF Ran
<1>8. Known'
  BY <1>1, <1>5, <1>7, Zenon DEF Inv, Known
<1>9. Awaited'
  <2>1. \A i : AwaitedIn(registrationReq, i)' <=> AwaitedIn(registrationReq, i)
    BY <1>1, <1>7, Zenon DEF AwaitedIn
  <2> QED
    BY <1>1, <1>6, <2>1, Zenon DEF Inv, Awaited
<1>10. Belief'
  BY <1>1, Zenon
    DEF Inv, Belief, Believes, Believed, HomeBacks, VisitBacks, Ran
<1> QED
  BY <1>3, <1>4, <1>8, <1>9, <1>10, Zenon DEF Inv

(***************************************************************************)
(* The same of the foreign agent.                                          *)
(***************************************************************************)
LEMMA ForeignAgentForgets ==
    ASSUME Inv, registrationReq' = <<>>, visitorMap' = {},
           forgetful' = forgetful \cup {"fa"},
           UNCHANGED <<node, homeAgent, ticked, net>>
    PROVE  Inv'
<1>1. UNCHANGED <<home, connected, remainingConnectionTime, curr_coa,
                  current_advertisements, currentRequests, counting,
                  table, list, net, ticked>>
  BY Zenon DEF node, homeAgent
<1>2. ForeignAgentOK'
  BY MobileIPAssumption DEF ForeignAgentOK
<1>3. TypesOK'
  BY <1>1, <1>2, Zenon DEF Inv, TypesOK, NodeOK, HomeAgentOK, NetOK
<1>4. OneEach'
  BY <1>1, Zenon DEF Inv, OneEach, AtHome
<1>5. \A x : HomeBacks(x)' <=> HomeBacks(x)
  BY <1>1, Zenon DEF HomeBacks, Bound, AtHome, Ran
<1>6. \A x : VisitBacks(x)'
  BY Zenon DEF VisitBacks
<1>7. Ran("requests")' = Ran("requests")
  BY <1>1, Zenon DEF Ran
<1>8. Known'
  BY <1>1, <1>5, <1>7, Zenon DEF Inv, Known
<1>9. Awaited'
  BY <1>6, Zenon DEF Awaited
<1>10. Belief'
  BY <1>1, Zenon
    DEF Inv, Belief, Believes, Believed, HomeBacks, VisitBacks, Bound,
     AtHome, Ran
<1> QED
  BY <1>3, <1>4, <1>8, <1>9, <1>10, Zenon DEF Inv

(***************************************************************************)
(* A node that has just been started.                                      *)
(***************************************************************************)
Fresh ==
    /\ home = TRUE /\ connected = FALSE /\ counting = FALSE
    /\ remainingConnectionTime = 0
    /\ current_advertisements = <<>> /\ currentRequests = {}

(***************************************************************************)
(* It has the type of a node.                                              *)
(***************************************************************************)
LEMMA FreshIsOK == Fresh => NodeOK /\ ~Believes /\ currentRequests = {}
<1> SUFFICES ASSUME Fresh
             PROVE  NodeOK /\ ~Believes /\ currentRequests = {}
  BY Zenon
<1>1. current_advertisements \in Seq(Heard)
  BY DEF Fresh
<1>2. /\ currentRequests \subseteq Asked
      /\ \A q, p \in currentRequests : q.id = p.id => q = p
  BY Zenon DEF Fresh
<1>3. remainingConnectionTime \in Seconds
  BY FullIsLeft, Zenon DEF Fresh
<1> QED
  BY <1>1, <1>2, <1>3, Zenon DEF NodeOK, Fresh, Believes

(***************************************************************************)
(* A node that was restarted believes nothing.                             *)
(***************************************************************************)
LEMMA NodeForgets ==
    ASSUME Inv, Fresh',
           ticked' = ticked \ {"adv", "requests", "connection"},
           UNCHANGED <<homeAgent, foreignAgent, forgetful, net>>
    PROVE  Inv'
<1>1. UNCHANGED <<table, list, registrationReq, visitorMap, net, forgetful>>
  BY Zenon DEF homeAgent, foreignAgent
<1>2. NodeOK' /\ ~Believes' /\ currentRequests' = {}
  <2>1. /\ current_advertisements' \in Seq(Heard)
        /\ currentRequests' \subseteq Asked
        /\ \A q, p \in currentRequests' : q.id = p.id => q = p
    BY DEF Fresh
  <2>2. remainingConnectionTime' \in Seconds
    BY FullIsLeft, Zenon DEF Fresh
  <2> QED
    BY <2>1, <2>2, Zenon DEF NodeOK, Fresh, Believes
<1>3. TypesOK'
  BY <1>1, <1>2, Zenon DEF Inv, TypesOK, ForeignAgentOK, HomeAgentOK, NetOK
<1>4. OneEach'
  BY <1>1, Zenon DEF Inv, OneEach, AtHome
<1>5. Known'
  BY <1>2, Zenon DEF Known
<1>6. Ran("fa")' = Ran("fa")
  BY Zenon DEF Ran
<1>7. Awaited'
  <2>1. \A i : AwaitedIn(registrationReq, i)' <=> AwaitedIn(registrationReq, i)
    BY <1>1, <1>6, Zenon DEF AwaitedIn
  <2>2. \A x : VisitBacks(x)' <=> VisitBacks(x)
    BY <1>1, <1>6, Zenon DEF VisitBacks
  <2> QED
    BY <1>1, <2>1, <2>2, Zenon DEF Inv, Awaited
<1>8. Belief'
  BY <1>2, Zenon DEF Belief
<1> QED
  BY <1>3, <1>4, <1>5, <1>7, <1>8, Zenon DEF Inv

-----------------------------------------------------------------------------
(***************************************************************************)
(* At the beginning nobody knows of anybody.                               *)
(***************************************************************************)
LEMMA NobodyKnows ==
    ASSUME Fresh, table = [n \in Nodes |-> NoEntry], list = [n \in Nodes |-> 0],
           registrationReq = <<>>, visitorMap = {}, net = {}
    PROVE  Inv
<1>1. NodeOK /\ ~Believes /\ currentRequests = {}
  BY FreshIsOK, Zenon
<1>2. HomeAgentOK
  BY MobileIPAssumption, Zenon DEF HomeAgentOK
<1>3. ForeignAgentOK /\ NetOK
  BY MobileIPAssumption DEF ForeignAgentOK, NetOK
<1>4. OneEach /\ Known /\ Awaited /\ Belief
  BY <1>1, Zenon DEF OneEach, Known, Awaited, Belief
<1> QED
  BY <1>1, <1>2, <1>3, <1>4, Zenon DEF Inv, TypesOK

(***************************************************************************)
(* Inv says that the home agent backs what the node believes.  The node    *)
(* counts one second more than what is backed at the beginning of the      *)
(* second, and the home agent's timer may have taken another one off.      *)
(***************************************************************************)
LEMMA BoundWhileBelieved ==
    ASSUME Inv
    PROVE  BeliefBacked
<1> SUFFICES ASSUME Believes, ~Deregistering, "ha" \notin forgetful
             PROVE  IF AtHome THEN Ntohs(remainingConnectionTime) <= Skew
                    ELSE /\ table[mn].mobile_node_coa = curr_coa
                         /\ Ntohs(remainingConnectionTime)
                              <= Ntohs(table[mn].lifetime) + Skew
  BY Zenon DEF BeliefBacked
<1>1. TypesOK /\ NodeOK /\ HomeBacks(Believed)
  BY Zenon DEF Inv, TypesOK, Belief
<1>2. /\ Ntohs(remainingConnectionTime) \in 1 .. RegLifetime
      /\ remainingConnectionTime # 0
  BY <1>1, InSeconds DEF NodeOK, Believes
<1>3. curr_coa = fa
  BY <1>1, <1>2, Zenon DEF NodeOK
<1>4. Bound \in 0 .. RegLifetime
  BY <1>1, NumbersOfState, Zenon
<1>5. /\ Ran("ha") \in {0, 1} /\ Ran("requests") \in {0, 1}
      /\ Ran("connection") \in {0, 1}
  BY Zenon DEF Ran
<1>6. Believed <= Bound + Ran("ha") \/ Believed <= Ran("requests")
  BY <1>1, Zenon DEF HomeBacks, Deregistering
<1>7. Ntohs(remainingConnectionTime) <= Bound + Skew
  BY <1>2, <1>4, <1>5, <1>6 DEF Believed, Skew
<1>8. CASE AtHome
  BY <1>2, <1>7, <1>8 DEF Bound, Skew
<1>9. CASE ~AtHome
  <2>1. table[mn].mobile_node_coa = fa
    BY <1>1, <1>9, Zenon
      DEF TypesOK, HomeAgentOK, AtHome, BindingToForeignAgent
  <2> QED
    BY <1>3, <1>7, <1>9, <2>1, Zenon DEF Bound
<1> QED
  BY <1>8, <1>9, Zenon

(***************************************************************************)
(* The same for the foreign agent.                                         *)
(***************************************************************************)
LEMMA VisitorWhileBelieved ==
    ASSUME Inv
    PROVE  VisitorBacked
<1> SUFFICES ASSUME Believes, "fa" \notin forgetful
             PROVE  \/ Ntohs(remainingConnectionTime) <= Skew
                    \/ \E v \in visitorMap :
                         /\ v.ipSrc = mn
                         /\ Ntohs(remainingConnectionTime)
                              <= Ntohs(v.lifetimeRem) + Skew
  BY Zenon DEF VisitorBacked
<1>1. TypesOK /\ NodeOK /\ VisitBacks(Believed)
  BY Zenon DEF Inv, TypesOK, Belief
<1>2. Ntohs(remainingConnectionTime) \in 0 .. RegLifetime /\ RegLifetime \in Nat
  BY <1>1, InSeconds, MobileIPAssumption DEF NodeOK
<1>3. \A v \in visitorMap : v.ipSrc = mn /\ Ntohs(v.lifetimeRem) \in 0 .. RegLifetime
  <2>1. \A v \in visitorMap : v.ipSrc = mn
    BY <1>1, Zenon DEF TypesOK, ForeignAgentOK, VisitOfNode
  <2> QED
    BY <1>1, <2>1, NumbersOfState, Zenon
<1>4. Ran("fa") \in {0, 1} /\ Ran("connection") \in {0, 1}
  BY Zenon DEF Ran
<1>5. CASE Believed <= Ran("fa")
  BY <1>2, <1>4, <1>5 DEF Believed, Skew
<1>6. ASSUME NEW v \in visitorMap, Believed <= Ntohs(v.lifetimeRem) + Ran("fa")
      PROVE  Ntohs(remainingConnectionTime) <= Ntohs(v.lifetimeRem) + Skew
  BY <1>2, <1>3, <1>4, <1>6 DEF Believed, Skew
<1> QED
  BY <1>1, <1>3, <1>5, <1>6, Zenon DEF VisitBacks
=============================================================================
