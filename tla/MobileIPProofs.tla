--------------------------- MODULE MobileIPProofs ---------------------------
(***************************************************************************)
(* Theorems about the node, its home agent and its foreign agent together: *)
(* every step of the system has one of the effects of RegistrationProofs,  *)
(* so that what is proved there of a registration holds in every state.    *)
(***************************************************************************)
EXTENDS MobileIP, RegistrationProofs, BasicProofs

(***************************************************************************)
(* The operators the components have in common are the same in each.       *)
(***************************************************************************)
LEMMA SameNumbers ==
    /\ \A x : MN!OneSecondLess(x) = OneSecondLess(x)
    /\ \A x : FA!OneSecondLess(x) = OneSecondLess(x)
    /\ \A x : MN!Htons(x) = Htons(x) /\ FA!Htons(x) = Htons(x)
               /\ HA!Htons(x) = Htons(x) /\ FA!Ntohs(x) = Ntohs(x)
    /\ \A x, y : /\ MN!Sub16(x, y) = Sub16(x, y)
                  /\ HA!Sub16(x, y) = Sub16(x, y)
BY Zenon
  DEF MN!OneSecondLess, FA!OneSecondLess, OneSecondLess, MN!Sub16, FA!Sub16,
       HA!Sub16, Sub16, MN!Word, FA!Word, HA!Word, Word, MN!Htons, FA!Htons,
       HA!Htons, Htons, FA!Ntohs, Ntohs

(***************************************************************************)
(* The same of what they use of Lists.                                     *)
(***************************************************************************)
LEMMA SameLists ==
    /\ \A s : MN!Range(s) = Range(s) /\ FA!Range(s) = Range(s)
    /\ \A s, S : MN!Retain(s, S) = Retain(s, S) /\ FA!Retain(s, S) = Retain(s, S)
    /\ \A s, i : FA!Erase(s, i) = Erase(s, i)
    /\ \A S : FA!Min(S) = Min(S)
BY Zenon DEF MN!Range, FA!Range, Range, MN!Retain, FA!Retain, Retain, FA!Erase,
       Erase, FA!Min, Min

-----------------------------------------------------------------------------
(***************************************************************************)
(* An entry and a packet of makePacket.                                    *)
(***************************************************************************)
LEMMA MadeOne ==
    ASSUME NEW a, OfAnAgent(a), NEW i \in Ids
    PROVE  /\ MN!NewRequest(a, i) \in Asked
           /\ MN!NewRequest(a, i).id = i
           /\ MN!NewRequest(a, i).remainingLifetime = Full
           /\ MN!RequestPacket(a, i) \in Leaving \cup Entering
           /\ MN!RequestPacket(a, i).id = i
           /\ MN!RequestPacket(a, i).lifetime = 0
                <=> MN!NewRequest(a, i).ipDst = hap
<1>1. Full \in SecondsLeft /\ Full # 0
  BY FullIsLeft, Zenon
<1>2. hap # fap
  BY MobileIPAssumption, Zenon
<1>3. CASE a.private_addr = hap /\ a.COA = ha
  BY <1>1, <1>2, <1>3, Zenon
    DEF OfAnAgent, MN!NewRequest, MN!RequestPacket, Asked,
     AskedOf, MN!IsHomeAgent, Leaving, Asking, MN!RequestType, RequestType, Links
<1>4. CASE a.private_addr = fap /\ a.COA = fa
  BY <1>1, <1>2, <1>4, Zenon
    DEF OfAnAgent, MN!NewRequest, MN!RequestPacket, Asked,
     AskedOf, MN!IsHomeAgent, Entering, Asking, MN!RequestType, RequestType, Links
<1> QED
  BY <1>3, <1>4, Zenon DEF OfAnAgent

(***************************************************************************)
(* makePacket for an agent's advertisement, with any number of             *)
(* identifications: what the node remembers and what it pushes have the    *)
(* right types and belong together, and it believes no more than it did.   *)
(***************************************************************************)
LEMMA MadeAll ==
    ASSUME NodeOK, NEW a, OfAnAgent(a), NEW I \in SUBSET MN!FreshIds, NEW left,
           MN!makePacket(a, I, left), left \in Seconds,
           left # 0 => curr_coa = fa
    PROVE  /\ currentRequests' \subseteq Asked
           /\ \A q, p \in currentRequests' : q.id = p.id => q = p
           /\ Pushed(currentRequests)
           /\ remainingConnectionTime' \in Seconds
           /\ remainingConnectionTime' # 0 =>
                remainingConnectionTime' = left /\ curr_coa' = fa
<1>1. /\ currentRequests' = currentRequests \cup {MN!NewRequest(a, i) : i \in I}
      /\ out' = {MN!RequestPacket(a, i) : i \in I}
  BY Zenon DEF MN!makePacket
<1>2. /\ I \subseteq Ids
      /\ \A i \in I, q \in currentRequests : q.id # i
  BY Zenon DEF MN!FreshIds
<1> DEFINE made(i) == MN!NewRequest(a, i)
           sent(i) == MN!RequestPacket(a, i)
<1>0. \A i \in I :
        /\ made(i) \in Asked /\ made(i).id = i
        /\ made(i).remainingLifetime = Full
        /\ sent(i) \in Leaving \cup Entering /\ sent(i).id = i
        /\ sent(i).lifetime = 0 <=> made(i).ipDst = hap
  BY <1>2, MadeOne, SMTT(20)
<1>1a. /\ currentRequests' = currentRequests \cup {made(i) : i \in I}
       /\ out' = {sent(i) : i \in I}
  BY <1>1, Zenon
<1> HIDE DEF made, sent
<1>3. \A q \in currentRequests' :
        \/ q \in currentRequests
        \/ \E i \in I : q = made(i)
  BY <1>1a, Zenon
<1>4. currentRequests' \subseteq Asked
  BY <1>0, <1>2, <1>3, SMTT(20) DEF NodeOK
<1>5. \A q, p \in currentRequests' : q.id = p.id => q = p
  BY <1>0, <1>2, <1>3, SMTT(20) DEF NodeOK
<1>6. Pushed(currentRequests)
  <2>1. out' \subseteq Leaving \cup Entering
    BY <1>0, <1>1a, Zenon
  <2>2. \A p, q \in out' : p.id = q.id => p = q
    BY <1>0, <1>1a, SMTT(20)
  <2>3. ASSUME NEW q \in currentRequests' \ currentRequests
        PROVE  /\ q.remainingLifetime = Full
               /\ \E p \in out' : p.id = q.id /\ (p.lifetime = 0 <=> q.ipDst = hap)
    BY <1>0, <1>1a, <1>3, SMTT(20)
  <2> QED
    BY <1>1, <2>1, <2>2, <2>3, Zenon DEF Pushed
<1>7. \/ remainingConnectionTime' = 0
      \/ remainingConnectionTime' = left /\ curr_coa' = curr_coa
  BY Zenon DEF MN!makePacket, MN!gateway
<1> QED
  BY <1>4, <1>5, <1>6, <1>7, FullIsLeft, Zenon

(***************************************************************************)
(* What the agents advertise can be used by the node: they are home agents *)
(* that are not busy.                                                      *)
(***************************************************************************)
LEMMA AdvertisedOfAgent ==
    ASSUME NEW a \in Advertised
    PROVE  /\ OfAnAgent(a)
           /\ MN!EntryOf(a) \in Heard
           /\ MN!IsHA(a) /\ ~MN!Busy(a)
<1>1. PICK k \in {0, 1} : a = Adv(ha, hap, k) \/ a = Adv(fa, fap, k)
  BY Zenon DEF Advertised
<1>2. AdvLifetime \in 0 .. (Byte - 1) /\ k \in 0 .. (Byte - 1)
  BY MobileIPAssumption, ByteAssumption, SMTT(20)
<1>3. Htons(AdvLifetime) \in Uint16 /\ Htons(k) \in Uint16
  BY <1>2, HtonsRange, Zenon
<1> QED
  BY <1>1, <1>3, SMTT(20) DEF Adv, OfAnAgent, MN!EntryOf, Heard, HeardFrom, Full,
     MN!IsHA, MN!Busy

(***************************************************************************)
(* The list of advertisements after a second.                              *)
(***************************************************************************)
LEMMA RemainingHeard ==
    ASSUME current_advertisements \in Seq(Heard)
    PROVE  MN!Remaining \in Seq(Heard)
<1> DEFINE S == {e \in MN!Held : e.lifetime # 0}
           kept == Retain(current_advertisements, S)
<1>1. kept \in Seq(Heard)
  BY RetainIsDrawn, Zenon
<1>2. MN!Remaining = [k \in DOMAIN kept |->
                        [kept[k] EXCEPT !.lifetime = OneSecondLess(@)]]
  BY SameLists, SameNumbers, Zenon DEF MN!Remaining
<1> HIDE DEF kept
<1>3. \A k \in DOMAIN kept :
        [kept[k] EXCEPT !.lifetime = OneSecondLess(@)] \in Heard
  BY <1>1, AgedHeard
<1>4. DOMAIN kept = 1 .. Len(kept) /\ Len(kept) \in Nat
  BY <1>1
<1> QED
  BY <1>2, <1>3, <1>4, SMTT(20)

(***************************************************************************)
(* The list with what was just heard.                                      *)
(***************************************************************************)
LEMMA UpdatedHeard ==
    ASSUME current_advertisements \in Seq(Heard), NEW a \in Advertised
    PROVE  MN!Updated(a) \in Seq(Heard)
<1>1. MN!EntryOf(a) \in Heard
  BY AdvertisedOfAgent, Zenon
<1>2. MN!Updated(a) = IF \E e \in MN!Held : MN!SameAgent(e, a)
      THEN [k \in DOMAIN current_advertisements |->
              IF MN!LooksReset(current_advertisements[k], a)
                THEN MN!EntryOf(a) ELSE current_advertisements[k]]
      ELSE Append(current_advertisements, MN!EntryOf(a))
  BY Zenon DEF MN!Updated
<1> QED
  BY <1>1, <1>2

(***************************************************************************)
(* Those of the agent the node uses.                                       *)
(***************************************************************************)
LEMMA CurrentHeard ==
    ASSUME current_advertisements \in Seq(Heard)
    PROVE  MN!CurrentAdvs \in Seq(Heard)
BY RetainIsDrawn, SameLists, Zenon DEF MN!CurrentAdvs

(***************************************************************************)
(* An advertisement: the agents advertise as home agents that are not      *)
(* busy, so it is one the node can use.                                    *)
(***************************************************************************)
LEMMA HearEffect ==
    ASSUME NodeOK, NEW a \in Advertised, MN!push_adv(a)
    PROVE  NodeEffect(0)
<1>1. OfAnAgent(a) /\ MN!UsableAdv(a)
  BY AdvertisedOfAgent, Zenon DEF MN!push_adv, MN!IgnoreAdv, MN!BusyAdv
<1>2. PICK I \in MN!Draws(MN!Calls(a)) :
        MN!makePacket(a, I, remainingConnectionTime)
  BY <1>1, Zenon DEF MN!UsableAdv
<1>3. I \in SUBSET MN!FreshIds
  BY Zenon DEF MN!Draws
<1>4. /\ currentRequests' \subseteq Asked
      /\ \A q, p \in currentRequests' : q.id = p.id => q = p
      /\ Pushed(currentRequests)
      /\ remainingConnectionTime' \in Seconds
      /\ remainingConnectionTime' # 0 =>
           remainingConnectionTime' = remainingConnectionTime /\ curr_coa' = fa
  BY <1>1, <1>2, <1>3, MadeAll, Zenon DEF NodeOK
<1>5. current_advertisements' \in Seq(Heard)
  BY <1>1, UpdatedHeard, Zenon DEF NodeOK, MN!UsableAdv
<1>6. UNCHANGED <<home, connected, counting>>
  BY <1>1, Zenon DEF MN!UsableAdv
<1>7. NodeOK'
  BY <1>4, <1>5, <1>6, Zenon DEF NodeOK
<1>8. Quiet(0)
  <2>1. /\ Ntohs(remainingConnectionTime') > 0 => remainingConnectionTime' # 0
        /\ Ntohs(remainingConnectionTime) \in Int
    BY <1>4, InSeconds, SMTT(20) DEF NodeOK
  <2> QED
    BY <1>4, <1>6, <2>1, SMTT(20) DEF Quiet, Believes
<1> QED
  BY <1>4, <1>7, <1>8, Zenon DEF NodeEffect

(***************************************************************************)
(* The advertisement timer: the node may lose its agent and ask another.   *)
(***************************************************************************)
LEMMA AdvTimerEffect ==
    ASSUME NodeOK, MN!run_timer_adv
    PROVE  NodeEffect(0)
<1>1. MN!Remaining \in Seq(Heard)
  BY RemainingHeard, Zenon DEF NodeOK
<1>2. /\ current_advertisements' = MN!Remaining
      /\ connected' = (connected /\ ~MN!AgentLost)
      /\ UNCHANGED <<home, counting>>
  BY Zenon DEF MN!run_timer_adv
<1>3. /\ connected' \in BOOLEAN
      /\ connected' => connected
  BY <1>2, Zenon DEF NodeOK
<1>4. /\ currentRequests' \subseteq Asked
      /\ \A q, p \in currentRequests' : q.id = p.id => q = p
      /\ Pushed(currentRequests)
      /\ remainingConnectionTime' \in Seconds
      /\ remainingConnectionTime' # 0 =>
           remainingConnectionTime' = remainingConnectionTime /\ curr_coa' = fa
  <2>1. CASE MN!AgentLost /\ MN!Remaining # <<>>
    <3>1. PICK I \in MN!Draws(1) :
            MN!makePacket(Head(MN!Remaining), I, remainingConnectionTime)
      BY <2>1, Zenon DEF MN!run_timer_adv
    <3>2. I \in SUBSET MN!FreshIds
      BY Zenon DEF MN!Draws
    <3>3. Head(MN!Remaining) \in Heard
      BY <1>1, <2>1, SMTT(20)
    <3>4. OfAnAgent(Head(MN!Remaining))
      BY <3>3, HeardOfAgent, Zenon
    <3> QED
      BY <3>1, <3>2, <3>4, MadeAll, Zenon DEF NodeOK
  <2>2. CASE ~(MN!AgentLost /\ MN!Remaining # <<>>)
    <3>1. /\ out' = {}
          /\ UNCHANGED <<currentRequests, remainingConnectionTime, curr_coa>>
      BY <2>2, Zenon DEF MN!run_timer_adv, MN!gateway
    <3> QED
      BY <3>1, MadeNone, Zenon DEF NodeOK
  <2> QED
    BY <2>1, <2>2, Zenon
<1>5. NodeOK'
  BY <1>1, <1>2, <1>3, <1>4, Zenon DEF NodeOK
<1>6. Quiet(0)
  <2>1. /\ Ntohs(remainingConnectionTime') > 0 => remainingConnectionTime' # 0
        /\ Ntohs(remainingConnectionTime) \in Int
    BY <1>4, InSeconds, SMTT(20) DEF NodeOK
  <2> QED
    BY <1>2, <1>3, <1>4, <2>1, SMTT(20) DEF Quiet, Believes
<1> QED
  BY <1>4, <1>5, <1>6, Zenon DEF NodeEffect

(***************************************************************************)
(* The timer of the connection takes a second off what the node believes.  *)
(***************************************************************************)
LEMMA ConnectionTimerEffect ==
    ASSUME NodeOK, MN!run_timer_connection
    PROVE  NodeEffect(1)
<1>1. CASE MN!ConnectionOver
  <2>1. /\ out' = {}
        /\ connected' = FALSE
        /\ UNCHANGED <<home, remainingConnectionTime, curr_coa,
                       current_advertisements, currentRequests, counting>>
    BY <1>1, Zenon DEF MN!ConnectionOver, MN!gateway
  <2> QED
    BY <2>1, MadeNone, Zenon DEF NodeEffect, NodeOK, Quiet, Believes
<1>2. ASSUME remainingConnectionTime # 0
      PROVE  /\ MN!OneSecondLess(remainingConnectionTime) \in Seconds
             /\ Ntohs(MN!OneSecondLess(remainingConnectionTime))
                  = Ntohs(remainingConnectionTime) - 1
             /\ Ntohs(remainingConnectionTime) > 0
             /\ curr_coa = fa
  BY <1>2, InSeconds, InSecondsLeft, SameNumbers, SMTT(20) DEF NodeOK
<1>3. CASE MN!ConnectionCounts
  <2>1. /\ out' = {}
        /\ remainingConnectionTime # 0
        /\ remainingConnectionTime' = MN!OneSecondLess(remainingConnectionTime)
        /\ UNCHANGED <<home, connected, curr_coa,
                       current_advertisements, currentRequests, counting>>
    BY <1>3, Zenon DEF MN!ConnectionCounts, MN!gateway
  <2> QED
    BY <1>2, <2>1, MadeNone, Zenon DEF NodeEffect, NodeOK, Quiet, Believes
<1>4. CASE MN!Renew
  <2>1. /\ remainingConnectionTime # 0 /\ MN!CurrentAdvs # <<>>
        /\ UNCHANGED <<home, connected, current_advertisements, counting>>
    BY <1>4, Zenon DEF MN!Renew, MN!RenewalDue
  <2>2. PICK I \in MN!Draws(1) :
          MN!makePacket(Head(MN!CurrentAdvs), I,
                        MN!OneSecondLess(remainingConnectionTime))
    BY <1>4, Zenon DEF MN!Renew
  <2>3. I \in SUBSET MN!FreshIds
    BY DEF MN!Draws
  <2>4. MN!CurrentAdvs \in Seq(Heard)
    BY CurrentHeard, Zenon DEF NodeOK
  <2>5. Head(MN!CurrentAdvs) \in Heard
    BY <2>1, <2>4, SMTT(20)
  <2>6. OfAnAgent(Head(MN!CurrentAdvs))
    BY <2>5, HeardOfAgent, SMTT(20)
  <2>7. /\ currentRequests' \subseteq Asked
        /\ \A q, p \in currentRequests' : q.id = p.id => q = p
        /\ Pushed(currentRequests)
        /\ remainingConnectionTime' \in Seconds
        /\ remainingConnectionTime' # 0 =>
             /\ remainingConnectionTime' = MN!OneSecondLess(remainingConnectionTime)
             /\ curr_coa' = fa
    BY <1>2, <2>1, <2>2, <2>3, <2>6, MadeAll, Zenon
  <2>8. NodeOK'
    BY <2>1, <2>7, Zenon DEF NodeOK
  <2>9. Ntohs(remainingConnectionTime') > 0 => remainingConnectionTime' # 0
    BY <2>7, InSeconds, SMTT(20)
  <2> QED
    BY <1>2, <2>1, <2>7, <2>8, <2>9, Zenon DEF NodeEffect, Quiet, Believes
<1> QED
  BY <1>1, <1>3, <1>4, Zenon DEF MN!run_timer_connection

-----------------------------------------------------------------------------
(***************************************************************************)
(* An advertisement is heard.                                              *)
(***************************************************************************)
LEMMA HearKeepsInv ==
    ASSUME Inv, NEW a \in Advertised, Hear(a)
    PROVE  Inv'
<1>1. NodeOK' /\ Pushed(currentRequests) /\ Quiet(0)
  BY HearEffect, Zenon DEF Hear, Inv, TypesOK, NodeEffect
<1>2. UNCHANGED <<homeAgent, registrationReq, visitorMap, forgetful>>
        /\ NodePushes({}) /\ Clock({"hear"}, 0)
  BY Zenon DEF Hear, foreignAgent, Clock
<1> QED
  BY <1>1, <1>2, QuietNodeStep, SMTT(20)

(***************************************************************************)
(* A timer of the node runs.                                               *)
(***************************************************************************)
LEMMA NodeTimerKeepsInv ==
    ASSUME Inv, NEW t \in {"adv", "requests", "connection"}, NodeTimer(t)
    PROVE  Inv'
<1>1. /\ UNCHANGED <<homeAgent, registrationReq, visitorMap, forgetful>>
      /\ HasRun(t) /\ t \notin ticked /\ NodePushes({}) /\ NodeOK
  BY Zenon DEF NodeTimer, Due, foreignAgent, Inv, TypesOK
<1>2. CASE t = "adv"
  <2>1. NodeEffect(0)
    BY <1>1, <1>2, AdvTimerEffect, Zenon DEF NodeTimer
  <2> QED
    BY <1>1, <1>2, <2>1, QuietTimerStep, SMTT(20)
<1>3. CASE t = "connection"
  <2>1. NodeEffect(1)
    BY <1>1, <1>3, ConnectionTimerEffect, Zenon DEF NodeTimer
  <2> QED
    BY <1>1, <1>3, <2>1, QuietTimerStep, Zenon
<1>4. CASE t = "requests"
  <2>1. MN!run_timer_requests
    BY <1>4, Zenon DEF NodeTimer
  <2>2. /\ out' = {}
        /\ UNCHANGED <<home, connected, remainingConnectionTime, curr_coa,
                       current_advertisements, counting>>
    BY <2>1, Zenon DEF MN!run_timer_requests, MN!gateway
  <2>3. currentRequests' =
          {q \in {[p EXCEPT !.remainingLifetime = OneSecondLess(@)] :
                    p \in currentRequests} : q.remainingLifetime # 0}
    BY <2>1, SameNumbers, Zenon DEF MN!run_timer_requests
  <2>4. RequestsAge
    BY <1>1, <2>2, <2>3, RequestsAged, Zenon
  <2> QED
    BY <1>1, <1>4, <2>4, RequestsAgeStep, Zenon
<1> QED
  BY <1>2, <1>3, <1>4, Zenon

(***************************************************************************)
(* A reply arrives at the node, which ignores it, learns that it is home,  *)
(* or begins to believe that it is registered.                             *)
(***************************************************************************)
LEMMA ToNodeKeepsInv ==
    ASSUME Inv, NEW r \in net, ToNode(r)
    PROVE  Inv'
<1>1. /\ r.dst = mn /\ NodePushes({r})
      /\ UNCHANGED <<homeAgent, registrationReq, visitorMap, forgetful>>
      /\ \/ (MN!IgnoreReply(r) \/ MN!AcceptHome(r)) /\ UNCHANGED ticked
         \/ MN!AcceptAbroad(r) /\ HasRun("connection")
  BY Zenon DEF ToNode, foreignAgent
<1>2. CASE (MN!IgnoreReply(r) \/ MN!AcceptHome(r)) /\ UNCHANGED ticked
  <2>1. MN!IgnoreReply(r) => HomeReplyEffect
    BY Zenon DEF MN!IgnoreReply, MN!gateway, HomeReplyEffect
  <2>2. MN!AcceptHome(r) => HomeReplyEffect
    BY Zenon DEF MN!AcceptHome, HomeReplyEffect
  <2> QED
    BY <1>1, <1>2, <2>1, <2>2, HomeReplyStep, Zenon
<1>3. CASE MN!AcceptAbroad(r) /\ HasRun("connection")
  <2>1. PICK q \in currentRequests :
          /\ MN!Concerns(r, q)
          /\ curr_coa' = q.COA
          /\ remainingConnectionTime' = MN!TimeLeft(q, r)
    BY <1>3, Zenon DEF MN!AcceptAbroad
  <2>2. /\ r.lifetime # 0
        /\ home' = FALSE /\ connected' = TRUE /\ counting' = TRUE /\ out' = {}
        /\ UNCHANGED <<current_advertisements, currentRequests>>
    BY <1>3, Zenon DEF MN!AcceptAbroad
  <2>3. r.code \in {0, 1} /\ r.id = q.id /\ r.type = ReplyType
    BY <2>1, Zenon DEF MN!Concerns, MN!ReplyType, ReplyType
  <2>4. remainingConnectionTime' =
          Sub16(q.remainingLifetime, Sub16(q.requestedLifetime, r.lifetime))
    BY <2>1, SameNumbers, Zenon DEF MN!TimeLeft
  <2>5. AbroadReplyEffect(r, q)
    BY <2>1, <2>2, <2>3, <2>4, ZenonT(30) DEF AbroadReplyEffect
  <2> QED
    BY <1>1, <1>3, <2>5, AbroadReplyStep, Zenon
<1> QED
  BY <1>1, <1>2, <1>3, Zenon

-----------------------------------------------------------------------------
(***************************************************************************)
(* The home agent accepts a request of the node that is not the one it has *)
(* bound the node for, if it answers.                                      *)
(***************************************************************************)
LEMMA HomeAgentAccepts ==
    ASSUME NEW life \in Uint16, NEW coa, NEW from, NEW to,
           NEW p \in Asking(life, coa, from, to), HA!push(p),
           ~AtHome => table[mn].id # p.id, out' # {}
    PROVE  /\ HA!Register(p) \/ HA!Deregister(p)
           /\ HA!ReplyTo(p) \in Answering({0}, {life}, to, from)
           /\ HA!ReplyTo(p).id = p.id
<1>1. /\ p.type = RequestType /\ p.whole = TRUE /\ p.flags = {}
      /\ p.lifetime = life /\ p.homeAddr = mn /\ p.homeAgent = ha
      /\ p.coAddr = coa /\ p.id \in Ids /\ p.src = from /\ p.dst = to
  BY Zenon DEF Asking
<1>2. HA!validatePacket(p) = 0
  BY <1>1, Zenon DEF HA!validatePacket
<1>3. HA!RequestType = RequestType /\ HA!ReplyType = ReplyType
  BY Zenon DEF HA!RequestType, RequestType, HA!ReplyType, ReplyType
<1>4. ~HA!Malformed(p) /\ HA!Accepted(HA!validatePacket(p))
  BY <1>1, <1>2, <1>3, Zenon DEF HA!Malformed, HA!Accepted
<1>5. HA!Register(p) \/ HA!Deregister(p)
  BY <1>4, Zenon DEF HA!push, HA!Drop, HA!Deny
<1>6. ~HA!Duplicate(p)
  BY <1>1, Zenon DEF HA!Duplicate, HA!isHome, AtHome
<1>7. HA!ReplyTo(p) =
        [type |-> ReplyType, whole |-> TRUE, code |-> 0, lifetime |-> life,
         homeAddr |-> mn, homeAgent |-> ha, id |-> p.id, src |-> to,
         dst |-> from, link |-> IF life > 0 THEN "public" ELSE "private"]
  BY <1>1, <1>2, <1>3, <1>6, Zenon DEF HA!ReplyTo
<1> QED
  BY <1>1, <1>5, <1>7, SMTT(20) DEF Answering, Links

(***************************************************************************)
(* A request arrives at the home agent: a registration that was relayed    *)
(* binds the node and is granted, a deregistration ends the binding and is *)
(* answered.  A request it can make no reply for is only lost.             *)
(***************************************************************************)
LEMMA ToHomeAgentKeepsInv ==
    ASSUME Inv, NEW p \in net, ToHomeAgent(p)
    PROVE  Inv'
<1>1. /\ p.dst \in {ha, hap} /\ MobileIPFilter(ha, p) = 2 /\ HA!push(p)
      /\ forgetful' = IF AtHome /\ ~AtHome' THEN forgetful \ {"ha"}
                      ELSE IF ~AtHome /\ AtHome' /\ ~Remembers(p)
                      THEN forgetful \cup {"ha"}
                      ELSE forgetful
      /\ UNCHANGED <<node, foreignAgent, ticked>>
      /\ UnderWay({p}, out')
  BY Zenon DEF ToHomeAgent
<1>2. p \in Leaving \cup Relayed
  BY <1>1, AtHomeAgent, Zenon DEF Inv, TypesOK
<1>3. ~AtHome => table[mn].id # p.id
  BY <1>2, Zenon DEF Inv, OneEach, Asks
<1>4. Full \in Uint16 /\ Full # 0 /\ 0 \in Uint16
  BY FullIsLeft, ZeroType, Zenon
<1> DEFINE g == HA!ReplyTo(p)
<1>5. CASE p \in Relayed /\ out' # {}
  <2>1. p.lifetime = Full /\ p.homeAddr = mn /\ p.coAddr = fa
    BY <1>5, Zenon DEF Asking, Relayed
  <2>2. /\ HA!Register(p) \/ HA!Deregister(p)
        /\ g \in Granted /\ g.id = p.id
    BY <1>1, <1>3, <1>4, <1>5, HomeAgentAccepts, SMTT(20) DEF Relayed, Granted
  <2>3. /\ table' = [table EXCEPT ![mn] = HA!NewEntry(p)]
        /\ list' = [list EXCEPT ![mn] = IF @ = 0 THEN 1 ELSE @]
        /\ out' = {g}
    BY <1>4, <2>1, <2>2, Zenon DEF HA!Register, HA!Deregister
  <2>4. HA!NewEntry(p) = [mobile_node_coa |-> fa, lifetime |-> Full, id |-> p.id]
    BY <2>1, Zenon DEF HA!NewEntry
  <2> HIDE DEF g
  <2>5. BindEffect(p, g)
    BY <2>2, <2>3, <2>4, Zenon DEF BindEffect
  <2> QED
    BY <1>1, <1>5, <2>5, HomeAgentStep, Zenon
<1>6. CASE p \in Leaving /\ out' # {}
  <2>1. p.lifetime = 0 /\ p.homeAddr = mn
    BY <1>6, Zenon DEF Asking, Leaving
  <2>2. /\ HA!Register(p) \/ HA!Deregister(p)
        /\ g \in Released /\ g.id = p.id
    BY <1>1, <1>3, <1>4, <1>6, HomeAgentAccepts, SMTT(20) DEF Leaving, Released
  <2>3. ~HA!Register(p)
    BY <2>1 DEF HA!Register
  <2>4. /\ table' = [table EXCEPT ![mn] = NoEntry]
        /\ list' = [list EXCEPT ![mn] = IF AtHome \/ @ = 0 THEN @ ELSE @ - 1]
        /\ out' = {g}
    BY <2>1, <2>2, <2>3, Zenon DEF HA!Deregister, HA!isHome, AtHome
  <2> HIDE DEF g
  <2>5. UnbindEffect(p, g)
    BY <2>2, <2>4, Zenon DEF UnbindEffect
  <2> QED
    BY <1>1, <1>6, <2>5, HomeAgentStep, Zenon
<1>7. CASE out' = {}
  <2>1. UNCHANGED <<table, list>>
    BY <1>1, <1>7, Zenon
      DEF HA!push, HA!Drop, HA!Deny, HA!Register, HA!Deregister
  <2>2. forgetful' = forgetful
    BY <1>1, <2>1, Zenon DEF AtHome
  <2>3. net' \subseteq net
    <3>1. net' \subseteq (net \ {p}) \cup out'
      BY <1>1, NetAfter, Zenon
    <3> QED
      BY <1>7, <3>1, Zenon
  <2> QED
    BY <1>1, <2>1, <2>2, <2>3, SameStep, Zenon DEF homeAgent, foreignAgent
<1> QED
  BY <1>2, <1>5, <1>6, <1>7, Zenon

(***************************************************************************)
(* The home agent's timer takes a second off the binding.                  *)
(***************************************************************************)
LEMMA HomeAgentTimerKeepsInv ==
    ASSUME Inv, HomeAgentTimer
    PROVE  Inv'
<1>1. /\ HA!run_timer
      /\ UNCHANGED <<node, foreignAgent, forgetful>>
      /\ HasRun("ha") /\ "ha" \notin ticked
      /\ UnderWay({}, out')
  BY Zenon DEF HomeAgentTimer, Due
<1>2. \A n : HA!Left(n) = Remains(n)
  BY SameNumbers, Zenon DEF HA!Left, Remains
<1>3. /\ table' = [n \in Nodes |->
                     CASE list[n] = 0 -> table[n]
                       [] list[n] # 0 /\ HA!Left(n) = 0 -> NoEntry
                       [] list[n] # 0 /\ HA!Left(n) # 0 ->
                            [table[n] EXCEPT !.lifetime = HA!Left(n)]]
      /\ list' = [n \in Nodes |->
                    IF list[n] # 0 /\ HA!Left(n) = 0 THEN list[n] - 1 ELSE list[n]]
      /\ out' = {}
  BY <1>1, Zenon DEF HA!run_timer
<1>4. BindingAges
  BY <1>2, <1>3, Zenon DEF BindingAges
<1> QED
  BY <1>1, <1>4, BindingAgesStep, Zenon

-----------------------------------------------------------------------------
(***************************************************************************)
(* The foreign agent relays a registration and waits for the answer, or it *)
(* has too many to wait for and refuses, if it can make a packet for that. *)
(***************************************************************************)
LEMMA EnteringEffect ==
    ASSUME ForeignAgentOK, NEW p \in Entering, FA!push_request(p), out' # {}
    PROVE  \E g : RelayEffect(p, g)
<1>1. /\ p.type = RequestType /\ p.whole = TRUE /\ p.flags = {}
      /\ p.lifetime = Full /\ p.homeAddr = mn /\ p.homeAgent = ha
      /\ p.coAddr = fa /\ p.id \in Ids /\ p.src = mn /\ p.dst = fap
  BY Zenon DEF Entering, Asking
<1>2. Full \in SecondsLeft /\ Full \in Uint16 /\ Ntohs(Full) = RegLifetime
  BY FullIsLeft, Zenon
<1>3. /\ registrationReq \in Seq(PendingOfNode)
      /\ Len(registrationReq) <= maxRequests /\ Len(registrationReq) \in Nat
      /\ maxRequests \in Nat /\ RegLifetime \in Nat
  BY MobileIPAssumption, SMTT(20) DEF ForeignAgentOK
<1>4. FA!validatePacket(p) = IF Len(registrationReq) = maxRequests THEN 66 ELSE 1
  <2>1. ~(FA!Ntohs(p.lifetime) > RegLifetime)
    BY <1>1, <1>2, <1>3, SameNumbers, SMTT(20)
  <2> QED
    BY <1>1, <2>1, Zenon DEF FA!validatePacket
<1>5. CASE FA!RelayRequest(p)
  <2>1. Len(registrationReq) < maxRequests
    BY <1>3, <1>4, <1>5, SMTT(20) DEF FA!RelayRequest
  <2>2. /\ registrationReq' = Append(registrationReq, FA!NewPending(p))
        /\ out' = {FA!Relayed(p)}
        /\ visitorMap' = visitorMap
    BY <1>5, <2>1, Zenon DEF FA!RelayRequest
  <2>3. /\ FA!NewPending(p) \in PendingOfNode
        /\ FA!NewPending(p).id = p.id /\ FA!NewPending(p).lifetimeRem = Full
    BY <1>1, <1>2, Zenon DEF FA!NewPending, PendingOfNode
  <2>4. FA!Relayed(p) \in Relayed /\ FA!Relayed(p).id = p.id
    BY <1>1, Zenon DEF FA!Relayed, Relayed, Entering, Asking, Links
  <2>5. /\ registrationReq' \in Seq(PendingOfNode)
        /\ Len(registrationReq') <= maxRequests
    BY <1>3, <2>1, <2>2, <2>3, SMTT(20)
  <2>6. Range(registrationReq') = Range(registrationReq) \cup {FA!NewPending(p)}
    BY <1>3, <2>2, <2>3, AppendItems, SMTT(20)
  <2>7. RelayEffect(p, FA!Relayed(p))
    BY <2>2, <2>3, <2>4, <2>5, <2>6, Zenon DEF RelayEffect
  <2> QED
    BY <2>7, Zenon
<1>6. CASE FA!DenyRequest(p)
  <2>1. FA!validatePacket(p) = 66
    BY <1>4, <1>6, Zenon DEF FA!DenyRequest
  <2>2. /\ out' = {FA!Denial(p)}
        /\ registrationReq' = registrationReq /\ visitorMap' = visitorMap
    BY <1>6, Zenon DEF FA!DenyRequest
  <2>3. FA!ReplyType = ReplyType
    BY Zenon DEF FA!ReplyType, ReplyType
  <2>4. FA!Denial(p) =
          [type |-> ReplyType, whole |-> TRUE, code |-> 66, lifetime |-> Full,
           homeAddr |-> mn, homeAgent |-> ha, id |-> p.id, src |-> fap,
           dst |-> mn, link |-> "private"]
    BY <1>1, <2>1, <2>3, SMTT(20) DEF FA!Denial
  <2>5. FA!Denial(p) \in Refused /\ FA!Denial(p).id = p.id
    BY <1>1, <1>2, <2>4, SMTT(20) DEF Refused, Answering, Links
  <2>6. RelayEffect(p, FA!Denial(p))
    BY <1>3, <2>2, <2>5, Zenon DEF RelayEffect
  <2> QED
    BY <2>6, Zenon
<1>7. ~FA!DropRequest(p)
  BY Zenon DEF FA!DropRequest
<1> QED
  BY <1>5, <1>6, <1>7, Zenon DEF FA!push_request

(***************************************************************************)
(* The foreign agent passes a grant on.  If it was waiting for it, the     *)
(* node is now a visitor for the full time; if not, nothing changes.       *)
(***************************************************************************)
LEMMA GrantedEffect ==
    ASSUME ForeignAgentOK, NEW r \in Granted, FA!push_reply(r)
    PROVE  \E g : PassEffect(r, g)
<1>1. /\ r.whole = TRUE /\ r.code = 0 /\ r.lifetime = Full /\ r.homeAddr = mn
      /\ r.id \in Ids
  BY Zenon DEF Granted, Answering
<1>2. /\ registrationReq \in Seq(PendingOfNode)
      /\ Len(registrationReq) <= maxRequests /\ Len(registrationReq) \in Nat
      /\ maxRequests \in Nat
      /\ visitorMap \subseteq VisitOfNode
  BY MobileIPAssumption, SMTT(20) DEF ForeignAgentOK
<1>3. FA!Passed(r) \in PassedOn /\ FA!Passed(r).id = r.id
  BY <1>1, Zenon DEF FA!Passed, Granted, PassedOn, Answering, Links
<1>4. CASE FA!PassMatched(r)
  <2> DEFINE i == FA!Min(FA!Matches(r))
             item == registrationReq[i]
  <2>1. FA!Matches(r) # {} /\ FA!Matches(r) \in SUBSET Nat
        /\ FA!Matches(r) \subseteq 1 .. Len(registrationReq)
    BY <1>2, <1>4, SMTT(20) DEF FA!PassMatched, FA!Matches
  <2>2. i \in 1 .. Len(registrationReq)
    BY <2>1, MinOfSet, SameLists, Zenon
  <2>3. /\ registrationReq' = Erase(registrationReq, i)
        /\ FA!NewVisitor(item, r) \in visitorMap'
        /\ visitorMap' \subseteq visitorMap \cup {FA!NewVisitor(item, r)}
        /\ out' = {FA!Passed(r)}
    <3>1. FA!Accepting(r)
      BY <1>1, Zenon DEF FA!Accepting
    <3> QED
      BY <1>4, <3>1, SameLists, Zenon DEF FA!PassMatched
  <2>4. item \in PendingOfNode
    BY <1>2, <2>2, SMTT(20)
  <2> HIDE DEF i, item
  <2>5. FA!GrantedLifetime(item, r) = Full
    BY <1>1, <2>4, Zenon DEF FA!GrantedLifetime, PendingOfNode
  <2>6. FA!NewVisitor(item, r) \in VisitOfNode
          /\ FA!NewVisitor(item, r).lifetimeRem = Full
    BY <2>4, <2>5, FullIsLeft, Zenon
      DEF FA!NewVisitor, VisitOfNode, PendingOfNode
  <2>7. /\ registrationReq' \in Seq(PendingOfNode)
        /\ Len(registrationReq') <= maxRequests
    <3>1. /\ Erase(registrationReq, i) \in Seq(PendingOfNode)
          /\ Len(Erase(registrationReq, i)) = Len(registrationReq) - 1
      <4>1. registrationReq \in Seq(PendingOfNode)
        BY <1>2, Zenon
      <4>2. i \in 1 .. Len(registrationReq)
        BY <2>2, Zenon
      <4> QED
        BY <4>1, <4>2, EraseIsDrawn, Zenon
    <3> QED
      BY <1>2, <2>3, <3>1, SMTT(20)
  <2>8. PassEffect(r, FA!Passed(r))
    BY <1>2, <1>3, <2>3, <2>6, <2>7, Zenon DEF PassEffect
  <2> QED
    BY <2>8, SMTT(20)
<1>5. CASE FA!PassUnmatched(r)
  <2>1. /\ FA!Matches(r) = {} /\ out' = {FA!Passed(r)}
        /\ registrationReq' = registrationReq /\ visitorMap' = visitorMap
    BY <1>5, Zenon DEF FA!PassUnmatched
  <2>2. \A item \in Range(registrationReq) : item.id # r.id
    BY <2>1, Zenon DEF FA!Matches, Range
  <2>3. PassEffect(r, FA!Passed(r))
    BY <1>2, <1>3, <2>1, <2>2, Zenon DEF PassEffect
  <2> QED
    BY <2>3
<1>6. ~FA!DropReply(r)
  BY <1>1, Zenon DEF FA!DropReply
<1> QED
  BY <1>4, <1>5, <1>6, SMTT(20) DEF FA!push_reply

(***************************************************************************)
(* A registration arrives at the foreign agent.                            *)
(***************************************************************************)
LEMMA RequestToForeignAgentKeepsInv ==
    ASSUME Inv, NEW p \in net, RequestToForeignAgent(p)
    PROVE  Inv'
<1>1. /\ p.dst = fap /\ MobileIPFilter(fa, p) = 3 /\ FA!push_request(p)
      /\ UNCHANGED <<node, homeAgent, ticked, forgetful>>
      /\ UnderWay({p}, out')
  BY Zenon DEF RequestToForeignAgent
<1>2. NetOK /\ ForeignAgentOK
  BY Zenon DEF Inv, TypesOK
<1>3. p \in net \cap Entering
  BY <1>1, <1>2, AtForeignAgent, Zenon
<1>4. CASE out' # {}
  <2>1. PICK g : RelayEffect(p, g)
    BY <1>1, <1>2, <1>3, <1>4, EnteringEffect, Zenon
  <2> QED
    BY <1>1, <1>3, <2>1, RelayStep, Zenon
<1>5. CASE out' = {}
  <2>1. UNCHANGED <<registrationReq, visitorMap>>
    BY <1>1, <1>5, Zenon
      DEF FA!push_request, FA!DropRequest, FA!DenyRequest, FA!RelayRequest
  <2>2. net' \subseteq net
    <3>1. net' \subseteq (net \ {p}) \cup out'
      BY <1>1, NetAfter, Zenon
    <3> QED
      BY <1>5, <3>1, Zenon
  <2> QED
    BY <1>1, <2>1, <2>2, SameStep, Zenon
<1> QED
  BY <1>4, <1>5, Zenon

(***************************************************************************)
(* A grant arrives at the foreign agent.                                   *)
(***************************************************************************)
LEMMA ReplyToForeignAgentKeepsInv ==
    ASSUME Inv, NEW r \in net, ReplyToForeignAgent(r)
    PROVE  Inv'
<1>1. /\ r.dst = fa /\ MobileIPFilter(fa, r) = 1 /\ FA!push_reply(r)
      /\ forgetful' = IF \E v \in visitorMap' : v.ipSrc = mn
                      THEN forgetful \ {"fa"} ELSE forgetful
      /\ UNCHANGED <<node, homeAgent, ticked>>
      /\ UnderWay({r}, out')
  BY Zenon DEF ReplyToForeignAgent, FA!inMapNode
<1>2. NetOK /\ ForeignAgentOK
  BY DEF Inv, TypesOK
<1>3. r \in net \cap Granted
  BY <1>1, <1>2, AtForeignAgent, Zenon
<1>4. PICK g : PassEffect(r, g)
  BY <1>1, <1>2, <1>3, GrantedEffect, Zenon
<1> QED
  BY <1>1, <1>3, <1>4, PassStep, Zenon

(***************************************************************************)
(* The foreign agent's timer takes a second off the pending registrations  *)
(* and the visitors.  A registration that has waited no second yet is kept *)
(* (the agent waits for two at least) unless it was for one second.        *)
(***************************************************************************)
LEMMA AgedPending ==
    ASSUME NEW item \in PendingOfNode
    PROVE  /\ FA!Aged(item) =
                [item EXCEPT !.lifetimeRem = OneSecondLess(item.lifetimeRem)]
           /\ FA!Aged(item).id = item.id
           /\ FA!Aged(item).lifetimeRem = OneSecondLess(item.lifetimeRem)
           /\ FA!Aged(item).lifetimeReq = Full
           /\ OneSecondLess(item.lifetimeRem) \in Seconds
           /\ Ntohs(OneSecondLess(item.lifetimeRem)) = Ntohs(item.lifetimeRem) - 1
           /\ Ntohs(item.lifetimeRem) \in 1 .. RegLifetime
           /\ ~FA!Expired(FA!Aged(item)) => FA!Aged(item) \in PendingOfNode
           /\ FA!TimeoutReply(FA!Aged(item)) \in Refused
<1>1. item.lifetimeRem \in SecondsLeft /\ item.lifetimeReq = Full
  BY Zenon DEF PendingOfNode
<1>2. /\ OneSecondLess(item.lifetimeRem) \in Seconds
      /\ Ntohs(OneSecondLess(item.lifetimeRem)) = Ntohs(item.lifetimeRem) - 1
      /\ Ntohs(item.lifetimeRem) \in 1 .. RegLifetime
      /\ OneSecondLess(item.lifetimeRem) # 0 =>
           OneSecondLess(item.lifetimeRem) \in SecondsLeft
  BY <1>1, InSecondsLeft, InSeconds, Zenon
<1>3. FA!Aged(item) = [item EXCEPT !.lifetimeRem = OneSecondLess(item.lifetimeRem)]
  BY SameNumbers, Zenon DEF FA!Aged
<1>4. /\ FA!Aged(item).id = item.id
      /\ FA!Aged(item).lifetimeRem = OneSecondLess(item.lifetimeRem)
      /\ FA!Aged(item).lifetimeReq = Full
      /\ FA!Aged(item).ipSrc = mn /\ FA!Aged(item).ipDst = fap
      /\ FA!Aged(item).homeAgent = ha /\ FA!Aged(item).id \in Ids
  BY <1>3, Zenon DEF PendingOfNode
<1>5. ~FA!Expired(FA!Aged(item)) => FA!Aged(item) \in PendingOfNode
  BY <1>2, <1>3, <1>4, Zenon DEF FA!Expired, PendingOfNode
<1>6. FA!ReplyType = ReplyType
  BY Zenon DEF FA!ReplyType, ReplyType
<1>7. FA!TimeoutReply(FA!Aged(item)) =
        [type |-> ReplyType, whole |-> TRUE, code |-> 78, lifetime |-> Full,
         homeAddr |-> mn, homeAgent |-> ha, id |-> FA!Aged(item).id, src |-> fap,
         dst |-> mn, link |-> "private"]
  BY <1>4, <1>6, Zenon DEF FA!TimeoutReply
<1>8. FA!TimeoutReply(FA!Aged(item)) \in Refused
  BY <1>4, <1>7, FullIsLeft, SMTT(20) DEF Refused, Answering, Links
<1> QED
  BY <1>2, <1>3, <1>4, <1>5, <1>8, Zenon

(***************************************************************************)
(* A registration that has waited no second yet is kept, unless it was for *)
(* one second: the agent waits for two at least.                           *)
(***************************************************************************)
LEMMA YoungIsKept ==
    ASSUME NEW item \in PendingOfNode, RegLifetime <= Ntohs(item.lifetimeRem),
           RegLifetime >= 2
    PROVE  ~FA!Expired(FA!Aged(item)) /\ ~FA!TimedOut(FA!Aged(item))
<1>1. /\ FA!Aged(item).lifetimeRem = OneSecondLess(item.lifetimeRem)
      /\ FA!Aged(item).lifetimeReq = Full
      /\ OneSecondLess(item.lifetimeRem) \in Seconds
      /\ Ntohs(OneSecondLess(item.lifetimeRem)) = Ntohs(item.lifetimeRem) - 1
      /\ Ntohs(item.lifetimeRem) \in 1 .. RegLifetime
  BY AgedPending, Zenon
<1>2. Ntohs(item.lifetimeRem) = RegLifetime /\ RegLifetime \in Nat
  BY <1>1, MobileIPAssumption, SMTT(20)
<1>3. ~FA!Expired(FA!Aged(item))
  BY <1>1, <1>2, InSeconds, SMTT(20) DEF FA!Expired
<1>4. PICK s \in 0 .. RegLifetime : OneSecondLess(item.lifetimeRem) = Htons(s)
  BY <1>1, Zenon DEF Seconds
<1>5. /\ RegLifetime \in 0 .. (Byte - 1) /\ s \in 0 .. (Byte - 1)
      /\ ReplyWait \in 0 .. (Byte - 1) /\ 1 \in 0 .. (Byte - 1)
      /\ 1 \in 0 .. RegLifetime /\ 1 < ReplyWait
  BY <1>2, MobileIPAssumption, ByteAssumption, SMTT(20)
<1>6. s = RegLifetime - 1
  BY <1>1, <1>2, <1>4, <1>5, NtohsOfHtons, Zenon
<1>7. Full - Htons(s) = Htons(1)
  <2>1. s \in 0 .. RegLifetime /\ RegLifetime - s = 1
    BY <1>2, <1>6, SMTT(20)
  <2> QED
    BY <1>5, <2>1, HtonsDifference, SMTT(20) DEF Full
<1>8. Htons(1) # Htons(ReplyWait)
  BY <1>5, NtohsOfHtons, SMTT(20)
<1>9. ~FA!TimedOut(FA!Aged(item))
  BY <1>1, <1>4, <1>7, <1>8, SameNumbers, Zenon DEF FA!TimedOut
<1> QED
  BY <1>3, <1>9, Zenon

(***************************************************************************)
(* What a run of the timer leaves of the pending registrations from        *)
(* position k on.                                                          *)
(***************************************************************************)
LEMMA RestAged ==
    ASSUME ForeignAgentOK, NEW k \in 1 .. (Len(registrationReq) + 1)
    PROVE  /\ FA!Kept(FA!AgedFrom(k)) \in Seq(PendingOfNode)
           /\ Len(FA!Kept(FA!AgedFrom(k))) <= Len(registrationReq) - k + 1
           /\ FA!TimeoutReplies(FA!AgedFrom(k)) \subseteq Refused
           /\ \A j \in k .. Len(registrationReq) :
                /\ RegLifetime <= Ntohs(registrationReq[j].lifetimeRem)
                /\ RegLifetime >= 2
                => FA!Aged(registrationReq[j]) \in Range(FA!Kept(FA!AgedFrom(k)))
<1> DEFINE items == FA!AgedFrom(k)
           left == FA!Kept(items)
           N == Len(registrationReq)
           S == {i \in Range(items) : ~FA!Expired(i) /\ ~FA!TimedOut(i)}
           T == {FA!Aged(item) : item \in PendingOfNode}
<1>1. registrationReq \in Seq(PendingOfNode) /\ N \in Nat /\ k \in 1 .. (N + 1)
  BY DEF ForeignAgentOK
<1>2. /\ \A j \in 1 .. N : registrationReq[j] \in PendingOfNode
      /\ \A i \in 1 .. (N - k + 1) : i + k - 1 \in 1 .. N
      /\ N - k + 1 \in Nat
  BY <1>1, SMTT(20)
<1>3. items = [i \in 1 .. (N - k + 1) |-> FA!Aged(registrationReq[i + k - 1])]
  BY Zenon DEF FA!AgedFrom
<1>4. items \in Seq(T) /\ Len(items) = N - k + 1
  <2>1. \A i \in 1 .. (N - k + 1) : FA!Aged(registrationReq[i + k - 1]) \in T
    BY <1>2, Zenon
  <2> HIDE DEF T, N
  <2> QED
    BY <1>2, <1>3, <2>1, SMTT(20)
<1>5. Range(items) = {FA!Aged(registrationReq[i + k - 1]) : i \in 1 .. (N - k + 1)}
  <2>1. DOMAIN items = 1 .. (N - k + 1)
    BY <1>3, Zenon
  <2> QED
    BY <1>3, <2>1, Zenon DEF Range
<1>6. left = Retain(items, S)
  BY SameLists, Zenon DEF FA!Kept
<1>7. /\ left \in Seq(T) /\ Len(left) <= Len(items)
      /\ Range(left) = S
  <2> HIDE DEF items, T, left
  <2>1. S \subseteq Range(items)
    BY Zenon
  <2> HIDE DEF S
  <2>2. /\ Retain(items, S) \in Seq(T) /\ Len(Retain(items, S)) <= Len(items)
        /\ Range(Retain(items, S)) = Range(items) \cap S
    BY <1>4, RetainIsDrawn, Zenon
  <2> QED
    BY <1>6, <2>1, <2>2, Zenon
<1>8. S \subseteq PendingOfNode
  BY <1>2, <1>5, AgedPending, Zenon
<1>9. left \in Seq(PendingOfNode)
  <2> HIDE DEF items, T, left, S
  <2>1. /\ DOMAIN left = 1 .. Len(left) /\ Len(left) \in Nat
        /\ left = [i \in 1 .. Len(left) |-> left[i]]
    BY <1>7, SMTT(20)
  <2>2. \A i \in 1 .. Len(left) : left[i] \in PendingOfNode
    BY <1>7, <1>8, <2>1, Zenon DEF Range
  <2> QED
    BY <2>1, <2>2, SMTT(20)
<1>10. FA!TimeoutReplies(items) \subseteq Refused
  <2>1. FA!TimeoutReplies(items) =
          {FA!TimeoutReply(i) : i \in {j \in Range(items) : FA!TimedOut(j)}}
    BY SameLists, Zenon DEF FA!TimeoutReplies
  <2>2. \A i \in Range(items) : FA!TimeoutReply(i) \in Refused
    BY <1>2, <1>5, AgedPending, Zenon
  <2> HIDE DEF items
  <2> QED
    BY <2>1, <2>2, Zenon
<1>11. ASSUME NEW j \in k .. N,
              RegLifetime <= Ntohs(registrationReq[j].lifetimeRem),
              RegLifetime >= 2
       PROVE  FA!Aged(registrationReq[j]) \in Range(left)
  <2>1. j - k + 1 \in 1 .. (N - k + 1) /\ (j - k + 1) + k - 1 = j /\ j \in 1 .. N
    BY <1>1, SMTT(20)
  <2>2. FA!Aged(registrationReq[j]) \in Range(items)
    BY <1>5, <2>1, Zenon
  <2> QED
    BY <1>2, <1>7, <1>11, <2>1, <2>2, YoungIsKept, Zenon
<1> HIDE DEF items, left, N
<1>12. Len(left) <= N - k + 1
  BY <1>4, <1>7, SMTT(20)
<1> QED
  BY <1>9, <1>10, <1>11, <1>12, Zenon DEF items, left, N

(***************************************************************************)
(* What the timer does to the lists of the foreign agent.                  *)
(***************************************************************************)
LEMMA ForeignAgentTimerEffect ==
    ASSUME ForeignAgentOK, FA!run_timer
    PROVE  VisitsAge
<1>1. /\ registrationReq \in Seq(PendingOfNode)
      /\ Len(registrationReq) <= maxRequests /\ Len(registrationReq) \in Nat
      /\ maxRequests \in Nat /\ RegLifetime \in Nat
  BY MobileIPAssumption, SMTT(20) DEF ForeignAgentOK
<1>2. /\ registrationReq' = FA!Kept(FA!AgedFrom(1))
      /\ out' = FA!TimeoutReplies(FA!AgedFrom(1))
      /\ visitorMap' = {[v EXCEPT !.lifetimeRem = OneSecondLess(@)] :
                          v \in {w \in visitorMap : w.lifetimeRem # 0}}
  BY SameNumbers, Zenon DEF FA!run_timer, FA!VisitorsAged
<1>3. 1 \in 1 .. (Len(registrationReq) + 1)
  BY <1>1, SMTT(20)
<1>4. /\ registrationReq' \in Seq(PendingOfNode)
      /\ Len(registrationReq') <= Len(registrationReq) - 1 + 1
      /\ out' \subseteq Refused
      /\ \A j \in 1 .. Len(registrationReq) :
           /\ RegLifetime <= Ntohs(registrationReq[j].lifetimeRem)
           /\ RegLifetime >= 2
           => FA!Aged(registrationReq[j]) \in Range(registrationReq')
  BY <1>2, <1>3, RestAged, Zenon
<1>5. Len(registrationReq') <= maxRequests
  BY <1>1, <1>4, SMTT(20)
<1>6. ASSUME NEW v \in visitorMap
       PROVE  /\ v \in VisitOfNode /\ v.lifetimeRem \in Seconds
              /\ v.lifetimeRem = 0 <=> Ntohs(v.lifetimeRem) = 0
              /\ v.lifetimeRem # 0 =>
                   /\ [v EXCEPT !.lifetimeRem = OneSecondLess(@)] \in VisitOfNode
                   /\ [v EXCEPT !.lifetimeRem = OneSecondLess(@)].lifetimeRem
                        = OneSecondLess(v.lifetimeRem)
                   /\ Ntohs(OneSecondLess(v.lifetimeRem)) = Ntohs(v.lifetimeRem) - 1
  <2>1. v \in VisitOfNode /\ v.lifetimeRem \in Seconds
    BY Zenon DEF ForeignAgentOK, VisitOfNode
  <2>2. /\ v.lifetimeRem = 0 <=> Ntohs(v.lifetimeRem) = 0
        /\ v.lifetimeRem # 0 =>
             /\ OneSecondLess(v.lifetimeRem) \in Seconds
             /\ Ntohs(OneSecondLess(v.lifetimeRem)) = Ntohs(v.lifetimeRem) - 1
    BY <2>1, InSeconds, InSecondsLeft, Zenon
  <2> QED
    BY <2>1, <2>2, Zenon DEF VisitOfNode
<1>7. visitorMap' \subseteq VisitOfNode /\ (visitorMap = {} => visitorMap' = {})
  BY <1>2, <1>6, Zenon
<1>8. ASSUME NEW v \in visitorMap, Ntohs(v.lifetimeRem) # 0
      PROVE  \E w \in visitorMap' : Ntohs(w.lifetimeRem) >= Ntohs(v.lifetimeRem) - 1
  <2>1. PICK w \in visitorMap' : Ntohs(w.lifetimeRem) = Ntohs(v.lifetimeRem) - 1
    BY <1>2, <1>6, <1>8, Zenon
  <2>2. Ntohs(v.lifetimeRem) \in Int
    <3>1. v.lifetimeRem \in Seconds
      BY <1>6, Zenon
    <3> QED
      BY <3>1, InSeconds, SMTT(20)
  <2> QED
    BY <2>1, <2>2, SMTT(20)
<1>9. ASSUME NEW item \in Range(registrationReq),
             RegLifetime <= Ntohs(item.lifetimeRem), RegLifetime >= 2
      PROVE  \E i \in Range(registrationReq') :
               /\ i.id = item.id
               /\ Ntohs(i.lifetimeRem) >= Ntohs(item.lifetimeRem) - 1
  <2>1. item \in PendingOfNode /\ FA!Aged(item) \in Range(registrationReq')
    BY <1>1, <1>4, <1>9, PlacesOfItems, SMTT(20)
  <2> QED
    BY <2>1, AgedPending, SMTT(20)
<1> QED
  BY <1>1, <1>4, <1>5, <1>7, <1>8, <1>9, SMTT(20) DEF VisitsAge

(***************************************************************************)
(* What it does when it can make no packet for the answer to a             *)
(* registration that timed out: it keeps that one, and ages neither the    *)
(* ones before it nor the visitors.                                        *)
(***************************************************************************)
LEMMA AbortedTimerEffect ==
    ASSUME ForeignAgentOK, FA!run_timer_aborted
    PROVE  VisitsAge
<1> DEFINE N == Len(registrationReq)
<1>1. /\ registrationReq \in Seq(PendingOfNode)
      /\ N <= maxRequests /\ N \in Nat
      /\ maxRequests \in Nat /\ RegLifetime \in Nat
      /\ visitorMap \subseteq VisitOfNode
  BY MobileIPAssumption DEF ForeignAgentOK
<1>2. PICK k \in DOMAIN registrationReq :
        /\ FA!TimedOut(FA!Aged(registrationReq[k]))
        /\ registrationReq' = (SubSeq(registrationReq, 1, k - 1)
                                 \o <<FA!Aged(registrationReq[k])>>)
                                 \o FA!Kept(FA!AgedFrom(k + 1))
        /\ out' = FA!TimeoutReplies(FA!AgedFrom(k + 1))
  BY Zenon DEF FA!run_timer_aborted
<1>3. visitorMap' = visitorMap
  BY Zenon DEF FA!run_timer_aborted
<1>4. k \in 1 .. N /\ k + 1 \in 1 .. (N + 1) /\ registrationReq[k] \in PendingOfNode
  BY <1>1, SMTT(20)
<1>5. FA!Aged(registrationReq[k]) \in PendingOfNode
  BY <1>2, <1>4, AgedPending, Zenon DEF FA!TimedOut
<1> DEFINE rest == FA!Kept(FA!AgedFrom(k + 1))
<1>6. /\ rest \in Seq(PendingOfNode) /\ Len(rest) <= N - (k + 1) + 1
      /\ out' \subseteq Refused
      /\ \A j \in (k + 1) .. N :
           /\ RegLifetime <= Ntohs(registrationReq[j].lifetimeRem)
           /\ RegLifetime >= 2
           => FA!Aged(registrationReq[j]) \in Range(rest)
  BY <1>2, <1>4, RestAged, Zenon
<1> DEFINE aged == <<FA!Aged(registrationReq[k])>>
<1>7. registrationReq' = (SubSeq(registrationReq, 1, k - 1) \o aged) \o rest
  BY <1>2, Zenon
<1>8. /\ registrationReq' \in Seq(PendingOfNode)
      /\ Len(registrationReq') <= N
      /\ \A j \in 1 .. (k - 1) : registrationReq[j] \in Range(registrationReq')
      /\ FA!Aged(registrationReq[k]) \in Range(registrationReq')
      /\ Range(rest) \subseteq Range(registrationReq')
  <2>1. /\ aged \in Seq(PendingOfNode) /\ Len(aged) = 1
        /\ aged[1] = FA!Aged(registrationReq[k])
    BY <1>5, SMTT(20)
  <2> HIDE DEF aged, rest
  <2>2. Len(rest) <= Len(registrationReq) - k
    BY <1>4, <1>6, SMTT(20)
  <2>3. /\ registrationReq \in Seq(PendingOfNode) /\ rest \in Seq(PendingOfNode)
        /\ k \in 1 .. Len(registrationReq)
    BY <1>1, <1>4, <1>6, Zenon
  <2> DEFINE r == (SubSeq(registrationReq, 1, k - 1) \o aged) \o rest
  <2>4. /\ r \in Seq(PendingOfNode)
        /\ Len(r) <= Len(registrationReq)
        /\ \A j \in 1 .. (k - 1) : registrationReq[j] \in Range(r)
        /\ aged[1] \in Range(r)
        /\ Range(rest) \subseteq Range(r)
    BY <2>1, <2>2, <2>3, RestReplaced, ZenonT(30)
  <2>5. registrationReq' = r
    BY <1>7, Zenon
  <2> HIDE DEF r
  <2> QED
    BY <2>1, <2>4, <2>5, Zenon
<1> HIDE DEF aged, rest
<1>9. Len(registrationReq') <= maxRequests
  BY <1>1, <1>8, SMTT(20)
<1>10. ASSUME NEW item \in Range(registrationReq),
             RegLifetime <= Ntohs(item.lifetimeRem), RegLifetime >= 2
      PROVE  \E i \in Range(registrationReq') :
               /\ i.id = item.id
               /\ Ntohs(i.lifetimeRem) >= Ntohs(item.lifetimeRem) - 1
  <2>1. PICK j \in 1 .. N : item = registrationReq[j]
    BY <1>1, <1>10, PlacesOfItems, Zenon
  <2>2. item \in PendingOfNode
    BY <1>1, <2>1, SMTT(20)
  <2>3. j \in 1 .. (k - 1) \/ j = k \/ j \in (k + 1) .. N
    BY <1>1, <1>4, <2>1, SMTT(20)
  <2>4. item \in Range(registrationReq') \/ FA!Aged(item) \in Range(registrationReq')
    BY <1>6, <1>8, <1>10, <2>1, <2>3, Zenon
  <2>5. /\ Ntohs(item.lifetimeRem) \in 1 .. RegLifetime
        /\ FA!Aged(item).id = item.id
        /\ Ntohs(FA!Aged(item).lifetimeRem) = Ntohs(item.lifetimeRem) - 1
    BY <2>2, AgedPending, Zenon
  <2> QED
    BY <1>1, <2>4, <2>5, SMTT(20)
<1>11. \A v \in visitorMap : Ntohs(v.lifetimeRem) >= Ntohs(v.lifetimeRem) - 1
  <2>1. \A v \in visitorMap : v.lifetimeRem \in Seconds
    BY <1>1, Zenon DEF VisitOfNode
  <2> QED
    BY <2>1, InSeconds, SMTT(20)
<1> QED
  BY <1>1, <1>3, <1>6, <1>8, <1>9, <1>10, <1>11, SMTT(20) DEF VisitsAge

(***************************************************************************)
(* The foreign agent's timer runs, to the end or not.                      *)
(***************************************************************************)
LEMMA ForeignAgentTimerKeepsInv ==
    ASSUME Inv, ForeignAgentTimer
    PROVE  Inv'
<1>1. /\ FA!run_timer \/ FA!run_timer_aborted
      /\ UNCHANGED <<node, homeAgent, forgetful>>
      /\ HasRun("fa") /\ "fa" \notin ticked
      /\ UnderWay({}, out')
  BY Zenon DEF ForeignAgentTimer, Due
<1>2. VisitsAge
  BY <1>1, ForeignAgentTimerEffect, AbortedTimerEffect, Zenon DEF Inv, TypesOK
<1> QED
  BY <1>1, <1>2, VisitsAgeStep, Zenon

-----------------------------------------------------------------------------
(***************************************************************************)
(* An agent that was restarted has forgotten the node, and a node that was *)
(* restarted believes nothing.                                             *)
(***************************************************************************)
LEMMA RestartKeepsInv ==
    ASSUME Inv, Restart
    PROVE  Inv'
<1>1. net' = net
  BY Zenon DEF Restart
<1>2. CASE /\ HA!Restart /\ forgetful' = forgetful \cup {"ha"}
           /\ UNCHANGED <<node, foreignAgent, ticked>>
  <2>1. table' = [n \in Nodes |-> NoEntry] /\ list' = [n \in Nodes |-> 0]
    BY <1>2, Zenon DEF HA!Restart
  <2> QED
    BY <1>1, <1>2, <2>1, HomeAgentForgets, Zenon
<1>3. CASE /\ FA!Forget /\ forgetful' = forgetful \cup {"fa"}
           /\ UNCHANGED <<node, homeAgent, asked, granted, ticked>>
  <2>1. registrationReq' = <<>> /\ visitorMap' = {}
    BY <1>3, Zenon DEF FA!Forget
  <2> QED
    BY <1>1, <1>3, <2>1, ForeignAgentForgets, Zenon
<1>4. CASE /\ MN!Restart
           /\ ticked' = ticked \ {"adv", "requests", "connection"}
           /\ UNCHANGED <<homeAgent, foreignAgent, forgetful>>
  <2>1. Fresh'
    BY <1>4, Zenon DEF MN!Restart, Fresh
  <2> QED
    BY <1>1, <1>4, <2>1, NodeForgets, Zenon
<1> QED
  BY <1>2, <1>3, <1>4, Zenon DEF Restart

(***************************************************************************)
(* Every step of the system keeps Inv.                                     *)
(***************************************************************************)
LEMMA NextKeepsInv ==
    ASSUME Inv, [Next]_vars
    PROVE  Inv'
<1>1. ASSUME NEW p \in net, ToHomeAgent(p)
      PROVE  Inv'
  BY <1>1, ToHomeAgentKeepsInv, Zenon
<1>2. ASSUME NEW p \in net, RequestToForeignAgent(p)
      PROVE  Inv'
  BY <1>2, RequestToForeignAgentKeepsInv, Zenon
<1>3. ASSUME NEW p \in net, ReplyToForeignAgent(p)
      PROVE  Inv'
  BY <1>3, ReplyToForeignAgentKeepsInv, SMTT(20)
<1>4. ASSUME NEW p \in net, ToNode(p)
      PROVE  Inv'
  BY <1>4, ToNodeKeepsInv, SMTT(20)
<1>5. ASSUME NEW a \in Advertised, Hear(a)
      PROVE  Inv'
  BY <1>5, HearKeepsInv, Zenon
<1>6. CASE HomeAgentTimer
  BY <1>6, HomeAgentTimerKeepsInv, Zenon
<1>7. CASE ForeignAgentTimer
  BY <1>7, ForeignAgentTimerKeepsInv, Zenon
<1>8. ASSUME NEW t \in {"adv", "requests", "connection"}, NodeTimer(t)
      PROVE  Inv'
  BY <1>8, NodeTimerKeepsInv, Zenon
<1>9. CASE Move \/ UNCHANGED vars
  <2>1. UNCHANGED <<node, homeAgent, registrationReq, visitorMap, net, ticked,
                    forgetful>>
    BY <1>9, Zenon DEF Move, vars, foreignAgent
  <2> QED
    BY <2>1, SameStep, Zenon
<1>10. CASE Restart
  BY <1>10, RestartKeepsInv, SMTT(20)
<1> QED
  BY <1>1, <1>2, <1>3, <1>4, <1>5, <1>6, <1>7, <1>8, <1>9, <1>10, Zenon
    DEF Next

(***************************************************************************)
(* At the beginning nobody knows of anybody.                               *)
(***************************************************************************)
LEMMA InitSatisfiesInv ==
    ASSUME Init
    PROVE  Inv
<1>1. Fresh
  BY Zenon DEF Init, MN!Init, Fresh
<1>2. table = [n \in Nodes |-> NoEntry] /\ list = [n \in Nodes |-> 0]
  BY Zenon DEF Init, HA!Init
<1>3. registrationReq = <<>> /\ visitorMap = {} /\ net = {}
  BY Zenon DEF Init
<1> QED
  BY <1>1, <1>2, <1>3, NobodyKnows, Zenon

-----------------------------------------------------------------------------
(***************************************************************************)
(* Inv of RegistrationProofs holds in every state of the system, whatever  *)
(* packets are lost or overtake one another, however the timers            *)
(* interleave, and however often the node moves and the processes are      *)
(* restarted.                                                              *)
(***************************************************************************)
THEOREM SystemInvariant == Spec => []Inv
BY InitSatisfiesInv, NextKeepsInv, PTL DEF Spec

(***************************************************************************)
(* A node that believes itself registered is: its home agent tunnels to    *)
(* the care-of address the node uses, for as long as the node believes,    *)
(* give or take the skew (BeliefBacked).                                   *)
(***************************************************************************)
THEOREM RegisteredIsBound == Spec => []BeliefBacked
BY SystemInvariant, BoundWhileBelieved, PTL

(***************************************************************************)
(* The same for the foreign agent the node uses, which has the node in its *)
(* visitor list (VisitorBacked).                                           *)
(***************************************************************************)
THEOREM RegisteredIsVisitor == Spec => []VisitorBacked
BY SystemInvariant, VisitorWhileBelieved, PTL
=============================================================================
