-------------------------- MODULE MobileNodeProofs --------------------------
(***************************************************************************)
(* Theorems about the gateway, the list of advertisements and the requests *)
(* of the mobile node, for any advertisements, replies and                 *)
(* identifications and any number of outstanding requests.                 *)
(***************************************************************************)
EXTENDS MobileNodeProperties, BasicProofs

(***************************************************************************)
(* makePacket leaves the gateway alone or sets it to the home agent.       *)
(***************************************************************************)
LEMMA GatewayOfMakePacket ==
    ASSUME NEW a, NEW I, NEW left, makePacket(a, I, left), UNCHANGED home,
           HomeUsesHomeAgent
    PROVE  HomeUsesHomeAgent'
BY Zenon DEF makePacket, gateway, HomeUsesHomeAgent

(***************************************************************************)
(* An acceptance without time answers a deregistration, which went to the  *)
(* home agent.                                                             *)
(***************************************************************************)
LEMMA GatewayOfAcceptHome ==
    ASSUME NEW r \in Incoming, Plausible(r), AcceptHome(r)
    PROVE  HomeUsesHomeAgent'
<1>1. PICK q \in currentRequests : Concerns(r, q) /\ curr_private_addr' = q.ipDst
  BY Zenon DEF AcceptHome
<1>2. q.ipDst = home_private_addr
  BY <1>1, Zenon DEF Plausible, Concerns, AcceptHome
<1> QED
  BY <1>1, <1>2, Zenon DEF HomeUsesHomeAgent

(***************************************************************************)
(* Every step keeps the gateway of a node that is home.                    *)
(***************************************************************************)
LEMMA GatewayStep ==
    ASSUME HomeUsesHomeAgent, [Next]_vars
    PROVE  HomeUsesHomeAgent'
<1>1. ASSUME UNCHANGED <<home, gateway>>
      PROVE  HomeUsesHomeAgent'
  BY <1>1, Zenon DEF HomeUsesHomeAgent, gateway
<1>2. ASSUME NEW a \in Advs, push_adv(a)
      PROVE  HomeUsesHomeAgent'
  BY <1>1, <1>2, GatewayOfMakePacket, Zenon
  DEF push_adv, IgnoreAdv, BusyAdv, UsableAdv
<1>3. ASSUME NEW r \in Incoming, Plausible(r), push_reply(r)
      PROVE  HomeUsesHomeAgent'
  <2>1. CASE IgnoreReply(r)
    BY <1>1, <2>1, Zenon DEF IgnoreReply
  <2>2. CASE AcceptHome(r)
    BY <1>3, <2>2, GatewayOfAcceptHome, Zenon
  <2>3. CASE AcceptAbroad(r)
    BY <2>3, Zenon DEF AcceptAbroad, HomeUsesHomeAgent
  <2> QED
    BY <1>3, <2>1, <2>2, <2>3, Zenon DEF push_reply
<1>4. CASE run_timer_adv
  BY <1>1, <1>4, GatewayOfMakePacket, Zenon DEF run_timer_adv
<1>5. CASE run_timer_requests
  BY <1>1, <1>5, Zenon DEF run_timer_requests
<1>6. CASE run_timer_connection
  BY <1>1, <1>6, GatewayOfMakePacket, Zenon
  DEF run_timer_connection, ConnectionOver, ConnectionCounts, Renew
<1>7. CASE Restart
  BY <1>7, Zenon DEF Restart, HomeUsesHomeAgent
<1>8. CASE UNCHANGED vars
  BY <1>1, <1>8, Zenon DEF vars, gateway
<1> QED
  BY <1>2, <1>3, <1>4, <1>5, <1>6, <1>7, <1>8, Zenon DEF Next

(***************************************************************************)
(* A node that believes it is home uses its home agent as the gateway,     *)
(* whatever requests and replies of it are under way.                      *)
(***************************************************************************)
THEOREM NodeAtHomeUsesHomeAgent == Spec => []HomeUsesHomeAgent
<1>1. Init => HomeUsesHomeAgent
  BY Zenon DEF Init, HomeUsesHomeAgent
<1>2. HomeUsesHomeAgent /\ [Next]_vars => HomeUsesHomeAgent'
  BY GatewayStep, Zenon
<1> QED
  BY <1>1, <1>2, PTL DEF Spec

-----------------------------------------------------------------------------
(***************************************************************************)
(* The fields of what the node hears.                                      *)
(***************************************************************************)
LEMMA AdvertisedFields ==
    ASSUME NEW a \in AdvertisementPacket
    PROVE  /\ a.private_addr \in Hosts /\ a.COA \in Hosts
           /\ a.lifetime \in Uint16 /\ a.reg_lifetime \in Uint16
           /\ EntryOf(a) \in Advertisement
           /\ EntryOf(a).private_addr = a.private_addr
           /\ EntryOf(a).COA = a.COA
           /\ EntryOf(a).reg_lifetime = a.reg_lifetime
BY Zenon DEF AdvertisementPacket, Advertisement, EntryOf

(***************************************************************************)
(* The fields of an entry of the list of advertisements.                   *)
(***************************************************************************)
LEMMA EntryFields ==
    ASSUME NEW e \in Advertisement
    PROVE  /\ e.private_addr \in Hosts /\ e.COA \in Hosts
           /\ e.lifetime \in Uint16 /\ e.reg_lifetime \in Uint16
BY Zenon DEF Advertisement

(***************************************************************************)
(* One second less is a uint16_t again.                                    *)
(***************************************************************************)
LEMMA SecondLessType ==
    ASSUME NEW x \in Uint16
    PROVE  OneSecondLess(x) \in Uint16
<1>1. 1 \in 0 .. (Byte - 1)
  BY ByteAssumption
<1>2. Htons(1) \in Uint16
  BY <1>1, HtonsRange, Zenon
<1> QED
  BY <1>2, Sub16Type, Zenon DEF OneSecondLess

(***************************************************************************)
(* An entry that gets a second older stays one, of the same agent.         *)
(***************************************************************************)
LEMMA AgedEntry ==
    ASSUME NEW e \in Advertisement
    PROVE  LET d == [e EXCEPT !.lifetime = OneSecondLess(@)]
           IN  /\ d \in Advertisement
               /\ d.private_addr = e.private_addr
               /\ d.COA = e.COA
               /\ d.reg_lifetime = e.reg_lifetime
<1>1. OneSecondLess(e.lifetime) \in Uint16
  BY EntryFields, SecondLessType, Zenon
<1> QED
  BY <1>1, Zenon DEF Advertisement

(***************************************************************************)
(* The request made for an agent and the entry recorded of it, by          *)
(* makePacket.                                                             *)
(***************************************************************************)
LEMMA MadeFor ==
    ASSUME NEW a, a.private_addr \in Hosts, a.COA \in Hosts,
           a.reg_lifetime \in Uint16, NEW i \in Ids
    PROVE  /\ RequestPacket(a, i) \in Request
           /\ RequestPacket(a, i).dst = a.private_addr
           /\ RequestPacket(a, i).coAddr = a.COA
           /\ NewRequest(a, i) \in RequestEntry
           /\ NewRequest(a, i).requestedLifetime = a.reg_lifetime
           /\ NewRequest(a, i).remainingLifetime = a.reg_lifetime
<1>1. 0 \in Uint16
  BY ZeroType, Zenon
<1>2. RequestPacket(a, i) \in Request
  BY <1>1, MobileNodeAssumption, Zenon
  DEF RequestPacket, Request, RequestType, Addresses, Links, FlagBits
<1> QED
  BY <1>2, Zenon DEF RequestPacket, NewRequest, RequestEntry

(***************************************************************************)
(* Whatever identifications makePacket draws, none is outstanding.         *)
(***************************************************************************)
LEMMA DrawnIds ==
    ASSUME NEW n, NEW I \in Draws(n)
    PROVE  I \subseteq Ids
BY Zenon DEF Draws, FreshIds

(***************************************************************************)
(* makePacket keeps the types.                                             *)
(***************************************************************************)
LEMMA TypeOfMakePacket ==
    ASSUME TypeOK, NEW a, a.private_addr \in Hosts, a.COA \in Hosts,
           a.reg_lifetime \in Uint16, NEW n, NEW I \in Draws(n),
           NEW left \in Uint16, makePacket(a, I, left)
    PROVE  /\ currentRequests' \subseteq RequestEntry
           /\ sent' \subseteq Request
           /\ curr_private_addr' \in Hosts
           /\ curr_coa' \in Hosts
           /\ remainingConnectionTime' \in Uint16
<1>1. \A i \in I : /\ RequestPacket(a, i) \in Request
                   /\ NewRequest(a, i) \in RequestEntry
  BY DrawnIds, MadeFor, Zenon
<1>2. 0 \in Uint16
  BY ZeroType, Zenon
<1>3. currentRequests' \subseteq RequestEntry
  BY <1>1, Zenon DEF makePacket, TypeOK
<1>4. sent' \subseteq Request
  BY <1>1, Zenon DEF makePacket
<1> QED
  BY <1>2, <1>3, <1>4, MobileNodeAssumption, Zenon
    DEF makePacket, gateway, TypeOK

-----------------------------------------------------------------------------
(***************************************************************************)
(* No two entries of the list are of the same agent.                       *)
(***************************************************************************)
Apart(s) ==
    \A j, k \in 1 .. Len(s) : SameAgent(s[j], s[k]) => j = k

(***************************************************************************)
(* The agents of no entries are apart.                                     *)
(***************************************************************************)
LEMMA NoneApart == <<>> \in Seq(Advertisement) /\ Apart(<<>>)
BY DEF Apart

(***************************************************************************)
(* Erasing entries keeps the others apart.                                 *)
(***************************************************************************)
LEMMA DrawnApart ==
    ASSUME NEW s \in Seq(Advertisement), NEW r \in Seq(Advertisement),
           DrawnFrom(r, s), Apart(s)
    PROVE  Apart(r)
<1>1. PICK ix \in [1 .. Len(r) -> 1 .. Len(s)] :
        /\ \A j, k \in 1 .. Len(r) : ix[j] = ix[k] => j = k
        /\ \A k \in 1 .. Len(r) : r[k] = s[ix[k]]
  BY Zenon DEF DrawnFrom
<1>2. SUFFICES ASSUME NEW j \in 1 .. Len(r), NEW k \in 1 .. Len(r),
                      SameAgent(r[j], r[k])
               PROVE  j = k
  BY Zenon DEF Apart
<1>3. ix[j] \in 1 .. Len(s) /\ ix[k] \in 1 .. Len(s)
  BY <1>1, Zenon
<1>4. SameAgent(s[ix[j]], s[ix[k]])
  BY <1>1, <1>2, Zenon
<1> QED
  BY <1>1, <1>3, <1>4 DEF Apart

(***************************************************************************)
(* A list of the same agents in the same places keeps them apart.          *)
(***************************************************************************)
LEMMA SameAgentsApart ==
    ASSUME NEW s, NEW r, Len(r) = Len(s), Apart(s),
           \A k \in 1 .. Len(s) : SameAgent(r[k], s[k])
    PROVE  Apart(r)
BY Zenon DEF Apart, SameAgent

(***************************************************************************)
(* A usable advertisement leaves exactly one entry of its agent: a reset   *)
(* entry is replaced in its place, an unknown agent is put at the end.     *)
(***************************************************************************)
LEMMA UpdatedList ==
    ASSUME current_advertisements \in Seq(Advertisement),
           Apart(current_advertisements), NEW a \in AdvertisementPacket
    PROVE  /\ Updated(a) \in Seq(Advertisement)
           /\ Apart(Updated(a))
           /\ \E e \in Range(Updated(a)) : SameAgent(e, a)
           /\ Range(Updated(a)) \subseteq Held \cup {EntryOf(a)}
<1> DEFINE s == current_advertisements
           N == Len(s)
           e == EntryOf(a)
           u == Updated(a)
<1>1. /\ e \in Advertisement
      /\ SameAgent(e, a)
  BY AdvertisedFields, Zenon DEF SameAgent
<1>2. N \in Nat /\ DOMAIN s = 1 .. N /\ \A k \in 1 .. N : s[k] \in Advertisement
  OBVIOUS
<1>3. Held = {s[k] : k \in 1 .. N}
  BY PlacesOfItems, Zenon DEF Held
<1>4. CASE \E d \in Held : SameAgent(d, a)
  <2>1. u = [k \in 1 .. N |-> IF LooksReset(s[k], a) THEN e ELSE s[k]]
    BY <1>2, <1>4, Zenon DEF Updated
  <2>2. u \in Seq(Advertisement) /\ Len(u) = N
    <3> HIDE DEF u, s, N, e
    <3> QED
      BY <1>1, <1>2, <2>1
  <2>3. \A k \in 1 .. N : SameAgent(u[k], s[k])
    BY <1>1, <2>1, Zenon DEF LooksReset, SameAgent
  <2>4. PICK k \in 1 .. N : SameAgent(s[k], a)
    BY <1>3, <1>4, Zenon
  <2>5. SameAgent(u[k], a)
    BY <2>3, <2>4, Zenon DEF SameAgent
  <2>6. u[k] \in Range(u)
    BY <2>2, PlacesOfItems, Zenon
  <2>7. Range(u) = {u[j] : j \in 1 .. N}
    BY <2>2, PlacesOfItems, Zenon
  <2>8. Range(u) \subseteq Held \cup {e}
    BY <1>3, <2>1, <2>7, Zenon
  <2> HIDE DEF u
  <2> QED
    BY <2>2, <2>3, <2>5, <2>6, <2>8, SameAgentsApart, Zenon DEF u
<1>5. CASE ~ \E d \in Held : SameAgent(d, a)
  <2>1. u = Append(s, e)
    BY <1>5, Zenon DEF Updated
  <2> HIDE DEF s, e, u
  <2>2. /\ s \in Seq(Advertisement)
        /\ u \in Seq(Advertisement)
        /\ Len(u) = N + 1
        /\ \A k \in 1 .. N : u[k] = s[k]
        /\ u[N + 1] = e
    <3>1. s \in Seq(Advertisement)
      BY Zenon DEF s
    <3> QED
      BY <1>1, <2>1, <3>1
  <2> HIDE DEF N
  <2>3. \A k \in 1 .. N : ~ SameAgent(u[k], e) /\ ~ SameAgent(e, u[k])
    BY <1>1, <1>3, <1>5, <2>2, Zenon DEF SameAgent
  <2>4. \A j, k \in 1 .. N : SameAgent(u[j], u[k]) => j = k
    BY <2>2, Zenon DEF Apart, s, N
  <2>5. 1 .. (N + 1) = (1 .. N) \cup {N + 1}
    BY <1>2
  <2>6. Apart(u)
    BY <2>2, <2>3, <2>4, <2>5 DEF Apart
  <2>7. Range(u) = Held \cup {e}
    BY <1>1, <2>1, <2>2, AppendItems DEF Held, s
  <2> QED
    BY <1>1, <2>2, <2>6, <2>7, Zenon DEF u, e
<1> QED
  BY <1>4, <1>5, Zenon

(***************************************************************************)
(* A busy advertisement erases at most one entry.                          *)
(***************************************************************************)
LEMMA BusyList ==
    ASSUME current_advertisements \in Seq(Advertisement),
           Apart(current_advertisements), NEW a, BusyAdv(a)
    PROVE  /\ current_advertisements' \in Seq(Advertisement)
           /\ Apart(current_advertisements')
           /\ Range(current_advertisements') \subseteq Held
<1> DEFINE s == current_advertisements
           I == {i \in 1 .. Len(s) : SameAgent(s[i], a)}
<1>0. I = {i \in DOMAIN s : SameAgent(s[i], a)}
  BY DOMAIN s = 1 .. Len(s), Zenon
<1>1. s' = IF I # {} THEN Erase(s, Min(I)) ELSE s
  <2> HIDE DEF I
  <2> QED
    BY <1>0, Zenon DEF BusyAdv
<1>2. CASE I # {}
  <2>1. Min(I) \in 1 .. Len(s)
    <3>1. I \in SUBSET Nat /\ I \subseteq 1 .. Len(s)
      OBVIOUS
    <3> HIDE DEF I
    <3> QED
      BY <1>2, <3>1, MinOfSet, Zenon
  <2>2. Erase(s, Min(I)) \in Seq(Advertisement) /\ DrawnFrom(Erase(s, Min(I)), s)
    BY <2>1, EraseIsDrawn, Zenon
  <2> QED
    BY <1>1, <1>2, <2>2, DrawnApart, DrawnItems, Zenon DEF Held
<1> QED
  BY <1>1, <1>2, Zenon DEF Held

(***************************************************************************)
(* What is left after a second are the entries that are not over.          *)
(***************************************************************************)
LEMMA RemainingList ==
    ASSUME current_advertisements \in Seq(Advertisement),
           Apart(current_advertisements)
    PROVE  /\ Remaining \in Seq(Advertisement)
           /\ Apart(Remaining)
           /\ Remaining # <<>> => /\ Head(Remaining) \in Range(Remaining)
                                  /\ Head(Remaining) \in Advertisement
           /\ \A d \in Range(Remaining) :
                \E e \in Held : d.reg_lifetime = e.reg_lifetime
<1> DEFINE kept == Retain(current_advertisements, {e \in Held : e.lifetime # 0})
           N == Len(kept)
           older == [k \in 1 .. N |->
                       [kept[k] EXCEPT !.lifetime = OneSecondLess(@)]]
<1>1. /\ kept \in Seq(Advertisement) /\ Apart(kept)
      /\ Range(kept) \subseteq Held
  BY RetainIsDrawn, DrawnApart DEF Held
<1> HIDE DEF kept
<1>2. N \in Nat /\ DOMAIN kept = 1 .. N /\ \A k \in 1 .. N : kept[k] \in Advertisement
  BY <1>1
<1>3. Remaining = older
  BY <1>2, Zenon DEF Remaining, kept
<1>4. \A k \in 1 .. N : /\ older[k] \in Advertisement
                         /\ SameAgent(older[k], kept[k])
                         /\ older[k].reg_lifetime = kept[k].reg_lifetime
  BY <1>2, AgedEntry, Zenon DEF SameAgent
<1> HIDE DEF N
<1>5. older \in Seq(Advertisement) /\ Len(older) = N
  <2>1. ASSUME NEW f \in [1 .. N -> Advertisement]
        PROVE  f \in Seq(Advertisement) /\ Len(f) = N
    BY <1>2
  <2>2. older \in [1 .. N -> Advertisement]
    BY <1>4, Zenon
  <2> QED
    BY <2>1, <2>2, Zenon
<1>6. Apart(older)
  BY <1>1, <1>4, <1>5, SameAgentsApart, Zenon DEF N
<1> HIDE DEF older
<1>7. older # <<>> => older[1] \in Range(older) /\ older[1] = Head(older)
                        /\ older[1] \in Advertisement
  <2>1. older # <<>> => 1 \in 1 .. Len(older) /\ Head(older) = older[1]
    BY <1>5
  <2> QED
    BY <1>5, <2>1, PlacesOfItems
<1>8. \A d \in Range(older) : \E e \in Held : d.reg_lifetime = e.reg_lifetime
  <2>1. \A k \in 1 .. N : kept[k] \in Held
    BY <1>1, PlacesOfItems, Zenon DEF N
  <2>2. Range(older) = {older[k] : k \in 1 .. N}
    BY <1>5, PlacesOfItems, Zenon
  <2>3. \A k \in 1 .. N : older[k].reg_lifetime = kept[k].reg_lifetime
    BY <1>4, Zenon DEF older
  <2> QED
    BY <2>1, <2>2, <2>3, Zenon
<1> QED
  BY <1>3, <1>5, <1>6, <1>7, <1>8, Zenon

(***************************************************************************)
(* The advertisement a registration is renewed with is in the list.        *)
(***************************************************************************)
LEMMA CurrentIsHeld ==
    ASSUME current_advertisements \in Seq(Advertisement), CurrentAdvs # <<>>
    PROVE  Head(CurrentAdvs) \in Held /\ Head(CurrentAdvs) \in Advertisement
<1> DEFINE S == {e \in Held : /\ e.private_addr = curr_private_addr
                              /\ e.COA = curr_coa}
           r == Retain(current_advertisements, S)
<1>1. r \in Seq(Advertisement) /\ Range(r) = Held \cap S
  BY RetainIsDrawn, Zenon DEF Held
<1>2. r = CurrentAdvs
  BY Zenon DEF CurrentAdvs
<1> HIDE DEF r
<1>3. 1 \in 1 .. Len(r) /\ Head(r) = r[1]
  BY <1>1, <1>2
<1>4. r[1] \in Range(r) /\ r[1] \in Advertisement
  BY <1>1, <1>3, PlacesOfItems
<1> QED
  BY <1>1, <1>2, <1>3, <1>4, Zenon

-----------------------------------------------------------------------------
(***************************************************************************)
(* What is typed, with the agents of the list apart: the inductive         *)
(* invariant of the state of the node.                                     *)
(***************************************************************************)
NodeInv == TypeOK /\ Apart(current_advertisements)

(***************************************************************************)
(* The time left after an acceptance is a uint16_t, wrapped if need be.    *)
(***************************************************************************)
LEMMA TimeLeftType ==
    ASSUME NEW q \in RequestEntry, NEW r \in Incoming
    PROVE  TimeLeft(q, r) \in Uint16
<1>1. /\ q.remainingLifetime \in Uint16
      /\ q.requestedLifetime \in Uint16
  BY Zenon DEF RequestEntry
<1>2. r.lifetime \in Uint16
  BY MobileNodeAssumption, Zenon DEF Reply
<1> QED
  BY <1>1, <1>2, Sub16Type, Zenon DEF TimeLeft

(***************************************************************************)
(* A reply keeps the types: its gateway is that of an outstanding request. *)
(***************************************************************************)
LEMMA TypeOfReply ==
    ASSUME NodeInv, NEW r \in Incoming, push_reply(r)
    PROVE  NodeInv'
<1>1. \A q \in currentRequests : /\ q.ipDst \in Hosts
                                 /\ q.COA \in Hosts
                                 /\ TimeLeft(q, r) \in Uint16
  <2>1. \A q \in currentRequests : q \in RequestEntry
    BY Zenon DEF NodeInv, TypeOK
  <2> QED
    BY <2>1, TimeLeftType, Zenon DEF RequestEntry
<1>2. 0 \in Uint16
  BY ZeroType, Zenon
<1>3. CASE IgnoreReply(r)
  BY <1>3, Zenon DEF IgnoreReply, gateway, NodeInv, TypeOK, Apart
<1>4. CASE AcceptHome(r)
  <2>1. curr_private_addr' \in Hosts /\ curr_coa' \in Hosts
    BY <1>1, <1>4, Zenon DEF AcceptHome
  <2> QED
    BY <1>2, <1>4, <2>1, Zenon DEF AcceptHome, NodeInv, TypeOK, Apart
<1>5. CASE AcceptAbroad(r)
  <2>1. /\ curr_private_addr' \in Hosts /\ curr_coa' \in Hosts
        /\ remainingConnectionTime' \in Uint16
    BY <1>1, <1>5, Zenon DEF AcceptAbroad
  <2> QED
    BY <1>5, <2>1, Zenon DEF AcceptAbroad, NodeInv, TypeOK, Apart
<1> QED
  BY <1>3, <1>4, <1>5, Zenon DEF push_reply

(***************************************************************************)
(* An advertisement keeps the types.                                       *)
(***************************************************************************)
LEMMA TypeOfAdv ==
    ASSUME NodeInv, NEW a \in Advs, push_adv(a)
    PROVE  NodeInv'
<1>1. a \in AdvertisementPacket
  BY MobileNodeAssumption, Zenon
<1>2. CASE IgnoreAdv(a)
  BY <1>2, Zenon DEF IgnoreAdv, gateway, NodeInv, TypeOK, Apart
<1>3. CASE BusyAdv(a)
  <2>1. current_advertisements' \in Seq(Advertisement) /\ Apart(current_advertisements')
    BY <1>3, BusyList, Zenon DEF NodeInv, TypeOK
  <2> QED
    BY <1>3, <2>1, Zenon DEF BusyAdv, gateway, NodeInv, TypeOK
<1>4. CASE UsableAdv(a)
  <2>1. current_advertisements' \in Seq(Advertisement) /\ Apart(current_advertisements')
    BY <1>1, <1>4, UpdatedList, Zenon DEF UsableAdv, NodeInv, TypeOK
  <2>2. PICK I \in Draws(Calls(a)) : makePacket(a, I, remainingConnectionTime)
    BY <1>4, Zenon DEF UsableAdv
  <2>3. /\ currentRequests' \subseteq RequestEntry
        /\ sent' \subseteq Request
        /\ curr_private_addr' \in Hosts
        /\ curr_coa' \in Hosts
        /\ remainingConnectionTime' \in Uint16
    BY <1>1, <2>2, AdvertisedFields, TypeOfMakePacket, Zenon
      DEF NodeInv, TypeOK
  <2> QED
    BY <1>4, <2>1, <2>3, Zenon DEF UsableAdv, NodeInv, TypeOK
<1> QED
  BY <1>2, <1>3, <1>4 DEF push_adv

(***************************************************************************)
(* A run of a timer keeps the types.                                       *)
(***************************************************************************)
LEMMA TypeOfTimers ==
    ASSUME NodeInv, run_timer_adv \/ run_timer_requests \/ run_timer_connection
    PROVE  NodeInv'
<1>1. OneSecondLess(remainingConnectionTime) \in Uint16
  BY SecondLessType, Zenon DEF NodeInv, TypeOK
<1>2. CASE run_timer_adv
  <2>1. /\ current_advertisements' = Remaining
        /\ UNCHANGED <<home, counting>>
        /\ connected' \in BOOLEAN
    BY <1>2, Zenon DEF run_timer_adv
  <2>2. /\ current_advertisements' \in Seq(Advertisement)
        /\ Apart(current_advertisements')
    BY <2>1, RemainingList, Zenon DEF NodeInv, TypeOK
  <2>3. /\ currentRequests' \subseteq RequestEntry
        /\ sent' \subseteq Request
        /\ curr_private_addr' \in Hosts
        /\ curr_coa' \in Hosts
        /\ remainingConnectionTime' \in Uint16
    <3>1. CASE AgentLost /\ Remaining # <<>>
      <4>1. PICK I \in Draws(1) :
              makePacket(Head(Remaining), I, remainingConnectionTime)
        BY <1>2, <3>1, Zenon DEF run_timer_adv
      <4>2. Head(Remaining) \in Advertisement
        BY <3>1, RemainingList, Zenon DEF NodeInv, TypeOK
      <4> QED
        BY <4>1, <4>2, EntryFields, TypeOfMakePacket, Zenon DEF NodeInv, TypeOK
    <3>2. CASE ~(AgentLost /\ Remaining # <<>>)
      BY <1>2, <3>2, Zenon DEF run_timer_adv, gateway, NodeInv, TypeOK
    <3> QED
      BY <3>1, <3>2, Zenon
  <2> QED
    BY <2>1, <2>2, <2>3, Zenon DEF NodeInv, TypeOK
<1>3. CASE run_timer_requests
  <2>1. ASSUME NEW p \in RequestEntry
        PROVE  [p EXCEPT !.remainingLifetime = OneSecondLess(@)] \in RequestEntry
    <3>1. OneSecondLess(p.remainingLifetime) \in Uint16
      BY SecondLessType, Zenon DEF RequestEntry
    <3> QED
      BY <3>1, Zenon DEF RequestEntry
  <2>2. currentRequests' \subseteq RequestEntry
    BY <1>3, <2>1, Zenon DEF run_timer_requests, NodeInv, TypeOK
  <2> QED
    BY <1>3, <2>2, Zenon
      DEF run_timer_requests, gateway, NodeInv, TypeOK, Apart
<1>4. CASE run_timer_connection
  <2>1. CASE ConnectionOver
    BY <2>1, Zenon DEF ConnectionOver, gateway, NodeInv, TypeOK, Apart
  <2>2. CASE ConnectionCounts
    BY <1>1, <2>2, Zenon DEF ConnectionCounts, gateway, NodeInv, TypeOK, Apart
  <2>3. CASE Renew
    <3>1. PICK I \in Draws(1) :
            makePacket(Head(CurrentAdvs), I, OneSecondLess(remainingConnectionTime))
      BY <2>3, Zenon DEF Renew
    <3>2. Head(CurrentAdvs) \in Advertisement
      BY <2>3, CurrentIsHeld, Zenon DEF Renew, RenewalDue, NodeInv, TypeOK
    <3>3. /\ currentRequests' \subseteq RequestEntry
          /\ sent' \subseteq Request
          /\ curr_private_addr' \in Hosts
          /\ curr_coa' \in Hosts
          /\ remainingConnectionTime' \in Uint16
      BY <1>1, <3>1, <3>2, EntryFields, TypeOfMakePacket, Zenon
        DEF NodeInv, TypeOK
    <3> QED
      BY <2>3, <3>3, Zenon DEF Renew, NodeInv, TypeOK, Apart
  <2> QED
    BY <1>4, <2>1, <2>2, <2>3, Zenon DEF run_timer_connection
<1> QED
  BY <1>2, <1>3, <1>4, Zenon

(***************************************************************************)
(* Every step keeps the types and the agents apart.                        *)
(***************************************************************************)
LEMMA NodeInvStep ==
    ASSUME NodeInv, [Next]_vars
    PROVE  NodeInv'
<1>1. CASE Restart
  <2>1. Apart(current_advertisements')
    BY <1>1, NoneApart, Zenon DEF Restart
  <2>2. TypeOK'
    BY <1>1, MobileNodeAssumption, ZeroType, NoneApart, Zenon
    DEF Restart, TypeOK
  <2> QED
    BY <2>1, <2>2, Zenon DEF NodeInv
<1>2. CASE UNCHANGED vars
  BY <1>2, Zenon DEF vars, NodeInv, TypeOK, Apart
<1> QED
  BY <1>1, <1>2, TypeOfAdv, TypeOfReply, TypeOfTimers, Zenon DEF Next

(***************************************************************************)
(* The start has the types.                                                *)
(***************************************************************************)
LEMMA NodeInvInit == Init => NodeInv
<1>1. Init => Apart(current_advertisements)
  BY NoneApart, Zenon DEF Init
<1>2. Init => TypeOK
  BY MobileNodeAssumption, ZeroType, NoneApart, Zenon DEF Init, TypeOK
<1> QED
  BY <1>1, <1>2, Zenon DEF NodeInv

(***************************************************************************)
(* The members of MobileInfoList and the outstanding requests keep their   *)
(* types, whatever the node hears, and however its lifetimes wrap.         *)
(***************************************************************************)
THEOREM NodeTypes == Spec => []TypeOK
<1>1. NodeInv => TypeOK
  BY Zenon DEF NodeInv
<1> QED
  BY <1>1, NodeInvInit, NodeInvStep, PTL DEF Spec

-----------------------------------------------------------------------------
(***************************************************************************)
(* The part of RequestsToHeardAgents that is about the requests sent.      *)
(***************************************************************************)
SentToHeard ==
    \A p \in sent : \E e \in Held :
        e.private_addr = p.dst /\ e.COA = p.coAddr

(***************************************************************************)
(* A request made for an agent the step leaves an entry of.                *)
(***************************************************************************)
LEMMA MadeForHeard ==
    ASSUME NEW a, NEW I, NEW left, makePacket(a, I, left),
           \E e \in Held' : SameAgent(e, a)
    PROVE  SentToHeard'
<1>1. ASSUME NEW p \in sent'
      PROVE  p.dst = a.private_addr /\ p.coAddr = a.COA
  BY DEF makePacket, RequestPacket
<1> QED
  BY <1>1, Zenon DEF SentToHeard, SameAgent

(***************************************************************************)
(* Every step that sends a request leaves an entry of the agent it is for: *)
(* an advertisement is entered before it is answered, and the timers take  *)
(* the agent from the list they leave.                                     *)
(***************************************************************************)
LEMMA SentToHeardStep ==
    ASSUME PublicAddresses, NodeInv, SentToHeard, [Next]_vars
    PROVE  SentToHeard'
<1>1. CASE sent' = {}
  BY <1>1, Zenon DEF SentToHeard
<1>2. ASSUME NEW a \in Advs, push_adv(a)
      PROVE  SentToHeard'
  <2>1. CASE UsableAdv(a)
    <3>1. PICK I \in Draws(Calls(a)) : makePacket(a, I, remainingConnectionTime)
      BY <2>1, Zenon DEF UsableAdv
    <3>2. current_advertisements' = Updated(a) /\ a \in AdvertisementPacket
      BY <2>1, MobileNodeAssumption, Zenon DEF UsableAdv, PublicAddresses
    <3>3. \E e \in Held' : SameAgent(e, a)
      BY <3>2, UpdatedList, Zenon DEF NodeInv, TypeOK, Held
    <3> QED
      BY <3>1, <3>3, MadeForHeard, Zenon
  <2> QED
    BY <1>1, <1>2, <2>1, Zenon DEF push_adv, IgnoreAdv, BusyAdv
<1>3. ASSUME NEW r \in Incoming, push_reply(r)
      PROVE  SentToHeard'
  BY <1>1, <1>3, Zenon DEF push_reply, IgnoreReply, AcceptHome, AcceptAbroad
<1>4. CASE run_timer_adv
  <2>1. CASE AgentLost /\ Remaining # <<>>
    <3>1. PICK I \in Draws(1) :
            makePacket(Head(Remaining), I, remainingConnectionTime)
      BY <1>4, <2>1, Zenon DEF run_timer_adv
    <3>2. Head(Remaining) \in Held'
      BY <1>4, <2>1, RemainingList, Zenon
        DEF run_timer_adv, NodeInv, TypeOK, Held
    <3>3. \E e \in Held' : SameAgent(e, Head(Remaining))
      BY <3>2, Zenon DEF SameAgent
    <3> QED
      BY <3>1, <3>3, MadeForHeard, Zenon
  <2> QED
    BY <1>1, <1>4, <2>1, Zenon DEF run_timer_adv
<1>5. CASE run_timer_connection
  <2>1. CASE Renew
    <3>1. PICK I \in Draws(1) :
            makePacket(Head(CurrentAdvs), I, OneSecondLess(remainingConnectionTime))
      BY <2>1, Zenon DEF Renew
    <3>2. Head(CurrentAdvs) \in Held'
      BY <2>1, CurrentIsHeld, Zenon
        DEF Renew, RenewalDue, NodeInv, TypeOK, Held
    <3>3. \E e \in Held' : SameAgent(e, Head(CurrentAdvs))
      BY <3>2 DEF SameAgent
    <3> QED
      BY <3>1, <3>3, MadeForHeard, Zenon
  <2> QED
    BY <1>1, <1>5, <2>1, Zenon
    DEF run_timer_connection, ConnectionOver, ConnectionCounts
<1>6. CASE run_timer_requests
  BY <1>1, <1>6, Zenon DEF run_timer_requests
<1>7. CASE Restart
  BY <1>1, <1>7, Zenon DEF Restart
<1>8. CASE UNCHANGED vars
  BY <1>8, Zenon DEF vars, SentToHeard, Held
<1> QED
  BY <1>2, <1>3, <1>4, <1>5, <1>6, <1>7, <1>8, Zenon DEF Next

(***************************************************************************)
(* The list holds one entry of an agent, and requests go only to agents    *)
(* the list holds at that moment: AdvertisementsHandler and                *)
(* RegistrationRequestSource never use an entry that was just erased.      *)
(***************************************************************************)
THEOREM RequestsAreToHeardAgents ==
    PublicAddresses => (Spec => []RequestsToHeardAgents)
<1> SUFFICES ASSUME PublicAddresses
             PROVE  Spec => []RequestsToHeardAgents
  BY Zenon
<1> DEFINE IInv == NodeInv /\ SentToHeard
<1>1. Init => IInv
  BY NodeInvInit, Zenon DEF Init, SentToHeard
<1>2. IInv /\ [Next]_vars => IInv'
  BY NodeInvStep, SentToHeardStep, Zenon
<1>3. IInv => RequestsToHeardAgents
  <2>1. NodeInv => DOMAIN current_advertisements = 1 .. Len(current_advertisements)
    BY DEF NodeInv, TypeOK
  <2> QED
    BY <2>1, Zenon DEF NodeInv, Apart, SentToHeard, RequestsToHeardAgents
<1> HIDE DEF IInv
<1> QED
  BY <1>1, <1>2, <1>3, PTL DEF Spec

-----------------------------------------------------------------------------
(***************************************************************************)
(* An outstanding request asked for fewer seconds than a byte holds, and   *)
(* no more of them are left than it asked for.  (One that asked for none   *)
(* is aged past zero; no reply can grant it time.)                         *)
(***************************************************************************)
CountsDown(q) ==
    \E s \in 0 .. (Byte - 1) :
        /\ q.requestedLifetime = Htons(s)
        /\ s # 0 => \E t \in 1 .. s : q.remainingLifetime = Htons(t)

RequestsCountDown == \A q \in currentRequests : CountsDown(q)

(***************************************************************************)
(* The advertisements the node holds offer fewer seconds than a byte does. *)
(***************************************************************************)
HeldOffers == \A e \in Held : e.reg_lifetime \in ByteLifetimes

(***************************************************************************)
(* Every step leaves offers of advertisements heard in the list.           *)
(***************************************************************************)
LEMMA HeldOffersStep ==
    ASSUME ShortOffers, NodeInv, HeldOffers, [Next]_vars
    PROVE  HeldOffers'
<1>1. CASE UNCHANGED current_advertisements
  BY <1>1, Zenon DEF HeldOffers, Held
<1>2. ASSUME NEW a \in Advs, push_adv(a)
      PROVE  HeldOffers'
  <2>1. CASE BusyAdv(a)
    <3>1. Held' \subseteq Held
      BY <2>1, BusyList, Zenon DEF Held, NodeInv, TypeOK
    <3> QED
      BY <3>1, Zenon DEF HeldOffers
  <2>2. CASE UsableAdv(a) /\ ~ UNCHANGED current_advertisements
    <3>1. current_advertisements' = Updated(a) /\ a \in AdvertisementPacket
      BY <2>2, MobileNodeAssumption, Zenon DEF UsableAdv
    <3>2. Held' \subseteq Held \cup {EntryOf(a)}
      BY <3>1, UpdatedList, Zenon DEF Held, NodeInv, TypeOK
    <3>3. EntryOf(a).reg_lifetime \in ByteLifetimes
      BY <3>1, AdvertisedFields, Zenon DEF ShortOffers
    <3> QED
      BY <3>2, <3>3, Zenon DEF HeldOffers
  <2> QED
    BY <1>1, <1>2, <2>1, <2>2, Zenon DEF push_adv, IgnoreAdv
<1>3. ASSUME NEW r \in Incoming, push_reply(r)
      PROVE  HeldOffers'
  BY <1>1, <1>3, Zenon DEF push_reply, IgnoreReply, AcceptHome, AcceptAbroad
<1>4. CASE run_timer_adv
  <2>1. \A d \in Held' : \E e \in Held : d.reg_lifetime = e.reg_lifetime
    BY <1>4, RemainingList, Zenon DEF run_timer_adv, Held, NodeInv, TypeOK
  <2> QED
    BY <2>1, Zenon DEF HeldOffers
<1>5. CASE run_timer_requests \/ run_timer_connection
  BY <1>1, <1>5, Zenon
    DEF run_timer_requests, run_timer_connection, ConnectionOver,
                    ConnectionCounts, Renew
<1>6. CASE Restart
  <2>1. Held' = {}
    BY <1>6 DEF Restart, Held, Range
  <2> QED
    BY <2>1, Zenon DEF HeldOffers
<1>7. CASE UNCHANGED vars
  BY <1>1, <1>7, Zenon DEF vars
<1> QED
  BY <1>2, <1>3, <1>4, <1>5, <1>6, <1>7, Zenon DEF Next

(***************************************************************************)
(* A new request has all it asked for left.                                *)
(***************************************************************************)
LEMMA NewCountsDown ==
    ASSUME NEW a, a.reg_lifetime \in ByteLifetimes, NEW i
    PROVE  CountsDown(NewRequest(a, i))
<1>1. PICK s \in 0 .. (Byte - 1) : a.reg_lifetime = Htons(s)
  BY Zenon DEF ByteLifetimes
<1>2. s # 0 => s \in 1 .. s
  OBVIOUS
<1> QED
  BY <1>1, <1>2, Zenon DEF CountsDown, NewRequest

(***************************************************************************)
(* makePacket adds requests that have all they asked for left.             *)
(***************************************************************************)
LEMMA MadeCountsDown ==
    ASSUME RequestsCountDown, NEW a, a.reg_lifetime \in ByteLifetimes,
           NEW I, NEW left, makePacket(a, I, left)
    PROVE  RequestsCountDown'
BY NewCountsDown, Zenon DEF makePacket, RequestsCountDown

(***************************************************************************)
(* A second less of a request that is not erased for it.                   *)
(***************************************************************************)
LEMMA AgedCountsDown ==
    ASSUME NEW p \in RequestEntry, CountsDown(p),
           NEW q, q = [p EXCEPT !.remainingLifetime = OneSecondLess(@)],
           q.remainingLifetime # 0
    PROVE  CountsDown(q)
<1>1. /\ q.requestedLifetime = p.requestedLifetime
      /\ q.remainingLifetime = OneSecondLess(p.remainingLifetime)
  BY Zenon DEF RequestEntry
<1>2. PICK s \in 0 .. (Byte - 1) :
        /\ p.requestedLifetime = Htons(s)
        /\ s # 0 => \E t \in 1 .. s : p.remainingLifetime = Htons(t)
  BY Zenon DEF CountsDown
<1>3. ASSUME s # 0
      PROVE  \E t \in 1 .. s : q.remainingLifetime = Htons(t)
  <2>1. PICK t \in 1 .. s : p.remainingLifetime = Htons(t)
    BY <1>2, <1>3, Zenon
  <2>2. t \in 1 .. (Byte - 1) /\ t - 1 \in 0 .. (Byte - 1)
    BY <2>1, ByteAssumption
  <2>3. q.remainingLifetime = Htons(t - 1)
    BY <1>1, <2>1, <2>2, OneSecondLessOfHtons, Zenon
  <2>4. t - 1 # 0
    BY <2>2, <2>3, HtonsRange, Zenon
  <2>5. t - 1 \in 1 .. s
    BY <2>1, <2>4
  <2> QED
    BY <2>3, <2>5, Zenon
<1> QED
  BY <1>1, <1>2, <1>3, Zenon DEF CountsDown

(***************************************************************************)
(* Every step keeps the requests counting down.                            *)
(***************************************************************************)
LEMMA CountDownStep ==
    ASSUME ShortOffers, NodeInv, HeldOffers, HeldOffers', RequestsCountDown,
           [Next]_vars
    PROVE  RequestsCountDown'
<1>1. CASE UNCHANGED currentRequests
  BY <1>1, Zenon DEF RequestsCountDown
<1>2. ASSUME NEW a \in Advs, push_adv(a)
      PROVE  RequestsCountDown'
  BY <1>1, <1>2, MadeCountsDown, Zenon
  DEF push_adv, IgnoreAdv, BusyAdv, UsableAdv, ShortOffers
<1>3. ASSUME NEW r \in Incoming, push_reply(r)
      PROVE  RequestsCountDown'
  BY <1>1, <1>3, Zenon DEF push_reply, IgnoreReply, AcceptHome, AcceptAbroad
<1>4. CASE run_timer_adv
  <2>1. CASE AgentLost /\ Remaining # <<>>
    <3>1. PICK I \in Draws(1) :
            makePacket(Head(Remaining), I, remainingConnectionTime)
      BY <1>4, <2>1, Zenon DEF run_timer_adv
    <3>2. Head(Remaining) \in Held'
      BY <1>4, <2>1, RemainingList, Zenon
        DEF run_timer_adv, NodeInv, TypeOK, Held
    <3> QED
      BY <3>1, <3>2, MadeCountsDown, Zenon DEF HeldOffers
  <2> QED
    BY <1>1, <1>4, <2>1, Zenon DEF run_timer_adv
<1>5. CASE run_timer_connection
  <2>1. CASE Renew
    <3>1. PICK I \in Draws(1) :
            makePacket(Head(CurrentAdvs), I, OneSecondLess(remainingConnectionTime))
      BY <2>1, Zenon DEF Renew
    <3>2. Head(CurrentAdvs) \in Held
      BY <2>1, CurrentIsHeld, Zenon DEF Renew, RenewalDue, NodeInv, TypeOK
    <3> QED
      BY <3>1, <3>2, MadeCountsDown, Zenon DEF HeldOffers
  <2> QED
    BY <1>1, <1>5, <2>1, Zenon
    DEF run_timer_connection, ConnectionOver, ConnectionCounts
<1>6. CASE run_timer_requests
  <2>1. SUFFICES ASSUME NEW q \in currentRequests'
                 PROVE  CountsDown(q)
    BY Zenon DEF RequestsCountDown
  <2>2. PICK p \in currentRequests :
          /\ q = [p EXCEPT !.remainingLifetime = OneSecondLess(@)]
          /\ q.remainingLifetime # 0
    BY <1>6, <2>1, Zenon DEF run_timer_requests
  <2>3. p \in RequestEntry /\ CountsDown(p)
    BY Zenon DEF NodeInv, TypeOK, RequestsCountDown
  <2> QED
    BY <2>2, <2>3, AgedCountsDown, Zenon
<1>7. CASE Restart
  BY <1>7, Zenon DEF Restart, RequestsCountDown
<1>8. CASE UNCHANGED vars
  BY <1>1, <1>8, Zenon DEF vars
<1> QED
  BY <1>2, <1>3, <1>4, <1>5, <1>6, <1>7, <1>8, Zenon DEF Next

(***************************************************************************)
(* The subtraction of the time a request has waited from the time granted, *)
(* done on raw values, is that of the seconds when the grant is not over.  *)
(***************************************************************************)
LEMMA TimeLeftInTime ==
    ASSUME NEW s \in 0 .. (Byte - 1), NEW t \in 0 .. s, NEW u \in 0 .. s,
           s - t <= u
    PROVE  /\ t - (s - u) \in 0 .. u
           /\ Sub16(Htons(t), Sub16(Htons(s), Htons(u))) = Htons(t - (s - u))
<1>1. /\ s - u \in 0 .. (Byte - 1) /\ t \in 0 .. (Byte - 1) /\ u \in 0 .. (Byte - 1)
      /\ s - u \in 0 .. t
      /\ t - (s - u) \in 0 .. u
  BY ByteAssumption
<1>2. ASSUME NEW x \in 0 .. (Byte - 1), NEW y \in 0 .. x
      PROVE  Sub16(Htons(x), Htons(y)) = Htons(x - y)
  <2>1. y \in 0 .. (Byte - 1) /\ x - y \in 0 .. (Byte - 1)
    BY ByteAssumption
  <2>2. Htons(x) - Htons(y) = Htons(x - y)
    BY HtonsDifference, Zenon
  <2>3. Htons(x) \in Int /\ Htons(y) \in Int /\ Htons(x - y) >= 0
    BY <2>1, HtonsRange, WordSize DEF Uint16
  <2>4. Htons(x) >= Htons(y)
    BY <2>2, <2>3
  <2> QED
    BY <2>2, <2>4, Zenon DEF Sub16
<1>3. Sub16(Htons(s), Htons(u)) = Htons(s - u)
  BY <1>2, Zenon
<1>4. Sub16(Htons(t), Htons(s - u)) = Htons(t - (s - u))
  BY <1>1, <1>2, Zenon
<1> QED
  BY <1>1, <1>3, <1>4, Zenon

(***************************************************************************)
(* A reply that fits its request and comes in time leaves the node at most *)
(* the time the reply grants.                                              *)
(***************************************************************************)
LEMMA AcceptedWithinGrant ==
    ASSUME RequestsCountDown, NEW r \in Incoming, Plausible(r), InTime(r),
           AcceptAbroad(r)
    PROVE  Ntohs(remainingConnectionTime') <= Ntohs(r.lifetime)
<1>1. PICK q \in currentRequests :
        r.id = q.id /\ remainingConnectionTime' = TimeLeft(q, r)
  BY Zenon DEF AcceptAbroad, Concerns
<1>2. /\ r.lifetime # 0
      /\ Ntohs(r.lifetime) <= Ntohs(q.requestedLifetime)
      /\ Ntohs(q.requestedLifetime) - Ntohs(q.remainingLifetime)
           <= Ntohs(r.lifetime)
  BY <1>1, Zenon DEF AcceptAbroad, Plausible, InTime
<1>3. PICK s \in 0 .. (Byte - 1) :
        /\ q.requestedLifetime = Htons(s)
        /\ s # 0 => \E t \in 1 .. s : q.remainingLifetime = Htons(t)
  BY Zenon DEF RequestsCountDown, CountsDown
<1> DEFINE u == Ntohs(r.lifetime)
<1>4. r.lifetime \in Uint16
  BY MobileNodeAssumption, Zenon DEF Reply
<1>5. u \in Uint16 /\ r.lifetime = Htons(u)
  BY <1>4, HtonsTwice, Zenon DEF Ntohs
<1>6. u <= s
  BY <1>2, <1>3, NtohsOfHtons, Zenon
<1>7. u \in 0 .. s
  BY <1>5, <1>6, WordSize DEF Uint16
<1>8. u # 0
  <2>1. 0 \in 0 .. (Byte - 1)
    BY ByteAssumption
  <2> QED
    BY <1>2, <1>5, <2>1, HtonsRange, Zenon
<1> HIDE DEF u
<1>9. PICK t \in 1 .. s : q.remainingLifetime = Htons(t)
  BY <1>3, <1>7, <1>8
<1>10. t \in 0 .. s /\ t \in 0 .. (Byte - 1)
  BY <1>9, ByteAssumption
<1>11. s - t <= u
  BY <1>2, <1>3, <1>9, <1>10, NtohsOfHtons, Zenon DEF u
<1>12. /\ t - (s - u) \in 0 .. u
       /\ remainingConnectionTime' = Htons(t - (s - u))
  BY <1>1, <1>3, <1>5, <1>7, <1>9, <1>10, <1>11, TimeLeftInTime, Zenon
    DEF TimeLeft
<1>13. t - (s - u) \in 0 .. (Byte - 1)
  BY <1>7, <1>12, ByteAssumption
<1>14. Ntohs(remainingConnectionTime') = t - (s - u)
  BY <1>12, <1>13, NtohsOfHtons, Zenon
<1> QED
  BY <1>12, <1>14 DEF u

(***************************************************************************)
(* The time RegistrationRequestSource keeps after an acceptance that comes *)
(* in time is within the grant, for any advertised lifetimes below a byte, *)
(* any partial grant and any time the request has waited.                  *)
(***************************************************************************)
THEOREM NodeTrustsWithinGrant ==
    ShortOffers => (Spec => TrustsWithinGrant)
<1> SUFFICES ASSUME ShortOffers
             PROVE  Spec => TrustsWithinGrant
  BY Zenon
<1> DEFINE IInv == NodeInv /\ HeldOffers /\ RequestsCountDown
           Within == \A r \in Incoming :
                       Plausible(r) /\ InTime(r) /\ AcceptAbroad(r) =>
                         Ntohs(remainingConnectionTime') <= Ntohs(r.lifetime)
<1>1. Init => IInv
  <2>1. Init => Held = {} /\ currentRequests = {}
    BY DEF Init, Held, Range
  <2> QED
    BY <2>1, NodeInvInit, Zenon DEF HeldOffers, RequestsCountDown
<1>2. IInv /\ [Next]_vars => IInv'
  BY NodeInvStep, HeldOffersStep, CountDownStep, Zenon
<1>3. IInv => Within
  BY AcceptedWithinGrant, Zenon
<1>4. IInv /\ [Next]_vars => [Within]_vars
  BY <1>3, Zenon
<1> HIDE DEF IInv
<1> QED
  BY <1>1, <1>2, <1>4, PTL DEF Spec, TrustsWithinGrant
=============================================================================
