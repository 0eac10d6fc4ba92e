------------------------- MODULE ForeignAgentProofs -------------------------
(***************************************************************************)
(* Theorems about the pending registrations and the visitors of the        *)
(* foreign agent, for any sets of nodes, requests, replies and             *)
(* identifications and any number of pending registrations.                *)
(***************************************************************************)
EXTENDS ForeignAgentProperties, BasicProofs

(***************************************************************************)
(* A visitor has the fields that push gives it; what they hold does not    *)
(* matter here.                                                            *)
(***************************************************************************)
Fields == {"ipSrc", "homeAgent", "id", "lifetimeReq", "lifetimeRem"}

VisitorsAreRecords ==
    \A v \in visitorMap : /\ DOMAIN v = Fields
                          /\ v = [f \in Fields |-> v[f]]

(***************************************************************************)
(* A second of lifetime less leaves the node of a visitor alone.           *)
(***************************************************************************)
LEMMA SecondLessKeepsNode ==
    ASSUME NEW v, DOMAIN v = Fields, v = [f \in Fields |-> v[f]], NEW x
    PROVE  /\ [v EXCEPT !.lifetimeRem = x].ipSrc = v.ipSrc
           /\ DOMAIN [v EXCEPT !.lifetimeRem = x] = Fields
           /\ [v EXCEPT !.lifetimeRem = x]
                = [f \in Fields |-> [v EXCEPT !.lifetimeRem = x][f]]
BY Zenon DEF Fields

(***************************************************************************)
(* A new visitor has the fields.                                           *)
(***************************************************************************)
LEMMA NewVisitorFields ==
    ASSUME NEW item, NEW r
    PROVE  /\ NewVisitor(item, r).ipSrc = item.ipSrc
           /\ DOMAIN NewVisitor(item, r) = Fields
           /\ NewVisitor(item, r) = [f \in Fields |-> NewVisitor(item, r)[f]]
BY Zenon DEF NewVisitor, Fields

(***************************************************************************)
(* Every step keeps one visitor for each node: a reply takes the visitors  *)
(* of its node away before it enters a new one, and a run of the timer     *)
(* ages every visitor alike.                                               *)
(***************************************************************************)
LEMMA VisitorsStep ==
    ASSUME VisitorsAreRecords, OneVisitorPerNode, [Next]_vars
    PROVE  VisitorsAreRecords' /\ OneVisitorPerNode'
<1>1. CASE UNCHANGED visitorMap
  BY <1>1, Zenon DEF VisitorsAreRecords, OneVisitorPerNode
<1>2. ASSUME NEW r \in Replies, PassMatched(r)
      PROVE  VisitorsAreRecords' /\ OneVisitorPerNode'
  <2>1. PICK item : visitorMap' = IF Accepting(r)
                                    THEN {v \in visitorMap : v.ipSrc # item.ipSrc}
                                           \cup {NewVisitor(item, r)}
                                    ELSE visitorMap
    BY <1>2, Zenon DEF PassMatched
  <2>2. CASE ~Accepting(r)
    BY <2>1, <2>2, <1>1, Zenon
  <2>3. CASE Accepting(r)
    <3>1. PICK new : /\ visitorMap' = {v \in visitorMap : v.ipSrc # item.ipSrc}
                                        \cup {new}
                     /\ new.ipSrc = item.ipSrc
                     /\ DOMAIN new = Fields
                     /\ new = [f \in Fields |-> new[f]]
      BY <2>1, <2>3, NewVisitorFields, Zenon
    <3>2. VisitorsAreRecords'
      BY <3>1, Zenon DEF VisitorsAreRecords
    <3>3. OneVisitorPerNode'
      <4> SUFFICES ASSUME NEW v \in visitorMap', NEW w \in visitorMap',
                          v.ipSrc = w.ipSrc
                   PROVE  v = w
        BY Zenon DEF OneVisitorPerNode
      <4> QED
        BY <3>1, Zenon DEF OneVisitorPerNode
    <3> QED
      BY <3>2, <3>3, Zenon
  <2> QED
    BY <2>2, <2>3, Zenon
<1>3. ASSUME run_timer
      PROVE  VisitorsAreRecords' /\ OneVisitorPerNode'
  <2>1. \A v \in visitorMap' :
          \E u \in visitorMap :
            v = [u EXCEPT !.lifetimeRem = OneSecondLess(u.lifetimeRem)]
    BY <1>3, Zenon DEF run_timer, VisitorsAged
  <2>2. VisitorsAreRecords'
    BY <2>1, SecondLessKeepsNode, Zenon DEF VisitorsAreRecords
  <2>3. OneVisitorPerNode'
    <3> SUFFICES ASSUME NEW v \in visitorMap', NEW w \in visitorMap',
                        v.ipSrc = w.ipSrc
                 PROVE  v = w
      BY Zenon DEF OneVisitorPerNode
    <3>1. PICK u \in visitorMap :
            v = [u EXCEPT !.lifetimeRem = OneSecondLess(u.lifetimeRem)]
      BY <2>1, Zenon
    <3>2. PICK t \in visitorMap :
            w = [t EXCEPT !.lifetimeRem = OneSecondLess(t.lifetimeRem)]
      BY <2>1, Zenon
    <3>3. v.ipSrc = u.ipSrc /\ w.ipSrc = t.ipSrc
      BY <3>1, <3>2, SecondLessKeepsNode, Zenon DEF VisitorsAreRecords
    <3>4. u = t
      BY <3>3, Zenon DEF OneVisitorPerNode
    <3> QED
      BY <3>1, <3>2, <3>4, Zenon
  <2> QED
    BY <2>2, <2>3, Zenon
<1>4. ASSUME Restart
      PROVE  VisitorsAreRecords' /\ OneVisitorPerNode'
  BY <1>4, Zenon DEF Restart, Forget, VisitorsAreRecords, OneVisitorPerNode
<1>5. CASE UNCHANGED vars
  BY <1>5, <1>1, Zenon DEF vars
<1>6. ASSUME NEW r \in Replies, push_reply(r)
      PROVE  VisitorsAreRecords' /\ OneVisitorPerNode'
  BY <1>6, <1>1, <1>2, Zenon DEF push_reply, DropReply, PassUnmatched
<1>7. ASSUME NEW p \in Requests, push_request(p)
      PROVE  UNCHANGED visitorMap
  BY <1>7, Zenon DEF push_request, DropRequest, RelayRequest, DenyRequest
<1>8. ASSUME run_timer_aborted \/ \E n \in Nodes : Decapsulate(n)
      PROVE  UNCHANGED visitorMap
  BY <1>8, Zenon DEF run_timer_aborted, Decapsulate
<1> QED
  BY <1>1, <1>3, <1>4, <1>5, <1>6, <1>7, <1>8, Zenon DEF Next, Step

(***************************************************************************)
(* A node is in the visitor list at most once, however many registrations  *)
(* and replies of it cross.                                                *)
(***************************************************************************)
THEOREM ForeignAgentOneVisitor == Spec => []OneVisitorPerNode
<1>1. Init => VisitorsAreRecords /\ OneVisitorPerNode
  BY Zenon DEF Init, VisitorsAreRecords, OneVisitorPerNode
<1>2. VisitorsAreRecords /\ OneVisitorPerNode /\ [Next]_vars
        => (VisitorsAreRecords /\ OneVisitorPerNode)'
  BY VisitorsStep, Zenon
<1> QED
  BY <1>1, <1>2, PTL DEF Spec

-----------------------------------------------------------------------------
(***************************************************************************)
(* The fields of what arrives.                                             *)
(***************************************************************************)
LEMMA RequestFields ==
    ASSUME NEW p \in Requests
    PROVE  /\ p \in Request
           /\ p.type = RequestType
           /\ p.lifetime \in Uint16
           /\ p.homeAddr \in Nodes
           /\ p.homeAgent \in Hosts
           /\ p.id \in Ids
           /\ p.src \in Addresses
           /\ p.dst \in Addresses
BY ForeignAgentAssumption, Zenon DEF Requests, Request

(***************************************************************************)
(* The fields of a registration reply that reaches the agent.              *)
(***************************************************************************)
LEMMA ReplyFields ==
    ASSUME NEW r \in Replies
    PROVE  /\ r \in Reply
           /\ r.type = ReplyType
           /\ r.lifetime \in Uint16
           /\ r.homeAddr \in Nodes
           /\ r.id \in Ids
BY ForeignAgentAssumption, Zenon DEF Replies, Reply

(***************************************************************************)
(* A second less is a uint16_t again, whatever is left: it may wrap.       *)
(***************************************************************************)
LEMMA OneSecondLessType ==
    ASSUME NEW x \in Uint16
    PROVE  OneSecondLess(x) \in Uint16
BY HtonsRange, Sub16Type, ByteAssumption DEF OneSecondLess

(***************************************************************************)
(* What a second changes of a pending registration and of a visitor.       *)
(***************************************************************************)
LEMMA AgedFields ==
    ASSUME NEW i \in PendingItem
    PROVE  /\ Aged(i) \in PendingItem
           /\ Aged(i).ipSrc = i.ipSrc
           /\ Aged(i).homeAgent = i.homeAgent
           /\ Aged(i).id = i.id
           /\ Aged(i).lifetimeReq = i.lifetimeReq
           /\ Aged(i).lifetimeRem = OneSecondLess(i.lifetimeRem)
<1>1. OneSecondLess(i.lifetimeRem) \in Uint16
  BY OneSecondLessType, Zenon DEF PendingItem
<1> QED
  BY <1>1, Zenon DEF Aged, PendingItem

(***************************************************************************)
(* A visitor after a second of run_timer: its remaining lifetime counts    *)
(* down and nothing else of it changes.                                    *)
(***************************************************************************)
LEMMA AgedVisitorFields ==
    ASSUME NEW v \in Visitor
    PROVE  LET w == [v EXCEPT !.lifetimeRem = OneSecondLess(@)]
           IN  /\ w \in Visitor
               /\ w.ipSrc = v.ipSrc
               /\ w.homeAgent = v.homeAgent
               /\ w.id = v.id
               /\ w.lifetimeRem = OneSecondLess(v.lifetimeRem)
<1>1. OneSecondLess(v.lifetimeRem) \in Uint16
  BY OneSecondLessType, Zenon DEF Visitor
<1> QED
  BY <1>1, Zenon DEF Visitor

(***************************************************************************)
(* The pending registration made of a request, and the visitor made of it  *)
(* when a reply has come.                                                  *)
(***************************************************************************)
LEMMA NewPendingFields ==
    ASSUME NEW p \in Requests
    PROVE  NewPending(p) \in PendingItem
BY RequestFields, Zenon DEF NewPending, PendingItem

(***************************************************************************)
(* The entry a granting reply makes of a pending registration is a         *)
(* visitor.                                                                *)
(***************************************************************************)
LEMMA NewVisitorType ==
    ASSUME NEW i \in PendingItem, NEW r \in Replies
    PROVE  NewVisitor(i, r) \in Visitor
<1>1. GrantedLifetime(i, r) \in Uint16
  BY ReplyFields, Zenon DEF GrantedLifetime, PendingItem
<1> QED
  BY <1>1, Zenon DEF NewVisitor, PendingItem, Visitor

(***************************************************************************)
(* What run_timer makes of the registrations from place k on.              *)
(***************************************************************************)
LEMMA AgedFromItems ==
    ASSUME registrationReq \in Seq(PendingItem),
           NEW k \in 1 .. (Len(registrationReq) + 1)
    PROVE  /\ AgedFrom(k) \in Seq(PendingItem)
           /\ Len(AgedFrom(k)) = Len(registrationReq) - k + 1
           /\ \A i \in Range(AgedFrom(k)) : \E j \in Pending : i = Aged(j)
<1> DEFINE N == Len(registrationReq)
           a == AgedFrom(k)
<1>1. N \in Nat /\ N - k + 1 \in Nat
  OBVIOUS
<1>2. ASSUME NEW i \in 1 .. (N - k + 1)
      PROVE  /\ a[i] = Aged(registrationReq[i + k - 1])
             /\ registrationReq[i + k - 1] \in Pending
             /\ a[i] \in PendingItem
  <2>1. i + k - 1 \in 1 .. N
    BY <1>1
  <2>2. registrationReq[i + k - 1] \in PendingItem
    BY <2>1
  <2>3. registrationReq[i + k - 1] \in Pending
    BY <2>1, PlacesOfItems, Zenon DEF Pending
  <2>4. a[i] = Aged(registrationReq[i + k - 1])
    BY Zenon DEF AgedFrom
  <2> QED
    BY <2>2, <2>3, <2>4, AgedFields, Zenon
<1>3. a \in Seq(PendingItem) /\ Len(a) = N - k + 1
  <2>1. a = [i \in 1 .. (N - k + 1) |-> a[i]]
    BY Zenon DEF AgedFrom
  <2> HIDE DEF a
  <2>2. a \in [1 .. (N - k + 1) -> PendingItem]
    BY <1>2, <2>1, Zenon
  <2> QED
    BY <1>1, <2>2
<1> HIDE DEF a
<1>4. Range(a) = {a[i] : i \in 1 .. (N - k + 1)}
  BY <1>3, PlacesOfItems, Zenon
<1> QED
  BY <1>2, <1>3, <1>4, Zenon DEF a

(***************************************************************************)
(* What run_timer keeps: pending registrations a second older that have    *)
(* neither expired nor timed out.                                          *)
(***************************************************************************)
LEMMA KeptItems ==
    ASSUME registrationReq \in Seq(PendingItem),
           NEW k \in 1 .. (Len(registrationReq) + 1)
    PROVE  /\ Kept(AgedFrom(k)) \in Seq(PendingItem)
           /\ Len(Kept(AgedFrom(k))) <= Len(registrationReq) - k + 1
           /\ \A i \in Range(Kept(AgedFrom(k))) :
                /\ ~Expired(i) /\ ~TimedOut(i)
                /\ \E j \in Pending : i = Aged(j)
<1> DEFINE a == AgedFrom(k)
           S == {i \in Range(a) : ~Expired(i) /\ ~TimedOut(i)}
<1>1. /\ a \in Seq(PendingItem)
      /\ Len(a) = Len(registrationReq) - k + 1
      /\ \A i \in Range(a) : \E j \in Pending : i = Aged(j)
  BY AgedFromItems, Zenon
<1> HIDE DEF a
<1>2. /\ Retain(a, S) \in Seq(PendingItem)
      /\ Len(Retain(a, S)) <= Len(a)
      /\ Range(Retain(a, S)) = Range(a) \cap S
  <2> HIDE DEF S
  <2> QED
    BY <1>1, RetainIsDrawn, Zenon
<1>3. Kept(a) = Retain(a, S)
  BY Zenon DEF Kept
<1> QED
  BY <1>1, <1>2, <1>3, Zenon DEF a

(***************************************************************************)
(* A reply that matches finds the first registration it concerns and takes *)
(* it off the list.                                                        *)
(***************************************************************************)
LEMMA MatchedItem ==
    ASSUME registrationReq \in Seq(PendingItem), NEW r, Matches(r) # {},
           NEW i, i = Min(Matches(r))
    PROVE  /\ i \in 1 .. Len(registrationReq)
           /\ registrationReq[i] \in Pending
           /\ registrationReq[i] \in PendingItem
           /\ registrationReq[i].id = r.id
           /\ Erase(registrationReq, i) \in Seq(PendingItem)
           /\ Len(Erase(registrationReq, i)) = Len(registrationReq) - 1
           /\ Range(Erase(registrationReq, i)) \subseteq Pending
<1>1. Matches(r) \in SUBSET Nat
  BY DEF Matches
<1>2. i \in Matches(r)
  BY <1>1, MinOfSet, Zenon
<1>3. i \in 1 .. Len(registrationReq) /\ registrationReq[i].id = r.id
  BY <1>2 DEF Matches
<1>4. registrationReq[i] \in Pending /\ registrationReq[i] \in PendingItem
  BY <1>3, PlacesOfItems DEF Pending
<1>5. /\ Erase(registrationReq, i) \in Seq(PendingItem)
      /\ Len(Erase(registrationReq, i)) = Len(registrationReq) - 1
      /\ DrawnFrom(Erase(registrationReq, i), registrationReq)
  BY <1>3, EraseIsDrawn, Zenon
<1>6. Range(Erase(registrationReq, i)) \subseteq Pending
  BY <1>5, DrawnItems, Zenon DEF Pending
<1> QED
  BY <1>3, <1>4, <1>5, <1>6, Zenon

(***************************************************************************)
(* What a run of the timer leaves that stops at the registration at place  *)
(* k, because no packet could be made for the answer to it.                *)
(***************************************************************************)
AbortedAt(k) ==
    SubSeq(registrationReq, 1, k - 1) \o <<Aged(registrationReq[k])>>
      \o Kept(AgedFrom(k + 1))

(***************************************************************************)
(* What run_timer leaves when it stops early at place k: the registrations *)
(* before k as they were, the one at k a second older, and the kept ones   *)
(* behind it.                                                              *)
(***************************************************************************)
LEMMA AbortedItems ==
    ASSUME registrationReq \in Seq(PendingItem),
           NEW k \in 1 .. Len(registrationReq)
    PROVE  /\ AbortedAt(k) \in Seq(PendingItem)
           /\ Len(AbortedAt(k)) <= Len(registrationReq)
           /\ \A i \in Range(AbortedAt(k)) :
                \/ i \in Pending
                \/ i = Aged(registrationReq[k])
                \/ /\ ~Expired(i) /\ ~TimedOut(i)
                   /\ \E j \in Pending : i = Aged(j)
<1> DEFINE N == Len(registrationReq)
           a == SubSeq(registrationReq, 1, k - 1)
           b == <<Aged(registrationReq[k])>>
           c == Kept(AgedFrom(k + 1))
<1>1. N \in Nat /\ k \in 1 .. N /\ k + 1 \in 1 .. (N + 1)
  OBVIOUS
<1>2. /\ a \in Seq(PendingItem)
      /\ Len(a) = k - 1
      /\ \A j \in 1 .. (k - 1) : a[j] = registrationReq[j]
  BY <1>1
<1>3. Range(a) \subseteq Pending
  <2>1. Range(a) = {a[j] : j \in 1 .. (k - 1)}
    BY <1>2, PlacesOfItems, Zenon
  <2>2. Pending = {registrationReq[j] : j \in 1 .. N}
    BY PlacesOfItems, Zenon DEF Pending
  <2>3. \A j \in 1 .. (k - 1) : j \in 1 .. N
    BY <1>1
  <2> HIDE DEF a
  <2> QED
    BY <1>2, <2>1, <2>2, <2>3, Zenon
<1>4. /\ Aged(registrationReq[k]) \in PendingItem
      /\ b \in Seq(PendingItem)
      /\ Len(b) = 1
      /\ Range(b) = {Aged(registrationReq[k])}
  <2>1. Aged(registrationReq[k]) \in PendingItem
    BY AgedFields
  <2> QED
    BY <2>1 DEF Range
<1>5. /\ c \in Seq(PendingItem)
      /\ Len(c) <= N - (k + 1) + 1
      /\ \A i \in Range(c) : /\ ~Expired(i) /\ ~TimedOut(i)
                              /\ \E j \in Pending : i = Aged(j)
  BY <1>1, KeptItems, Zenon
<1>6. AbortedAt(k) = (a \o b) \o c
  BY Zenon DEF AbortedAt
<1> HIDE DEF a, b, c
<1>7. /\ a \o b \in Seq(PendingItem)
      /\ Len(a \o b) = k
      /\ Range(a \o b) = Range(a) \cup Range(b)
  <2>1. a \in Seq(PendingItem) /\ b \in Seq(PendingItem)
    BY <1>2, <1>4, Zenon
  <2>2. a \o b \in Seq(PendingItem) /\ Len(a \o b) = Len(a) + Len(b)
    BY <2>1
  <2>3. Range(a \o b) = Range(a) \cup Range(b)
    BY <2>1, ConcatItems
  <2> QED
    BY <1>1, <1>2, <1>4, <2>2, <2>3
<1> DEFINE d == a \o b
<1> HIDE DEF d
<1>8. /\ d \o c \in Seq(PendingItem)
      /\ Len(d \o c) <= N
      /\ Range(d \o c) = Range(d) \cup Range(c)
  <2>1. d \in Seq(PendingItem) /\ c \in Seq(PendingItem)
    BY <1>5, <1>7, Zenon DEF d
  <2>2. d \o c \in Seq(PendingItem) /\ Len(d \o c) = Len(d) + Len(c)
    BY <2>1
  <2>3. Range(d \o c) = Range(d) \cup Range(c)
    BY <2>1, ConcatItems
  <2>4. Len(d) = k /\ Len(c) \in Nat
    BY <1>7, <2>1 DEF d
  <2> QED
    BY <1>1, <1>5, <2>2, <2>3, <2>4
<1> QED
  BY <1>3, <1>4, <1>5, <1>6, <1>7, <1>8, Zenon DEF d

-----------------------------------------------------------------------------
(***************************************************************************)
(* The packets the agent makes of what it holds and receives.              *)
(***************************************************************************)
LEMMA SentTypes ==
    /\ \A p \in Requests : Relayed(p) \in Request /\ Denial(p) \in Reply
    /\ \A r \in Replies : Passed(r) \in Reply
    /\ \A i \in PendingItem : TimeoutReply(i) \in Reply
<1>1. ASSUME NEW p \in Requests
      PROVE  Relayed(p) \in Request
  BY RequestFields, ForeignAgentAssumption, Zenon
  DEF Relayed, Request, Addresses, Links
<1>2. ASSUME NEW p \in Requests
      PROVE  Denial(p) \in Reply
  <2>1. Htons(lifetimeReg % Word) \in Uint16
    <3>1. lifetimeReg % Word \in Uint16
      <4>1. ASSUME NEW a \in Nat, NEW w \in Nat, w > 0
            PROVE  a % w \in 0 .. (w - 1)
        BY <4>1
      <4>2. lifetimeReg \in Nat /\ Word \in Nat /\ Word > 0
        BY WordSize, ByteAssumption, ForeignAgentAssumption
      <4> QED
        BY <4>1, <4>2, Zenon DEF Uint16
    <3> QED
      BY <3>1, HtonsTwice, Zenon
  <2>2. validatePacket(p) \in Nat /\ ReplyType \in Nat
    BY Zenon DEF validatePacket, ReplyType
  <2> DEFINE lt == IF validatePacket(p) = 69 THEN Htons(lifetimeReg % Word)
                                             ELSE p.lifetime
  <2>3. lt \in Uint16
    BY <2>1, RequestFields, Zenon
  <2> HIDE DEF lt
  <2>4. Denial(p) = [type |-> ReplyType, whole |-> TRUE,
                     code |-> validatePacket(p), lifetime |-> lt,
                     homeAddr |-> p.homeAddr, homeAgent |-> p.homeAgent,
                     id |-> p.id, src |-> p.dst, dst |-> p.src,
                     link |-> "private"]
    BY Zenon DEF Denial, lt
  <2> QED
    BY <2>2, <2>3, <2>4, RequestFields DEF Reply, Links
<1>3. ASSUME NEW r \in Replies
      PROVE  Passed(r) \in Reply
  BY ReplyFields, ForeignAgentAssumption, Zenon
    DEF Passed, Reply, Addresses, Links
<1>4. ASSUME NEW i \in PendingItem
      PROVE  TimeoutReply(i) \in Reply
  BY Zenon DEF TimeoutReply, PendingItem, Reply, ReplyType, Addresses, Links
<1> QED
  BY <1>1, <1>2, <1>3, <1>4, Zenon

(***************************************************************************)
(* The replies run_timer makes for the registrations that timed out are    *)
(* well-formed.                                                            *)
(***************************************************************************)
LEMMA TimeoutRepliesType ==
    ASSUME registrationReq \in Seq(PendingItem),
           NEW k \in 1 .. (Len(registrationReq) + 1)
    PROVE  TimeoutReplies(AgedFrom(k)) \subseteq Reply
<1>1. /\ AgedFrom(k) \in Seq(PendingItem)
  BY AgedFromItems, Zenon
<1>2. Range(AgedFrom(k)) \subseteq PendingItem
  BY <1>1 DEF Range
<1> QED
  BY <1>2, SentTypes, Zenon DEF TimeoutReplies

(***************************************************************************)
(* Every step keeps the types.                                             *)
(***************************************************************************)
LEMMA TypeStep ==
    ASSUME TypeOK, [Next]_vars
    PROVE  TypeOK'
<1> USE DEF TypeOK
<1>1. ASSUME NEW p \in Requests, push_request(p)
      PROVE  TypeOK'
  <2>1. CASE DropRequest(p)
    BY <2>1, Zenon DEF DropRequest
  <2>2. CASE RelayRequest(p)
    <3>1. registrationReq' \in Seq(PendingItem)
      BY <2>2, NewPendingFields DEF RelayRequest
    <3>2. sent' \subseteq Request \cup Reply /\ asked' \subseteq Requests
      BY <2>2, SentTypes, Zenon DEF RelayRequest
    <3> QED
      BY <2>2, <3>1, <3>2, Zenon DEF RelayRequest
  <2>3. CASE DenyRequest(p)
    <3>1. sent' \subseteq Request \cup Reply
      BY <2>3, SentTypes, Zenon DEF DenyRequest
    <3> QED
      BY <2>3, <3>1, Zenon DEF DenyRequest
  <2> QED
    BY <1>1, <2>1, <2>2, <2>3, Zenon DEF push_request
<1>2. ASSUME NEW r \in Replies, push_reply(r)
      PROVE  TypeOK'
  <2>1. GrantedWith(r) \subseteq Replies
    BY Zenon DEF GrantedWith
  <2>2. CASE DropReply(r)
    BY <2>2, Zenon DEF DropReply
  <2>3. CASE PassMatched(r)
    <3> DEFINE i == Min(Matches(r))
               item == registrationReq[i]
    <3>1. /\ registrationReq' = Erase(registrationReq, i)
          /\ visitorMap' = IF Accepting(r)
                              THEN {v \in visitorMap : v.ipSrc # item.ipSrc}
                                     \cup {NewVisitor(item, r)}
                              ELSE visitorMap
          /\ Matches(r) # {}
      BY <2>3, Zenon DEF PassMatched
    <3>2. item \in PendingItem /\ registrationReq' \in Seq(PendingItem)
      BY <3>1, MatchedItem, Zenon
    <3>3. visitorMap' \subseteq Visitor
      <4>1. NewVisitor(item, r) \in Visitor
        BY <3>2, NewVisitorType, Zenon
      <4> HIDE DEF item
      <4> QED
        BY <3>1, <4>1, Zenon
    <3>4. sent' \subseteq Request \cup Reply
      BY <2>3, SentTypes, Zenon DEF PassMatched
    <3> QED
      BY <2>1, <2>3, <3>2, <3>3, <3>4, Zenon DEF PassMatched
  <2>4. CASE PassUnmatched(r)
    <3>1. sent' \subseteq Request \cup Reply
      BY <2>4, SentTypes, Zenon DEF PassUnmatched
    <3> QED
      BY <2>1, <2>4, <3>1, Zenon DEF PassUnmatched
  <2> QED
    BY <1>2, <2>2, <2>3, <2>4, Zenon DEF push_reply
<1>3. ASSUME NEW n \in Nodes, Decapsulate(n)
      PROVE  TypeOK'
  BY <1>3, Zenon DEF Decapsulate
<1>4. CASE run_timer
  <2>1. 1 \in 1 .. (Len(registrationReq) + 1)
    OBVIOUS
  <2>2. /\ registrationReq' \in Seq(PendingItem)
        /\ sent' \subseteq Request \cup Reply
    BY <1>4, <2>1, KeptItems, TimeoutRepliesType, Zenon DEF run_timer
  <2>3. visitorMap' \subseteq Visitor
    BY <1>4, AgedVisitorFields, Zenon DEF run_timer, VisitorsAged
  <2> QED
    BY <1>4, <2>2, <2>3, Zenon DEF run_timer
<1>5. CASE run_timer_aborted
  <2>1. PICK k \in DOMAIN registrationReq :
          /\ registrationReq' = AbortedAt(k)
          /\ sent' = TimeoutReplies(AgedFrom(k + 1))
    BY <1>5, Zenon DEF run_timer_aborted, AbortedAt
  <2>2. k \in 1 .. Len(registrationReq) /\ k + 1 \in 1 .. (Len(registrationReq) + 1)
    OBVIOUS
  <2>3. /\ registrationReq' \in Seq(PendingItem)
        /\ sent' \subseteq Request \cup Reply
    BY <2>1, <2>2, AbortedItems, TimeoutRepliesType, Zenon
  <2> QED
    BY <1>5, <2>3, Zenon DEF run_timer_aborted
<1>6. CASE Restart
  BY <1>6 DEF Restart, Forget
<1>7. CASE UNCHANGED vars
  BY <1>7, Zenon DEF vars
<1> QED
  BY <1>1, <1>2, <1>3, <1>4, <1>5, <1>6, <1>7, Zenon DEF Next, Step

(***************************************************************************)
(* The two lists and everything the agent pushes have their types, also    *)
(* when lifetimes wrap around.                                             *)
(***************************************************************************)
THEOREM ForeignAgentTypes == Spec => []TypeOK
<1>1. Init => TypeOK
  BY DEF Init, TypeOK
<1>2. TypeOK /\ [Next]_vars => TypeOK'
  BY TypeStep, Zenon
<1> QED
  BY <1>1, <1>2, PTL DEF Spec

-----------------------------------------------------------------------------
(***************************************************************************)
(* Every step keeps the bound on the pending registrations, and what it    *)
(* relays is pending afterwards.                                           *)
(***************************************************************************)
LEMMA RelayedStep ==
    ASSUME TypeOK, RelayedArePending, [Next]_vars
    PROVE  RelayedArePending'
<1> DEFINE N == Len(registrationReq)
<1>1. N \in Nat /\ N <= maxRequests /\ maxRequests \in Nat
      /\ registrationReq \in Seq(PendingItem)
  BY ForeignAgentAssumption DEF TypeOK, RelayedArePending
<1>3. ASSUME Len(registrationReq') <= maxRequests,
             \A q \in sent' : q.type = ReplyType
      PROVE  RelayedArePending'
  BY <1>3 DEF RelayedArePending, ReplyType, RequestType
<1>4. ASSUME NEW p \in Requests, push_request(p)
      PROVE  RelayedArePending'
  <2>1. CASE DropRequest(p)
    BY <1>1, <1>3, <2>1, Zenon DEF DropRequest
  <2>2. CASE DenyRequest(p)
    BY <1>1, <1>3, <2>2 DEF DenyRequest, Denial
  <2>3. CASE RelayRequest(p)
    <3>1. N # maxRequests
      BY <2>3 DEF RelayRequest, validatePacket
    <3>2. registrationReq' = Append(registrationReq, NewPending(p))
      BY <1>1, <2>3, <3>1 DEF RelayRequest
    <3>3. NewPending(p) \in PendingItem
      BY NewPendingFields, Zenon
    <3>4. Len(registrationReq') <= maxRequests
      BY <1>1, <3>1, <3>2, <3>3
    <3>5. NewPending(p) \in Pending'
      BY <1>1, <3>2, <3>3, AppendItems DEF Pending
    <3>6. NewPending(p).id = p.id /\ NewPending(p).ipSrc = p.homeAddr
      BY Zenon DEF NewPending
    <3>7. Relayed(p).id = p.id /\ Relayed(p).homeAddr = p.homeAddr
      BY RequestFields, Zenon DEF Relayed, Request
    <3>8. sent' = {Relayed(p)}
      BY <2>3, Zenon DEF RelayRequest
    <3> QED
      BY <3>4, <3>5, <3>6, <3>7, <3>8, Zenon DEF RelayedArePending
  <2> QED
    BY <1>4, <2>1, <2>2, <2>3, Zenon DEF push_request
<1>5. ASSUME NEW r \in Replies, push_reply(r)
      PROVE  RelayedArePending'
  <2>1. Passed(r).type = ReplyType
    BY ReplyFields, Zenon DEF Passed, Reply
  <2>2. CASE DropReply(r)
    BY <1>1, <1>3, <2>2, Zenon DEF DropReply
  <2>3. CASE PassUnmatched(r)
    BY <1>1, <1>3, <2>1, <2>3, Zenon DEF PassUnmatched
  <2>4. CASE PassMatched(r)
    <3>1. /\ Matches(r) # {}
          /\ registrationReq' = Erase(registrationReq, Min(Matches(r)))
          /\ sent' = {Passed(r)}
      BY <2>4, Zenon DEF PassMatched
    <3>2. Len(registrationReq') = N - 1
      BY <1>1, <3>1, MatchedItem, Zenon
    <3> QED
      BY <1>1, <1>3, <2>1, <3>1, <3>2
  <2> QED
    BY <1>5, <2>2, <2>3, <2>4 DEF push_reply
<1>6. ASSUME NEW n \in Nodes, Decapsulate(n)
      PROVE  RelayedArePending'
  BY <1>1, <1>3, <1>6, Zenon DEF Decapsulate
<1>7. \A items : \A q \in TimeoutReplies(items) : q.type = ReplyType
  BY DEF TimeoutReplies, TimeoutReply
<1>8. CASE run_timer
  <2>1. 1 \in 1 .. (N + 1) /\ N - 1 + 1 = N
    BY <1>1
  <2>2. Len(registrationReq') <= N /\ Len(registrationReq') \in Nat
    <3>1. /\ Kept(AgedFrom(1)) \in Seq(PendingItem)
          /\ Len(Kept(AgedFrom(1))) <= N - 1 + 1
      BY <1>1, <2>1, KeptItems, Zenon
    <3> QED
      BY <1>8, <2>1, <3>1 DEF run_timer
  <2> QED
    BY <1>1, <1>3, <1>7, <1>8, <2>2 DEF run_timer
<1>9. CASE run_timer_aborted
  <2>1. PICK k \in DOMAIN registrationReq :
          /\ registrationReq' = AbortedAt(k)
          /\ sent' = TimeoutReplies(AgedFrom(k + 1))
    BY <1>9, Zenon DEF run_timer_aborted, AbortedAt
  <2>2. k \in 1 .. N
    BY <1>1
  <2>3. registrationReq' \in Seq(PendingItem) /\ Len(registrationReq') <= N
    BY <1>1, <2>1, <2>2, AbortedItems, Zenon
  <2>4. Len(registrationReq') \in Nat
    BY <2>3
  <2> QED
    BY <1>1, <1>3, <1>7, <2>1, <2>3, <2>4, SMTT(20)
<1>10. CASE Restart
  BY <1>1, <1>3, <1>10 DEF Restart, Forget
<1>11. CASE UNCHANGED vars
  BY <1>11, Zenon DEF vars, RelayedArePending, Pending
<1> QED
  BY <1>4, <1>5, <1>6, <1>8, <1>9, <1>10, <1>11, Zenon DEF Next, Step

(***************************************************************************)
(* There are never more pending registrations than the agent keeps, and a  *)
(* request that it relays is remembered, so that the reply finds it.       *)
(***************************************************************************)
THEOREM RelayedRemembered == Spec => []RelayedArePending
<1>1. Init => RelayedArePending
  BY ForeignAgentAssumption DEF Init, RelayedArePending
<1>2. TypeOK /\ RelayedArePending /\ [Next]_vars => RelayedArePending'
  BY RelayedStep, Zenon
<1> QED
  BY <1>1, <1>2, ForeignAgentTypes, PTL DEF Spec

-----------------------------------------------------------------------------
(***************************************************************************)
(* Where a pending registration comes from: it was pending, or a request   *)
(* was relayed, or it is one second older than one that was pending, and   *)
(* then it is neither over nor, unless the timer has stopped, to be        *)
(* answered.                                                               *)
(***************************************************************************)
FromRequest(i) ==
    \E p \in Requests :
        p \in asked' /\ validatePacket(p) = 1 /\ i = NewPending(p)

FromAging(i) ==
    /\ scheduled
    /\ \E j \in Pending : i = Aged(j)
    /\ ~Expired(i)
    /\ scheduled' => ~TimedOut(i)

(***************************************************************************)
(* Where a pending registration comes from: it was there before, a request *)
(* was relayed, or the timer made an older one a second older.             *)
(***************************************************************************)
LEMMA PendingStep ==
    ASSUME TypeOK, [Next]_vars, NEW i \in Pending'
    PROVE  \/ i \in Pending /\ (scheduled' => scheduled)
           \/ FromRequest(i)
           \/ FromAging(i)
<1> DEFINE N == Len(registrationReq)
<1>1. N \in Nat /\ registrationReq \in Seq(PendingItem) /\ scheduled \in BOOLEAN
  BY DEF TypeOK
<1>2. CASE UNCHANGED <<registrationReq, scheduled>>
  BY <1>2, Zenon DEF Pending
<1>3. ASSUME NEW p \in Requests, RelayRequest(p)
      PROVE  (i \in Pending /\ (scheduled' => scheduled)) \/ FromRequest(i)
  <2>1. CASE registrationReq' = registrationReq
    BY <1>3, <2>1, Zenon DEF RelayRequest, Pending
  <2>2. CASE registrationReq' = Append(registrationReq, NewPending(p))
    <3>1. Pending' = Pending \cup {NewPending(p)}
      BY <1>1, <2>2, NewPendingFields, AppendItems, SMTT(20) DEF Pending
    <3> QED
      BY <1>3, <3>1, Zenon DEF RelayRequest, FromRequest
  <2> QED
    BY <1>3, <2>1, <2>2, Zenon DEF RelayRequest
<1>4. ASSUME NEW p \in Requests, push_request(p)
      PROVE  (i \in Pending /\ (scheduled' => scheduled)) \/ FromRequest(i)
  BY <1>3, <1>4, Zenon DEF push_request, DropRequest, DenyRequest, Pending
<1>5. ASSUME NEW r \in Replies, PassMatched(r)
      PROVE  i \in Pending /\ (scheduled' => scheduled)
  <2>1. /\ Matches(r) # {}
        /\ registrationReq' = Erase(registrationReq, Min(Matches(r)))
        /\ scheduled' = scheduled
    BY <1>5, Zenon DEF PassMatched
  <2>2. Pending' \subseteq Pending
    BY <1>1, <2>1, MatchedItem, Zenon DEF Pending
  <2> QED
    BY <2>1, <2>2, Zenon
<1>6. ASSUME NEW r \in Replies, push_reply(r)
      PROVE  i \in Pending /\ (scheduled' => scheduled)
  BY <1>5, <1>6 DEF push_reply, DropReply, PassUnmatched, Pending
<1>7. CASE run_timer
  <2>1. 1 \in 1 .. (N + 1)
    BY <1>1
  <2>2. i \in Range(Kept(AgedFrom(1))) /\ scheduled /\ scheduled' = scheduled
    BY <1>7, Zenon DEF run_timer, Pending
  <2> QED
    BY <1>1, <2>1, <2>2, KeptItems, Zenon DEF FromAging
<1>8. CASE run_timer_aborted
  <2>1. PICK k \in DOMAIN registrationReq :
          /\ registrationReq' = AbortedAt(k)
          /\ TimedOut(Aged(registrationReq[k]))
    BY <1>8, Zenon DEF run_timer_aborted, AbortedAt
  <2>2. scheduled /\ ~scheduled'
    BY <1>8, Zenon DEF run_timer_aborted
  <2>3. k \in 1 .. N /\ registrationReq[k] \in Pending
    BY <1>1, PlacesOfItems DEF Pending
  <2>4. i \in Range(AbortedAt(k))
    BY <2>1, Zenon DEF Pending
  <2>5. \/ i \in Pending
        \/ i = Aged(registrationReq[k])
        \/ ~Expired(i) /\ \E j \in Pending : i = Aged(j)
    BY <1>1, <2>3, <2>4, AbortedItems, Zenon
  <2>6. ~Expired(Aged(registrationReq[k]))
    BY <2>1, Zenon DEF TimedOut
  <2> QED
    BY <2>2, <2>3, <2>5, <2>6, Zenon DEF FromAging
<1>9. CASE Restart
  <2>1. registrationReq' = <<>>
    BY <1>9, Zenon DEF Restart, Forget
  <2>2. Pending' = {}
    BY <2>1 DEF Pending, Range
  <2> QED
    BY <2>2, Zenon
<1>10. ASSUME NEW n \in Nodes, Decapsulate(n)
       PROVE  UNCHANGED <<registrationReq, scheduled>>
  BY <1>10, Zenon DEF Decapsulate
<1>11. CASE UNCHANGED vars
  BY <1>2, <1>11, Zenon DEF vars
<1> QED
  BY <1>2, <1>4, <1>6, <1>7, <1>8, <1>9, <1>10, <1>11, Zenon DEF Next, Step

(***************************************************************************)
(* The wait of a pending registration in seconds.  Its raw lifetimes stand *)
(* for s seconds asked and t left, which is what makes the invariant       *)
(* inductive: the difference of the raw values is tested for equality.     *)
(***************************************************************************)
WaitsWell(i) ==
    \E s \in 0 .. (Byte - 1) :
        /\ i.lifetimeReq = Htons(s)
        /\ s # 0 => \E t \in 1 .. s :
             /\ i.lifetimeRem = Htons(t)
             /\ s - t <= ReplyWait
             /\ scheduled => s - t < ReplyWait

AllWaitWell == \A i \in Pending : WaitsWell(i)

(***************************************************************************)
(* A request that validatePacket lets through starts with its whole        *)
(* lifetime to wait.                                                       *)
(***************************************************************************)
LEMMA RelayedWaitsWell ==
    ASSUME ShortRegistrations, NEW i, FromRequest(i)
    PROVE  WaitsWell(i)'
<1>1. PICK p \in Requests : validatePacket(p) = 1 /\ i = NewPending(p)
  BY Zenon DEF FromRequest
<1>2. p.lifetime \in Uint16
  BY <1>1, RequestFields, Zenon
<1> DEFINE s == Ntohs(p.lifetime)
<1>3. s \in Uint16 /\ Htons(s) = p.lifetime
  BY <1>2, HtonsTwice, Zenon DEF Ntohs
<1>4. s \in 0 .. (Byte - 1)
  <2>1. ~(s > lifetimeReg)
    BY <1>1 DEF validatePacket
  <2> HIDE DEF s
  <2> QED
    BY <1>3, <2>1, ForeignAgentAssumption, ByteAssumption, WordSize
    DEF ShortRegistrations, Uint16
<1>5. i.lifetimeReq = p.lifetime /\ i.lifetimeRem = p.lifetime
  BY <1>1, Zenon DEF NewPending
<1> HIDE DEF s
<1>6. s # 0 => s \in 1 .. s /\ s - s <= ReplyWait /\ s - s < ReplyWait
  BY <1>4, ForeignAgentAssumption, ByteAssumption
<1> QED
  BY <1>3, <1>4, <1>5, <1>6, Zenon DEF WaitsWell

(***************************************************************************)
(* A second of run_timer takes one second from the lifetime of what it     *)
(* keeps.                                                                  *)
(***************************************************************************)
LEMMA AgedWaitsWell ==
    ASSUME TypeOK, AllWaitWell, NEW i, FromAging(i)
    PROVE  WaitsWell(i)'
<1>1. PICK j \in Pending : i = Aged(j)
  BY Zenon DEF FromAging
<1>2. j \in PendingItem
  BY DEF TypeOK, Pending, Range
<1>3. /\ i.lifetimeReq = j.lifetimeReq
      /\ i.lifetimeRem = OneSecondLess(j.lifetimeRem)
  BY <1>1, <1>2, AgedFields, Zenon
<1>4. PICK s \in 0 .. (Byte - 1) :
        /\ j.lifetimeReq = Htons(s)
        /\ s # 0 => \E t \in 1 .. s :
             /\ j.lifetimeRem = Htons(t)
             /\ s - t < ReplyWait
  BY <1>1, Zenon DEF AllWaitWell, WaitsWell, FromAging
<1>5. CASE s = 0
  BY <1>3, <1>4, <1>5, Zenon DEF WaitsWell
<1>6. CASE s # 0
  <2>1. PICK t \in 1 .. s : j.lifetimeRem = Htons(t) /\ s - t < ReplyWait
    BY <1>4, <1>6, Zenon
  <2>2. t \in 1 .. (Byte - 1) /\ t - 1 \in 0 .. s /\ t - 1 \in 0 .. (Byte - 1)
    BY ByteAssumption
  <2>3. i.lifetimeRem = Htons(t - 1)
    BY <1>3, <2>1, <2>2, OneSecondLessOfHtons, Zenon
  <2>4. t - 1 # 0
    BY <2>2, <2>3, HtonsRange, Zenon DEF FromAging, Expired
  <2>5. s - (t - 1) <= ReplyWait
    BY <2>1, ForeignAgentAssumption, ByteAssumption
  <2>6. scheduled' => s - (t - 1) # ReplyWait
    <3> SUFFICES ASSUME scheduled', s - (t - 1) = ReplyWait
                 PROVE  FALSE
      BY Zenon
    <3>1. i.lifetimeReq - i.lifetimeRem = Htons(ReplyWait)
      BY <1>3, <1>4, <2>2, <2>3, HtonsDifference, SMTT(20)
    <3> QED
      BY <3>1, Zenon DEF FromAging, TimedOut
  <2>7. t - 1 \in 1 .. s /\ (scheduled' => s - (t - 1) < ReplyWait)
    BY <2>2, <2>4, <2>5, <2>6, ForeignAgentAssumption, ByteAssumption
  <2> QED
    BY <1>3, <1>4, <2>3, <2>5, <2>7, Zenon DEF WaitsWell
<1> QED
  BY <1>5, <1>6, Zenon

(***************************************************************************)
(* Every step keeps the remaining lifetimes of all pending registrations   *)
(* in step with the seconds they have waited.                              *)
(***************************************************************************)
LEMMA WaitStep ==
    ASSUME ShortRegistrations, TypeOK, AllWaitWell, [Next]_vars
    PROVE  AllWaitWell'
<1> SUFFICES ASSUME NEW i \in Pending'
             PROVE  WaitsWell(i)'
  BY Zenon DEF AllWaitWell
<1>1. CASE i \in Pending /\ (scheduled' => scheduled)
  BY <1>1, Zenon DEF AllWaitWell, WaitsWell
<1> QED
  BY <1>1, PendingStep, RelayedWaitsWell, AgedWaitsWell, Zenon

(***************************************************************************)
(* When the agent advertises registrations of less than a byte of seconds, *)
(* no pending registration is ever past the moment at which run_timer      *)
(* answers it: its test for equality is not stepped over.                  *)
(***************************************************************************)
THEOREM WaitIsBounded == ShortRegistrations => (Spec => []WaitBounded)
<1> SUFFICES ASSUME ShortRegistrations
             PROVE  Spec => []WaitBounded
  BY Zenon
<1>1. Init => AllWaitWell
  BY DEF Init, AllWaitWell, Pending, Range
<1>2. TypeOK /\ AllWaitWell /\ [Next]_vars => AllWaitWell'
  BY WaitStep, Zenon
<1>3. TypeOK /\ AllWaitWell => WaitBounded
  <2> SUFFICES ASSUME TypeOK, AllWaitWell, NEW i \in Pending, i.lifetimeReq # 0
               PROVE  /\ i.lifetimeRem # 0
                      /\ Waited(i) >= 0
                      /\ Waited(i) <= ReplyWait
                      /\ scheduled => Waited(i) < ReplyWait
    BY Zenon DEF WaitBounded
  <2>1. PICK s \in 0 .. (Byte - 1) :
          /\ i.lifetimeReq = Htons(s)
          /\ s # 0 => \E t \in 1 .. s :
               /\ i.lifetimeRem = Htons(t)
               /\ s - t <= ReplyWait
               /\ scheduled => s - t < ReplyWait
    BY Zenon DEF AllWaitWell, WaitsWell
  <2>2. s # 0
    BY <2>1, HtonsRange, Zenon
  <2>3. PICK t \in 1 .. s :
          /\ i.lifetimeRem = Htons(t)
          /\ s - t <= ReplyWait
          /\ scheduled => s - t < ReplyWait
    BY <2>1, <2>2, Zenon
  <2>4. t \in 0 .. (Byte - 1) /\ t # 0
    BY ByteAssumption
  <2>5. Waited(i) = s - t
    BY <2>1, <2>3, <2>4, NtohsOfHtons, Zenon DEF Waited
  <2>6. i.lifetimeRem # 0
    BY <2>3, <2>4, HtonsRange, Zenon
  <2>7. s - t >= 0
    BY ByteAssumption
  <2> QED
    BY <2>3, <2>5, <2>6, <2>7, Zenon
<1> QED
  BY <1>1, <1>2, <1>3, ForeignAgentTypes, PTL DEF Spec

-----------------------------------------------------------------------------
(***************************************************************************)
(* Every pending registration is of a request that the agent has relayed.  *)
(***************************************************************************)
AskedBy(p, i) ==
    /\ p.id = i.id /\ p.homeAddr = i.ipSrc /\ p.homeAgent = i.homeAgent
    /\ p.lifetime = i.lifetimeReq
    /\ Ntohs(p.lifetime) <= lifetimeReg

PendingAsked == \A i \in Pending : \E p \in asked : AskedBy(p, i)

(***************************************************************************)
(* What was relayed stays relayed.                                         *)
(***************************************************************************)
LEMMA AskedGrows ==
    ASSUME [Next]_vars
    PROVE  asked \subseteq asked'
<1>1. ASSUME NEW p \in Requests, push_request(p)
      PROVE  asked \subseteq asked'
  BY <1>1, Zenon DEF push_request, DropRequest, RelayRequest, DenyRequest
<1>2. ASSUME NEW r \in Replies, push_reply(r)
      PROVE  asked \subseteq asked'
  BY <1>2, Zenon DEF push_reply, DropReply, PassMatched, PassUnmatched
<1>3. CASE run_timer \/ run_timer_aborted \/ Restart
  BY <1>3, Zenon DEF run_timer, run_timer_aborted, Restart
<1>4. CASE UNCHANGED vars \/ \E n \in Nodes : Decapsulate(n)
  BY <1>4, Zenon DEF vars, Decapsulate
<1> QED
  BY <1>1, <1>2, <1>3, <1>4, Zenon DEF Next, Step

(***************************************************************************)
(* Every pending registration goes back to a request that asked for it,    *)
(* before and after each step.                                             *)
(***************************************************************************)
LEMMA PendingAskedStep ==
    ASSUME TypeOK, PendingAsked, [Next]_vars
    PROVE  PendingAsked'
<1> SUFFICES ASSUME NEW i \in Pending'
             PROVE  \E p \in asked' : AskedBy(p, i)
  BY Zenon DEF PendingAsked, AskedBy
<1>1. CASE i \in Pending
  BY <1>1, AskedGrows, Zenon DEF PendingAsked
<1>2. CASE FromRequest(i)
  <2>1. PICK p \in Requests :
          p \in asked' /\ validatePacket(p) = 1 /\ i = NewPending(p)
    BY <1>2, Zenon DEF FromRequest
  <2>2. ~(Ntohs(p.lifetime) > lifetimeReg)
    BY <2>1 DEF validatePacket
  <2>3. Ntohs(p.lifetime) \in Int
    BY RequestFields, HtonsTwice DEF Ntohs, Uint16
  <2> DEFINE s == Ntohs(p.lifetime)
  <2>4. s <= lifetimeReg
    <3> HIDE DEF s
    <3> QED
      BY <2>2, <2>3, ForeignAgentAssumption DEF s
  <2>5. /\ i.id = p.id /\ i.ipSrc = p.homeAddr /\ i.homeAgent = p.homeAgent
        /\ i.lifetimeReq = p.lifetime
    BY <2>1, Zenon DEF NewPending
  <2> QED
    BY <2>1, <2>4, <2>5, Zenon DEF AskedBy
<1>3. CASE FromAging(i)
  <2>1. PICK j \in Pending : i = Aged(j)
    BY <1>3, Zenon DEF FromAging
  <2>2. j \in PendingItem
    BY DEF TypeOK, Pending, Range
  <2>3. /\ i.id = j.id /\ i.ipSrc = j.ipSrc /\ i.homeAgent = j.homeAgent
        /\ i.lifetimeReq = j.lifetimeReq
    BY <2>1, <2>2, AgedFields, Zenon
  <2> QED
    BY <2>3, AskedGrows, Zenon DEF PendingAsked, AskedBy
<1> QED
  BY <1>1, <1>2, <1>3, PendingStep, Zenon

(***************************************************************************)
(* The lifetimes of visitors stay below one byte, where what is left is    *)
(* counted down in seconds: this makes VisitorsAuthorised inductive.       *)
(***************************************************************************)
VisitorsCounted ==
    \A v \in visitorMap :
        /\ v.lifetimeRem \in ByteLifetimes
        /\ \E p \in asked, r \in granted : Authorises(p, r, v)

(***************************************************************************)
(* The smaller of two raw lifetimes stands for the smaller number of       *)
(* seconds when both fit in one byte.                                      *)
(***************************************************************************)
LEMMA GrantedIsSmaller ==
    ASSUME NEW i, NEW r, i.lifetimeReq \in ByteLifetimes,
           r.lifetime \in ByteLifetimes
    PROVE  /\ GrantedLifetime(i, r) \in ByteLifetimes
           /\ Ntohs(GrantedLifetime(i, r)) <= Ntohs(i.lifetimeReq)
           /\ Ntohs(GrantedLifetime(i, r)) <= Ntohs(r.lifetime)
<1>1. PICK s \in 0 .. (Byte - 1) : i.lifetimeReq = Htons(s)
  BY Zenon DEF ByteLifetimes
<1>2. PICK u \in 0 .. (Byte - 1) : r.lifetime = Htons(u)
  BY Zenon DEF ByteLifetimes
<1>3. GrantedLifetime(i, r) = IF s < u THEN Htons(s) ELSE Htons(u)
  BY <1>1, <1>2, HtonsOrder DEF GrantedLifetime
<1>4. Ntohs(i.lifetimeReq) = s /\ Ntohs(r.lifetime) = u
  BY <1>1, <1>2, NtohsOfHtons, Zenon
<1>5. CASE s < u
  BY <1>1, <1>3, <1>4, <1>5, ByteAssumption DEF ByteLifetimes
<1>6. CASE ~(s < u)
  BY <1>2, <1>3, <1>4, <1>6, ByteAssumption, SMTT(20) DEF ByteLifetimes
<1> QED
  BY <1>5, <1>6, Zenon

(***************************************************************************)
(* The visitor a granting reply makes is covered by the request and by     *)
(* that reply: it is given no more time than both allow.                   *)
(***************************************************************************)
LEMMA AcceptedIsAuthorised ==
    ASSUME ShortRegistrations, ShortGrants, NEW i \in PendingItem,
           NEW p \in Requests, AskedBy(p, i),
           NEW r \in Replies, Accepting(r), i.id = r.id
    PROVE  /\ NewVisitor(i, r).lifetimeRem \in ByteLifetimes
           /\ Authorises(p, r, NewVisitor(i, r))
<1>1. p.lifetime \in ByteLifetimes
  <2> DEFINE s == Ntohs(p.lifetime)
  <2>1. s \in Uint16 /\ Htons(s) = p.lifetime
    BY RequestFields, HtonsTwice, Zenon DEF Ntohs
  <2>2. s <= lifetimeReg
    BY Zenon DEF AskedBy
  <2> HIDE DEF s
  <2>3. s \in 0 .. (Byte - 1)
    BY <2>1, <2>2, ForeignAgentAssumption, ByteAssumption, WordSize
    DEF ShortRegistrations, Uint16
  <2> QED
    BY <2>1, <2>3, Zenon DEF ByteLifetimes
<1>2. i.lifetimeReq = p.lifetime
  BY Zenon DEF AskedBy
<1>3. /\ GrantedLifetime(i, r) \in ByteLifetimes
      /\ Ntohs(GrantedLifetime(i, r)) <= Ntohs(p.lifetime)
      /\ Ntohs(GrantedLifetime(i, r)) <= Ntohs(r.lifetime)
  BY <1>1, <1>2, GrantedIsSmaller, Zenon DEF ShortGrants
<1>4. /\ NewVisitor(i, r).lifetimeRem = GrantedLifetime(i, r)
      /\ NewVisitor(i, r).id = i.id
      /\ NewVisitor(i, r).ipSrc = i.ipSrc
      /\ NewVisitor(i, r).homeAgent = i.homeAgent
  BY Zenon DEF NewVisitor
<1> QED
  BY <1>3, <1>4, Zenon DEF AskedBy, Authorises

(***************************************************************************)
(* A visitor that is a second older is still covered by the same request   *)
(* and reply.                                                              *)
(***************************************************************************)
LEMMA AgedStaysAuthorised ==
    ASSUME NEW v \in Visitor, v.lifetimeRem \in ByteLifetimes,
           v.lifetimeRem # 0, NEW p \in Requests, NEW r \in Replies,
           Authorises(p, r, v),
           NEW w, w = [v EXCEPT !.lifetimeRem = OneSecondLess(@)]
    PROVE  w.lifetimeRem \in ByteLifetimes /\ Authorises(p, r, w)
<1>1. PICK t \in 0 .. (Byte - 1) : v.lifetimeRem = Htons(t)
  BY Zenon DEF ByteLifetimes
<1>2. t \in 1 .. (Byte - 1) /\ t - 1 \in 0 .. (Byte - 1)
  BY <1>1, HtonsRange, ByteAssumption
<1>3. /\ w.lifetimeRem = OneSecondLess(v.lifetimeRem)
      /\ w.id = v.id /\ w.ipSrc = v.ipSrc /\ w.homeAgent = v.homeAgent
  BY AgedVisitorFields, Zenon
<1>4. w.lifetimeRem = Htons(t - 1)
  BY <1>1, <1>2, <1>3, OneSecondLessOfHtons, Zenon
<1>5. Ntohs(w.lifetimeRem) = t - 1 /\ Ntohs(v.lifetimeRem) = t
  BY <1>1, <1>2, <1>4, NtohsOfHtons, Zenon
<1>6. Ntohs(p.lifetime) \in Int /\ Ntohs(r.lifetime) \in Int
  BY RequestFields, ReplyFields, HtonsTwice DEF Ntohs, Uint16
<1>7. /\ t - 1 <= Ntohs(p.lifetime)
      /\ t - 1 <= Ntohs(r.lifetime)
  <2>1. t <= Ntohs(p.lifetime) /\ t <= Ntohs(r.lifetime)
    BY <1>5, Zenon DEF Authorises
  <2>2. \A x \in Int : t <= x => t - 1 <= x
    BY <1>2
  <2> QED
    BY <1>6, <2>1, <2>2, Zenon
<1>8. w.lifetimeRem \in ByteLifetimes
  BY <1>2, <1>4, Zenon DEF ByteLifetimes
<1> QED
  BY <1>3, <1>5, <1>7, <1>8, Zenon DEF Authorises

(***************************************************************************)
(* Every step keeps the visitors covered and their lifetimes below a byte  *)
(* of seconds.                                                             *)
(***************************************************************************)
LEMMA VisitorsCountedStep ==
    ASSUME ShortRegistrations, ShortGrants, TypeOK, PendingAsked,
           VisitorsCounted, [Next]_vars
    PROVE  VisitorsCounted'
<1> USE AskedGrows
<1>1. ASSUME visitorMap' \subseteq visitorMap, granted \subseteq granted'
      PROVE  VisitorsCounted'
  BY <1>1, Zenon DEF VisitorsCounted, Authorises
<1>2. ASSUME NEW p \in Requests, push_request(p)
      PROVE  VisitorsCounted'
  BY <1>1, <1>2, Zenon DEF push_request, DropRequest, RelayRequest, DenyRequest
<1>3. ASSUME NEW r \in Replies, PassMatched(r)
      PROVE  VisitorsCounted'
  <2> DEFINE k == Min(Matches(r))
             item == registrationReq[k]
  <2>1. /\ Matches(r) # {}
        /\ visitorMap' = IF Accepting(r)
                            THEN {v \in visitorMap : v.ipSrc # item.ipSrc}
                                   \cup {NewVisitor(item, r)}
                            ELSE visitorMap
        /\ granted' = GrantedWith(r)
    BY <1>3, Zenon DEF PassMatched
  <2>2. granted \subseteq granted'
    BY <2>1, Zenon DEF GrantedWith
  <2>3. /\ item \in Pending
        /\ item \in PendingItem
        /\ item.id = r.id
    BY <2>1, MatchedItem, Zenon DEF TypeOK
  <2> HIDE DEF item
  <2>4. CASE ~Accepting(r)
    BY <1>1, <2>1, <2>2, <2>4, Zenon
  <2>5. CASE Accepting(r)
    <3>1. r \in granted'
      BY <2>1, <2>5, Zenon DEF GrantedWith
    <3>2. PICK p \in asked : AskedBy(p, item)
      BY <2>3, Zenon DEF PendingAsked
    <3>3. /\ NewVisitor(item, r).lifetimeRem \in ByteLifetimes
          /\ Authorises(p, r, NewVisitor(item, r))
      BY <2>3, <2>5, <3>2, AcceptedIsAuthorised, Zenon DEF TypeOK
    <3>4. ASSUME NEW v \in visitorMap'
          PROVE  v \in visitorMap \/ v = NewVisitor(item, r)
      BY <2>1, <2>5, Zenon
    <3> QED
      BY <2>2, <3>1, <3>3, <3>4, Zenon DEF VisitorsCounted, Authorises
  <2> QED
    BY <2>4, <2>5, Zenon
<1>4. ASSUME NEW r \in Replies, push_reply(r)
      PROVE  VisitorsCounted'
  BY <1>1, <1>3, <1>4, Zenon
    DEF push_reply, DropReply, PassUnmatched, GrantedWith
<1>5. CASE run_timer
  <2>1. granted' = granted
    BY <1>5, Zenon DEF run_timer
  <2>2. ASSUME NEW w \in visitorMap'
        PROVE  /\ w.lifetimeRem \in ByteLifetimes
               /\ \E p \in asked, r \in granted : Authorises(p, r, w)
    <3>1. PICK v \in visitorMap :
            /\ v.lifetimeRem # 0
            /\ w = [v EXCEPT !.lifetimeRem = OneSecondLess(@)]
      BY <1>5, Zenon DEF run_timer, VisitorsAged
    <3>2. v \in Visitor /\ v.lifetimeRem \in ByteLifetimes
      BY Zenon DEF TypeOK, VisitorsCounted
    <3>3. PICK p \in asked, r \in granted : Authorises(p, r, v)
      BY Zenon DEF VisitorsCounted
    <3>4. p \in Requests /\ r \in Replies
      BY Zenon DEF TypeOK
    <3> QED
      BY <3>1, <3>2, <3>3, <3>4, AgedStaysAuthorised, Zenon
  <2> QED
    BY <2>1, <2>2, Zenon DEF VisitorsCounted, Authorises
<1>6. CASE run_timer_aborted
  BY <1>1, <1>6, Zenon DEF run_timer_aborted
<1>7. ASSUME NEW n \in Nodes, Decapsulate(n)
      PROVE  VisitorsCounted'
  BY <1>1, <1>7, Zenon DEF Decapsulate
<1>8. CASE Restart
  BY <1>8, Zenon DEF Restart, Forget, VisitorsCounted
<1>9. CASE UNCHANGED vars
  BY <1>1, <1>9, Zenon DEF vars
<1> QED
  BY <1>2, <1>4, <1>5, <1>6, <1>7, <1>8, <1>9, Zenon DEF Next, Step

(***************************************************************************)
(* With registrations and grants of less than a byte of seconds, a request *)
(* of every visitor was relayed and accepted by its home agent, and the    *)
(* visitor has no more seconds left than the request and the reply allow,  *)
(* in whatever order they come and however often.                          *)
(***************************************************************************)
THEOREM VisitorsAreAuthorised ==
    ShortRegistrations /\ ShortGrants => (Spec => []VisitorsAuthorised)
<1> SUFFICES ASSUME ShortRegistrations, ShortGrants
             PROVE  Spec => []VisitorsAuthorised
  BY Zenon
<1>1. Init => PendingAsked /\ VisitorsCounted
  BY DEF Init, PendingAsked, VisitorsCounted, Pending, Range
<1>2. TypeOK /\ PendingAsked /\ VisitorsCounted /\ [Next]_vars
        => (PendingAsked /\ VisitorsCounted)'
  BY PendingAskedStep, VisitorsCountedStep, Zenon
<1>3. VisitorsCounted => VisitorsAuthorised
  BY Zenon DEF VisitorsCounted, VisitorsAuthorised
<1> QED
  BY <1>1, <1>2, <1>3, ForeignAgentTypes, PTL DEF Spec
=============================================================================
