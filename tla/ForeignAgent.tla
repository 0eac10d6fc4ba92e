---------------------------- MODULE ForeignAgent ----------------------------
(***************************************************************************)
(* The foreign agent: the elements ForeignAgentReqProcess,                 *)
(* ForeignAgentReplyProcess and IpDecap over the pending registrations and *)
(* the visitors of AgentBase.  A step is one call of push or run_timer,    *)
(* which Click runs to completion.                                         *)
(***************************************************************************)
EXTENDS Packets, Lists

CONSTANTS PublicAddr,     \* the agent's address in the public network
          PrivateAddr,    \* the agent's address in the visited network
          Incoming,       \* the requests and replies the network may
                          \* deliver, in any order and any number of times
          lifetimeReg,    \* LFREG: the longest registration, in seconds
          maxRequests,    \* pending registrations the agent keeps (5)
          ReplyWait,      \* seconds it waits for a reply (7)
          AllocMayFail    \* whether Packet::make may return no packet

Requests == {p \in Incoming : p.type = RequestType}

Replies == {r \in Incoming : r.type = ReplyType}

ASSUME ForeignAgentAssumption ==
    /\ PublicAddr \in Hosts
    /\ PrivateAddr \in Hosts
    /\ Requests \subseteq Request
    /\ Replies \subseteq Reply
    /\ lifetimeReg \in Nat
    /\ maxRequests \in Nat
    /\ ReplyWait \in 1 .. (Byte - 1)
    /\ AllocMayFail \in BOOLEAN

VARIABLES registrationReq,   \* AgentBase::registrationReq, the pending ones
          visitorMap,        \* AgentBase::visitorMap, whose order and
                             \* multiplicity nothing observes
          scheduled,         \* whether the one-second timer is scheduled
          sent,              \* the packets the last step pushed
          delivered,         \* the visitors the last step handed a datagram
          asked,             \* the requests ever relayed: a reply does not
                             \* come before its request went out
          granted            \* the accepting replies received since the start

vars == <<registrationReq, visitorMap, scheduled, sent, delivered, asked,
          granted>>

(***************************************************************************)
(* A listItem.  The fields of a visitor that nothing reads are left out.   *)
(***************************************************************************)
PendingItem ==
    [ipSrc : Nodes, ipDst : Addresses, homeAgent : Hosts, id : Ids,
     lifetimeReq : Uint16, lifetimeRem : Uint16]

Visitor ==
    [ipSrc : Nodes, homeAgent : Hosts, id : Ids,
     lifetimeReq : Uint16, lifetimeRem : Uint16]

Pending == Range(registrationReq)

inMapNode(n) == \E v \in visitorMap : v.ipSrc = n

-----------------------------------------------------------------------------
(***************************************************************************)
(* Slip: a full list is not noticed before the request is relayed.         *)
(***************************************************************************)
validatePacketUnbounded(p) ==
    IF Ntohs(p.lifetime) > lifetimeReg THEN 69
    ELSE IF {0, 2} \cap p.flags # {} THEN 70
    ELSE IF {3, 4} \cap p.flags # {} THEN 72
    ELSE 1

(***************************************************************************)
(* ForeignAgentReqProcess::validatePacket.  1 stands for "relay it".       *)
(***************************************************************************)
validatePacket(p) ==
    IF Ntohs(p.lifetime) > lifetimeReg THEN 69
    ELSE IF {0, 2} \cap p.flags # {} THEN 70
    ELSE IF {3, 4} \cap p.flags # {} THEN 72
    ELSE IF Len(registrationReq) = maxRequests THEN 66
    ELSE 1

NewPending(p) ==
    [ipSrc |-> p.homeAddr, ipDst |-> p.dst, homeAgent |-> p.homeAgent,
     id |-> p.id, lifetimeReq |-> p.lifetime, lifetimeRem |-> p.lifetime]

Relayed(p) ==
    [p EXCEPT !.src = PublicAddr, !.dst = p.homeAgent, !.link = "public"]

Denial(p) ==
    [type |-> ReplyType, whole |-> TRUE, code |-> validatePacket(p),
     lifetime |-> IF validatePacket(p) = 69 THEN Htons(lifetimeReg % Word)
                                            ELSE p.lifetime,
     homeAddr |-> p.homeAddr, homeAgent |-> p.homeAgent, id |-> p.id,
     src |-> p.dst, dst |-> p.src, link |-> "private"]

(***************************************************************************)
(* ForeignAgentReqProcess::push.                                           *)
(***************************************************************************)
DropRequest(p) ==
    /\ ~p.whole \/ (validatePacket(p) # 1 /\ AllocMayFail)
    /\ sent' = {}
    /\ delivered' = {}
    /\ UNCHANGED <<registrationReq, visitorMap, scheduled, asked, granted>>

RelayRequest(p) ==
    /\ p.whole
    /\ validatePacket(p) = 1
    /\ registrationReq' = IF Len(registrationReq) < maxRequests
                            THEN Append(registrationReq, NewPending(p))
                            ELSE registrationReq
    /\ sent' = {Relayed(p)}
    /\ delivered' = {}
    /\ asked' = asked \cup {p}
    /\ UNCHANGED <<visitorMap, scheduled, granted>>

DenyRequest(p) ==
    /\ p.whole
    /\ validatePacket(p) # 1
    /\ sent' = {Denial(p)}
    /\ delivered' = {}
    /\ UNCHANGED <<registrationReq, visitorMap, scheduled, asked, granted>>

push_request(p) == DropRequest(p) \/ RelayRequest(p) \/ DenyRequest(p)

-----------------------------------------------------------------------------
(***************************************************************************)
(* ForeignAgentReplyProcess::push.  The first pending registration with    *)
(* the identification of the reply is erased; an accepting reply enters    *)
(* the node as a visitor.  The reply is passed on in every case.           *)
(***************************************************************************)
Accepting(r) == r.code \in {0, 1}

GrantedWith(r) == IF Accepting(r) THEN granted \cup {r} ELSE granted

Matches(r) == {i \in DOMAIN registrationReq : registrationReq[i].id = r.id}

(***************************************************************************)
(* Slip: the lifetime of the reply is ignored.                             *)
(***************************************************************************)
RequestedLifetime(item, r) == item.lifetimeReq

(***************************************************************************)
(* The smaller of two raw lifetimes, in the order of uint16_t.             *)
(***************************************************************************)
GrantedLifetime(item, r) ==
    IF item.lifetimeReq < r.lifetime THEN item.lifetimeReq ELSE r.lifetime

NewVisitor(item, r) ==
    [ipSrc |-> item.ipSrc, homeAgent |-> item.homeAgent, id |-> item.id,
     lifetimeReq |-> GrantedLifetime(item, r),
     lifetimeRem |-> GrantedLifetime(item, r)]

Passed(r) ==
    [r EXCEPT !.src = PrivateAddr, !.dst = r.homeAddr, !.link = "private"]

DropReply(r) ==
    /\ ~r.whole
    /\ sent' = {}
    /\ delivered' = {}
    /\ UNCHANGED <<registrationReq, visitorMap, scheduled, asked, granted>>

(***************************************************************************)
(* Slips: a node that is a visitor already is not entered again, and an    *)
(* earlier entry of the node stays in the visitor list.                    *)
(***************************************************************************)
PassMatchedOnce(r) ==
    /\ r.whole
    /\ Matches(r) # {}
    /\ LET i == Min(Matches(r))
           item == registrationReq[i]
       IN  /\ registrationReq' = Erase(registrationReq, i)
           /\ visitorMap' = IF Accepting(r) /\ ~inMapNode(item.ipSrc)
                              THEN visitorMap \cup {NewVisitor(item, r)}
                              ELSE visitorMap
    /\ sent' = {Passed(r)}
    /\ delivered' = {}
    /\ granted' = GrantedWith(r)
    /\ UNCHANGED <<scheduled, asked>>

PassMatchedAppending(r) ==
    /\ r.whole
    /\ Matches(r) # {}
    /\ LET i == Min(Matches(r))
           item == registrationReq[i]
       IN  /\ registrationReq' = Erase(registrationReq, i)
           /\ visitorMap' = IF Accepting(r)
                              THEN visitorMap \cup {NewVisitor(item, r)}
                              ELSE visitorMap
    /\ sent' = {Passed(r)}
    /\ delivered' = {}
    /\ granted' = GrantedWith(r)
    /\ UNCHANGED <<scheduled, asked>>

PassMatched(r) ==
    /\ r.whole
    /\ Matches(r) # {}
    /\ LET i == Min(Matches(r))
           item == registrationReq[i]
       IN  /\ registrationReq' = Erase(registrationReq, i)
           /\ visitorMap' =
                IF Accepting(r)
                  THEN {v \in visitorMap : v.ipSrc # item.ipSrc}
                         \cup {NewVisitor(item, r)}
                  ELSE visitorMap
    /\ sent' = {Passed(r)}
    /\ delivered' = {}
    /\ granted' = GrantedWith(r)
    /\ UNCHANGED <<scheduled, asked>>

PassUnmatched(r) ==
    /\ r.whole
    /\ Matches(r) = {}
    /\ sent' = {Passed(r)}
    /\ delivered' = {}
    /\ granted' = GrantedWith(r)
    /\ UNCHANGED <<registrationReq, visitorMap, scheduled, asked>>

push_reply(r) == DropReply(r) \/ PassMatched(r) \/ PassUnmatched(r)

-----------------------------------------------------------------------------
(***************************************************************************)
(* ForeignAgentReqProcess::run_timer walks the pending registrations from  *)
(* the last to the first.  The difference it tests is one of ints, so it   *)
(* does not wrap.                                                          *)
(***************************************************************************)
Aged(item) == [item EXCEPT !.lifetimeRem = OneSecondLess(@)]

(***************************************************************************)
(* Slip: only the wait for the reply ends a pending registration.          *)
(***************************************************************************)
NeverExpired(item) == FALSE

Expired(item) == item.lifetimeRem = 0

(***************************************************************************)
(* Slip: off by one second.                                                *)
(***************************************************************************)
TimedOutLate(item) ==
    /\ ~Expired(item)
    /\ item.lifetimeReq - item.lifetimeRem = Htons(ReplyWait + 1)

TimedOut(item) ==
    /\ ~Expired(item)
    /\ item.lifetimeReq - item.lifetimeRem = Htons(ReplyWait)

TimeoutReply(item) ==
    [type |-> ReplyType, whole |-> TRUE, code |-> 78,
     lifetime |-> item.lifetimeReq, homeAddr |-> item.ipSrc,
     homeAgent |-> item.homeAgent, id |-> item.id,
     src |-> item.ipDst, dst |-> item.ipSrc, link |-> "private"]

(***************************************************************************)
(* The pending registrations from position k on, one second later, and     *)
(* those of them that stay.                                                *)
(***************************************************************************)
AgedFrom(k) ==
    [i \in 1 .. (Len(registrationReq) - k + 1) |->
       Aged(registrationReq[i + k - 1])]

Kept(items) ==
    Retain(items, {i \in Range(items) : ~Expired(i) /\ ~TimedOut(i)})

TimeoutReplies(items) ==
    {TimeoutReply(i) : i \in {j \in Range(items) : TimedOut(j)}}

(***************************************************************************)
(* Slips: a signed test for what is left, and no test at all.              *)
(***************************************************************************)
VisitorsAgedSigned ==
    {[v EXCEPT !.lifetimeRem = @ - Htons(1)] :
       v \in {w \in visitorMap : w.lifetimeRem >= 0}}

VisitorsAgedOnly ==
    {[v EXCEPT !.lifetimeRem = OneSecondLess(@)] : v \in visitorMap}

VisitorsAged ==
    {[v EXCEPT !.lifetimeRem = OneSecondLess(@)] :
       v \in {w \in visitorMap : w.lifetimeRem # 0}}

run_timer ==
    /\ scheduled
    /\ registrationReq' = Kept(AgedFrom(1))
    /\ visitorMap' = VisitorsAged
    /\ sent' = TimeoutReplies(AgedFrom(1))
    /\ delivered' = {}
    /\ UNCHANGED <<scheduled, asked, granted>>

(***************************************************************************)
(* No packet can be made for the reply to the registration at position k:  *)
(* run_timer returns on the spot, the registrations before k and the       *)
(* visitors are not aged, and the timer is not scheduled again.            *)
(***************************************************************************)
run_timer_aborted ==
    /\ scheduled
    /\ AllocMayFail
    /\ \E k \in DOMAIN registrationReq :
         /\ TimedOut(Aged(registrationReq[k]))
         /\ registrationReq' = SubSeq(registrationReq, 1, k - 1)
                                 \o <<Aged(registrationReq[k])>>
                                 \o Kept(AgedFrom(k + 1))
         /\ sent' = TimeoutReplies(AgedFrom(k + 1))
    /\ delivered' = {}
    /\ scheduled' = FALSE
    /\ UNCHANGED <<visitorMap, asked, granted>>

(***************************************************************************)
(* IpDecap::push for an IP-in-IP packet that carries a datagram for n: a   *)
(* visitor gets it, otherwise it goes to the host, which drops it.         *)
(***************************************************************************)
Decapsulate(n) ==
    /\ delivered' = IF inMapNode(n) THEN {n} ELSE {}
    /\ sent' = {}
    /\ UNCHANGED <<registrationReq, visitorMap, scheduled, asked, granted>>

-----------------------------------------------------------------------------
Init ==
    /\ registrationReq = <<>>
    /\ visitorMap = {}
    /\ scheduled = TRUE
    /\ sent = {}
    /\ delivered = {}
    /\ asked = {}
    /\ granted = {}

(***************************************************************************)
(* The process is started again: nothing is persisted.                     *)
(***************************************************************************)
Forget ==
    /\ registrationReq' = <<>>
    /\ visitorMap' = {}
    /\ scheduled' = TRUE
    /\ sent' = {}
    /\ delivered' = {}

Restart == Forget /\ granted' = {} /\ UNCHANGED asked

Step ==
    \/ \E p \in Requests : MobileIPFilter(PublicAddr, p) = 3 /\ push_request(p)
    \/ \E r \in Replies : /\ r.id \in {p.id : p \in asked}
                          /\ MobileIPFilter(PublicAddr, r) = 1
                          /\ push_reply(r)
    \/ \E n \in Nodes : Decapsulate(n)
    \/ run_timer
    \/ run_timer_aborted

Next == Step \/ Restart

Spec == Init /\ [][Next]_vars

(***************************************************************************)
(* The agent as long as nobody restarts it.                                *)
(***************************************************************************)
SteadySpec == Init /\ [][Step]_vars

(***************************************************************************)
(* A scheduled timer is run: Click calls it again every second.            *)
(***************************************************************************)
FairSpec == Spec /\ WF_vars(run_timer)
=============================================================================
