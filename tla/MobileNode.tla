----------------------------- MODULE MobileNode -----------------------------
(***************************************************************************)
(* The mobile node: the elements AdvertisementsHandler,                    *)
(* RegistrationRequestSource and SetGateway over the state of              *)
(* MobileInfoList.  A step is one call of push or run_timer, which Click   *)
(* runs to completion; the three timers are scheduled independently.       *)
(***************************************************************************)
EXTENDS Packets, Lists

CONSTANTS myAddress,           \* the home address of the node
          home_private_addr,   \* its home agent in the home network
          home_public_addr,    \* its home agent in the public network
          Advs,                \* the advertisements it may hear
          Incoming,            \* the replies the network may deliver, in
                               \* any order and any number of times
          AllocMayFail         \* whether Packet::make may return no packet

(***************************************************************************)
(* An advertisement on the wire and the entry made from it.                *)
(***************************************************************************)
AdvertisementPacket ==
    [private_addr : Hosts, address : Hosts, COA : Hosts, lifetime : Uint16,
     reg_lifetime : Uint16, sequenceNum : Uint16, flags : SUBSET FlagBits]

Advertisement ==
    [private_addr : Hosts, COA : Hosts, lifetime : Uint16,
     reg_lifetime : Uint16, sequenceNum : Uint16]

ASSUME MobileNodeAssumption ==
    /\ myAddress \in Nodes
    /\ home_private_addr \in Hosts
    /\ home_public_addr \in Hosts
    /\ Advs \subseteq AdvertisementPacket
    /\ Incoming \subseteq Reply
    /\ AllocMayFail \in BOOLEAN

VARIABLES home,                      \* the members of MobileInfoList
          connected,
          remainingConnectionTime,
          curr_private_addr,
          curr_coa,
          current_advertisements,
          currentRequests,           \* of RegistrationRequestSource; their
                                     \* identifications differ, so nothing
                                     \* observes their order
          counting,                  \* whether its second timer was started
          sent                       \* the requests the last step pushed

vars == <<home, connected, remainingConnectionTime, curr_private_addr,
          curr_coa, current_advertisements, currentRequests, counting,
          sent>>

gateway == <<curr_private_addr, curr_coa>>

(***************************************************************************)
(* The struct Request; "id" stands for id1, id2 and port.                  *)
(***************************************************************************)
RequestEntry ==
    [ipDst : Hosts, COA : Hosts, id : Ids,
     requestedLifetime : Uint16, remainingLifetime : Uint16]

Held == Range(current_advertisements)

-----------------------------------------------------------------------------
(***************************************************************************)
(* RegistrationRequestSource::makePacket, called zero or more times for    *)
(* the advertisement a within one step.  Every call draws identifications  *)
(* no outstanding request has (the code draws 62 random bits), or makes    *)
(* no packet and changes nothing.  Ids bounds the outstanding requests: a  *)
(* call beyond the bound is like one for which no packet could be made.    *)
(***************************************************************************)
FreshIds == Ids \ {q.id : q \in currentRequests}

IsHomeAgent(a) == a.private_addr = home_private_addr

NewRequest(a, i) ==
    [ipDst |-> a.private_addr, COA |-> a.COA, id |-> i,
     requestedLifetime |-> a.reg_lifetime, remainingLifetime |-> a.reg_lifetime]

RequestPacket(a, i) ==
    [type |-> RequestType, whole |-> TRUE, flags |-> {},
     lifetime |-> IF IsHomeAgent(a) THEN 0 ELSE a.reg_lifetime,
     homeAddr |-> myAddress, homeAgent |-> home_public_addr, coAddr |-> a.COA,
     id |-> i, src |-> myAddress, dst |-> a.private_addr, link |-> "private"]

(***************************************************************************)
(* The requests of a step that calls makePacket(a) n times, with "left"    *)
(* seconds of the registration remaining.                                  *)
(***************************************************************************)
Draws(n) ==
    LET made == Min({n, Cardinality(FreshIds)})
    IN  {I \in SUBSET FreshIds :
           /\ Cardinality(I) <= made
           /\ AllocMayFail \/ Cardinality(I) = made}

(***************************************************************************)
(* Slip: the node uses an agent's gateway as soon as it has asked for it.  *)
(***************************************************************************)
makePacketSwitching(a, I, left) ==
    /\ currentRequests' = currentRequests \cup {NewRequest(a, i) : i \in I}
    /\ sent' = {RequestPacket(a, i) : i \in I}
    /\ curr_private_addr' = IF I # {} THEN a.private_addr ELSE curr_private_addr
    /\ curr_coa' = IF I # {} THEN a.COA ELSE curr_coa
    /\ remainingConnectionTime' = IF IsHomeAgent(a) /\ I # {} THEN 0 ELSE left

makePacket(a, I, left) ==
    /\ currentRequests' = currentRequests \cup {NewRequest(a, i) : i \in I}
    /\ sent' = {RequestPacket(a, i) : i \in I}
    /\ IF IsHomeAgent(a) /\ I # {}
         THEN /\ curr_private_addr' = home_private_addr
              /\ curr_coa' = a.COA
              /\ remainingConnectionTime' = 0
         ELSE /\ UNCHANGED gateway
              /\ remainingConnectionTime' = left

-----------------------------------------------------------------------------
(***************************************************************************)
(* AdvertisementsHandler::push.  A shift of the flags moves every bit; the *)
(* test for a foreign agent looks at bit 0 of the flags shifted left.      *)
(***************************************************************************)
IsHA(a) == 5 \in a.flags

IsFA(a) == 7 \in a.flags /\ 0 \in {b + 4 : b \in a.flags}

Busy(a) == 6 \in a.flags

EntryOf(a) ==
    [private_addr |-> a.private_addr, COA |-> a.COA, lifetime |-> a.lifetime,
     reg_lifetime |-> a.reg_lifetime, sequenceNum |-> a.sequenceNum]

SameAgent(e, a) == e.private_addr = a.private_addr /\ e.COA = a.COA

advFromHome(a) == a.address = home_public_addr

IgnoreAdv(a) ==
    /\ ~IsHA(a) /\ ~IsFA(a)
    /\ sent' = {}
    /\ UNCHANGED <<home, connected, remainingConnectionTime, gateway,
                   current_advertisements, currentRequests, counting>>

BusyAdv(a) ==
    /\ IsHA(a) \/ IsFA(a)
    /\ Busy(a)
    /\ current_advertisements' =
         LET I == {i \in DOMAIN current_advertisements :
                     SameAgent(current_advertisements[i], a)}
         IN  IF I = {} THEN current_advertisements
             ELSE Erase(current_advertisements, Min(I))
    /\ sent' = {}
    /\ UNCHANGED <<home, connected, remainingConnectionTime, gateway,
                   currentRequests, counting>>

(***************************************************************************)
(* The number on the wire is compared with the recorded one, and with 256, *)
(* as a uint16_t in network byte order.                                    *)
(***************************************************************************)
LooksReset(e, a) ==
    /\ SameAgent(e, a)
    /\ a.sequenceNum < Byte
    /\ a.sequenceNum <= e.sequenceNum

Updated(a) ==
    IF \E e \in Held : SameAgent(e, a)
      THEN [k \in DOMAIN current_advertisements |->
              IF LooksReset(current_advertisements[k], a)
                THEN EntryOf(a) ELSE current_advertisements[k]]
      ELSE Append(current_advertisements, EntryOf(a))

(***************************************************************************)
(* How often an advertisement makes the node call makePacket: for a reset  *)
(* of the agent it uses, and for a change of agent.                        *)
(***************************************************************************)
ReregisterAfterReset(a) ==
    /\ a.address # home_private_addr
    /\ \E e \in Held : LooksReset(e, a) /\ curr_private_addr = e.private_addr

(***************************************************************************)
(* Slip: a node that lost its connection abroad waits to be renewed.       *)
(***************************************************************************)
ChangeAgentWaiting(a) ==
    \/ home /\ ~advFromHome(a)
    \/ ~home /\ advFromHome(a)

ChangeAgent(a) ==
    \/ ~home /\ ~connected /\ ~advFromHome(a)
    \/ home /\ ~advFromHome(a)
    \/ ~home /\ advFromHome(a)

Calls(a) == (IF ReregisterAfterReset(a) THEN 1 ELSE 0)
              + (IF ChangeAgent(a) THEN 1 ELSE 0)

UsableAdv(a) ==
    /\ IsHA(a) \/ IsFA(a)
    /\ ~Busy(a)
    /\ current_advertisements' = IF a.address # home_private_addr
                                   THEN Updated(a)
                                   ELSE current_advertisements
    /\ \E I \in Draws(Calls(a)) :
         makePacket(a, I, remainingConnectionTime)
    /\ UNCHANGED <<home, connected, counting>>

push_adv(a) == IgnoreAdv(a) \/ BusyAdv(a) \/ UsableAdv(a)

(***************************************************************************)
(* AdvertisementsHandler::run_timer: what is over is erased, what is left  *)
(* gets a second older, and a node that loses its agent registers with the *)
(* first one it still holds an advertisement of.                           *)
(***************************************************************************)
Remaining ==
    LET kept == Retain(current_advertisements, {e \in Held : e.lifetime # 0})
    IN  [k \in DOMAIN kept |->
           [kept[k] EXCEPT !.lifetime = OneSecondLess(@)]]

AgentLost ==
    /\ connected
    /\ \E e \in Held : e.lifetime = 0 /\ e.private_addr = curr_private_addr

(***************************************************************************)
(* Slip: the list is looked at before what is over is erased from it.      *)
(***************************************************************************)
run_timer_adv_stale ==
    /\ current_advertisements' = Remaining
    /\ connected' = (connected /\ ~AgentLost)
    /\ IF AgentLost
         THEN \E I \in Draws(1) :
                makePacket(Head(current_advertisements), I,
                           remainingConnectionTime)
         ELSE /\ sent' = {}
              /\ UNCHANGED <<currentRequests, gateway, remainingConnectionTime>>
    /\ UNCHANGED <<home, counting>>

run_timer_adv ==
    /\ current_advertisements' = Remaining
    /\ connected' = (connected /\ ~AgentLost)
    /\ IF AgentLost /\ Remaining # <<>>
         THEN \E I \in Draws(1) : 
                makePacket(Head(Remaining), I, remainingConnectionTime)
         ELSE /\ sent' = {}
              /\ UNCHANGED <<currentRequests, gateway, remainingConnectionTime>>
    /\ UNCHANGED <<home, counting>>

-----------------------------------------------------------------------------
(***************************************************************************)
(* RegistrationRequestSource::push.  A request stays outstanding when its  *)
(* reply has come.  The second timer is started by the first acceptance    *)
(* abroad and put back a full second by the later ones.                    *)
(***************************************************************************)
Concerns(r, q) ==
    /\ r.whole /\ r.type = ReplyType /\ r.code \in {0, 1}
    /\ r.id = q.id
    /\ r.homeAgent = home_public_addr

(***************************************************************************)
(* Slip: the lifetime of the reply is taken for the difference.            *)
(***************************************************************************)
TimeLeftSwapped(q, r) == Sub16(q.remainingLifetime, r.lifetime)

TimeLeft(q, r) ==
    Sub16(q.remainingLifetime, Sub16(q.requestedLifetime, r.lifetime))

IgnoreReply(r) ==
    /\ \A q \in currentRequests : ~Concerns(r, q)
    /\ sent' = {}
    /\ UNCHANGED <<home, connected, remainingConnectionTime, gateway,
                   current_advertisements, currentRequests, counting>>

AcceptHome(r) ==
    /\ r.lifetime = 0
    /\ \E q \in currentRequests :
         /\ Concerns(r, q)
         /\ curr_private_addr' = q.ipDst
         /\ curr_coa' = q.COA
    /\ home' = TRUE
    /\ remainingConnectionTime' = 0
    /\ sent' = {}
    /\ UNCHANGED <<connected, current_advertisements, currentRequests, counting>>

(***************************************************************************)
(* Slip: the second timer is not started.                                  *)
(***************************************************************************)
AcceptAbroadUntimed(r) ==
    /\ r.lifetime # 0
    /\ \E q \in currentRequests :
         /\ Concerns(r, q)
         /\ curr_private_addr' = q.ipDst
         /\ curr_coa' = q.COA
         /\ remainingConnectionTime' = TimeLeft(q, r)
    /\ home' = FALSE
    /\ connected' = TRUE
    /\ sent' = {}
    /\ UNCHANGED <<current_advertisements, currentRequests, counting>>

AcceptAbroad(r) ==
    /\ r.lifetime # 0
    /\ \E q \in currentRequests :
         /\ Concerns(r, q)
         /\ curr_private_addr' = q.ipDst
         /\ curr_coa' = q.COA
         /\ remainingConnectionTime' = TimeLeft(q, r)
    /\ home' = FALSE
    /\ connected' = TRUE
    /\ counting' = TRUE
    /\ sent' = {}
    /\ UNCHANGED <<current_advertisements, currentRequests>>

push_reply(r) == IgnoreReply(r) \/ AcceptHome(r) \/ AcceptAbroad(r)

(***************************************************************************)
(* RegistrationRequestSource::run_timer for its first timer, which ages    *)
(* the outstanding requests.                                               *)
(***************************************************************************)
run_timer_requests ==
    /\ currentRequests' =
         {q \in {[p EXCEPT !.remainingLifetime = OneSecondLess(@)] :
                   p \in currentRequests} : q.remainingLifetime # 0}
    /\ sent' = {}
    /\ UNCHANGED <<home, connected, remainingConnectionTime, gateway,
                   current_advertisements, counting>>

(***************************************************************************)
(* RegistrationRequestSource::run_timer for its second timer, which counts *)
(* the registration down and renews it when two seconds are left.          *)
(***************************************************************************)
CurrentAdvs ==
    Retain(current_advertisements,
           {e \in Held : /\ e.private_addr = curr_private_addr
                         /\ e.COA = curr_coa})

ConnectionOver ==
    /\ counting
    /\ remainingConnectionTime = 0
    /\ connected' = FALSE
    /\ sent' = {}
    /\ UNCHANGED <<home, remainingConnectionTime, gateway,
                   current_advertisements, currentRequests, counting>>

RenewalDue ==
    /\ OneSecondLess(remainingConnectionTime) = Htons(2)
    /\ connected /\ ~home
    /\ CurrentAdvs # <<>>

(***************************************************************************)
(* Slip: the countdown goes on below zero.                                 *)
(***************************************************************************)
ConnectionCountsSigned ==
    /\ counting
    /\ ~RenewalDue
    /\ remainingConnectionTime' = remainingConnectionTime - Htons(1)
    /\ sent' = {}
    /\ UNCHANGED <<home, connected, gateway, current_advertisements,
                   currentRequests, counting>>

ConnectionCounts ==
    /\ counting
    /\ remainingConnectionTime # 0
    /\ ~RenewalDue
    /\ remainingConnectionTime' = OneSecondLess(remainingConnectionTime)
    /\ sent' = {}
    /\ UNCHANGED <<home, connected, gateway, current_advertisements,
                   currentRequests, counting>>

Renew ==
    /\ counting
    /\ remainingConnectionTime # 0
    /\ RenewalDue
    /\ \E I \in Draws(1) :
         makePacket(Head(CurrentAdvs), I, OneSecondLess(remainingConnectionTime))
    /\ UNCHANGED <<home, connected, current_advertisements, counting>>

run_timer_connection == ConnectionOver \/ ConnectionCounts \/ Renew

-----------------------------------------------------------------------------
Init ==
    /\ home = TRUE
    /\ connected = FALSE
    /\ remainingConnectionTime = 0
    /\ curr_private_addr = home_private_addr
    /\ curr_coa = home_public_addr
    /\ current_advertisements = <<>>
    /\ currentRequests = {}
    /\ counting = FALSE
    /\ sent = {}

(***************************************************************************)
(* The process is started again: nothing is persisted.                     *)
(***************************************************************************)
Restart ==
    /\ home' = TRUE
    /\ connected' = FALSE
    /\ remainingConnectionTime' = 0
    /\ curr_private_addr' = home_private_addr
    /\ curr_coa' = home_public_addr
    /\ current_advertisements' = <<>>
    /\ currentRequests' = {}
    /\ counting' = FALSE
    /\ sent' = {}

(***************************************************************************)
(* A reply to a request of this node: deregistration is answered with no   *)
(* time, registration with at most the time it asked for.                  *)
(***************************************************************************)
Plausible(r) ==
    \A q \in currentRequests : q.id = r.id =>
        IF q.ipDst = home_private_addr
          THEN r.lifetime = 0
          ELSE /\ r.lifetime # 0
               /\ Ntohs(r.lifetime) <= Ntohs(q.requestedLifetime)

Next ==
    \/ \E a \in Advs : push_adv(a)
    \/ \E r \in Incoming : Plausible(r) /\ push_reply(r)
    \/ run_timer_adv
    \/ run_timer_requests
    \/ run_timer_connection
    \/ Restart

Spec == Init /\ [][Next]_vars

(***************************************************************************)
(* Each timer schedules itself again on every run, so Click runs it        *)
(* forever (the second one of RegistrationRequestSource once started).     *)
(***************************************************************************)
FairSpec ==
    /\ Spec
    /\ WF_vars(run_timer_adv)
    /\ WF_vars(run_timer_requests)
    /\ WF_vars(run_timer_connection)
=============================================================================
