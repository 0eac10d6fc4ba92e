----------------------------- MODULE HomeAgent ------------------------------
(***************************************************************************)
(* The home agent: the elements RegistrationRequestReply and               *)
(* IpEncapsulation over the bindings of AgentBase.  A step is one call of  *)
(* push or run_timer, which Click runs to completion.                      *)
(***************************************************************************)
EXTENDS Packets

CONSTANTS PublicAddr,     \* the agent's own public address
          Incoming,       \* the requests the network may deliver, in any
                          \* order and any number of times
          AllocMayFail,   \* whether Packet::make may return no packet
          NoEntry         \* HashMap::find_pair found nothing

HARegistrationEntry ==
    [mobile_node_coa : Hosts, lifetime : Uint16, id : Ids]

ASSUME HomeAgentAssumption ==
    /\ PublicAddr \in Hosts
    /\ Incoming \subseteq Request
    /\ AllocMayFail \in BOOLEAN
    /\ NoEntry \notin HARegistrationEntry

VARIABLES table,   \* AgentBase::table, an entry or NoEntry for each node
          list,    \* AgentBase::list, how often each node occurs in it
          sent,    \* the registration replies the last step pushed
          routed   \* the datagrams the last step pushed

vars == <<table, list, sent, routed>>

-----------------------------------------------------------------------------
(***************************************************************************)
(* AgentBase::isHome.                                                      *)
(***************************************************************************)
isHome(n) == table[n] = NoEntry

validatePacket(p) ==
    CASE {0, 2} \cap p.flags # {} -> 134
      [] {0, 2} \cap p.flags = {} /\ 5 \in p.flags -> 128
      [] {0, 2, 5} \cap p.flags = {} /\ p.homeAgent # PublicAddr -> 136
      [] OTHER -> 0

Accepted(code) == code \in {0, 1}

(***************************************************************************)
(* Slip: a duplicate is recognised without comparing identifications.      *)
(***************************************************************************)
DuplicateOfAnyId(p) ==
    /\ ~isHome(p.homeAddr)
    /\ table[p.homeAddr].mobile_node_coa = p.coAddr

(***************************************************************************)
(* The request the binding was made from has come again.                   *)
(***************************************************************************)
Duplicate(p) ==
    /\ ~isHome(p.homeAddr)
    /\ table[p.homeAddr].id = p.id
    /\ table[p.homeAddr].mobile_node_coa = p.coAddr

ReplyTo(p) ==
    [type |-> ReplyType, whole |-> TRUE, code |-> validatePacket(p),
     lifetime |-> IF Duplicate(p) THEN table[p.homeAddr].lifetime
                                  ELSE p.lifetime,
     homeAddr |-> p.homeAddr, homeAgent |-> p.homeAgent, id |-> p.id,
     src |-> p.dst, dst |-> p.src,
     link |-> IF p.lifetime > 0 THEN "public" ELSE "private"]

(***************************************************************************)
(* Slip: a second is added so that the first, partial one does not count.  *)
(***************************************************************************)
NewEntryRoundedUp(p) ==
    [mobile_node_coa |-> p.coAddr, lifetime |-> Add16(p.lifetime, Htons(1)),
     id |-> p.id]

NewEntry(p) ==
    [mobile_node_coa |-> p.coAddr, lifetime |-> p.lifetime, id |-> p.id]

-----------------------------------------------------------------------------
(***************************************************************************)
(* RegistrationRequestReply::push.  A request is dropped, refused without  *)
(* an answer, or accepted; the timer is not touched.                       *)
(***************************************************************************)
Malformed(p) == ~p.whole \/ p.type # RequestType

Drop(p) ==
    /\ Malformed(p) \/ AllocMayFail
    /\ sent' = {}
    /\ routed' = {}
    /\ UNCHANGED <<table, list>>

Deny(p) ==
    /\ ~Malformed(p)
    /\ ~Accepted(validatePacket(p))
    /\ sent' = {}
    /\ routed' = {}
    /\ UNCHANGED <<table, list>>

(***************************************************************************)
(* Slips: an entry the node has is kept, the search of the list is left    *)
(* out (the address is appended always), the address is not appended.      *)
(***************************************************************************)
RegisterOnce(p) ==
    /\ ~Malformed(p)
    /\ Accepted(validatePacket(p))
    /\ p.lifetime > 0
    /\ table' = IF isHome(p.homeAddr)
                  THEN [table EXCEPT ![p.homeAddr] = NewEntry(p)] ELSE table
    /\ list' = [list EXCEPT ![p.homeAddr] = IF @ = 0 THEN 1 ELSE @]
    /\ sent' = {ReplyTo(p)}
    /\ routed' = {}

RegisterTwice(p) ==
    /\ ~Malformed(p)
    /\ Accepted(validatePacket(p))
    /\ p.lifetime > 0
    /\ table' = [table EXCEPT ![p.homeAddr] = NewEntry(p)]
    /\ list' = [list EXCEPT ![p.homeAddr] = @ + 1]
    /\ sent' = {ReplyTo(p)}
    /\ routed' = {}

RegisterUnlisted(p) ==
    /\ ~Malformed(p)
    /\ Accepted(validatePacket(p))
    /\ p.lifetime > 0
    /\ table' = [table EXCEPT ![p.homeAddr] = NewEntry(p)]
    /\ sent' = {ReplyTo(p)}
    /\ routed' = {}
    /\ UNCHANGED list

Register(p) ==
    /\ ~Malformed(p)
    /\ Accepted(validatePacket(p))
    /\ p.lifetime > 0
    /\ table' = [table EXCEPT ![p.homeAddr] = NewEntry(p)]
    /\ list' = [list EXCEPT ![p.homeAddr] = IF @ = 0 THEN 1 ELSE @]
    /\ sent' = {ReplyTo(p)}
    /\ routed' = {}

(***************************************************************************)
(* Slip: the node is taken off the list without looking whether it is in.  *)
(***************************************************************************)
DeregisterUnchecked(p) ==
    /\ ~Malformed(p)
    /\ Accepted(validatePacket(p))
    /\ p.lifetime = 0
    /\ table' = [table EXCEPT ![p.homeAddr] = NoEntry]
    /\ list' = [list EXCEPT ![p.homeAddr] = @ - 1]
    /\ sent' = {ReplyTo(p)}
    /\ routed' = {}

Deregister(p) ==
    /\ ~Malformed(p)
    /\ Accepted(validatePacket(p))
    /\ p.lifetime = 0
    /\ table' = [table EXCEPT ![p.homeAddr] = NoEntry]
    /\ list' = [list EXCEPT ![p.homeAddr] =
                  IF isHome(p.homeAddr) \/ @ = 0 THEN @ ELSE @ - 1]
    /\ sent' = {ReplyTo(p)}
    /\ routed' = {}

push(p) == Drop(p) \/ Deny(p) \/ Register(p) \/ Deregister(p)

(***************************************************************************)
(* Slip: the second is not written back to the entry.                      *)
(***************************************************************************)
LeftUnaged(n) == table[n].lifetime

(***************************************************************************)
(* RegistrationRequestReply::run_timer walks the list, takes a second off  *)
(* the entry of every address in it, once per occurrence, and erases the   *)
(* address and the entry when nothing is left.  It dereferences find_pair  *)
(* without a test: ListMatchesTable is what makes that safe.               *)
(***************************************************************************)
Left(n) == Sub16(table[n].lifetime, list[n] * Htons(1))

(***************************************************************************)
(* Slip: an entry is tested before it is aged, as the visitor list is.     *)
(***************************************************************************)
run_timer_test_first ==
    /\ table' = [n \in Nodes |->
                   CASE list[n] = 0 -> table[n]
                     [] list[n] # 0 /\ table[n].lifetime = 0 -> NoEntry
                     [] list[n] # 0 /\ table[n].lifetime # 0 ->
                          [table[n] EXCEPT !.lifetime = Left(n)]]
    /\ list' = [n \in Nodes |->
                  IF list[n] # 0 /\ table[n].lifetime = 0
                    THEN list[n] - 1 ELSE list[n]]
    /\ sent' = {}
    /\ routed' = {}

run_timer ==
    /\ table' = [n \in Nodes |->
                   CASE list[n] = 0 -> table[n]
                     [] list[n] # 0 /\ Left(n) = 0 -> NoEntry
                     [] list[n] # 0 /\ Left(n) # 0 ->
                          [table[n] EXCEPT !.lifetime = Left(n)]]
    /\ list' = [n \in Nodes |->
                  IF list[n] # 0 /\ Left(n) = 0 THEN list[n] - 1 ELSE list[n]]
    /\ sent' = {}
    /\ routed' = {}

(***************************************************************************)
(* IpEncapsulation::push for a datagram the routing table sends to the     *)
(* private network.                                                        *)
(***************************************************************************)
getDesitination(n) == table[n].mobile_node_coa

Encapsulate(n) ==
    /\ \/ /\ isHome(n)
          /\ routed' = {[proto |-> "ip", dst |-> n, link |-> "private"]}
       \/ /\ ~isHome(n)
          /\ routed' = {[proto |-> "ipip", dst |-> getDesitination(n),
                         inner |-> n, link |-> "public"]}
       \/ /\ ~isHome(n)
          /\ AllocMayFail
          /\ routed' = {}
    /\ sent' = {}
    /\ UNCHANGED <<table, list>>

-----------------------------------------------------------------------------
Init ==
    /\ table = [n \in Nodes |-> NoEntry]
    /\ list = [n \in Nodes |-> 0]
    /\ sent = {}
    /\ routed = {}

(***************************************************************************)
(* The process is started again: nothing is persisted.                     *)
(***************************************************************************)
Restart ==
    /\ table' = [n \in Nodes |-> NoEntry]
    /\ list' = [n \in Nodes |-> 0]
    /\ sent' = {}
    /\ routed' = {}

Next ==
    \/ \E p \in Incoming : MobileIPFilter(PublicAddr, p) = 2 /\ push(p)
    \/ \E n \in Nodes : Encapsulate(n)
    \/ run_timer
    \/ Restart

Spec == Init /\ [][Next]_vars

(***************************************************************************)
(* The timer reschedules itself on every run, so Click runs it forever.    *)
(***************************************************************************)
FairSpec == Spec /\ WF_vars(run_timer)
=============================================================================
