------------------------- MODULE HomeAgentProperties ------------------------
(***************************************************************************)
(* What the home agent promises to the nodes it serves, as properties of   *)
(* HomeAgent and as an abstract home agent that it implements.             *)
(***************************************************************************)
EXTENDS HomeAgent

(***************************************************************************)
(* Type correctness of the bindings and of what the agent pushes.          *)
(***************************************************************************)
TypeOK ==
    /\ table \in [Nodes -> HARegistrationEntry \cup {NoEntry}]
    /\ list \in [Nodes -> Nat]
    /\ sent \subseteq Reply
    /\ routed \subseteq Datagram \cup Tunnelled

(***************************************************************************)
(* The address list and the hash table of AgentBase agree: an address is   *)
(* in the list exactly once when it has an entry and not at all otherwise. *)
(* run_timer dereferences the entry of every listed address without a test *)
(* and would skip an entry that is not listed, so this is both the absence *)
(* of a null dereference and the absence of a binding no timer ages.       *)
(***************************************************************************)
ListMatchesTable ==
    \A n \in Nodes : list[n] = IF isHome(n) THEN 0 ELSE 1

(***************************************************************************)
(* Whatever lifetime an accepting reply grants, the agent keeps a binding  *)
(* to the address for at least that long from the moment it answers, the   *)
(* answer to a duplicated request included (which carries the lifetime     *)
(* that was left before the entry is inserted again).                      *)
(***************************************************************************)
NeverOverpromises ==
    \A r \in sent : r.lifetime > 0 =>
        /\ ~isHome(r.homeAddr)
        /\ Ntohs(r.lifetime) <= Ntohs(table[r.homeAddr].lifetime)

(***************************************************************************)
(* Every binding was asked for: some request the network may deliver names *)
(* the node, the care-of address and the identification of the entry, and  *)
(* the entry never has more seconds left than that request asked for, nor  *)
(* none.  (It may be an older request that arrived late: nothing is said   *)
(* of the order.)                                                          *)
(***************************************************************************)
AskedFor(n, p, s) ==
    /\ p.homeAddr = n
    /\ p.id = table[n].id
    /\ p.coAddr = table[n].mobile_node_coa
    /\ table[n].lifetime = Htons(s)
    /\ s <= Ntohs(p.lifetime)

BindingsRequested ==
    \A n \in Nodes : ~isHome(n) =>
        \E p \in Incoming, s \in 1 .. (Byte - 1) : AskedFor(n, p, s)

(***************************************************************************)
(* No binding is immortal: a node is without a binding again and again     *)
(* unless registrations for it keep arriving (run_timer, every second).    *)
(***************************************************************************)
Renewal(n) == \E p \in Incoming : p.homeAddr = n /\ Register(p)

BindingsLapse ==
    \A n \in Nodes : []<>isHome(n) \/ []<><<Renewal(n)>>_vars

-----------------------------------------------------------------------------
(***************************************************************************)
(* The assumptions under which the agent keeps the promise of BindingCache:*)
(* lifetimes fit in one byte, and two requests with the same               *)
(* identification for the same node and care-of address are the same       *)
(* request.                                                                *)
(***************************************************************************)
ShortLifetimes == \A p \in Incoming : p.lifetime \in ByteLifetimes

IdsDetermineRequests ==
    \A p, q \in Incoming :
        /\ p.id = q.id
        /\ p.homeAddr = q.homeAddr
        /\ p.coAddr = q.coAddr
        => p.lifetime = q.lifetime

(***************************************************************************)
(* The binding a promise is about, the seconds a reply grants and the way  *)
(* a datagram leaves, as the abstract home agent speaks of them.           *)
(***************************************************************************)
BindingOf(n) ==
    IF isHome(n) THEN NoEntry
    ELSE [coa |-> table[n].mobile_node_coa, left |-> Ntohs(table[n].lifetime)]

GrantOf(r) == [node |-> r.homeAddr, seconds |-> Ntohs(r.lifetime)]

RouteOf(d) ==
    IF d.proto = "ip" THEN [node |-> d.dst, via |-> {}]
    ELSE [node |-> d.inner, via |-> {d.dst}]

ASSUME NoEntryAssumption == NoEntry \notin [coa : Hosts, left : Uint16]

Cache == INSTANCE BindingCache
           WITH MaxSeconds <- Byte - 1, NoBinding <- NoEntry,
                binding <- [n \in Nodes |-> BindingOf(n)],
                granted <- {GrantOf(r) : r \in sent},
                routed <- {RouteOf(d) : d \in routed}

(***************************************************************************)
(* The home agent, byte order, list and identifications included,          *)
(* implements BindingCache.                                                *)
(***************************************************************************)
ImplementsBindingCache == Cache!BSpec
=============================================================================
