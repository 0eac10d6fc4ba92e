---------------------------- MODULE Registration ----------------------------
(***************************************************************************)
(* The state that a mobile node, its home agent and a foreign agent share  *)
(* with the network between them, the clock they all count, and what it    *)
(* means for the node to be registered.  MobileIP says how the three       *)
(* processes change it.                                                    *)
(***************************************************************************)
EXTENDS Packets, Lists

CONSTANTS mn,            \* the node
          ha, hap,       \* the home agent, public and private address
          fa, fap,       \* the foreign agent, public and private address
          AdvLifetime,   \* seconds an advertisement is valid (LTADV)
          RegLifetime,   \* seconds of a registration (LFREG)
          maxRequests,   \* pending registrations of the foreign agent
          ReplyWait,     \* seconds the foreign agent waits for a reply
          NoEntry,
          AnyOrder,      \* whether timers run in any order within a second or
                         \* in a fixed one, after what else happens in it
          MaxFaults      \* bound on the faults of a behaviour

ASSUME MobileIPAssumption ==
    /\ mn \in Nodes
    /\ {ha, hap, fa, fap} \subseteq Hosts
    /\ mn \notin Hosts
    /\ ha # hap
    /\ fa # fap
    /\ {ha, hap} \cap {fa, fap} = {}
    /\ AdvLifetime \in 0 .. (Byte - 1)
    /\ RegLifetime \in 1 .. (Byte - 1)
    /\ ReplyWait \in 2 .. (Byte - 1)
    /\ maxRequests \in Nat
    /\ NoEntry \notin [mobile_node_coa : Hosts, lifetime : Uint16, id : Ids]

VARIABLES home, connected, remainingConnectionTime, curr_private_addr,
          curr_coa, current_advertisements, currentRequests, counting,
          table, list,
          registrationReq, visitorMap, scheduled, asked, granted,
          out,        \* the packets the last step pushed
          net,        \* the packets under way
          at,         \* the network the node sends to
          moving,     \* lines done of the script that moves the node
          ticked,     \* what has happened this second
          forgetful,  \* the agents that forgot the node behind its back since
                      \* they last served it
          faults      \* moves, restarts, failed allocations of an agent and
                      \* numbers that wrapped around so far

node == <<home, connected, remainingConnectionTime, curr_private_addr,
          curr_coa, current_advertisements, currentRequests, counting>>

homeAgent == <<table, list>>

foreignAgent == <<registrationReq, visitorMap, scheduled, asked, granted>>

place == <<at, moving>>

vars == <<node, homeAgent, foreignAgent, out, net, place, ticked, forgetful,
          faults>>

-----------------------------------------------------------------------------
(***************************************************************************)
(* The one-second timers that are scheduled.  The second is over when all  *)
(* have run.                                                               *)
(***************************************************************************)
Timers == {"ha", "adv", "requests"}
            \cup (IF scheduled THEN {"fa"} ELSE {})
            \cup (IF counting THEN {"connection"} ELSE {})

Rank == [ha |-> 1, fa |-> 2, adv |-> 3, requests |-> 4, connection |-> 5]

Due(t) ==
    /\ t \in Timers \ ticked
    /\ ~AnyOrder => /\ moving = 0
                    /\ \A u \in Timers \ ticked : Rank[t] <= Rank[u]

HasRun(t) ==
    ticked' = IF Timers' \subseteq ticked \cup {t} THEN {} ELSE ticked \cup {t}

(***************************************************************************)
(* A packet may arrive until the second it was sent in is over.            *)
(***************************************************************************)
UnderWay(gone, new) ==
    net' = (IF ticked' = {} /\ ticked # {} THEN {} ELSE net \ gone) \cup new

(***************************************************************************)
(* isHome(mn) of the home agent, and whether the node has kept the request *)
(* of a packet.                                                            *)
(***************************************************************************)
AtHome == table[mn] = NoEntry

Remembers(p) == \E q \in currentRequests : q.id = p.id

(***************************************************************************)
(* What the node pushes is lost unless it is for the agent of the network  *)
(* its switch in glue.click leads to.  The node draws identifications      *)
(* nobody has seen; which of them it draws makes no difference.            *)
(***************************************************************************)
agentOf(network) == IF network = "home" THEN hap ELSE fap

UsedIds ==
    {x.id : x \in currentRequests \cup Range(registrationReq) \cup net}
      \cup (IF AtHome THEN {} ELSE {table[mn].id})

LeastFresh(I) ==
    /\ I \cap UsedIds = {}
    /\ \A i \in I, j \in Ids \ UsedIds : j < i => j \in I

NodePushes(gone) ==
    /\ LeastFresh({p.id : p \in out'})
    /\ UnderWay(gone, {p \in out' : p.dst = agentOf(at)})

(***************************************************************************)
(* The advertisement of the agent in the network the node hears.  The      *)
(* number 0 is that of an agent that was started, and follows 255; other   *)
(* numbers make no difference to the node.                                 *)
(***************************************************************************)
Adv(pub, priv, k) ==
    [private_addr |-> priv, address |-> pub, COA |-> pub,
     lifetime |-> Htons(AdvLifetime), reg_lifetime |-> Htons(RegLifetime),
     sequenceNum |-> Htons(k), flags |-> {4, 5, 7}]

Advertised ==
    {IF at = "home" THEN Adv(ha, hap, k) ELSE Adv(fa, fap, k) : k \in {0, 1}}

Advertiser == IF at = "home" THEN "ha" ELSE "fa"

(***************************************************************************)
(* What happens now and then is counted, so that a run can bound it.       *)
(***************************************************************************)
Fault(happens) ==
    /\ faults' = IF happens THEN faults + 1 ELSE faults
    /\ faults' <= MaxFaults

-----------------------------------------------------------------------------
(***************************************************************************)
(* Two processes that count the same seconds with timers of their own, and *)
(* learn of one another by a packet that takes up to a second, differ by   *)
(* at most two.                                                            *)
(***************************************************************************)
Skew == 2

Believes == connected /\ ~home /\ Ntohs(remainingConnectionTime) > 0

Deregistering == \E q \in currentRequests : q.ipDst = hap

(***************************************************************************)
(* A node that believes itself registered is: while it has more than the   *)
(* skew left, its home agent tunnels to the care-of address the node uses, *)
(* and goes on for as long as the node believes, whatever requests and     *)
(* replies of it crossed or were lost.  The agent may have been restarted  *)
(* since, or have forgotten the node for a deregistration of before the    *)
(* node's own restart.  While the node keeps a deregistration it has sent, *)
(* until the reply arrives or its lifetime is over, it may be mistaken:    *)
(* the reply to an earlier registration can overtake the deregistration or *)
(* the reply to it.                                                        *)
(***************************************************************************)
BeliefBacked ==
    Believes /\ ~Deregistering /\ "ha" \notin forgetful =>
        IF AtHome THEN Ntohs(remainingConnectionTime) <= Skew
        ELSE /\ table[mn].mobile_node_coa = curr_coa
             /\ Ntohs(remainingConnectionTime)
                  <= Ntohs(table[mn].lifetime) + Skew

(***************************************************************************)
(* The same for the foreign agent the node uses: unless it was restarted   *)
(* since, the node is in its visitor list for as long as the node believes *)
(* itself registered, so that what is tunnelled to it is delivered.        *)
(***************************************************************************)
VisitorBacked ==
    Believes /\ curr_coa = fa /\ "fa" \notin forgetful =>
        \/ Ntohs(remainingConnectionTime) <= Skew
        \/ \E v \in visitorMap :
             /\ v.ipSrc = mn
             /\ Ntohs(remainingConnectionTime) <= Ntohs(v.lifetimeRem) + Skew
=============================================================================
