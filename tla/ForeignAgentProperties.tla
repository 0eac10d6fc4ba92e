----------------------- MODULE ForeignAgentProperties -----------------------
(***************************************************************************)
(* What the foreign agent promises to the nodes that visit it, as          *)
(* properties of ForeignAgent.                                             *)
(***************************************************************************)
EXTENDS ForeignAgent

(***************************************************************************)
(* The assumptions under which the raw lifetimes are counted and compared  *)
(* as seconds: the agent advertises registrations, and home agents grant   *)
(* lifetimes, of fewer seconds than fit in one byte.                       *)
(***************************************************************************)
ShortRegistrations == lifetimeReg < Byte

ShortGrants == \A r \in Replies : r.lifetime \in ByteLifetimes

(***************************************************************************)
(* Type correctness of the two lists and of what the agent pushes.         *)
(***************************************************************************)
TypeOK ==
    /\ registrationReq \in Seq(PendingItem)
    /\ visitorMap \subseteq Visitor
    /\ scheduled \in BOOLEAN
    /\ sent \subseteq Request \cup Reply
    /\ delivered \subseteq Nodes
    /\ asked \subseteq Requests
    /\ granted \subseteq Replies

(***************************************************************************)
(* A request the agent relays to a home agent is pending at that moment,   *)
(* and there are never more than maxRequests pending: a request is not     *)
(* relayed unless the list has room to remember it, so its reply finds the *)
(* entry that makes the node a visitor.                                    *)
(***************************************************************************)
RelayedArePending ==
    /\ Len(registrationReq) <= maxRequests
    /\ \A q \in sent : q.type = RequestType =>
         \E i \in Pending : i.id = q.id /\ i.ipSrc = q.homeAddr

(***************************************************************************)
(* A pending registration of at least a second has some of its lifetime    *)
(* left and has waited for less than ReplyWait seconds, so that the test   *)
(* for equality in run_timer never steps over the moment to answer with    *)
(* code 78.  Only a timer that stopped leaves one that has waited as long. *)
(***************************************************************************)
Waited(item) == Ntohs(item.lifetimeReq) - Ntohs(item.lifetimeRem)

WaitBounded ==
    \A i \in Pending : i.lifetimeReq # 0 =>
        /\ i.lifetimeRem # 0
        /\ Waited(i) >= 0
        /\ IF scheduled THEN Waited(i) < ReplyWait ELSE Waited(i) <= ReplyWait

(***************************************************************************)
(* A node is in the visitor list at most once, however many registrations  *)
(* and replies of it cross (ForeignAgentReplyProcess::push erases the      *)
(* entries of the node before it appends).                                 *)
(***************************************************************************)
OneVisitorPerNode ==
    \A v, w \in visitorMap : v.ipSrc = w.ipSrc => v = w

(***************************************************************************)
(* A visitor is there because the agent relayed a request of it, within    *)
(* what the agent advertises, and because an acceptance of its home agent  *)
(* has arrived since the agent was started, and it never has more seconds  *)
(* left than that request asked for or than that reply granted:            *)
(* "must take the MIN of the request and reply"                            *)
(* (foreignAgentReplyProcess.cc).                                          *)
(***************************************************************************)
Authorises(p, r, v) ==
    /\ p.id = v.id /\ p.homeAddr = v.ipSrc /\ p.homeAgent = v.homeAgent
    /\ Ntohs(p.lifetime) <= lifetimeReg
    /\ r.id = v.id /\ Accepting(r)
    /\ Ntohs(v.lifetimeRem) <= Ntohs(p.lifetime)
    /\ Ntohs(v.lifetimeRem) <= Ntohs(r.lifetime)

VisitorsAuthorised ==
    \A v \in visitorMap :
        \E p \in asked, r \in granted : Authorises(p, r, v)

(***************************************************************************)
(* No registration stays pending for ever, unless its request keeps        *)
(* arriving or the timer has stopped: run_timer expires it or gives up     *)
(* waiting for the reply.                                                  *)
(***************************************************************************)
RelayedAgain(i) == \E p \in Requests : p.id = i /\ RelayRequest(p)

PendingResolved ==
    \A i \in Ids : \/ []<>(\A item \in Pending : item.id # i)
                   \/ []<><<RelayedAgain(i)>>_vars
                   \/ <>[]~scheduled

(***************************************************************************)
(* No node stays a visitor for ever, unless accepting replies keep         *)
(* matching registrations of it or the timer has stopped.                  *)
(***************************************************************************)
Readmitted(n) ==
    \E r \in Replies : Accepting(r) /\ r.homeAddr = n /\ PassMatched(r)

VisitorsLapse ==
    \A n \in Nodes : \/ []<>~inMapNode(n)
                     \/ []<><<Readmitted(n)>>_vars
                     \/ <>[]~scheduled

(***************************************************************************)
(* elementInfo.txt says of ForeignAgentReplyProcess that "aan de hand van  *)
(* het paket past de Foreign agent zijn visitor list aan met de gekregen   *)
(* lifetime": a node that is passed an accepting reply is a visitor, so    *)
(* that the datagrams tunnelled to it are delivered.                       *)
(***************************************************************************)
AcceptedAreVisitors ==
    \A r \in sent : r.type = ReplyType /\ r.link = "private" =>
        (r.code \in {0, 1} => inMapNode(r.homeAddr))
=============================================================================
