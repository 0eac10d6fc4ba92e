------------------------------ MODULE MobileIP ------------------------------
(***************************************************************************)
(* A mobile node, its home agent and a foreign agent together, each in a   *)
(* process of its own and wired as in scripts/.  The node moves between    *)
(* the two networks, packets get lost and overtake one another, processes  *)
(* are restarted, and every one-second timer runs once a second.           *)
(* Datagrams change no state and are left out.                             *)
(***************************************************************************)
EXTENDS Registration

(***************************************************************************)
(* The components.  Inputs come from the network instead of a constant     *)
(* set; what only the properties of the foreign agent look at (asked,      *)
(* granted) holds everything that can come into it from the start.         *)
(***************************************************************************)
MN == INSTANCE MobileNode
        WITH myAddress <- mn, home_private_addr <- hap, home_public_addr <- ha,
             Advs <- {}, Incoming <- {}, AllocMayFail <- TRUE, sent <- out

HA == INSTANCE HomeAgent
        WITH PublicAddr <- ha, Incoming <- {}, AllocMayFail <- TRUE,
             sent <- out, routed <- {}

FA == INSTANCE ForeignAgent
        WITH PublicAddr <- fa, PrivateAddr <- fap, Incoming <- {},
             lifetimeReg <- RegLifetime, AllocMayFail <- TRUE, sent <- out,
             delivered <- {}

NodeRequests == {MN!RequestPacket(Adv(fa, fap, 1), i) : i \in Ids}

Grants ==
    [type : {ReplyType}, whole : {TRUE}, code : {0},
     lifetime : {Htons(s) : s \in 0 .. RegLifetime}, homeAddr : {mn},
     homeAgent : {ha}, id : Ids, src : {ha}, dst : {fa}, link : {"public"}]

-----------------------------------------------------------------------------
(***************************************************************************)
(* A packet arrives, at the element MobileIPFilter chooses.  An agent      *)
(* pushes a packet for every request unless it cannot make one.  A restart *)
(* is not the only way for the home agent to forget a node behind its      *)
(* back: the node itself may have been restarted and not remember the      *)
(* deregistration that arrives.                                            *)
(***************************************************************************)
ToHomeAgent(p) ==
    /\ p.dst \in {ha, hap}
    /\ MobileIPFilter(ha, p) = 2
    /\ HA!push(p)
    /\ forgetful' = IF AtHome /\ ~AtHome' THEN forgetful \ {"ha"}
                    ELSE IF ~AtHome /\ AtHome' /\ ~Remembers(p)
                    THEN forgetful \cup {"ha"}
                    ELSE forgetful
    /\ Fault(out' = {})
    /\ UNCHANGED <<node, foreignAgent, place, ticked>>
    /\ UnderWay({p}, out')

RequestToForeignAgent(p) ==
    /\ p.dst = fap
    /\ MobileIPFilter(fa, p) = 3
    /\ FA!push_request(p)
    /\ Fault(out' = {})
    /\ UNCHANGED <<node, homeAgent, place, ticked, forgetful>>
    /\ UnderWay({p}, out')

ReplyToForeignAgent(r) ==
    /\ r.dst = fa
    /\ MobileIPFilter(fa, r) = 1
    /\ FA!push_reply(r)
    /\ forgetful' = IF FA!inMapNode(mn)' THEN forgetful \ {"fa"} ELSE forgetful
    /\ UNCHANGED <<node, homeAgent, place, ticked, faults>>
    /\ UnderWay({r}, out')

(***************************************************************************)
(* The node hears its network unless it is on the way to the other one.    *)
(* An acceptance abroad puts its second timer back a full second.          *)
(***************************************************************************)
ToNode(r) ==
    /\ moving = 0
    /\ r.dst = mn
    /\ r.src = agentOf(at)
    /\ UNCHANGED <<homeAgent, foreignAgent, place, forgetful, faults>>
    /\ \/ (MN!IgnoreReply(r) \/ MN!AcceptHome(r)) /\ UNCHANGED ticked
       \/ MN!AcceptAbroad(r) /\ HasRun("connection")
    /\ NodePushes({r})

(***************************************************************************)
(* The node hears an advertisement, at most once a second.  The number of  *)
(* an agent that was not restarted wraps around to 0 now and then.         *)
(***************************************************************************)
Hear(a) ==
    /\ moving = 0
    /\ "hear" \notin ticked
    /\ ~AnyOrder => ticked = {}
    /\ MN!push_adv(a)
    /\ Fault(a.sequenceNum = 0 /\ Advertiser \notin forgetful)
    /\ ticked' = ticked \cup {"hear"}
    /\ UNCHANGED <<homeAgent, foreignAgent, place, forgetful>>
    /\ NodePushes({})

HomeAgentTimer ==
    /\ Due("ha")
    /\ HA!run_timer
    /\ UNCHANGED <<node, foreignAgent, place, forgetful, faults>>
    /\ HasRun("ha")
    /\ UnderWay({}, out')

ForeignAgentTimer ==
    /\ Due("fa")
    /\ \/ FA!run_timer /\ Fault(FALSE)
       \/ FA!run_timer_aborted /\ Fault(TRUE)
    /\ UNCHANGED <<node, homeAgent, place, forgetful>>
    /\ HasRun("fa")
    /\ UnderWay({}, out')

NodeTimer(t) ==
    /\ Due(t)
    /\ \/ t = "adv" /\ MN!run_timer_adv
       \/ t = "requests" /\ MN!run_timer_requests
       \/ t = "connection" /\ MN!run_timer_connection
    /\ UNCHANGED <<homeAgent, foreignAgent, place, forgetful, faults>>
    /\ HasRun(t)
    /\ NodePushes({})

-----------------------------------------------------------------------------
(***************************************************************************)
(* The three lines of to_foreign.sh and of to_home.sh: the node hears its  *)
(* network no more, it sends to the other one, it hears the other one.     *)
(***************************************************************************)
Move ==
    /\ ~AnyOrder => ticked \subseteq {"hear"}
    /\ Fault(moving = 0)
    /\ moving' = (moving + 1) % 3
    /\ at' = IF moving # 1 THEN at
             ELSE IF at = "home" THEN "foreign" ELSE "home"
    /\ out' = {}
    /\ UNCHANGED <<node, homeAgent, foreignAgent, net, ticked, forgetful>>

Restart ==
    /\ ~AnyOrder => ticked \subseteq {"hear"}
    /\ Fault(TRUE)
    /\ \/ /\ HA!Restart
          /\ forgetful' = forgetful \cup {"ha"}
          /\ UNCHANGED <<node, foreignAgent, ticked>>
       \/ /\ FA!Forget
          /\ forgetful' = forgetful \cup {"fa"}
          /\ UNCHANGED <<node, homeAgent, asked, granted, ticked>>
       \/ /\ MN!Restart
          /\ ticked' = ticked \ {"adv", "requests", "connection"}
          /\ UNCHANGED <<homeAgent, foreignAgent, forgetful>>
    /\ UNCHANGED <<net, at, moving>>

Init ==
    /\ MN!Init
    /\ HA!Init
    /\ registrationReq = <<>>
    /\ visitorMap = {}
    /\ scheduled = TRUE
    /\ asked = NodeRequests
    /\ granted = Grants
    /\ net = {}
    /\ at = "home"
    /\ moving = 0
    /\ ticked = {}
    /\ forgetful = {}
    /\ faults = 0

Next ==
    \/ \E p \in net : \/ ToHomeAgent(p) \/ RequestToForeignAgent(p)
                      \/ ReplyToForeignAgent(p) \/ ToNode(p)
    \/ \E a \in Advertised : Hear(a)
    \/ HomeAgentTimer
    \/ ForeignAgentTimer
    \/ \E t \in {"adv", "requests", "connection"} : NodeTimer(t)
    \/ Move
    \/ Restart

Spec == Init /\ [][Next]_vars

(***************************************************************************)
(* Timers run, a script that was started finishes, and a kind of packet    *)
(* that is sent again and again arrives again and again: advertisements    *)
(* that make the node ask (by what they offer, not by the number 0),       *)
(* requests on each of the two links, acceptances on each of the two       *)
(* links.  An agent can make a packet again and again.                     *)
(***************************************************************************)
Acceptance(r) == r.type = ReplyType /\ r.code = 0

FairSpec ==
    /\ Spec
    /\ WF_vars(HomeAgentTimer \/ ForeignAgentTimer
                 \/ \E t \in {"adv", "requests", "connection"} : NodeTimer(t))
    /\ WF_vars(moving > 0 /\ Move)
    /\ SF_vars(\E a \in Advertised : /\ a.sequenceNum # 0
                                      /\ Hear(a)
                                      /\ out' # {})
    /\ SF_vars(\E p \in net : ToHomeAgent(p) /\ out' # {})
    /\ SF_vars(\E p \in net : RequestToForeignAgent(p))
    /\ SF_vars(\E r \in net : Acceptance(r) /\ ReplyToForeignAgent(r))
    /\ SF_vars(\E r \in net : Acceptance(r) /\ ToNode(r))

-----------------------------------------------------------------------------
(***************************************************************************)
(* A node that stays in the foreign network is reachable there again and   *)
(* again (the home agent has a binding, the foreign agent a visitor, the   *)
(* node knows), although requests and replies get lost, the node never     *)
(* sends a request again by itself, and an agent that was restarted has    *)
(* forgotten it.  It may not be when the foreign agent had no memory for a *)
(* reply of its timer: the timer has stopped then, what is pending stays   *)
(* pending, and in the end every request is refused.                       *)
(***************************************************************************)
Reachable ==
    /\ Believes /\ curr_coa = fa
    /\ ~AtHome /\ table[mn].mobile_node_coa = fa
    /\ FA!inMapNode(mn)

Served == <>[](at = "foreign" /\ scheduled) => []<>Reachable

(***************************************************************************)
(* A node that has come home for good ends up without a binding and knows  *)
(* it is home, although the deregistration or its reply may get lost.      *)
(***************************************************************************)
Returned == <>[](at = "home") => <>[](home /\ AtHome)
=============================================================================
