------------------------------ MODULE Discovery ------------------------------
(***************************************************************************)
(* How a node finds the agent of the network it is in: AgentSolicitation   *)
(* asks every five seconds, the agent's SolicitationFilter finds the       *)
(* question, AgentAdvertiser answers it, the node's AdvFilter finds the    *)
(* answer.  Broadcasts get lost and cannot always be made, other nodes     *)
(* solicit as well, the node comes and goes, and both are restarted.       *)
(***************************************************************************)
EXTENDS AgentAdvertiser

CONSTANTS period,               \* 5000 ms, in units of the clock
          maxRetransmissions    \* MAXR

ASSUME SolicitationAssumption ==
    /\ period \in Nat \ {0}
    /\ maxRetransmissions \in Nat \ {0}

VARIABLES transmissions,   \* solicitations since the last rest
          wait,            \* time until the timer of AgentSolicitation runs
          air,             \* the broadcasts under way in the network
          since,           \* time since the node came or heard (capped)
          heard,           \* whether it has heard an advertisement just now
          lost             \* whether something it waited for was lost

node == <<transmissions, wait, since, heard, lost>>
all == <<vars, node, air>>

(***************************************************************************)
(* The fields of a packet that the two filters look at.                    *)
(***************************************************************************)
Solicitation ==
    [length |-> "solicitation", ip_p |-> 1, broadcast |-> TRUE, type |-> 10,
     code |-> 0, typeEx |-> 0]

Advertised ==
    [length |-> "advertisement", ip_p |-> 1, broadcast |-> TRUE, type |-> 9,
     code |-> 0, typeEx |-> 16]

Killed == -1

AdvFilter(p) ==
    IF p.length = "advertisement" /\ p.ip_p = 1 /\ p.broadcast
      THEN IF p.typeEx = 16 /\ p.type = 9 /\ p.code = 0 THEN 1 ELSE Killed
      ELSE 0

SolicitationFilter(p) ==
    IF p.length = "solicitation" /\ p.ip_p = 1 /\ p.broadcast
      THEN IF p.type = 10 /\ p.code = 0 THEN 1 ELSE Killed
      ELSE 0

-----------------------------------------------------------------------------
(***************************************************************************)
(* Slip: the rest after the last solicitation is a whole period.           *)
(***************************************************************************)
RestLong ==
    /\ wait = 0
    /\ transmissions = maxRetransmissions
    /\ transmissions' = 0
    /\ wait' = period
    /\ UNCHANGED <<vars, air, since, heard, lost>>

(***************************************************************************)
(* run_timer of AgentSolicitation.  The millisecond it rests after the     *)
(* last solicitation is less than a unit of the clock.                     *)
(***************************************************************************)
Rest ==
    /\ wait = 0
    /\ transmissions = maxRetransmissions
    /\ transmissions' = 0
    /\ UNCHANGED <<vars, air, wait, since, heard, lost>>

Solicit ==
    /\ wait = 0
    /\ transmissions # maxRetransmissions
    /\ transmissions' = transmissions + 1
    /\ wait' = period
    /\ \/ air' = air \cup {Solicitation} /\ UNCHANGED lost
       \/ AllocMayFail /\ lost' = TRUE /\ UNCHANGED air
    /\ UNCHANGED <<vars, since, heard>>

(***************************************************************************)
(* The agent answers a solicitation that it hears, of this node or of      *)
(* another, and advertises when its timer runs.                            *)
(***************************************************************************)
Broadcast(gone) ==
    /\ air' = (air \ gone) \cup (IF sent' = {} THEN {} ELSE {Advertised})
    /\ lost' = (lost \/ sent' = {})
    /\ UNCHANGED <<transmissions, wait, since, heard>>

Answer(p) ==
    /\ SolicitationFilter(p) = 1
    /\ push
    /\ Broadcast({p})

AnswerOther == push /\ Broadcast({})

Advertise == run_timer /\ Broadcast({})

(***************************************************************************)
(* The node hears an advertisement.  What it does with it is the subject   *)
(* of MobileNode.                                                          *)
(***************************************************************************)
Hear(p) ==
    /\ AdvFilter(p) = 1
    /\ air' = air \ {p}
    /\ since' = 0
    /\ heard' = TRUE
    /\ lost' = FALSE
    /\ UNCHANGED <<vars, transmissions, wait>>

Lose(p) ==
    /\ air' = air \ {p}
    /\ lost' = TRUE
    /\ UNCHANGED <<vars, transmissions, wait, since, heard>>

(***************************************************************************)
(* The node enters the network, its own timer at any point.                *)
(***************************************************************************)
Arrive ==
    /\ air' = {}
    /\ since' = 0
    /\ heard' = FALSE
    /\ lost' = FALSE
    /\ UNCHANGED <<vars, transmissions, wait>>

RestartNode ==
    /\ transmissions' = 0
    /\ wait' = 0
    /\ UNCHANGED <<vars, air, since, heard, lost>>

RestartAgent ==
    /\ Restart
    /\ UNCHANGED <<node, air>>

(***************************************************************************)
(* Timers that are due run before time goes on, and a broadcast arrives    *)
(* within a unit of it or not at all.                                      *)
(***************************************************************************)
Pass ==
    /\ Tick
    /\ wait > 0
    /\ air = {}
    /\ wait' = wait - 1
    /\ since' = IF since <= period THEN since + 1 ELSE since
    /\ heard' = FALSE
    /\ UNCHANGED <<transmissions, air, lost>>

InitDiscovery ==
    /\ Init
    /\ transmissions = 0
    /\ wait = 0
    /\ air = {}
    /\ since = 0
    /\ heard = FALSE
    /\ lost = FALSE

NextDiscovery ==
    \/ Rest \/ Solicit \/ AnswerOther \/ Advertise \/ Arrive
    \/ RestartNode \/ RestartAgent \/ Pass
    \/ \E p \in air : Answer(p) \/ Hear(p) \/ Lose(p)

(***************************************************************************)
(* Timers run, time passes whatever happens in a unit of it, and packets   *)
(* can be made, and arrive, again and again.                               *)
(***************************************************************************)
SpecDiscovery ==
    /\ InitDiscovery /\ [][NextDiscovery]_all
    /\ WF_all(Rest) /\ WF_all(Solicit) /\ WF_all(Advertise)
    /\ SF_all(Pass)
    /\ SF_all(Solicit /\ air' # air)
    /\ SF_all(\E p \in air : Answer(p) /\ sent' # {})
    /\ SF_all(\E p \in air : Hear(p))

-----------------------------------------------------------------------------
(***************************************************************************)
(* Type correctness of both elements.                                      *)
(***************************************************************************)
TypeOKDiscovery ==
    /\ TypeOK
    /\ transmissions \in 0 .. maxRetransmissions
    /\ wait \in 0 .. period
    /\ air \subseteq {Solicitation, Advertised}
    /\ since \in 0 .. (period + 1)
    /\ heard \in BOOLEAN /\ lost \in BOOLEAN

(***************************************************************************)
(* "maakt en stuurt om de 5 seconden een solicitation": while nothing gets *)
(* lost, a node that has come into the network hears its agent within one  *)
(* period, whatever the agent's own interval, and goes on hearing it that  *)
(* often, across the rests of AgentSolicitation and although every answer  *)
(* puts the agent's own timer back.                                        *)
(***************************************************************************)
HeardSoon == lost \/ since <= period

(***************************************************************************)
(* A node hears its agent again and again although broadcasts get lost and *)
(* solicitations of other nodes put the agent's timer back as often as     *)
(* they like.                                                              *)
(***************************************************************************)
HeardAgain == []<>heard
=============================================================================
