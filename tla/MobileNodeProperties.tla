------------------------ MODULE MobileNodeProperties ------------------------
(***************************************************************************)
(* What the mobile node does right whatever agents it hears and whatever   *)
(* replies it gets, as properties of MobileNode.                           *)
(***************************************************************************)
EXTENDS MobileNode

(***************************************************************************)
(* The configurations the properties are meant for: every agent advertises *)
(* its public address, which is not that of the home agent in the home     *)
(* network, and offers fewer seconds than a byte holds.                    *)
(***************************************************************************)
PublicAddresses == \A a \in Advs : a.address # home_private_addr

ShortOffers == \A a \in Advs : a.reg_lifetime \in ByteLifetimes

(***************************************************************************)
(* Type correctness of the state of the mobile node.                       *)
(***************************************************************************)
TypeOK ==
    /\ home \in BOOLEAN
    /\ connected \in BOOLEAN
    /\ counting \in BOOLEAN
    /\ remainingConnectionTime \in Uint16
    /\ curr_private_addr \in Hosts
    /\ curr_coa \in Hosts
    /\ current_advertisements \in Seq(Advertisement)
    /\ currentRequests \subseteq RequestEntry
    /\ sent \subseteq Request

(***************************************************************************)
(* A node that believes it is home sends what leaves its network to its    *)
(* home agent (SetGateway), whatever requests of it are under way; the     *)
(* gateway of a foreign network is used only after its agent's acceptance. *)
(***************************************************************************)
HomeUsesHomeAgent ==
    home => curr_private_addr = home_private_addr

(***************************************************************************)
(* The node holds at most one advertisement per agent, and it sends a      *)
(* request only to an agent it holds an advertisement of at that moment:   *)
(* not to one that has just become busy or fallen silent.                  *)
(***************************************************************************)
RequestsToHeardAgents ==
    /\ \A j, k \in DOMAIN current_advertisements :
         SameAgent(current_advertisements[j], current_advertisements[k])
         => j = k
    /\ \A p \in sent : \E e \in Held :
         e.private_addr = p.dst /\ e.COA = p.coAddr

(***************************************************************************)
(* A reply comes in time when what it grants is not over yet: the seconds  *)
(* the request has waited for it are at most the seconds granted.          *)
(***************************************************************************)
InTime(r) ==
    \A q \in currentRequests : q.id = r.id =>
        Ntohs(q.requestedLifetime) - Ntohs(q.remainingLifetime)
          <= Ntohs(r.lifetime)

(***************************************************************************)
(* The time a node believes its registration to last never exceeds what    *)
(* the reply granted ("seconds for the message to expire",                 *)
(* registrationRequestReply.hh), whether that is all the request asked for *)
(* or less, and although the request has been aging since it was sent.     *)
(***************************************************************************)
TrustsWithinGrant ==
    [][\A r \in Incoming : Plausible(r) /\ InTime(r) /\ AcceptAbroad(r) =>
         Ntohs(remainingConnectionTime') <= Ntohs(r.lifetime)]_vars

(***************************************************************************)
(* The node does not believe itself connected for ever: the second timer   *)
(* or the loss of its agent ends it, unless replies keep renewing it.      *)
(***************************************************************************)
ConnectionLapses ==
    []<>~connected \/ []<><<\E r \in Incoming : AcceptAbroad(r)>>_vars

(***************************************************************************)
(* agentAdvertisements.hh says of the lifetime of an advertisement that it *)
(* is "the maximum length of time that the Advertisement is considered     *)
(* valid in the absence of further Adv.": one just heard is valid for its  *)
(* lifetime again.                                                         *)
(***************************************************************************)
HeardIsValid ==
    [][\A a \in Advs : UsableAdv(a) =>
         \E e \in Held' : SameAgent(e, a) /\ e.lifetime = a.lifetime]_vars
=============================================================================
