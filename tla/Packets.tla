------------------------------ MODULE Packets -------------------------------
(***************************************************************************)
(* The packets of the registration protocol.  A header is the record of    *)
(* the fields the elements read; "id" stands for the pair id1, id2 and the *)
(* mobile node's UDP port, which the mobile node draws together and        *)
(* everybody copies together.  "whole" is false for a packet shorter than  *)
(* its headers, "link" is the interface a packet comes from or leaves by.  *)
(***************************************************************************)
EXTENDS Wire

CONSTANTS Nodes,     \* home addresses of mobile nodes
          Hosts,     \* addresses of the agents
          Ids        \* identifications of registration requests

Links == {"private", "public"}

Addresses == Nodes \cup Hosts

(***************************************************************************)
(* The eight flag bits, as the set of the bits that are one.               *)
(***************************************************************************)
FlagBits == 0 .. 7

RequestType == 1

ReplyType == 3

Request == [type : Nat, whole : BOOLEAN, flags : SUBSET FlagBits,
            lifetime : Uint16, homeAddr : Nodes, homeAgent : Hosts,
            coAddr : Hosts, id : Ids, src : Addresses, dst : Addresses,
            link : Links]

Reply == [type : Nat, whole : BOOLEAN, code : Nat, lifetime : Uint16,
          homeAddr : Nodes, homeAgent : Hosts, id : Ids,
          src : Addresses, dst : Addresses, link : Links]

(***************************************************************************)
(* A datagram for a node and the IP-in-IP packet that carries it to a      *)
(* care-of address.                                                        *)
(***************************************************************************)
Datagram == [proto : {"ip"}, dst : Nodes, link : Links]

Tunnelled == [proto : {"ipip"}, dst : Hosts, inner : Nodes, link : Links]

(***************************************************************************)
(* The output of MobileIPFilter for a packet at the agent with public      *)
(* address "self".                                                         *)
(***************************************************************************)
MobileIPFilter(self, p) ==
    CASE p.type = ReplyType -> 1
      [] p.type = RequestType /\ p.homeAgent = self -> 2
      [] p.type = RequestType /\ p.homeAgent # self -> 3
      [] OTHER -> 0
=============================================================================
