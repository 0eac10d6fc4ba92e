---------------------------- MODULE MCHomeAgent -----------------------------
(***************************************************************************)
(* Instances of HomeAgent for TLC.                                         *)
(***************************************************************************)
EXTENDS HomeAgentProperties, FiniteSets

CONSTANTS ha, fa1, fa2

(***************************************************************************)
(* The requests of one node through a foreign agent or from home, with the *)
(* flags given.  Seconds are converted as the mobile node converts them.   *)
(***************************************************************************)
Via(f, n, i, s, fl) ==
    [type |-> RequestType, whole |-> TRUE, flags |-> fl, lifetime |-> Htons(s),
     homeAddr |-> n, homeAgent |-> ha, coAddr |-> f, id |-> i,
     src |-> f, dst |-> ha, link |-> "public"]

FromHome(n, i, fl) ==
    [type |-> RequestType, whole |-> TRUE, flags |-> fl, lifetime |-> 0,
     homeAddr |-> n, homeAgent |-> ha, coAddr |-> ha, id |-> i,
     src |-> n, dst |-> ha, link |-> "private"]

(***************************************************************************)
(* Two registrations through either agent of 3 and 2 seconds, a            *)
(* deregistration, requests the agent must refuse, a truncated packet.     *)
(***************************************************************************)
ShortIncoming ==
    {Via(f, n, 1, 3, {}) : f \in {fa1, fa2}, n \in Nodes}
    \cup {Via(f, n, 2, 2, {}) : f \in {fa1, fa2}, n \in Nodes}
    \cup {FromHome(n, 3, {}) : n \in Nodes}
    \cup {Via(fa1, n, 4, 3, {b}) : n \in Nodes, b \in {0, 5}}
    \cup {[FromHome(n, 5, {}) EXCEPT !.whole = FALSE] : n \in Nodes}

(***************************************************************************)
(* A registration for 300 seconds: it needs both bytes of the field.       *)
(***************************************************************************)
LongIncoming == {Via(fa1, n, 1, 300, {}) : n \in Nodes}
=============================================================================
