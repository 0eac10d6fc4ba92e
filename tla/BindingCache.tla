---------------------------- MODULE BindingCache ----------------------------
(***************************************************************************)
(* What a home agent promises, in seconds and without byte order, lists or *)
(* identifications: it keeps at most one binding per mobile node, lets it  *)
(* lapse when its time is over, never grants more time than it keeps the   *)
(* binding for, and routes by the binding it has.                          *)
(***************************************************************************)
EXTENDS Naturals

CONSTANTS Nodes, Hosts, MaxSeconds, NoBinding

VARIABLES binding,   \* the care-of address and seconds left of each node
          granted,   \* what the last step answered to a registration
          routed     \* where the last step sent a datagram

bvars == <<binding, granted, routed>>

Binding == [coa : Hosts, left : 1 .. MaxSeconds]

Idle == granted' = {} /\ routed' = {}

BInit ==
    /\ binding = [n \in Nodes |-> NoBinding]
    /\ granted = {}
    /\ routed = {}

Bind(n, c, s) ==
    /\ binding' = [binding EXCEPT ![n] = [coa |-> c, left |-> s]]
    /\ \E g \in 1 .. s : granted' = {[node |-> n, seconds |-> g]}
    /\ routed' = {}

Unbind(n) ==
    /\ binding' = [binding EXCEPT ![n] = NoBinding]
    /\ granted' = {[node |-> n, seconds |-> 0]}
    /\ routed' = {}

Refuse ==
    /\ UNCHANGED binding
    /\ Idle

Elapse ==
    /\ binding' = [n \in Nodes |->
                     IF binding[n] = NoBinding \/ binding[n].left = 1
                       THEN NoBinding
                       ELSE [binding[n] EXCEPT !.left = @ - 1]]
    /\ Idle

Route(n) ==
    /\ routed' = {[node |-> n,
                   via |-> IF binding[n] = NoBinding THEN {}
                           ELSE {binding[n].coa}]}
    /\ granted' = {}
    /\ UNCHANGED binding

Forget ==
    /\ binding' = [n \in Nodes |-> NoBinding]
    /\ Idle

BNext ==
    \/ \E n \in Nodes, c \in Hosts, s \in 1 .. MaxSeconds : Bind(n, c, s)
    \/ \E n \in Nodes : Unbind(n) \/ Route(n)
    \/ Refuse
    \/ Elapse
    \/ Forget

BSpec == BInit /\ [][BNext]_bvars
=============================================================================
