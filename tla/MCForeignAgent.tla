--------------------------- MODULE MCForeignAgent ---------------------------
(***************************************************************************)
(* Instances of ForeignAgent for TLC.                                      *)
(***************************************************************************)
EXTENDS ForeignAgentProperties

CONSTANTS ha, fa, fap, n1, n2

(***************************************************************************)
(* A request of node n for s seconds as it arrives from the visited        *)
(* network, and a reply of the home agent as it arrives from the public    *)
(* one.  Seconds are converted as the elements convert them.               *)
(***************************************************************************)
Ask(n, i, s, fl) ==
    [type |-> RequestType, whole |-> TRUE, flags |-> fl, lifetime |-> Htons(s),
     homeAddr |-> n, homeAgent |-> ha, coAddr |-> fa, id |-> i,
     src |-> n, dst |-> fap, link |-> "private"]

Answer(n, i, s, c) ==
    [type |-> ReplyType, whole |-> TRUE, code |-> c, lifetime |-> Htons(s),
     homeAddr |-> n, homeAgent |-> ha, id |-> i,
     src |-> ha, dst |-> fa, link |-> "public"]

Truncated(p) == [p EXCEPT !.whole = FALSE]

(***************************************************************************)
(* Two registrations of one node, with the replies that accept them, one   *)
(* for less than was asked and one in full, or refuse; one of another node *)
(* for no time at all, whose remaining lifetime wraps around, and an       *)
(* acceptance of it; requests the agent refuses; truncated packets.        *)
(***************************************************************************)
Crossing ==
    {Ask(n1, 1, 3, {}), Ask(n1, 2, 2, {}), Ask(n2, 3, 0, {}),
     Ask(n2, 3, 4, {}), Ask(n2, 3, 3, {0}), Ask(n2, 3, 3, {4}),
     Truncated(Ask(n2, 3, 3, {})),
     Answer(n1, 1, 2, 0), Answer(n1, 2, 2, 0), Answer(n1, 1, 3, 134),
     Answer(n2, 3, 0, 1), Truncated(Answer(n1, 1, 2, 0))}

(***************************************************************************)
(* One request for 9 seconds and one for 5, which is less than the agent   *)
(* waits for a reply, with the constants of the code.                      *)
(***************************************************************************)
Waiting ==
    {Ask(n1, 1, 9, {}), Ask(n1, 2, 5, {}), Answer(n1, 1, 9, 0)}
=============================================================================
