---------------------------- MODULE MCMobileNode ----------------------------
(***************************************************************************)
(* Instances of MobileNode for TLC.                                        *)
(***************************************************************************)
EXTENDS MobileNodeProperties

CONSTANTS ha, hap, fa, fap, ga, gap

(***************************************************************************)
(* An advertisement of the agent with the addresses given, with sequence   *)
(* number k, valid for v seconds and offering registrations of s seconds.  *)
(***************************************************************************)
Adv(pub, priv, k, v, s, fl) ==
    [private_addr |-> priv, address |-> pub, COA |-> pub,
     lifetime |-> Htons(v), reg_lifetime |-> Htons(s),
     sequenceNum |-> Htons(k), flags |-> fl]

Both == {4, 5, 7}

Granted(i, s) ==
    [type |-> ReplyType, whole |-> TRUE, code |-> 0, lifetime |-> Htons(s),
     homeAddr |-> myAddress, homeAgent |-> ha, id |-> i,
     src |-> hap, dst |-> myAddress, link |-> "private"]

(***************************************************************************)
(* The home agent, a foreign agent that gets busy and is reset, and        *)
(* another one; replies that grant what was asked for or less, a denial.   *)
(***************************************************************************)
Neighbours ==
    {Adv(ha, hap, 0, 1, 3, Both), Adv(fa, fap, 0, 1, 3, Both),
     Adv(fa, fap, 1, 1, 3, Both), Adv(fa, fap, 1, 1, 3, Both \cup {6}),
     Adv(ga, gap, 2, 1, 3, {4, 7})}

Grants ==
    {Granted(i, s) : i \in Ids, s \in {0, 1, 3}}
    \cup {[Granted(i, 3) EXCEPT !.code = 78] : i \in Ids}

(***************************************************************************)
(* A foreign agent with the lifetimes of the deployment in the scripts.    *)
(***************************************************************************)
Roaming ==
    {Adv(fa, fap, k, 60, 25, Both) : k \in {0, 1, 2}}
=============================================================================
