-------------------------- MODULE AgentAdvertiser ---------------------------
(***************************************************************************)
(* The element AgentAdvertiser: an agent advertises itself every interval, *)
(* give or take a random term, and once more for every solicitation.       *)
(***************************************************************************)
EXTENDS Wire

CONSTANTS interval,      \* INTERVAL, in units of the clock
          jitter,        \* the bound of the random term, in the same units
          lifetimeAdv,   \* LTADV, in the same units
          AllocMayFail   \* whether Packet::make may return no packet

(***************************************************************************)
(* configure refuses an interval of more than a third of the lifetime; the *)
(* random term is not part of its test.                                    *)
(***************************************************************************)
ASSUME AdvertiserAssumption ==
    /\ interval \in Nat
    /\ jitter \in 1 .. interval
    /\ lifetimeAdv \in Nat
    /\ interval * 3 <= lifetimeAdv
    /\ AllocMayFail \in BOOLEAN

VARIABLES sequenceNum,   \* the number of the next advertisement, raw
          due,           \* time until the timer runs
          age,           \* time since the last advertisement but two, the
                         \* last but one and the last (capped)
          last,          \* the last number put on the wire, if any
          missed,        \* whether some advertisement could not be made
          sent           \* the numbers the last step put on the wire

vars == <<sequenceNum, due, age, last, missed, sent>>

Cap == lifetimeAdv + 1

Delays == (interval - jitter) .. (interval + jitter - 1)

-----------------------------------------------------------------------------
(***************************************************************************)
(* Slip: the sum is kept in a type wider than uint16_t.                    *)
(***************************************************************************)
NextNumberUnwrapped(raw) ==
    IF raw = Word - 1 THEN Htons(Byte) ELSE raw + Htons(1)

(***************************************************************************)
(* createPacket, and the two calls of it.  The number advances only when a *)
(* packet was made.                                                        *)
(***************************************************************************)
NextNumber(raw) ==
    IF raw = Word - 1 THEN Htons(Byte) ELSE Add16(raw, Htons(1))

(***************************************************************************)
(* Slip: the number advances although no packet was made.                  *)
(***************************************************************************)
createPacketSkipping ==
    /\ sequenceNum' = NextNumber(sequenceNum)
    /\ \/ /\ age' = <<age[2], age[3], 0>>
          /\ sent' = {sequenceNum}
          /\ last' = {sequenceNum}
          /\ UNCHANGED missed
       \/ /\ AllocMayFail
          /\ sent' = {}
          /\ missed' = TRUE
          /\ UNCHANGED <<age, last>>

createPacket ==
    \/ /\ sequenceNum' = NextNumber(sequenceNum)
       /\ age' = <<age[2], age[3], 0>>
       /\ sent' = {sequenceNum}
       /\ last' = {sequenceNum}
       /\ UNCHANGED missed
    \/ /\ AllocMayFail
       /\ sent' = {}
       /\ missed' = TRUE
       /\ UNCHANGED <<sequenceNum, age, last>>

(***************************************************************************)
(* Slip: a solicitation restarts the timer and is not answered.            *)
(***************************************************************************)
push_unanswered ==
    /\ due' \in Delays
    /\ sent' = {}
    /\ UNCHANGED <<sequenceNum, age, last, missed>>

push ==
    /\ createPacket
    /\ due' \in Delays

run_timer ==
    /\ due = 0
    /\ createPacket
    /\ due' \in Delays

(***************************************************************************)
(* A unit of time passes; a timer that is due runs first.                  *)
(***************************************************************************)
Tick ==
    /\ due > 0
    /\ due' = due - 1
    /\ age' = [k \in 1 .. 3 |-> IF age[k] < Cap THEN age[k] + 1 ELSE Cap]
    /\ sent' = {}
    /\ UNCHANGED <<sequenceNum, last, missed>>

Init ==
    /\ sequenceNum = Htons(0)
    /\ due = 0
    /\ age = <<0, 0, 0>>
    /\ last = {}
    /\ missed = FALSE
    /\ sent = {}

Restart ==
    /\ sequenceNum' = Htons(0)
    /\ due' = 0
    /\ age' = <<0, 0, 0>>
    /\ last' = {}
    /\ missed' = FALSE
    /\ sent' = {}

Next == push \/ run_timer \/ Tick \/ Restart

Spec == Init /\ [][Next]_vars

-----------------------------------------------------------------------------
(***************************************************************************)
(* Type correctness of the advertiser.                                     *)
(***************************************************************************)
TypeOK ==
    /\ sequenceNum \in Uint16
    /\ due \in 0 .. (interval + jitter)
    /\ age \in [1 .. 3 -> 0 .. Cap]
    /\ last \subseteq Uint16
    /\ missed \in BOOLEAN
    /\ sent \subseteq Uint16

(***************************************************************************)
(* Two advertisements in a row may be lost: while every advertisement can  *)
(* be made, the last three, solicited ones included, were sent within the  *)
(* lifetime of one, the reason for the test in configure.  That test       *)
(* leaves out the random term; the lifetime needs room for it as well.     *)
(***************************************************************************)
RoomForJitter == 3 * (interval + jitter - 1) <= lifetimeAdv

ThreeWithinLifetime == RoomForJitter /\ ~missed => age[1] <= lifetimeAdv

(***************************************************************************)
(* Until the number fills a byte, a listener hears the numbers in turn and *)
(* without a gap, solicited advertisements included and also across those  *)
(* that could not be made, so that a number out of turn means              *)
(* advertisements lost on the way or a restart.                            *)
(***************************************************************************)
NumbersInTurn ==
    [][\A old \in last, new \in sent' :
         Ntohs(old) + 1 # Byte => Ntohs(new) = Ntohs(old) + 1]_vars

(***************************************************************************)
(* The numbers as the header declares them, "max 0xffff" and               *)
(* "in 0 -> 0xffff", and as createPacket means to follow 0xffff, by 256:   *)
(* the number 0 comes from an agent that was started and from no other.    *)
(* The code does not keep to it: it adds htons(1) to the raw number, and   *)
(* 0 follows 255.                                                          *)
(***************************************************************************)
NumbersWithoutGap ==
    [][\A old \in last, new \in sent' :
         Ntohs(new) = IF Ntohs(old) = Word - 1 THEN Byte
                      ELSE Ntohs(old) + 1]_vars
=============================================================================
