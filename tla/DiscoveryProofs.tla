--------------------------- MODULE DiscoveryProofs ---------------------------
(***************************************************************************)
(* Proofs about AgentAdvertiser and Discovery, for every interval, random  *)
(* term, lifetime, period and limit that configure accepts.                *)
(***************************************************************************)
EXTENDS Discovery, BasicProofs

(***************************************************************************)
(* The number after htons(k) is that of the next k, and of 0 after the     *)
(* last k that fits in a byte: the test for 0xffff never holds.            *)
(***************************************************************************)
LEMMA NumberAfter ==
    ASSUME NEW k \in 0 .. (Byte - 1)
    PROVE  NextNumber(Htons(k)) = Htons((k + 1) % Byte)
<1>1. /\ Htons(k) = k * Byte
      /\ Htons(1) = 1 * Byte
      /\ Htons(0) = 0 * Byte
      /\ k + 1 < Byte => Htons(k + 1) = (k + 1) * Byte
  BY HtonsOfByte, ByteAssumption
<1>2. ASSUME NEW b \in Nat, b >= 2, NEW t \in 0 .. (b - 1)
      PROVE  /\ t * b \in Int /\ b * b \in Int
             /\ t * b # b * b - 1
             /\ t * b + b = (t + 1) * b
             /\ t + 1 < b => (t + 1) * b < b * b
             /\ t + 1 = b => (t + 1) * b = b * b
  <2>1. t * b \in Int /\ b * b \in Int /\ t * b + b = (t + 1) * b
    BY <1>2
  <2>2. t + 1 < b => (t + 1) * b < b * b
    BY <1>2
  <2>3. t * b <= (b - 1) * b /\ (b - 1) * b = b * b - b
    BY <1>2
  <2> QED
    BY <1>2, <2>1, <2>2, <2>3
<1>3. Byte \in Nat /\ Byte >= 2
  BY ByteAssumption, Zenon
<1>4. CASE k + 1 < Byte
  <2>1. (k + 1) % Byte = k + 1
    BY <1>3, <1>4
  <2> QED
    BY <1>1, <1>2, <1>3, <1>4, <2>1 DEF NextNumber, Add16, Word
<1>5. CASE k + 1 = Byte
  <2>1. (k + 1) % Byte = 0
    BY <1>3, <1>5
  <2> QED
    BY <1>1, <1>2, <1>3, <1>5, <2>1 DEF NextNumber, Add16, Word
<1> QED
  BY <1>3, <1>4, <1>5

-----------------------------------------------------------------------------
(***************************************************************************)
(* The advertiser.  Its number is htons(k) for some k of one byte and the  *)
(* one after the last it put on the wire.  No advertisement is older than  *)
(* the longest delays since allow, counted to the next run of the timer.   *)
(***************************************************************************)
LongestDelay == interval + jitter - 1

NumbersInv ==
    /\ sequenceNum \in ByteLifetimes
    /\ \A old \in last : old \in ByteLifetimes /\ sequenceNum = NextNumber(old)

AgesInv ==
    ~missed => /\ age[3] + due <= LongestDelay
               /\ age[2] + due <= 2 * LongestDelay
               /\ age[1] + due <= 3 * LongestDelay

IInv == TypeOK /\ NumbersInv /\ AgesInv

(***************************************************************************)
(* The numbers of one byte are closed under counting.                      *)
(***************************************************************************)
LEMMA NumbersClosed ==
    ASSUME NEW raw \in ByteLifetimes
    PROVE  /\ NextNumber(raw) \in ByteLifetimes
           /\ raw \in Uint16
           /\ Ntohs(raw) + 1 # Byte =>
                Ntohs(NextNumber(raw)) = Ntohs(raw) + 1
<1>1. PICK k \in 0 .. (Byte - 1) : raw = Htons(k)
  BY Zenon DEF ByteLifetimes
<1>2. /\ (k + 1) % Byte \in 0 .. (Byte - 1)
      /\ k + 1 # Byte => (k + 1) % Byte = k + 1
  BY ByteAssumption
<1> QED
  BY <1>1, <1>2, NumberAfter, HtonsRange, NtohsOfHtons, Zenon DEF ByteLifetimes

(***************************************************************************)
(* A delay the advertiser draws.                                           *)
(***************************************************************************)
LEMMA DelayRange ==
    ASSUME NEW d \in Delays
    PROVE  d \in Nat /\ d <= LongestDelay /\ d \in 0 .. (interval + jitter)
BY AdvertiserAssumption DEF Delays, LongestDelay

(***************************************************************************)
(* One more of the longest delays.                                         *)
(***************************************************************************)
LEMMA OneMoreDelay ==
    ASSUME NEW a \in Nat, NEW d \in Nat, NEW D \in Nat, d <= D
    PROVE  /\ 0 + d <= D
           /\ a <= D => a + d <= 2 * D
           /\ a <= 2 * D => a + d <= 3 * D
OBVIOUS

(***************************************************************************)
(* The advertiser starts in its invariant.                                 *)
(***************************************************************************)
LEMMA InitAdvertiser == Init => IInv
<1> SUFFICES ASSUME Init PROVE IInv
  BY Zenon
<1> USE ByteAssumption, AdvertiserAssumption
<1>1. 0 \in 0 .. (Byte - 1)
  OBVIOUS
<1>2. sequenceNum \in ByteLifetimes /\ sequenceNum \in Uint16
  BY <1>1, HtonsRange, Zenon DEF Init, ByteLifetimes
<1>3. age \in [1 .. 3 -> 0 .. Cap]
  BY DEF Init, Cap
<1>4. TypeOK
  <2>1. due \in 0 .. (interval + jitter)
    BY DEF Init
  <2>2. missed \in BOOLEAN /\ last \subseteq Uint16 /\ sent \subseteq Uint16
    BY Zenon DEF Init
  <2> QED
    BY <1>2, <1>3, <2>1, <2>2, Zenon DEF TypeOK
<1>5. NumbersInv
  BY <1>2, Zenon DEF Init, NumbersInv
<1>6. AgesInv
  BY DEF Init, AgesInv, LongestDelay
<1> QED
  BY <1>4, <1>5, <1>6, Zenon DEF IInv

(***************************************************************************)
(* An advertisement, solicited or not, keeps the invariant.                *)
(***************************************************************************)
LEMMA AdvertisementKeeps ==
    ASSUME IInv, createPacket, due' \in Delays
    PROVE  IInv'
<1> USE AdvertiserAssumption
<1>1. /\ due' \in Nat /\ due' <= LongestDelay
      /\ due' \in 0 .. (interval + jitter) /\ LongestDelay \in Nat
      /\ Cap \in Nat
  BY DelayRange DEF LongestDelay, Cap
<1>2. /\ sequenceNum \in ByteLifetimes /\ due \in Nat
      /\ age \in [1 .. 3 -> 0 .. Cap]
  BY DEF IInv, NumbersInv, TypeOK
<1>3. CASE /\ sequenceNum' = NextNumber(sequenceNum)
           /\ age' = <<age[2], age[3], 0>>
           /\ sent' = {sequenceNum} /\ last' = {sequenceNum}
           /\ UNCHANGED missed
  <2>1. /\ sequenceNum' \in ByteLifetimes /\ sequenceNum' \in Uint16
        /\ sequenceNum \in Uint16
    BY <1>2, <1>3, NumbersClosed, Zenon
  <2>2. /\ age' \in [1 .. 3 -> 0 .. Cap]
        /\ age'[1] = age[2] /\ age'[2] = age[3] /\ age'[3] = 0
    BY <1>1, <1>2, <1>3
  <2>3. TypeOK'
    BY <1>1, <1>3, <2>1, <2>2, Zenon DEF IInv, TypeOK
  <2>4. NumbersInv'
    <3>1. \A old \in last' : old \in ByteLifetimes
                             /\ sequenceNum' = NextNumber(old)
      BY <1>2, <1>3, Zenon
    <3> QED
      BY <2>1, <3>1, Zenon DEF NumbersInv, NextNumber
  <2>5. AgesInv'
    <3> SUFFICES ASSUME ~missed'
                 PROVE  /\ age'[3] + due' <= LongestDelay
                        /\ age'[2] + due' <= 2 * LongestDelay
                        /\ age'[1] + due' <= 3 * LongestDelay
      BY Zenon DEF AgesInv, LongestDelay
    <3>1. ~missed
      BY <1>3, Zenon
    <3>2. /\ age[3] + due <= LongestDelay
          /\ age[2] + due <= 2 * LongestDelay
      BY <3>1, Zenon DEF IInv, AgesInv
    <3>3. age[2] \in Nat /\ age[3] \in Nat
      BY <1>1, <1>2
    <3>4. age[3] <= LongestDelay /\ age[2] <= 2 * LongestDelay
      BY <1>1, <1>2, <3>2, <3>3
    <3>5. /\ 0 + due' <= LongestDelay
          /\ age[3] + due' <= 2 * LongestDelay
          /\ age[2] + due' <= 3 * LongestDelay
      BY <1>1, <3>3, <3>4, OneMoreDelay, Zenon
    <3> QED
      BY <2>2, <3>5, Zenon
  <2> QED
    BY <2>3, <2>4, <2>5, Zenon DEF IInv
<1>4. CASE /\ sent' = {} /\ missed' = TRUE
           /\ UNCHANGED <<sequenceNum, age, last>>
  BY <1>1, <1>4, Zenon DEF IInv, TypeOK, NumbersInv, NextNumber, AgesInv
<1> QED
  BY <1>3, <1>4, Zenon DEF createPacket

(***************************************************************************)
(* The invariant of the advertiser is inductive.                           *)
(***************************************************************************)
LEMMA AdvertiserInductive == IInv /\ [Next]_vars => IInv'
<1> SUFFICES ASSUME IInv, [Next]_vars PROVE IInv'
  BY Zenon
<1> USE AdvertiserAssumption
<1>1. CASE push \/ run_timer
  BY <1>1, AdvertisementKeeps, Zenon DEF push, run_timer
<1>2. CASE Tick
  <2>1. /\ due \in Nat \ {0} /\ due' = due - 1 /\ Cap \in Nat
        /\ due \in 0 .. (interval + jitter)
        /\ age \in [1 .. 3 -> 0 .. Cap]
        /\ age' = [k \in 1 .. 3 |-> IF age[k] < Cap THEN age[k] + 1 ELSE Cap]
        /\ sent' = {} /\ UNCHANGED <<sequenceNum, last, missed>>
    BY <1>2 DEF Tick, IInv, TypeOK, Cap
  <2>2. /\ age' \in [1 .. 3 -> 0 .. Cap]
        /\ \A k \in 1 .. 3 : age'[k] <= age[k] + 1
    BY <2>1
  <2>3. TypeOK'
    BY <2>1, <2>2 DEF IInv, TypeOK
  <2>4. NumbersInv'
    BY <2>1, Zenon DEF IInv, NumbersInv, NextNumber
  <2>5. AgesInv'
    <3>1. \A k \in 1 .. 3 : age[k] \in Nat /\ age'[k] \in Nat
      BY <2>1, <2>2
    <3> QED
      BY <2>1, <2>2, <3>1 DEF IInv, AgesInv, LongestDelay
  <2> QED
    BY <2>3, <2>4, <2>5, Zenon DEF IInv
<1>3. CASE Restart
  <2>1. Init'
    BY <1>3, Zenon DEF Restart, Init
  <2> QED
    BY <2>1, InitAdvertiser, PTL
<1>4. CASE UNCHANGED vars
  BY <1>4, Zenon DEF vars, IInv, TypeOK, NumbersInv, NextNumber, AgesInv
<1> QED
  BY <1>1, <1>2, <1>3, <1>4, Zenon DEF Next

-----------------------------------------------------------------------------
(***************************************************************************)
(* Types: above all, the number stays within its uint16_t.                 *)
(***************************************************************************)
THEOREM AdvertiserTypeOK == Spec => []TypeOK
BY InitAdvertiser, AdvertiserInductive, PTL DEF Spec, IInv

(***************************************************************************)
(* The last three advertisements were sent within the lifetime of one when *)
(* the lifetime has room for three of the longest delays.                  *)
(***************************************************************************)
THEOREM AdvertiserThreeWithinLifetime == Spec => []ThreeWithinLifetime
<1>1. IInv => ThreeWithinLifetime
  <2> SUFFICES ASSUME IInv, RoomForJitter, ~missed PROVE age[1] <= lifetimeAdv
    BY Zenon DEF ThreeWithinLifetime
  <2>1. age[1] \in Nat /\ due \in Nat
    BY AdvertiserAssumption DEF IInv, TypeOK, Cap
  <2>2. age[1] + due <= 3 * LongestDelay
    BY Zenon DEF IInv, AgesInv
  <2> QED
    BY <2>1, <2>2, AdvertiserAssumption DEF RoomForJitter, LongestDelay
<1> QED
  BY <1>1, InitAdvertiser, AdvertiserInductive, PTL DEF Spec

(***************************************************************************)
(* Until the number fills a byte, a listener hears every number in turn.   *)
(***************************************************************************)
THEOREM AdvertiserNumbersInTurn == Spec => NumbersInTurn
<1> DEFINE InTurn == \A old \in last, new \in sent' :
                       Ntohs(old) + 1 # Byte => Ntohs(new) = Ntohs(old) + 1
<1>1. IInv /\ [Next]_vars => [InTurn]_vars
  <2> SUFFICES ASSUME IInv, Next, NEW old \in last, NEW new \in sent',
                      Ntohs(old) + 1 # Byte
               PROVE  Ntohs(new) = Ntohs(old) + 1
    BY Zenon
  <2>1. old \in ByteLifetimes /\ sequenceNum = NextNumber(old)
    BY Zenon DEF IInv, NumbersInv
  <2>2. new = sequenceNum
    BY Zenon DEF Next, push, run_timer, createPacket, Tick, Restart
  <2> QED
    BY <2>1, <2>2, NumbersClosed, Zenon
<1> QED
  BY <1>1, InitAdvertiser, AdvertiserInductive, PTL DEF Spec, NumbersInTurn

-----------------------------------------------------------------------------
(***************************************************************************)
(* The node.  While nothing is lost and nothing is under way, the next     *)
(* solicitation comes no later than a period after the node last heard;    *)
(* time does not pass while something is under way.                        *)
(***************************************************************************)
WaitInv ==
    /\ wait \in 0 .. period
    /\ since \in 0 .. (period + 1)
    /\ ~lost => IF air = {} THEN since + wait <= period ELSE since <= period

(***************************************************************************)
(* The invariant of the node is inductive.                                 *)
(***************************************************************************)
LEMMA WaitInductive == WaitInv /\ [NextDiscovery]_all => WaitInv'
<1> SUFFICES ASSUME WaitInv, [NextDiscovery]_all PROVE WaitInv'
  OBVIOUS
<1> USE SolicitationAssumption DEF WaitInv
<1>1. CASE Rest \/ RestartNode
  BY <1>1 DEF Rest, RestartNode
<1>2. CASE Solicit
  BY <1>2 DEF Solicit
<1>3. CASE AnswerOther \/ Advertise
  <2>1. /\ UNCHANGED <<wait, since>>
        /\ air' = air \/ air' # {}
        /\ ~lost' => ~lost
    BY <1>3, Zenon DEF AnswerOther, Advertise, Broadcast
  <2> QED
    BY <2>1
<1>4. CASE Arrive
  BY <1>4 DEF Arrive
<1>5. CASE RestartAgent
  BY <1>5, Zenon DEF RestartAgent, node
<1>6. CASE Pass
  BY <1>6 DEF Pass
<1>7. ASSUME NEW p \in air, Answer(p)
      PROVE  WaitInv'
  BY <1>7, Zenon DEF Answer, Broadcast
<1>8. ASSUME NEW p \in air, Hear(p) \/ Lose(p)
      PROVE  WaitInv'
  BY <1>8 DEF Hear, Lose
<1>9. CASE UNCHANGED all
  BY <1>9, Zenon DEF all, node
<1> QED
  BY <1>1, <1>2, <1>3, <1>4, <1>5, <1>6, <1>7, <1>8, <1>9, Zenon
    DEF NextDiscovery

(***************************************************************************)
(* A node hears its agent within one period of AgentSolicitation while     *)
(* nothing gets lost, for every interval of the agent and every period and *)
(* limit of the node.                                                      *)
(***************************************************************************)
THEOREM NodeHeardSoon == SpecDiscovery => []HeardSoon
<1>1. InitDiscovery => WaitInv
  BY SolicitationAssumption DEF InitDiscovery, WaitInv
<1>2. WaitInv => HeardSoon
  BY SolicitationAssumption DEF WaitInv, HeardSoon
<1> QED
  BY <1>1, <1>2, WaitInductive, PTL DEF SpecDiscovery

(***************************************************************************)
(* The agent of Discovery is an AgentAdvertiser: what holds of one that is *)
(* pushed at any time holds in the network.                                *)
(***************************************************************************)
THEOREM DiscoveryImplementsAdvertiser == SpecDiscovery => Spec
<1>1. InitDiscovery => Init
  BY Zenon DEF InitDiscovery
<1>2. [NextDiscovery]_all => [Next]_vars
  BY Zenon DEF NextDiscovery, all, Next, Rest, Solicit, AnswerOther, Advertise,
         Arrive, RestartNode, RestartAgent, Pass, Answer, Hear, Lose
<1> QED
  BY <1>1, <1>2, PTL DEF SpecDiscovery, Spec

(***************************************************************************)
(* What the node and the air add to the types of the agent.                *)
(***************************************************************************)
Counts ==
    /\ transmissions \in 0 .. maxRetransmissions
    /\ wait \in 0 .. period
    /\ since \in 0 .. (period + 1)

Signs ==
    /\ air \subseteq {Solicitation, Advertised}
    /\ heard \in BOOLEAN /\ lost \in BOOLEAN

(***************************************************************************)
(* AgentSolicitation never counts past its limit.                          *)
(***************************************************************************)
LEMMA CountsStep ==
    ASSUME Counts, [NextDiscovery]_all
    PROVE  Counts'
<1> USE SolicitationAssumption DEF Counts
<1>1. CASE Rest \/ RestartNode
  BY <1>1 DEF Rest, RestartNode
<1>2. CASE Solicit
  BY <1>2 DEF Solicit
<1>3. CASE AnswerOther \/ Advertise \/ \E p \in air : Answer(p) \/ Lose(p)
  <2>1. UNCHANGED <<transmissions, wait, since>>
    BY <1>3, Zenon DEF AnswerOther, Advertise, Answer, Broadcast, Lose
  <2> QED
    BY <2>1, Zenon
<1>4. CASE Arrive \/ \E p \in air : Hear(p)
  BY <1>4 DEF Arrive, Hear
<1>5. CASE RestartAgent \/ UNCHANGED all
  BY <1>5, Zenon DEF RestartAgent, all, node
<1>6. CASE Pass
  BY <1>6 DEF Pass
<1> QED
  BY <1>1, <1>2, <1>3, <1>4, <1>5, <1>6, Zenon DEF NextDiscovery

(***************************************************************************)
(* Nothing but the two kinds of broadcast is ever in the air.              *)
(***************************************************************************)
LEMMA SignsStep ==
    ASSUME Signs, [NextDiscovery]_all
    PROVE  Signs'
<1> USE DEF Signs
<1>1. CASE Rest \/ RestartNode \/ Pass \/ Arrive
  BY <1>1, Zenon DEF Rest, RestartNode, Pass, Arrive
<1>2. CASE Solicit
  BY <1>2, Zenon DEF Solicit
<1>3. ASSUME NEW gone, Broadcast(gone)
      PROVE  Signs'
  <2>1. lost' \in BOOLEAN
    BY <1>3, Zenon DEF Broadcast
  <2>2. air' \subseteq {Solicitation, Advertised}
    BY <1>3, Zenon DEF Broadcast
  <2> QED
    BY <1>3, <2>1, <2>2, Zenon DEF Broadcast
<1>4. CASE RestartAgent \/ UNCHANGED all
  BY <1>4, Zenon DEF RestartAgent, all, node
<1>5. ASSUME NEW p \in air, Hear(p) \/ Lose(p)
      PROVE  Signs'
  BY <1>5, Zenon DEF Hear, Lose
<1> QED
  BY <1>1, <1>2, <1>3, <1>4, <1>5, Zenon
  DEF NextDiscovery, AnswerOther, Advertise, Answer

(***************************************************************************)
(* Both elements keep their types in the network: the count of             *)
(* AgentSolicitation stays within MAXR and its timer within the period.    *)
(***************************************************************************)
THEOREM DiscoveryTypes == SpecDiscovery => []TypeOKDiscovery
<1>1. InitDiscovery => Counts
  BY SolicitationAssumption DEF InitDiscovery, Counts
<1>2. InitDiscovery => Signs
  BY Zenon DEF InitDiscovery, Signs
<1>3. SpecDiscovery => [](Counts /\ Signs)
  BY <1>1, <1>2, CountsStep, SignsStep, PTL DEF SpecDiscovery
<1>4. Counts /\ Signs /\ TypeOK => TypeOKDiscovery
  BY Zenon DEF Counts, Signs, TypeOKDiscovery
<1> QED
  BY <1>3, <1>4, DiscoveryImplementsAdvertiser, AdvertiserTypeOK, PTL
=============================================================================
