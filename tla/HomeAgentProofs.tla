-------------------------- MODULE HomeAgentProofs ---------------------------
(***************************************************************************)
(* Theorems about the home agent, for any sets of nodes, agents, requests  *)
(* and identifications.                                                    *)
(***************************************************************************)
EXTENDS HomeAgentProperties, BasicProofs

(***************************************************************************)
(* What every step of a call of push has in common.                        *)
(***************************************************************************)
LEMMA RequestFields ==
    ASSUME NEW p \in Incoming
    PROVE  /\ p \in Request
           /\ p.homeAddr \in Nodes
           /\ p.lifetime \in Uint16
           /\ p.lifetime >= 0
BY HomeAgentAssumption DEF Request, Uint16

(***************************************************************************)
(* The reply the agent makes is a reply, whatever the request.             *)
(***************************************************************************)
LEMMA ReplyToType ==
    ASSUME NEW p \in Incoming, TypeOK
    PROVE  ReplyTo(p) \in Reply
<1>1. validatePacket(p) \in Nat
  BY DEF validatePacket
<1>2. Duplicate(p) => table[p.homeAddr].lifetime \in Uint16
  BY RequestFields, Zenon DEF Duplicate, isHome, TypeOK, HARegistrationEntry
<1>3. p \in Request
  BY RequestFields, Zenon
<1> QED
  BY <1>1, <1>2, <1>3, Zenon
  DEF ReplyTo, Reply, Request, ReplyType, Links, Addresses

(***************************************************************************)
(* A new entry is an entry.                                                *)
(***************************************************************************)
LEMMA NewEntryType ==
    ASSUME NEW p \in Incoming
    PROVE  NewEntry(p) \in HARegistrationEntry
BY RequestFields, Zenon DEF NewEntry, HARegistrationEntry, Request

(***************************************************************************)
(* What is left of a listed entry after a second is a uint16_t.            *)
(***************************************************************************)
LEMMA LeftType ==
    ASSUME TypeOK, ListMatchesTable, NEW n \in Nodes, list[n] # 0
    PROVE  /\ list[n] = 1
           /\ table[n] \in HARegistrationEntry
           /\ Left(n) = OneSecondLess(table[n].lifetime)
           /\ Left(n) \in Uint16
<1>1. list[n] = 1 /\ table[n] # NoEntry
  BY Zenon DEF ListMatchesTable, isHome
<1>2. table[n] \in HARegistrationEntry
  BY <1>1, Zenon DEF TypeOK
<1>3. table[n].lifetime \in Uint16
  BY <1>2, Zenon DEF HARegistrationEntry
<1>4. Htons(1) \in Uint16
  BY HtonsRange, ByteAssumption
<1>5. 1 * Htons(1) = Htons(1)
  BY <1>4, WordSize DEF Uint16
<1> QED
  BY <1>1, <1>2, <1>3, <1>4, <1>5, Sub16Type, Zenon DEF Left, OneSecondLess

-----------------------------------------------------------------------------
(***************************************************************************)
(* The types and the agreement of list and table together are inductive:   *)
(* run_timer would leave the types if a listed address had no entry.       *)
(***************************************************************************)
LEMMA TypeAndListStep ==
    ASSUME TypeOK, ListMatchesTable, [Next]_vars
    PROVE  TypeOK' /\ ListMatchesTable'
<1>1. ASSUME NEW p \in Incoming, Drop(p) \/ Deny(p)
      PROVE  TypeOK' /\ ListMatchesTable'
  BY <1>1, Zenon DEF Drop, Deny, TypeOK, ListMatchesTable, isHome
<1>2. ASSUME NEW p \in Incoming, Register(p)
      PROVE  TypeOK' /\ ListMatchesTable'
  <2>1. p.homeAddr \in Nodes
    BY RequestFields, Zenon
  <2>2. NewEntry(p) \in HARegistrationEntry /\ NewEntry(p) # NoEntry
    BY NewEntryType, HomeAgentAssumption, Zenon
  <2>3. TypeOK'
    BY <1>2, <2>1, <2>2, ReplyToType, Zenon DEF Register, TypeOK
  <2>4. ListMatchesTable'
    BY <1>2, <2>1, <2>2, Zenon DEF Register, TypeOK, ListMatchesTable, isHome
  <2> QED
    BY <2>3, <2>4, Zenon
<1>3. ASSUME NEW p \in Incoming, Deregister(p)
      PROVE  TypeOK' /\ ListMatchesTable'
  <2>1. p.homeAddr \in Nodes
    BY RequestFields
  <2>2. TypeOK'
    BY <1>3, <2>1, ReplyToType DEF Deregister, TypeOK
  <2>3. ListMatchesTable'
    BY <1>3, <2>1 DEF Deregister, TypeOK, ListMatchesTable, isHome
  <2> QED
    BY <2>2, <2>3
<1>4. ASSUME run_timer
      PROVE  TypeOK' /\ ListMatchesTable'
  <2>1. ASSUME NEW n \in Nodes
        PROVE  /\ table'[n] \in HARegistrationEntry \cup {NoEntry}
               /\ list'[n] \in Nat
               /\ list'[n] = IF table'[n] = NoEntry THEN 0 ELSE 1
    <3>1. CASE list[n] = 0
      BY <1>4, <3>1, Zenon DEF run_timer, TypeOK, ListMatchesTable, isHome
    <3>2. CASE list[n] # 0 /\ Left(n) = 0
      BY <1>4, <3>2, LeftType DEF run_timer
    <3>3. CASE list[n] # 0 /\ Left(n) # 0
      <4>1. [table[n] EXCEPT !.lifetime = Left(n)] \in HARegistrationEntry
        BY <3>3, LeftType, Zenon DEF HARegistrationEntry
      <4>2. /\ table'[n] = [table[n] EXCEPT !.lifetime = Left(n)]
            /\ list'[n] = 1
        BY <1>4, <3>3, LeftType, Zenon DEF run_timer
      <4> QED
        BY <4>1, <4>2, HomeAgentAssumption
    <3> QED
      BY <3>1, <3>2, <3>3, Zenon
  <2>2. TypeOK'
    BY <1>4, <2>1, Zenon DEF run_timer, TypeOK
  <2>3. ListMatchesTable'
    BY <2>1, Zenon DEF ListMatchesTable, isHome
  <2> QED
    BY <2>2, <2>3, Zenon
<1>5. ASSUME NEW n \in Nodes, Encapsulate(n)
      PROVE  TypeOK' /\ ListMatchesTable'
  <2>1. ~isHome(n) => table[n].mobile_node_coa \in Hosts
    BY Zenon DEF isHome, TypeOK, HARegistrationEntry
  <2>2. routed' \subseteq Datagram \cup Tunnelled
    BY <1>5, <2>1
    DEF Encapsulate, getDesitination, Datagram, Tunnelled, Links
  <2> QED
    BY <1>5, <2>2, Zenon DEF Encapsulate, TypeOK, ListMatchesTable, isHome
<1>6. ASSUME Restart
      PROVE  TypeOK' /\ ListMatchesTable'
  BY <1>6, Zenon DEF Restart, TypeOK, ListMatchesTable, isHome
<1>7. CASE UNCHANGED vars
  BY <1>7, Zenon DEF vars, TypeOK, ListMatchesTable, isHome
<1> QED
  BY <1>1, <1>2, <1>3, <1>4, <1>5, <1>6, <1>7, Zenon DEF Next, push

(***************************************************************************)
(* The initial state has the types, and list and table agree in it.        *)
(***************************************************************************)
LEMMA TypeAndListInit == Init => TypeOK /\ ListMatchesTable
BY DEF Init, TypeOK, ListMatchesTable, isHome

(***************************************************************************)
(* Type correctness of the home agent in every reachable state.            *)
(***************************************************************************)
THEOREM TypeCorrect == Spec => []TypeOK
<1>1. TypeOK /\ ListMatchesTable /\ [Next]_vars => (TypeOK /\ ListMatchesTable)'
  BY TypeAndListStep, Zenon
<1> QED
  BY <1>1, TypeAndListInit, PTL DEF Spec

(***************************************************************************)
(* The address list and the hash table of AgentBase agree in every         *)
(* reachable state: run_timer of RegistrationRequestReply never follows a  *)
(* null pair and never leaves an entry out.                                *)
(***************************************************************************)
THEOREM ListCorrect == Spec => []ListMatchesTable
<1>1. TypeOK /\ ListMatchesTable /\ [Next]_vars => (TypeOK /\ ListMatchesTable)'
  BY TypeAndListStep
<1> QED
  BY <1>1, TypeAndListInit, PTL DEF Spec

-----------------------------------------------------------------------------
(***************************************************************************)
(* A step that does not touch the table keeps every binding asked for.     *)
(***************************************************************************)
LEMMA RequestedUnchanged ==
    ASSUME BindingsRequested, UNCHANGED table
    PROVE  BindingsRequested'
BY Zenon DEF BindingsRequested, AskedFor, isHome

(***************************************************************************)
(* With lifetimes of one byte, every step keeps every binding asked for:   *)
(* a registration brings its own request, a second takes one off what is   *)
(* left, and nothing is left of an entry only when it is erased.           *)
(***************************************************************************)
LEMMA RequestedStep ==
    ASSUME ShortLifetimes, TypeOK, ListMatchesTable, BindingsRequested,
           [Next]_vars
    PROVE  BindingsRequested'
<1>1. ASSUME NEW p \in Incoming, Drop(p) \/ Deny(p)
      PROVE  BindingsRequested'
  BY <1>1, RequestedUnchanged, Zenon DEF Drop, Deny
<1>2. ASSUME NEW p \in Incoming, Register(p)
      PROVE  BindingsRequested'
  <2>1. PICK s \in 0 .. (Byte - 1) : p.lifetime = Htons(s)
    BY Zenon DEF ShortLifetimes, ByteLifetimes
  <2>2. s \in 1 .. (Byte - 1) /\ s <= Ntohs(p.lifetime)
    BY <1>2, <2>1, HtonsRange, NtohsOfHtons, ByteAssumption DEF Register
  <2>3. p.homeAddr \in Nodes
    BY RequestFields, Zenon
  <2>4. table'[p.homeAddr] = NewEntry(p)
    BY <1>2, <2>3, Zenon DEF Register, TypeOK
  <2>5. AskedFor(p.homeAddr, p, s)'
    BY <2>1, <2>2, <2>4 DEF AskedFor, NewEntry
  <2>6. ASSUME NEW n \in Nodes, n # p.homeAddr
        PROVE  table'[n] = table[n]
    BY <1>2, <2>6, Zenon DEF Register, TypeOK
  <2> QED
    BY <2>2, <2>3, <2>5, <2>6 DEF BindingsRequested, AskedFor, isHome
<1>3. ASSUME NEW p \in Incoming, Deregister(p)
      PROVE  BindingsRequested'
  <2>1. p.homeAddr \in Nodes
    BY RequestFields, Zenon
  <2>2. ASSUME NEW n \in Nodes
        PROVE  table'[n] = IF n = p.homeAddr THEN NoEntry ELSE table[n]
    BY <1>3, <2>1, Zenon DEF Deregister, TypeOK
  <2> QED
    BY <2>2 DEF BindingsRequested, AskedFor, isHome
<1>4. ASSUME run_timer
      PROVE  BindingsRequested'
  <2> SUFFICES ASSUME NEW n \in Nodes, table'[n] # NoEntry
               PROVE  \E p \in Incoming, s \in 1 .. (Byte - 1) :
                        AskedFor(n, p, s)'
    BY Zenon DEF BindingsRequested, isHome
  <2>1. list[n] # 0
    BY <1>4 DEF run_timer, ListMatchesTable, isHome
  <2>2. table[n] # NoEntry
    BY <2>1, Zenon DEF ListMatchesTable, isHome
  <2>3. PICK p \in Incoming, s \in 1 .. (Byte - 1) : AskedFor(n, p, s)
    BY <2>2, Zenon DEF BindingsRequested, isHome
  <2>4. Left(n) = Htons(s - 1)
    BY <2>1, <2>3, LeftType, OneSecondLessOfHtons, Zenon DEF AskedFor
  <2>5. Left(n) # 0
    BY <1>4, <2>1, Zenon DEF run_timer
  <2>6. s - 1 \in 1 .. (Byte - 1)
    <3>1. s - 1 \in 0 .. (Byte - 1)
      BY ByteAssumption
    <3> QED
      BY <2>4, <2>5, <3>1, HtonsRange, ByteAssumption
  <2>7. table'[n] = [table[n] EXCEPT !.lifetime = Left(n)]
    BY <1>4, <2>1, <2>5, Zenon DEF run_timer
  <2>8. /\ table'[n].lifetime = Left(n)
        /\ table'[n].id = table[n].id
        /\ table'[n].mobile_node_coa = table[n].mobile_node_coa
    BY <2>1, <2>7, LeftType, Zenon DEF HARegistrationEntry
  <2>9. s <= Ntohs(p.lifetime) => s - 1 <= Ntohs(p.lifetime)
    <3>1. PICK t \in 0 .. (Byte - 1) : p.lifetime = Htons(t)
      BY Zenon DEF ShortLifetimes, ByteLifetimes
    <3> QED
      BY <3>1, NtohsOfHtons, ByteAssumption
  <2>10. AskedFor(n, p, s - 1)'
    BY <2>3, <2>4, <2>8, <2>9, Zenon DEF AskedFor
  <2> QED
    BY <2>6, <2>10, Zenon
<1>5. ASSUME NEW n \in Nodes, Encapsulate(n)
      PROVE  BindingsRequested'
  BY <1>5, RequestedUnchanged, Zenon DEF Encapsulate
<1>6. ASSUME Restart
      PROVE  BindingsRequested'
  BY <1>6, Zenon DEF Restart, BindingsRequested, isHome
<1>7. CASE UNCHANGED vars
  BY <1>7, RequestedUnchanged, Zenon DEF vars
<1> QED
  BY <1>1, <1>2, <1>3, <1>4, <1>5, <1>6, <1>7, Zenon DEF Next, push

(***************************************************************************)
(* With lifetimes of one byte, every binding the home agent holds was      *)
(* asked for by a request that may arrive, and has at most the seconds     *)
(* left that the request asked for.                                        *)
(***************************************************************************)
THEOREM BindingsAreRequested ==
    ShortLifetimes => (Spec => []BindingsRequested)
<1> SUFFICES ASSUME ShortLifetimes
             PROVE  Spec => []BindingsRequested
  BY Zenon
<1> DEFINE IInv == TypeOK /\ ListMatchesTable /\ BindingsRequested
<1>1. Init => IInv
  <2>1. Init => BindingsRequested
    BY Zenon DEF Init, BindingsRequested, isHome
  <2> QED
    BY <2>1, TypeAndListInit, Zenon
<1>2. IInv /\ [Next]_vars => IInv'
  BY TypeAndListStep, RequestedStep, Zenon
<1> QED
  BY <1>1, <1>2, PTL DEF Spec

(***************************************************************************)
(* A duplicate of the request a binding was made from asks for the         *)
(* lifetime the binding started with: what is left is at most that, and    *)
(* it is not a deregistration.                                             *)
(***************************************************************************)
LEMMA DuplicateAsksForMore ==
    ASSUME ShortLifetimes, IdsDetermineRequests, TypeOK, BindingsRequested,
           NEW p \in Incoming, Duplicate(p)
    PROVE  /\ Ntohs(table[p.homeAddr].lifetime) <= Ntohs(p.lifetime)
           /\ p.lifetime # 0
<1>1. p.homeAddr \in Nodes
  BY RequestFields, Zenon
<1>2. PICK q \in Incoming, s \in 1 .. (Byte - 1) : AskedFor(p.homeAddr, q, s)
  BY <1>1, Zenon DEF BindingsRequested, Duplicate
<1>3. q.lifetime = p.lifetime
  BY <1>2, Zenon DEF IdsDetermineRequests, AskedFor, Duplicate
<1>4. Ntohs(table[p.homeAddr].lifetime) = s
  BY <1>2, NtohsOfHtons, ByteAssumption DEF AskedFor
<1>5. s <= Ntohs(p.lifetime)
  BY <1>2, <1>3, Zenon DEF AskedFor
<1>6. Ntohs(0) = 0
  BY NtohsOfHtons, HtonsRange, ByteAssumption
<1> QED
  BY <1>2, <1>4, <1>5, <1>6, ByteAssumption

(***************************************************************************)
(* Every step keeps the promise: only a registration grants time, and it   *)
(* enters the lifetime of the request, of which a duplicate is told at     *)
(* most what was left.                                                     *)
(***************************************************************************)
LEMMA PromiseStep ==
    ASSUME ShortLifetimes, IdsDetermineRequests, TypeOK, BindingsRequested,
           NeverOverpromises, [Next]_vars
    PROVE  NeverOverpromises'
<1>1. ASSUME sent' = {}
      PROVE  NeverOverpromises'
  BY <1>1, Zenon DEF NeverOverpromises
<1>2. ASSUME NEW p \in Incoming, Register(p)
      PROVE  NeverOverpromises'
  <2>1. p.homeAddr \in Nodes
    BY RequestFields, Zenon
  <2>2. table'[p.homeAddr] = NewEntry(p)
    BY <1>2, <2>1, Zenon DEF Register, TypeOK
  <2>3. table'[p.homeAddr] # NoEntry /\ table'[p.homeAddr].lifetime = p.lifetime
    BY <2>2, NewEntryType, HomeAgentAssumption DEF NewEntry
  <2>4. Ntohs(ReplyTo(p).lifetime) <= Ntohs(p.lifetime)
    <3>1. CASE Duplicate(p)
      BY <3>1, DuplicateAsksForMore, Zenon DEF ReplyTo
    <3>2. CASE ~Duplicate(p)
      <4>1. PICK s \in 0 .. (Byte - 1) : p.lifetime = Htons(s)
        BY Zenon DEF ShortLifetimes, ByteLifetimes
      <4>2. Ntohs(p.lifetime) \in 0 .. (Byte - 1)
        BY <4>1, NtohsOfHtons, Zenon
      <4> QED
        BY <3>2, <4>2, ByteAssumption DEF ReplyTo
    <3> QED
      BY <3>1, <3>2, Zenon
  <2>5. sent' = {ReplyTo(p)} /\ ReplyTo(p).homeAddr = p.homeAddr
    BY <1>2, Zenon DEF Register, ReplyTo
  <2> QED
    BY <2>3, <2>4, <2>5, Zenon DEF NeverOverpromises, isHome
<1>3. ASSUME NEW p \in Incoming, Deregister(p)
      PROVE  NeverOverpromises'
  <2>1. ~Duplicate(p)
    BY <1>3, DuplicateAsksForMore, Zenon DEF Deregister
  <2>2. ReplyTo(p).lifetime = 0
    BY <1>3, <2>1, Zenon DEF Deregister, ReplyTo
  <2> QED
    BY <1>3, <2>2 DEF Deregister, NeverOverpromises
<1>4. CASE UNCHANGED vars
  BY <1>4, Zenon DEF vars, NeverOverpromises, isHome
<1> QED
  BY <1>1, <1>2, <1>3, <1>4, Zenon
  DEF Next, push, Drop, Deny, run_timer, Encapsulate, Restart

(***************************************************************************)
(* With lifetimes of one byte and identifications that determine their     *)
(* request, a reply of the home agent never grants more time than the      *)
(* agent will keep the binding.                                            *)
(***************************************************************************)
THEOREM NoOverpromise ==
    ShortLifetimes /\ IdsDetermineRequests => (Spec => []NeverOverpromises)
<1> SUFFICES ASSUME ShortLifetimes, IdsDetermineRequests
             PROVE  Spec => []NeverOverpromises
  BY Zenon
<1> DEFINE IInv == /\ TypeOK
                   /\ ListMatchesTable
                   /\ BindingsRequested
                   /\ NeverOverpromises
<1>1. Init => IInv
  <2>1. Init => BindingsRequested /\ NeverOverpromises
    BY Zenon DEF Init, BindingsRequested, NeverOverpromises, isHome
  <2> QED
    BY <2>1, TypeAndListInit, Zenon
<1>2. IInv /\ [Next]_vars => IInv'
  BY TypeAndListStep, RequestedStep, PromiseStep, Zenon
<1> QED
  BY <1>1, <1>2, PTL DEF Spec

-----------------------------------------------------------------------------
(***************************************************************************)
(* The home agent implements BindingCache: every call of push or run_timer *)
(* is a step of it.  First what a reader of the bindings sees in seconds.  *)
(***************************************************************************)
Bindings == [n \in Nodes |-> BindingOf(n)]

Grants == {GrantOf(r) : r \in sent}

Routes == {RouteOf(d) : d \in routed}

Promise == TypeOK /\ ListMatchesTable /\ BindingsRequested

(***************************************************************************)
(* The seconds left of a binding fit in a byte and are never none.         *)
(***************************************************************************)
LEMMA SecondsLeft ==
    ASSUME Promise, NEW n \in Nodes, ~isHome(n)
    PROVE  \E s \in 1 .. (Byte - 1) :
             /\ table[n].lifetime = Htons(s)
             /\ BindingOf(n) = [coa |-> table[n].mobile_node_coa, left |-> s]
             /\ table[n].mobile_node_coa \in Hosts
             /\ BindingOf(n) # NoEntry
<1>1. PICK p \in Incoming, s \in 1 .. (Byte - 1) : AskedFor(n, p, s)
  BY Zenon DEF Promise, BindingsRequested
<1>2. table[n].lifetime = Htons(s) /\ Ntohs(Htons(s)) = s
  BY <1>1, NtohsOfHtons, ByteAssumption DEF AskedFor
<1>3. BindingOf(n) = [coa |-> table[n].mobile_node_coa, left |-> s]
  BY <1>2, Zenon DEF BindingOf
<1>4. table[n].mobile_node_coa \in Hosts
  BY Zenon DEF Promise, TypeOK, isHome, HARegistrationEntry
<1>5. s \in Uint16
  BY WordSize, ByteAssumption DEF Uint16
<1>6. [coa |-> table[n].mobile_node_coa, left |-> s]
        \in [coa : Hosts, left : Uint16]
  BY <1>4, <1>5, Zenon
<1> QED
  BY <1>2, <1>3, <1>4, <1>6, NoEntryAssumption, Zenon

(***************************************************************************)
(* A step that pushes nothing and keeps the table refuses.                 *)
(***************************************************************************)
LEMMA RefuseStep ==
    ASSUME UNCHANGED table, sent' = {}, routed' = {}
    PROVE  Cache!BNext
<1>1. Bindings' = Bindings
  BY Zenon DEF Bindings, BindingOf, isHome
<1>2. Grants' = {} /\ Routes' = {}
  BY Zenon DEF Grants, Routes
<1>3. Cache!Refuse
  BY <1>1, <1>2, Zenon DEF Cache!Refuse, Cache!Idle, Bindings, Grants, Routes
<1> QED
  BY <1>3, Zenon DEF Cache!BNext
(***************************************************************************)
(* A registration binds the node to the care-of address of the request for *)
(* the seconds of the request, and grants at most these: a duplicate is    *)
(* told what was left of the binding it replaces.                          *)
(***************************************************************************)
LEMMA RegisterStep ==
    ASSUME ShortLifetimes, IdsDetermineRequests, Promise,
           NEW p \in Incoming, Register(p)
    PROVE  Cache!BNext
<1> DEFINE n == p.homeAddr
<1>1. n \in Nodes /\ p.coAddr \in Hosts
  BY RequestFields, Zenon DEF Request
<1>2. PICK s \in 0 .. (Byte - 1) : p.lifetime = Htons(s)
  BY Zenon DEF ShortLifetimes, ByteLifetimes
<1>3. s \in 1 .. (Byte - 1) /\ Ntohs(p.lifetime) = s
  BY <1>2, HtonsRange, NtohsOfHtons, ByteAssumption DEF Register
<1>4. \E g \in 1 .. s : Ntohs(ReplyTo(p).lifetime) = g
  <2>1. CASE Duplicate(p)
    <3>1. PICK t \in 1 .. (Byte - 1) : table[n].lifetime = Htons(t)
      BY <1>1, <2>1, SecondsLeft, Zenon DEF Duplicate
    <3>2. Ntohs(table[n].lifetime) = t
      BY <3>1, NtohsOfHtons, ByteAssumption
    <3>3. t <= s
      BY <1>3, <2>1, <3>2, DuplicateAsksForMore, Zenon DEF Promise
    <3> QED
      BY <1>3, <2>1, <3>2, <3>3 DEF ReplyTo
  <2>2. CASE ~Duplicate(p)
    BY <1>3, <2>2 DEF ReplyTo
  <2> QED
    BY <2>1, <2>2, Zenon
<1>5. PICK g \in 1 .. s : Ntohs(ReplyTo(p).lifetime) = g
  BY <1>4, Zenon
<1>6. Grants' = {[node |-> n, seconds |-> g]}
  <2>1. GrantOf(ReplyTo(p)) = [node |-> n, seconds |-> g]
    BY <1>5, Zenon DEF GrantOf, ReplyTo
  <2>2. sent' = {ReplyTo(p)}
    BY Zenon DEF Register
  <2> QED
    BY <2>1, <2>2, Zenon DEF Grants, GrantOf
<1>7. Routes' = {}
  BY Zenon DEF Register, Routes
<1>8. Bindings' = [Bindings EXCEPT ![n] = [coa |-> p.coAddr, left |-> s]]
  <2>1. ASSUME NEW m \in Nodes
        PROVE  Bindings'[m] = IF m = n THEN [coa |-> p.coAddr, left |-> s]
                                       ELSE Bindings[m]
    <3>1. CASE m = n
      <4>1. table'[n] = NewEntry(p)
        BY <1>1, Zenon DEF Register, Promise, TypeOK
      <4>2. table'[n] # NoEntry
        BY <4>1, NewEntryType, HomeAgentAssumption, Zenon
      <4>3. table'[n].mobile_node_coa = p.coAddr /\ table'[n].lifetime = p.lifetime
        BY <4>1 DEF NewEntry
      <4> QED
        BY <1>1, <1>3, <3>1, <4>2, <4>3, Zenon
        DEF Bindings, BindingOf, isHome, Ntohs, Htons
    <3>2. CASE m # n
      <4>1. table'[m] = table[m]
        BY <3>2, Zenon DEF Register, Promise, TypeOK
      <4> QED
        BY <3>2, <4>1, Zenon DEF Bindings, BindingOf, isHome
    <3> QED
      BY <3>1, <3>2, Zenon
  <2> QED
    BY <1>1, <2>1, Zenon DEF Bindings
<1>9. Cache!Bind(n, p.coAddr, s)
  BY <1>6, <1>7, <1>8, Zenon DEF Cache!Bind, Bindings, Grants, Routes
<1> QED
  BY <1>1, <1>3, <1>9, Zenon DEF Cache!BNext

(***************************************************************************)
(* A deregistration takes the binding away and grants no time.             *)
(***************************************************************************)
LEMMA DeregisterStep ==
    ASSUME ShortLifetimes, IdsDetermineRequests, Promise,
           NEW p \in Incoming, Deregister(p)
    PROVE  Cache!BNext
<1> DEFINE n == p.homeAddr
<1>1. n \in Nodes
  BY RequestFields, Zenon
<1>2. ~Duplicate(p)
  BY DuplicateAsksForMore, Zenon DEF Deregister, Promise
<1>3. Grants' = {[node |-> n, seconds |-> 0]}
  <2>1. Ntohs(0) = 0
    BY NtohsOfHtons, HtonsRange, ByteAssumption
  <2>2. GrantOf(ReplyTo(p)) = [node |-> n, seconds |-> 0]
    BY <1>2, <2>1, Zenon DEF GrantOf, ReplyTo, Deregister
  <2>3. sent' = {ReplyTo(p)}
    BY Zenon DEF Deregister
  <2> QED
    BY <2>2, <2>3, Zenon DEF Grants, GrantOf
<1>4. Routes' = {}
  BY Zenon DEF Deregister, Routes
<1>5. Bindings' = [Bindings EXCEPT ![n] = NoEntry]
  <2>1. ASSUME NEW m \in Nodes
        PROVE  table'[m] = IF m = n THEN NoEntry ELSE table[m]
    BY <1>1, Zenon DEF Deregister, Promise, TypeOK
  <2> QED
    BY <1>1, <2>1, Zenon DEF Bindings, BindingOf, isHome
<1>6. Cache!Unbind(n)
  BY <1>3, <1>4, <1>5, Zenon DEF Cache!Unbind, Bindings, Grants, Routes
<1> QED
  BY <1>1, <1>6, Zenon DEF Cache!BNext

(***************************************************************************)
(* A run of the timer lets a second elapse: a binding of one second lapses *)
(* and every other has one second less.                                    *)
(***************************************************************************)
LEMMA TimerStep ==
    ASSUME Promise, run_timer
    PROVE  Cache!BNext
<1>1. Grants' = {} /\ Routes' = {}
  BY Zenon DEF run_timer, Grants, Routes
<1>2. ASSUME NEW n \in Nodes
      PROVE  BindingOf(n)' =
               IF BindingOf(n) = NoEntry \/ BindingOf(n).left = 1
                 THEN NoEntry
                 ELSE [BindingOf(n) EXCEPT !.left = @ - 1]
  <2>1. CASE isHome(n)
    <3>1. list[n] = 0
      BY <2>1, Zenon DEF Promise, ListMatchesTable
    <3>2. table'[n] = NoEntry
      BY <2>1, <3>1, Zenon DEF run_timer, isHome
    <3> QED
      BY <2>1, <3>2, Zenon DEF BindingOf, isHome
  <2>2. CASE ~isHome(n)
    <3>1. list[n] # 0
      BY <2>2 DEF Promise, ListMatchesTable
    <3>2. PICK s \in 1 .. (Byte - 1) :
             /\ table[n].lifetime = Htons(s)
             /\ BindingOf(n) = [coa |-> table[n].mobile_node_coa, left |-> s]
             /\ BindingOf(n) # NoEntry
      BY <2>2, SecondsLeft, Zenon
    <3>3. Left(n) = Htons(s - 1) /\ table[n] \in HARegistrationEntry
      BY <3>1, <3>2, LeftType, OneSecondLessOfHtons, Zenon DEF Promise
    <3>4. s - 1 \in 0 .. (Byte - 1)
      BY ByteAssumption
    <3>5. CASE s = 1
      <4>1. Left(n) = 0
        BY <3>3, <3>4, <3>5, HtonsRange
      <4>2. table'[n] = NoEntry
        BY <3>1, <4>1, Zenon DEF run_timer
      <4> QED
        BY <3>2, <3>5, <4>2, Zenon DEF BindingOf, isHome
    <3>6. CASE s # 1
      <4>1. Left(n) # 0
        BY <3>3, <3>4, <3>6, HtonsRange
      <4>2. table'[n] = [table[n] EXCEPT !.lifetime = Left(n)]
        BY <3>1, <4>1, Zenon DEF run_timer
      <4>3. /\ table'[n] \in HARegistrationEntry
            /\ table'[n].lifetime = Left(n)
            /\ table'[n].mobile_node_coa = table[n].mobile_node_coa
        BY <3>1, <3>3, <4>2, LeftType, Zenon DEF HARegistrationEntry, Promise
      <4>4. table'[n] # NoEntry
        BY <4>3, HomeAgentAssumption, Zenon
      <4>5. Ntohs(Left(n)) = s - 1
        BY <3>3, <3>4, NtohsOfHtons, Zenon
      <4>6. BindingOf(n)' = [coa |-> table[n].mobile_node_coa, left |-> s - 1]
        BY <4>3, <4>4, <4>5, Zenon DEF BindingOf, isHome, Ntohs, Htons
      <4> QED
        BY <3>2, <3>6, <4>6
    <3> QED
      BY <3>5, <3>6, Zenon
  <2> QED
    BY <2>1, <2>2, Zenon
<1>3. Bindings' = [n \in Nodes |->
                     IF Bindings[n] = NoEntry \/ Bindings[n].left = 1
                       THEN NoEntry
                       ELSE [Bindings[n] EXCEPT !.left = @ - 1]]
  BY <1>2, Zenon DEF Bindings
<1>4. Cache!Elapse
  BY <1>1, <1>3, Zenon
  DEF Cache!Elapse, Cache!Idle, Bindings, Grants, Routes
<1> QED
  BY <1>4, Zenon DEF Cache!BNext

(***************************************************************************)
(* A datagram leaves by the binding of its destination or is lost.         *)
(***************************************************************************)
LEMMA EncapsulateStep ==
    ASSUME Promise, NEW n \in Nodes, Encapsulate(n)
    PROVE  Cache!BNext
<1>1. Bindings' = Bindings
  BY Zenon DEF Encapsulate, Bindings, BindingOf, isHome
<1>2. Grants' = {}
  BY Zenon DEF Encapsulate, Grants
<1>3. CASE routed' = {}
  BY <1>3, RefuseStep, Zenon DEF Encapsulate
<1>4. CASE routed' # {}
  <2>1. Routes' = {[node |-> n, via |-> IF Bindings[n] = NoEntry THEN {}
                                       ELSE {Bindings[n].coa}]}
    <3>1. CASE isHome(n)
      BY <1>4, <3>1 DEF Encapsulate, Routes, RouteOf, Bindings, BindingOf
    <3>2. CASE ~isHome(n)
      <4>1. Bindings[n] # NoEntry /\ Bindings[n].coa = table[n].mobile_node_coa
        BY <3>2, SecondsLeft DEF Bindings
      <4>2. routed' = {[proto |-> "ipip", dst |-> table[n].mobile_node_coa,
                        inner |-> n, link |-> "public"]}
        BY <1>4, <3>2, Zenon DEF Encapsulate, getDesitination
      <4>3. Routes' = {[node |-> n, via |-> {table[n].mobile_node_coa}]}
        BY <4>2 DEF Routes, RouteOf
      <4> QED
        BY <4>1, <4>3, Zenon
    <3> QED
      BY <3>1, <3>2, Zenon
  <2>2. Cache!Route(n)
    BY <1>1, <1>2, <2>1, Zenon DEF Cache!Route, Bindings, Grants, Routes
  <2> QED
    BY <2>2, Zenon DEF Cache!BNext
<1> QED
  BY <1>3, <1>4, Zenon

(***************************************************************************)
(* A restart forgets every binding.                                        *)
(***************************************************************************)
LEMMA RestartStep ==
    ASSUME Restart
    PROVE  Cache!BNext
<1>1. Bindings' = [n \in Nodes |-> NoEntry]
  BY Zenon DEF Restart, Bindings, BindingOf, isHome
<1>2. Grants' = {} /\ Routes' = {}
  BY Zenon DEF Restart, Grants, Routes
<1>3. Cache!Forget
  BY <1>1, <1>2, Zenon DEF Cache!Forget, Cache!Idle, Bindings, Grants, Routes
<1> QED
  BY <1>3, Zenon DEF Cache!BNext

(***************************************************************************)
(* With lifetimes of one byte and identifications that determine their     *)
(* request, the home agent implements BindingCache: its list, its byte     *)
(* order and its handling of duplicates are invisible to those it serves.  *)
(***************************************************************************)
THEOREM HomeAgentImplements ==
    ShortLifetimes /\ IdsDetermineRequests => (Spec => ImplementsBindingCache)
<1> SUFFICES ASSUME ShortLifetimes, IdsDetermineRequests
             PROVE  Spec => ImplementsBindingCache
  BY Zenon
<1>1. Init => Cache!BInit
  BY Zenon DEF Init, Cache!BInit, BindingOf, isHome
<1>2. Init => Promise
  BY TypeAndListInit, Zenon DEF Init, Promise, BindingsRequested, isHome
<1>3. Promise /\ [Next]_vars => Promise'
  BY TypeAndListStep, RequestedStep, Zenon DEF Promise
<1>4. Promise /\ [Next]_vars => [Cache!BNext]_(Cache!bvars)
  <2> SUFFICES ASSUME Promise, [Next]_vars
               PROVE  Cache!BNext \/ UNCHANGED Cache!bvars
    BY Zenon
  <2>1. ASSUME NEW p \in Incoming, push(p)
        PROVE  Cache!BNext
    BY <2>1, RefuseStep, RegisterStep, DeregisterStep, Zenon
      DEF push, Drop, Deny
  <2>2. CASE UNCHANGED vars
    BY <2>2, Zenon DEF vars, Cache!bvars, BindingOf, isHome
  <2> QED
    BY <2>1, <2>2, TimerStep, EncapsulateStep, RestartStep, Zenon DEF Next
<1> QED
  BY <1>1, <1>2, <1>3, <1>4, PTL DEF Spec, ImplementsBindingCache, Cache!BSpec
=============================================================================
