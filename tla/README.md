# Mobile IP in Click: a TLA+ verification project

The elements under `src/click-master/elements/local/MobileIPElements` let a
mobile node keep its address while it visits other networks. This directory
holds TLA+ models of them, of the network they form, and of the two mechanisms
of Click that move their packets between threads; TLC configurations that check
the models on small instances; and TLAPS proofs for all instances.

## The system

- **Discovery.** `AgentAdvertiser` announces an agent on its network,
  periodically and when solicited. `AgentSolicitation` asks for announcements.
  `AdvFilter` and `SolicitationFilter` pick those packets out.
- **Mobile node.** `AdvertisementsHandler` keeps the advertisements heard and
  decides when to register. `RegistrationRequestSource` sends requests, handles
  replies, counts the registration down and renews it. `MobileInfoList` is the
  state they share and `SetGateway` uses it.
- **Foreign agent.** `ForeignAgentReqProcess` checks and relays requests and
  remembers them as pending. `ForeignAgentReplyProcess` passes replies on and
  enters visitors. `IpDecap` delivers tunnelled datagrams to visitors.
- **Home agent.** `RegistrationRequestReply` answers requests and keeps the
  bindings. `IpEncapsulation` tunnels datagrams to nodes that are away.
- `AgentBase` holds the state of both agent roles; `MobileIPFilter` sends
  registration packets to the right role.
- **Network.** `scripts/library/*.click` wires the elements; `glue.click` joins
  the processes, and `to_foreign.sh` and `to_home.sh` move the node.
- **Click.** Driver threads run tasks; a `Queue` in front of every `ToDevice`
  joins the side that pushes to the task that pulls.

Click runs one `push` or `run_timer` of an element to completion before the
next, so one call is one step of the protocol models. Lifetimes and sequence
numbers stay in network byte order inside `uint16_t` and are counted with
`htons(1)`; the build is little-endian. Much of what can go wrong comes from
that, so the models keep it. In the two models of Click a step is one memory
access that another thread can tell from the next.

## Modules

| Module | Models | State and actions |
|---|---|---|
| `Wire` | `htons`, `ntohs`, 16-bit sums and differences | operators over a byte of `Byte` values |
| `Lists` | `Vector::erase`, and a loop that erases items of a `Vector` | `Erase`, `Retain` |
| `Packets` | packet headers, `MobileIPFilter` | records of the fields the elements read |
| `HomeAgent` | `RegistrationRequestReply`, `IpEncapsulation` | `table`, `list`; `Drop`, `Deny`, `Register`, `Deregister` (push), `run_timer`, `Encapsulate`, `Restart` |
| `BindingCache` | what a home agent promises (abstract) | a binding with seconds left per node |
| `ForeignAgent` | `ForeignAgentReqProcess`, `ForeignAgentReplyProcess`, `IpDecap` | `registrationReq`, `visitorMap`, `scheduled`; the two pushes, `run_timer`, `run_timer_aborted`, `Decapsulate`, `Restart` |
| `MobileNode` | `AdvertisementsHandler`, `RegistrationRequestSource` | the members of `MobileInfoList`, `currentRequests`; the two pushes, three timers, `Restart` |
| `AgentAdvertiser` | `AgentAdvertiser` | `sequenceNum`, time until the timer runs; `push`, `run_timer`, `Tick`, `Restart` |
| `Discovery` | advertiser, `AgentSolicitation` and both filters together | `transmissions`, `wait`, the broadcasts in the `air`; `Solicit`, `Rest`, `Answer`, `Advertise`, `Hear`, `Lose`, `Arrive`, restarts |
| `Registration` | the network between the processes, the second they all count | the state of the three processes, packets under way, the node's place; `Due`, `UnderWay`, `NodePushes`, what it means to be registered |
| `MobileIP` | node, home agent and foreign agent as wired in `scripts/` | the three components by `INSTANCE` over the state of `Registration`; deliveries, losses, five timers, `Move`, `Restart` |
| `Task` | one task under several driver threads | `_status`, `_thread`, `_pending_nextptr`, the lists, locks and wake pipes, a program counter per thread |
| `DeviceQueue` | `Queue -> ToDevice` with the two ends in two threads | the ring, the two notifiers, the task's flag, a program counter per thread |
| `HomeAgentProperties`, `ForeignAgentProperties`, `MobileNodeProperties` | | what is claimed of the component; the properties of the other modules stand at their end |
| `MC*` | | packets and constants for TLC |
| `*Proofs` | | theorems |

`heard`, `sent`, `routed`, `delivered`, `asked`, `granted`, `age`, `last`,
`missed`, `lost`, `since`, `forgetful`, `failed` and the `out` of `DeviceQueue`
are history or interface variables that no element reads. `id` stands for
`id1`, `id2` and, in the node, the UDP port. `list` counts how often an address
occurs in the agent's list, as order is not observed. An operator whose comment
begins with "Slip" is a plausible mistake in the definition after it; it is
used only to see that a property notices it.

In the component runs the environment delivers any packet of `Incoming` in any
order and any number of times, which covers loss, duplication, delay and
reordering. Two restrictions apply: the foreign agent gets replies only to
requests it has relayed (`asked`), and the node only replies that fit its
request (`Plausible`: none grants more than was asked, and only a
deregistration is answered with 0). `MobileIP` needs neither: there every packet
comes from the component that sends it.

## Runs

Passing:

- `home_agent_safety`: list and table agree, bindings were asked for, replies do
  not promise more than is kept, `HomeAgent` implements `BindingCache`, and
  bindings lapse.
- `foreign_agent_safety`: relayed requests are pending and bounded in number, the
  wait for a reply is bounded, one visitor entry per node, visitors stay within
  what was asked and granted; pending registrations and visitors do not stay for
  ever, unless a failed allocation has stopped the timer.
- `mobile_node_safety`: a node at home uses its home agent, requests go only to
  agents currently heard, trust stays within the grant, and a node does not
  believe itself connected for ever.
- `discovery_safety`: three advertisements within a lifetime, numbers that
  follow one another until they wrap around; a node hears its agent within one
  solicitation period while nothing is lost, and again and again whatever is
  lost.
- `mobile_ip_recovery`: a node that believes itself registered is registered, at
  its home agent (`BeliefBacked`) and at the foreign agent (`VisitorBacked`), for
  as long as it believes it, up to the skew of timers that are not synchronised.
  Both except an agent that has forgotten the node behind its back (`forgetful`):
  by a restart, or because a deregistration arrives that the node sent before a
  restart of its own and no longer remembers. Nothing tells the home agent that
  such a deregistration is older than the binding it ends. `BeliefBacked` also
  excepts a node that keeps a deregistration it has sent: until the reply comes,
  or for the lifetime of the request when it does not.
  A node that stays abroad is reachable there again and again (`Served`), unless
  a failed allocation has stopped the foreign agent's timer for good: pending
  registrations then never leave the list, and once it is full the agent refuses
  every request. One that has come home for good ends up deregistered
  (`Returned`).
- `task_safety`: one runner, one list entry, a scheduled task is on a list and
  is run, and the assertions about the owner of a task hold.
- `device_queue_safety`: the two threads never touch the same slot, packets leave
  in order and none twice, the notes are right at rest, no wake-up is lost, and
  the queue drains.

Showing a disagreement between the code and a comment, document or assertion:

- `home_agent_long_lifetime`: a binding of 300 seconds never expires.
- `foreign_agent_late_reply`: an acceptance that arrives after the 7 second wait
  is passed on, but the node is not made a visitor.
- `advertiser_numbers`: the advertisement after number 255 has number 0, not 256.
  The comments say that numbers go up to 0xffff, and the code means to go on with
  256 after that: 0 is for an agent that has just been started, and a node takes
  it for that (`advertisementsHandler.cc:81`).
- `mobile_node_refresh`: further advertisements do not extend an entry.
- `task_assertions`: a task is moved to the quiescent thread while its own
  thread processes it, and back before that thread's `add_pending` reads the home
  thread: the assertion of `lib/task.cc:241` fails. It needs several threads and
  moves between them (`BalancedThreadSched` or the home-thread handler of a
  task). The assertion of line 255 can fail as well: a thread that waits in
  `add_pending` for the lock finds the task pending and, two lines on, being
  processed.

Further disagreements that no run is kept for:

- The home agent does not answer a request it denies (`src/elementInfo.txt:124`).
- A reply that arrives when the seconds it grants are already over makes the
  node's time left wrap around (`registrationRequestSource.cc:139-142`), so
  `TrustsWithinGrant` is about replies that come `InTime`. A late answer to a
  duplicated request, for the time left of the first one, is such a reply.
- The node misses the reset of its agent when advertisement 0 is lost: the
  comparison of `advertisementsHandler.cc:81` sees network byte order.
- The home agent answers a deregistration from the public network on the private
  one (`registrationRequestReply.cc:186-190`).
- The foreign agent compares lifetimes in network byte order
  (`foreignAgentReplyProcess.cc:64`).
- An agent that is foreign agent only is ignored (`advertisementsHandler.cc:52`).
- A solicitation resets the advertisement timer against its comment
  (`agentAdvertisements.cc:97,105`).
- The first invariant of `lib/task.cc:107` is checked for the home thread
  (`ScheduledIsListed`). For `_thread`, its literal reading, it fails: `run_tasks`
  compares the status, the task is moved back and forth, and the task leaves the
  list while `_thread` still names that thread and the home thread is quiescent.
- "After unschedule() returns, the task will not run" (`task.hh:186`) does not
  hold for a call from another thread after `run_tasks` has compared the status.
- A push may overestimate the highwater mark of the queue, as its head is old.
- A byte written to the wake pipe after its flag was cleared leaves the thread
  polling instead of sleeping until the next wake-up drains it.

### Bounds

- Two nodes and two or three agents suffice for crossing registrations and
  handoffs. Lifetimes are 0 to 5 seconds so that they expire within a run,
  and the node gets grants of nothing, of a part and of all it asked for.
- `Byte` is 16, 8 or 3 where only the structure of two-byte words matters, and
  256 in the run about a concrete value.
- `maxRequests` is 2 and `ReplyWait` 2 in `foreign_agent_safety` so that the list
  fills and waits end; the code has 5 and 7. `Ids` bounds the outstanding requests
  of the node: a call of `makePacket` beyond it acts like one whose packet could
  not be made. A step in which several packets are to be made may make any number
  of them when allocation may fail.
- In `Discovery` the interval is 3, the random term 1 and the lifetime 9, exactly
  three of the longest delays. `configure` accepts shorter lifetimes because its
  test leaves out the random term, so `ThreeWithinLifetime` states the room it
  needs; the scripts (15000 ms, 60 s) have it. The millisecond `AgentSolicitation`
  rests is less than a unit of the clock.
- `MobileIP` has one node, one foreign agent, registrations of 3 seconds and
  packets that take up to a second. `MaxFaults` is 2. A fault is a move (three
  handler writes, between which anything happens), a restart, an allocation of an
  agent that fails, or an advertisement 0 of an agent that was not restarted
  (`Fault`). Allocations of the node fail at any time, and packets are lost at any
  time. As liveness is costly the timers run in a fixed order (`Rank`); the
  theorems on the two invariants have them in any order, and so does TLC with
  `AnyOrder` TRUE, `MaxFaults` 1, `Spec` and those invariants alone.
- `Task` has two threads and four calls (three in `task_assertions`), which
  reaches every branch of the scheduler; `DeviceQueue` a queue of two, bursts of
  two, and five packets, so that the queue fills and the ring wraps around.
  It stops when all packets have gone, so deadlock is not checked there.

### Fairness

- The one-second timers are weakly fair: each schedules itself again whenever it
  runs. The exception, `ForeignAgentReqProcess::run_timer` when `Packet::make`
  fails, is part of the model: the liveness properties of the foreign agent and
  `Served` except it. In `MobileIP` the fairness is that of the timers as a
  whole, since a second is over only when each of them has run. The component
  runs never assume that a packet arrives.
- `Discovery` and `MobileIP` assume that a kind of broadcast or packet sent again
  and again arrives again and again, the least under which anything can be said
  of a lossy link. In `MobileIP` the agent that is sent it again and again also
  makes its answer again and again, and the advertisements heard again and again
  include some with a number other than 0. A script that was started finishes.
- `Discovery` also assumes that time passes although solicitations keep coming,
  and that packets can be made again and again.
- `Task`: every thread keeps running its driver. `DeviceQueue`: both threads keep
  running, and a device asked again and again does not refuse for ever. Nobody
  has to call or to push.

## Proofs

TLAPS proves, for all values of the constants allowed by the named assumptions:

- **Home agent** (`HomeAgentProofs`). `TypeCorrect`; `ListCorrect`, which is the
  absence of a null dereference in `run_timer`; `BindingsAreRequested`, assuming
  `ShortLifetimes`; `NoOverpromise`, assuming `IdsDetermineRequests` as well. The
  inductive invariant is `TypeOK /\ ListMatchesTable`: neither is inductive alone,
  because ageing an entry has its type only if every listed address has one. From
  `BasicProofs` comes that `htons(1)` off `htons(s)` is `htons(s - 1)` within a byte.
  `ShortLifetimes` is needed, as `home_agent_long_lifetime` shows.
- **Refinement** (also `HomeAgentProofs`). `HomeAgentImplements`: under the same
  two assumptions every step of `HomeAgent` is a step of `BindingCache` or changes
  nothing it shows. One lemma per action; the timer needs `BindingsRequested`,
  since only a lifetime within a byte is counted down by a second.
- **Foreign agent** (`ForeignAgentProofs`). `ForeignAgentTypes`.
  `ForeignAgentOneVisitor`: the entries of the node are erased before the new one
  is appended. `RelayedRemembered`: a relayed request is pending, within the bound.
  `WaitIsBounded`, assuming that the agent offers less than a byte of seconds
  (`ShortRegistrations`): the invariant says of every pending registration that
  it was made for `s` seconds, `t` of them are left, and `s - t` is what it has
  waited; the lemma `PendingStep` says that one comes from a request or is an
  older one after a second. `VisitorsAreAuthorised`, assuming short grants as well
  (`ShortGrants`): every pending registration goes back to a request the agent
  relayed, every visitor to such a request and a grant it received, and no visitor has
  more left than either. Both assumptions stand for the comparison and the
  countdown in network byte order, which are wrong beyond a byte.
- **Mobile node** (`MobileNodeProofs`). `NodeTypes`; `NodeAtHomeUsesHomeAgent`;
  `RequestsAreToHeardAgents`, assuming that no agent advertises the home agent's
  private address as its public one (`PublicAddresses`), from the invariant that
  no two advertisements held are of one agent; `NodeTrustsWithinGrant`, assuming
  offers of less than a byte of seconds (`ShortOffers`), from the invariant that
  the time a request has left and the time it asked for are both within a byte
  and in order.
- **Discovery** (`DiscoveryProofs`). `DiscoveryTypes`.
  `AdvertiserThreeWithinLifetime`: the age of the last advertisement but k plus
  the time until the next is at most k + 1 of the longest delays.
  `AdvertiserNumbersInTurn`: the number to come follows the last one on the
  wire, except at the wrap-around. `NodeHeardSoon`: while nothing is lost, the
  time since the node heard plus the time until it asks is at most a period when
  the air is empty. `DiscoveryImplementsAdvertiser` carries the advertiser's
  theorems over.
- **Queue** (`DriverProofs`, second half). `QueueTypes`, `QueueSlotsApart`,
  `QueueNotesRight`, `QueueNoLostWakeup`, from one invariant that says, for each
  place of each thread, which packet is where and who will wake the other.
  `QueueInOrder` adds that the packets in the ring, from head to tail, have rising
  numbers, that those the pulling side holds come before them, and those sent
  before these.
- **Tasks** (`DriverProofs`, first half). `TaskOneRunner`, `TaskListsAgree`,
  `TaskHandledByOwner`, and with them type correctness, for any number of threads
  and calls. The invariant adds
  that the holder of a lock still finds its thread in `_thread`, that at most one
  thread processes the task, that entries of a pending list belong to `_thread`,
  and that a thread in `run_tasks` has the task on its own list.
  `TaskScheduledIsListed` adds `DueIsServed`: while the task is to run, it has a
  pending entry, or stands on a list no thread is about to take it from, or some
  thread is on its way to enter it. A thread about to take it from its list finds
  it not due, has entered it elsewhere, or leaves another thread serving it.
- **Node and agents together** (`RegistrationProofs`, `MobileIPProofs`).
  `RegisteredIsBound` and `RegisteredIsVisitor`: `BeliefBacked` and
  `VisitorBacked` hold for any registration of 1 to `Byte - 1` seconds, any wait
  of the foreign agent from 2 seconds on, any limit of pending requests, any
  supply of identifications, timers in any order and any number of moves,
  restarts and failed allocations (`MobileIPAssumption`; beyond a byte of
  seconds nothing expires, and the code waits 7). The argument is described
  below.
- **Words and lists** (`BasicProofs`). `htons`, `ntohs` and 16-bit differences
  of numbers of one byte. What `Retain` returns: the items of the list that are
  in the set, each from a place of its own. The library's induction theorems cannot
  be instantiated here, so `InductionInSet` is proved from the least element of a
  set of numbers and applied to sets; the recursive function of `Retain` is treated
  that way. What else of a list is needed (appending, concatenating, `Erase`) is
  next to it.

### Why a registered node is registered

Neither property is inductive: whether the node may believe depends on packets
that are still under way. The invariant `Inv` of `RegistrationProofs` says what
each of them vouches for. All counts are compared as of the beginning of the
current second: a process whose timer has run this second (`Ran`) has taken one
off already.

- `TypesOK`: every packet, request, pending registration, binding and visitor is
  of one of a few kinds, and all lifetimes are of at most `RegLifetime` seconds.
- `OneEach`: no identification is under way in two packets, and none that the
  home agent has bound; so what is answered is no duplicate.
- `Known`: a packet under way for a request the node remembers is about that
  request. A deregistration under way was sent in this second. A grant under way
  is backed by the home agent for its full time.
- `Awaited`: the foreign agent still has the registration it relayed pending, and
  in full, or has entered the node already; when a grant is passed on it has.
- `Belief`: what the node believes is backed by both agents.

The home agent backs a number of seconds with the binding, or a deregistration
that the node remembers stands in for the binding it ended (`HomeBacks`); the
foreign agent backs it with a visitor (`VisitBacks`). `RegistrationProofs` is
about effects: what a delivery, a timer or a restart does to the state, and that
every such effect keeps `Inv`. `MobileIPProofs` shows that each action of the
composed components has such an effect, and draws the conclusion
(`SystemInvariant`). A request an agent can make no packet for is one that was
lost (`SameStep`), and a run of the foreign agent's timer that stops early takes
off at most the second that a full one does (`VisitsAge`). `Inv` was checked with
TLC on small instances before it was proved.

Only model-checked: all liveness, which the prover does not treat (`BindingsLapse`,
`PendingResolved`, `VisitorsLapse`, `ConnectionLapses`, `HeardAgain`, `Served`,
`Returned`, `ScheduledRuns`, `QueueDrains`). Every safety property of a passing
run is proved.

## Not modelled

- Memory is sequentially consistent in `Task` and `DeviceQueue`. x86 may delay
  the store `is_scheduled = false` of `run_tasks` past later reads; between
  `Queue` and `ToDevice` the compare-and-swap of the notifier orders it.
- `Task::cleanup`, routers that die, several tasks in one list, strides.
- ARP, Ethernet, routing tables and the correspondent node: no state of the
  registration protocol. Datagrams appear in the agents' own modules.
- Argument parsing; checksums, TTLs and other header fields no element reads;
  functions of `AgentBase` without callers.
- The rest of Click. The repository is mostly a copy of it: about 350,000 lines
  against 2,300 of the elements here. It is seen through its use: an element runs
  to completion, a scheduled timer runs, `Packet::make` may fail. Most of it is
  not used by the scripts at all, so the share of the repository's lines that is
  modelled stays small although the elements are covered.
