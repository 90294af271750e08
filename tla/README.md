# Verification of simple-npu

simple-npu simulates a network processor: packets come in, are split into
header and payload, the headers are processed by the cores of sixteen clusters
that run a P4 program with its match-action tables in simulated memories, and
the packets leave in order and by priority. It is a SystemC program. This
directory holds TLA+ models of its threads, of the network between them and of
the data structures behind its tables, the TLC configurations that check them,
and TLAPS proofs about ten of them.

Paths below are relative to `src/npu/src/behavioural/` unless they start with
`npu/` or `tries/`, which is `src/npu/src/tries/src/`.

## 1. Inventory

SystemC threads are cooperative: a thread runs until it waits, on an event,
for time, for room in a channel or for a message. `notify()` without argument
wakes exactly the threads that wait at that moment; a notification that finds
nobody is lost. This is where the hard behaviour of the program is: what a
thread tested before a wait may be stale after it, and a notification may come
before the wait it is meant for. Modules exchange messages by `put` and `get`
over bounded queues and routers. Messages from one module to another stay in
order; messages on different paths do not. Nothing is persisted, nothing
crashes or restarts, no message is lost or doubled by the network. The other
hard part is sequential: tries that are built, changed and pruned in place,
with corner cases (the empty prefix, keys of equal hash, a level too many) that
no test of the repository reaches.

| Component | State | Operations | What makes it correct |
|---|---|---|---|
| `common/ReadWriteLock` | set of readers, the writer, one event | read_lock, read_unlock, write_lock, write_unlock | exclusion; writers are preferred; no lost wake-up; everybody gets in |
| `ReorderController` | per context: announced ids, packets back, a flag; an event | port service; sending thread | packets of a context leave once, in order, all of them |
| `Scheduler`, `ClusterScheduler` | queues of jobs and of requests, events | two port services; serving loop; fetch, announce, assign | each job reaches one core; announced first; nobody sleeps on a job |
| `HAL`, `ApplicationLayer` (a core) | job queue, payload buffer, replies, semaphore, mutexes, three events | get a job, fetch its payload, read tables, send on; port service | each job is run once and leaves; answers reach their thread |
| `TrafficManager` | a queue per priority, output set, flag, event | port service; thread with three policies | each packet leaves; order within a priority |
| `Splitter`, `Parser`, `MemoryController`, `Deparser` | stored payloads, headers, two buffers, an event | store, parse or drop, fetch, return, fetch again, put together | one copy of a payload, its header known, every packet out |
| `ControlPlane`, `ControlPlaneAgent`, `common/P4Application` | command queue, current command and result, transaction, tables, the lock | load file, debugger commands, insert, transactions, delete, boot; lookup | view of the debugger and tables agree; insertions once; lookups atomic |
| `MemoryManager`, `common/FreeMemoryTracker`, `common/MemoryUtility`, `ControlPlaneAgentHAL`, `Memory`, `common/TlmVar` | free regions, memory contents, requests under way | allocate, decode, write, read | nodes are apart; agent and cores read what the agent wrote |
| `Router`, `Queue`, `common/RoutingPacket` | port buffers, routing tables | forward | the right module, order per path, nothing stuck |
| `common/P4` | handles, a trie per table, prefixes added | create, lookup, exists, add, delete | a lookup finds the longest, or the exact, entry installed |
| `tries/` PrefixTree, HashTrie, MultibitTrie, LCTrie, RangeTrie | the nodes | build, insert, remove, look up | a lookup finds the longest, or the exact, route; a change disturbs no other |
| traffic in and out, `common/primitives`, assembly | files, wiring | glue | - |

A packet's way: ingress, Splitter (payload to a memory, descriptor on), Parser,
Scheduler, ClusterScheduler (announces it to the ReorderController), a core
(fetches the payload, takes the read lock, looks its keys up in the tables and
reads their nodes from memory, sends the payload back), ReorderController,
TrafficManager, Deparser (fetches the payload), egress. Between clusters and
the rest of the chip, all of this goes through routers. A command's way: file
or debugger, ControlPlane, ControlPlaneAgent (takes the write lock), a trie of
the switch, MemoryManager for room, memories for the words.

`PROJECT.json` lists under "hazards" what is hard to test in this code, line by
line, with the properties aimed at it.

## 2. Plan

The order the modules were written in, that of their importance: the lock, the
reorder controller and the proofs of both; schedulers, core, traffic manager,
payloads, control plane, with the first proofs of the last two; then memory of
the tables, the tables of the switch with the two tries they are built from, the
other three tries, and the routers. The proofs followed in the same order, the
safety properties of all modules but one: TrieVariants, LCTrie and RangeTrie
build tries by recursive operators and are out of the prover's reach.

What the models could still gain: insertion into a range trie once it is
finished in the code, and the tables of all nine routers in MCRouter.

## 3. Modules

One action is the code from one wait to the next, or a part of it where other
threads cannot tell. An event is modelled by the places of the threads that
wait for it: notify() moves them on. A mutex that is locked and unlocked with
no wait between is left out. Logging, counters for the debugger and latencies
are left out, so that a wait for time lets any other thread run.

### Threads

**RWLockSpec, ReadWriteLock.** `pc` says where each process stands in
read_lock() and write_lock(); `cond` is the set of sleepers. `WriteLockClaim`
sets `writer` first and then finds readers or not. `RWLockSpec` is the promise:
sets of processes that share or exclude, and nothing about waiting.
`AbstractSpec` maps `sharing` and `exclusive` to the processes between the
return of the lock call and the unlock call.

**OrderedDelivery, ReorderController, MCReorderController.** The priority queues
are sets with their least element on top. `pos` is the element of `pd_flags_`
the range-for has reached; because the loop variable is a reference into a
vector of bool, used as an index it is the truth value of that element:
`Index`. So is the `context` copied from it, which the pops read again: `Pop`
takes from the queues of `Index` as it is by then, `held` is the packet that was
put. `Put`, the 1 ns and `Pop` are three steps, between which packets come.
`OrderedDelivery` says that a context's packets are delivered once, in order,
each only after it and those before it have come back.

**JobDispatch, MCJobDispatch.** `pool` and `asked` are the global scheduler's
queues and `serving` its loop, with the bound that shrinks; `jobs` and
`requests` are a cluster scheduler's, `pc` its thread. `sentJobs` and `rpc` are
messages under way. `PutMayBlock` says whether a put() can find its channel
full: FALSE is what the shipped size, 16000, amounts to.

**CoreHAL.** The HAL's queues and maps and a `pc` per thread of the application
layer; how many of `Threads` there are is chosen at the start from `Counts`. The
application is the number of its table reads.

**TrafficManager, MCTrafficManager.** `packet_order` and `output_set` as in the
code; `fifo` is the channel to the deparser. The weighted round is one action,
`Collect`, since it does not wait. `parameters` is what the simulation was
configured with: one of `Settings`, and never changed. Its `burst` says whether
several packets can come before the notified thread has run, as they do when
the port service comes out of a wait for room.

**PayloadStore.** Packet generator, splitter, parser, cores, memory, deparser
and packet logger with the messages between them. Nothing orders a payload and
a core's request for it on their ways to the memory, so that the request may
come first and be dropped; the core that sent it is `Starved`. There is one
scheduler, which gives the jobs out in order (`given`), and the reorder
controller is the promise of OrderedDelivery (`ReorderSend`): the first packet
announced and not sent on goes, once it is back, so that a starved core keeps
all later ones. A packet the P4 parser has marked (`Marked`) is dropped by
Parser, the only module to ask drop(); its payload stays in memory.

**ControlPlane.** The two command threads, the hand-over of command and result,
transactions per table, the debugger's view of the entries, boot with and
without a configuration file, and lookups. The lock is an instance of
RWLockSpec, with the preference for writers that ReadWriteLock adds to it. The
tables of the switch are sequences of at most `Rows` entries: what a table is
built from is the business of P4Tables, and `Answers` says of which entries
entry_exists() is true once another is there. mt_add_entry belongs to a library
that is not in the repository: it adds an entry (`AddEntry`), or refuses one
for want of room or because entry_exists() is true of it, and then goes on with
the rest of the batch or gives it up (`RefuseEntries`). The agent ignores
which, and confirms all.

**Router, MCRouter.** A router's thread stays on a port while it has packets,
finds the way of a packet by the two levels of its destination's name, and
blocks in put() with the packet in hand (`held`) while the way is full. A queue
between two routers is read at one end (`ocn_rd_if`) and written at the other.
MCRouter has five of the nine routers, with the tables in the repository.

### Memory and tables

**TableMemory, MCTableMemory.** Regions, decoding and memories, by words, for
the four classes of nodes with their constructors, setters, getters and
assignments. Each of the on-chip memories of the cores is a copy, and a write
to it is under way (`pending`) until its controller serves it, so that the
agent may go on while copies differ. The double Allocate of the memory manager
is in the constructor's request, and so is its decoding of the address, after
which the node's own accesses decode once more: a node found in the second
memory has the address of words in the first. An entry made by the copy
constructor (`CopyMade`) has any `tlm_addr` of `Indeterminate`. An address out
of range, or no room, ends the simulation (`halted`). Actions and the pointers
in hash entries are not written by the code and keep no word.

**BitString, PrefixTree, HashTrie.** Pure operators. A bit string is a sequence
of bits. A node is named by the bits, or the digits of the hash, on the way to
it, so that a tree is a function from names to contents, a null pointer is a
name outside its domain, and the walks of the code are sets of prefixes.
`Pruned` is what remove() takes away with a node. A hash trie's key goes through
an integer of `KeyBits` bits (`Kept`), and a key that has used up its hash is
hashed again (`DigitsOf`).

**P4Tables, MCP4Tables.** A table with one of the two tries inside, as the
factory of P4.cpp makes it, from the first entry added. Lookup, entry_exists,
add in ones and twos, delete. `table` is the external library's own account of
the entries, `gateway` and `used` are history for the properties.

**MultibitTrie, LCTrie, RangeTrie, TrieVariants, MCTrieVariants.** The other
classes a table may be built from (`#define LPM_TRIE`, `EXACT_TRIE` in P4.cpp),
each as operators: strides by cost and expansion to them; base vector, skips,
branches and chains; bounds ordered by two stacks, comparators, groups merged
and cut. The LC trie is built with fill factor 1 and no root branching, the
only values its constructor is called with: then the base vector is never
expanded (`tries/LCTrie.h:299`), although `Expanded` translates it.
TrieVariants drives one of the classes: constructed from a table in any order,
then changed by an insertion, a removal or a reconstruction. The structure is
compared with `table`, the set of routes it should hold.

In each module the definitions called "faulty variant" are no part of the model:
each is an action or operator with a plausible bug put in, and the property
named beside it in `PROJECT.json` is violated when it takes the place of the
correct one.

## 4. Runs

Runs that pass:

| Run | Instance | Properties |
|---|---|---|
| ReadWriteLock | 3 readers, 2 writers, 2 commands each | TypeOK, MutualExclusion, NoLostWakeup, WriterPreference, EverybodyServed, AbstractSpec |
| MCReorderController | 5 packets of context 1, 3 contexts, one cluster | NothingLost, NoLostWakeup, EventuallySent, AbstractSpec |
| MCJobDispatch | 3 jobs, clusters of 2 and 1 cores | JobsConserved, AnnouncedInOrder, NoStrandedJob, EveryJobRuns |
| CoreHAL | 1 or 2 threads, 16 tokens, 4 jobs, 2 reads each | JobsConserved, NothingMissed, LoneThreadFinishes |
| MCTrafficManager | 6 packets, 2 priorities, 3 settings | Conserved, FifoPerPriority, EverySent |
| PayloadStore | 4 packets, one of them marked, 2 cores, one scheduler | OnePayload, DeparserReady, EveryPacketLeaves |
| MCControlPlane | 2 insertions of one key in the file, 4 debugger commands, 1 transaction, 2 tables of 2 rows, 2 cores | ConfirmedInstalled, InsertedOnce, LookupsAtomic, CommandsFinish |
| TableMemory | 2 nodes of any of 4 classes, 1 copied entry, 1 call of a setter or getter, a first memory of 8 words, 2 cores | BlocksApart, ReadsBack |
| MCP4Tables | 7 routes of up to 3 bits, or 6 keys of 4 bits; 3 entries at a time | LpmCorrect, ExactCorrect, TreeMinimal, ExistsRightly |
| MCTrieVariants | every table of 3 of 11 routes of up to 4 bits, in every order, then 3 changes | LongestMatch, BoundsMatch, FoundExactly, ChangesLocal |
| MCRouter | 6 routers, 5 packets of 3 flows, queues of 1, 3 in the network | RightModule, InOrder, Arrives |

What they show together: within the bounds, and with the parameters in the
repository, no packet descriptor, payload or command is lost, doubled or slept
on, but for what the next run and the lists after it say; packets of a context
leave in order; a lookup sees a transaction whole, reads the words the agent
wrote unless another node was given them as well, and answers with the longest
or the exact entry.

The run MCReorderTwoClusters ends in a violation of NothingLost: the pops after
the delay take another packet than the one put, when two cluster schedulers
announce packets. It needs only the sixteen clusters of the configuration.
`PROJECT.json` describes it under "findings".

**Where code and documentation, or code and intention, part.** No run is kept
for these. Each can be seen by a change of constants or with a property of a
line, unless it is said to be left out of the models.

Threads:

- `HAL.cpp:158`: with core_threads above 1 (it is 1), a payload that comes while
  its thread is in line for the mutex is missed (NothingMissed or
  LoneThreadFinishes without `Lone`).
- `ReorderController.cpp:97`: with packets of contexts 0 and 1 both under way, the
  pops take from the queues of context 1 after a packet of context 0 was sent, if
  one of context 1 came in the meantime: it is lost, or an empty queue is popped
  (NothingLost with `ContextOf` of 0 and 1). Packets of contexts above 1 are never
  sent (EventuallySent). The packet generator gives context 1 to all.
- `HAL.cpp:41`: the semaphore has 16 tokens whatever core_active_threads says;
  `HAL.cpp:78`: payloads and answers are never taken out of their buffers.
- `ControlPlaneAgent.cpp:186`: a transaction is not cleared when it ends, and a
  second one hands its entries over again. Each is refused for its own key, and
  with it, if the library gives a batch up, whatever was recorded since.
- `ControlPlaneAgent.cpp:150`: an insertion that is refused, because the table is
  full or entry_exists() answers for the entry, is shown to the debugger as
  confirmed (ConfirmedInstalled without "or refused"), and packets may be let in
  without an entry of the file.
  `ControlPlaneAgent.cpp:228`: a deletion is confirmed and not carried out; a
  modification likewise. A result with an error shows the debugger nothing.
- `ControlPlaneAgent.cpp:67`: if the control plane's threads start before the
  agent's (`AgentFirst` FALSE), the first notification is lost (CommandsFinish).
- `ControlPlane.cpp`: without its configuration file no packet is ever let in.
- `ControlPlaneAgent.cpp:253`: setCurrentTableName("") would keep its mutex; it
  has no such caller.
- `TrafficManager.cpp:147`: with the repository's parameters and `burst`, the
  thread sleeps on packets in `output_set_` until another comes (EverySent).
- `TrafficManager.cpp:71`: FIXED_PRIORITY with NO_PRIORITY false sends nothing
  (EverySent); the test is the wrong way round. `TrafficManager.cpp:113`: a queue
  whose weight is max_buffer, kept full, starves the others.
- `TrafficManager.cpp:68`: with `drop` false and a small channel, the packet
  descriptor that was waited for is not filed (`lost` is not empty).
- `ClusterScheduler.cpp:148`: if the put of a request finds its channel full
  (`PutMayBlock`), the answer can come before fetchJobs() waits for it
  (EveryJobRuns). The shipped size, 16000, makes it rare.
- `Parser.cpp:82`: a packet reported as dropped for want of room is parsed and
  sent nevertheless. `common/P4Application.cpp:62`: nobody asks whether the
  application dropped a packet, which leaves; `PacketDescriptor.cpp:148`: its mark
  is put on a copy.
- `Splitter.cpp:128`: a payload's room is asked for by its size after it was
  emptied, so that every payload gets the same address. `Deparser.cpp:76`:
  headers are never erased.
- `Router.cpp:66`: a router stays on a port while it has packets, so that under
  endless traffic the others starve; two neighbours that hold packets for each
  other and have full queues block for good (`InFlight` above 2 * `FifoSize` + 1,
  Arrives). With 16000 places that takes very many packets.
- A payload address in mct_0_mem's range would send a core's request to a name
  that its local switch does not know, and stop the simulation; addresses do not
  grow so far.

Table memory:

- `ControlPlaneAgentHAL.cpp:65`: a physical address is decoded a second time as
  a virtual one: the node at word x of the second memory has the address of the
  one at word x of the first, and the two overwrite one another (ReadsBack for
  words that are `Shared`). The memory on the chip has 1024 words and the region
  for tables 1048576, so that some hundred nodes are enough.
- `tries/HashTableEntry.h:144`: the copy constructor, which `tries/HashTrie.h:285`
  calls when two keys go down one way, leaves `tlm_addr` unset. The copy's
  members on the host are right; its words are those of another node, or of
  nobody, or out of range, which ends the simulation.
- `ControlPlaneAgentHAL.cpp:89`: words may still be on their way when the write
  lock is released; a core that is quicker than the agent's writes reads old
  words (`pending`). ReadsBack is about what is not under way.
- `common/FreeMemoryTracker.h:73`: bits are compared with words, and the
  simulator gives up with regions free. Nothing is ever given back: an
  assignment of nodes takes new words and leaves the old ones.
- Only the low 32 bits of pointers are written, and most getters return the
  member on the host and not the word that was read. `tries/RangeTrieNode.cpp:41`:
  the constructor never sets the address its words are written to.

Tables and tries:

- `common/P4.cpp:187`: an entry that is not there is refused as there, when its
  prefix leads to a longer one or a route with the empty prefix was ever
  installed (ExistsRightly). That route is added once and for all: its deletion
  does nothing, and a reconstruction keeps it.
- `tries/HashTrie.h`: of keys longer than 32 bits the upper bits are lost, so
  that such a key is not found, and may be answered for or deleted in another's
  place; two keys of the same hash lose one of them or read a null pointer.
- `tries/PrefixTree.h:317`: remove() writes one element past the end of an array;
  the models take it as harmless.
- `tries/MultibitTrie.h:271`: a route added later that needs more levels than
  there are is given up without a word ("How to fix this?"). `:434`: a removal
  restores the first of the expansions only, and leaves "no match" where a
  shorter route lies above; `:319`: it frees an empty root that lookups then
  read. The empty prefix throws.
- `tries/LCTrie.h:517`: anything but Reconstruct throws a string, which the
  handler of `common/P4.cpp:220`, written for this case, does not catch.
- `tries/RangeTrie.h:264` tests > for >=: where one route ends exactly where
  another begins, the routes around both are forgotten. `:282`: in a table with no
  nesting, the top of an empty stack is read. Inside a region, a common suffix is
  not compared, and an address between two bounds may be answered by a
  neighbour; at the bounds it is right (BoundsMatch). At the default width of 32
  bits 2^32 overflows.

**Bounds.** Two writers compete for a claim, three readers make one enter, one
leave and one stay; five packets let any three be out of order around the one
being sent; two clusters and a cluster of two cores give a race for jobs,
hoarding of jobs and a core that waits while another is served; two threads are
enough for each to take what the other asked for; six packets fill a channel of
two and a round of two and leave some of each priority behind; four packets let
one be dropped and three overtake one another, and their payloads, everywhere.
Two nodes suffice for two blocks to overlap. With eight words on the chip, of
which the forgotten allocation takes some, the first node straddles the end or is
in the next memory, and two small ones are one in each; one copy meets either,
and one call on top of the constructors is enough, because calls of different
words do not meet. Two insertions of one key and a third of the debugger's are
refused in either table, alone and in a batch, and two rows are full with two
more. Three entries are a route, a shorter one and a sibling, whose removal
must prune up to a fork; deeper trees only repeat this, and the multibit trie's
levels, the LC trie's skips and chains, and the comparators of the range trie
(2 bits, 2 at a time) are small enough that 4-bit routes need several of each.
Five packets meet head on in each pair of routers of MCRouter; with queues of
one, every put() there can block. No run uses symmetry.

Deadlock is checked in ReadWriteLock, where readers always have something to do;
elsewhere the system stops rightly when packets, jobs, commands or changes run
out, and liveness properties say that it stops nowhere else.

**Fairness.** Weak fairness of every thread, because the SystemC scheduler runs
every runnable thread before time advances, and of the delivery of messages,
because routers forward and memories answer in finite time; in Router itself, of
each router's thread and of the modules' taking what arrives. The environment is
never fair: packets and debugger commands may stop coming, and a core may
finish with the read lock and not come back. A reader inside the lock leaves
it, because pipelines are finite. Weak fairness is enough even where processes
compete: the readers' half of `EverybodyServed` holds because commands are finite
in number. P4Tables, TrieVariants and TableMemory are called by others and have
no fairness.

## 5. Proofs

The modules `*_proof` hold for all values of the constants allowed by the
assumptions of the modules they extend, and under the hypotheses named below.
The proofs about ReadWriteLock are at the end of P4Tables_proof, whose lookups
are one step because they are made under that lock; those about TableMemory and
Router are both in TableAccess_proof, since requests to a memory are served in
the order of sending only because the network keeps it.

| Module | Properties proved | Hypotheses |
|---|---|---|
| ReadWriteLock | TypeOK, MutualExclusion, NoLostWakeup, WriterPreference, AbstractSpec | none |
| ReorderController | TypeOK; InOrder, NothingLost, TopDefined, AbstractSpec; NoLostWakeup | none; `SingleCluster` and `Unmixed`; and `LowContexts` |
| JobDispatch | TypeOK and FrontDefined, AnnouncedInOrder, JobsConserved; NoStrandedJob | none; no put() blocks |
| CoreHAL | TypeOK and LocksHeld, JobsConserved, NothingMissed | none (first wait for a payload: a lone thread) |
| TrafficManager | TypeOK, FifoPerPriority; Conserved | none; `Suited` settings |
| PayloadStore | TypeOK, DeparserReady, OnePayload | none |
| ControlPlane | LookupsAtomic, TypeOK; InsertedOnce, ConfirmedInstalled; NothingMissing | none; one transaction; and room for all, no entry that an earlier one answers for |
| P4Tables | TreeMinimal, LpmCorrect, ExistsRightly, ExactCorrect | none |
| TableMemory | BlocksApart, ReadsBack | none |
| Router | RightModule, InOrder | `Leads` |

*Lock.* MutualExclusion is not inductive: that a writer is alone follows only
from the agreement of processes' places with `readers` and `writer`
(`PlacesAgree`), from the emptiness of `readers` once a section has begun
(`WriterAlone`) and from the claim's keeping new readers out. `LockInv` joins
these with `CommandOwed`, which keeps the counter of commands natural, and
`NoLostWakeup`. `LockInvariant` proves it one action at a time; the safety
properties, `WriterPreference` and the refinement follow from it.

*Reorder controller.* `TypeCorrect` holds for any clusters. The other theorems
assume `SingleCluster`, announcements come in the order of ids, and `Unmixed`,
contexts 0 and 1 are not both in use. MCReorderTwoClusters shows that without the
first `NothingLost` is false, and with both contexts in use TLC finds the same
(section 4), so that the assumptions are needed. `InOrder` and `TopDefined` have
no run of their own: TLC checks `AbstractSpec`, from which the order follows.
`OrderInv` says that the two queues hold exactly the packets not yet delivered,
and the one just delivered until it is popped (`QueuesTrack`), that what is being
put is on top of both and stays there (`HeldOnTop`), that the index the pops are
going to read is still the context of what was put (`IndexKept`), and that what
was delivered comes before the rest (`SentFirst`). `IndexKept` is where `Unmixed`
is used: context 0 is sent from element 1 while that flag is down, and only a
packet of context 1 would raise it.
`NoLostWakeup` needs in addition that packets have contexts 0 and 1
(`LowContexts`; the packet generator gives context 1 to all), because of the loop
variable, and the invariant `WakeInv`: a flag is set where something can be sent
(`FlagsTell`) and nowhere above context 1 (`FlagsLow`).

*Schedulers.* That no front() is taken of an empty queue needs that the request
for which a job is fetched stays at the front meanwhile (`FrontsThere`). The
order of announcements needs the order of everything upstream of them, as one
line from the parser to the cores. JobsConserved counts the places of a job; the
proof shows instead that a job's places are told apart by one invariant, whose
hardest part is that a core has asked at most once (in a queue of requests, in
hand, or running), since a job given to a busy core would displace another.
NoStrandedJob is proved for `PutMayBlock = FALSE`: the scheduler waits for one
event alone and can miss the other when a put() is blocked (section 4).

*Core.* LocksHeld is inductive together with the types, since only a thread that
has a token gives one back. JobsConserved follows from an invariant that names
the one place a job is in. NothingMissed counts: the jobs queued and coming are
as many as the threads that asked and have none yet; and the reads under way
belong one each to the threads that wait for them. A thread that has looked for
its payload in vain waits from then on, and is woken when it comes, whatever the
number of threads. The wait before it looks is safe only for a lone thread, which
never stands in line for the mutex and whose payload is asked for only after its
job has left the queue; of several threads nothing is proved there, and section 4
says what goes wrong.

*Traffic manager.* A packet that leaves must come after all of its priority that
left and before all that are still here, wherever they are. `OrderInv` therefore
speaks of the whole chain sent, output_set, hand, packet_order and input, and
makes the packets in it distinct, which also keeps any from being in two
places. `RoundInv` says what is left of a round and that the flag
`flag_buffer_empty` tells the truth. Conserved assumes of every setting that it
is `Suited`: it has NO_PRIORITY, with which the queues per priority are used, or
a policy that is neither of the two with priorities, no burst, and room for
every packet, as in the repository's configuration file; section 4 tells what
happens with the others. FifoPerPriority needs none of it.

*Payloads.* DeparserReady speaks of payloads that have come; `HeadersKept` says
that a header was kept from the moment a payload was asked for, through refused
requests, until it comes, and `Awake` that a notification is on its way when
buffers fill while the thread sleeps. `TypeInv` is TypeOK with what makes it
inductive: whoever names a packet has one (`Named`). OnePayload counts the places
of a payload in messages and memories; a request that overtakes the payload is
refused and asked again, and moves no payload.

*Control plane.* LookupsAtomic follows from `LockKept`: the agent holds the write
lock exactly while it stands at "apply", and then nobody shares it. Only the
promise of RWLockSpec is used, which the lock's proof shows the code to keep.
The commands that are queued and the one the agent is woken for are one line
(`OrderInv`), in which insertions are numbered in their order. An insertion goes
from the front of the line through the transaction, or the batches under way,
to the end of a table; each is in order and behind what follows it.
`Transactions =< 1` is needed for that order: the agent's buffer of a transaction
is not cleared when it is applied, so that a second one hands the first's over
again. ConfirmedInstalled follows every insertion from the line to its result
(`ResultInv`): what the agent answers for is in a table or in `refused`, and
whatever is refused has its cause there still, since nothing is ever taken out of
a table (`RefusedRightly`). It has no hypothesis about rows or keys. What it says
with such hypotheses is NothingMissing: if no entry answers for a later one and
every table has room for all, nothing is refused, so that what is confirmed is in
a table and the first packet finds every insertion of the file.

*Tables.* For any finite or infinite sets of routes and addresses over bits,
the prefix tree is as `TreeInv` describes it: the names in it are the installed
prefixes and what leads to them, each marked as the code marks it and no other
(`Holds`). insert and remove are shown to keep it by lemmas about prefixes of
a sequence; then the walk that remembers the last valid node returns the longest
installed prefix, whatever came and went before. A hash trie is as `ExactInv`
describes it (`EntriesHold`): a key is at one entry on the way of its hash, what
is above an entry are bitmaps and below a key there is nothing. The hypothesis
is in the property: that the keys used have hashes that differ and survive the
integer they are kept in (`WellKept`). Then two keys part within one hash, and
the code's second and third hash, and the null pointer behind them, are never
reached. A split is proved in two stages, the resident key down its own way and
then the new key into the vacant place, and a removal in two, the entry dropped
and its only neighbour lifted.

*Table memory.* Both theorems hold for any layout and regions, whether or not the
tables leave the first memory. BlocksApart follows from `PlacedInv`: blocks are
apart from one another and below all that is free; and decoding moves all words
of one memory by the same amount (`DecodedOnce`, `PlaceOfOne`), so that what was
apart there stays apart, while nodes of different memories may be given the same
words. An assignment hands words over and leaves the entry gone (`HeldInv`). For
ReadsBack, `Back` says of every member of a live node, and of every copy of the
memory which a core may read, that the last write under way to its word carries
the member, or, if there is none, that the word holds it: for words that no other
node was given (`Own`). A second decoding takes different addresses to different
places, so that a write to another address cannot reach the word (`WrittenSeen`),
and a word that nobody else was given stays so until some later node is given it,
from when on nothing is claimed of it. Nodes made by the copy constructor are
nodes with any address whatever: nothing is claimed of their words either, and of
other nodes' only where the copy does not point. `ReadingInv` says that the
agent's own read is behind all of its writes, which is why the agent need not
wait for them.

*Network.* `Leads` is a hypothesis about the tables alone: from the first router
of each flow the look-ups follow a path, `Way`, that passes no router twice and
ends at the flow's module with one name left. The tables of MCRouter have such
ways: jobs pass ocn_11, ocn_21, ocn_22 and cluster_local_switch, requests for
jobs the same backwards, table answers ocn_02, ocn_12, ocn_22 and
cluster_local_switch. The queue a packet waits in and the router that holds it
are stages of its flow's way (`Stop`). The invariant, `NetworkInv`, says that
every packet is at a stage of its way with the destination it should have there
(`Placed`), that of two packets of a flow the one at the later stage, or in
front in the same queue, has the lower number (`Ordered`), and that the packets
under way are those sent and not received (`Between`, `Present`). Each action
takes a packet one stage on, and this is shown once (`MoveKeeps`). A packet that
arrives is then the next one of its flow.

Some steps need induction: that an increasing sequence of numbers up to n is
no longer than n, that there is a longest among the prefixes of an address, and
what the recursive functions of TrafficManager compute, which must first be
shown to exist. The theorems of induction take the claim as a parameter and
cannot be used; the proofs argue instead by the least number for which the claim
would fail, from the well-foundedness of the natural numbers.

Only checked by TLC: all liveness properties, since fairness and ENABLED are
beyond the prover, and every property of TrieVariants (LongestMatch,
BoundsMatch, FoundExactly, ChangesLocal), whose tries are built by recursive
operators.

## 6. Not modelled

- Insertion into and removal from a range trie: unfinished in the code ("Handle
  this case!"), with reads past its vectors that have no outcome to speak of. Also
  left out of RangeTrie: one element written behind an array when groups are
  merged, comparators narrower than the parts (a division by zero) and memory
  bandwidth for a single branch (endless recursion), which the constants exclude.
- `common/P4` beyond the tables is glue to the bm_sim library, which is not in
  the repository; `common/primitives` is arithmetic on the fields of one packet.
- Packet classes, logs and the traffic files: reading, writing and formatting;
  the logger's sorted copy is made when the simulation has ended. Conversions of
  bit strings to and from characters.
- Assembly: constructors that wire modules; most of that code is generated from
  a description and not in the repository (`structural/`).
- Statistics (completed jobs, memory per table), latencies and the debugger's
  messages. Each BitString operator waits 1 ns, so that a lookup is suspended
  many times: it is one action in P4Tables because it is made under the lock,
  which ControlPlane shows to suffice (LookupsAtomic).
- Code that cannot run or that nobody calls: the reorder controller's NOREORDER,
  Schedule and RoundRobin, the memory controller's branch for "ode", tlmwrite,
  deallocation, the free-list and custom allocators and the nodes' operator new
  and delete, PrefixTree's remove2, getNodeFor... and countNumberOfNodes, clear()
  of the tries (an assertion that it is not implemented).
