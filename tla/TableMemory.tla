------------------------------ MODULE TableMemory ------------------------------
(***************************************************************************)
(* Where table nodes live in the simulated memories: the memory manager    *)
(* with its free regions, the decoding of virtual addresses, and the three *)
(* users, splitter, control plane agent and cores.  The constructor of a   *)
(* node asks for room, gets an address back, and has each field written to *)
(* where that address decodes to; setters write single fields, getters     *)
(* read them.  Memory on the chip has one copy per core, which the agent   *)
(* writes all; a request to a memory is under way until the memory's       *)
(* controller serves it, in the order of sending.                          *)
(*                                                                         *)
(* The address a constructor gets back has been decoded by the manager     *)
(* already, and is decoded again at every use: two nodes of different      *)
(* memories may be given the same.  And one constructor asks for nothing:  *)
(* a copied hash entry uses whatever its tlm_addr happens to be.           *)
(*                                                                         *)
(* A node keeps its members on the host too, member w for word w.  Actions *)
(* and the pointers of hash entries are never written: their words are 0,  *)
(* and the members are given as 0 here.                                    *)
(***************************************************************************)
EXTENDS Integers, Sequences, FiniteSets, SequencesExt

CONSTANTS Layout,     \* "MemoryLayout" with the "size" of each memory
          Mapped,     \* the memories with "Mapping": those on the chip
          Region,     \* "ALLOCATE": for each kind, its first and last address
          Word,       \* 32: a region counts words, a request bits
          Kinds,      \* the classes of nodes in use
          Value,      \* what a member may hold
          Untouched,  \* 0xAA000000: what a word never written holds
          NodeCount,  \* bound: nodes the agent constructs in new words
          CopyCount,  \* bound: entries it copies
          CallCount,  \* bound: calls of setters and getters
          Cores,      \* the cores, each with its copy
          Core0,      \* the first of them
          QueueSize,  \* requests that may be under way to a memory
          Indeterminate  \* what an int that was never set may be

ASSUME MemoryAssumption ==
    /\ Len(Layout) \in Nat \ {0}
    /\ \A i \in 1..Len(Layout) : Layout[i].size \in Nat
    /\ \A i, j \in 1..Len(Layout) : Layout[i].name = Layout[j].name => i = j
    /\ Mapped \subseteq {Layout[i].name : i \in 1..Len(Layout)}
    /\ \A m, n \in Mapped : m = n
    /\ Cores \cap {Layout[i].name : i \in 1..Len(Layout)} = {}
    /\ \A kind \in {"TRIE", "Payload"} :
          Region[kind] \in [first : Nat, last : Nat]
    /\ Word \in Nat \ {0}
    /\ Kinds \subseteq {"UnibitNode", "HashTableEntry", "MultibitNode", "LCNode"}
    /\ 0 \in Value /\ Untouched \notin Value
    /\ NodeCount \in Nat /\ CopyCount \in Nat /\ CallCount \in Nat
    /\ Core0 \in Cores /\ QueueSize \in Nat /\ Indeterminate \subseteq Int

VARIABLES free,     \* FreeRegions of each FreeMemoryTracker
          nodes,    \* the nodes: class, tlm_addr, members, state; and the
                    \* block they have, by its number
          blocks,   \* history: for each node constructed, the words taken
                    \* for it and the tlm_addr it was given, or had if copied
          calls,    \* calls of setters and getters
          pending,  \* requests under way to each memory, in the order sent
          reading,  \* the agent's tlmread(): what it asked for and got
          cells,    \* the memories: value of each address written so far
          halted    \* why the simulation went no further

vars == <<free, nodes, blocks, calls, pending, reading, cells, halted>>

Memories == Cores \cup {Layout[i].name : i \in 1..Len(Layout)}

NotReading == [node |-> 0, word |-> 0, answer |-> {}, step |-> 0]

Init == /\ free = [kind \in {"TRIE", "Payload"} |-> <<Region[kind]>>]
        /\ nodes = <<>> /\ blocks = <<>>
        /\ calls = 0
        /\ pending = [m \in Memories |-> <<>>]
        /\ reading = NotReading
        /\ cells = [m \in Memories |-> <<>>]
        /\ halted = "no"

-------------------------------------------------------------------------------
(* FreeMemoryTracker                                                       *)

RegionSize(r) == r.last + 1 - r.first

(* allocate(): the first region whose size in words is at least the        *)
(* request in bits; what is taken are the words.  None: exit().            *)
Fits(bits, regions) == {i \in 1..Len(regions) : bits =< RegionSize(regions[i])}

FirstFit(bits, regions) == CHOOSE i \in Fits(bits, regions) :
                              \A j \in Fits(bits, regions) : i =< j

Allocated(bits, regions) == regions[FirstFit(bits, regions)].first

(* Faulty variant: the region's start is not moved.                        *)
AfterAllocateStays(bits, regions) == regions

AfterAllocate(bits, regions) ==
    LET i == FirstFit(bits, regions)
        rest == [regions[i] EXCEPT !.first = @ + (bits \div Word)]
    IN  IF rest.first >= rest.last THEN RemoveAt(regions, i)
                                   ELSE [regions EXCEPT ![i] = rest]

(* decodevirtual(): the first memory whose size is above the address, and  *)
(* the address less the sizes of the memories before it.                   *)
SizesBefore[i \in 1..Len(Layout)] ==
    IF i = 1 THEN 0 ELSE SizesBefore[i - 1] + Layout[i - 1].size

Candidates(v) == {i \in 1..Len(Layout) : v < Layout[i].size}

Decodes(v) == /\ v >= 0 /\ v =< SizesBefore[Len(Layout)] + Layout[Len(Layout)].size
              /\ Candidates(v) # {}

Decode(v) == LET i == CHOOSE i \in Candidates(v) : \A j \in Candidates(v) : i =< j
             IN  [name |-> Layout[i].name, address |-> v - SizesBefore[i]]

\* So that no word lies before the beginning of a memory
ASSUME DecodeAssumption ==
    \A i \in 1..Len(Layout) : \A v \in 0..(Layout[i].size - 1) : Decode(v).address >= 0

-------------------------------------------------------------------------------
(* MemoryManagerThread calls Allocate() twice, answers with the physical   *)
(* address of the second, and forgets the first.                           *)
Halt(why) ==
    /\ halted' = why
    /\ UNCHANGED <<free, nodes, blocks, calls, pending, reading, cells>>

Request(kind, bits) ==
    LET once == AfterAllocate(bits, free[kind]) IN
    /\ Fits(bits, free[kind]) # {} /\ Fits(bits, once) # {}
    /\ Decodes(Allocated(bits, once))
    /\ free' = [free EXCEPT ![kind] = AfterAllocate(bits, once)]

Given(kind, bits) == Allocated(bits, AfterAllocate(bits, free[kind]))

Exhausted(kind, bits) ==
    /\ Fits(bits, free[kind]) # {} =>
          Fits(bits, AfterAllocate(bits, free[kind])) = {}
    /\ Halt("no room")

(* The splitter asks for the bytes left of the packet once its header is   *)
(* split off, and it splits off everything.                                *)
AllocatePayload ==
    /\ halted = "no"
    /\ Request("Payload", 0)
    /\ UNCHANGED <<nodes, blocks, calls, pending, reading, cells, halted>>

-------------------------------------------------------------------------------
(* ControlPlaneAgentHAL: tlmwrite() decodes the address it was given and   *)
(* sends a write to every core's copy if the memory is on the chip, and to *)
(* the memory itself otherwise; tlmread() asks the first copy and waits.   *)
(* Faulty variant: only the first copy is written.                         *)
FirstCopy(name) == IF name \in Mapped THEN {Core0} ELSE {name}

Copies(name) == IF name \in Mapped THEN Cores ELSE {name}

tlmwrite(queues, word) ==
    LET d == Decode(word.address) IN
    [m \in Memories |->
        IF m \notin Copies(d.name) THEN queues[m]
        ELSE Append(queues[m], [write |-> TRUE, address |-> d.address, value |-> word.value])]

(* One write after the other, which must not wait in between              *)
Written(writes) ==
    LET after[n \in 0..Len(writes)] ==
            IF n = 0 THEN pending ELSE tlmwrite(after[n - 1], writes[n])
    IN  after[Len(writes)]

PutAll(requests) == /\ \A m \in Memories : Len(requests[m]) <= QueueSize
                  /\ pending' = requests

tlmread(place) ==
    [pending EXCEPT ![place.memory] =
        Append(@, [write |-> FALSE, address |-> place.address, value |-> 0])]

(* HAL::tlmread, on core k: its own copy, or the memory.                   *)
ReadPlace(k, v) == LET d == Decode(v)
                   IN  [memory |-> IF d.name \in Mapped THEN k ELSE d.name,
                        address |-> d.address]

(* MemoryControllerThread: the oldest request, which writes its word into  *)
(* the memory or reads it from there and answers.                          *)
tlm_read(m, address) ==
    IF address \in DOMAIN cells[m] THEN cells[m][address] ELSE Untouched

tlm_write(m, address, value) ==
    cells' = [cells EXCEPT ![m] = [a \in DOMAIN cells[m] \cup {address} |->
                                       IF a = address THEN value ELSE cells[m][a]]]

Serve(m) ==
    /\ halted = "no" /\ pending[m] # <<>>
    /\ LET r == Head(pending[m]) IN
       IF r.write
       THEN tlm_write(m, r.address, r.value) /\ UNCHANGED reading
       ELSE /\ reading' = [reading EXCEPT !.answer = {tlm_read(m, r.address)}]
            /\ UNCHANGED cells
    /\ pending' = [pending EXCEPT ![m] = Tail(@)]
    /\ UNCHANGED <<free, nodes, blocks, calls, halted>>

-------------------------------------------------------------------------------
(* The classes of nodes.  A constructor is given values for some members   *)
(* and starts the others at 0.                                             *)
UnibitNode(v)     == <<0, v, v, v>>     \* action, one, zero, flag
HashTableEntry(v) == <<v, v, 0, 0, v>>  \* flag, key, value, pointer, length
MultibitNode      == <<0, 0, 0, 0, 0>>  \* stride, next, action, length, flag
LCNode(v)         == <<v, v, 0>>        \* branch, skip, left

Constructed(kind, v) == CASE kind = "UnibitNode"     -> UnibitNode(v)
                          [] kind = "HashTableEntry" -> HashTableEntry(v)
                          [] kind = "MultibitNode"   -> MultibitNode
                          [] kind = "LCNode"         -> LCNode(v)

(* What a setter does: the members it sets, the words it writes, in order, *)
(* and those of them to which it writes 0 whatever it was given.           *)
Sets(w)   == [members |-> {w}, written |-> <<w>>, zero |-> {}]
Clears(w) == [members |-> {}, written |-> <<w>>, zero |-> {w}]

UnibitSetters     == {Sets(2), Sets(3), Sets(4)}
HashEntrySetters  == {Sets(1), Sets(2), Clears(3), Clears(4), Sets(5)}
MultibitSetters   == {Sets(1), Sets(2), Sets(4), Sets(5),
                      [members |-> {5}, written |-> <<3, 5>>, zero |-> {3}]}
LCSetters         == {Sets(1), Sets(2), Sets(3)}

Setters(kind) == CASE kind = "UnibitNode"     -> UnibitSetters
                   [] kind = "HashTableEntry" -> HashEntrySetters
                   [] kind = "MultibitNode"   -> MultibitSetters
                   [] kind = "LCNode"         -> LCSetters

(* The words that getters read, one each.                                  *)
UnibitGetters     == 1..4
HashEntryGetters  == 1..5
MultibitGetters   == 1..5
LCGetters         == 1..3

Getters(kind) == CASE kind = "UnibitNode"     -> UnibitGetters
                   [] kind = "HashTableEntry" -> HashEntryGetters
                   [] kind = "MultibitNode"   -> MultibitGetters
                   [] kind = "LCNode"         -> LCGetters

-------------------------------------------------------------------------------
(* The agent: one constructor, setter or getter at a time                  *)
Idle == /\ halted = "no" /\ reading = NotReading
        /\ \A i \in 1..Len(nodes) : nodes[i].state # "allocated"

Live(i) == nodes[i].state = "live"

WordsOf(i) == 1..Len(nodes[i].members)

Address(i, w) == nodes[i].tlm_addr + w - 1

Decodable(i) == \A w \in WordsOf(i) : Decodes(Address(i, w))

\* A block: the words from first on that were taken, as many as words, and the
\* address the node was given; for a copied entry nothing was taken.
TakenBlock(kind, v) == [first |-> v, words |-> Len(Constructed(kind, 0)),
                        tlm_addr |-> Decode(v).address, copied |-> FALSE]

Allocations == {b \in 1..Len(blocks) : ~blocks[b].copied}

CopiedBlock(kind, a) == [first |-> 0, words |-> Len(Constructed(kind, 0)),
                         tlm_addr |-> a, copied |-> TRUE]

Writes(i, words) ==
    [w \in 1..Len(words) |-> [address |-> Address(i, w), value |-> words[w]]]

tlmallocate(bits) == Request("TRIE", bits)

(* The constructor asks for as many words as the class has.                *)
AllocateNode(kind) ==
    LET bits == Len(Constructed(kind, 0)) * Word IN
    \/ /\ Idle /\ Cardinality(Allocations) < NodeCount
       /\ tlmallocate(bits)
       /\ nodes' = Append(nodes,
              [kind |-> kind, tlm_addr |-> Decode(Given("TRIE", bits)).address,
               members |-> Constructed(kind, 0), state |-> "allocated",
               block |-> Len(blocks) + 1])
       /\ blocks' = Append(blocks, TakenBlock(kind, Given("TRIE", bits)))
       /\ UNCHANGED <<calls, pending, reading, cells, halted>>
    \/ Idle /\ Exhausted("TRIE", bits)

(* The rest of the constructor                                             *)
Construct(v) ==
    \E i \in 1..Len(nodes) :
        /\ halted = "no" /\ nodes[i].state = "allocated" /\ Decodable(i)
        /\ nodes' = [nodes EXCEPT ![i].members = Constructed(nodes[i].kind, v),
                                  ![i].state = "live"]
        /\ PutAll(Written(Writes(i, Constructed(nodes[i].kind, v))))
        /\ UNCHANGED <<free, blocks, calls, reading, cells, halted>>

Call == /\ Idle /\ calls < CallCount
        /\ calls' = calls + 1

(* A setter                                                                *)
Setter(i, setter, v) ==
    /\ Call /\ Live(i)
    /\ \A n \in 1..Len(setter.written) : Decodes(Address(i, setter.written[n]))
    /\ nodes' = [nodes EXCEPT ![i].members =
          [w \in WordsOf(i) |-> IF w \in setter.members THEN v ELSE @[w]]]
    /\ PutAll(Written([n \in 1..Len(setter.written) |->
          [address |-> Address(i, setter.written[n]),
           value |-> IF setter.written[n] \in setter.zero THEN 0 ELSE v]]))
    /\ UNCHANGED <<free, blocks, reading, cells, halted>>

(* A read, for which the agent waits                                       *)
Read(i, w, step) ==
    /\ Decodes(Address(i, w))
    /\ PutAll(tlmread(ReadPlace(Core0, Address(i, w))))
    /\ reading' = [node |-> i, word |-> w, answer |-> {}, step |-> step]
    /\ UNCHANGED <<free, nodes, blocks, cells, halted>>

(* A getter.  Those of LCNode return what was read, the others their       *)
(* member.                                                                 *)
Getter(i, w) == Call /\ Live(i) /\ Read(i, w, 0)

Got == /\ halted = "no" /\ reading.answer # {} /\ reading.step = 0
       /\ reading' = NotReading
       /\ UNCHANGED <<free, nodes, blocks, calls, pending, cells, halted>>

(* HashTrie::insert keeps an entry in a new one, and if the two keys part  *)
(* assigns that to one of a new array: it hands its words over, and those  *)
(* of the target are lost.                                                 *)
Assign(to, from) ==
    /\ Idle /\ to # from /\ Live(to) /\ Live(from)
    /\ nodes[to].kind = "HashTableEntry" /\ nodes[from].kind = "HashTableEntry"
    /\ nodes' = [nodes EXCEPT ![to] = nodes[from], ![from].state = "gone"]
    /\ UNCHANGED <<free, blocks, calls, pending, reading, cells, halted>>

(* Otherwise the new entry is a copy.  The copy constructor takes the      *)
(* members from the getters of the other, in the order of declaration, and *)
(* leaves tlm_addr as it is.                                               *)
CopyOrder == <<1, 2, 4, 5, 3>>

CopyEntry(from) ==
    /\ Idle /\ Live(from) /\ nodes[from].kind = "HashTableEntry"
    /\ Decodable(from) /\ Len(blocks) - Cardinality(Allocations) < CopyCount
    /\ Read(from, CopyOrder[1], 1)
    /\ UNCHANGED calls

CopyNext ==
    /\ halted = "no" /\ reading.answer # {}
    /\ reading.step \in 1..(Len(CopyOrder) - 1)
    /\ Read(reading.node, CopyOrder[reading.step + 1], reading.step + 1)
    /\ UNCHANGED calls

CopyMade(address) ==
    /\ halted = "no" /\ reading.answer # {} /\ reading.step = Len(CopyOrder)
    /\ nodes' = Append([nodes EXCEPT ![reading.node].state = "gone"],
                       [nodes[reading.node] EXCEPT !.tlm_addr = address,
                                                   !.block = Len(blocks) + 1])
    /\ blocks' = Append(blocks, CopiedBlock("HashTableEntry", address))
    /\ reading' = NotReading
    /\ UNCHANGED <<free, calls, pending, cells, halted>>

(* decodevirtual() ends the simulation over an address it does not find:   *)
(* one the manager was about to hand out, or a word of a node in use.      *)
OutOfRange ==
    /\ halted = "no"
    /\ \/ \E i \in 1..Len(nodes) :
              /\ nodes[i].state = "allocated" \/ (Idle /\ Live(i))
              /\ ~Decodable(i)
       \/ /\ Idle /\ Cardinality(Allocations) < NodeCount
          /\ \E kind \in Kinds :
                LET bits == Len(Constructed(kind, 0)) * Word
                    once == AfterAllocate(bits, free["TRIE"])
                IN  /\ Fits(bits, free["TRIE"]) # {} /\ Fits(bits, once) # {}
                    /\ ~Decodes(Allocated(bits, once))
    /\ Halt("out of range")

-------------------------------------------------------------------------------
Next == \/ \E kind \in Kinds : AllocateNode(kind)
        \/ \E v \in Value : Construct(v)
        \/ \E i \in 1..Len(nodes), v \in Value :
              \E setter \in Setters(nodes[i].kind) : Setter(i, setter, v)
        \/ \E i \in 1..Len(nodes) : \E w \in Getters(nodes[i].kind) : Getter(i, w)
        \/ Got
        \/ \E to, from \in 1..Len(nodes) : Assign(to, from)
        \/ \E from \in 1..Len(nodes) : CopyEntry(from)
        \/ CopyNext
        \/ \E address \in Indeterminate : CopyMade(address)
        \/ OutOfRange
        \/ AllocatePayload
        \/ \E m \in Memories : Serve(m)

Spec == Init /\ [][Next]_vars

-------------------------------------------------------------------------------
TypeOK == /\ \A kind \in DOMAIN free : \A i \in 1..Len(free[kind]) :
                free[kind][i] \in [first : Nat, last : Nat]
          /\ \A i \in 1..Len(nodes) :
                /\ nodes[i].kind \in Kinds /\ nodes[i].tlm_addr \in Int
                /\ \A w \in WordsOf(i) : nodes[i].members[w] \in Value
                /\ nodes[i].state \in {"allocated", "live", "gone"}
                /\ nodes[i].block \in 1..Len(blocks)
          /\ Len(blocks) = Len(nodes)
          /\ calls \in 0..CallCount
          /\ \A m \in Memories : \A a \in DOMAIN cells[m] : cells[m][a] \in Value
          /\ halted \in {"no", "no room", "out of range"}

(* The words taken for a node are of the region for tables, not free any   *)
(* more, and not another node's (FreeMemoryTracker::allocate()).  The      *)
(* addresses that two nodes were given for them overlap only where the     *)
(* memory manager found the two in different memories.                     *)
Block(b) == blocks[b].first..(blocks[b].first + blocks[b].words - 1)

Covered(b) == blocks[b].tlm_addr..(blocks[b].tlm_addr + blocks[b].words - 1)

BlocksApart ==
    /\ TypeOK
    /\ \A b \in Allocations :
          /\ Block(b) \subseteq Region["TRIE"].first..Region["TRIE"].last
          /\ \A r \in 1..Len(free["TRIE"]) :
                Block(b) \cap (free["TRIE"][r].first..free["TRIE"][r].last) = {}
          /\ \A c \in Allocations \ {b} :
                /\ Block(b) \cap Block(c) = {}
                /\ Decode(blocks[b].first).name = Decode(blocks[c].first).name
                      => Covered(b) \cap Covered(c) = {}

(* Once what is under way is served, a core that reads a word of a node    *)
(* reads what the member is, whatever was set, assigned, copied and        *)
(* allocated since it was written; and the agent, which does not wait for  *)
(* its writes to be served, reads that at once.  The getters of LCNode     *)
(* return what is read, so a lookup in an LC trie goes astray without it.  *)
(* All of this but for words that another node was given as well, by the   *)
(* second decoding or as a copy, and for copies, whose words were never    *)
(* written.                                                                *)
UnderWay(place) ==
    {n \in 1..Len(pending[place.memory]) :
        /\ pending[place.memory][n].write
        /\ pending[place.memory][n].address = place.address}

WrittenLast(place) ==
    IF UnderWay(place) = {} THEN tlm_read(place.memory, place.address)
    ELSE pending[place.memory][Max(UnderWay(place))].value

Shared(i, w) == \E b \in 1..Len(blocks) \ {nodes[i].block} : Address(i, w) \in Covered(b)

Own(i) == {w \in WordsOf(i) : ~blocks[nodes[i].block].copied /\ ~Shared(i, w)}

ReadsBack ==
    /\ \A i \in 1..Len(nodes) : Live(i) =>
          \A w \in Own(i) : \A k \in Cores :
              WrittenLast(ReadPlace(k, Address(i, w))) = nodes[i].members[w]
    /\ reading.answer # {} /\ reading.word \in Own(reading.node) =>
          reading.answer = {nodes[reading.node].members[reading.word]}

===============================================================================
