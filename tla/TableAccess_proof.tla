------------------------- MODULE TableAccess_proof --------------------------
(***************************************************************************)
(* That a core which reads a word of a table gets what the agent keeps, as *)
(* far as the memories and the network have to do with it, for any layout, *)
(* regions, cores and tables of the routers.                               *)
(*                                                                         *)
(* Of the memory: a block taken lies in its region, apart from all others  *)
(* and from what is free, and what is decoded from words of one memory is  *)
(* as far apart as the words.  ReadsBack adds to this what is under way:   *)
(* the last write to a word, if one is under way to a copy, and else the   *)
(* word itself, is the member.  A write that reaches the place of a word   *)
(* was sent to the word's address, so that of all nodes only those can     *)
(* spoil it that were given the same address.                              *)
(*                                                                         *)
(* TableMemory serves the requests to a memory in the order of sending,    *)
(* since the network keeps it.  The last part is about that network,       *)
(* Router: the places a packet passes are put in a line, along which       *)
(* packets stay in order and come out in the right place.                  *)
(***************************************************************************)
EXTENDS TableMemory, Router, SequenceTheorems, WellFoundedInduction, TLAPS

-----------------------------------------------------------------------------
(* Recursive functions                                                     *)

LEMMA LeastNumber ==
  ASSUME NEW S \in SUBSET Nat, S # {}
  PROVE  \E n \in S : \A m \in S : n =< m
<1>1. PICK n \in S : \A m \in S : <<m, n>> \notin OpToRel(<, Nat)
  BY NatLessThanWellFounded, WFMin
<1>2. \A m \in S : <<m, n>> \notin OpToRel(<, Nat) => n =< m
  BY DEF OpToRel
<1> QED
  BY <1>1, <1>2

Steps(step, n, X) == \A k \in 1..n : \A x \in X : step[k][x] \in X

Follows(f, step, n, a) == f[0] = a /\ \A k \in 1..n : f[k] = step[k][f[k - 1]]

LEMMA Recursion ==
  ASSUME NEW n \in Nat, NEW X, NEW a \in X, NEW step, Steps(step, n, X)
  PROVE  \E f \in [0..n -> X] : Follows(f, step, n, a)
<1> USE DEF Steps, Follows
<1> DEFINE To(k) == \E f \in [0..k -> X] :
                       f[0] = a /\ \A j \in 1..k : f[j] = step[j][f[j - 1]]
           Bad == {k \in 0..n : ~To(k)}
<1>1. Bad = {}
  <2> SUFFICES ASSUME Bad # {} PROVE FALSE
    OBVIOUS
  <2>1. PICK k \in Bad : \A j \in Bad : k =< j
    <3>1. Bad \in SUBSET Nat
      OBVIOUS
    <3> HIDE DEF Bad
    <3> QED
      BY <3>1, LeastNumber
  <2>2. k \in 0..n /\ ~To(k)
    OBVIOUS
  <2>3. To(0)
    <3> DEFINE f == [j \in 0..0 |-> a]
    <3>1. f \in [0..0 -> X] /\ f[0] = a /\ \A j \in 1..0 : f[j] = step[j][f[j - 1]]
      OBVIOUS
    <3> QED
      BY <3>1
  <2>4. CASE k # 0
    <3>1. k - 1 \in 0..n /\ ~(k =< k - 1)
      BY <2>2, <2>4
    <3>2. To(k - 1)
      <4>1. k - 1 \notin Bad
        BY <2>1, <3>1
      <4> QED
        BY <3>1, <4>1
    <3>3. PICK f \in [0..(k - 1) -> X] :
             f[0] = a /\ \A j \in 1..(k - 1) : f[j] = step[j][f[j - 1]]
      BY <3>2
    <3> DEFINE g == [j \in 0..k |-> IF j = k THEN step[k][f[k - 1]] ELSE f[j]]
    <3>4. k \in 1..n /\ k - 1 \in 0..(k - 1) /\ 0 \in 0..(k - 1)
      BY <2>2, <2>4
    <3>5. step[k][f[k - 1]] \in X
      BY <3>4
    <3>6. g \in [0..k -> X]
      <4>1. \A j \in 0..k : j # k => j \in 0..(k - 1)
        BY <3>4
      <4> QED
        BY <3>5, <4>1
    <3>7. g[0] = a
      BY <2>4, <3>3, <3>4
    <3>8. ASSUME NEW j \in 1..k PROVE g[j] = step[j][g[j - 1]]
      <4>1. j - 1 \in 0..(k - 1) /\ j - 1 # k /\ j \in 0..k /\ j - 1 \in 0..k
        BY <3>4
      <4>2. g[j - 1] = f[j - 1]
        BY <4>1
      <4>3. CASE j = k
        BY <4>1, <4>2, <4>3
      <4>4. CASE j # k
        <5>1. j \in 1..(k - 1)
          BY <3>4, <4>4
        <5> QED
          BY <3>3, <4>1, <4>2, <4>4, <5>1
      <4> QED
        BY <4>3, <4>4
    <3> HIDE DEF g
    <3>9. To(k)
      BY <3>6, <3>7, <3>8
    <3> QED
      BY <2>2, <3>9
  <2> QED
    BY <2>2, <2>3, <2>4
<1>2. n \in 0..n
  OBVIOUS
<1> QED
  BY <1>1, <1>2

\* What holds at the beginning and goes on from one number to the next
LEMMA Upwards ==
  ASSUME NEW n \in Nat, NEW S, 0 \in S, \A k \in 1..n : k - 1 \in S => k \in S
  PROVE  \A k \in 0..n : k \in S
<1> DEFINE Bad == {k \in 0..n : k \notin S}
<1> SUFFICES ASSUME Bad # {} PROVE FALSE
  OBVIOUS
<1>1. PICK k \in Bad : \A j \in Bad : k =< j
  <2>1. Bad \in SUBSET Nat
    OBVIOUS
  <2> HIDE DEF Bad
  <2> QED
    BY <2>1, LeastNumber
<1>2. k \in 0..n /\ k \notin S /\ k # 0
  OBVIOUS
<1>3. k \in 1..n /\ k - 1 \in 0..n /\ ~(k =< k - 1)
  BY <1>2
<1>4. k - 1 \in S
  BY <1>1, <1>3
<1> QED
  BY <1>2, <1>3, <1>4

-----------------------------------------------------------------------------
(* Decoding: what is decoded to one word of one memory is one address, so  *)
(* that words are shared only where addresses are.                         *)

Names == {Layout[i].name : i \in 1..Len(Layout)}

LEMMA SizesAreNumbers == SizesBefore \in [1..Len(Layout) -> Nat]
<1> DEFINE n == Len(Layout)
           Is(f) == f = [i \in 1..n |-> IF i = 1 THEN 0 ELSE f[i - 1] + Layout[i - 1].size]
           step == [k \in 1..(n - 1) |-> [x \in Nat |-> x + Layout[k].size]]
<1>1. n \in Nat \ {0} /\ n - 1 \in Nat /\ \A i \in 1..n : Layout[i].size \in Nat
  BY MemoryAssumption
<1>2. Steps(step, n - 1, Nat)
  BY <1>1 DEF Steps
<1>3. PICK f \in [0..(n - 1) -> Nat] : Follows(f, step, n - 1, 0)
  <2> HIDE DEF step, n
  <2> QED
    BY <1>1, <1>2, Recursion
<1> DEFINE g == [i \in 1..n |-> f[i - 1]]
<1>4. ASSUME NEW i \in 1..n
      PROVE  g[i] = IF i = 1 THEN 0 ELSE g[i - 1] + Layout[i - 1].size
  <2>1. CASE i = 1
    BY <1>3, <2>1 DEF Follows
  <2>2. CASE i # 1
    <3>1. i - 1 \in 1..(n - 1) /\ i - 1 \in 1..n /\ (i - 1) - 1 \in 0..(n - 1)
      BY <1>1, <2>2
    <3>2. f[i - 1] = step[i - 1][f[(i - 1) - 1]]
      BY <1>3, <3>1 DEF Follows
    <3>3. f[(i - 1) - 1] \in Nat
      BY <3>1
    <3> QED
      BY <2>2, <3>1, <3>2, <3>3
  <2> QED
    BY <2>1, <2>2
<1>5. Is(g)
  BY <1>4
<1>6. Is(SizesBefore)
  <2>1. SizesBefore = CHOOSE f_ : Is(f_)
    BY DEF SizesBefore
  <2> HIDE DEF Is, g
  <2> QED
    BY <1>5, <2>1
<1> DEFINE Good == {k \in Nat : k + 1 \in 1..n => SizesBefore[k + 1] \in Nat}
<1>7. \A i \in 1..n : SizesBefore[i] = IF i = 1 THEN 0
                                       ELSE SizesBefore[i - 1] + Layout[i - 1].size
  BY <1>6
<1>8. \A k \in 0..(n - 1) : k \in Good
  <2>1. 0 \in Good
    BY <1>1, <1>7
  <2>2. ASSUME NEW k \in 1..(n - 1), k - 1 \in Good PROVE k \in Good
    <3>1. k \in 1..n /\ k + 1 \in 1..n /\ (k - 1) + 1 = k /\ (k + 1) - 1 = k /\ k + 1 # 1
      BY <1>1
    <3>2. SizesBefore[k] \in Nat
      BY <2>2, <3>1
    <3>3. SizesBefore[k + 1] = SizesBefore[k] + Layout[k].size
      BY <1>7, <3>1
    <3> QED
      BY <1>1, <3>1, <3>2, <3>3
  <2> HIDE DEF Good
  <2> QED
    BY <1>1, <2>1, <2>2, Upwards
<1>9. \A i \in 1..n : SizesBefore[i] \in Nat
  <2>1. ASSUME NEW i \in 1..n PROVE SizesBefore[i] \in Nat
    <3>1. i - 1 \in 0..(n - 1) /\ (i - 1) + 1 = i
      BY <1>1
    <3>2. i - 1 \in Good
      BY <1>8, <3>1
    <3> QED
      BY <3>1, <3>2
  <2> QED
    BY <2>1
<1> QED
  BY <1>6, <1>9

LEMMA DecodedAt ==
  ASSUME NEW v \in Int, Decodes(v)
  PROVE  \E i \in 1..Len(Layout) :
            Decode(v) = [name |-> Layout[i].name, address |-> v - SizesBefore[i]]
<1>1. Candidates(v) # {} /\ Candidates(v) \in SUBSET Nat
  BY MemoryAssumption DEF Decodes, Candidates
<1>2. \E i \in Candidates(v) : \A j \in Candidates(v) : i =< j
  BY <1>1, LeastNumber
<1> DEFINE i == CHOOSE i \in Candidates(v) : \A j \in Candidates(v) : i =< j
<1>3. i \in 1..Len(Layout)
  BY <1>2 DEF Candidates
<1> QED
  BY <1>3 DEF Decode

LEMMA DecodedOnce ==
  ASSUME NEW a \in Int, NEW b \in Int, Decodes(a), Decodes(b), Decode(a).name = Decode(b).name
  PROVE  /\ Decode(a).name \in Names /\ Decode(a).address \in Int
         /\ Decode(a).address - Decode(b).address = a - b
<1>1. PICK i \in 1..Len(Layout) :
         Decode(a) = [name |-> Layout[i].name, address |-> a - SizesBefore[i]]
  BY DecodedAt
<1>2. PICK j \in 1..Len(Layout) :
         Decode(b) = [name |-> Layout[j].name, address |-> b - SizesBefore[j]]
  BY DecodedAt
<1>3. i = j
  BY <1>1, <1>2, MemoryAssumption
<1>4. SizesBefore[i] \in Nat
  BY SizesAreNumbers
<1>5. Decode(a).address = a - SizesBefore[i] /\ Decode(b).address = b - SizesBefore[i]
  BY <1>1, <1>2, <1>3
<1>6. Decode(a).name \in Names
  BY <1>1 DEF Names
<1> QED
  BY <1>4, <1>5, <1>6

LEMMA ReadPlaceIs ==
  ASSUME NEW k \in Cores, NEW a \in Int, Decodes(a)
  PROVE  /\ ReadPlace(k, a).memory \in Memories
         /\ ReadPlace(k, a).memory \in Copies(Decode(a).name)
         /\ ReadPlace(k, a).address = Decode(a).address /\ Decode(a).address \in Int
<1>1. Decode(a).name \in Names /\ Decode(a).address \in Int
  BY DecodedOnce
<1> QED
  BY <1>1 DEF ReadPlace, Copies, Memories, Names

LEMMA CopiesInMemories ==
  ASSUME NEW name \in Names
  PROVE  Copies(name) \subseteq Memories
  BY DEF Copies, Memories, Names

\* A write that comes to the place of a word is a write of that word.
LEMMA PlaceOfOne ==
  ASSUME NEW k \in Cores, NEW a \in Int, NEW b \in Int, Decodes(a), Decodes(b),
         ReadPlace(k, a).memory \in Copies(Decode(b).name),
         ReadPlace(k, a).address = Decode(b).address
  PROVE  a = b
<1>1. /\ Decode(a).name \in Names /\ Decode(b).name \in Names
      /\ Decode(a).address \in Int /\ Decode(b).address \in Int
  BY DecodedOnce
<1>2. /\ \A m, n \in Mapped : m = n
      /\ Cores \cap Names = {}
  BY MemoryAssumption DEF Names
<1>3. Decode(a).name = Decode(b).name
  <2>1. CASE Decode(a).name \in Mapped
    <3>1. k \in Copies(Decode(b).name)
      BY <2>1 DEF ReadPlace
    <3>2. Decode(b).name \in Mapped
      BY <1>1, <1>2, <3>1 DEF Copies
    <3> QED
      BY <1>2, <2>1, <3>2
  <2>2. CASE Decode(a).name \notin Mapped
    <3>1. Decode(a).name \in Copies(Decode(b).name)
      BY <2>2 DEF ReadPlace
    <3> QED
      BY <1>1, <1>2, <3>1 DEF Copies
  <2> QED
    BY <2>1, <2>2
<1>4. Decode(a).address = Decode(b).address
  BY DEF ReadPlace
<1>5. Decode(a).address - Decode(b).address = a - b
  BY <1>3, DecodedOnce
<1> QED
  BY <1>1, <1>4, <1>5

-----------------------------------------------------------------------------
(* Regions: one of each kind, until it is used up, of which words are taken *)
(* at the beginning.                                                        *)

Pieces == {"TRIE", "Payload"}

Rest(regions, kind, from) ==
  /\ regions = <<[first |-> from, last |-> Region[kind].last]>>
  /\ from \in Nat /\ Region[kind].first =< from

FreeInv == /\ free = [kind \in Pieces |-> free[kind]]
           /\ \A kind \in Pieces : free[kind] = <<>> \/ \E from \in Nat : Rest(free[kind], kind, from)

LEMMA WordsOfBits ==
  ASSUME NEW n \in Nat
  PROVE  /\ n * Word \in Nat /\ (n * Word) \div Word = n /\ n =< n * Word
<1>1. Word \in Nat /\ Word > 0
  BY MemoryAssumption
<1>2. (n * Word) \div Word = n
  BY <1>1
<1> QED
  BY <1>1, <1>2

LEMMA OneRegion ==
  ASSUME NEW bits \in Nat, NEW first \in Nat, NEW last \in Nat, NEW regions,
         regions = <<[first |-> first, last |-> last]>>, Fits(bits, regions) # {}
  PROVE  /\ bits =< last + 1 - first
         /\ Allocated(bits, regions) = first
         /\ AfterAllocate(bits, regions) =
              IF first + (bits \div Word) >= last THEN <<>>
              ELSE <<[first |-> first + (bits \div Word), last |-> last]>>
<1> DEFINE r == [first |-> first, last |-> last]
           rest == [first |-> first + (bits \div Word), last |-> last]
<1>1. Len(regions) = 1 /\ regions[1] = r /\ regions \in Seq({r, rest})
  OBVIOUS
<1>2. \A i \in 1..Len(regions) : i = 1
  BY <1>1
<1>3. 1 \in Fits(bits, regions) /\ \A i \in Fits(bits, regions) : i = 1
  BY <1>2 DEF Fits
<1>4. FirstFit(bits, regions) = 1
  BY <1>3 DEF FirstFit
<1>5. bits =< last + 1 - first
  BY <1>1, <1>3 DEF Fits, RegionSize
<1>6. [regions[1] EXCEPT !.first = @ + (bits \div Word)] = rest
  BY <1>1
<1>7. RemoveAt(regions, 1) = <<>>
  <2>1. SubSeq(regions, 1, 1 - 1) = <<>> /\ SubSeq(regions, 1 + 1, Len(regions)) = <<>>
    BY <1>1, SubSeqEmpty
  <2>2. <<>> \o <<>> = <<>>
    BY ConcatEmptySeq, EmptySeq
  <2> QED
    BY <2>1, <2>2 DEF RemoveAt
<1>8. [regions EXCEPT ![1] = rest] = <<rest>>
  OBVIOUS
<1> QED
  BY <1>1, <1>4, <1>5, <1>6, <1>7, <1>8 DEF Allocated, AfterAllocate

LEMMA NoneFits ==
  ASSUME NEW bits, NEW regions, Fits(bits, regions) # {}
  PROVE  regions # <<>>
<1>1. Len(<<>>) = 0
  BY EmptySeq
<1> QED
  BY <1>1 DEF Fits

\* What is left of a region of which n words were taken
LEMMA AfterIsRest ==
  ASSUME NEW kind \in Pieces, NEW regions, NEW n \in Nat, NEW from \in Nat,
         Rest(regions, kind, from), Fits(n * Word, regions) # {}
  PROVE  /\ from + n =< Region[kind].last + 1
         /\ Allocated(n * Word, regions) = from
         /\ \/ AfterAllocate(n * Word, regions) = <<>>
            \/ Rest(AfterAllocate(n * Word, regions), kind, from + n)
<1> DEFINE bits == n * Word
<1>1. /\ Region[kind].last \in Nat /\ Region[kind].first \in Nat
      /\ bits \in Nat /\ bits \div Word = n /\ n =< bits
  BY MemoryAssumption, WordsOfBits DEF Pieces
<1> HIDE DEF bits
<1>2. /\ bits =< Region[kind].last + 1 - from
      /\ Allocated(bits, regions) = from
      /\ AfterAllocate(bits, regions) =
           IF from + n >= Region[kind].last THEN <<>>
           ELSE <<[first |-> from + n, last |-> Region[kind].last]>>
  <2>1. Fits(bits, regions) # {}
    BY DEF bits
  <2> QED
    BY <1>1, <2>1, OneRegion DEF Rest
<1>3. from + n =< Region[kind].last + 1
  BY <1>1, <1>2
<1> USE DEF bits
<1> QED
  BY <1>1, <1>2, <1>3 DEF Rest

\* A request takes two pieces, and the second goes to whoever asked.
LEMMA RequestTakes ==
  ASSUME FreeInv, NEW kind \in Pieces, NEW n \in Nat, Request(kind, n * Word)
  PROVE  /\ FreeInv'
         /\ \A other \in Pieces : other # kind => free'[other] = free[other]
         /\ \E from \in Nat :
               /\ Rest(free[kind], kind, from)
               /\ Given(kind, n * Word) = from + n
               /\ from + n + n =< Region[kind].last + 1
               /\ \/ free'[kind] = <<>>
                  \/ Rest(free'[kind], kind, from + n + n)
<1>1. free[kind] # <<>> /\ AfterAllocate(n * Word, free[kind]) # <<>>
  BY NoneFits DEF Request
<1>2. PICK from \in Nat : Rest(free[kind], kind, from)
  BY <1>1 DEF FreeInv
<1> DEFINE once == AfterAllocate(n * Word, free[kind])
<1>3. from + n \in Nat /\ from + n + n \in Nat
  OBVIOUS
<1>4. Rest(once, kind, from + n)
  BY <1>1, <1>2, AfterIsRest DEF Request
<1>5. /\ from + n + n =< Region[kind].last + 1
      /\ Allocated(n * Word, once) = from + n
      /\ \/ AfterAllocate(n * Word, once) = <<>>
         \/ Rest(AfterAllocate(n * Word, once), kind, from + n + n)
  <2>1. Fits(n * Word, once) # {}
    BY DEF Request
  <2> HIDE DEF once
  <2> QED
    BY <1>3, <1>4, <2>1, AfterIsRest
<1>6. /\ free' = [free EXCEPT ![kind] = AfterAllocate(n * Word, once)]
      /\ free'[kind] = AfterAllocate(n * Word, once)
      /\ \A other \in Pieces : other # kind => free'[other] = free[other]
  BY DEF Request, FreeInv
<1>7. FreeInv'
  <2> HIDE DEF once
  <2>1. \A k \in Pieces : free'[k] = <<>> \/ \E f \in Nat : Rest(free'[k], k, f)
    BY <1>3, <1>5, <1>6 DEF FreeInv
  <2>2. free' = [k \in Pieces |-> free'[k]]
    BY <1>6 DEF FreeInv
  <2> QED
    BY <2>1, <2>2 DEF FreeInv, Rest
<1> QED
  BY <1>2, <1>5, <1>6, <1>7 DEF Given

-----------------------------------------------------------------------------
(* Types                                                                   *)

WordsIn(kind) == IF kind = "UnibitNode" THEN 4 ELSE IF kind = "LCNode" THEN 3 ELSE 5

Node == [kind : Kinds, tlm_addr : Int, members : Seq(Value),
         state : {"allocated", "live", "gone"}, block : Nat]

BlockType == [first : Nat, words : 3..5, tlm_addr : Int, copied : BOOLEAN]

Requests == [write : BOOLEAN, address : Int, value : Value]

NodesType == /\ nodes \in Seq(Node)
             /\ \A i \in 1..Len(nodes) : /\ Len(nodes[i].members) = WordsIn(nodes[i].kind)
                                         /\ nodes[i].block \in 1..Len(blocks)
             /\ blocks \in Seq(BlockType) /\ Len(blocks) = Len(nodes)

CellsType == /\ cells = [m \in Memories |-> cells[m]]
             /\ \A m \in Memories : \A a \in DOMAIN cells[m] : cells[m][a] \in Value

PendingType == pending \in [Memories -> Seq(Requests)]

TypeInv == /\ FreeInv /\ NodesType /\ CellsType /\ PendingType
           /\ calls \in 0..CallCount
           /\ halted \in {"no", "no room", "out of range"}

LEMMA ConstructedType ==
  ASSUME NEW kind \in Kinds, NEW v \in Value
  PROVE  /\ Constructed(kind, v) \in Seq(Value)
         /\ Len(Constructed(kind, v)) = WordsIn(kind)
         /\ WordsIn(kind) \in 3..5
<1>1. kind \in {"UnibitNode", "HashTableEntry", "MultibitNode", "LCNode"} /\ 0 \in Value
  BY MemoryAssumption
<1>2. CASE kind = "UnibitNode"
  BY <1>1, <1>2 DEF Constructed, UnibitNode, WordsIn
<1>3. CASE kind = "HashTableEntry"
  BY <1>1, <1>3 DEF Constructed, HashTableEntry, WordsIn
<1>4. CASE kind = "MultibitNode"
  BY <1>1, <1>4 DEF Constructed, MultibitNode, WordsIn
<1>5. CASE kind = "LCNode"
  BY <1>1, <1>5 DEF Constructed, LCNode, WordsIn
<1> QED
  BY <1>1, <1>2, <1>3, <1>4, <1>5

LEMMA NodeAt ==
  ASSUME NodesType, NEW i \in 1..Len(nodes)
  PROVE  /\ nodes[i] \in Node /\ nodes[i].kind \in Kinds /\ nodes[i].tlm_addr \in Int
         /\ nodes[i].members \in Seq(Value)
         /\ nodes[i].state \in {"allocated", "live", "gone"}
         /\ WordsIn(nodes[i].kind) \in 3..5
         /\ WordsOf(i) = 1..WordsIn(nodes[i].kind)
         /\ \A w \in WordsOf(i) : nodes[i].members[w] \in Value /\ Address(i, w) \in Int
         /\ nodes[i].block \in 1..Len(blocks)
<1>1. nodes[i] \in Node
  BY ElementOfSeq DEF NodesType
<1>2. /\ nodes[i].kind \in Kinds /\ nodes[i].tlm_addr \in Int
      /\ nodes[i].members \in Seq(Value)
      /\ nodes[i].state \in {"allocated", "live", "gone"}
  BY <1>1 DEF Node
<1>3. WordsOf(i) = 1..WordsIn(nodes[i].kind) /\ nodes[i].block \in 1..Len(blocks)
  BY DEF WordsOf, NodesType
<1>4. \A w \in WordsOf(i) : nodes[i].members[w] \in Value
  BY <1>2, ElementOfSeq DEF WordsOf
<1>5. WordsIn(nodes[i].kind) \in 3..5
  BY DEF WordsIn
<1>6. \A w \in WordsOf(i) : Address(i, w) \in Int
  BY <1>2, <1>3, <1>5 DEF Address
<1> QED
  BY <1>1, <1>2, <1>3, <1>4, <1>5, <1>6

LEMMA BlockAt ==
  ASSUME NodesType, NEW b \in 1..Len(blocks)
  PROVE  /\ blocks[b] \in BlockType /\ blocks[b].first \in Nat /\ blocks[b].words \in 3..5
         /\ blocks[b].tlm_addr \in Int /\ blocks[b].copied \in BOOLEAN
<1>1. blocks[b] \in BlockType
  BY ElementOfSeq DEF NodesType
<1> QED
  BY <1>1 DEF BlockType

-----------------------------------------------------------------------------
(* Where the nodes are: in blocks below what is free, apart from one       *)
(* another; and a node that has not lost its words has a block to itself.  *)

Apart(a, m, b, n) == a + m =< b \/ b + n =< a

Below(x) == \A from \in Nat : Rest(free["TRIE"], "TRIE", from) => x =< from

Kept(i) == nodes[i].state # "gone"

PlacedInv ==
  /\ \A b \in Allocations :
       /\ Region["TRIE"].first =< blocks[b].first
       /\ blocks[b].first + blocks[b].words =< Region["TRIE"].last + 1
       /\ Below(blocks[b].first + blocks[b].words)
       /\ Decodes(blocks[b].first) /\ blocks[b].tlm_addr = Decode(blocks[b].first).address
  /\ \A b, c \in Allocations : b # c =>
       Apart(blocks[b].first, blocks[b].words, blocks[c].first, blocks[c].words)

HeldInv ==
  /\ \A i \in 1..Len(nodes) : Kept(i) =>
       /\ nodes[i].tlm_addr = blocks[nodes[i].block].tlm_addr
       /\ WordsIn(nodes[i].kind) = blocks[nodes[i].block].words
  /\ \A i, j \in 1..Len(nodes) : i # j /\ Kept(i) /\ Kept(j) => nodes[i].block # nodes[j].block

\* The words a setter clears, and nothing else sets
Zeros(kind) == IF kind = "HashTableEntry" THEN {3, 4}
               ELSE IF kind = "MultibitNode" THEN {3} ELSE {}

ZeroInv == \A i \in 1..Len(nodes) : \A w \in Zeros(nodes[i].kind) : nodes[i].members[w] = 0

LEMMA PlacedKept ==
  ASSUME PlacedInv, blocks' = blocks, free'["TRIE"] = free["TRIE"]
  PROVE  PlacedInv'
<1>1. \A b : Below(blocks[b].first + blocks[b].words)'
                <=> Below(blocks[b].first + blocks[b].words)
  BY DEF Below, Rest
<1> QED
  BY <1>1 DEF PlacedInv, Allocations

\* One more block
LEMMA AppendedBlock ==
  ASSUME NodesType, NEW block \in BlockType, blocks' = Append(blocks, block)
  PROVE  /\ Len(blocks') = Len(blocks) + 1 /\ blocks' \in Seq(BlockType) /\ Len(blocks) \in Nat
         /\ blocks'[Len(blocks) + 1] = block
         /\ \A b \in 1..Len(blocks') :
              IF b = Len(blocks) + 1 THEN blocks'[b] = block
              ELSE b \in 1..Len(blocks) /\ blocks'[b] = blocks[b]
<1>1. blocks \in Seq(BlockType) /\ Len(blocks) \in Nat
  BY LenProperties DEF NodesType
<1>2. /\ blocks' \in Seq(BlockType) /\ Len(blocks') = Len(blocks) + 1
      /\ \A b \in 1..Len(blocks) : blocks'[b] = blocks[b]
      /\ blocks'[Len(blocks) + 1] = block
  BY <1>1, AppendProperties
<1> QED
  BY <1>1, <1>2

LEMMA PlacedCopied ==
  ASSUME NodesType, PlacedInv, NEW block \in BlockType, block.copied,
         blocks' = Append(blocks, block), free'["TRIE"] = free["TRIE"]
  PROVE  PlacedInv'
<1>1. \A b \in 1..Len(blocks') : IF b = Len(blocks) + 1 THEN blocks'[b] = block
                                 ELSE b \in 1..Len(blocks) /\ blocks'[b] = blocks[b]
  BY AppendedBlock
<1>2. ASSUME NEW b \in Allocations'
      PROVE  b \in Allocations /\ blocks'[b] = blocks[b]
  BY <1>1 DEF Allocations
<1>3. ASSUME NEW b \in Allocations'
      PROVE  Below(blocks[b].first + blocks[b].words)'
  <2>1. Below(blocks[b].first + blocks[b].words)
    BY <1>2 DEF PlacedInv
  <2> QED
    BY <1>2, <2>1 DEF Below, Rest
<1> QED
  BY <1>2, <1>3 DEF PlacedInv

LEMMA AllocateTakes ==
  ASSUME TypeInv, NEW kind \in Kinds, tlmallocate(Len(Constructed(kind, 0)) * Word)
  PROVE  /\ FreeInv'
         /\ \E from \in Nat :
              /\ Rest(free["TRIE"], "TRIE", from)
              /\ Given("TRIE", Len(Constructed(kind, 0)) * Word) = from + WordsIn(kind)
              /\ from + WordsIn(kind) + WordsIn(kind) =< Region["TRIE"].last + 1
              /\ Decodes(from + WordsIn(kind))
              /\ \A to \in Nat : Rest(free'["TRIE"], "TRIE", to) =>
                   to = from + WordsIn(kind) + WordsIn(kind)
<1> DEFINE n == WordsIn(kind)
<1>1. Len(Constructed(kind, 0)) = n /\ n \in 3..5 /\ n \in Nat
  BY ConstructedType, MemoryAssumption
<1>2. Request("TRIE", n * Word) /\ "TRIE" \in Pieces
  BY <1>1 DEF tlmallocate, Pieces
<1> HIDE DEF n
<1>3. FreeInv
  BY DEF TypeInv
<1>4. FreeInv'
  BY <1>1, <1>2, <1>3, RequestTakes
<1>5. PICK from \in Nat :
         /\ Rest(free["TRIE"], "TRIE", from)
         /\ Given("TRIE", n * Word) = from + n
         /\ from + n + n =< Region["TRIE"].last + 1
         /\ \/ free'["TRIE"] = <<>>
            \/ Rest(free'["TRIE"], "TRIE", from + n + n)
  BY <1>1, <1>2, <1>3, RequestTakes
<1>6. Decodes(from + n)
  BY <1>2, <1>5 DEF Request, Given
<1>7. ASSUME NEW to \in Nat, Rest(free'["TRIE"], "TRIE", to)
      PROVE  to = from + n + n
  <2>1. free'["TRIE"] # <<>>
    BY <1>7 DEF Rest
  <2>2. Rest(free'["TRIE"], "TRIE", from + n + n)
    BY <1>5, <2>1
  <2>3. <<[first |-> to, last |-> Region["TRIE"].last]>>
          = <<[first |-> from + n + n, last |-> Region["TRIE"].last]>>
    BY <1>7, <2>2 DEF Rest
  <2>4. [first |-> to, last |-> Region["TRIE"].last]
          = [first |-> from + n + n, last |-> Region["TRIE"].last]
    BY <2>3
  <2> QED
    BY <2>4
<1>8. Given("TRIE", Len(Constructed(kind, 0)) * Word) = from + n
  BY <1>1, <1>5
<1> QED
  BY <1>4, <1>5, <1>6, <1>7, <1>8 DEF n

LEMMA PlacedTaken ==
  ASSUME NodesType, PlacedInv, NEW from \in Nat, NEW n \in 3..5, NEW block \in BlockType,
         block.first = from + n, block.words = n, ~block.copied,
         block.tlm_addr = Decode(from + n).address, Decodes(from + n),
         blocks' = Append(blocks, block),
         Rest(free["TRIE"], "TRIE", from), from + n + n =< Region["TRIE"].last + 1,
         \A to \in Nat : Rest(free'["TRIE"], "TRIE", to) => to = from + n + n
  PROVE  PlacedInv'
<1>1. \A b \in 1..Len(blocks') : IF b = Len(blocks) + 1 THEN blocks'[b] = block
                                 ELSE b \in 1..Len(blocks) /\ blocks'[b] = blocks[b]
  BY AppendedBlock
<1>2. ASSUME NEW b \in Allocations', b # Len(blocks) + 1
      PROVE  /\ b \in Allocations /\ blocks'[b] = blocks[b]
             /\ blocks[b].first \in Nat /\ blocks[b].words \in 3..5
             /\ blocks[b].first + blocks[b].words =< from
  <2>1. b \in Allocations /\ blocks'[b] = blocks[b]
    BY <1>1, <1>2 DEF Allocations
  <2>2. blocks[b].first + blocks[b].words =< from
    BY <2>1 DEF PlacedInv, Below
  <2>3. blocks[b].first \in Nat /\ blocks[b].words \in 3..5
    BY <2>1, BlockAt DEF Allocations
  <2> QED
    BY <2>1, <2>2, <2>3
<1>3. Region["TRIE"].first \in Nat /\ Region["TRIE"].last \in Nat /\ Region["TRIE"].first =< from
  BY MemoryAssumption DEF Rest
<1>4. ASSUME NEW b \in Allocations'
      PROVE  /\ Region["TRIE"].first =< blocks'[b].first
             /\ blocks'[b].first + blocks'[b].words =< Region["TRIE"].last + 1
             /\ blocks'[b].first + blocks'[b].words =< from + n + n
             /\ Decodes(blocks'[b].first) /\ blocks'[b].tlm_addr = Decode(blocks'[b].first).address
  <2>1. CASE b = Len(blocks) + 1
    <3>1. blocks'[b] = block
      BY <1>1, <2>1 DEF Allocations
    <3> QED
      BY <1>3, <3>1
  <2>2. CASE b # Len(blocks) + 1
    <3>1. /\ b \in Allocations /\ blocks'[b] = blocks[b]
          /\ blocks[b].first \in Nat /\ blocks[b].words \in 3..5
          /\ blocks[b].first + blocks[b].words =< from
      BY <1>2, <2>2
    <3>2. /\ Region["TRIE"].first =< blocks[b].first
          /\ blocks[b].first + blocks[b].words =< Region["TRIE"].last + 1
          /\ Decodes(blocks[b].first) /\ blocks[b].tlm_addr = Decode(blocks[b].first).address
      BY <3>1 DEF PlacedInv
    <3>3. blocks[b].first + blocks[b].words =< from + n + n
      <4>1. blocks[b].first + blocks[b].words \in Nat
        <5>1. \A x \in Nat, y \in 3..5 : x + y \in Nat
          OBVIOUS
        <5> QED
          BY <3>1, <5>1
      <4> QED
        BY <3>1, <4>1
    <3> QED
      BY <3>1, <3>2, <3>3
  <2> QED
    BY <2>1, <2>2
<1>5. ASSUME NEW b \in Allocations'
      PROVE  Below(blocks[b].first + blocks[b].words)'
  <2>1. \A to \in Nat : Rest(free'["TRIE"], "TRIE", to) =>
           blocks'[b].first + blocks'[b].words =< to
    BY <1>4
  <2> QED
    BY <2>1 DEF Below, Rest
<1>6. ASSUME NEW b \in Allocations', NEW c \in Allocations', b # c
      PROVE  Apart(blocks'[b].first, blocks'[b].words, blocks'[c].first, blocks'[c].words)
  <2>1. CASE b = Len(blocks) + 1
    <3>1. c # Len(blocks) + 1 /\ blocks'[b] = block
      BY <1>1, <1>6, <2>1 DEF Allocations
    <3>2. blocks'[c] = blocks[c] /\ blocks[c].first + blocks[c].words =< from
      BY <1>2, <3>1
    <3>3. blocks[c].first + blocks[c].words \in Nat
      <4>1. blocks[c].first \in Nat /\ blocks[c].words \in 3..5
        BY <1>2, <3>1
      <4> QED
        BY <4>1
    <3> QED
      BY <3>1, <3>2, <3>3 DEF Apart
  <2>2. CASE c = Len(blocks) + 1
    <3>1. b # Len(blocks) + 1 /\ blocks'[c] = block
      BY <1>1, <1>6, <2>2 DEF Allocations
    <3>2. blocks'[b] = blocks[b] /\ blocks[b].first + blocks[b].words =< from
      BY <1>2, <3>1
    <3>3. blocks[b].first + blocks[b].words \in Nat
      <4>1. blocks[b].first \in Nat /\ blocks[b].words \in 3..5
        BY <1>2, <3>1
      <4> QED
        BY <4>1
    <3> QED
      BY <3>1, <3>2, <3>3 DEF Apart
  <2>3. CASE b # Len(blocks) + 1 /\ c # Len(blocks) + 1
    <3>1. b \in Allocations /\ blocks'[b] = blocks[b] /\ c \in Allocations /\ blocks'[c] = blocks[c]
      BY <1>2, <2>3
    <3> QED
      BY <1>6, <3>1 DEF PlacedInv
  <2> QED
    BY <2>1, <2>2, <2>3
<1> QED
  BY <1>4, <1>5, <1>6 DEF PlacedInv

\* A node as it is when its words were handed over, and nodes that are as they
\* were but for some that lost their words
Gone(node) == [node EXCEPT !.state = "gone"]

Remains(known) == /\ known \in Seq(Node) /\ Len(known) = Len(nodes)
                  /\ \A i \in 1..Len(nodes) : known[i] = nodes[i] \/ known[i] = Gone(nodes[i])

LEMMA GoneIs ==
  ASSUME NEW node \in Node
  PROVE  /\ Gone(node) \in Node /\ Gone(node).state = "gone" /\ Gone(node).kind = node.kind
         /\ Gone(node).members = node.members /\ Gone(node).block = node.block
         /\ Gone(node).tlm_addr = node.tlm_addr
  BY DEF Gone, Node

\* One more node, with a block of its own
LEMMA HeldAppended ==
  ASSUME NodesType, HeldInv, ZeroInv, NEW known, Remains(known),
         NEW node \in Node, NEW block \in BlockType,
         nodes' = Append(known, node), blocks' = Append(blocks, block),
         node.block = Len(blocks) + 1, node.tlm_addr = block.tlm_addr,
         block.words = WordsIn(node.kind), Len(node.members) = WordsIn(node.kind),
         \A w \in Zeros(node.kind) : node.members[w] = 0
  PROVE  /\ NodesType' /\ HeldInv' /\ ZeroInv'
         /\ Len(nodes') = Len(nodes) + 1 /\ Len(nodes) \in Nat /\ nodes'[Len(nodes) + 1] = node
         /\ \A i \in 1..Len(nodes) : nodes'[i] = nodes[i] \/ nodes'[i] = Gone(nodes[i])
<1>1. /\ Len(nodes) \in Nat /\ Len(blocks) = Len(nodes) /\ known \in Seq(Node)
      /\ Len(known) = Len(nodes)
  BY LenProperties DEF NodesType, Remains
<1>2. /\ nodes' \in Seq(Node) /\ Len(nodes') = Len(nodes) + 1
      /\ \A i \in 1..Len(nodes) : nodes'[i] = known[i]
      /\ nodes'[Len(nodes) + 1] = node
  BY <1>1, AppendProperties
<1>3. /\ Len(blocks') = Len(blocks) + 1 /\ blocks' \in Seq(BlockType)
      /\ blocks'[Len(blocks) + 1] = block
      /\ \A b \in 1..Len(blocks) : blocks'[b] = blocks[b]
  <2>1. \A b \in 1..Len(blocks) : b \in 1..(Len(blocks) + 1) /\ b # Len(blocks) + 1
    BY <1>1
  <2> QED
    BY <2>1, AppendedBlock
<1>4. ASSUME NEW i \in 1..Len(nodes)
      PROVE  /\ nodes'[i].kind = nodes[i].kind /\ nodes'[i].members = nodes[i].members
             /\ nodes'[i].block = nodes[i].block /\ nodes'[i].tlm_addr = nodes[i].tlm_addr
             /\ Kept(i)' => Kept(i)
             /\ nodes[i].block \in 1..Len(blocks) /\ nodes[i].block # Len(blocks) + 1
             /\ nodes'[i] = nodes[i] \/ nodes'[i] = Gone(nodes[i])
  <2>1. nodes[i] \in Node /\ nodes[i].block \in 1..Len(blocks)
    BY NodeAt
  <2>2. nodes'[i] = nodes[i] \/ nodes'[i] = Gone(nodes[i])
    BY <1>2 DEF Remains
  <2> QED
    BY <1>1, <2>1, <2>2, GoneIs DEF Kept
<1>5. \A i \in 1..Len(nodes') : IF i = Len(nodes) + 1 THEN nodes'[i] = node ELSE i \in 1..Len(nodes)
  BY <1>1, <1>2
<1>6. ASSUME NEW i \in 1..Len(nodes')
      PROVE  /\ Len(nodes'[i].members) = WordsIn(nodes'[i].kind)
             /\ nodes'[i].block \in 1..Len(blocks')
  <2>1. CASE i = Len(nodes) + 1
    BY <1>1, <1>3, <1>5, <2>1
  <2>2. CASE i # Len(nodes) + 1
    <3>1. i \in 1..Len(nodes)
      BY <1>5, <2>2
    <3>2. /\ nodes'[i].kind = nodes[i].kind /\ nodes'[i].members = nodes[i].members
          /\ nodes'[i].block = nodes[i].block /\ nodes[i].block \in 1..Len(blocks)
      BY <1>4, <3>1
    <3> QED
      BY <1>1, <1>3, <3>1, <3>2 DEF NodesType
  <2> QED
    BY <2>1, <2>2
<1>7. NodesType'
  BY <1>1, <1>2, <1>3, <1>6 DEF NodesType
<1>8. ASSUME NEW i \in 1..Len(nodes'), Kept(i)'
      PROVE  /\ nodes'[i].tlm_addr = blocks'[nodes'[i].block].tlm_addr
             /\ WordsIn(nodes'[i].kind) = blocks'[nodes'[i].block].words
  <2>1. CASE i = Len(nodes) + 1
    BY <1>1, <1>3, <1>5, <2>1
  <2>2. CASE i # Len(nodes) + 1
    <3>1. i \in 1..Len(nodes)
      BY <1>5, <2>2
    <3> QED
      BY <1>3, <1>4, <1>8, <3>1 DEF HeldInv
  <2> QED
    BY <2>1, <2>2
<1>9. ASSUME NEW i \in 1..Len(nodes'), NEW j \in 1..Len(nodes'), i # j, Kept(i)', Kept(j)'
      PROVE  nodes'[i].block # nodes'[j].block
  <2>1. CASE i = Len(nodes) + 1
    <3>1. j \in 1..Len(nodes) /\ nodes'[i] = node
      BY <1>5, <1>9, <2>1
    <3> QED
      BY <1>4, <3>1
  <2>2. CASE j = Len(nodes) + 1
    <3>1. i \in 1..Len(nodes) /\ nodes'[j] = node
      BY <1>5, <1>9, <2>2
    <3> QED
      BY <1>4, <3>1
  <2>3. CASE i # Len(nodes) + 1 /\ j # Len(nodes) + 1
    <3>1. i \in 1..Len(nodes) /\ j \in 1..Len(nodes)
      BY <1>5, <2>3
    <3> QED
      BY <1>4, <1>9, <3>1 DEF HeldInv
  <2> QED
    BY <2>1, <2>2, <2>3
<1>10. HeldInv'
  BY <1>8, <1>9 DEF HeldInv
<1>11. ASSUME NEW i \in 1..Len(nodes')
       PROVE  \A w \in Zeros(nodes'[i].kind) : nodes'[i].members[w] = 0
  <2>1. CASE i = Len(nodes) + 1
    BY <1>5, <2>1
  <2>2. CASE i # Len(nodes) + 1
    <3>1. i \in 1..Len(nodes)
      BY <1>5, <2>2
    <3> QED
      BY <1>4, <3>1 DEF ZeroInv
  <2> QED
    BY <2>1, <2>2
<1>12. ZeroInv'
  BY <1>11 DEF ZeroInv
<1> QED
  BY <1>1, <1>2, <1>4, <1>7, <1>10, <1>12

LEMMA ConstructedZeros ==
  ASSUME NEW kind \in Kinds, NEW v
  PROVE  \A w \in Zeros(kind) : Constructed(kind, v)[w] = 0
<1>1. kind \in {"UnibitNode", "HashTableEntry", "MultibitNode", "LCNode"}
  BY MemoryAssumption
<1>2. CASE kind = "UnibitNode"
  BY <1>2 DEF Zeros
<1>3. CASE kind = "HashTableEntry"
  BY <1>3 DEF Constructed, HashTableEntry, Zeros
<1>4. CASE kind = "MultibitNode"
  BY <1>4 DEF Constructed, MultibitNode, Zeros
<1>5. CASE kind = "LCNode"
  BY <1>5 DEF Zeros
<1> QED
  BY <1>1, <1>2, <1>3, <1>4, <1>5

\* What is the same after a new node came, which is not live yet or a copy
Joined ==
  /\ Len(nodes') = Len(nodes) + 1 /\ Len(nodes) \in Nat
  /\ \A i \in 1..Len(nodes) : nodes'[i] = nodes[i] \/ nodes'[i] = Gone(nodes[i])
  /\ Len(blocks') = Len(blocks) + 1 /\ Len(blocks) \in Nat
  /\ \A b \in 1..Len(blocks) : blocks'[b] = blocks[b]
  /\ nodes'[Len(nodes) + 1].state = "live" => blocks'[nodes'[Len(nodes) + 1].block].copied

\* The constructor's request
LEMMA AllocateNodeStep ==
  ASSUME TypeInv, PlacedInv, HeldInv, ZeroInv, NEW kind \in Kinds, AllocateNode(kind),
         halted' = halted
  PROVE  FreeInv' /\ NodesType' /\ PlacedInv' /\ HeldInv' /\ ZeroInv' /\ Joined
<1> DEFINE bits == Len(Constructed(kind, 0)) * Word
           given == Given("TRIE", bits)
           n == WordsIn(kind)
           node == [kind |-> kind, tlm_addr |-> Decode(given).address,
                    members |-> Constructed(kind, 0), state |-> "allocated",
                    block |-> Len(blocks) + 1]
           block == TakenBlock(kind, given)
<1>1. /\ Idle /\ tlmallocate(bits)
      /\ nodes' = Append(nodes, node) /\ blocks' = Append(blocks, block)
  BY DEF AllocateNode, Idle, Exhausted, Halt
<1>2. /\ n \in 3..5 /\ Constructed(kind, 0) \in Seq(Value) /\ Len(Constructed(kind, 0)) = n
  BY ConstructedType, MemoryAssumption
<1>3. FreeInv'
  BY <1>1, AllocateTakes
<1>4. PICK from \in Nat :
         /\ Rest(free["TRIE"], "TRIE", from)
         /\ given = from + n
         /\ from + n + n =< Region["TRIE"].last + 1
         /\ Decodes(from + n)
         /\ \A to \in Nat : Rest(free'["TRIE"], "TRIE", to) => to = from + n + n
  BY <1>1, AllocateTakes
<1>5. NodesType /\ Len(blocks) \in Nat /\ Len(blocks) = Len(nodes) /\ nodes \in Seq(Node)
  BY LenProperties DEF TypeInv, NodesType
<1>6. given \in Nat /\ given \in Int
  BY <1>2, <1>4
<1>7. Decode(given).address \in Int
  BY <1>4, <1>6, DecodedOnce
<1> HIDE DEF given, bits
<1>8. /\ node \in Node /\ node.block = Len(blocks) + 1 /\ node.kind = kind
      /\ node.tlm_addr = Decode(given).address /\ node.members = Constructed(kind, 0)
      /\ node.state = "allocated"
  BY <1>2, <1>5, <1>7 DEF Node
<1>9. /\ block \in BlockType /\ block.first = given /\ block.words = n /\ ~block.copied
      /\ block.tlm_addr = Decode(given).address
  BY <1>2, <1>6, <1>7 DEF BlockType, TakenBlock
<1>10. \A w \in Zeros(kind) : Constructed(kind, 0)[w] = 0
  BY ConstructedZeros
<1> HIDE DEF node, block
<1>11. PlacedInv'
  <2>1. block.first = from + n /\ block.tlm_addr = Decode(from + n).address
    BY <1>4, <1>9
  <2> HIDE DEF n
  <2> QED
    BY <1>1, <1>2, <1>4, <1>5, <1>9, <2>1, PlacedTaken
<1>12. Remains(nodes)
  BY <1>5 DEF Remains
<1>13. /\ NodesType' /\ HeldInv' /\ ZeroInv'
       /\ Len(nodes') = Len(nodes) + 1 /\ Len(nodes) \in Nat /\ nodes'[Len(nodes) + 1] = node
       /\ \A i \in 1..Len(nodes) : nodes'[i] = nodes[i] \/ nodes'[i] = Gone(nodes[i])
  BY <1>1, <1>2, <1>5, <1>8, <1>9, <1>10, <1>12, HeldAppended
<1>14. /\ Len(blocks') = Len(blocks) + 1
       /\ \A b \in 1..Len(blocks) : blocks'[b] = blocks[b]
  <2>1. \A b \in 1..Len(blocks) : b \in 1..(Len(blocks) + 1) /\ b # Len(blocks) + 1
    BY <1>5
  <2> QED
    BY <1>1, <1>5, <1>9, <2>1, AppendedBlock
<1>15. nodes'[Len(nodes) + 1].state # "live"
  BY <1>8, <1>13
<1> QED
  BY <1>3, <1>5, <1>11, <1>13, <1>14, <1>15 DEF Joined

\* The copy constructor, once it has read all words of the other
LEMMA CopyMadeStep ==
  ASSUME TypeInv, PlacedInv, HeldInv, ZeroInv, NEW address \in Indeterminate, CopyMade(address),
         reading.node \in 1..Len(nodes), nodes[reading.node].kind = "HashTableEntry"
  PROVE  NodesType' /\ PlacedInv' /\ HeldInv' /\ ZeroInv' /\ Joined
<1> DEFINE from == reading.node
           known == [nodes EXCEPT ![from].state = "gone"]
           node == [nodes[from] EXCEPT !.tlm_addr = address, !.block = Len(blocks) + 1]
           block == CopiedBlock("HashTableEntry", address)
<1>1. /\ nodes' = Append(known, node) /\ blocks' = Append(blocks, block) /\ free' = free
  BY DEF CopyMade
<1>2. NodesType /\ Len(blocks) \in Nat /\ Len(blocks) = Len(nodes) /\ nodes \in Seq(Node)
  BY LenProperties DEF TypeInv, NodesType
<1>3. nodes[from] \in Node /\ nodes[from].kind \in Kinds /\ address \in Int
  BY <1>2, NodeAt, MemoryAssumption
<1>4. Gone(nodes[from]) \in Node
  BY <1>3, GoneIs
<1>5. Remains(known)
  <2>1. known = [nodes EXCEPT ![from] = Gone(nodes[from])]
    BY <1>2 DEF Gone
  <2> HIDE DEF known
  <2>2. /\ known \in Seq(Node) /\ Len(known) = Len(nodes)
        /\ \A i \in 1..Len(nodes) : known[i] = IF i = from THEN Gone(nodes[from]) ELSE nodes[i]
    BY <1>2, <1>4, <2>1, ExceptSeq
  <2> QED
    BY <2>2 DEF Remains
<1>6. /\ node \in Node /\ node.block = Len(blocks) + 1 /\ node.tlm_addr = address
      /\ node.kind = "HashTableEntry" /\ node.members = nodes[from].members
  <2> DEFINE old == nodes[from]
             number == Len(blocks) + 1
  <2>1. old \in Node /\ number \in Nat /\ address \in Int /\ old.kind = "HashTableEntry"
    BY <1>2, <1>3
  <2>2. node = [old EXCEPT !.tlm_addr = address, !.block = number]
    OBVIOUS
  <2> HIDE DEF node, old, number
  <2>3. /\ node \in Node /\ node.block = number /\ node.tlm_addr = address
        /\ node.kind = "HashTableEntry" /\ node.members = old.members
    BY <2>1, <2>2 DEF Node
  <2> QED
    BY <2>3 DEF old, number
<1>7. WordsIn("HashTableEntry") = 5 /\ Len(Constructed("HashTableEntry", 0)) = 5
  BY DEF WordsIn, Constructed, HashTableEntry
<1>8. /\ block \in BlockType /\ block.copied /\ block.tlm_addr = address
      /\ block.words = WordsIn("HashTableEntry")
  <2>1. block = [first |-> 0, words |-> 5, tlm_addr |-> address, copied |-> TRUE]
    BY <1>7 DEF CopiedBlock
  <2>2. 5 \in 3..5 /\ 0 \in Nat
    OBVIOUS
  <2> HIDE DEF block
  <2> QED
    BY <1>3, <1>7, <2>1, <2>2 DEF BlockType
<1>9. Len(nodes[from].members) = WordsIn("HashTableEntry")
  BY <1>2 DEF NodesType
<1>10. \A w \in Zeros("HashTableEntry") : nodes[from].members[w] = 0
  BY DEF ZeroInv
<1> HIDE DEF node, block, known
<1>11. /\ NodesType' /\ HeldInv' /\ ZeroInv'
       /\ Len(nodes') = Len(nodes) + 1 /\ Len(nodes) \in Nat /\ nodes'[Len(nodes) + 1] = node
       /\ \A i \in 1..Len(nodes) : nodes'[i] = nodes[i] \/ nodes'[i] = Gone(nodes[i])
  BY <1>1, <1>2, <1>5, <1>6, <1>8, <1>9, <1>10, HeldAppended
<1>12. PlacedInv'
  BY <1>1, <1>2, <1>8, PlacedCopied
<1>13. /\ Len(blocks') = Len(blocks) + 1 /\ blocks'[Len(blocks) + 1] = block
       /\ \A b \in 1..Len(blocks) : blocks'[b] = blocks[b]
  <2>1. \A b \in 1..Len(blocks) : b \in 1..(Len(blocks) + 1) /\ b # Len(blocks) + 1
    BY <1>2
  <2> QED
    BY <1>1, <1>2, <1>8, <2>1, AppendedBlock
<1> QED
  BY <1>2, <1>6, <1>8, <1>11, <1>12, <1>13 DEF Joined

LEMMA AssignMoves ==
  ASSUME NodesType, NEW to \in 1..Len(nodes), NEW from \in 1..Len(nodes), Assign(to, from)
  PROVE  /\ nodes' \in Seq(Node) /\ Len(nodes') = Len(nodes)
         /\ \A i \in 1..Len(nodes) :
              nodes'[i] = IF i = to THEN nodes[from] ELSE IF i = from THEN Gone(nodes[from]) ELSE nodes[i]
<1>1. /\ to # from /\ nodes' = [nodes EXCEPT ![to] = nodes[from], ![from].state = "gone"]
      /\ nodes \in Seq(Node) /\ Len(nodes) \in Nat
  BY LenProperties DEF Assign, NodesType
<1> DEFINE gone == Gone(nodes[from])
           first == [nodes EXCEPT ![to] = nodes[from]]
<1>2. nodes[from] \in Node /\ gone \in Node
  BY NodeAt, GoneIs
<1>3. /\ first \in Seq(Node) /\ Len(first) = Len(nodes)
      /\ \A i \in 1..Len(nodes) : first[i] = IF i = to THEN nodes[from] ELSE nodes[i]
  BY <1>1, <1>2, ExceptSeq
<1>4. nodes' = [first EXCEPT ![from] = gone]
  <2>1. nodes' = [first EXCEPT ![from].state = "gone"]
    BY <1>1
  <2>2. first[from] = nodes[from]
    BY <1>1, <1>3
  <2> QED
    BY <2>1, <2>2 DEF Gone
<1> HIDE DEF first, gone
<1>5. /\ nodes' \in Seq(Node) /\ Len(nodes') = Len(first)
      /\ \A i \in 1..Len(first) : nodes'[i] = IF i = from THEN gone ELSE first[i]
  <2>1. from \in 1..Len(first)
    BY <1>3
  <2> QED
    BY <1>2, <1>3, <1>4, <2>1, ExceptSeq
<1>6. \A i \in 1..Len(nodes) :
        nodes'[i] = IF i = to THEN nodes[from] ELSE IF i = from THEN gone ELSE nodes[i]
  BY <1>1, <1>3, <1>5
<1> QED
  BY <1>3, <1>5, <1>6 DEF gone

\* Words change hands and are lost with the node that had them.
LEMMA AssignStep ==
  ASSUME NodesType, HeldInv, ZeroInv,
         NEW to \in 1..Len(nodes), NEW from \in 1..Len(nodes), Assign(to, from)
  PROVE  NodesType' /\ HeldInv' /\ ZeroInv'
<1>1. to # from /\ nodes[from].state = "live" /\ blocks' = blocks
  BY DEF Assign, Live
<1>2. /\ nodes' \in Seq(Node) /\ Len(nodes') = Len(nodes)
      /\ \A i \in 1..Len(nodes) : nodes'[i] = IF i = to THEN nodes[from]
                                              ELSE IF i = from THEN Gone(nodes[from]) ELSE nodes[i]
  BY AssignMoves
<1> DEFINE source(i) == IF i = to THEN from ELSE i
<1>3. ASSUME NEW i \in 1..Len(nodes)
      PROVE  /\ source(i) \in 1..Len(nodes)
             /\ nodes'[i].kind = nodes[source(i)].kind
             /\ nodes'[i].members = nodes[source(i)].members
             /\ nodes'[i].block = nodes[source(i)].block
             /\ nodes'[i].tlm_addr = nodes[source(i)].tlm_addr
             /\ Kept(i)' => i # from /\ Kept(source(i))
  <2>1. nodes[from] \in Node
    BY NodeAt
  <2>2. /\ Gone(nodes[from]).state = "gone" /\ Gone(nodes[from]).kind = nodes[from].kind
        /\ Gone(nodes[from]).members = nodes[from].members
        /\ Gone(nodes[from]).block = nodes[from].block
        /\ Gone(nodes[from]).tlm_addr = nodes[from].tlm_addr
    BY <2>1, GoneIs
  <2> QED
    BY <1>1, <1>2, <2>2 DEF Kept
<1>4. \A i, j \in 1..Len(nodes) : i # j /\ Kept(i)' /\ Kept(j)' => source(i) # source(j)
  BY <1>3
<1> HIDE DEF source
<1>5. NodesType'
  <2>1. ASSUME NEW i \in 1..Len(nodes')
        PROVE  /\ Len(nodes'[i].members) = WordsIn(nodes'[i].kind)
               /\ nodes'[i].block \in 1..Len(blocks')
    <3>1. i \in 1..Len(nodes) /\ source(i) \in 1..Len(nodes)
      BY <1>2, <1>3
    <3>2. Len(nodes[source(i)].members) = WordsIn(nodes[source(i)].kind)
      BY <3>1 DEF NodesType
    <3>3. nodes[source(i)].block \in 1..Len(blocks)
      BY <3>1 DEF NodesType
    <3> QED
      BY <1>1, <1>3, <3>1, <3>2, <3>3
  <2> QED
    BY <1>1, <1>2, <2>1 DEF NodesType
<1>6. HeldInv'
  <2>1. ASSUME NEW i \in 1..Len(nodes'), Kept(i)'
        PROVE  /\ nodes'[i].tlm_addr = blocks'[nodes'[i].block].tlm_addr
               /\ WordsIn(nodes'[i].kind) = blocks'[nodes'[i].block].words
    <3>1. i \in 1..Len(nodes) /\ source(i) \in 1..Len(nodes) /\ Kept(source(i))
      BY <1>2, <1>3, <2>1
    <3>2. /\ nodes[source(i)].tlm_addr = blocks[nodes[source(i)].block].tlm_addr
          /\ WordsIn(nodes[source(i)].kind) = blocks[nodes[source(i)].block].words
      BY <3>1 DEF HeldInv
    <3> QED
      BY <1>1, <1>3, <3>1, <3>2
  <2>2. ASSUME NEW i \in 1..Len(nodes'), NEW j \in 1..Len(nodes'), i # j, Kept(i)', Kept(j)'
        PROVE  nodes'[i].block # nodes'[j].block
    <3>1. /\ i \in 1..Len(nodes) /\ source(i) \in 1..Len(nodes) /\ Kept(source(i))
          /\ j \in 1..Len(nodes) /\ source(j) \in 1..Len(nodes) /\ Kept(source(j))
      BY <1>2, <1>3, <2>2
    <3>2. source(i) # source(j)
      BY <1>4, <2>2, <3>1
    <3>3. nodes[source(i)].block # nodes[source(j)].block
      BY <3>1, <3>2 DEF HeldInv
    <3> QED
      BY <1>3, <3>1, <3>3
  <2> QED
    BY <2>1, <2>2 DEF HeldInv
<1>7. ZeroInv'
  <2>1. ASSUME NEW i \in 1..Len(nodes')
        PROVE  \A w \in Zeros(nodes'[i].kind) : nodes'[i].members[w] = 0
    <3>1. i \in 1..Len(nodes) /\ source(i) \in 1..Len(nodes)
      BY <1>2, <1>3
    <3>2. \A w \in Zeros(nodes[source(i)].kind) : nodes[source(i)].members[w] = 0
      BY <3>1 DEF ZeroInv
    <3> QED
      BY <1>3, <3>1, <3>2
  <2> QED
    BY <2>1 DEF ZeroInv
<1> QED
  BY <1>5, <1>6, <1>7

-----------------------------------------------------------------------------
(* What the agent sends                                                    *)

\* A word of a table, and the request to write it
Words == [address : {a \in Int : Decodes(a)}, value : Value]

Put(word) == [write |-> TRUE, address |-> Decode(word.address).address, value |-> word.value]

Targets(word) == Copies(Decode(word.address).name)

Queues == [Memories -> Seq(Requests)]

LEMMA OneWrite ==
  ASSUME NEW queues \in Queues, NEW word \in Words
  PROVE  /\ tlmwrite(queues, word) \in Queues /\ Put(word) \in Requests
         /\ \A m \in Memories : tlmwrite(queues, word)[m] =
              IF m \in Targets(word) THEN Append(queues[m], Put(word)) ELSE queues[m]
<1>1. word.address \in Int /\ Decodes(word.address) /\ word.value \in Value
  BY DEF Words
<1>2. Put(word) \in Requests
  BY <1>1, DecodedOnce DEF Put, Requests
<1>3. \A m \in Memories : tlmwrite(queues, word)[m] =
        IF m \in Targets(word) THEN Append(queues[m], Put(word)) ELSE queues[m]
  BY DEF tlmwrite, Put, Targets
<1>4. \A m \in Memories : queues[m] \in Seq(Requests) /\ Append(queues[m], Put(word)) \in Seq(Requests)
  BY <1>2, AppendProperties DEF Queues
<1>5. tlmwrite(queues, word) = [m \in Memories |-> tlmwrite(queues, word)[m]]
  BY DEF tlmwrite
<1>6. \A m \in Memories : tlmwrite(queues, word)[m] \in Seq(Requests)
  BY <1>3, <1>4
<1> QED
  BY <1>2, <1>3, <1>5, <1>6 DEF Queues

\* The writes of a constructor or setter, one after the other
Sends(after, writes) ==
  /\ after[0] = pending
  /\ \A n \in 1..Len(writes) : after[n] = tlmwrite(after[n - 1], writes[n])
  /\ Written(writes) = after[Len(writes)]

LEMMA WrittenSteps ==
  ASSUME PendingType, NEW writes \in Seq(Words)
  PROVE  \E after \in [0..Len(writes) -> Queues] : Sends(after, writes)
<1> DEFINE L == Len(writes)
           Is(f) == f = [n \in 0..L |-> IF n = 0 THEN pending ELSE tlmwrite(f[n - 1], writes[n])]
           step == [n \in 1..L |-> [q \in Queues |-> tlmwrite(q, writes[n])]]
<1>1. L \in Nat /\ \A n \in 1..L : writes[n] \in Words
  BY LenProperties, ElementOfSeq
<1>2. pending \in Queues
  BY DEF PendingType, Queues
<1>3. Steps(step, L, Queues)
  BY <1>1, OneWrite DEF Steps
<1>4. PICK f \in [0..L -> Queues] : Follows(f, step, L, pending)
  <2> HIDE DEF step, L
  <2> QED
    BY <1>1, <1>2, <1>3, Recursion
<1>5. f[0] = pending /\ \A n \in 1..L : f[n] = tlmwrite(f[n - 1], writes[n])
  <2>1. \A n \in 1..L : n - 1 \in 0..L
    BY <1>1
  <2>2. \A n \in 1..L : f[n - 1] \in Queues
    BY <2>1
  <2>3. \A n \in 1..L : f[n] = step[n][f[n - 1]]
    BY <1>4 DEF Follows
  <2> QED
    BY <1>4, <2>2, <2>3 DEF Follows
<1>6. Is(f)
  <2>1. \A n \in 0..L : n # 0 => n \in 1..L
    BY <1>1
  <2>2. f = [n \in 0..L |-> f[n]]
    OBVIOUS
  <2> QED
    BY <1>5, <2>1, <2>2
<1> DEFINE after == CHOOSE g : Is(g)
<1>7. Is(after)
  <2> HIDE DEF Is
  <2> QED
    BY <1>6
<1>8. Written(writes) = after[L]
  BY DEF Written
<1> HIDE DEF after
<1> DEFINE Same == {n \in 0..L : after[n] = f[n]}
<1>9. \A n \in 0..L : n \in Same
  <2>1. 0 \in Same
    BY <1>1, <1>5, <1>7
  <2>2. ASSUME NEW n \in 1..L, n - 1 \in Same PROVE n \in Same
    <3>1. n \in 0..L /\ n # 0
      BY <1>1
    <3>2. after[n] = tlmwrite(after[n - 1], writes[n])
      BY <1>7, <3>1
    <3> QED
      BY <1>5, <2>2, <3>1, <3>2
  <2> HIDE DEF Same, L
  <2> QED
    BY <1>1, <2>1, <2>2, Upwards
<1>10. Written(writes) = f[L]
  BY <1>1, <1>8, <1>9
<1> QED
  BY <1>5, <1>10 DEF Sends

\* Requests that are all writes stay so.
AllWrites(queues) == \A m \in Memories : \A n \in 1..Len(queues[m]) : queues[m][n].write

LEMMA WritesAppended ==
  ASSUME NEW q \in Seq(Requests), \A n \in 1..Len(q) : q[n].write, NEW r \in Requests, r.write
  PROVE  \A n \in 1..Len(Append(q, r)) : Append(q, r)[n].write
<1>1. /\ Len(Append(q, r)) = Len(q) + 1 /\ Len(q) \in Nat
      /\ \A n \in 1..Len(q) : Append(q, r)[n] = q[n]
      /\ Append(q, r)[Len(q) + 1] = r
  BY AppendProperties, LenProperties
<1>2. \A n \in 1..(Len(q) + 1) : n = Len(q) + 1 \/ n \in 1..Len(q)
  BY <1>1
<1> QED
  BY <1>1, <1>2

LEMMA WrittenTypes ==
  ASSUME PendingType, NEW writes \in Seq(Words)
  PROVE  /\ Written(writes) \in Queues
         /\ AllWrites(pending) => AllWrites(Written(writes))
<1>1. PICK after \in [0..Len(writes) -> Queues] : Sends(after, writes)
  BY WrittenSteps
<1>2. Len(writes) \in Nat /\ \A n \in 1..Len(writes) : writes[n] \in Words
  BY LenProperties, ElementOfSeq
<1>3. Written(writes) = after[Len(writes)] /\ Written(writes) \in Queues
  BY <1>1, <1>2 DEF Sends
<1>4. ASSUME AllWrites(pending) PROVE AllWrites(Written(writes))
  <2> DEFINE Good == {n \in 0..Len(writes) : AllWrites(after[n])}
  <2>1. 0 \in Good
    BY <1>1, <1>2, <1>4 DEF Sends
  <2>2. ASSUME NEW n \in 1..Len(writes), n - 1 \in Good PROVE n \in Good
    <3>1. n \in 0..Len(writes) /\ n - 1 \in 0..Len(writes) /\ writes[n] \in Words
      BY <1>2
    <3>2. after[n - 1] \in Queues /\ AllWrites(after[n - 1])
      BY <2>2, <3>1
    <3>3. after[n] = tlmwrite(after[n - 1], writes[n])
      BY <1>1 DEF Sends
    <3>a. Put(writes[n]).write
      BY DEF Put
    <3>4. /\ Put(writes[n]) \in Requests /\ Put(writes[n]).write
          /\ \A m \in Memories : after[n][m] =
               IF m \in Targets(writes[n]) THEN Append(after[n - 1][m], Put(writes[n]))
               ELSE after[n - 1][m]
      <4> DEFINE queues == after[n - 1]
                 word == writes[n]
      <4>1. queues \in Queues /\ word \in Words /\ after[n] = tlmwrite(queues, word)
        BY <3>1, <3>2, <3>3
      <4> HIDE DEF queues, word
      <4>2. /\ Put(word) \in Requests
            /\ \A m \in Memories : after[n][m] =
                 IF m \in Targets(word) THEN Append(queues[m], Put(word)) ELSE queues[m]
        BY <4>1, OneWrite
      <4> QED
        BY <3>a, <4>2 DEF queues, word
    <3>5. ASSUME NEW m \in Memories PROVE \A k \in 1..Len(after[n][m]) : after[n][m][k].write
      <4>1. after[n - 1][m] \in Seq(Requests)
        BY <3>2 DEF Queues
      <4>2. \A k \in 1..Len(after[n - 1][m]) : after[n - 1][m][k].write
        BY <3>2 DEF AllWrites
      <4> QED
        BY <3>4, <4>1, <4>2, WritesAppended
    <3> QED
      BY <3>1, <3>5 DEF AllWrites
  <2> HIDE DEF Good
  <2>3. \A n \in 0..Len(writes) : n \in Good
    BY <1>2, <2>1, <2>2, Upwards
  <2> USE DEF Good
  <2> QED
    BY <1>2, <1>3, <2>3
<1> QED
  BY <1>3, <1>4


-----------------------------------------------------------------------------
(* Constructors and setters                                                *)

Update(i, node, writes) ==
  /\ nodes' = [nodes EXCEPT ![i] = node]
  /\ pending' = Written(writes)
  /\ free' = free /\ blocks' = blocks /\ cells' = cells
  /\ halted' = halted /\ reading' = reading

\* What is written are members, and a member that is not written has not changed.
Agrees(i, node, writes) ==
  /\ nodes[i].state # "gone" /\ node \in Node /\ node.state = "live"
  /\ node.kind = nodes[i].kind /\ node.tlm_addr = nodes[i].tlm_addr
  /\ node.block = nodes[i].block
  /\ Len(node.members) = WordsIn(node.kind)
  /\ writes \in Seq(Words)
  /\ \A k \in 1..Len(writes) : \E w \in WordsOf(i) :
        writes[k].address = Address(i, w) /\ writes[k].value = node.members[w]
  /\ \A w \in WordsOf(i) :
        \/ \E k \in 1..Len(writes) : writes[k].address = Address(i, w)
        \/ nodes[i].state = "live" /\ node.members[w] = nodes[i].members[w]
  /\ \A w \in Zeros(node.kind) : node.members[w] = 0

LEMMA ConstructUpdates ==
  ASSUME TypeInv, NEW v \in Value, Construct(v)
  PROVE  \E i \in 1..Len(nodes) : \E node, writes : Update(i, node, writes) /\ Agrees(i, node, writes)
<1>1. PICK i \in 1..Len(nodes) :
        /\ nodes[i].state = "allocated" /\ Decodable(i)
        /\ nodes' = [nodes EXCEPT ![i].members = Constructed(nodes[i].kind, v), ![i].state = "live"]
        /\ PutAll(Written(Writes(i, Constructed(nodes[i].kind, v))))
        /\ UNCHANGED <<free, blocks, calls, reading, cells, halted>>
  BY DEF Construct
<1> DEFINE words == Constructed(nodes[i].kind, v)
           node == [nodes[i] EXCEPT !.members = words, !.state = "live"]
           writes == Writes(i, words)
<1>2. NodesType
  BY DEF TypeInv
<1>3. /\ nodes[i] \in Node /\ nodes[i].kind \in Kinds
      /\ WordsOf(i) = 1..WordsIn(nodes[i].kind)
      /\ \A w \in WordsOf(i) : Address(i, w) \in Int
  BY <1>2, NodeAt
<1>4. words \in Seq(Value) /\ Len(words) = WordsIn(nodes[i].kind) /\ Len(words) \in Nat
  BY <1>3, ConstructedType
<1> HIDE DEF words
<1>6. /\ node \in Node /\ node.state = "live" /\ node.members = words
      /\ node.kind = nodes[i].kind /\ node.tlm_addr = nodes[i].tlm_addr
      /\ node.block = nodes[i].block
  BY <1>3, <1>4 DEF Node
<1>7. ASSUME NEW w \in 1..Len(words)
      PROVE  /\ writes[w].address = Address(i, w) /\ writes[w].value = words[w]
             /\ writes[w] \in Words
  <2>1. Address(i, w) \in Int /\ Decodes(Address(i, w))
    BY <1>1, <1>3, <1>4 DEF Decodable
  <2>2. words[w] \in Value
    BY <1>4, ElementOfSeq
  <2>3. writes[w] = [address |-> Address(i, w), value |-> words[w]]
    BY DEF Writes
  <2> HIDE DEF writes
  <2> QED
    BY <2>1, <2>2, <2>3 DEF Words
<1>8. writes \in Seq(Words) /\ Len(writes) = Len(words)
  <2>1. writes = [w \in 1..Len(words) |-> writes[w]]
    BY DEF Writes
  <2> HIDE DEF writes
  <2>2. writes \in [1..Len(words) -> Words]
    BY <1>7, <2>1
  <2>3. writes \in Seq(Words)
    BY <1>4, <2>2, SeqDef
  <2> QED
    BY <1>4, <2>2, <2>3, LenProperties
<1>9. \A w \in Zeros(nodes[i].kind) : words[w] = 0
  BY <1>3, ConstructedZeros DEF words
<1>10. nodes' = [nodes EXCEPT ![i] = node]
  BY <1>1 DEF words
<1>11. Update(i, node, writes)
  <2>1. pending' = Written(writes)
    BY <1>1 DEF PutAll, words
  <2> HIDE DEF node, writes
  <2> QED
    BY <1>1, <1>10, <2>1 DEF Update
<1>12. Agrees(i, node, writes)
  <2> HIDE DEF node, writes
  <2>1. WordsOf(i) = 1..Len(words) /\ Len(writes) = Len(words)
    BY <1>3, <1>4, <1>8
  <2>2. \A k \in 1..Len(writes) : \E w \in WordsOf(i) :
           writes[k].address = Address(i, w) /\ writes[k].value = node.members[w]
    BY <1>6, <1>7, <2>1
  <2>3. \A w \in WordsOf(i) : \E k \in 1..Len(writes) : writes[k].address = Address(i, w)
    BY <1>7, <2>1
  <2>4. /\ \A w \in Zeros(node.kind) : node.members[w] = 0
        /\ Len(node.members) = WordsIn(node.kind)
    BY <1>4, <1>6, <1>9
  <2>5. nodes[i].state # "gone" /\ writes \in Seq(Words)
    BY <1>1, <1>8
  <2> QED
    BY <1>6, <2>2, <2>3, <2>4, <2>5 DEF Agrees
<1> HIDE DEF node, writes
<1> QED
  BY <1>11, <1>12

LEMMA SetterFacts ==
  ASSUME NEW kind \in Kinds, NEW setter \in Setters(kind)
  PROVE  /\ Len(setter.written) \in Nat
         /\ \A n \in 1..Len(setter.written) :
              /\ setter.written[n] \in 1..WordsIn(kind)
              /\ setter.written[n] \in setter.members \cup setter.zero
         /\ \A w \in setter.members \cup setter.zero :
              \E n \in 1..Len(setter.written) : setter.written[n] = w
         /\ setter.members \cap Zeros(kind) = {} /\ setter.zero \subseteq Zeros(kind)
<1>1. kind \in {"UnibitNode", "HashTableEntry", "MultibitNode", "LCNode"}
  BY MemoryAssumption
<1>2. CASE kind = "UnibitNode"
  <2>1. \E w \in 2..4 : setter = Sets(w)
    BY <1>2 DEF Setters, UnibitSetters
  <2> QED
    BY <1>2, <2>1 DEF Sets, Zeros, WordsIn
<1>3. CASE kind = "HashTableEntry"
  <2>1. (\E w \in {1, 2, 5} : setter = Sets(w)) \/ (\E w \in {3, 4} : setter = Clears(w))
    BY <1>3 DEF Setters, HashEntrySetters
  <2> QED
    BY <1>3, <2>1 DEF Sets, Clears, Zeros, WordsIn
<1>4. CASE kind = "MultibitNode"
  <2>1. \/ \E w \in {1, 2, 4, 5} : setter = Sets(w)
        \/ setter = [members |-> {5}, written |-> <<3, 5>>, zero |-> {3}]
    BY <1>4 DEF Setters, MultibitSetters
  <2>2. CASE \E w \in {1, 2, 4, 5} : setter = Sets(w)
    BY <1>4, <2>2 DEF Sets, Zeros, WordsIn
  <2>3. CASE setter = [members |-> {5}, written |-> <<3, 5>>, zero |-> {3}]
    BY <1>4, <2>3 DEF Zeros, WordsIn
  <2> QED
    BY <2>1, <2>2, <2>3
<1>5. CASE kind = "LCNode"
  <2>1. \E w \in 1..3 : setter = Sets(w)
    BY <1>5 DEF Setters, LCSetters
  <2> QED
    BY <1>5, <2>1 DEF Sets, Zeros, WordsIn
<1> QED
  BY <1>1, <1>2, <1>3, <1>4, <1>5

LEMMA SetterUpdates ==
  ASSUME TypeInv, ZeroInv, NEW i \in 1..Len(nodes), NEW v \in Value,
         NEW setter \in Setters(nodes[i].kind), Setter(i, setter, v)
  PROVE  \E node, writes : Update(i, node, writes) /\ Agrees(i, node, writes)
<1> DEFINE members == [w \in WordsOf(i) |-> IF w \in setter.members THEN v ELSE nodes[i].members[w]]
           node == [nodes[i] EXCEPT !.members = members]
           value(n) == IF setter.written[n] \in setter.zero THEN 0 ELSE v
           writes == [n \in 1..Len(setter.written) |->
                        [address |-> Address(i, setter.written[n]), value |-> value(n)]]
<1>1. /\ nodes[i].state = "live"
      /\ \A n \in 1..Len(setter.written) : Decodes(Address(i, setter.written[n]))
      /\ nodes' = [nodes EXCEPT ![i].members = members]
      /\ PutAll(Written(writes))
      /\ UNCHANGED <<free, blocks, reading, cells, halted>>
  BY DEF Setter, Live
<1>2. NodesType
  BY DEF TypeInv
<1>3. /\ nodes[i] \in Node /\ nodes[i].kind \in Kinds
      /\ nodes[i].members \in Seq(Value)
      /\ WordsIn(nodes[i].kind) \in 3..5
      /\ WordsOf(i) = 1..WordsIn(nodes[i].kind)
      /\ \A w \in WordsOf(i) : nodes[i].members[w] \in Value /\ Address(i, w) \in Int
  BY <1>2, NodeAt
<1>4. /\ Len(setter.written) \in Nat
      /\ \A n \in 1..Len(setter.written) :
           /\ setter.written[n] \in WordsOf(i)
           /\ setter.written[n] \in setter.members \cup setter.zero
      /\ \A w \in setter.members \cup setter.zero :
           \E n \in 1..Len(setter.written) : setter.written[n] = w
      /\ setter.members \cap Zeros(nodes[i].kind) = {} /\ setter.zero \subseteq Zeros(nodes[i].kind)
  BY <1>3, SetterFacts
<1>6. members \in Seq(Value) /\ Len(members) = WordsIn(nodes[i].kind)
  <2>1. members \in [1..WordsIn(nodes[i].kind) -> Value]
    BY <1>3
  <2> HIDE DEF members
  <2>2. members \in Seq(Value)
    BY <1>3, <2>1, SeqDef
  <2>3. WordsIn(nodes[i].kind) \in Nat
    BY <1>3
  <2> QED
    BY <2>1, <2>2, <2>3, LenProperties
<1>7. \A w \in WordsOf(i) : members[w] = IF w \in setter.members THEN v ELSE nodes[i].members[w]
  OBVIOUS
<1>8. \A w \in Zeros(nodes[i].kind) : w \in WordsOf(i) /\ nodes[i].members[w] = 0
  BY <1>3 DEF ZeroInv, Zeros, WordsIn
<1>9. \A w \in Zeros(nodes[i].kind) : members[w] = 0
  <2> HIDE DEF members
  <2> QED
    BY <1>4, <1>7, <1>8
<1> HIDE DEF members
<1>10. /\ node \in Node /\ node.state = "live" /\ node.members = members
       /\ node.kind = nodes[i].kind /\ node.tlm_addr = nodes[i].tlm_addr
       /\ node.block = nodes[i].block
  BY <1>1, <1>3, <1>6 DEF Node
<1>11. ASSUME NEW n \in 1..Len(setter.written)
       PROVE  /\ writes[n].address = Address(i, setter.written[n])
              /\ writes[n].value = members[setter.written[n]]
              /\ writes[n] \in Words
  <2>1. Address(i, setter.written[n]) \in Int /\ Decodes(Address(i, setter.written[n]))
    BY <1>1, <1>3, <1>4
  <2>2. value(n) \in Value
    BY MemoryAssumption
  <2>3. value(n) = members[setter.written[n]]
    <3>1. CASE setter.written[n] \in setter.zero
      BY <1>4, <1>9, <3>1
    <3>2. CASE setter.written[n] \notin setter.zero
      BY <1>4, <1>7, <3>2
    <3> QED
      BY <3>1, <3>2
  <2>4. writes[n] = [address |-> Address(i, setter.written[n]), value |-> value(n)]
    OBVIOUS
  <2> HIDE DEF writes, value
  <2> QED
    BY <2>1, <2>2, <2>3, <2>4 DEF Words
<1>12. writes \in Seq(Words) /\ Len(writes) = Len(setter.written)
  <2>1. writes = [n \in 1..Len(setter.written) |-> writes[n]]
    OBVIOUS
  <2> HIDE DEF writes
  <2>2. writes \in [1..Len(setter.written) -> Words]
    BY <1>11, <2>1
  <2>3. writes \in Seq(Words)
    BY <1>4, <2>2, SeqDef
  <2> QED
    BY <1>4, <2>2, <2>3, LenProperties
<1>13. Update(i, node, writes)
  <2>1. pending' = Written(writes)
    BY <1>1 DEF PutAll
  <2>2. nodes' = [nodes EXCEPT ![i] = node]
    BY <1>1
  <2> HIDE DEF node, writes
  <2> QED
    BY <1>1, <2>1, <2>2 DEF Update
<1>14. \A w \in WordsOf(i) : \/ \E n \in 1..Len(setter.written) : setter.written[n] = w
                             \/ members[w] = nodes[i].members[w]
  BY <1>4, <1>7
<1>15. Agrees(i, node, writes)
  <2> HIDE DEF node, writes
  <2>1. nodes[i].state # "gone"
    BY <1>1
  <2>2. \A k \in 1..Len(writes) : \E w \in WordsOf(i) :
          writes[k].address = Address(i, w) /\ writes[k].value = node.members[w]
    BY <1>4, <1>10, <1>11, <1>12
  <2>3. \A w \in WordsOf(i) :
          \/ \E k \in 1..Len(writes) : writes[k].address = Address(i, w)
          \/ nodes[i].state = "live" /\ node.members[w] = nodes[i].members[w]
    BY <1>1, <1>10, <1>11, <1>12, <1>14
  <2> QED
    BY <1>6, <1>9, <1>10, <1>12, <2>1, <2>2, <2>3 DEF Agrees
<1> HIDE DEF node, writes
<1> QED
  BY <1>13, <1>15

LEMMA UpdateKeeps ==
  ASSUME TypeInv, PlacedInv, HeldInv, ZeroInv, NEW i \in 1..Len(nodes), NEW node, NEW writes,
         Update(i, node, writes), Agrees(i, node, writes)
  PROVE  /\ NodesType' /\ PlacedInv' /\ HeldInv' /\ ZeroInv' /\ PendingType'
         /\ AllWrites(pending) => AllWrites(pending')
         /\ Len(nodes') = Len(nodes)
         /\ \A j \in 1..Len(nodes) : nodes'[j] = IF j = i THEN node ELSE nodes[j]
<1>1. nodes \in Seq(Node) /\ node \in Node /\ NodesType
  BY DEF TypeInv, NodesType, Agrees
<1>2. nodes' = [nodes EXCEPT ![i] = node] /\ blocks' = blocks /\ free' = free
  BY DEF Update
<1>3. /\ nodes' \in Seq(Node) /\ Len(nodes') = Len(nodes)
      /\ \A j \in 1..Len(nodes) : nodes'[j] = IF j = i THEN node ELSE nodes[j]
  BY <1>1, <1>2, ExceptSeq
<1>4. /\ Len(node.members) = WordsIn(node.kind) /\ node.kind = nodes[i].kind
      /\ node.tlm_addr = nodes[i].tlm_addr /\ node.block = nodes[i].block
      /\ nodes[i].state # "gone" /\ \A w \in Zeros(node.kind) : node.members[w] = 0
  BY DEF Agrees
<1>5. ASSUME NEW j \in 1..Len(nodes')
      PROVE  /\ j \in 1..Len(nodes) /\ nodes'[j].kind = nodes[j].kind
             /\ nodes'[j].tlm_addr = nodes[j].tlm_addr /\ nodes'[j].block = nodes[j].block
             /\ Kept(j)' => Kept(j)
             /\ Len(nodes'[j].members) = WordsIn(nodes'[j].kind)
             /\ \A w \in Zeros(nodes'[j].kind) : nodes'[j].members[w] = 0
  <2>1. j \in 1..Len(nodes)
    BY <1>3
  <2>2. CASE j = i
    BY <1>3, <1>4, <2>1, <2>2 DEF Kept
  <2>3. CASE j # i
    BY <1>1, <1>3, <2>1, <2>3 DEF Kept, NodesType, ZeroInv
  <2> QED
    BY <2>2, <2>3
<1>6. NodesType'
  <2>1. \A j \in 1..Len(nodes') : nodes'[j].block \in 1..Len(blocks')
    BY <1>1, <1>2, <1>5 DEF NodesType
  <2> QED
    BY <1>1, <1>2, <1>3, <1>5, <2>1 DEF NodesType
<1>7. HeldInv'
  <2>1. ASSUME NEW j \in 1..Len(nodes'), Kept(j)'
        PROVE  /\ nodes'[j].tlm_addr = blocks'[nodes'[j].block].tlm_addr
               /\ WordsIn(nodes'[j].kind) = blocks'[nodes'[j].block].words
    <3>1. /\ nodes[j].tlm_addr = blocks[nodes[j].block].tlm_addr
          /\ WordsIn(nodes[j].kind) = blocks[nodes[j].block].words
      BY <1>5, <2>1 DEF HeldInv
    <3> QED
      BY <1>2, <1>5, <3>1
  <2>2. ASSUME NEW j \in 1..Len(nodes'), NEW k \in 1..Len(nodes'), j # k, Kept(j)', Kept(k)'
        PROVE  nodes'[j].block # nodes'[k].block
    BY <1>5, <2>2 DEF HeldInv
  <2> QED
    BY <2>1, <2>2 DEF HeldInv
<1>8. ZeroInv'
  BY <1>5 DEF ZeroInv
<1>9. PlacedInv'
  BY <1>2, PlacedKept
<1>10. pending' = Written(writes) /\ writes \in Seq(Words) /\ PendingType
  BY DEF Update, Agrees, TypeInv
<1>11. PendingType' /\ (AllWrites(pending) => AllWrites(pending'))
  BY <1>10, WrittenTypes DEF PendingType, Queues
<1> QED
  BY <1>3, <1>6, <1>7, <1>8, <1>9, <1>11

-----------------------------------------------------------------------------
(* What a word will hold                                                   *)

Hit(queue, n, a) == queue[n].write /\ queue[n].address = a

\* A memory with these cells gives v for the word at a once it has served queue.
Sees(queue, memory, a, v) ==
  \/ \E n \in 1..Len(queue) : /\ Hit(queue, n, a) /\ queue[n].value = v
                              /\ \A k \in 1..Len(queue) : Hit(queue, k, a) => k =< n
  \/ /\ \A n \in 1..Len(queue) : ~Hit(queue, n, a)
     /\ v = IF a \in DOMAIN memory THEN memory[a] ELSE Untouched

Stored(memory, r) ==
  IF r.write THEN [a \in DOMAIN memory \cup {r.address} |->
                     IF a = r.address THEN r.value ELSE memory[a]]
  ELSE memory

\* Another request changes nothing for the words that it does not write.
LEMMA SeesPast ==
  ASSUME NEW q \in Seq(Requests), NEW r \in Requests, NEW memory, NEW a, NEW v,
         ~(r.write /\ r.address = a), Sees(q, memory, a, v)
  PROVE  Sees(Append(q, r), memory, a, v)
<1>1. /\ Len(Append(q, r)) = Len(q) + 1 /\ Len(q) \in Nat
      /\ \A n \in 1..Len(q) : Append(q, r)[n] = q[n]
      /\ Append(q, r)[Len(q) + 1] = r
  BY AppendProperties, LenProperties
<1>2. \A n \in 1..(Len(q) + 1) : IF n = Len(q) + 1 THEN ~Hit(Append(q, r), n, a)
                                 ELSE n \in 1..Len(q) /\ (Hit(Append(q, r), n, a) <=> Hit(q, n, a))
  BY <1>1 DEF Hit
<1>3. CASE \E n \in 1..Len(q) : /\ Hit(q, n, a) /\ q[n].value = v
                                /\ \A k \in 1..Len(q) : Hit(q, k, a) => k =< n
  <2>1. PICK n \in 1..Len(q) : /\ Hit(q, n, a) /\ q[n].value = v
                               /\ \A k \in 1..Len(q) : Hit(q, k, a) => k =< n
    BY <1>3
  <2>2. n \in 1..(Len(q) + 1) /\ n # Len(q) + 1
    BY <1>1
  <2>3. Hit(Append(q, r), n, a) /\ Append(q, r)[n].value = v
    BY <1>1, <1>2, <2>1, <2>2
  <2>4. \A k \in 1..(Len(q) + 1) : Hit(Append(q, r), k, a) => k =< n
    BY <1>2, <2>1
  <2> QED
    BY <1>1, <2>2, <2>3, <2>4 DEF Sees
<1>4. CASE /\ \A n \in 1..Len(q) : ~Hit(q, n, a)
           /\ v = IF a \in DOMAIN memory THEN memory[a] ELSE Untouched
  <2>1. \A n \in 1..(Len(q) + 1) : ~Hit(Append(q, r), n, a)
    BY <1>2, <1>4
  <2> QED
    BY <1>1, <1>4, <2>1 DEF Sees
<1> QED
  BY <1>3, <1>4 DEF Sees

LEMMA SeesNow ==
  ASSUME NEW q \in Seq(Requests), NEW r \in Requests, NEW memory, r.write
  PROVE  Sees(Append(q, r), memory, r.address, r.value)
<1>1. /\ Len(Append(q, r)) = Len(q) + 1 /\ Len(q) \in Nat
      /\ Append(q, r)[Len(q) + 1] = r
  BY AppendProperties, LenProperties
<1> DEFINE p == Append(q, r)
           n == Len(q) + 1
<1>2. /\ n \in 1..Len(p) /\ p[n] = r /\ \A k \in 1..Len(p) : k =< n
  BY <1>1
<1>3. Hit(p, n, r.address) /\ p[n].value = r.value
  BY <1>2 DEF Hit
<1> HIDE DEF p, n
<1>4. Sees(p, memory, r.address, r.value)
  BY <1>2, <1>3 DEF Sees
<1> QED
  BY <1>4 DEF p

LEMMA SeesServed ==
  ASSUME NEW q \in Seq(Requests), q # <<>>, NEW memory, NEW a, NEW v, Sees(q, memory, a, v)
  PROVE  Sees(Tail(q), Stored(memory, Head(q)), a, v)
<1> DEFINE t == Tail(q)
           r == Head(q)
<1>1. /\ Len(q) \in Nat \ {0} /\ r = q[1] /\ Len(t) = Len(q) - 1
      /\ \A n \in 1..Len(t) : t[n] = q[n + 1]
  BY HeadTailProperties, EmptySeq
<1> HIDE DEF t, r
<1>2. \A n \in 1..Len(t) : n + 1 \in 1..Len(q) /\ (Hit(t, n, a) <=> Hit(q, n + 1, a))
  BY <1>1 DEF Hit
<1>3. \A n \in 1..Len(q) : n # 1 => n - 1 \in 1..Len(t) /\ (Hit(t, n - 1, a) <=> Hit(q, n, a))
  <2>1. \A n \in 1..Len(q) : n # 1 => n - 1 \in 1..Len(t) /\ (n - 1) + 1 = n
    BY <1>1
  <2> QED
    BY <1>2, <2>1
<1>4. CASE \E n \in 1..Len(q) : /\ Hit(q, n, a) /\ q[n].value = v
                                /\ \A k \in 1..Len(q) : Hit(q, k, a) => k =< n
  <2>1. PICK n \in 1..Len(q) : /\ Hit(q, n, a) /\ q[n].value = v
                               /\ \A k \in 1..Len(q) : Hit(q, k, a) => k =< n
    BY <1>4
  <2>2. CASE n = 1
    <3>1. \A k \in 1..Len(t) : ~Hit(t, k, a)
      BY <1>2, <2>1, <2>2
    <3>2. r.write /\ r.address = a /\ r.value = v
      BY <1>1, <2>1, <2>2 DEF Hit
    <3>3. a \in DOMAIN Stored(memory, r) /\ Stored(memory, r)[a] = v
      BY <3>2 DEF Stored
    <3>4. Sees(t, Stored(memory, r), a, v)
      BY <3>1, <3>3 DEF Sees
    <3> QED
      BY <3>4 DEF t, r
  <2>3. CASE n # 1
    <3>1. n - 1 \in 1..Len(t) /\ Hit(t, n - 1, a)
      BY <1>3, <2>1, <2>3
    <3>2. t[n - 1].value = v
      <4>1. (n - 1) + 1 = n
        OBVIOUS
      <4> QED
        BY <1>1, <2>1, <3>1, <4>1
    <3>3. \A k \in 1..Len(t) : Hit(t, k, a) => k =< n - 1
      <4>1. \A k \in 1..Len(t) : Hit(t, k, a) => k + 1 =< n
        BY <1>2, <2>1
      <4> QED
        BY <1>1, <4>1
    <3>4. Sees(t, Stored(memory, r), a, v)
      BY <3>1, <3>2, <3>3 DEF Sees
    <3> QED
      BY <3>4 DEF t, r
  <2> QED
    BY <2>2, <2>3
<1>5. CASE /\ \A n \in 1..Len(q) : ~Hit(q, n, a)
           /\ v = IF a \in DOMAIN memory THEN memory[a] ELSE Untouched
  <2>1. \A n \in 1..Len(t) : ~Hit(t, n, a)
    BY <1>2, <1>5
  <2>2. ~(r.write /\ r.address = a)
    BY <1>1, <1>5 DEF Hit
  <2>3. v = IF a \in DOMAIN Stored(memory, r) THEN Stored(memory, r)[a] ELSE Untouched
    BY <1>5, <2>2 DEF Stored
  <2>4. Sees(t, Stored(memory, r), a, v)
    BY <2>1, <2>3 DEF Sees
  <2> QED
    BY <2>4 DEF t, r
<1> QED
  BY <1>4, <1>5 DEF Sees

\* A memory that is given a value gives it back.
LEMMA SeesLast ==
  ASSUME NEW place, NEW v, pending[place.memory] \in Seq(Requests),
         Sees(pending[place.memory], cells[place.memory], place.address, v)
  PROVE  WrittenLast(place) = v
<1> DEFINE q == pending[place.memory]
           a == place.address
<1>1. UnderWay(place) = {n \in 1..Len(q) : Hit(q, n, a)}
  BY DEF UnderWay, Hit
<1>2. tlm_read(place.memory, a) = IF a \in DOMAIN cells[place.memory] THEN cells[place.memory][a]
                                  ELSE Untouched
  BY DEF tlm_read
<1>3. CASE \E n \in 1..Len(q) : /\ Hit(q, n, a) /\ q[n].value = v
                                /\ \A k \in 1..Len(q) : Hit(q, k, a) => k =< n
  <2>1. PICK n \in 1..Len(q) : /\ Hit(q, n, a) /\ q[n].value = v
                               /\ \A k \in 1..Len(q) : Hit(q, k, a) => k =< n
    BY <1>3
  <2>2. n \in UnderWay(place) /\ \A k \in UnderWay(place) : k \in Nat /\ n >= k
    BY <1>1, <2>1
  <2>3. \A x \in UnderWay(place) : (\A y \in UnderWay(place) : x >= y) => x = n
    BY <2>2
  <2>4. Max(UnderWay(place)) = n
    BY <2>2, <2>3 DEF Max
  <2> QED
    BY <2>1, <2>2, <2>4 DEF WrittenLast
<1>4. CASE /\ \A n \in 1..Len(q) : ~Hit(q, n, a)
           /\ v = IF a \in DOMAIN cells[place.memory] THEN cells[place.memory][a] ELSE Untouched
  <2>1. UnderWay(place) = {}
    BY <1>1, <1>4
  <2> QED
    BY <1>2, <1>4, <2>1 DEF WrittenLast
<1> QED
  BY <1>3, <1>4 DEF Sees

\* What will be read at a place
Remembers(queues, place, v) ==
  Sees(queues[place.memory], cells[place.memory], place.address, v)

\* One write, and what it means for a word
LEMMA OneWriteSeen ==
  ASSUME NEW queues \in Queues, NEW word \in Words, NEW k \in Cores, NEW a \in Int, Decodes(a),
         NEW v, word.address = a => word.value = v,
         word.address # a => Remembers(queues, ReadPlace(k, a), v)
  PROVE  Remembers(tlmwrite(queues, word), ReadPlace(k, a), v)
<1> DEFINE place == ReadPlace(k, a)
           m == place.memory
           r == Put(word)
<1>1. word.address \in Int /\ Decodes(word.address) /\ word.value \in Value
  BY DEF Words
<1>2. /\ place.memory \in Memories /\ place.memory \in Copies(Decode(a).name)
      /\ place.address = Decode(a).address
  BY ReadPlaceIs
<1>3. /\ r \in Requests
      /\ tlmwrite(queues, word)[m] = IF m \in Targets(word) THEN Append(queues[m], r) ELSE queues[m]
  BY <1>2, OneWrite
<1>4. r.write /\ r.address = Decode(word.address).address /\ r.value = word.value
  BY DEF Put
<1>5. queues[m] \in Seq(Requests)
  BY <1>2 DEF Queues
<1>6. CASE word.address = a
  <2>1. m \in Targets(word) /\ r.address = place.address /\ r.value = v
    BY <1>2, <1>4, <1>6 DEF Targets
  <2> HIDE DEF r, m, place
  <2>2. Sees(Append(queues[m], r), cells[m], r.address, r.value)
    BY <1>3, <1>4, <1>5, SeesNow
  <2> QED
    BY <1>3, <2>1, <2>2 DEF Remembers, m, place
<1>7. CASE word.address # a
  <2>1. Sees(queues[m], cells[m], place.address, v)
    BY <1>7 DEF Remembers
  <2>2. CASE m \in Targets(word)
    <3>1. r.address # place.address
      <4> SUFFICES ASSUME r.address = place.address PROVE FALSE
        OBVIOUS
      <4>1. ReadPlace(k, a).memory \in Copies(Decode(word.address).name)
        BY <2>2 DEF Targets
      <4>2. ReadPlace(k, a).address = Decode(word.address).address
        BY <1>4
      <4>3. a = word.address
        BY <1>1, <4>1, <4>2, PlaceOfOne
      <4> QED
        BY <1>7, <4>3
    <3> HIDE DEF r, m, place
    <3>2. Sees(Append(queues[m], r), cells[m], place.address, v)
      BY <1>3, <1>5, <2>1, <3>1, SeesPast
    <3> QED
      BY <1>3, <2>2, <3>2 DEF Remembers, m, place
  <2>3. CASE m \notin Targets(word)
    BY <1>3, <2>1, <2>3 DEF Remembers
  <2> QED
    BY <2>2, <2>3
<1> QED
  BY <1>6, <1>7

\* All that a constructor or setter writes
LEMMA WrittenSeen ==
  ASSUME PendingType, NEW writes \in Seq(Words), NEW k \in Cores, NEW a \in Int, Decodes(a), NEW v,
         \A n \in 1..Len(writes) : writes[n].address = a => writes[n].value = v,
         \/ \E n \in 1..Len(writes) : writes[n].address = a
         \/ Remembers(pending, ReadPlace(k, a), v)
  PROVE  Remembers(Written(writes), ReadPlace(k, a), v)
<1> DEFINE place == ReadPlace(k, a)
           By(n) == \E j \in 1..n : writes[j].address = a
<1>1. PICK after \in [0..Len(writes) -> Queues] : Sends(after, writes)
  BY WrittenSteps
<1>2. Len(writes) \in Nat /\ \A n \in 1..Len(writes) : writes[n] \in Words
  BY LenProperties, ElementOfSeq
<1>3. /\ after[0] = pending /\ Written(writes) = after[Len(writes)]
      /\ \A n \in 1..Len(writes) : after[n] = tlmwrite(after[n - 1], writes[n])
  BY <1>1 DEF Sends
<1> DEFINE Good == {n \in 0..Len(writes) : By(n) \/ Remembers(pending, place, v)
                                             => Remembers(after[n], place, v)}
<1>4. 0 \in Good
  <2>1. ~By(0)
    OBVIOUS
  <2> HIDE DEF By, place
  <2> QED
    BY <1>2, <1>3, <2>1
<1>5. ASSUME NEW n \in 1..Len(writes), n - 1 \in Good PROVE n \in Good
  <2>1. n \in 0..Len(writes) /\ n - 1 \in 0..Len(writes) /\ writes[n] \in Words
    BY <1>2
  <2>2. after[n - 1] \in Queues /\ after[n] = tlmwrite(after[n - 1], writes[n])
    BY <1>3, <2>1
  <2>3. ASSUME By(n) \/ Remembers(pending, place, v), writes[n].address # a
        PROVE  Remembers(after[n - 1], place, v)
    <3>1. By(n) => By(n - 1)
      <4> SUFFICES ASSUME By(n) PROVE By(n - 1)
        OBVIOUS
      <4>1. PICK j \in 1..n : writes[j].address = a
        OBVIOUS
      <4>2. j \in 1..(n - 1)
        BY <2>1, <2>3, <4>1
      <4> QED
        BY <4>1, <4>2
    <3> HIDE DEF By, place
    <3> QED
      BY <1>5, <2>3, <3>1
  <2>4. ASSUME By(n) \/ Remembers(pending, place, v)
        PROVE  Remembers(after[n], place, v)
    <3> DEFINE queues == after[n - 1]
               word == writes[n]
    <3>1. queues \in Queues /\ word \in Words /\ after[n] = tlmwrite(queues, word)
      BY <2>1, <2>2
    <3>2. word.address = a => word.value = v
      OBVIOUS
    <3>3. word.address # a => Remembers(queues, ReadPlace(k, a), v)
      BY <2>3, <2>4
    <3> HIDE DEF queues, word, By
    <3>4. Remembers(tlmwrite(queues, word), ReadPlace(k, a), v)
      BY <3>1, <3>2, <3>3, OneWriteSeen
    <3> QED
      BY <3>1, <3>4
  <2> HIDE DEF By, place
  <2> QED
    BY <2>1, <2>4
<1> HIDE DEF Good
<1>6. \A n \in 0..Len(writes) : n \in Good
  BY <1>2, <1>4, <1>5, Upwards
<1>7. Len(writes) \in Good
  BY <1>2, <1>6
<1>8. By(Len(writes)) \/ Remembers(pending, place, v)
  OBVIOUS
<1> HIDE DEF By
<1> USE DEF Good
<1> QED
  BY <1>3, <1>7, <1>8
-----------------------------------------------------------------------------
(* What readers see                                                        *)

PlaceOf(k, i, w) == ReadPlace(k, Address(i, w))

\* The copies of a word that a node has to itself are its member, or about to be.
Back == \A i \in 1..Len(nodes) : Live(i) /\ ~blocks[nodes[i].block].copied =>
          \A w \in WordsOf(i) :
             /\ Decodes(Address(i, w))
             /\ ~Shared(i, w) =>
                  \A k \in Cores : Remembers(pending, PlaceOf(k, i, w), nodes[i].members[w])

Reading == [node : Nat, word : Nat, answer : SUBSET (Value \cup {Untouched}), step : 0..5]

\* The only request to read is the last to that place.
AllButLast(queues, place) ==
  \A m \in Memories : \A n \in 1..Len(queues[m]) : ~queues[m][n].write =>
     m = place.memory /\ n = Len(queues[m]) /\ queues[m][n].address = place.address

\* The agent waits for its read, and until then nothing happens to the nodes.
Asking == /\ reading.node \in 1..Len(nodes) /\ Live(reading.node)
          /\ reading.word \in WordsOf(reading.node)
          /\ \A i \in 1..Len(nodes) : nodes[i].state # "allocated"
          /\ Decodes(Address(reading.node, reading.word))
          /\ reading.step # 0 => nodes[reading.node].kind = "HashTableEntry"

Answered == reading.answer # {} /\ reading.word \in Own(reading.node) =>
               reading.answer = {nodes[reading.node].members[reading.word]}

ReadingInv ==
  /\ reading \in Reading
  /\ reading = NotReading \/ reading.answer # {} => AllWrites(pending)
  /\ reading # NotReading =>
       /\ Asking /\ Answered
       /\ AllButLast(pending, PlaceOf(Core0, reading.node, reading.word))

Safe == TypeInv /\ PlacedInv /\ HeldInv /\ ZeroInv

Inv == Safe /\ Back /\ ReadingInv

\* Blocks stay, and nodes have those they had.
Grown == /\ Len(blocks) \in Nat /\ Len(blocks') \in Nat /\ Len(blocks) =< Len(blocks')
         /\ \A b \in 1..Len(blocks) : blocks'[b] = blocks[b]

LEMMA SharedStays ==
  ASSUME NodesType, Grown, NEW i, NEW j \in 1..Len(nodes), NEW w, Shared(j, w),
         nodes'[i].block = nodes[j].block, nodes'[i].tlm_addr = nodes[j].tlm_addr
  PROVE  Shared(i, w)'
<1>1. PICK b \in 1..Len(blocks) \ {nodes[j].block} : Address(j, w) \in Covered(b)
  BY DEF Shared
<1>2. b \in 1..Len(blocks') /\ b # nodes'[i].block /\ blocks'[b] = blocks[b]
  BY <1>1 DEF Grown
<1>3. Address(i, w)' = Address(j, w) /\ Covered(b)' = Covered(b)
  BY <1>2 DEF Address, Covered
<1> QED
  BY <1>1, <1>2, <1>3 DEF Shared

\* Every live node that is no copy is one of before, with its words and members.
Stays(i, j) == /\ Live(j) /\ nodes'[i].tlm_addr = nodes[j].tlm_addr
               /\ nodes'[i].members = nodes[j].members /\ nodes'[i].block = nodes[j].block

LEMMA MovedSeen ==
  ASSUME NodesType, Back, Grown, pending' = pending, cells' = cells,
         \A i \in 1..Len(nodes') : Live(i)' /\ ~blocks'[nodes'[i].block].copied =>
            \E j \in 1..Len(nodes) : Stays(i, j)
  PROVE  Back'
<1>1. ASSUME NEW i \in 1..Len(nodes'), Live(i)', ~blocks'[nodes'[i].block].copied,
             NEW w \in WordsOf(i)'
      PROVE  /\ Decodes(Address(i, w)')
             /\ ~Shared(i, w)' => \A k \in Cores :
                  Remembers(pending, ReadPlace(k, Address(i, w)'), nodes'[i].members[w])
  <2>1. PICK j \in 1..Len(nodes) : Stays(i, j)
    BY <1>1
  <2>2. w \in WordsOf(j) /\ Address(i, w)' = Address(j, w)
    BY <1>1, <2>1 DEF WordsOf, Address, Stays
  <2>3. ~blocks[nodes[j].block].copied
    BY <1>1, <2>1, NodeAt DEF Stays, Grown
  <2>4. ~Shared(i, w)' => ~Shared(j, w)
    BY <2>1, SharedStays DEF Stays
  <2>5. /\ Decodes(Address(j, w))
        /\ ~Shared(j, w) => \A k \in Cores : Remembers(pending, PlaceOf(k, j, w), nodes[j].members[w])
    BY <2>1, <2>2, <2>3 DEF Back, Stays
  <2> QED
    BY <2>1, <2>2, <2>4, <2>5 DEF Stays, PlaceOf
<1> QED
  BY <1>1 DEF Back, PlaceOf, Remembers

LEMMA JoinedSeen ==
  ASSUME NodesType, Back, Joined, pending' = pending, cells' = cells
  PROVE  Back'
<1>1. Grown
  BY DEF Joined, Grown
<1>2. ASSUME NEW i \in 1..Len(nodes'), Live(i)', ~blocks'[nodes'[i].block].copied
      PROVE  \E j \in 1..Len(nodes) : Stays(i, j)
  <2>1. i # Len(nodes) + 1
    BY <1>2 DEF Joined, Live
  <2>2. i \in 1..Len(nodes)
    BY <2>1 DEF Joined
  <2>3. nodes'[i] = nodes[i]
    <3>1. Gone(nodes[i]).state = "gone"
      BY <2>2, NodeAt, GoneIs
    <3> QED
      BY <1>2, <2>2, <3>1 DEF Joined, Live
  <2> QED
    BY <1>2, <2>2, <2>3 DEF Stays, Live
<1> QED
  BY <1>1, <1>2, MovedSeen

LEMMA AssignSeen ==
  ASSUME NodesType, Back, NEW to \in 1..Len(nodes), NEW from \in 1..Len(nodes), Assign(to, from)
  PROVE  Back'
<1>1. /\ pending' = pending /\ cells' = cells /\ blocks' = blocks /\ Live(to) /\ Live(from)
      /\ to # from
  BY DEF Assign
<1>2. Len(blocks) \in Nat
  BY LenProperties DEF NodesType
<1>3. Grown
  BY <1>1, <1>2 DEF Grown
<1>4. /\ Len(nodes') = Len(nodes)
      /\ \A i \in 1..Len(nodes) : nodes'[i] = IF i = to THEN nodes[from]
                                              ELSE IF i = from THEN Gone(nodes[from]) ELSE nodes[i]
  BY AssignMoves
<1>5. Gone(nodes[from]).state = "gone"
  BY NodeAt, GoneIs
<1>6. ASSUME NEW i \in 1..Len(nodes'), Live(i)'
      PROVE  \E j \in 1..Len(nodes) : Stays(i, j)
  <2>1. i \in 1..Len(nodes)
    BY <1>4
  <2>2. CASE i = to
    BY <1>1, <1>4, <2>1, <2>2 DEF Stays
  <2>3. CASE i # to
    <3>1. i # from /\ nodes'[i] = nodes[i]
      BY <1>4, <1>5, <1>6, <2>1, <2>3 DEF Live
    <3> QED
      BY <1>6, <2>1, <3>1 DEF Stays, Live
  <2> QED
    BY <2>2, <2>3
<1> QED
  BY <1>1, <1>3, <1>6, MovedSeen

\* The words of a node are those of its block.
LEMMA InBlock ==
  ASSUME NodesType, HeldInv, NEW i \in 1..Len(nodes), Kept(i), NEW w \in WordsOf(i)
  PROVE  nodes[i].block \in 1..Len(blocks) /\ Address(i, w) \in Covered(nodes[i].block)
<1>1. /\ nodes[i].block \in 1..Len(blocks) /\ nodes[i].tlm_addr \in Int
      /\ WordsIn(nodes[i].kind) \in 3..5 /\ w \in 1..WordsIn(nodes[i].kind)
  BY NodeAt
<1>2. /\ nodes[i].tlm_addr = blocks[nodes[i].block].tlm_addr
      /\ WordsIn(nodes[i].kind) = blocks[nodes[i].block].words
  BY DEF HeldInv
<1>3. Covered(nodes[i].block)
        = nodes[i].tlm_addr..(nodes[i].tlm_addr + WordsIn(nodes[i].kind) - 1)
  BY <1>2 DEF Covered
<1> QED
  BY <1>1, <1>3 DEF Address

LEMMA AddressOfOne ==
  ASSUME NodesType, NEW i \in 1..Len(nodes), NEW w \in WordsOf(i), NEW u \in WordsOf(i),
         Address(i, w) = Address(i, u)
  PROVE  w = u
<1>1. nodes[i].tlm_addr \in Int /\ w \in Nat /\ u \in Nat
  BY NodeAt DEF WordsOf
<1> QED
  BY <1>1 DEF Address

\* A node's words after it was constructed or set
LEMMA UpdateBack ==
  ASSUME Safe, Back, NEW i \in 1..Len(nodes), NEW node, NEW writes,
         Update(i, node, writes), Agrees(i, node, writes)
  PROVE  Back'
<1>1. TypeInv /\ NodesType /\ PendingType /\ PlacedInv /\ HeldInv /\ ZeroInv
  BY DEF Safe, TypeInv
<1>2. /\ Len(nodes') = Len(nodes)
      /\ \A j \in 1..Len(nodes) : nodes'[j] = IF j = i THEN node ELSE nodes[j]
  BY <1>1, UpdateKeeps
<1>3. /\ nodes[i].state # "gone" /\ node.state = "live" /\ node.tlm_addr = nodes[i].tlm_addr
      /\ node.block = nodes[i].block
      /\ writes \in Seq(Words) /\ Len(node.members) = WordsIn(nodes[i].kind)
      /\ \A k \in 1..Len(writes) : \E w \in WordsOf(i) :
            writes[k].address = Address(i, w) /\ writes[k].value = node.members[w]
      /\ \A w \in WordsOf(i) :
            \/ \E k \in 1..Len(writes) : writes[k].address = Address(i, w)
            \/ nodes[i].state = "live" /\ node.members[w] = nodes[i].members[w]
  BY DEF Agrees
<1>4. cells' = cells /\ blocks' = blocks /\ pending' = Written(writes)
  BY DEF Update
<1>5. Kept(i) /\ Len(nodes[i].members) = WordsIn(nodes[i].kind)
  BY <1>1, <1>3 DEF Kept, NodesType
<1>6. ASSUME NEW j \in 1..Len(nodes')
      PROVE  /\ j \in 1..Len(nodes) /\ WordsOf(j)' = WordsOf(j)
             /\ nodes'[j].tlm_addr = nodes[j].tlm_addr /\ nodes'[j].block = nodes[j].block
             /\ nodes'[j].members = IF j = i THEN node.members ELSE nodes[j].members
             /\ Live(j)' => j = i \/ Live(j)
  <2>1. j \in 1..Len(nodes) /\ nodes'[j] = IF j = i THEN node ELSE nodes[j]
    BY <1>2
  <2> QED
    BY <1>3, <1>5, <2>1 DEF WordsOf, Live
<1>7. ASSUME NEW j \in 1..Len(nodes'), Live(j)', ~blocks'[nodes'[j].block].copied,
             NEW w \in WordsOf(j)'
      PROVE  /\ Decodes(Address(j, w)')
             /\ ~Shared(j, w)' => \A k \in Cores :
                  Remembers(pending', ReadPlace(k, Address(j, w)'), nodes'[j].members[w])
  <2> DEFINE a == Address(j, w)
             v == nodes'[j].members[w]
  <2>1. /\ j \in 1..Len(nodes) /\ w \in WordsOf(j) /\ Address(j, w)' = a
        /\ v = IF j = i THEN node.members[w] ELSE nodes[j].members[w]
        /\ j = i \/ Live(j)
        /\ ~blocks[nodes[j].block].copied
    BY <1>4, <1>6, <1>7 DEF Address
  <2>2. a \in Int
    BY <1>1, <2>1, NodeAt
  <2>3. Live(j) => /\ Decodes(a)
                   /\ ~Shared(j, w) => \A k \in Cores :
                        Remembers(pending, ReadPlace(k, a), nodes[j].members[w])
    BY <1>4, <1>6, <1>7, <2>1 DEF Back, PlaceOf
  <2>4. ASSUME NEW n \in 1..Len(writes), writes[n].address = a, ~Shared(j, w)
        PROVE  j = i /\ writes[n].value = v
    <3>1. PICK u \in WordsOf(i) : writes[n].address = Address(i, u) /\ writes[n].value = node.members[u]
      BY <1>3
    <3>2. j = i
      <4> SUFFICES ASSUME j # i PROVE FALSE
        OBVIOUS
      <4>1. Kept(j)
        BY <2>1 DEF Live, Kept
      <4>2. nodes[i].block # nodes[j].block
        BY <1>1, <1>5, <2>1, <4>1 DEF HeldInv
      <4>3. nodes[i].block \in 1..Len(blocks) /\ Address(i, u) \in Covered(nodes[i].block)
        BY <1>1, <1>5, InBlock
      <4> QED
        BY <2>4, <3>1, <4>2, <4>3 DEF Shared
    <3>3. u = w
      BY <1>1, <2>1, <2>4, <3>1, <3>2, AddressOfOne
    <3> QED
      BY <2>1, <3>1, <3>2, <3>3
  <2>5. \/ Live(j) /\ v = nodes[j].members[w]
        \/ \E n \in 1..Len(writes) : writes[n].address = a
    <3>1. CASE j = i
      BY <1>3, <2>1, <3>1 DEF Live
    <3>2. CASE j # i
      BY <2>1, <3>2
    <3> QED
      BY <3>1, <3>2
  <2>6. Decodes(a)
    <3>1. CASE \E n \in 1..Len(writes) : writes[n].address = a
      <4>1. PICK n \in 1..Len(writes) : writes[n].address = a
        BY <3>1
      <4>2. writes[n] \in Words
        BY <1>3, ElementOfSeq
      <4> QED
        BY <4>1, <4>2 DEF Words
    <3> QED
      BY <2>3, <2>5, <3>1
  <2>7. ~Shared(j, w)' => ~Shared(j, w)
    <3>1. Shared(j, w)' <=> Shared(j, w)
      BY <1>4, <1>6, <2>1 DEF Shared, Covered
    <3> QED
      BY <3>1
  <2>8. ASSUME ~Shared(j, w), NEW k \in Cores
        PROVE  Remembers(Written(writes), ReadPlace(k, a), v)
    <3>1. \A n \in 1..Len(writes) : writes[n].address = a => writes[n].value = v
      BY <2>4, <2>8
    <3>2. \/ \E n \in 1..Len(writes) : writes[n].address = a
          \/ Remembers(pending, ReadPlace(k, a), v)
      BY <2>3, <2>5, <2>8
    <3> HIDE DEF a, v
    <3> QED
      BY <1>1, <1>3, <2>2, <2>6, <3>1, <3>2, WrittenSeen
  <2> QED
    BY <1>4, <2>1, <2>6, <2>7, <2>8
<1> QED
  BY <1>4, <1>7 DEF Back, PlaceOf, Remembers

LEMMA UpdateReading ==
  ASSUME Safe, ReadingInv, reading = NotReading,
         NEW i \in 1..Len(nodes), NEW node, NEW writes,
         Update(i, node, writes), Agrees(i, node, writes)
  PROVE  ReadingInv'
<1>1. AllWrites(pending) /\ reading \in Reading
  BY DEF ReadingInv
<1>2. AllWrites(pending')
  BY <1>1, UpdateKeeps DEF Safe
<1>3. reading' = reading
  BY DEF Update
<1> QED
  BY <1>1, <1>2, <1>3 DEF ReadingInv, NotReading, AllWrites

\* A read, behind all that was written
LEMMA ReadSends ==
  ASSUME Safe, Back, AllWrites(pending), NEW i \in 1..Len(nodes), NEW w \in WordsOf(i),
         NEW step \in 0..5, Live(i), \A j \in 1..Len(nodes) : nodes[j].state # "allocated",
         step # 0 => nodes[i].kind = "HashTableEntry", Read(i, w, step)
  PROVE  PendingType' /\ Back' /\ ReadingInv'
<1> DEFINE place == PlaceOf(Core0, i, w)
           m == place.memory
           r == [write |-> FALSE, address |-> place.address, value |-> 0]
<1>1. /\ Decodes(Address(i, w)) /\ pending' = [pending EXCEPT ![m] = Append(@, r)]
      /\ reading' = [node |-> i, word |-> w, answer |-> {}, step |-> step]
      /\ nodes' = nodes /\ blocks' = blocks /\ cells' = cells
  BY DEF Read, PutAll, tlmread, PlaceOf
<1>2. NodesType /\ PendingType
  BY DEF Safe, TypeInv
<1>3. Address(i, w) \in Int /\ w \in Nat /\ i \in Nat
  BY <1>2, NodeAt DEF WordsOf
<1>4. m \in Memories /\ place.address \in Int
  BY <1>1, <1>3, ReadPlaceIs, MemoryAssumption DEF PlaceOf
<1>5. r \in Requests /\ ~r.write /\ r.address = place.address
  BY <1>4, MemoryAssumption DEF Requests
<1>6. /\ \A n \in Memories : pending[n] \in Seq(Requests)
      /\ \A n \in Memories : pending'[n] = IF n = m THEN Append(pending[m], r) ELSE pending[n]
      /\ Append(pending[m], r) \in Seq(Requests)
  <2> HIDE DEF r, m
  <2>1. pending \in [Memories -> Seq(Requests)]
    BY <1>2 DEF PendingType
  <2>2. pending[m] \in Seq(Requests)
    BY <1>4, <2>1
  <2> QED
    BY <1>1, <1>5, <2>1, <2>2, AppendProperties
<1> HIDE DEF r, m, place
<1>7. PendingType'
  BY <1>1, <1>2, <1>6 DEF PendingType
<1>8. Back'
  <2>1. ASSUME NEW p, p.memory \in Memories, NEW v, Remembers(pending, p, v)
        PROVE  Remembers(pending', p, v)
    <3>1. CASE p.memory = m
      BY <1>4, <1>5, <1>6, <2>1, <3>1, SeesPast DEF Remembers
    <3>2. CASE p.memory # m
      BY <1>6, <2>1, <3>2 DEF Remembers
    <3> QED
      BY <3>1, <3>2
  <2>2. ASSUME NEW j \in 1..Len(nodes), Live(j), ~blocks[nodes[j].block].copied, NEW u \in WordsOf(j)
        PROVE  /\ Decodes(Address(j, u))
               /\ ~Shared(j, u) => \A k \in Cores :
                     Remembers(pending', PlaceOf(k, j, u), nodes[j].members[u])
    <3>1. /\ Decodes(Address(j, u))
          /\ ~Shared(j, u) => \A k \in Cores :
                Remembers(pending, PlaceOf(k, j, u), nodes[j].members[u])
      BY <2>2 DEF Back
    <3>2. \A k \in Cores : PlaceOf(k, j, u).memory \in Memories
      BY <1>2, <3>1, NodeAt, ReadPlaceIs DEF PlaceOf
    <3> QED
      BY <2>1, <3>1, <3>2
  <2> QED
    BY <1>1, <2>2 DEF Back, Live, WordsOf, Address, Shared, Covered, PlaceOf, Remembers
<1>9. ASSUME NEW n \in Memories, NEW k \in 1..Len(pending'[n]), ~pending'[n][k].write
      PROVE  n = place.memory /\ k = Len(pending'[n]) /\ pending'[n][k].address = place.address
  <2>1. n = m
    BY <1>6, <1>9 DEF AllWrites
  <2>2. /\ Len(pending'[m]) = Len(pending[m]) + 1 /\ Len(pending[m]) \in Nat
        /\ \A j \in 1..Len(pending[m]) : pending'[m][j] = pending[m][j]
        /\ pending'[m][Len(pending[m]) + 1] = r
    <3>1. pending[m] \in Seq(Requests) /\ pending'[m] = Append(pending[m], r) /\ r \in Requests
      BY <1>4, <1>5, <1>6
    <3>2. Len(pending[m]) \in Nat
      BY <3>1, LenProperties
    <3>3. /\ Len(Append(pending[m], r)) = Len(pending[m]) + 1
          /\ \A j \in 1..Len(pending[m]) : Append(pending[m], r)[j] = pending[m][j]
          /\ Append(pending[m], r)[Len(pending[m]) + 1] = r
      BY <3>1, AppendProperties
    <3> QED
      BY <3>1, <3>2, <3>3
  <2>3. k = Len(pending[m]) + 1
    <3> SUFFICES ASSUME k # Len(pending[m]) + 1 PROVE FALSE
      OBVIOUS
    <3>1. k \in 1..Len(pending[m])
      BY <1>9, <2>1, <2>2
    <3> QED
      BY <1>4, <1>9, <2>1, <2>2, <3>1 DEF AllWrites
  <2> QED
    BY <1>5, <2>1, <2>2, <2>3 DEF m
<1>10. /\ reading'.node = i /\ reading'.word = w /\ reading'.answer = {} /\ reading'.step = step
       /\ reading' \in Reading /\ reading' # NotReading
  BY <1>1, <1>3 DEF Reading, NotReading
<1>11. Asking' /\ Answered'
  BY <1>1, <1>10 DEF Asking, Answered, Live, WordsOf, Address
<1>12. AllButLast(pending, PlaceOf(Core0, reading.node, reading.word))'
  <2>1. PlaceOf(Core0, reading.node, reading.word)' = place
    BY <1>1, <1>10 DEF PlaceOf, Address, place
  <2> QED
    BY <1>9, <2>1 DEF AllButLast
<1>13. ReadingInv'
  BY <1>10, <1>11, <1>12 DEF ReadingInv, NotReading
<1> QED
  BY <1>7, <1>8, <1>13

LEMMA ServeTypes ==
  ASSUME TypeInv, NEW m \in Memories, Serve(m)
  PROVE  /\ Head(pending[m]) \in Requests /\ pending[m] \in Seq(Requests) /\ pending[m] # <<>>
         /\ \A k \in Memories : pending'[k] = IF k = m THEN Tail(pending[m]) ELSE pending[k]
         /\ \A k \in Memories : cells'[k] = IF k = m THEN Stored(cells[m], Head(pending[m]))
                                            ELSE cells[k]
         /\ PendingType' /\ CellsType'
         /\ nodes' = nodes /\ blocks' = blocks /\ free' = free
         /\ calls' = calls /\ halted' = halted
<1>1. /\ pending[m] # <<>> /\ pending' = [pending EXCEPT ![m] = Tail(@)]
      /\ nodes' = nodes /\ blocks' = blocks /\ free' = free /\ calls' = calls /\ halted' = halted
  BY DEF Serve
<1>2. pending \in [Memories -> Seq(Requests)] /\ pending[m] \in Seq(Requests)
  BY DEF TypeInv, PendingType
<1>3. Head(pending[m]) \in Requests /\ Tail(pending[m]) \in Seq(Requests)
  BY <1>1, <1>2, HeadTailProperties
<1>4. PendingType'
  BY <1>1, <1>2, <1>3 DEF PendingType
<1>5. CellsType
  BY DEF TypeInv
<1>6. cells' = [cells EXCEPT ![m] = Stored(cells[m], Head(pending[m]))]
  <2>1. CASE Head(pending[m]).write
    BY <2>1 DEF Serve, tlm_write, Stored
  <2>2. CASE ~Head(pending[m]).write
    <3>1. cells' = cells
      BY <2>2 DEF Serve
    <3>2. cells = [cells EXCEPT ![m] = cells[m]]
      BY <1>5 DEF CellsType
    <3> QED
      BY <2>2, <3>1, <3>2 DEF Stored
  <2> QED
    BY <2>1, <2>2
<1>7. \A a \in DOMAIN Stored(cells[m], Head(pending[m])) :
         Stored(cells[m], Head(pending[m]))[a] \in Value
  BY <1>3, <1>5 DEF CellsType, Stored, Requests
<1>8. \A k \in Memories : cells'[k] = IF k = m THEN Stored(cells[m], Head(pending[m])) ELSE cells[k]
  BY <1>5, <1>6 DEF CellsType
<1>9. CellsType'
  <2>1. cells' = [k \in Memories |-> cells'[k]]
    BY <1>5, <1>6 DEF CellsType
  <2> QED
    BY <1>5, <1>7, <1>8, <2>1 DEF CellsType
<1>10. \A k \in Memories : pending'[k] = IF k = m THEN Tail(pending[m]) ELSE pending[k]
  BY <1>1, <1>2
<1> QED
  BY <1>1, <1>2, <1>3, <1>4, <1>8, <1>9, <1>10

\* What is served reaches the words.
LEMMA ServeBack ==
  ASSUME Safe, Back, NEW m \in Memories, Serve(m)
  PROVE  Back'
<1>1. NodesType /\ PendingType /\ TypeInv
  BY DEF Safe, TypeInv
<1>2. /\ pending[m] # <<>> /\ nodes' = nodes /\ blocks' = blocks
      /\ \A k \in Memories : pending'[k] = IF k = m THEN Tail(pending[m]) ELSE pending[k]
      /\ \A k \in Memories : cells'[k] = IF k = m THEN Stored(cells[m], Head(pending[m]))
                                         ELSE cells[k]
  BY <1>1, ServeTypes
<1>3. ASSUME NEW p, p.memory \in Memories, NEW v, Remembers(pending, p, v)
      PROVE  Sees(pending'[p.memory], cells'[p.memory], p.address, v)
  <2>1. Sees(pending[p.memory], cells[p.memory], p.address, v)
    BY <1>3 DEF Remembers
  <2>2. CASE p.memory = m
    <3>1. pending[m] \in Seq(Requests)
      BY <1>1 DEF PendingType
    <3> QED
      BY <1>2, <2>1, <2>2, <3>1, SeesServed
  <2>3. CASE p.memory # m
    BY <1>2, <1>3, <2>1, <2>3
  <2> QED
    BY <2>2, <2>3
<1>4. ASSUME NEW j \in 1..Len(nodes), Live(j), ~blocks[nodes[j].block].copied, NEW u \in WordsOf(j)
      PROVE  /\ Decodes(Address(j, u))
             /\ ~Shared(j, u) => \A k \in Cores :
                   Sees(pending'[PlaceOf(k, j, u).memory], cells'[PlaceOf(k, j, u).memory],
                        PlaceOf(k, j, u).address, nodes[j].members[u])
  <2>1. /\ Decodes(Address(j, u))
        /\ ~Shared(j, u) => \A k \in Cores :
              Remembers(pending, PlaceOf(k, j, u), nodes[j].members[u])
    BY <1>4 DEF Back
  <2>2. \A k \in Cores : PlaceOf(k, j, u).memory \in Memories
    BY <1>1, <2>1, NodeAt, ReadPlaceIs DEF PlaceOf
  <2> QED
    BY <1>3, <2>1, <2>2
<1> QED
  BY <1>2, <1>4 DEF Back, Live, WordsOf, Address, Shared, Covered, PlaceOf, Remembers

\* What is read is the member.
LEMMA ServeReading ==
  ASSUME Safe, Back, ReadingInv, NEW m \in Memories, Serve(m)
  PROVE  ReadingInv'
<1> DEFINE q == pending[m]
           r == Head(q)
           place == PlaceOf(Core0, reading.node, reading.word)
<1>1. /\ r \in Requests /\ q \in Seq(Requests) /\ q # <<>> /\ nodes' = nodes /\ blocks' = blocks
      /\ \A k \in Memories : pending'[k] = IF k = m THEN Tail(q) ELSE pending[k]
  BY ServeTypes DEF Safe
<1>2. NodesType /\ CellsType
  BY DEF Safe, TypeInv
<1>3. /\ Len(q) \in Nat \ {0} /\ r = q[1] /\ Len(Tail(q)) = Len(q) - 1
      /\ \A n \in 1..Len(Tail(q)) : Tail(q)[n] = q[n + 1]
  BY <1>1, HeadTailProperties, EmptySeq
<1>4. /\ reading \in Reading
      /\ reading = NotReading \/ reading.answer # {} => AllWrites(pending)
      /\ reading # NotReading => Asking /\ Answered /\ AllButLast(pending, place)
  BY DEF ReadingInv
<1>5. AllWrites(pending) => AllWrites(pending')
  <2> SUFFICES ASSUME AllWrites(pending), NEW k \in Memories, NEW n \in 1..Len(pending'[k])
               PROVE  pending'[k][n].write
    BY DEF AllWrites
  <2>1. CASE k = m
    <3>1. pending'[k] = Tail(q)
      BY <1>1, <2>1
    <3>2. \A j \in 1..Len(q) : q[j].write
      BY DEF AllWrites
    <3> HIDE DEF q, r
    <3>3. n \in 1..Len(Tail(q)) /\ n + 1 \in 1..Len(q)
      BY <1>3, <3>1
    <3> QED
      BY <1>3, <3>1, <3>2, <3>3
  <2>2. CASE k # m
    BY <1>1, <2>2 DEF AllWrites
  <2> QED
    BY <2>1, <2>2
<1>6. CASE r.write
  <2>1. reading' = reading
    BY <1>6 DEF Serve
  <2>2. AllButLast(pending, place) => AllButLast(pending', place)
    <3> SUFFICES ASSUME AllButLast(pending, place),
                        NEW k \in Memories, NEW n \in 1..Len(pending'[k]), ~pending'[k][n].write
                 PROVE  k = place.memory /\ n = Len(pending'[k]) /\ pending'[k][n].address = place.address
      BY DEF AllButLast
    <3>1. CASE k = m
      <4>1. pending'[k] = Tail(q)
        BY <1>1, <3>1
      <4>2. \A j \in 1..Len(q) : ~q[j].write =>
               m = place.memory /\ j = Len(q) /\ q[j].address = place.address
        BY DEF AllButLast
      <4> HIDE DEF q, r, place
      <4>3. n \in 1..Len(Tail(q)) /\ n + 1 \in 1..Len(q) /\ pending'[k][n] = q[n + 1]
        BY <1>3, <4>1
      <4>4. m = place.memory /\ n + 1 = Len(q) /\ q[n + 1].address = place.address
        BY <4>2, <4>3
      <4>5. n = Len(Tail(q))
        <5>1. Len(q) \in Nat /\ Len(Tail(q)) = Len(q) - 1
          BY <1>3
        <5>2. n \in Nat /\ n + 1 = Len(q)
          BY <4>3, <4>4, <5>1
        <5> QED
          BY <5>1, <5>2
      <4> QED
        BY <3>1, <4>1, <4>3, <4>4, <4>5
    <3>2. CASE k # m
      BY <1>1, <3>2 DEF AllButLast
    <3> QED
      BY <3>1, <3>2
  <2>3. place' = place /\ (Asking' <=> Asking) /\ (Answered' <=> Answered)
    BY <1>1, <2>1 DEF PlaceOf, Asking, Answered, Live, WordsOf, Address, Own, Shared, Covered
  <2> HIDE DEF place
  <2>4. AllButLast(pending, place)' <=> AllButLast(pending', place)
    BY <2>3 DEF AllButLast
  <2>5. AllWrites(pending)' <=> AllWrites(pending')
    BY DEF AllWrites
  <2> USE DEF place
  <2> QED
    BY <1>4, <1>5, <2>1, <2>2, <2>3, <2>4, <2>5 DEF ReadingInv, NotReading
<1>7. CASE ~r.write
  <2>1. 1 \in 1..Len(q) /\ ~q[1].write
    BY <1>3, <1>7
  <2>2. reading # NotReading /\ reading.answer = {} /\ Asking /\ AllButLast(pending, place)
    BY <1>4, <2>1 DEF AllWrites
  <2>3. m = place.memory /\ Len(q) = 1 /\ r.address = place.address
    <3>1. \A j \in 1..Len(q) : ~q[j].write =>
             m = place.memory /\ j = Len(q) /\ q[j].address = place.address
      BY <2>2 DEF AllButLast
    <3> HIDE DEF q, place
    <3> QED
      BY <1>3, <2>1, <3>1
  <2>4. reading' = [reading EXCEPT !.answer = {tlm_read(m, r.address)}]
    BY <1>7 DEF Serve
  <2>5. tlm_read(m, r.address) \in Value \cup {Untouched}
    BY <1>2 DEF tlm_read, CellsType
  <2>6. /\ reading' \in Reading /\ reading'.node = reading.node /\ reading'.word = reading.word
        /\ reading'.step = reading.step /\ reading'.answer = {tlm_read(m, r.address)}
    BY <1>4, <2>4, <2>5 DEF Reading
  <2>7. ASSUME NEW k \in Memories, NEW n \in 1..Len(pending'[k])
        PROVE  pending'[k][n].write
    <3>1. CASE k = m
      <4>1. pending'[k] = Tail(q) /\ Len(Tail(q)) = 0
        BY <1>1, <1>3, <2>3, <3>1
      <4>2. Len(pending'[k]) = 0
        BY <4>1
      <4> QED
        BY <4>2
    <3>2. CASE k # m
      BY <1>1, <2>2, <2>3, <3>2 DEF AllButLast
    <3> QED
      BY <3>1, <3>2
  <2> DEFINE i == reading.node
             w == reading.word
  <2>8. /\ i \in 1..Len(nodes) /\ Live(i) /\ w \in WordsOf(i)
        /\ Asking' <=> Asking
        /\ Own(reading.node)' = Own(i)
    BY <1>1, <2>2, <2>6 DEF Asking, Live, WordsOf, Address, Own, Shared, Covered
  <2>9. w \in Own(i) => tlm_read(m, r.address) = nodes[i].members[w]
    <3> SUFFICES ASSUME w \in Own(i) PROVE tlm_read(m, r.address) = nodes[i].members[w]
      OBVIOUS
    <3>1. Remembers(pending, place, nodes[i].members[w])
      BY <2>8, MemoryAssumption DEF Back, Own
    <3>2. Sees(q, cells[m], place.address, nodes[i].members[w])
      BY <2>3, <3>1 DEF Remembers
    <3>3. \A n \in 1..Len(q) : ~Hit(q, n, place.address)
      BY <1>3, <2>1, <2>3 DEF Hit
    <3> HIDE DEF place, q, r
    <3>4. nodes[i].members[w] = IF place.address \in DOMAIN cells[m] THEN cells[m][place.address]
                                ELSE Untouched
      BY <3>2, <3>3 DEF Sees
    <3> QED
      BY <2>3, <3>4 DEF tlm_read
  <2>10. Answered'
    BY <1>1, <2>6, <2>8, <2>9 DEF Answered
  <2>11. AllButLast(pending, PlaceOf(Core0, reading.node, reading.word))' /\ AllWrites(pending)'
    BY <2>7 DEF AllButLast, AllWrites
  <2> QED
    BY <2>2, <2>6, <2>8, <2>10, <2>11 DEF ReadingInv
<1> QED
  BY <1>6, <1>7

-----------------------------------------------------------------------------
(* Every step                                                              *)

LEMMA GetterWords ==
  ASSUME NodesType, NEW i \in 1..Len(nodes), NEW w \in Getters(nodes[i].kind)
  PROVE  w \in WordsOf(i)
<1>1. WordsOf(i) = 1..WordsIn(nodes[i].kind) /\ nodes[i].kind \in Kinds
  BY NodeAt
<1>2. nodes[i].kind \in {"UnibitNode", "HashTableEntry", "MultibitNode", "LCNode"}
  BY <1>1, MemoryAssumption
<1> QED
  BY <1>1, <1>2 DEF Getters, UnibitGetters, HashEntryGetters, MultibitGetters, LCGetters, WordsIn

LEMMA CopyWords ==
  /\ Len(CopyOrder) = 5
  /\ \A n \in 1..5 : CopyOrder[n] \in 1..5
  BY DEF CopyOrder

LEMMA AllocatePayloadTakes ==
  ASSUME FreeInv, AllocatePayload
  PROVE  FreeInv' /\ free'["TRIE"] = free["TRIE"]
<1>1. Request("Payload", 0 * Word)
  <2>1. 0 * Word = 0
    BY MemoryAssumption
  <2> QED
    BY <2>1 DEF AllocatePayload
<1>2. "Payload" \in Pieces /\ "TRIE" \in Pieces /\ 0 \in Nat
  BY DEF Pieces
<1> QED
  BY <1>1, <1>2, RequestTakes

\* What leaves the nodes and the memories alone
Quiet == /\ nodes' = nodes /\ blocks' = blocks /\ pending' = pending /\ cells' = cells
         /\ free'["TRIE"] = free["TRIE"]

LEMMA QuietKeeps ==
  ASSUME Safe, Back, Quiet, FreeInv', calls' \in 0..CallCount,
         halted' \in {"no", "no room", "out of range"}
  PROVE  Safe' /\ Back'
<1>1. NodesType' /\ CellsType' /\ PendingType' /\ HeldInv' /\ ZeroInv'
  BY DEF Safe, TypeInv, Quiet, NodesType, CellsType, PendingType, HeldInv, Kept, ZeroInv
<1>2. PlacedInv'
  BY PlacedKept DEF Safe, Quiet
<1>3. Back'
  BY DEF Quiet, Back, Live, WordsOf, Address, Shared, Covered, PlaceOf, Remembers
<1>4. TypeInv'
  BY <1>1 DEF TypeInv
<1> QED
  BY <1>1, <1>2, <1>3, <1>4 DEF Safe

LEMMA ReadingStays ==
  ASSUME ReadingInv, Quiet, reading' = reading
  PROVE  ReadingInv'
  BY DEF Quiet, ReadingInv, NotReading, Asking, Answered, AllButLast, AllWrites,
         Live, WordsOf, Address, Own, Shared, Covered, PlaceOf

\* Only the agent that does not read changes nodes.
LEMMA NotReadingStays ==
  ASSUME AllWrites(pending), pending' = pending, reading' = NotReading
  PROVE  ReadingInv'
  BY DEF ReadingInv, NotReading, AllWrites, Reading

LEMMA FreeStays ==
  ASSUME FreeInv, free' = free
  PROVE  FreeInv'
  BY DEF FreeInv, Rest

LEMMA InvInit == Init => Inv
<1> SUFFICES ASSUME Init PROVE Inv
  OBVIOUS
<1>1. \A kind \in Pieces : Rest(<<Region[kind]>>, kind, Region[kind].first)
  <2>1. \A kind \in Pieces : Region[kind] \in [first : Nat, last : Nat]
    BY MemoryAssumption DEF Pieces
  <2> QED
    BY <2>1 DEF Rest
<1>2. /\ free = [kind \in Pieces |-> free[kind]]
      /\ \A kind \in Pieces : free[kind] = <<Region[kind]>>
  BY DEF Init, Pieces
<1>3. FreeInv
  <2>1. \A kind \in Pieces : Region[kind].first \in Nat
    BY MemoryAssumption DEF Pieces
  <2> QED
    BY <1>1, <1>2, <2>1 DEF FreeInv
<1>4. nodes = <<>> /\ blocks = <<>> /\ Len(nodes) = 0 /\ Len(blocks) = 0
  BY DEF Init
<1>5. NodesType /\ HeldInv /\ ZeroInv
  BY <1>4 DEF NodesType, HeldInv, ZeroInv
<1>6. CellsType /\ PendingType
  BY DEF Init, CellsType, PendingType
<1>7. TypeInv
  BY <1>3, <1>5, <1>6, MemoryAssumption DEF Init, TypeInv
<1>8. PlacedInv
  BY <1>4 DEF PlacedInv, Allocations
<1>9. Back
  BY <1>4 DEF Back
<1>10. ReadingInv
  BY DEF Init, ReadingInv, NotReading, Reading, AllWrites
<1> QED
  BY <1>5, <1>7, <1>8, <1>9, <1>10 DEF Inv, Safe

LEMMA InvNext == Inv /\ [Next]_vars => Inv'
<1> SUFFICES ASSUME Inv, [Next]_vars PROVE Inv'
  OBVIOUS
<1>1. /\ Safe /\ Back /\ ReadingInv
      /\ TypeInv /\ PlacedInv /\ HeldInv /\ ZeroInv
      /\ FreeInv /\ NodesType /\ CellsType /\ PendingType
      /\ calls \in 0..CallCount /\ halted \in {"no", "no room", "out of range"}
  BY DEF Inv, Safe, TypeInv
<1>2. reading = NotReading => AllWrites(pending)
  BY <1>1 DEF ReadingInv
<1>3. ASSUME Quiet, FreeInv', calls' \in 0..CallCount,
             halted' \in {"no", "no room", "out of range"}, reading' = reading
      PROVE  Inv'
  BY <1>1, <1>3, QuietKeeps, ReadingStays DEF Inv
<1>4. ASSUME NEW why \in {"no room", "out of range"}, Halt(why)
      PROVE  Inv'
  <2>1. Quiet /\ free' = free /\ calls' = calls /\ halted' = why /\ reading' = reading
    BY <1>4 DEF Halt, Quiet
  <2>2. FreeInv'
    BY <1>1, <2>1, FreeStays
  <2> QED
    BY <1>1, <1>3, <2>1, <2>2
<1>5. ASSUME Call
      PROVE  /\ calls' \in 0..CallCount /\ reading = NotReading
             /\ \A j \in 1..Len(nodes) : nodes[j].state # "allocated"
  <2>1. calls < CallCount /\ calls' = calls + 1
    BY <1>5 DEF Call
  <2>2. CallCount \in Nat /\ calls \in 0..CallCount
    BY <1>1, MemoryAssumption
  <2> QED
    BY <1>5, <2>1, <2>2 DEF Call, Idle
<1>6. ASSUME NEW i \in 1..Len(nodes), NEW node, NEW writes, Update(i, node, writes),
             Agrees(i, node, writes), calls' \in 0..CallCount, reading = NotReading
      PROVE  Inv'
  <2>1. NodesType' /\ PlacedInv' /\ HeldInv' /\ ZeroInv' /\ PendingType'
    BY <1>1, <1>6, UpdateKeeps
  <2>2. free' = free /\ cells' = cells /\ halted' = halted
    BY <1>6 DEF Update
  <2>3. FreeInv' /\ CellsType'
    BY <1>1, <2>2, FreeStays DEF CellsType
  <2>4. TypeInv'
    BY <1>1, <1>6, <2>1, <2>2, <2>3 DEF TypeInv
  <2>5. Back' /\ ReadingInv'
    BY <1>1, <1>6, UpdateBack, UpdateReading
  <2> QED
    BY <2>1, <2>4, <2>5 DEF Inv, Safe
<1>7. ASSUME NEW i \in 1..Len(nodes), NEW w \in WordsOf(i), NEW step \in 0..5, Live(i),
             \A j \in 1..Len(nodes) : nodes[j].state # "allocated", AllWrites(pending),
             step # 0 => nodes[i].kind = "HashTableEntry", Read(i, w, step),
             calls' \in 0..CallCount
      PROVE  Inv'
  <2>1. PendingType' /\ Back' /\ ReadingInv'
    BY <1>1, <1>7, ReadSends
  <2>2. /\ nodes' = nodes /\ blocks' = blocks /\ free' = free /\ cells' = cells /\ halted' = halted
    BY <1>7 DEF Read
  <2>3. NodesType' /\ CellsType' /\ HeldInv' /\ ZeroInv'
    BY <1>1, <2>2 DEF NodesType, CellsType, HeldInv, Kept, ZeroInv
  <2>4. FreeInv' /\ PlacedInv'
    BY <1>1, <2>2, FreeStays, PlacedKept
  <2>5. TypeInv'
    BY <1>1, <1>7, <2>1, <2>2, <2>3, <2>4 DEF TypeInv
  <2> QED
    BY <2>1, <2>3, <2>4, <2>5 DEF Inv, Safe
<1>8. ASSUME NEW kind \in Kinds, AllocateNode(kind)
      PROVE  Inv'
  <2>1. CASE halted' = halted
    <3>1. FreeInv' /\ NodesType' /\ PlacedInv' /\ HeldInv' /\ ZeroInv' /\ Joined
      BY <1>1, <1>8, <2>1, AllocateNodeStep
    <3>2. /\ pending' = pending /\ cells' = cells /\ calls' = calls /\ reading' = reading
          /\ reading = NotReading
      BY <1>8 DEF AllocateNode, Exhausted, Halt, Idle
    <3>3. TypeInv'
      BY <1>1, <2>1, <3>1, <3>2 DEF TypeInv, CellsType, PendingType
    <3>4. Back' /\ ReadingInv'
      BY <1>1, <1>2, <3>1, <3>2, JoinedSeen, NotReadingStays
    <3> QED
      BY <3>1, <3>3, <3>4 DEF Inv, Safe
  <2>2. CASE halted' # halted
    <3>1. Halt("no room")
      BY <1>8, <2>2 DEF AllocateNode, Exhausted
    <3> QED
      BY <1>4, <3>1
  <2> QED
    BY <2>1, <2>2
<1>9. ASSUME NEW v \in Value, Construct(v)
      PROVE  Inv'
  <2>1. PICK i \in 1..Len(nodes) : \E node, writes : Update(i, node, writes) /\ Agrees(i, node, writes)
    BY <1>1, <1>9, ConstructUpdates
  <2>2. calls' = calls /\ \E j \in 1..Len(nodes) : nodes[j].state = "allocated"
    BY <1>9 DEF Construct
  <2>3. reading = NotReading
    BY <1>1, <2>2 DEF ReadingInv, Asking
  <2> QED
    BY <1>1, <1>6, <2>1, <2>2, <2>3
<1>10. ASSUME NEW i \in 1..Len(nodes), NEW v \in Value, NEW setter \in Setters(nodes[i].kind),
              Setter(i, setter, v)
       PROVE  Inv'
  <2>1. \E node, writes : Update(i, node, writes) /\ Agrees(i, node, writes)
    BY <1>1, <1>10, SetterUpdates
  <2>2. Call
    BY <1>10 DEF Setter
  <2> QED
    BY <1>5, <1>6, <2>1, <2>2
<1>11. ASSUME NEW i \in 1..Len(nodes), NEW w \in Getters(nodes[i].kind), Getter(i, w)
       PROVE  Inv'
  <2>1. w \in WordsOf(i) /\ Call /\ Live(i) /\ Read(i, w, 0)
    BY <1>1, <1>11, GetterWords DEF Getter
  <2> QED
    BY <1>2, <1>5, <1>7, <2>1
<1>12. CASE Got
  <2>1. /\ Quiet /\ free' = free /\ calls' = calls /\ halted' = halted
        /\ reading.answer # {} /\ reading' = NotReading
    BY <1>12 DEF Got, Quiet
  <2>2. AllWrites(pending)
    BY <1>1, <2>1 DEF ReadingInv
  <2>3. Safe' /\ Back'
    BY <1>1, <2>1, FreeStays, QuietKeeps
  <2>4. ReadingInv'
    BY <2>1, <2>2, NotReadingStays DEF Quiet
  <2> QED
    BY <2>3, <2>4 DEF Inv
<1>13. ASSUME NEW to \in 1..Len(nodes), NEW from \in 1..Len(nodes), Assign(to, from)
       PROVE  Inv'
  <2>1. /\ free' = free /\ blocks' = blocks /\ calls' = calls /\ pending' = pending /\ cells' = cells
        /\ halted' = halted /\ reading = NotReading /\ reading' = NotReading
    BY <1>13 DEF Assign, Idle
  <2>2. NodesType' /\ HeldInv' /\ ZeroInv'
    BY <1>1, <1>13, AssignStep
  <2>3. PlacedInv' /\ FreeInv'
    BY <1>1, <2>1, PlacedKept, FreeStays
  <2>4. TypeInv'
    BY <1>1, <2>1, <2>2, <2>3 DEF TypeInv, CellsType, PendingType
  <2>5. Back' /\ ReadingInv'
    BY <1>1, <1>2, <1>13, <2>1, AssignSeen, NotReadingStays
  <2> QED
    BY <2>2, <2>3, <2>4, <2>5 DEF Inv, Safe
<1>14. ASSUME NEW from \in 1..Len(nodes), CopyEntry(from)
       PROVE  Inv'
  <2>1. /\ Live(from) /\ nodes[from].kind = "HashTableEntry" /\ Read(from, CopyOrder[1], 1)
        /\ calls' = calls /\ reading = NotReading
        /\ \A j \in 1..Len(nodes) : nodes[j].state # "allocated"
    BY <1>14 DEF CopyEntry, Idle
  <2>2. WordsOf(from) = 1..5
    BY <1>1, <2>1, NodeAt DEF WordsIn
  <2>3. CopyOrder[1] \in WordsOf(from)
    BY <2>2, CopyWords
  <2>4. 1 \in 0..5
    OBVIOUS
  <2> QED
    BY <1>1, <1>2, <1>7, <2>1, <2>3, <2>4
<1>15. CASE CopyNext
  <2> DEFINE i == reading.node
             step == reading.step + 1
  <2>1. reading.answer # {} /\ reading.step \in 1..4 /\ Read(i, CopyOrder[step], step) /\ calls' = calls
    BY <1>15, CopyWords DEF CopyNext
  <2>2. reading # NotReading /\ AllWrites(pending) /\ Asking
    <3>1. reading # NotReading
      BY <2>1 DEF NotReading
    <3> QED
      BY <1>1, <2>1, <3>1 DEF ReadingInv
  <2>3. /\ i \in 1..Len(nodes) /\ Live(i) /\ nodes[i].kind = "HashTableEntry"
        /\ \A j \in 1..Len(nodes) : nodes[j].state # "allocated"
    BY <2>1, <2>2 DEF Asking
  <2>4. step \in 1..5 /\ step \in 0..5
    BY <2>1
  <2>5. CopyOrder[step] \in WordsOf(i)
    <3>1. WordsOf(i) = 1..5
      BY <1>1, <2>3, NodeAt DEF WordsIn
    <3> QED
      BY <2>4, <3>1, CopyWords
  <2> HIDE DEF i, step
  <2> QED
    BY <1>1, <1>7, <2>1, <2>2, <2>3, <2>4, <2>5
<1>16. ASSUME NEW address \in Indeterminate, CopyMade(address)
       PROVE  Inv'
  <2>1. /\ free' = free /\ calls' = calls /\ pending' = pending /\ cells' = cells
        /\ halted' = halted /\ reading' = NotReading /\ reading.answer # {} /\ reading.step = 5
    BY <1>16, CopyWords DEF CopyMade
  <2>2. reading # NotReading /\ AllWrites(pending) /\ Asking
    <3>1. reading # NotReading
      BY <2>1 DEF NotReading
    <3> QED
      BY <1>1, <2>1, <3>1 DEF ReadingInv
  <2>3. reading.node \in 1..Len(nodes) /\ nodes[reading.node].kind = "HashTableEntry"
    BY <2>1, <2>2 DEF Asking
  <2>4. NodesType' /\ PlacedInv' /\ HeldInv' /\ ZeroInv' /\ Joined
    BY <1>1, <1>16, <2>3, CopyMadeStep
  <2>5. TypeInv'
    BY <1>1, <2>1, <2>4, FreeStays DEF TypeInv, CellsType, PendingType
  <2>6. Back' /\ ReadingInv'
    BY <1>1, <2>1, <2>2, <2>4, JoinedSeen, NotReadingStays
  <2> QED
    BY <2>4, <2>5, <2>6 DEF Inv, Safe
<1>17. CASE OutOfRange
  BY <1>4, <1>17 DEF OutOfRange
<1>18. CASE AllocatePayload
  <2>1. FreeInv' /\ free'["TRIE"] = free["TRIE"]
    BY <1>1, <1>18, AllocatePayloadTakes
  <2>2. Quiet /\ calls' = calls /\ halted' = halted /\ reading' = reading
    BY <1>18, <2>1 DEF AllocatePayload, Quiet
  <2> QED
    BY <1>1, <1>3, <2>1, <2>2
<1>19. ASSUME NEW m \in Memories, Serve(m)
       PROVE  Inv'
  <2>1. /\ PendingType' /\ CellsType'
        /\ nodes' = nodes /\ blocks' = blocks /\ free' = free /\ calls' = calls /\ halted' = halted
    BY <1>1, <1>19, ServeTypes
  <2>2. NodesType' /\ HeldInv' /\ ZeroInv'
    BY <1>1, <2>1 DEF NodesType, HeldInv, Kept, ZeroInv
  <2>3. FreeInv' /\ PlacedInv'
    BY <1>1, <2>1, FreeStays, PlacedKept
  <2>4. TypeInv'
    BY <1>1, <2>1, <2>2, <2>3 DEF TypeInv
  <2>5. Back' /\ ReadingInv'
    BY <1>1, <1>19, ServeBack, ServeReading
  <2> QED
    BY <2>2, <2>3, <2>4, <2>5 DEF Inv, Safe
<1>20. CASE UNCHANGED vars
  <2>1. /\ Quiet /\ free' = free /\ calls' = calls /\ halted' = halted /\ reading' = reading
    BY <1>20 DEF vars, Quiet
  <2> QED
    BY <1>1, <1>3, <2>1, FreeStays
<1> QED
  BY <1>8, <1>9, <1>10, <1>11, <1>12, <1>13, <1>14, <1>15, <1>16, <1>17, <1>18, <1>19, <1>20 DEF Next

-----------------------------------------------------------------------------
(* What it comes to                                                        *)

\* The types that the runs check
LEMMA InvTypes == Inv => TypeOK
<1> SUFFICES ASSUME Inv PROVE TypeOK
  OBVIOUS
<1>1. /\ FreeInv /\ NodesType /\ CellsType /\ calls \in 0..CallCount
      /\ halted \in {"no", "no room", "out of range"}
  BY DEF Inv, Safe, TypeInv
<1>2. ASSUME NEW kind \in DOMAIN free, NEW i \in 1..Len(free[kind])
      PROVE  free[kind][i] \in [first : Nat, last : Nat]
  <2>1. DOMAIN free = Pieces
    BY <1>1 DEF FreeInv
  <2>2. kind \in Pieces
    BY <2>1
  <2>3. free[kind] # <<>>
    <3>1. Len(<<>>) = 0
      BY EmptySeq
    <3> QED
      BY <3>1
  <2>4. PICK from \in Nat : Rest(free[kind], kind, from)
    BY <1>1, <2>2, <2>3 DEF FreeInv
  <2>5. Region[kind].last \in Nat
    BY <2>2, MemoryAssumption DEF Pieces
  <2>6. free[kind] = <<[first |-> from, last |-> Region[kind].last]>>
    BY <2>4 DEF Rest
  <2> QED
    BY <2>5, <2>6
<1>3. \A i \in 1..Len(nodes) :
         /\ nodes[i].kind \in Kinds /\ nodes[i].tlm_addr \in Int
         /\ \A w \in WordsOf(i) : nodes[i].members[w] \in Value
         /\ nodes[i].state \in {"allocated", "live", "gone"}
         /\ nodes[i].block \in 1..Len(blocks)
  BY <1>1, NodeAt
<1>4. Len(blocks) = Len(nodes)
  BY <1>1 DEF NodesType
<1> QED
  BY <1>1, <1>2, <1>3, <1>4 DEF TypeOK, CellsType

LEMMA RangesApart ==
  ASSUME NEW a \in Int, NEW b \in Int, NEW m \in 3..5, NEW n \in 3..5, Apart(a, m, b, n)
  PROVE  (a..(a + m - 1)) \cap (b..(b + n - 1)) = {}
<1> SUFFICES ASSUME NEW x \in a..(a + m - 1), x \in b..(b + n - 1) PROVE FALSE
  OBVIOUS
<1>1. x \in Int /\ a =< x /\ x < a + m /\ b =< x /\ x < b + n
  OBVIOUS
<1>2. CASE a + m =< b
  BY <1>1, <1>2
<1>3. CASE b + n =< a
  BY <1>1, <1>3
<1> QED
  BY <1>2, <1>3 DEF Apart

LEMMA InvApart == Inv => BlocksApart
<1> SUFFICES ASSUME Inv PROVE BlocksApart
  OBVIOUS
<1>1. NodesType /\ PlacedInv /\ FreeInv
  BY DEF Inv, Safe, TypeInv
<1>2. \A b \in Allocations :
         /\ b \in 1..Len(blocks) /\ blocks[b].first \in Nat /\ blocks[b].words \in 3..5
         /\ blocks[b].tlm_addr \in Int
  BY <1>1, BlockAt DEF Allocations
<1>3. /\ "TRIE" \in Pieces /\ Region["TRIE"].first \in Nat /\ Region["TRIE"].last \in Nat
  BY MemoryAssumption DEF Pieces
<1>4. ASSUME NEW b \in Allocations
      PROVE  Block(b) \subseteq Region["TRIE"].first..Region["TRIE"].last
  <2>1. /\ Region["TRIE"].first =< blocks[b].first
        /\ blocks[b].first + blocks[b].words =< Region["TRIE"].last + 1
    BY <1>1 DEF PlacedInv
  <2>2. blocks[b].first \in Nat /\ blocks[b].words \in 3..5
    BY <1>2
  <2> QED
    BY <1>3, <2>1, <2>2 DEF Block
<1>5. ASSUME NEW b \in Allocations, NEW c \in Allocations, b # c
      PROVE  /\ Block(b) \cap Block(c) = {}
             /\ Decode(blocks[b].first).name = Decode(blocks[c].first).name
                   => Covered(b) \cap Covered(c) = {}
  <2>1. Apart(blocks[b].first, blocks[b].words, blocks[c].first, blocks[c].words)
    BY <1>1, <1>5 DEF PlacedInv
  <2>2. /\ blocks[b].first \in Nat /\ blocks[b].words \in 3..5 /\ blocks[b].tlm_addr \in Int
        /\ blocks[c].first \in Nat /\ blocks[c].words \in 3..5 /\ blocks[c].tlm_addr \in Int
    BY <1>2
  <2>3. Block(b) \cap Block(c) = {}
    <3> DEFINE i == blocks[b].first
               m == blocks[b].words
               j == blocks[c].first
               n == blocks[c].words
    <3>1. i \in Int /\ j \in Int /\ m \in 3..5 /\ n \in 3..5 /\ Apart(i, m, j, n)
      BY <2>1, <2>2
    <3> HIDE DEF i, j, m, n
    <3>2. (i..(i + m - 1)) \cap (j..(j + n - 1)) = {}
      BY <3>1, RangesApart
    <3> QED
      BY <3>2 DEF Block, i, j, m, n
  <2>4. ASSUME Decode(blocks[b].first).name = Decode(blocks[c].first).name
        PROVE  Covered(b) \cap Covered(c) = {}
    <3>1. /\ Decodes(blocks[b].first) /\ blocks[b].tlm_addr = Decode(blocks[b].first).address
          /\ Decodes(blocks[c].first) /\ blocks[c].tlm_addr = Decode(blocks[c].first).address
      BY <1>1 DEF PlacedInv
    <3>2. blocks[b].tlm_addr - blocks[c].tlm_addr = blocks[b].first - blocks[c].first
      <4>1. blocks[b].first \in Int /\ blocks[c].first \in Int
        BY <2>2
      <4> QED
        BY <2>4, <3>1, <4>1, DecodedOnce
    <3>3. Apart(blocks[b].tlm_addr, blocks[b].words, blocks[c].tlm_addr, blocks[c].words)
      BY <2>1, <2>2, <3>2 DEF Apart
    <3> QED
      BY <2>2, <3>3, RangesApart DEF Covered
  <2> QED
    BY <2>3, <2>4
<1>6. ASSUME NEW b \in Allocations, NEW r \in 1..Len(free["TRIE"])
      PROVE  Block(b) \cap (free["TRIE"][r].first..free["TRIE"][r].last) = {}
  <2>1. free["TRIE"] # <<>>
    <3>1. Len(<<>>) = 0
      BY EmptySeq
    <3> QED
      BY <3>1
  <2>2. PICK from \in Nat : Rest(free["TRIE"], "TRIE", from)
    BY <1>1, <1>3, <2>1 DEF FreeInv
  <2>3. blocks[b].first + blocks[b].words =< from
    BY <1>1, <2>2 DEF PlacedInv, Below
  <2>4. free["TRIE"][r] = [first |-> from, last |-> Region["TRIE"].last]
    BY <2>2 DEF Rest
  <2>5. free["TRIE"][r].first = from /\ free["TRIE"][r].last = Region["TRIE"].last
    BY <2>4
  <2>6. blocks[b].first \in Nat /\ blocks[b].words \in 3..5
    BY <1>2
  <2> DEFINE i == blocks[b].first
             n == blocks[b].words
  <2>7. i \in Nat /\ n \in 3..5 /\ i + n =< from
    BY <2>3, <2>6
  <2> HIDE DEF i, n
  <2>8. (i..(i + n - 1)) \cap (from..Region["TRIE"].last) = {}
    <3> SUFFICES ASSUME NEW x \in i..(i + n - 1), x \in from..Region["TRIE"].last PROVE FALSE
      OBVIOUS
    <3>1. x \in Int /\ x < i + n /\ from =< x
      BY <1>3, <2>7
    <3> QED
      BY <2>7, <3>1
  <2> QED
    BY <2>5, <2>8 DEF Block, i, n
<1>7. TypeOK
  BY InvTypes
<1> QED
  BY <1>4, <1>5, <1>6, <1>7 DEF BlocksApart

LEMMA InvReadsBack == Inv => ReadsBack
<1> SUFFICES ASSUME Inv PROVE ReadsBack
  OBVIOUS
<1>1. NodesType /\ PendingType /\ Back /\ ReadingInv
  BY DEF Inv, Safe, TypeInv
<1>2. ASSUME NEW i \in 1..Len(nodes), Live(i), NEW w \in Own(i), NEW k \in Cores
      PROVE  WrittenLast(ReadPlace(k, Address(i, w))) = nodes[i].members[w]
  <2> DEFINE place == PlaceOf(k, i, w)
  <2>1. /\ w \in WordsOf(i) /\ Decodes(Address(i, w))
        /\ Remembers(pending, place, nodes[i].members[w])
    BY <1>1, <1>2 DEF Own, Back
  <2>2. place.memory \in Memories
    BY <1>1, <2>1, NodeAt, ReadPlaceIs DEF PlaceOf
  <2>3. pending[place.memory] \in Seq(Requests)
    BY <1>1, <2>2 DEF PendingType
  <2> HIDE DEF place
  <2>4. WrittenLast(place) = nodes[i].members[w]
    BY <2>1, <2>3, SeesLast DEF Remembers
  <2> QED
    BY <2>4 DEF place, PlaceOf
<1>3. reading.answer # {} /\ reading.word \in Own(reading.node) =>
         reading.answer = {nodes[reading.node].members[reading.word]}
  BY <1>1 DEF ReadingInv, NotReading, Answered
<1> QED
  BY <1>2, <1>3 DEF ReadsBack

(* Whatever nodes are constructed, copied, set, assigned and read, and     *)
(* however the memories are served in between, the words taken for a node  *)
(* are of the region, not free and not taken for another                   *)
(* (FreeMemoryTracker::allocate(), and MemoryManagerThread, which          *)
(* allocates twice and forgets the first); and two nodes whose words the   *)
(* manager found in one memory have no address in common.                  *)
THEOREM BlocksApartHolds == Spec => []BlocksApart
<1>1. Inv => BlocksApart
  BY InvApart
<1> QED
  BY <1>1, InvInit, InvNext, PTL DEF Spec

(* A core that reads a word of a live node, once what is under way has     *)
(* been served, reads the member the agent keeps, in its own copy of the   *)
(* memory (tlmwrite() writes all of them), and the agent itself reads it   *)
(* without waiting for its writes: if no other node was given an address   *)
(* for the same word, and the node is no copy of an entry.                 *)
THEOREM ReadsBackHolds == Spec => []ReadsBack
<1>1. Inv => ReadsBack
  BY InvReadsBack
<1> QED
  BY <1>1, InvInit, InvNext, PTL DEF Spec


-----------------------------------------------------------------------------
(* The network                                                             *)
(*                                                                         *)
(* Way is what the tables make of each flow: the routers its packets pass, *)
(* the port they leave each by, and what their destination is when they    *)
(* come there.  A queue or a router's hands are a place; the places of a   *)
(* flow have stages along its way.  What is invariant is that every packet *)
(* is at a place of its flow's way, and that of two packets of a flow the  *)
(* one farther on has the lower number.                                    *)

CONSTANT Way

Hops(f) == 1..Len(Way[f])

Final(f) == Len(Way[f])

\* What is left of a destination behind a router
Left(r, destination) ==
  IF SearchinConnectedNodes(r, Head(destination)) # {}
  THEN EvaluateHierarchicalDestination(destination).setdestinationto ELSE destination

(* The look-ups lead from the first router by Way to the module the flow   *)
(* is for, past no router twice.  So they do in MCRouter: jobs pass        *)
(* ocn_11, ocn_21, ocn_22 and cluster_local_switch, requests pass these    *)
(* backwards, table answers ocn_02, ocn_12, ocn_22 and the switch.         *)
Leads ==
  \A f \in DOMAIN Flows :
    /\ Len(Way[f]) \in Nat \ {0}
    /\ Way[f][1].router = Flows[f].first /\ Way[f][1].destination = Flows[f].destination
    /\ \A k \in Hops(f) :
         /\ Way[f][k].router \in Routers
         /\ Way[f][k].port \in
              DetermineOutputPortNumber(Way[f][k].router, Head(Way[f][k].destination))
         /\ \A port \in
              DetermineOutputPortNumber(Way[f][k].router, Head(Way[f][k].destination)) :
                Way[f][k].port <= port
         /\ k < Final(f) =>
              /\ Behind(Way[f][k].router, Way[f][k].port) = Way[f][k + 1].router
              /\ Left(Way[f][k].router, Way[f][k].destination) = Way[f][k + 1].destination
         /\ k = Final(f) =>
              /\ Behind(Way[f][k].router, Way[f][k].port) = Flows[f].to
              /\ Flows[f].to \notin Routers
              /\ Len(Left(Way[f][k].router, Way[f][k].destination)) = 1
    /\ \A j, k \in Hops(f) : Way[f][j].router = Way[f][k].router => j = k

Places == [at : {"in", "held", "out"}, router : Routers, port : Nat]

InAt(r, i) == [at |-> "in", router |-> r, port |-> i]
HeldAt(r)  == [at |-> "held", router |-> r, port |-> 0]
OutAt(r, i) == [at |-> "out", router |-> r, port |-> i]

\* The neighbour that a packet comes from at its k-th router
From(f, k) == IF k = 1 THEN Flows[f].from ELSE Way[f][k - 1].router

\* A packet with destination d at a place is at stage t of its way.
Comes(f, k, place, d) ==
  /\ place.at = "in" /\ place.router = Way[f][k].router
  /\ place.port \in Ports(Way[f][k].router)
  /\ Behind(Way[f][k].router, place.port) = From(f, k)
  /\ d = Way[f][k].destination

Passes(f, k, place, d) ==
  /\ place = HeldAt(Way[f][k].router)
  /\ d = Left(Way[f][k].router, Way[f][k].destination)

Arrived(f, place, d) ==
  /\ place = OutAt(Way[f][Final(f)].router, Way[f][Final(f)].port)
  /\ d = Left(Way[f][Final(f)].router, Way[f][Final(f)].destination)

Stop(f, place, t, d) ==
  \/ \E k \in Hops(f) : t = 2 * k - 1 /\ Comes(f, k, place, d)
  \/ \E k \in Hops(f) : t = 2 * k /\ Passes(f, k, place, d)
  \/ t = 2 * Final(f) + 1 /\ Arrived(f, place, d)

LEMMA WayOf ==
  ASSUME Leads, NEW f \in DOMAIN Flows
  PROVE  /\ Final(f) \in Nat \ {0} /\ Hops(f) = 1..Final(f)
         /\ \A k \in Hops(f) : k \in Nat \ {0} /\ Way[f][k].router \in Routers
         /\ \A j, k \in Hops(f) : Way[f][j].router = Way[f][k].router => j = k
  BY DEF Leads, Hops, Final

LEMMA PortsOf ==
  ASSUME NEW r \in Routers
  PROVE  /\ Ports(r) \subseteq Nat /\ 0 \notin Ports(r)
         /\ \A i, j \in Ports(r) : Behind(r, i) = Behind(r, j) => i = j
<1>1. Ports(r) = 1..Len(ConnectedNodes(r)) /\ Len(ConnectedNodes(r)) \in Nat
  BY NetworkAssumption
<1>2. IsInjective([i \in Ports(r) |-> Behind(r, i)])
  BY NetworkAssumption
<1>3. \A i, j \in Ports(r) : Behind(r, i) = Behind(r, j) => i = j
  BY <1>2 DEF IsInjective
<1> QED
  BY <1>1, <1>3

\* The stages of a flow's way, one for each of its places
LEMMA OneStage ==
  ASSUME Leads, NEW f \in DOMAIN Flows, NEW place \in Places, NEW t, NEW d, NEW u, NEW e,
         Stop(f, place, t, d), Stop(f, place, u, e)
  PROVE  t = u /\ d = e /\ t \in Nat \ {0}
<1>1. /\ Final(f) \in Nat \ {0} /\ \A k \in Hops(f) : k \in Nat \ {0}
      /\ \A j, k \in Hops(f) : Way[f][j].router = Way[f][k].router => j = k
  BY WayOf
<1>2. CASE place.at = "in"
  <2>1. /\ \E k \in Hops(f) : t = 2 * k - 1 /\ Comes(f, k, place, d)
        /\ \E k \in Hops(f) : u = 2 * k - 1 /\ Comes(f, k, place, e)
    BY <1>2 DEF Stop, Passes, Arrived, HeldAt, OutAt
  <2>2. PICK k \in Hops(f) : t = 2 * k - 1 /\ Comes(f, k, place, d)
    BY <2>1
  <2>3. PICK j \in Hops(f) : u = 2 * j - 1 /\ Comes(f, j, place, e)
    BY <2>1
  <2>4. j = k
    BY <1>1, <2>2, <2>3 DEF Comes
  <2> QED
    BY <1>1, <2>2, <2>3, <2>4 DEF Comes
<1>3. CASE place.at = "held"
  <2>1. /\ \E k \in Hops(f) : t = 2 * k /\ Passes(f, k, place, d)
        /\ \E k \in Hops(f) : u = 2 * k /\ Passes(f, k, place, e)
    BY <1>3 DEF Stop, Comes, Arrived, OutAt
  <2>2. PICK k \in Hops(f) : t = 2 * k /\ Passes(f, k, place, d)
    BY <2>1
  <2>3. PICK j \in Hops(f) : u = 2 * j /\ Passes(f, j, place, e)
    BY <2>1
  <2>4. j = k
    BY <1>1, <2>2, <2>3 DEF Passes, HeldAt
  <2> QED
    BY <1>1, <2>2, <2>3, <2>4 DEF Passes
<1>4. CASE place.at = "out"
  <2>1. t = 2 * Final(f) + 1 /\ Arrived(f, place, d) /\ u = 2 * Final(f) + 1 /\ Arrived(f, place, e)
    BY <1>4 DEF Stop, Comes, Passes, HeldAt
  <2> QED
    BY <1>1, <2>1 DEF Arrived
<1> QED
  BY <1>2, <1>3, <1>4 DEF Places

LEMMA OnePlace ==
  ASSUME Leads, NEW f \in DOMAIN Flows, NEW a \in Places, NEW b \in Places, NEW t, NEW d, NEW e,
         Stop(f, a, t, d), Stop(f, b, t, e)
  PROVE  a = b
<1>1. /\ Final(f) \in Nat \ {0} /\ \A k \in Hops(f) : k \in 1..Final(f)
      /\ \A k \in Hops(f) : Way[f][k].router \in Routers
  BY WayOf
<1>2. /\ \A j, k \in 1..Final(f) : (2 * k - 1 = 2 * j - 1 => j = k) /\ (2 * k = 2 * j => j = k)
      /\ \A j, k \in 1..Final(f) : 2 * k - 1 # 2 * j /\ 2 * k - 1 # 2 * Final(f) + 1
                                  /\ 2 * k # 2 * Final(f) + 1
  BY <1>1
<1>3. CASE \E k \in Hops(f) : t = 2 * k - 1
  <2>1. PICK k \in Hops(f) : t = 2 * k - 1
    BY <1>3
  <2>2. Comes(f, k, a, d) /\ Comes(f, k, b, e)
    BY <1>1, <1>2, <2>1 DEF Stop
  <2>3. a.port = b.port
    BY <1>1, <2>2, PortsOf DEF Comes
  <2> QED
    BY <2>2, <2>3 DEF Comes, Places
<1>4. CASE \E k \in Hops(f) : t = 2 * k
  <2>1. PICK k \in Hops(f) : t = 2 * k
    BY <1>4
  <2>2. Passes(f, k, a, d) /\ Passes(f, k, b, e)
    BY <1>1, <1>2, <2>1 DEF Stop
  <2> QED
    BY <2>2 DEF Passes
<1>5. CASE t = 2 * Final(f) + 1
  <2>1. Arrived(f, a, d) /\ Arrived(f, b, e)
    BY <1>1, <1>2, <1>5 DEF Stop
  <2> QED
    BY <2>1 DEF Arrived
<1> QED
  BY <1>3, <1>4, <1>5 DEF Stop

-----------------------------------------------------------------------------
(* Packets in their places: what moves one place on stays in order.        *)

Destinations == {Way[f][k].destination : f \in DOMAIN Flows, k \in Nat}
                  \cup {Left(Way[f][k].router, Way[f][k].destination) : f \in DOMAIN Flows, k \in Nat}

Packet == [flow : DOMAIN Flows, number : Nat, destination : Destinations]

Lines == [Places -> Seq(Packet)]

Placed(line) ==
  \A a \in Places : \A m \in 1..Len(line[a]) :
     \E t \in Nat : Stop(line[a][m].flow, a, t, line[a][m].destination)

\* Of the same flow, and farther on
Ahead(line, b, n, a, m) ==
  /\ line[b][n].flow = line[a][m].flow
  /\ \/ \E t, u \in Nat : /\ Stop(line[a][m].flow, a, t, line[a][m].destination)
                          /\ Stop(line[b][n].flow, b, u, line[b][n].destination)
                          /\ t < u
     \/ a = b /\ n < m

Ordered(line) ==
  \A a, b \in Places : \A m \in 1..Len(line[a]) : \A n \in 1..Len(line[b]) :
     Ahead(line, b, n, a, m) => line[b][n].number < line[a][m].number

Between(line, first, last) ==
  \A a \in Places : \A m \in 1..Len(line[a]) :
     first[line[a][m].flow] < line[a][m].number /\ line[a][m].number =< last[line[a][m].flow]

Present(line, first, last) ==
  \A f \in DOMAIN Flows : \A x \in Nat : first[f] < x /\ x =< last[f] =>
     \E a \in Places : \E m \in 1..Len(line[a]) : line[a][m].flow = f /\ line[a][m].number = x

Numbers == [DOMAIN Flows -> Nat]

InLine(line, first, last) ==
  /\ line \in Lines /\ first \in Numbers /\ last \in Numbers
  /\ Placed(line) /\ Ordered(line) /\ Between(line, first, last) /\ Present(line, first, last)

LEMMA PacketAt ==
  ASSUME NEW line \in Lines, NEW a \in Places
  PROVE  /\ line[a] \in Seq(Packet) /\ Len(line[a]) \in Nat
         /\ \A m \in 1..Len(line[a]) : /\ line[a][m] \in Packet /\ line[a][m].flow \in DOMAIN Flows
                                       /\ line[a][m].number \in Nat
<1>1. line[a] \in Seq(Packet) /\ Len(line[a]) \in Nat
  BY LenProperties DEF Lines
<1>2. \A m \in 1..Len(line[a]) : line[a][m] \in Packet
  BY <1>1, ElementOfSeq
<1> QED
  BY <1>1, <1>2 DEF Packet

\* The head of one line goes to the end of another.
Moved(line, a, b, packet) == [line EXCEPT ![a] = Tail(@), ![b] = Append(@, packet)]

LEMMA MovedIs ==
  ASSUME NEW line \in Lines, NEW a \in Places, NEW b \in Places, a # b, line[a] # <<>>,
         NEW packet \in Packet
  PROVE  /\ Moved(line, a, b, packet) \in Lines
         /\ Len(Moved(line, a, b, packet)[a]) = Len(line[a]) - 1
         /\ Len(line[a]) \in Nat \ {0}
         /\ \A m \in 1..(Len(line[a]) - 1) :
              m + 1 \in 1..Len(line[a]) /\ Moved(line, a, b, packet)[a][m] = line[a][m + 1]
         /\ Len(Moved(line, a, b, packet)[b]) = Len(line[b]) + 1
         /\ Len(line[b]) \in Nat
         /\ \A m \in 1..Len(line[b]) : Moved(line, a, b, packet)[b][m] = line[b][m]
         /\ Moved(line, a, b, packet)[b][Len(line[b]) + 1] = packet
         /\ \A c \in Places : c # a /\ c # b => Moved(line, a, b, packet)[c] = line[c]
<1>1. line[a] \in Seq(Packet) /\ line[b] \in Seq(Packet) /\ Len(line[b]) \in Nat
  BY PacketAt
<1>2. /\ Tail(line[a]) \in Seq(Packet) /\ Len(Tail(line[a])) = Len(line[a]) - 1
      /\ Len(line[a]) \in Nat \ {0}
      /\ \A m \in 1..Len(Tail(line[a])) : Tail(line[a])[m] = line[a][m + 1]
  BY <1>1, HeadTailProperties, EmptySeq
<1>3. /\ Append(line[b], packet) \in Seq(Packet)
      /\ Len(Append(line[b], packet)) = Len(line[b]) + 1
      /\ \A m \in 1..Len(line[b]) : Append(line[b], packet)[m] = line[b][m]
      /\ Append(line[b], packet)[Len(line[b]) + 1] = packet
  BY <1>1, AppendProperties
<1>4. /\ Moved(line, a, b, packet)[a] = Tail(line[a])
      /\ Moved(line, a, b, packet)[b] = Append(line[b], packet)
      /\ \A c \in Places : c # a /\ c # b => Moved(line, a, b, packet)[c] = line[c]
      /\ Moved(line, a, b, packet) = [c \in Places |-> Moved(line, a, b, packet)[c]]
  BY DEF Moved, Lines
<1>5. Moved(line, a, b, packet) \in Lines
  <2>1. \A c \in Places : Moved(line, a, b, packet)[c] \in Seq(Packet)
    BY <1>2, <1>3, <1>4 DEF Lines
  <2> QED
    BY <1>4, <2>1 DEF Lines
<1> QED
  BY <1>1, <1>2, <1>3, <1>4, <1>5

\* Where a packet was before
Origin(line, a, b, c, m) ==
  IF c = b /\ m = Len(line[b]) + 1 THEN [place |-> a, index |-> 1]
  ELSE IF c = a THEN [place |-> a, index |-> m + 1] ELSE [place |-> c, index |-> m]

LEMMA OriginIs ==
  ASSUME NEW line \in Lines, NEW a \in Places, NEW b \in Places, a # b, line[a] # <<>>,
         NEW packet \in Packet, packet.flow = line[a][1].flow, packet.number = line[a][1].number,
         NEW c \in Places, NEW m \in 1..Len(Moved(line, a, b, packet)[c])
  PROVE  LET o == Origin(line, a, b, c, m)
             p == Moved(line, a, b, packet)[c][m]
         IN  /\ o.place \in Places /\ o.index \in 1..Len(line[o.place])
             /\ p.flow = line[o.place][o.index].flow /\ p.number = line[o.place][o.index].number
             /\ ~(c = b /\ m = Len(line[b]) + 1) => o.place = c /\ p = line[o.place][o.index]
             /\ (c = b /\ m = Len(line[b]) + 1) => o.place = a /\ o.index = 1 /\ p = packet
<1> DEFINE o == Origin(line, a, b, c, m)
           after == Moved(line, a, b, packet)
<1>1. /\ Len(after[a]) = Len(line[a]) - 1 /\ Len(line[a]) \in Nat \ {0}
      /\ \A k \in 1..(Len(line[a]) - 1) : k + 1 \in 1..Len(line[a]) /\ after[a][k] = line[a][k + 1]
      /\ Len(after[b]) = Len(line[b]) + 1 /\ Len(line[b]) \in Nat
      /\ \A k \in 1..Len(line[b]) : after[b][k] = line[b][k]
      /\ after[b][Len(line[b]) + 1] = packet
      /\ \A d \in Places : d # a /\ d # b => after[d] = line[d]
  BY MovedIs
<1> HIDE DEF after
<1>m. m \in 1..Len(after[c])
  BY DEF after
<1>2. CASE c = b /\ m = Len(line[b]) + 1
  <2>1. o.place = a /\ o.index = 1
    BY <1>2 DEF Origin
  <2>2. after[c][m] = packet
    BY <1>1, <1>2
  <2>3. 1 \in 1..Len(line[a])
    BY <1>1
  <2> HIDE DEF o
  <2> QED
    BY <1>2, <2>1, <2>2, <2>3 DEF o, after
<1>3. CASE c = b /\ m # Len(line[b]) + 1
  <2>1. m \in 1..Len(line[b])
    BY <1>1, <1>3, <1>m
  <2>2. o.place = c /\ o.index = m
    BY <1>3 DEF Origin
  <2>3. after[c][m] = line[c][m]
    BY <1>1, <1>3, <2>1
  <2> QED
    BY <1>3, <2>1, <2>2, <2>3 DEF after
<1>4. CASE c = a
  <2>1. m \in 1..(Len(line[a]) - 1)
    BY <1>1, <1>4, <1>m
  <2>2. o.place = a /\ o.index = m + 1
    BY <1>4 DEF Origin
  <2>3. after[c][m] = line[a][m + 1] /\ m + 1 \in 1..Len(line[a])
    BY <1>1, <1>4, <2>1
  <2> QED
    BY <1>4, <2>1, <2>2, <2>3 DEF after
<1>5. CASE c # a /\ c # b
  <2>1. o.place = c /\ o.index = m
    BY <1>5 DEF Origin
  <2>2. after[c] = line[c]
    BY <1>1, <1>5
  <2> QED
    BY <1>5, <1>m, <2>1, <2>2 DEF after
<1> QED
  BY <1>2, <1>3, <1>4, <1>5

LEMMA MoveKeeps ==
  ASSUME Leads, NEW line, NEW first, NEW last, InLine(line, first, last),
         NEW a \in Places, NEW b \in Places, line[a] # <<>>,
         NEW packet \in Packet, packet.flow = line[a][1].flow, packet.number = line[a][1].number,
         NEW t \in Nat, Stop(packet.flow, a, t, line[a][1].destination),
         Stop(packet.flow, b, t + 1, packet.destination)
  PROVE  InLine(Moved(line, a, b, packet), first, last)
<1> DEFINE after == Moved(line, a, b, packet)
           o(c, m) == Origin(line, a, b, c, m)
<1>1. /\ line \in Lines /\ first \in Numbers /\ last \in Numbers
      /\ Placed(line) /\ Ordered(line) /\ Between(line, first, last) /\ Present(line, first, last)
  BY DEF InLine
<1>2. a # b /\ packet.flow \in DOMAIN Flows
  <2>1. packet.flow \in DOMAIN Flows
    BY DEF Packet
  <2>2. a = b => t = t + 1
    BY <2>1, OneStage
  <2> QED
    BY <2>1, <2>2
<1>3. after \in Lines
  BY <1>1, <1>2, MovedIs
<1>4. ASSUME NEW c \in Places, NEW m \in 1..Len(after[c])
      PROVE  /\ o(c, m).place \in Places /\ o(c, m).index \in 1..Len(line[o(c, m).place])
             /\ after[c][m].flow = line[o(c, m).place][o(c, m).index].flow
             /\ after[c][m].number = line[o(c, m).place][o(c, m).index].number
             /\ ~(c = b /\ m = Len(line[b]) + 1) =>
                  o(c, m).place = c /\ after[c][m] = line[o(c, m).place][o(c, m).index]
             /\ (c = b /\ m = Len(line[b]) + 1) =>
                  o(c, m).place = a /\ o(c, m).index = 1 /\ after[c][m] = packet
  BY <1>1, <1>2, OriginIs
<1>5. /\ Len(after[a]) = Len(line[a]) - 1 /\ Len(line[a]) \in Nat \ {0}
      /\ \A k \in 1..(Len(line[a]) - 1) : k + 1 \in 1..Len(line[a]) /\ after[a][k] = line[a][k + 1]
      /\ Len(after[b]) = Len(line[b]) + 1 /\ Len(line[b]) \in Nat
      /\ \A k \in 1..Len(line[b]) : after[b][k] = line[b][k]
      /\ after[b][Len(line[b]) + 1] = packet
      /\ \A d \in Places : d # a /\ d # b => after[d] = line[d]
  BY <1>1, <1>2, MovedIs
<1> HIDE DEF after
<1>6. Placed(after)
  <2>1. ASSUME NEW c \in Places, NEW m \in 1..Len(after[c])
        PROVE  \E u \in Nat : Stop(after[c][m].flow, c, u, after[c][m].destination)
    <3>1. CASE c = b /\ m = Len(line[b]) + 1
      <4>1. t + 1 \in Nat
        OBVIOUS
      <4>2. after[c][m] = packet
        BY <1>5, <3>1
      <4> QED
        BY <3>1, <4>1, <4>2
    <3>2. CASE ~(c = b /\ m = Len(line[b]) + 1)
      <4> DEFINE k == o(c, m).index
      <4>1. k \in 1..Len(line[c]) /\ after[c][m] = line[c][k]
        BY <1>4, <3>2
      <4> HIDE DEF k, o
      <4> QED
        BY <1>1, <4>1 DEF Placed
    <3> QED
      BY <3>1, <3>2
  <2> QED
    BY <2>1 DEF Placed
<1>7. Between(after, first, last)
  <2>1. ASSUME NEW c \in Places, NEW m \in 1..Len(after[c])
        PROVE  first[after[c][m].flow] < after[c][m].number /\ after[c][m].number =< last[after[c][m].flow]
    <3> DEFINE oc == o(c, m)
    <3>1. /\ oc.place \in Places /\ oc.index \in 1..Len(line[oc.place])
          /\ after[c][m].flow = line[oc.place][oc.index].flow
          /\ after[c][m].number = line[oc.place][oc.index].number
      BY <1>4
    <3> HIDE DEF oc
    <3>2. /\ first[line[oc.place][oc.index].flow] < line[oc.place][oc.index].number
          /\ line[oc.place][oc.index].number =< last[line[oc.place][oc.index].flow]
      BY <1>1, <3>1 DEF Between
    <3> QED
      BY <3>1, <3>2
  <2> QED
    BY <2>1 DEF Between
<1>8. Present(after, first, last)
  <2>1. ASSUME NEW c \in Places, NEW m \in 1..Len(line[c])
        PROVE  \E d \in Places : \E n \in 1..Len(after[d]) :
                  after[d][n].flow = line[c][m].flow /\ after[d][n].number = line[c][m].number
    <3>1. CASE c = a /\ m = 1
      <4>1. Len(line[b]) + 1 \in 1..Len(after[b])
        BY <1>5
      <4> QED
        BY <1>5, <3>1, <4>1
    <3>2. CASE c = a /\ m # 1
      <4>1. m - 1 \in 1..(Len(line[a]) - 1) /\ (m - 1) + 1 = m
        BY <1>5, <3>2
      <4>2. m - 1 \in 1..Len(after[a]) /\ after[a][m - 1] = line[a][m]
        BY <1>5, <4>1
      <4> QED
        BY <3>2, <4>2
    <3>3. CASE c = b
      <4>1. m \in 1..Len(after[b]) /\ after[b][m] = line[b][m]
        BY <1>5, <3>3
      <4> QED
        BY <3>3, <4>1
    <3>4. CASE c # a /\ c # b
      BY <1>5, <3>4
    <3> QED
      BY <3>1, <3>2, <3>3, <3>4
  <2>2. ASSUME NEW f \in DOMAIN Flows, NEW x \in Nat, first[f] < x, x =< last[f]
        PROVE  \E d \in Places : \E n \in 1..Len(after[d]) :
                  after[d][n].flow = f /\ after[d][n].number = x
    <3>1. PICK c \in Places : \E m \in 1..Len(line[c]) : line[c][m].flow = f /\ line[c][m].number = x
      BY <1>1, <2>2 DEF Present
    <3>2. PICK m \in 1..Len(line[c]) : line[c][m].flow = f /\ line[c][m].number = x
      BY <3>1
    <3>3. PICK d \in Places : \E n \in 1..Len(after[d]) :
             after[d][n].flow = line[c][m].flow /\ after[d][n].number = line[c][m].number
      BY <2>1
    <3> QED
      BY <3>2, <3>3
  <2> QED
    BY <2>2 DEF Present
<1>9. Ordered(after)
  <2>1. ASSUME NEW c \in Places, NEW d \in Places,
               NEW m \in 1..Len(after[c]), NEW n \in 1..Len(after[d]), Ahead(after, d, n, c, m)
        PROVE  after[d][n].number < after[c][m].number
    <3> DEFINE oc == o(c, m)
               od == o(d, n)
               moving(e, k) == e = b /\ k = Len(line[b]) + 1
    <3>1. /\ oc.place \in Places /\ oc.index \in 1..Len(line[oc.place])
          /\ after[c][m].flow = line[oc.place][oc.index].flow
          /\ after[c][m].number = line[oc.place][oc.index].number
          /\ ~moving(c, m) => oc.place = c /\ after[c][m] = line[oc.place][oc.index]
          /\ moving(c, m) => oc.place = a /\ oc.index = 1 /\ after[c][m] = packet
      BY <1>4
    <3>2. /\ od.place \in Places /\ od.index \in 1..Len(line[od.place])
          /\ after[d][n].flow = line[od.place][od.index].flow
          /\ after[d][n].number = line[od.place][od.index].number
          /\ ~moving(d, n) => od.place = d /\ after[d][n] = line[od.place][od.index]
          /\ moving(d, n) => od.place = a /\ od.index = 1 /\ after[d][n] = packet
      BY <1>4
    <3>i. /\ ~moving(c, m) => oc.index = IF c = a THEN m + 1 ELSE m
          /\ ~moving(d, n) => od.index = IF d = a THEN n + 1 ELSE n
      BY DEF Origin
    <3>3. after[d][n].flow = after[c][m].flow /\ after[c][m].flow \in DOMAIN Flows
      BY <1>3, <2>1, PacketAt DEF Ahead
    <3>4. Ahead(line, od.place, od.index, oc.place, oc.index)
      <4>1. CASE c = d /\ n < m
        <5>1. ~moving(d, n)
          BY <1>5, <4>1
        <5>2. CASE ~moving(c, m)
          <6>1. od.index < oc.index
            BY <1>2, <3>i, <4>1, <5>1, <5>2
          <6> HIDE DEF oc, od, moving
          <6> QED
            BY <3>1, <3>2, <3>3, <4>1, <5>1, <5>2, <6>1 DEF Ahead
        <5>3. CASE moving(c, m)
          <6>1. /\ after[c][m] = packet /\ oc.place = a /\ oc.index = 1
                /\ od.place = b /\ after[d][n] = line[od.place][od.index]
                /\ line[od.place][od.index].flow = packet.flow
            BY <3>1, <3>2, <3>3, <4>1, <5>1, <5>3
          <6> HIDE DEF oc, od, moving
          <6>2. PICK u \in Nat : Stop(packet.flow, b, u, line[od.place][od.index].destination)
            BY <1>1, <3>2, <6>1 DEF Placed
          <6>3. u = t + 1
            BY <1>2, <6>2, OneStage
          <6>4. t < u
            BY <6>3
          <6> QED
            BY <6>1, <6>2, <6>4 DEF Ahead
        <5> QED
          BY <5>2, <5>3
      <4>2. ASSUME NEW u \in Nat, NEW v \in Nat, u < v,
                   Stop(after[c][m].flow, c, u, after[c][m].destination),
                   Stop(after[d][n].flow, d, v, after[d][n].destination)
            PROVE  Ahead(line, od.place, od.index, oc.place, oc.index)
        <5>1. CASE ~moving(c, m) /\ ~moving(d, n)
          <6>1. /\ line[oc.place][oc.index] = after[c][m] /\ oc.place = c
                /\ line[od.place][od.index] = after[d][n] /\ od.place = d
            BY <3>1, <3>2, <5>1
          <6> HIDE DEF oc, od, moving
          <6>2. /\ Stop(line[oc.place][oc.index].flow, oc.place, u, line[oc.place][oc.index].destination)
                /\ Stop(line[od.place][od.index].flow, od.place, v, line[od.place][od.index].destination)
            BY <4>2, <6>1
          <6>3. line[od.place][od.index].flow = line[oc.place][oc.index].flow
            BY <3>3, <6>1
          <6> QED
            BY <4>2, <6>2, <6>3 DEF Ahead
        <5>2. CASE moving(c, m) /\ ~moving(d, n)
          <6>0. Stop(packet.flow, b, u, packet.destination)
            BY <3>1, <4>2, <5>2
          <6>1. u = t + 1
            BY <1>2, <6>0, OneStage
          <6>2. t < v
            BY <4>2, <6>1
          <6>3. /\ line[oc.place][oc.index].flow = after[c][m].flow
                /\ oc.place = a /\ oc.index = 1 /\ after[c][m] = packet
                /\ line[od.place][od.index] = after[d][n] /\ od.place = d
            BY <3>1, <3>2, <5>2
          <6> HIDE DEF oc, od, moving
          <6>4. Stop(line[oc.place][oc.index].flow, oc.place, t, line[oc.place][oc.index].destination)
            BY <6>3
          <6>5. Stop(line[od.place][od.index].flow, od.place, v, line[od.place][od.index].destination)
            BY <4>2, <6>3
          <6>6. line[od.place][od.index].flow = line[oc.place][oc.index].flow
            BY <3>3, <6>3
          <6> QED
            BY <6>2, <6>4, <6>5, <6>6 DEF Ahead
        <5>3. CASE ~moving(c, m) /\ moving(d, n)
          <6>0. Stop(packet.flow, b, v, packet.destination)
            BY <3>2, <4>2, <5>3
          <6>1. v = t + 1
            BY <1>2, <6>0, OneStage
          <6>2. u =< t
            BY <4>2, <6>1
          <6>3. CASE u < t
            <7> HIDE DEF oc, od, moving
            <7> QED
              BY <3>1, <3>2, <3>3, <4>2, <5>3, <6>3 DEF Ahead
          <6>4. CASE u = t
            <7>1. after[c][m].flow = packet.flow
              BY <3>2, <3>3, <5>3
            <7>2. c = a
              BY <1>2, <4>2, <6>4, <7>1, OnePlace
            <7>3. oc.index = m + 1 /\ oc.place = a
              BY <3>1, <3>i, <5>3, <7>2
            <7>4. od.index < oc.index
              BY <3>2, <5>3, <7>3
            <7> HIDE DEF oc, od, moving
            <7> QED
              BY <3>1, <3>2, <3>3, <5>3, <7>3, <7>4 DEF Ahead
          <6> QED
            BY <6>2, <6>3, <6>4
        <5>4. CASE moving(c, m) /\ moving(d, n)
          <6>1. c = d /\ after[c][m] = after[d][n]
            BY <5>4
          <6>2. u = v
            BY <3>3, <4>2, <6>1, OneStage
          <6> QED
            BY <4>2, <6>2
        <5> QED
          BY <5>1, <5>2, <5>3, <5>4
      <4> HIDE DEF oc, od
      <4> QED
        BY <2>1, <4>1, <4>2 DEF Ahead
    <3> HIDE DEF oc, od, moving
    <3>5. line[od.place][od.index].number < line[oc.place][oc.index].number
      BY <1>1, <3>1, <3>2, <3>4 DEF Ordered
    <3> QED
      BY <3>1, <3>2, <3>5
  <2> QED
    BY <2>1 DEF Ordered
<1>10. InLine(after, first, last)
  BY <1>1, <1>3, <1>6, <1>7, <1>8, <1>9 DEF InLine
<1> QED
  BY <1>10 DEF after

\* One more packet of a flow at the beginning of its way
Added(line, b, packet) == [line EXCEPT ![b] = Append(@, packet)]

LEMMA AddKeeps ==
  ASSUME Leads, NEW line, NEW first, NEW last, InLine(line, first, last),
         NEW b \in Places, NEW packet \in Packet, packet.number = last[packet.flow] + 1,
         first[packet.flow] =< last[packet.flow],
         Stop(packet.flow, b, 1, packet.destination)
  PROVE  InLine(Added(line, b, packet), first, [last EXCEPT ![packet.flow] = @ + 1])
<1> DEFINE after == Added(line, b, packet)
           now == [last EXCEPT ![packet.flow] = @ + 1]
           f == packet.flow
<1>1. /\ line \in Lines /\ first \in Numbers /\ last \in Numbers
      /\ Placed(line) /\ Ordered(line) /\ Between(line, first, last) /\ Present(line, first, last)
  BY DEF InLine
<1>2. f \in DOMAIN Flows /\ last[f] \in Nat /\ first[f] \in Nat
  BY <1>1 DEF Packet, Numbers
<1>3. line[b] \in Seq(Packet) /\ Len(line[b]) \in Nat
  BY <1>1, PacketAt
<1>4. /\ Append(line[b], packet) \in Seq(Packet)
      /\ Len(Append(line[b], packet)) = Len(line[b]) + 1
      /\ \A m \in 1..Len(line[b]) : Append(line[b], packet)[m] = line[b][m]
      /\ Append(line[b], packet)[Len(line[b]) + 1] = packet
  BY <1>3, AppendProperties
<1>5. /\ after \in Lines /\ after[b] = Append(line[b], packet)
      /\ \A c \in Places : c # b => after[c] = line[c]
  BY <1>1, <1>4 DEF Added, Lines
<1>6. now \in Numbers /\ now[f] = last[f] + 1 /\ \A g \in DOMAIN Flows : g # f => now[g] = last[g]
  BY <1>1, <1>2 DEF Numbers
<1> HIDE DEF after, now
<1>7. ASSUME NEW c \in Places, NEW m \in 1..Len(after[c])
      PROVE  \/ m \in 1..Len(line[c]) /\ after[c][m] = line[c][m]
             \/ c = b /\ m = Len(line[b]) + 1 /\ after[c][m] = packet
  <2>1. CASE c # b
    BY <1>5, <2>1
  <2>2. CASE c = b /\ m = Len(line[b]) + 1
    BY <1>4, <1>5, <2>2
  <2>3. CASE c = b /\ m # Len(line[b]) + 1
    <3>1. m \in 1..Len(line[b])
      BY <1>3, <1>4, <1>5, <2>3
    <3> QED
      BY <1>4, <1>5, <2>3, <3>1
  <2> QED
    BY <2>1, <2>2, <2>3
<1>8. Placed(after)
  <2>1. ASSUME NEW c \in Places, NEW m \in 1..Len(after[c])
        PROVE  \E u \in Nat : Stop(after[c][m].flow, c, u, after[c][m].destination)
    <3>1. CASE m \in 1..Len(line[c]) /\ after[c][m] = line[c][m]
      BY <1>1, <3>1 DEF Placed
    <3>2. CASE c = b /\ m = Len(line[b]) + 1 /\ after[c][m] = packet
      BY <3>2
    <3> QED
      BY <1>7, <3>1, <3>2
  <2> QED
    BY <2>1 DEF Placed
<1>9. Between(after, first, now)
  <2>1. ASSUME NEW c \in Places, NEW m \in 1..Len(after[c])
        PROVE  /\ first[after[c][m].flow] < after[c][m].number
               /\ after[c][m].number =< now[after[c][m].flow]
    <3>1. CASE m \in 1..Len(line[c]) /\ after[c][m] = line[c][m]
      <4> DEFINE p == line[c][m]
      <4>1. p.flow \in DOMAIN Flows /\ p.number \in Nat
        BY <1>1, <3>1, PacketAt
      <4>2. first[p.flow] < p.number /\ p.number =< last[p.flow]
        BY <1>1, <3>1 DEF Between
      <4>3. last[p.flow] \in Nat
        BY <1>1, <4>1 DEF Numbers
      <4> HIDE DEF p
      <4>4. p.number =< now[p.flow]
        <5>1. CASE p.flow = f
          BY <1>2, <1>6, <4>1, <4>2, <4>3, <5>1
        <5>2. CASE p.flow # f
          BY <1>6, <4>1, <4>2, <5>2
        <5> QED
          BY <5>1, <5>2
      <4> QED
        BY <3>1, <4>2, <4>4 DEF p
    <3>2. CASE c = b /\ m = Len(line[b]) + 1 /\ after[c][m] = packet
      <4>1. first[f] < last[f] + 1 /\ last[f] + 1 =< now[f]
        BY <1>2, <1>6
      <4> QED
        BY <3>2, <4>1
    <3> QED
      BY <1>7, <3>1, <3>2
  <2> QED
    BY <2>1 DEF Between
<1>10. Present(after, first, now)
  <2>1. ASSUME NEW c \in Places, NEW m \in 1..Len(line[c])
        PROVE  m \in 1..Len(after[c]) /\ after[c][m] = line[c][m]
    <3>1. CASE c = b
      BY <1>3, <1>4, <1>5, <3>1
    <3>2. CASE c # b
      BY <1>5, <3>2
    <3> QED
      BY <3>1, <3>2
  <2>2. Len(line[b]) + 1 \in 1..Len(after[b]) /\ after[b][Len(line[b]) + 1] = packet
    BY <1>3, <1>4, <1>5
  <2>3. ASSUME NEW g \in DOMAIN Flows, NEW x \in Nat, first[g] < x, x =< now[g]
        PROVE  \E d \in Places : \E n \in 1..Len(after[d]) :
                  after[d][n].flow = g /\ after[d][n].number = x
    <3>1. CASE g = f /\ x = last[f] + 1
      BY <2>2, <3>1
    <3>2. CASE ~(g = f /\ x = last[f] + 1)
      <4>1. x =< last[g]
        <5>1. CASE g = f
          BY <1>2, <1>6, <2>3, <3>2, <5>1
        <5>2. CASE g # f
          BY <1>6, <2>3, <5>2
        <5> QED
          BY <5>1, <5>2
      <4>2. PICK c \in Places : \E m \in 1..Len(line[c]) : line[c][m].flow = g /\ line[c][m].number = x
        BY <1>1, <2>3, <4>1 DEF Present
      <4> QED
        BY <2>1, <4>2
    <3> QED
      BY <3>1, <3>2
  <2> QED
    BY <2>3 DEF Present
<1>11. Ordered(after)
  <2>1. ASSUME NEW c \in Places, NEW d \in Places,
               NEW m \in 1..Len(after[c]), NEW n \in 1..Len(after[d]), Ahead(after, d, n, c, m)
        PROVE  after[d][n].number < after[c][m].number
    <3>1. after[d][n].flow = after[c][m].flow
      BY <2>1 DEF Ahead
    <3>2. CASE d = b /\ n = Len(line[b]) + 1 /\ after[d][n] = packet
      <4>1. ~(c = d /\ n < m)
        BY <1>3, <1>4, <1>5, <3>2
      <4>2. PICK t, u \in Nat : /\ Stop(after[c][m].flow, c, t, after[c][m].destination)
                                /\ Stop(packet.flow, b, u, packet.destination) /\ t < u
        BY <2>1, <3>2, <4>1 DEF Ahead
      <4>3. u = 1
        BY <1>2, <4>2, OneStage
      <4>4. t \in Nat \ {0}
        BY <1>2, <3>1, <3>2, <4>2, OneStage
      <4> QED
        BY <4>2, <4>3, <4>4
    <3>3. CASE c = b /\ m = Len(line[b]) + 1 /\ after[c][m] = packet
               /\ n \in 1..Len(line[d]) /\ after[d][n] = line[d][n]
      <4>1. line[d][n].flow = f /\ line[d][n].number =< last[line[d][n].flow] /\ line[d][n].number \in Nat
        BY <1>1, <3>1, <3>3, PacketAt DEF Between
      <4>2. line[d][n].number < last[f] + 1
        BY <1>2, <4>1
      <4> QED
        BY <3>3, <4>2
    <3>4. CASE /\ m \in 1..Len(line[c]) /\ after[c][m] = line[c][m]
               /\ n \in 1..Len(line[d]) /\ after[d][n] = line[d][n]
      <4>1. Ahead(line, d, n, c, m)
        BY <2>1, <3>4 DEF Ahead
      <4> QED
        BY <1>1, <3>4, <4>1 DEF Ordered
    <3> QED
      BY <1>7, <3>2, <3>3, <3>4
  <2> QED
    BY <2>1 DEF Ordered
<1>12. InLine(after, first, now)
  BY <1>1, <1>5, <1>6, <1>8, <1>9, <1>10, <1>11 DEF InLine
<1> QED
  BY <1>12 DEF after, now

\* The packet at the end of its way is the next of its flow.
Taken(line, a) == [line EXCEPT ![a] = Tail(@)]

LEMMA TakeKeeps ==
  ASSUME Leads, NEW line, NEW first, NEW last, InLine(line, first, last),
         NEW a \in Places, line[a] # <<>>, a.at = "out"
  PROVE  /\ line[a][1].number = first[line[a][1].flow] + 1
         /\ InLine(Taken(line, a), [first EXCEPT ![line[a][1].flow] = line[a][1].number], last)
<1> DEFINE packet == line[a][1]
           f == packet.flow
           after == Taken(line, a)
           now == [first EXCEPT ![f] = packet.number]
<1>1. /\ line \in Lines /\ first \in Numbers /\ last \in Numbers
      /\ Placed(line) /\ Ordered(line) /\ Between(line, first, last) /\ Present(line, first, last)
  BY DEF InLine
<1>2. line[a] \in Seq(Packet) /\ Len(line[a]) \in Nat
  BY <1>1, PacketAt
<1>3. /\ Tail(line[a]) \in Seq(Packet) /\ Len(Tail(line[a])) = Len(line[a]) - 1
      /\ Len(line[a]) \in Nat \ {0}
      /\ \A m \in 1..Len(Tail(line[a])) : Tail(line[a])[m] = line[a][m + 1]
  BY <1>2, HeadTailProperties, EmptySeq
<1>4. /\ 1 \in 1..Len(line[a]) /\ packet \in Packet /\ f \in DOMAIN Flows /\ packet.number \in Nat
      /\ first[f] \in Nat /\ last[f] \in Nat /\ first[f] < packet.number /\ packet.number =< last[f]
  <2>1. 1 \in 1..Len(line[a])
    BY <1>3
  <2>2. packet \in Packet /\ f \in DOMAIN Flows /\ packet.number \in Nat
    BY <1>1, <2>1, PacketAt
  <2>3. first[f] < packet.number /\ packet.number =< last[f]
    BY <1>1, <2>1 DEF Between
  <2>4. first[f] \in Nat /\ last[f] \in Nat
    BY <1>1, <2>2 DEF Numbers
  <2> QED
    BY <2>1, <2>2, <2>3, <2>4
<1>5. PICK t \in Nat : Stop(f, a, t, packet.destination)
  BY <1>1, <1>4 DEF Placed
<1>6. t = 2 * Final(f) + 1
  <2>1. \A k : ~Comes(f, k, a, packet.destination) /\ ~Passes(f, k, a, packet.destination)
    BY DEF Comes, Passes, HeldAt
  <2> QED
    BY <1>5, <2>1 DEF Stop
<1>7. \A b \in Places : \A u, d : Stop(f, b, u, d) => u \in Nat /\ u =< t
  <2>1. Final(f) \in Nat /\ \A k \in Hops(f) : k \in 1..Final(f)
    BY <1>4, WayOf
  <2> QED
    BY <1>6, <2>1 DEF Stop
\* Everything else of the flow comes later.
<1>8. ASSUME NEW b \in Places, NEW n \in 1..Len(line[b]), line[b][n].flow = f, ~(b = a /\ n = 1)
      PROVE  packet.number < line[b][n].number
  <2>1. PICK u \in Nat : Stop(f, b, u, line[b][n].destination)
    BY <1>1, <1>8 DEF Placed
  <2>2. CASE u = t
    <3>1. b = a
      BY <1>4, <1>5, <2>1, <2>2, OnePlace
    <3>2. 1 < n
      BY <1>2, <1>8, <3>1
    <3>3. Ahead(line, a, 1, b, n)
      BY <1>8, <3>1, <3>2 DEF Ahead
    <3> QED
      BY <1>1, <1>4, <3>3 DEF Ordered
  <2>3. CASE u # t
    <3>1. u < t
      BY <1>7, <2>1, <2>3
    <3>2. Ahead(line, a, 1, b, n)
      BY <1>5, <1>8, <2>1, <3>1 DEF Ahead
    <3> QED
      BY <1>1, <1>4, <3>2 DEF Ordered
  <2> QED
    BY <2>2, <2>3
<1>9. packet.number = first[f] + 1
  <2>1. first[f] + 1 \in Nat /\ first[f] < first[f] + 1 /\ first[f] + 1 =< last[f]
    BY <1>4
  <2>2. PICK b \in Places : \E n \in 1..Len(line[b]) : line[b][n].flow = f /\ line[b][n].number = first[f] + 1
    BY <1>1, <1>4, <2>1 DEF Present
  <2>3. PICK n \in 1..Len(line[b]) : line[b][n].flow = f /\ line[b][n].number = first[f] + 1
    BY <2>2
  <2>4. CASE b = a /\ n = 1
    BY <2>3, <2>4
  <2>5. CASE ~(b = a /\ n = 1)
    <3>1. packet.number < first[f] + 1
      BY <1>8, <2>3, <2>5
    <3> QED
      BY <1>4, <3>1
  <2> QED
    BY <2>4, <2>5
<1>10. /\ after \in Lines /\ after[a] = Tail(line[a]) /\ \A c \in Places : c # a => after[c] = line[c]
  BY <1>1, <1>3 DEF Taken, Lines
<1>11. now \in Numbers /\ now[f] = packet.number /\ \A g \in DOMAIN Flows : g # f => now[g] = first[g]
  BY <1>1, <1>4 DEF Numbers
<1> DEFINE at(c, m) == IF c = a THEN m + 1 ELSE m
<1>12. ASSUME NEW c \in Places, NEW m \in 1..Len(after[c])
       PROVE  /\ at(c, m) \in 1..Len(line[c]) /\ after[c][m] = line[c][at(c, m)]
              /\ ~(c = a /\ at(c, m) = 1)
  <2> HIDE DEF after
  <2>1. CASE c = a
    <3>1. m \in 1..(Len(line[a]) - 1)
      BY <1>3, <1>10, <2>1
    <3>2. m + 1 \in 1..Len(line[a]) /\ m + 1 # 1
      BY <1>2, <3>1
    <3> QED
      BY <1>3, <1>10, <2>1, <3>1, <3>2
  <2>2. CASE c # a
    BY <1>10, <2>2
  <2> QED
    BY <2>1, <2>2
<1> HIDE DEF after, now, packet, f
<1>13. Placed(after)
  <2>1. ASSUME NEW c \in Places, NEW m \in 1..Len(after[c])
        PROVE  \E u \in Nat : Stop(after[c][m].flow, c, u, after[c][m].destination)
    <3>1. at(c, m) \in 1..Len(line[c]) /\ after[c][m] = line[c][at(c, m)]
      BY <1>12
    <3> HIDE DEF at
    <3> QED
      BY <1>1, <3>1 DEF Placed
  <2> QED
    BY <2>1 DEF Placed
<1>14. Ordered(after)
  <2>1. ASSUME NEW c \in Places, NEW d \in Places,
               NEW m \in 1..Len(after[c]), NEW n \in 1..Len(after[d]), Ahead(after, d, n, c, m)
        PROVE  after[d][n].number < after[c][m].number
    <3>1. /\ at(c, m) \in 1..Len(line[c]) /\ after[c][m] = line[c][at(c, m)]
          /\ at(d, n) \in 1..Len(line[d]) /\ after[d][n] = line[d][at(d, n)]
      BY <1>12
    <3>2. c = d /\ n < m => at(d, n) < at(c, m)
      OBVIOUS
    <3> HIDE DEF at
    <3>3. Ahead(line, d, at(d, n), c, at(c, m))
      BY <2>1, <3>1, <3>2 DEF Ahead
    <3> QED
      BY <1>1, <3>1, <3>3 DEF Ordered
  <2> QED
    BY <2>1 DEF Ordered
<1>15. Between(after, now, last)
  <2>1. ASSUME NEW c \in Places, NEW m \in 1..Len(after[c])
        PROVE  now[after[c][m].flow] < after[c][m].number /\ after[c][m].number =< last[after[c][m].flow]
    <3> DEFINE k == at(c, m)
    <3>1. k \in 1..Len(line[c]) /\ after[c][m] = line[c][k] /\ ~(c = a /\ k = 1)
      BY <1>12
    <3> HIDE DEF k
    <3>2. /\ first[line[c][k].flow] < line[c][k].number /\ line[c][k].number =< last[line[c][k].flow]
          /\ line[c][k].flow \in DOMAIN Flows
      BY <1>1, <3>1, PacketAt DEF Between
    <3>3. line[c][k].flow = f => packet.number < line[c][k].number
      BY <1>8, <3>1 DEF packet, f
    <3> QED
      BY <1>11, <3>1, <3>2, <3>3
  <2> QED
    BY <2>1 DEF Between
<1>16. Present(after, now, last)
  <2>1. ASSUME NEW g \in DOMAIN Flows, NEW x \in Nat, now[g] < x, x =< last[g]
        PROVE  \E c \in Places : \E m \in 1..Len(after[c]) :
                  after[c][m].flow = g /\ after[c][m].number = x
    <3>1. first[g] < x
      <4>1. CASE g = f
        BY <1>4, <1>11, <2>1, <4>1 DEF packet, f
      <4>2. CASE g # f
        BY <1>11, <2>1, <4>2
      <4> QED
        BY <4>1, <4>2
    <3>2. PICK c \in Places : \E m \in 1..Len(line[c]) : line[c][m].flow = g /\ line[c][m].number = x
      BY <1>1, <2>1, <3>1 DEF Present
    <3>3. PICK m \in 1..Len(line[c]) : line[c][m].flow = g /\ line[c][m].number = x
      BY <3>2
    <3>4. ~(c = a /\ m = 1)
      <4> SUFFICES ASSUME c = a, m = 1 PROVE FALSE
        OBVIOUS
      <4>1. packet = line[c][m]
        BY DEF packet
      <4>2. g = f /\ x = packet.number
        BY <3>3, <4>1 DEF f
      <4> QED
        BY <1>4, <1>11, <2>1, <4>2
    <3>5. CASE c = a
      <4>1. m - 1 \in 1..(Len(line[a]) - 1) /\ (m - 1) + 1 = m
        BY <1>2, <3>4, <3>5
      <4>2. m - 1 \in 1..Len(after[a]) /\ after[a][m - 1] = line[a][m]
        BY <1>3, <1>10, <4>1
      <4> QED
        BY <3>3, <3>5, <4>2
    <3>6. CASE c # a
      BY <1>10, <3>3, <3>6
    <3> QED
      BY <3>5, <3>6
  <2> QED
    BY <2>1 DEF Present
<1>17. InLine(after, now, last)
  BY <1>1, <1>10, <1>11, <1>13, <1>14, <1>15, <1>16 DEF InLine
<1> QED
  BY <1>9, <1>17 DEF after, now, packet, f

-----------------------------------------------------------------------------
(* The queues and hands of the routers as lines                            *)

Line == [p \in Places |->
  IF p.at = "held"
  THEN IF p.port = 0 /\ held[p.router] # None THEN <<held[p.router].packet>> ELSE <<>>
  ELSE IF p.port \notin Ports(p.router) THEN <<>>
  ELSE IF p.at = "in" THEN ocn_rd_if[p.router][p.port] ELSE ocn_wr_if[p.router][p.port]]

QueuesType ==
  /\ ocn_rd_if = [r \in Routers |-> [i \in Ports(r) |-> ocn_rd_if[r][i]]]
  /\ ocn_wr_if = [r \in Routers |-> [i \in Ports(r) |-> ocn_wr_if[r][i]]]
  /\ held = [r \in Routers |-> held[r]]

\* A router holds a packet for the port its flow goes on by.
HeldRight ==
  \A r \in Routers : held[r] # None =>
    \A k \in Hops(held[r].packet.flow) : Way[held[r].packet.flow][k].router = r =>
       held[r].port = Way[held[r].packet.flow][k].port

NetworkInv ==
  /\ InLine(Line, received, sent) /\ \A f \in DOMAIN Flows : received[f] =< sent[f]
  /\ QueuesType /\ HeldRight /\ failed = FALSE

\* Where no port is
Nowhere(p) == \/ p.at = "held" /\ p.port # 0
              \/ p.at # "held" /\ p.port \notin Ports(p.router)

LEMMA PlaceCases ==
  ASSUME NEW p \in Places
  PROVE  \/ \E r \in Routers : \E i \in Ports(r) : p = InAt(r, i) \/ p = OutAt(r, i)
         \/ \E r \in Routers : p = HeldAt(r)
         \/ Nowhere(p)
<1>1. /\ p.at \in {"in", "held", "out"} /\ p.router \in Routers
      /\ p = [at |-> p.at, router |-> p.router, port |-> p.port]
  BY DEF Places
<1> QED
  BY <1>1 DEF InAt, OutAt, HeldAt, Nowhere

LEMMA PlacesAre ==
  ASSUME NEW r \in Routers
  PROVE  /\ HeldAt(r) \in Places
         /\ \A i \in Ports(r) : InAt(r, i) \in Places /\ OutAt(r, i) \in Places
  BY PortsOf DEF HeldAt, InAt, OutAt, Places

LEMMA PlacesDiffer ==
  /\ \A r, s, i : HeldAt(r) # InAt(s, i) /\ HeldAt(r) # OutAt(s, i)
  /\ \A r, s, i, j : InAt(r, i) # OutAt(s, j)
  /\ \A r, s : HeldAt(r) = HeldAt(s) => r = s
  /\ \A r, s, i, j : InAt(r, i) = InAt(s, j) => r = s /\ i = j
  /\ \A r, s, i, j : OutAt(r, i) = OutAt(s, j) => r = s /\ i = j
  BY DEF HeldAt, InAt, OutAt

LEMMA LineIs ==
  /\ \A r \in Routers :
       /\ Line[HeldAt(r)] = IF held[r] # None THEN <<held[r].packet>> ELSE <<>>
       /\ \A i \in Ports(r) : /\ Line[InAt(r, i)] = ocn_rd_if[r][i]
                              /\ Line[OutAt(r, i)] = ocn_wr_if[r][i]
  /\ \A p \in Places : Nowhere(p) => Line[p] = <<>>
  /\ Line = [p \in Places |-> Line[p]]
<1>1. ASSUME NEW r \in Routers
      PROVE  Line[HeldAt(r)] = IF held[r] # None THEN <<held[r].packet>> ELSE <<>>
  BY PlacesAre DEF Line, HeldAt
<1>2. ASSUME NEW r \in Routers, NEW i \in Ports(r)
      PROVE  Line[InAt(r, i)] = ocn_rd_if[r][i] /\ Line[OutAt(r, i)] = ocn_wr_if[r][i]
  BY PlacesAre DEF Line, InAt, OutAt
<1>3. \A p \in Places : Nowhere(p) => Line[p] = <<>>
  BY DEF Line, Nowhere
<1> QED
  BY <1>1, <1>2, <1>3 DEF Line

LEMMA NextLineIs ==
  /\ \A r \in Routers :
       /\ Line'[HeldAt(r)] = IF held'[r] # None THEN <<held'[r].packet>> ELSE <<>>
       /\ \A i \in Ports(r) : /\ Line'[InAt(r, i)] = ocn_rd_if'[r][i]
                              /\ Line'[OutAt(r, i)] = ocn_wr_if'[r][i]
  /\ \A p \in Places : Nowhere(p) => Line'[p] = <<>>
  /\ Line' = [p \in Places |-> Line'[p]]
<1>1. ASSUME NEW r \in Routers
      PROVE  Line'[HeldAt(r)] = IF held'[r] # None THEN <<held'[r].packet>> ELSE <<>>
  BY PlacesAre DEF Line, HeldAt
<1>2. ASSUME NEW r \in Routers, NEW i \in Ports(r)
      PROVE  Line'[InAt(r, i)] = ocn_rd_if'[r][i] /\ Line'[OutAt(r, i)] = ocn_wr_if'[r][i]
  BY PlacesAre DEF Line, InAt, OutAt
<1>3. \A p \in Places : Nowhere(p) => Line'[p] = <<>>
  BY DEF Line, Nowhere
<1> QED
  BY <1>1, <1>2, <1>3 DEF Line

\* Two functions on places that agree
OnPlaces(f) == f = [p \in Places |-> f[p]]

Agree(f, g) ==
  /\ \A r \in Routers : /\ f[HeldAt(r)] = g[HeldAt(r)]
                        /\ \A i \in Ports(r) : /\ f[InAt(r, i)] = g[InAt(r, i)]
                                               /\ f[OutAt(r, i)] = g[OutAt(r, i)]
  /\ \A p \in Places : Nowhere(p) => f[p] = g[p]

LEMMA SameLine ==
  ASSUME NEW f, NEW g, OnPlaces(f), OnPlaces(g), Agree(f, g)
  PROVE  f = g
<1>1. ASSUME NEW p \in Places PROVE f[p] = g[p]
  BY PlaceCases DEF Agree
<1> QED
  BY <1>1 DEF OnPlaces

LEMMA QueueAt ==
  ASSUME NetworkInv, NEW r \in Routers
  PROVE  /\ \A i \in Ports(r) : ocn_rd_if[r][i] \in Seq(Packet) /\ ocn_wr_if[r][i] \in Seq(Packet)
         /\ held[r] # None => held[r].packet \in Packet
<1>1. Line \in Lines
  BY DEF NetworkInv, InLine
<1>2. \A i \in Ports(r) : ocn_rd_if[r][i] \in Seq(Packet) /\ ocn_wr_if[r][i] \in Seq(Packet)
  <2>1. ASSUME NEW i \in Ports(r)
        PROVE  ocn_rd_if[r][i] \in Seq(Packet) /\ ocn_wr_if[r][i] \in Seq(Packet)
    <3>1. InAt(r, i) \in Places /\ OutAt(r, i) \in Places
      BY PlacesAre
    <3>2. Line[InAt(r, i)] = ocn_rd_if[r][i] /\ Line[OutAt(r, i)] = ocn_wr_if[r][i]
      BY LineIs
    <3> QED
      BY <1>1, <3>1, <3>2 DEF Lines
  <2> QED
    BY <2>1
<1>3. ASSUME held[r] # None PROVE held[r].packet \in Packet
  <2>1. Line[HeldAt(r)] = <<held[r].packet>> /\ Line[HeldAt(r)] \in Seq(Packet)
    BY <1>1, <1>3, LineIs, PlacesAre DEF Lines
  <2>2. Len(<<held[r].packet>>) = 1 /\ <<held[r].packet>>[1] = held[r].packet
    OBVIOUS
  <2> QED
    BY <2>1, <2>2, ElementOfSeq
<1> QED
  BY <1>2, <1>3

-----------------------------------------------------------------------------
(* What the steps of the network do to the lines                           *)

LEMMA InChanges ==
  ASSUME QueuesType, NEW r \in Routers, NEW i \in Ports(r), NEW queue,
         ocn_rd_if' = [ocn_rd_if EXCEPT ![r][i] = queue]
  PROVE  /\ Line'[InAt(r, i)] = queue
         /\ \A s \in Routers : \A j \in Ports(s) :
              InAt(s, j) # InAt(r, i) => Line'[InAt(s, j)] = Line[InAt(s, j)]
         /\ ocn_rd_if' = [s \in Routers |-> [j \in Ports(s) |-> ocn_rd_if'[s][j]]]
<1>1. ocn_rd_if'[r][i] = queue
  BY DEF QueuesType
<1>2. ASSUME NEW s \in Routers, NEW j \in Ports(s), ~(s = r /\ j = i)
      PROVE  ocn_rd_if'[s][j] = ocn_rd_if[s][j]
  <2>1. ocn_rd_if = [h \in Routers |-> [k \in Ports(h) |-> ocn_rd_if[h][k]]]
    BY DEF QueuesType
  <2>2. CASE s # r
    BY <2>1, <2>2
  <2>3. CASE s = r /\ j # i
    BY <2>1, <2>3
  <2> QED
    BY <1>2, <2>2, <2>3
<1>3. ocn_rd_if' = [s \in Routers |-> [j \in Ports(s) |-> ocn_rd_if'[s][j]]]
  <2>1. ocn_rd_if = [h \in Routers |-> [k \in Ports(h) |-> ocn_rd_if[h][k]]]
    BY DEF QueuesType
  <2>2. \A s \in Routers : ocn_rd_if[s] = [j \in Ports(s) |-> ocn_rd_if[s][j]]
    BY <2>1
  <2>3. /\ ocn_rd_if' = [s \in Routers |-> ocn_rd_if'[s]]
        /\ ocn_rd_if'[r] = [ocn_rd_if[r] EXCEPT ![i] = queue]
        /\ \A s \in Routers : s # r => ocn_rd_if'[s] = ocn_rd_if[s]
    BY <2>1
  <2>4. ASSUME NEW s \in Routers PROVE ocn_rd_if'[s] = [j \in Ports(s) |-> ocn_rd_if'[s][j]]
    BY <2>2, <2>3
  <2> QED
    BY <2>3, <2>4
<1>4. ASSUME NEW s \in Routers, NEW j \in Ports(s), InAt(s, j) # InAt(r, i)
      PROVE  Line'[InAt(s, j)] = Line[InAt(s, j)]
  <2>1. ocn_rd_if'[s][j] = ocn_rd_if[s][j]
    BY <1>2, <1>4
  <2>2. Line'[InAt(s, j)] = ocn_rd_if'[s][j]
    BY NextLineIs
  <2>3. Line[InAt(s, j)] = ocn_rd_if[s][j]
    BY LineIs
  <2> QED
    BY <2>1, <2>2, <2>3
<1> QED
  BY <1>1, <1>3, <1>4, NextLineIs

LEMMA OutChanges ==
  ASSUME QueuesType, NEW r \in Routers, NEW i \in Ports(r), NEW queue,
         ocn_wr_if' = [ocn_wr_if EXCEPT ![r][i] = queue]
  PROVE  /\ Line'[OutAt(r, i)] = queue
         /\ \A s \in Routers : \A j \in Ports(s) :
              OutAt(s, j) # OutAt(r, i) => Line'[OutAt(s, j)] = Line[OutAt(s, j)]
         /\ ocn_wr_if' = [s \in Routers |-> [j \in Ports(s) |-> ocn_wr_if'[s][j]]]
<1>1. ocn_wr_if'[r][i] = queue
  BY DEF QueuesType
<1>2. ASSUME NEW s \in Routers, NEW j \in Ports(s), ~(s = r /\ j = i)
      PROVE  ocn_wr_if'[s][j] = ocn_wr_if[s][j]
  <2>1. ocn_wr_if = [h \in Routers |-> [k \in Ports(h) |-> ocn_wr_if[h][k]]]
    BY DEF QueuesType
  <2>2. CASE s # r
    BY <2>1, <2>2
  <2>3. CASE s = r /\ j # i
    BY <2>1, <2>3
  <2> QED
    BY <1>2, <2>2, <2>3
<1>3. ocn_wr_if' = [s \in Routers |-> [j \in Ports(s) |-> ocn_wr_if'[s][j]]]
  <2>1. ocn_wr_if = [h \in Routers |-> [k \in Ports(h) |-> ocn_wr_if[h][k]]]
    BY DEF QueuesType
  <2>2. \A s \in Routers : ocn_wr_if[s] = [j \in Ports(s) |-> ocn_wr_if[s][j]]
    BY <2>1
  <2>3. /\ ocn_wr_if' = [s \in Routers |-> ocn_wr_if'[s]]
        /\ ocn_wr_if'[r] = [ocn_wr_if[r] EXCEPT ![i] = queue]
        /\ \A s \in Routers : s # r => ocn_wr_if'[s] = ocn_wr_if[s]
    BY <2>1
  <2>4. ASSUME NEW s \in Routers PROVE ocn_wr_if'[s] = [j \in Ports(s) |-> ocn_wr_if'[s][j]]
    BY <2>2, <2>3
  <2> QED
    BY <2>3, <2>4
<1>4. ASSUME NEW s \in Routers, NEW j \in Ports(s), OutAt(s, j) # OutAt(r, i)
      PROVE  Line'[OutAt(s, j)] = Line[OutAt(s, j)]
  <2>1. ocn_wr_if'[s][j] = ocn_wr_if[s][j]
    BY <1>2, <1>4
  <2>2. Line'[OutAt(s, j)] = ocn_wr_if'[s][j]
    BY NextLineIs
  <2>3. Line[OutAt(s, j)] = ocn_wr_if[s][j]
    BY LineIs
  <2> QED
    BY <2>1, <2>2, <2>3
<1> QED
  BY <1>1, <1>3, <1>4, NextLineIs

LEMMA HeldChanges ==
  ASSUME QueuesType, NEW r \in Routers, NEW hand, held' = [held EXCEPT ![r] = hand]
  PROVE  /\ hand = None => Line'[HeldAt(r)] = <<>>
         /\ hand # None => Line'[HeldAt(r)] = <<hand.packet>>
         /\ \A s \in Routers : HeldAt(s) # HeldAt(r) => Line'[HeldAt(s)] = Line[HeldAt(s)]
         /\ held' = [s \in Routers |-> held'[s]] /\ held'[r] = hand
         /\ \A s \in Routers : s # r => held'[s] = held[s]
<1>1. /\ held'[r] = hand /\ \A s \in Routers : s # r => held'[s] = held[s]
      /\ held' = [s \in Routers |-> held'[s]]
  BY DEF QueuesType
<1>2. Line'[HeldAt(r)] = IF held'[r] # None THEN <<held'[r].packet>> ELSE <<>>
  BY NextLineIs
<1>3. ASSUME NEW s \in Routers, HeldAt(s) # HeldAt(r)
      PROVE  Line'[HeldAt(s)] = Line[HeldAt(s)]
  <2>1. held'[s] = held[s]
    BY <1>1, <1>3
  <2>2. Line'[HeldAt(s)] = IF held'[s] # None THEN <<held'[s].packet>> ELSE <<>>
    BY NextLineIs
  <2>3. Line[HeldAt(s)] = IF held[s] # None THEN <<held[s].packet>> ELSE <<>>
    BY LineIs
  <2> QED
    BY <2>1, <2>2, <2>3
<1> QED
  BY <1>1, <1>2, <1>3

LEMMA NoChanges ==
  /\ ocn_rd_if' = ocn_rd_if =>
       \A s \in Routers : \A j \in Ports(s) : Line'[InAt(s, j)] = Line[InAt(s, j)]
  /\ ocn_wr_if' = ocn_wr_if =>
       \A s \in Routers : \A j \in Ports(s) : Line'[OutAt(s, j)] = Line[OutAt(s, j)]
<1>1. ASSUME NEW s \in Routers, NEW j \in Ports(s)
      PROVE  /\ Line'[InAt(s, j)] = ocn_rd_if'[s][j] /\ Line'[OutAt(s, j)] = ocn_wr_if'[s][j]
             /\ Line[InAt(s, j)] = ocn_rd_if[s][j] /\ Line[OutAt(s, j)] = ocn_wr_if[s][j]
  BY LineIs, NextLineIs
<1> QED
  BY <1>1

\* All lines but two stay.
LEMMA LineMoves ==
  ASSUME NEW a \in Places, NEW b \in Places, a # b, ~Nowhere(a), ~Nowhere(b), NEW packet,
         Line'[a] = Tail(Line[a]), Line'[b] = Append(Line[b], packet),
         \A s \in Routers :
           /\ HeldAt(s) # a /\ HeldAt(s) # b => Line'[HeldAt(s)] = Line[HeldAt(s)]
           /\ \A j \in Ports(s) :
                /\ InAt(s, j) # a /\ InAt(s, j) # b => Line'[InAt(s, j)] = Line[InAt(s, j)]
                /\ OutAt(s, j) # a /\ OutAt(s, j) # b => Line'[OutAt(s, j)] = Line[OutAt(s, j)]
  PROVE  Line' = Moved(Line, a, b, packet)
<1> DEFINE after == Moved(Line, a, b, packet)
<1>1. /\ OnPlaces(after) /\ after[a] = Tail(Line[a]) /\ after[b] = Append(Line[b], packet)
      /\ \A p \in Places : p # a /\ p # b => after[p] = Line[p]
  BY LineIs DEF Moved, OnPlaces
<1>2. OnPlaces(Line')
  BY NextLineIs DEF OnPlaces
<1> HIDE DEF after
<1>3. ASSUME NEW p \in Places PROVE Line'[p] = after[p]
  <2>1. CASE p = a \/ p = b
    BY <1>1, <2>1
  <2>2. CASE p # a /\ p # b
    <3>1. Line'[p] = Line[p]
      <4>1. CASE Nowhere(p)
        BY <4>1, LineIs, NextLineIs
      <4>2. CASE \E r \in Routers : p = HeldAt(r)
        BY <2>2, <4>2
      <4>3. CASE \E r \in Routers : \E i \in Ports(r) : p = InAt(r, i) \/ p = OutAt(r, i)
        BY <2>2, <4>3
      <4> QED
        BY <4>1, <4>2, <4>3, PlaceCases
    <3> QED
      BY <1>1, <2>2, <3>1
  <2> QED
    BY <2>1, <2>2
<1>4. Line' = after
  BY <1>1, <1>2, <1>3 DEF OnPlaces
<1> QED
  BY <1>4 DEF after

LEMMA LineTaken ==
  ASSUME NEW a \in Places, Line'[a] = Tail(Line[a]), ~Nowhere(a),
         \A s \in Routers :
           /\ HeldAt(s) # a => Line'[HeldAt(s)] = Line[HeldAt(s)]
           /\ \A j \in Ports(s) : /\ InAt(s, j) # a => Line'[InAt(s, j)] = Line[InAt(s, j)]
                                  /\ OutAt(s, j) # a => Line'[OutAt(s, j)] = Line[OutAt(s, j)]
  PROVE  Line' = Taken(Line, a)
<1> DEFINE after == Taken(Line, a)
<1>1. /\ OnPlaces(after) /\ after[a] = Tail(Line[a])
      /\ \A p \in Places : p # a => after[p] = Line[p]
  BY LineIs DEF Taken, OnPlaces
<1>2. OnPlaces(Line')
  BY NextLineIs DEF OnPlaces
<1> HIDE DEF after
<1>3. ASSUME NEW p \in Places PROVE Line'[p] = after[p]
  <2>1. CASE p = a
    BY <1>1, <2>1
  <2>2. CASE p # a
    <3>1. Line'[p] = Line[p]
      <4>1. CASE Nowhere(p)
        BY <4>1, LineIs, NextLineIs
      <4>2. CASE \E r \in Routers : p = HeldAt(r)
        BY <2>2, <4>2
      <4>3. CASE \E r \in Routers : \E i \in Ports(r) : p = InAt(r, i) \/ p = OutAt(r, i)
        BY <2>2, <4>3
      <4> QED
        BY <4>1, <4>2, <4>3, PlaceCases
    <3> QED
      BY <1>1, <2>2, <3>1
  <2> QED
    BY <2>1, <2>2
<1>4. Line' = after
  BY <1>1, <1>2, <1>3 DEF OnPlaces
<1> QED
  BY <1>4 DEF after

LEMMA NotNowhere ==
  ASSUME NEW r \in Routers
  PROVE  /\ ~Nowhere(HeldAt(r))
         /\ \A i \in Ports(r) : ~Nowhere(InAt(r, i)) /\ ~Nowhere(OutAt(r, i))
  BY DEF Nowhere, HeldAt, InAt, OutAt

LEMMA SendKeeps ==
  ASSUME Leads, NetworkInv, NEW f \in DOMAIN Flows, Send(f)
  PROVE  NetworkInv' /\ received' = received
<1> DEFINE r == Flows[f].first
           packet == [flow |-> f, number |-> sent[f] + 1, destination |-> Flows[f].destination]
<1>1. PICK i \in Ports(r) :
        /\ Behind(r, i) = Flows[f].from
        /\ ocn_rd_if' = [ocn_rd_if EXCEPT ![r][i] = Append(@, packet)]
        /\ ocn_wr_if' = ocn_wr_if /\ sent' = [sent EXCEPT ![f] = @ + 1]
        /\ held' = held /\ received' = received /\ failed' = failed
  BY DEF Send, PutIn
<1>2. /\ InLine(Line, received, sent) /\ QueuesType /\ HeldRight /\ failed = FALSE
      /\ sent \in Numbers /\ received \in Numbers /\ \A g \in DOMAIN Flows : received[g] =< sent[g]
  BY DEF NetworkInv, InLine
<1>3. /\ Way[f][1].router = r /\ Way[f][1].destination = Flows[f].destination
      /\ 1 \in Hops(f) /\ r \in Routers
  BY WayOf DEF Leads
<1>4. packet \in Packet
  <2>1. Flows[f].destination \in Destinations
    <3>1. 1 \in Nat /\ Way[f][1].destination = Flows[f].destination
      BY <1>3
    <3> QED
      BY <3>1 DEF Destinations
  <2>2. sent[f] + 1 \in Nat
    BY <1>2 DEF Numbers
  <2> QED
    BY <2>1, <2>2 DEF Packet
<1> DEFINE b == InAt(r, i)
<1>5. b \in Places
  BY <1>3, PlacesAre
<1>6. Stop(f, b, 1, packet.destination)
  <2>1. Comes(f, 1, b, packet.destination)
    BY <1>1, <1>3 DEF Comes, InAt, From
  <2>2. 1 = 2 * 1 - 1
    OBVIOUS
  <2> HIDE DEF b, packet
  <2>3. \E k \in Hops(f) : 1 = 2 * k - 1 /\ Comes(f, k, b, packet.destination)
    BY <1>3, <2>1, <2>2
  <2> QED
    BY <2>3 DEF Stop
<1> HIDE DEF packet, r
<1>7. QueuesType'
  <2> DEFINE queue == Append(ocn_rd_if[r][i], packet)
  <2>1. ocn_rd_if' = [ocn_rd_if EXCEPT ![r][i] = queue] /\ QueuesType
    BY <1>1, <1>2
  <2> HIDE DEF queue
  <2>2. ocn_rd_if' = [s \in Routers |-> [j \in Ports(s) |-> ocn_rd_if'[s][j]]]
    BY ONLY <1>3, <2>1, i \in Ports(r), InChanges
  <2> QED
    BY <1>1, <1>2, <2>2 DEF QueuesType
<1>8. Line' = Added(Line, b, packet)
  <2> DEFINE after == Added(Line, b, packet)
  <2>1. /\ after = [p \in Places |-> after[p]]
        /\ after[b] = Append(Line[b], packet) /\ \A p \in Places : p # b => after[p] = Line[p]
    BY <1>5, LineIs DEF Added
  <2>2. Line[b] = ocn_rd_if[r][i]
    BY <1>3, LineIs
  <2> HIDE DEF after
  <2>3. ASSUME NEW s \in Routers
        PROVE  Line'[HeldAt(s)] = after[HeldAt(s)]
    <3>1. HeldAt(s) # b /\ HeldAt(s) \in Places
      BY PlacesAre, PlacesDiffer
    <3>2. held'[s] = held[s]
      BY <1>1
    <3>3. Line'[HeldAt(s)] = Line[HeldAt(s)]
      <4>1. Line'[HeldAt(s)] = IF held'[s] # None THEN <<held'[s].packet>> ELSE <<>>
        BY NextLineIs
      <4>2. Line[HeldAt(s)] = IF held[s] # None THEN <<held[s].packet>> ELSE <<>>
        BY LineIs
      <4> QED
        BY <3>2, <4>1, <4>2
    <3> HIDE DEF b
    <3> QED
      BY <2>1, <3>1, <3>3
  <2>4. ASSUME NEW s \in Routers, NEW j \in Ports(s)
        PROVE  Line'[InAt(s, j)] = after[InAt(s, j)]
    <3>1. CASE s = r /\ j = i
      <4>1. ocn_rd_if'[r][i] = Append(ocn_rd_if[r][i], packet)
        BY <1>1, <1>2, <1>3 DEF QueuesType
      <4> QED
        BY <1>3, <2>1, <2>2, <3>1, <4>1, NextLineIs
    <3>2. CASE ~(s = r /\ j = i)
      <4>1. ocn_rd_if'[s][j] = ocn_rd_if[s][j]
        BY <1>1, <1>2, <1>3, <3>2 DEF QueuesType
      <4>2. InAt(s, j) # b /\ InAt(s, j) \in Places
        BY <3>2, PlacesDiffer, PlacesAre
      <4> QED
        BY <2>1, <4>1, <4>2, LineIs, NextLineIs
    <3> QED
      BY <3>1, <3>2
  <2>5. ASSUME NEW s \in Routers, NEW j \in Ports(s)
        PROVE  Line'[OutAt(s, j)] = after[OutAt(s, j)]
    <3>1. OutAt(s, j) # b /\ OutAt(s, j) \in Places
      BY PlacesAre, PlacesDiffer
    <3>2. ocn_wr_if'[s][j] = ocn_wr_if[s][j]
      BY <1>1
    <3> HIDE DEF b
    <3> QED
      BY <2>1, <3>1, <3>2, LineIs, NextLineIs
  <2>6. ASSUME NEW p \in Places, Nowhere(p)
        PROVE  Line'[p] = after[p]
    <3>1. p # b
      BY <1>3, <2>6 DEF Nowhere, InAt
    <3> QED
      BY <2>1, <2>6, <3>1, LineIs, NextLineIs
  <2>7. OnPlaces(Line') /\ OnPlaces(after)
    BY <2>1, NextLineIs DEF OnPlaces
  <2>8. Agree(Line', after)
    BY <2>3, <2>4, <2>5, <2>6 DEF Agree
  <2>9. Line' = after
    BY <2>7, <2>8, SameLine
  <2> QED
    BY <2>9 DEF after
<1>9. /\ packet.flow = f /\ packet.number = sent[f] + 1
  BY DEF packet
<1> HIDE DEF b
<1>10. InLine(Added(Line, b, packet), received, sent')
  BY <1>1, <1>2, <1>4, <1>5, <1>6, <1>9, AddKeeps
<1>11. \A g \in DOMAIN Flows : received'[g] =< sent'[g]
  BY <1>1, <1>2 DEF Numbers
<1>12. HeldRight'
  BY <1>1, <1>2 DEF HeldRight
<1> QED
  BY <1>1, <1>2, <1>7, <1>8, <1>10, <1>11, <1>12 DEF NetworkInv

LEMMA PortsFound ==
  ASSUME NEW r \in Routers, NEW name
  PROVE  DetermineOutputPortNumber(r, name) \subseteq Ports(r)
  BY DEF DetermineOutputPortNumber, SearchinConnectedNodes

\* A packet is at the stage of its way that its place says.
LEMMA StageOf ==
  ASSUME Leads, NetworkInv, NEW a \in Places, NEW packet, Line[a] # <<>>, packet = Line[a][1]
  PROVE  /\ packet \in Packet /\ packet.flow \in DOMAIN Flows /\ packet.number \in Nat
         /\ a.at = "in" => \E k \in Hops(packet.flow) :
              /\ Stop(packet.flow, a, 2 * k - 1, packet.destination)
              /\ Comes(packet.flow, k, a, packet.destination)
         /\ a.at = "held" => \E k \in Hops(packet.flow) :
              /\ Stop(packet.flow, a, 2 * k, packet.destination)
              /\ Passes(packet.flow, k, a, packet.destination)
         /\ a.at = "out" => Arrived(packet.flow, a, packet.destination)
<1>1. Line \in Lines /\ Placed(Line)
  BY DEF NetworkInv, InLine
<1>2. 1 \in 1..Len(Line[a])
  <2>1. Line[a] \in Seq(Packet) /\ Len(Line[a]) \in Nat
    BY <1>1, PacketAt
  <2> QED
    BY <2>1, EmptySeq
<1>3. packet \in Packet /\ packet.flow \in DOMAIN Flows /\ packet.number \in Nat
  BY <1>1, <1>2, PacketAt
<1>4. PICK t \in Nat : Stop(packet.flow, a, t, packet.destination)
  BY <1>1, <1>2 DEF Placed
<1>s. \/ \E k \in Hops(packet.flow) : t = 2 * k - 1 /\ Comes(packet.flow, k, a, packet.destination)
      \/ \E k \in Hops(packet.flow) : t = 2 * k /\ Passes(packet.flow, k, a, packet.destination)
      \/ t = 2 * Final(packet.flow) + 1 /\ Arrived(packet.flow, a, packet.destination)
  BY <1>4 DEF Stop
<1>5. a.at = "in" => \E k \in Hops(packet.flow) : t = 2 * k - 1 /\ Comes(packet.flow, k, a, packet.destination)
  <2>1. /\ \A k : a.at = "in" => ~Passes(packet.flow, k, a, packet.destination)
        /\ a.at = "in" => ~Arrived(packet.flow, a, packet.destination)
    BY DEF Passes, Arrived, HeldAt, OutAt
  <2> QED
    BY <1>s, <2>1
<1>6. a.at = "held" => \E k \in Hops(packet.flow) : t = 2 * k /\ Passes(packet.flow, k, a, packet.destination)
  <2>1. /\ \A k : a.at = "held" => ~Comes(packet.flow, k, a, packet.destination)
        /\ a.at = "held" => ~Arrived(packet.flow, a, packet.destination)
    BY DEF Comes, Arrived, OutAt
  <2> QED
    BY <1>s, <2>1
<1>7. a.at = "out" => Arrived(packet.flow, a, packet.destination)
  <2>1. /\ \A k : a.at = "out" => ~Comes(packet.flow, k, a, packet.destination)
        /\ \A k : a.at = "out" => ~Passes(packet.flow, k, a, packet.destination)
    BY DEF Comes, Passes, HeldAt
  <2> QED
    BY <1>s, <2>1
<1> QED
  BY <1>3, <1>4, <1>5, <1>6, <1>7

LEMMA GetKeeps ==
  ASSUME Leads, NetworkInv, NEW r \in Routers, Get(r)
  PROVE  NetworkInv' /\ received' = received
<1>1. PICK i \in Ports(r) :
        /\ held[r] = None /\ NextPort(r, i)
        /\ ocn_rd_if' = [ocn_rd_if EXCEPT ![r][i] = Tail(@)]
        /\ Route(r, Head(ocn_rd_if[r][i]))
        /\ ocn_wr_if' = ocn_wr_if /\ sent' = sent /\ received' = received
  BY DEF Get
<1>2. /\ InLine(Line, received, sent) /\ QueuesType /\ HeldRight /\ failed = FALSE
      /\ \A f \in DOMAIN Flows : received[f] =< sent[f]
  BY DEF NetworkInv
<1> DEFINE a == InAt(r, i)
           b == HeldAt(r)
           packet == Head(ocn_rd_if[r][i])
           f == packet.flow
           out == [packet EXCEPT !.destination = Left(r, packet.destination)]
<1>3. a \in Places /\ b \in Places /\ a # b /\ ~Nowhere(a) /\ ~Nowhere(b) /\ a.at = "in"
  BY PlacesAre, PlacesDiffer, NotNowhere DEF InAt
<1>4. Line[a] = ocn_rd_if[r][i] /\ Line[a] # <<>> /\ packet = Line[a][1] /\ Line[b] = <<>>
  <2>1. Line[a] = ocn_rd_if[r][i]
    BY LineIs
  <2>2. Line[b] = IF held[r] # None THEN <<held[r].packet>> ELSE <<>>
    BY LineIs
  <2>3. ocn_rd_if[r][i] # <<>> /\ ocn_rd_if[r][i] \in Seq(Packet)
    BY <1>1, QueueAt DEF NextPort, nb_can_get
  <2>4. Head(ocn_rd_if[r][i]) = ocn_rd_if[r][i][1]
    BY <2>3
  <2> QED
    BY <1>1, <2>1, <2>2, <2>3, <2>4
<1>5. packet \in Packet /\ f \in DOMAIN Flows
  BY <1>3, <1>4, StageOf
<1>6. PICK k \in Hops(f) : Stop(f, a, 2 * k - 1, packet.destination) /\ Comes(f, k, a, packet.destination)
  BY <1>3, <1>4, StageOf
<1>7. Way[f][k].router = r /\ Way[f][k].destination = packet.destination /\ k \in Nat \ {0}
  BY <1>5, <1>6, WayOf DEF Comes, InAt
<1>8. /\ Way[f][k].port \in DetermineOutputPortNumber(r, Head(packet.destination))
      /\ \A port \in DetermineOutputPortNumber(r, Head(packet.destination)) :
           Way[f][k].port <= port
  <2>1. /\ Way[f][k].port \in
             DetermineOutputPortNumber(Way[f][k].router, Head(Way[f][k].destination))
        /\ \A port \in
             DetermineOutputPortNumber(Way[f][k].router, Head(Way[f][k].destination)) :
               Way[f][k].port <= port
    <3> HIDE DEF f
    <3> QED
      BY <1>5, <1>6 DEF Leads
  <2> QED
    BY <1>7, <2>1
<1> DEFINE hand == [port |-> Way[f][k].port, packet |-> out]
<1>9. held' = [held EXCEPT ![r] = hand] /\ failed' = failed
  <2> DEFINE dest == EvaluateHierarchicalDestination(packet.destination)
             ports == DetermineOutputPortNumber(r, dest.sendto)
  <2>1. dest.sendto = Head(packet.destination)
    BY DEF EvaluateHierarchicalDestination
  <2>2. ports # {}
    BY <1>8, <2>1
  <2>3. PICK port \in ports :
          /\ \A other \in ports : port <= other
          /\ held' = [held EXCEPT ![r] =
               [port   |-> port,
                packet |-> IF SearchinConnectedNodes(r, dest.sendto) # {}
                           THEN [packet EXCEPT !.destination = dest.setdestinationto]
                           ELSE packet]]
          /\ failed' = failed
    BY <1>1, <2>2 DEF Route
  <2>4. port = Way[f][k].port
    <3>1. port <= Way[f][k].port /\ Way[f][k].port <= port
      BY <1>8, <2>1, <2>3
    <3>2. port \in Nat /\ Way[f][k].port \in Nat
      BY <1>8, <2>1, <2>3, PortsFound, PortsOf
    <3> QED
      BY <3>1, <3>2
  <2>5. out = IF SearchinConnectedNodes(r, dest.sendto) # {}
              THEN [packet EXCEPT !.destination = dest.setdestinationto] ELSE packet
    <3>1. packet = [packet EXCEPT !.destination = packet.destination]
      BY <1>5 DEF Packet
    <3> HIDE DEF packet, dest
    <3>2. Left(r, packet.destination) =
            IF SearchinConnectedNodes(r, dest.sendto) # {}
            THEN dest.setdestinationto ELSE packet.destination
      BY <2>1 DEF Left, dest
    <3> QED
      BY <3>1, <3>2
  <2> QED
    BY <2>3, <2>4, <2>5
<1>10. /\ out \in Packet /\ out.flow = f /\ out.number = packet.number
       /\ out.destination = Left(r, packet.destination)
  <2>1. Left(r, packet.destination) \in Destinations
    BY <1>5, <1>7 DEF Destinations
  <2> QED
    BY <1>5, <2>1 DEF Packet
<1>11. hand # None /\ hand.packet = out /\ hand.port = Way[f][k].port
  BY DEF None
<1> HIDE DEF hand, out, packet
<1>12. /\ 2 * k - 1 \in Nat /\ Stop(out.flow, b, (2 * k - 1) + 1, out.destination)
  <2>1. (2 * k - 1) + 1 = 2 * k /\ 2 * k - 1 \in Nat
    BY <1>7
  <2>2. Passes(f, k, b, out.destination)
    BY <1>7, <1>10 DEF Passes
  <2> HIDE DEF b, f
  <2> QED
    BY <1>6, <1>10, <2>1, <2>2 DEF Stop
<1>13. /\ Line'[a] = Tail(Line[a])
       /\ \A s \in Routers : \A j \in Ports(s) :
            InAt(s, j) # a => Line'[InAt(s, j)] = Line[InAt(s, j)]
       /\ ocn_rd_if' = [s \in Routers |-> [j \in Ports(s) |-> ocn_rd_if'[s][j]]]
  <2> DEFINE queue == Tail(ocn_rd_if[r][i])
  <2>1. ocn_rd_if' = [ocn_rd_if EXCEPT ![r][i] = queue] /\ QueuesType
    BY <1>1, <1>2
  <2> HIDE DEF queue
  <2>2. Line'[InAt(r, i)] = queue
    BY ONLY <2>1, i \in Ports(r), r \in Routers, InChanges
  <2>3. /\ \A s \in Routers : \A j \in Ports(s) :
             InAt(s, j) # InAt(r, i) => Line'[InAt(s, j)] = Line[InAt(s, j)]
        /\ ocn_rd_if' = [s \in Routers |-> [j \in Ports(s) |-> ocn_rd_if'[s][j]]]
    BY ONLY <2>1, i \in Ports(r), r \in Routers, InChanges
  <2> QED
    BY <1>4, <2>2, <2>3 DEF queue
<1>14. /\ Line'[b] = <<out>> /\ held'[r] = hand
       /\ \A s \in Routers : HeldAt(s) # b => Line'[HeldAt(s)] = Line[HeldAt(s)]
       /\ held' = [s \in Routers |-> held'[s]]
       /\ \A s \in Routers : s # r => held'[s] = held[s]
  BY <1>2, <1>9, <1>11, HeldChanges
<1>15. \A s \in Routers : \A j \in Ports(s) : Line'[OutAt(s, j)] = Line[OutAt(s, j)]
  BY <1>1, NoChanges
<1>16. Line' = Moved(Line, a, b, out)
  <2>1. Line'[b] = Append(Line[b], out)
    BY <1>4, <1>14
  <2> HIDE DEF a, b
  <2>2. \A s \in Routers :
          /\ HeldAt(s) # a /\ HeldAt(s) # b => Line'[HeldAt(s)] = Line[HeldAt(s)]
          /\ \A j \in Ports(s) :
               /\ InAt(s, j) # a /\ InAt(s, j) # b => Line'[InAt(s, j)] = Line[InAt(s, j)]
               /\ OutAt(s, j) # a /\ OutAt(s, j) # b => Line'[OutAt(s, j)] = Line[OutAt(s, j)]
    BY <1>13, <1>14, <1>15
  <2>3. Line'[a] = Tail(Line[a])
    BY <1>13
  <2> QED
    BY ONLY <1>3, <2>1, <2>2, <2>3, LineMoves
<1>17. InLine(Moved(Line, a, b, out), received, sent)
  <2> DEFINE t == 2 * k - 1
  <2>1. t \in Nat /\ Stop(out.flow, a, t, Line[a][1].destination) /\ Stop(out.flow, b, t + 1, out.destination)
    BY <1>4, <1>6, <1>10, <1>12
  <2>2. out.flow = Line[a][1].flow /\ out.number = Line[a][1].number
    BY <1>4, <1>10
  <2> HIDE DEF a, b, t
  <2> QED
    BY <1>2, <1>3, <1>4, <1>10, <2>1, <2>2, MoveKeeps
<1>18. QueuesType'
  BY <1>1, <1>2, <1>13, <1>14 DEF QueuesType
<1>19. HeldRight'
  <2>1. ASSUME NEW s \in Routers, held'[s] # None, NEW j \in Hops(held'[s].packet.flow),
               Way[held'[s].packet.flow][j].router = s
        PROVE  held'[s].port = Way[held'[s].packet.flow][j].port
    <3>1. CASE s # r
      BY <1>2, <1>14, <2>1, <3>1 DEF HeldRight
    <3>2. CASE s = r
      <4>1. held'[s].packet.flow = f /\ held'[s].port = Way[f][k].port
        BY <1>10, <1>11, <1>14, <3>2
      <4>2. j = k
        BY <1>5, <1>7, <2>1, <3>2, <4>1, WayOf
      <4> QED
        BY <4>1, <4>2
    <3> QED
      BY <3>1, <3>2
  <2> QED
    BY <2>1 DEF HeldRight
<1> QED
  BY <1>1, <1>2, <1>9, <1>16, <1>17, <1>18, <1>19 DEF NetworkInv

LEMMA PutOutKeeps ==
  ASSUME Leads, NetworkInv, NEW r \in Routers, PutOut(r)
  PROVE  NetworkInv' /\ received' = received
<1> DEFINE a == HeldAt(r)
           packet == held[r].packet
           port == held[r].port
           f == packet.flow
<1>1. /\ held[r] # None /\ held' = [held EXCEPT ![r] = None]
      /\ sent' = sent /\ received' = received /\ failed' = failed
  BY DEF PutOut
<1>2. /\ InLine(Line, received, sent) /\ QueuesType /\ HeldRight /\ failed = FALSE
      /\ \A g \in DOMAIN Flows : received[g] =< sent[g]
  BY DEF NetworkInv
<1>3. a \in Places /\ ~Nowhere(a) /\ a.at = "held"
  BY PlacesAre, NotNowhere DEF HeldAt
<1>4. Line[a] = <<packet>> /\ Line[a] # <<>> /\ packet = Line[a][1] /\ Tail(Line[a]) = <<>>
  <2>1. Line[a] = <<packet>>
    BY <1>1, LineIs
  <2> HIDE DEF packet
  <2> QED
    BY <2>1
<1>5. packet \in Packet /\ f \in DOMAIN Flows
  BY <1>3, <1>4, StageOf
<1>6. PICK k \in Hops(f) : Stop(f, a, 2 * k, packet.destination) /\ Passes(f, k, a, packet.destination)
  BY <1>3, <1>4, StageOf
<1>7. /\ Way[f][k].router = r /\ packet.destination = Left(r, Way[f][k].destination)
      /\ k \in 1..Final(f) /\ Final(f) \in Nat \ {0} /\ Hops(f) = 1..Final(f)
  BY <1>5, <1>6, WayOf, PlacesDiffer DEF Passes
<1>8. port = Way[f][k].port /\ port \in Ports(r)
  <2>1. port = Way[f][k].port
    BY <1>1, <1>2, <1>6, <1>7 DEF HeldRight
  <2>2. Way[f][k].port \in DetermineOutputPortNumber(r, Head(Way[f][k].destination))
    <3>1. Way[f][k].port \in
            DetermineOutputPortNumber(Way[f][k].router, Head(Way[f][k].destination))
      <4> HIDE DEF f
      <4> QED
        BY <1>5, <1>6 DEF Leads
    <3> QED
      BY <1>7, <3>1
  <2> QED
    BY <2>1, <2>2, PortsFound
<1>9. /\ k < Final(f) => Behind(r, port) = Way[f][k + 1].router /\ k + 1 \in Hops(f)
      /\ k < Final(f) => packet.destination = Way[f][k + 1].destination
      /\ k = Final(f) => Behind(r, port) \notin Routers
  <2>1. /\ k < Final(f) => Behind(r, Way[f][k].port) = Way[f][k + 1].router
        /\ k < Final(f) => Left(r, Way[f][k].destination) = Way[f][k + 1].destination
        /\ k = Final(f) => Behind(r, Way[f][k].port) \notin Routers
    <3> HIDE DEF f
    <3>1. /\ k < Final(f) => Behind(Way[f][k].router, Way[f][k].port) = Way[f][k + 1].router
          /\ k < Final(f) => Left(Way[f][k].router, Way[f][k].destination) = Way[f][k + 1].destination
      BY <1>5, <1>6 DEF Leads
    <3>2. k = Final(f) => Behind(Way[f][k].router, Way[f][k].port) \notin Routers
      BY <1>5, <1>6 DEF Leads
    <3> QED
      BY <1>7, <3>1, <3>2
  <2>2. k < Final(f) => k + 1 \in Hops(f)
    BY <1>7
  <2> QED
    BY <1>7, <1>8, <2>1, <2>2
<1>10. /\ Line'[a] = <<>> /\ held'[r] = None
       /\ \A s \in Routers : HeldAt(s) # a => Line'[HeldAt(s)] = Line[HeldAt(s)]
       /\ held' = [s \in Routers |-> held'[s]]
       /\ \A s \in Routers : s # r => held'[s] = held[s]
  BY <1>1, <1>2, HeldChanges
<1>11. HeldRight'
  <2>1. ASSUME NEW s \in Routers, held'[s] # None, NEW j \in Hops(held'[s].packet.flow),
               Way[held'[s].packet.flow][j].router = s
        PROVE  held'[s].port = Way[held'[s].packet.flow][j].port
    <3>1. s # r
      BY <1>10, <2>1
    <3> QED
      BY <1>2, <1>10, <2>1, <3>1 DEF HeldRight
  <2> QED
    BY <2>1 DEF HeldRight
<1>12. 2 * k \in Nat /\ 2 * k + 1 = 2 * (k + 1) - 1
  BY <1>7
<1>13. ASSUME NEW b \in Places, a # b, Stop(f, b, 2 * k + 1, packet.destination)
       PROVE  InLine(Moved(Line, a, b, packet), received, sent)
  <2> DEFINE t == 2 * k
  <2>1. t \in Nat /\ Stop(packet.flow, a, t, Line[a][1].destination) /\ Stop(packet.flow, b, t + 1, packet.destination)
    BY <1>4, <1>6, <1>12, <1>13
  <2>2. packet.flow = Line[a][1].flow /\ packet.number = Line[a][1].number
    BY <1>4
  <2> HIDE DEF a, t, packet
  <2> QED
    BY <1>2, <1>3, <1>4, <1>5, <1>13, <2>1, <2>2, MoveKeeps
<1> HIDE DEF packet, port
<1>14. CASE Behind(r, port) \in Routers /\ PutIn(r, Behind(r, port), packet)
  <2>1. k < Final(f) /\ k + 1 \in Hops(f) /\ k + 1 # 1
    BY <1>7, <1>9, <1>14
  <2> DEFINE next == Way[f][k + 1].router
  <2>2. next = Behind(r, port) /\ next \in Routers
    BY <1>9, <1>14, <2>1
  <2>3. PICK i \in Ports(next) :
          /\ Behind(next, i) = r
          /\ ocn_rd_if' = [ocn_rd_if EXCEPT ![next][i] = Append(ocn_rd_if[next][i], packet)]
          /\ ocn_wr_if' = ocn_wr_if
    BY <1>14, <2>2 DEF PutIn
  <2> DEFINE b == InAt(next, i)
  <2>4. b \in Places /\ a # b /\ ~Nowhere(b)
    BY <2>2, PlacesAre, PlacesDiffer, NotNowhere
  <2>5. Stop(f, b, 2 * k + 1, packet.destination)
    <3>1. From(f, k + 1) = r
      BY <1>7, <2>1 DEF From
    <3>2. Comes(f, k + 1, b, packet.destination)
      BY <1>9, <2>1, <2>3, <3>1 DEF Comes, InAt
    <3> HIDE DEF b
    <3> QED
      BY <1>12, <2>1, <3>2 DEF Stop
  <2>6. Line[b] = ocn_rd_if[next][i]
    BY <2>2, LineIs
  <2>7. /\ Line'[b] = Append(Line[b], packet)
        /\ \A s \in Routers : \A j \in Ports(s) :
             InAt(s, j) # b => Line'[InAt(s, j)] = Line[InAt(s, j)]
        /\ ocn_rd_if' = [s \in Routers |-> [j \in Ports(s) |-> ocn_rd_if'[s][j]]]
    <3> DEFINE queue == Append(ocn_rd_if[next][i], packet)
    <3>1. ocn_rd_if' = [ocn_rd_if EXCEPT ![next][i] = queue]
      BY <2>3
    <3> HIDE DEF next, queue
    <3>2. Line'[b] = queue
      BY <1>2, <2>2, <3>1, InChanges
    <3>3. /\ \A s \in Routers : \A j \in Ports(s) :
               InAt(s, j) # b => Line'[InAt(s, j)] = Line[InAt(s, j)]
          /\ ocn_rd_if' = [s \in Routers |-> [j \in Ports(s) |-> ocn_rd_if'[s][j]]]
      BY <1>2, <2>2, <3>1, InChanges
    <3> QED
      BY <2>6, <3>2, <3>3 DEF queue
  <2>8. \A s \in Routers : \A j \in Ports(s) : Line'[OutAt(s, j)] = Line[OutAt(s, j)]
    BY <2>3, NoChanges
  <2>9. Line' = Moved(Line, a, b, packet)
    <3>1. Line'[a] = Tail(Line[a])
      BY <1>4, <1>10
    <3> HIDE DEF a, b
    <3>2. \A s \in Routers :
            /\ HeldAt(s) # a /\ HeldAt(s) # b => Line'[HeldAt(s)] = Line[HeldAt(s)]
            /\ \A j \in Ports(s) :
                 /\ InAt(s, j) # a /\ InAt(s, j) # b => Line'[InAt(s, j)] = Line[InAt(s, j)]
                 /\ OutAt(s, j) # a /\ OutAt(s, j) # b => Line'[OutAt(s, j)] = Line[OutAt(s, j)]
      BY <1>10, <2>7, <2>8
    <3>3. Line'[b] = Append(Line[b], packet)
      BY <2>7
    <3> QED
      BY ONLY <1>3, <2>4, <3>1, <3>2, <3>3, LineMoves
  <2>10. QueuesType'
    <3>1. ocn_wr_if' = [s \in Routers |-> [j \in Ports(s) |-> ocn_wr_if'[s][j]]]
      BY <1>2, <2>3 DEF QueuesType
    <3>2. /\ ocn_rd_if' = [s \in Routers |-> [j \in Ports(s) |-> ocn_rd_if'[s][j]]]
          /\ held' = [s \in Routers |-> held'[s]]
      BY <1>10, <2>7
    <3> QED
      BY ONLY <3>1, <3>2 DEF QueuesType
  <2>11. InLine(Line', received', sent')
    <3> HIDE DEF a, b
    <3> QED
      BY <1>1, <1>13, <2>4, <2>5, <2>9
  <2> QED
    BY <1>1, <1>2, <1>11, <2>10, <2>11 DEF NetworkInv
<1>15. CASE Behind(r, port) \notin Routers /\ PutToModule(r, port, packet)
  <2>1. k = Final(f)
    <3>1. k < Final(f) => Way[f][k + 1].router \in Routers
      BY <1>5, <1>9, WayOf
    <3> QED
      BY <1>7, <1>9, <1>15, <3>1
  <2>2. /\ ocn_wr_if' = [ocn_wr_if EXCEPT ![r][port] = Append(ocn_wr_if[r][port], packet)]
        /\ ocn_rd_if' = ocn_rd_if
    BY <1>15 DEF PutToModule
  <2> DEFINE b == OutAt(r, port)
  <2>4. b \in Places /\ a # b /\ ~Nowhere(b)
    BY <1>8, PlacesAre, PlacesDiffer, NotNowhere
  <2>5. Stop(f, b, 2 * k + 1, packet.destination)
    <3>1. Arrived(f, b, packet.destination)
      BY <1>7, <1>8, <2>1 DEF Arrived
    <3> HIDE DEF b
    <3> QED
      BY <2>1, <3>1 DEF Stop
  <2>6. Line[b] = ocn_wr_if[r][port]
    BY <1>8, LineIs
  <2>7. /\ Line'[b] = Append(Line[b], packet)
        /\ \A s \in Routers : \A j \in Ports(s) :
             OutAt(s, j) # b => Line'[OutAt(s, j)] = Line[OutAt(s, j)]
        /\ ocn_wr_if' = [s \in Routers |-> [j \in Ports(s) |-> ocn_wr_if'[s][j]]]
    <3> DEFINE queue == Append(ocn_wr_if[r][port], packet)
    <3>1. ocn_wr_if' = [ocn_wr_if EXCEPT ![r][port] = queue]
      BY <2>2
    <3> HIDE DEF queue
    <3>q. QueuesType /\ port \in Ports(r)
      BY <1>2, <1>8
    <3>2. Line'[b] = queue
      BY ONLY <3>q, <3>1, OutChanges, r \in Routers
    <3>3. /\ \A s \in Routers : \A j \in Ports(s) :
               OutAt(s, j) # b => Line'[OutAt(s, j)] = Line[OutAt(s, j)]
          /\ ocn_wr_if' = [s \in Routers |-> [j \in Ports(s) |-> ocn_wr_if'[s][j]]]
      BY ONLY <3>q, <3>1, OutChanges, r \in Routers
    <3> QED
      BY <2>6, <3>2, <3>3 DEF queue
  <2>8. \A s \in Routers : \A j \in Ports(s) : Line'[InAt(s, j)] = Line[InAt(s, j)]
    BY <2>2, NoChanges
  <2>9. Line' = Moved(Line, a, b, packet)
    <3>1. Line'[a] = Tail(Line[a])
      BY <1>4, <1>10
    <3> HIDE DEF a, b
    <3>2. \A s \in Routers :
            /\ HeldAt(s) # a /\ HeldAt(s) # b => Line'[HeldAt(s)] = Line[HeldAt(s)]
            /\ \A j \in Ports(s) :
                 /\ InAt(s, j) # a /\ InAt(s, j) # b => Line'[InAt(s, j)] = Line[InAt(s, j)]
                 /\ OutAt(s, j) # a /\ OutAt(s, j) # b => Line'[OutAt(s, j)] = Line[OutAt(s, j)]
      BY <1>10, <2>7, <2>8
    <3>3. Line'[b] = Append(Line[b], packet)
      BY <2>7
    <3> QED
      BY ONLY <1>3, <2>4, <3>1, <3>2, <3>3, LineMoves
  <2>10. QueuesType'
    <3>1. ocn_rd_if' = [s \in Routers |-> [j \in Ports(s) |-> ocn_rd_if'[s][j]]]
      BY <1>2, <2>2 DEF QueuesType
    <3>2. /\ ocn_wr_if' = [s \in Routers |-> [j \in Ports(s) |-> ocn_wr_if'[s][j]]]
          /\ held' = [s \in Routers |-> held'[s]]
      BY <1>10, <2>7
    <3> QED
      BY ONLY <3>1, <3>2 DEF QueuesType
  <2>11. InLine(Line', received', sent')
    <3> HIDE DEF a, b
    <3> QED
      BY <1>1, <1>13, <2>4, <2>5, <2>9
  <2> QED
    BY <1>1, <1>2, <1>11, <2>10, <2>11 DEF NetworkInv
<1> QED
  BY <1>14, <1>15 DEF PutOut, packet, port

LEMMA ReceiveKeeps ==
  ASSUME Leads, NetworkInv, NEW r \in Routers, NEW i \in Ports(r), Receive(r, i)
  PROVE  /\ NetworkInv'
         /\ \A f \in DOMAIN Flows : received'[f] # received[f] => received'[f] = received[f] + 1
<1> DEFINE a == OutAt(r, i)
           packet == Line[a][1]
           f == packet.flow
<1>1. Line[a] = ocn_wr_if[r][i] /\ ocn_wr_if[r][i] \in Seq(Packet)
  BY LineIs, QueueAt
<1>2. Line[a] # <<>> /\ Head(ocn_wr_if[r][i]) = packet
  BY <1>1 DEF Receive
<1>3. /\ received' = [received EXCEPT ![f] = packet.number]
      /\ ocn_wr_if' = [ocn_wr_if EXCEPT ![r][i] = Tail(ocn_wr_if[r][i])]
      /\ ocn_rd_if' = ocn_rd_if /\ held' = held /\ sent' = sent /\ failed' = failed
  BY <1>2 DEF Receive
<1>4. /\ InLine(Line, received, sent) /\ QueuesType /\ HeldRight /\ failed = FALSE
      /\ \A g \in DOMAIN Flows : received[g] =< sent[g]
  BY DEF NetworkInv
<1>5. a \in Places /\ ~Nowhere(a) /\ a.at = "out"
  BY PlacesAre, NotNowhere DEF OutAt
<1> HIDE DEF a
<1>6. packet \in Packet /\ f \in DOMAIN Flows
  BY <1>2, <1>5, StageOf
<1>7. /\ packet.number = received[f] + 1
      /\ InLine(Taken(Line, a), [received EXCEPT ![f] = packet.number], sent)
  BY <1>2, <1>4, <1>5, TakeKeeps
<1>8. packet.number =< sent[f]
  <2>1. Between(Line, received, sent) /\ Line \in Lines
    BY <1>4 DEF InLine
  <2>2. 1 \in 1..Len(Line[a])
    BY <1>2, <1>5, <2>1, PacketAt, EmptySeq
  <2> QED
    BY <1>5, <2>1, <2>2 DEF Between
<1>9. /\ Line'[a] = Tail(Line[a])
      /\ \A s \in Routers : \A j \in Ports(s) :
           OutAt(s, j) # a => Line'[OutAt(s, j)] = Line[OutAt(s, j)]
      /\ ocn_wr_if' = [s \in Routers |-> [j \in Ports(s) |-> ocn_wr_if'[s][j]]]
  <2> DEFINE queue == Tail(ocn_wr_if[r][i])
  <2>1. ocn_wr_if' = [ocn_wr_if EXCEPT ![r][i] = queue]
    BY <1>3
  <2> HIDE DEF queue
  <2>2. Line'[OutAt(r, i)] = queue
    BY <1>4, <2>1, OutChanges
  <2>3. /\ \A s \in Routers : \A j \in Ports(s) :
             OutAt(s, j) # OutAt(r, i) => Line'[OutAt(s, j)] = Line[OutAt(s, j)]
        /\ ocn_wr_if' = [s \in Routers |-> [j \in Ports(s) |-> ocn_wr_if'[s][j]]]
    BY <1>4, <2>1, OutChanges
  <2> QED
    BY <1>1, <2>2, <2>3 DEF queue, a
<1>10. \A s \in Routers : \A j \in Ports(s) : Line'[InAt(s, j)] = Line[InAt(s, j)]
  BY <1>3, NoChanges
<1>11. \A s \in Routers : Line'[HeldAt(s)] = Line[HeldAt(s)]
  <2>1. ASSUME NEW s \in Routers PROVE Line'[HeldAt(s)] = Line[HeldAt(s)]
    <3>1. Line'[HeldAt(s)] = IF held'[s] # None THEN <<held'[s].packet>> ELSE <<>>
      BY NextLineIs
    <3>2. Line[HeldAt(s)] = IF held[s] # None THEN <<held[s].packet>> ELSE <<>>
      BY LineIs
    <3> QED
      BY <1>3, <3>1, <3>2
  <2> QED
    BY <2>1
<1>12. Line' = Taken(Line, a)
  BY <1>5, <1>9, <1>10, <1>11, LineTaken
<1>13. QueuesType'
  BY <1>3, <1>4, <1>9 DEF QueuesType
<1>14. HeldRight'
  BY <1>3, <1>4 DEF HeldRight
<1>15. InLine(Line', received', sent')
  BY <1>3, <1>7, <1>12
<1>16. /\ \A g \in DOMAIN Flows : received'[g] # received[g] => received'[g] = received[g] + 1
       /\ \A g \in DOMAIN Flows : received'[g] =< sent'[g]
  <2>1. received \in [DOMAIN Flows -> Nat]
    BY <1>4 DEF InLine, Numbers
  <2> HIDE DEF packet
  <2> QED
    BY <1>3, <1>4, <1>6, <1>7, <1>8, <2>1
<1> QED
  BY <1>3, <1>4, <1>13, <1>14, <1>15, <1>16 DEF NetworkInv

LEMMA InitKeeps ==
  ASSUME NetworkInit
  PROVE  NetworkInv
<1>1. /\ ocn_rd_if = [r \in Routers |-> [i \in Ports(r) |-> <<>>]]
      /\ ocn_wr_if = [r \in Routers |-> [i \in Ports(r) |-> <<>>]]
      /\ held = [r \in Routers |-> None] /\ failed = FALSE
      /\ sent = [f \in DOMAIN Flows |-> 0] /\ received = [f \in DOMAIN Flows |-> 0]
  BY DEF NetworkInit
<1>2. ASSUME NEW p \in Places PROVE Line[p] = <<>>
  <2>1. p.router \in Routers
    BY DEF Places
  <2>2. CASE p.at = "held"
    BY <1>1, <2>1, <2>2 DEF Line
  <2>3. CASE p.at # "held"
    BY <1>1, <2>1, <2>3 DEF Line
  <2> QED
    BY <2>2, <2>3
<1>3. Line = [p \in Places |-> <<>>]
  BY <1>2, LineIs
<1>4. Line \in Lines /\ received \in Numbers /\ sent \in Numbers
  <2>1. <<>> \in Seq(Packet)
    OBVIOUS
  <2> QED
    BY <1>1, <1>3, <2>1 DEF Lines, Numbers
<1>5. \A p \in Places : Len(Line[p]) = 0
  BY <1>2
<1>6. Placed(Line) /\ Ordered(Line) /\ Between(Line, received, sent)
  BY <1>5 DEF Placed, Ordered, Between
<1>7. Present(Line, received, sent)
  BY <1>1 DEF Present
<1>8. QueuesType
  BY <1>1 DEF QueuesType
<1>9. HeldRight
  BY <1>1 DEF HeldRight
<1>10. \A f \in DOMAIN Flows : received[f] =< sent[f]
  BY <1>1
<1> QED
  BY <1>1, <1>4, <1>6, <1>7, <1>8, <1>9, <1>10 DEF NetworkInv, InLine

LEMMA NetworkStep ==
  ASSUME Leads, NetworkInv, [NetworkNext]_networkvars
  PROVE  /\ NetworkInv'
         /\ \A f \in DOMAIN Flows : received'[f] # received[f] => received'[f] = received[f] + 1
<1>1. CASE \E f \in DOMAIN Flows : Send(f)
  BY <1>1, SendKeeps
<1>2. CASE \E r \in Routers : Get(r)
  BY <1>2, GetKeeps
<1>3. CASE \E r \in Routers : PutOut(r)
  BY <1>3, PutOutKeeps
<1>4. CASE \E r \in Routers : ReceiveAt(r)
  BY <1>4, ReceiveKeeps DEF ReceiveAt
<1>5. CASE UNCHANGED networkvars
  <2>1. /\ ocn_rd_if' = ocn_rd_if /\ ocn_wr_if' = ocn_wr_if /\ held' = held
        /\ sent' = sent /\ received' = received /\ failed' = failed
    BY <1>5 DEF networkvars
  <2>2. Line' = Line
    BY <2>1 DEF Line
  <2> QED
    BY <2>1, <2>2 DEF NetworkInv, QueuesType, HeldRight
<1> QED
  BY <1>1, <1>2, <1>3, <1>4, <1>5 DEF NetworkNext

LEMMA ArrivesRight ==
  ASSUME Leads, NetworkInv
  PROVE  RightModule
<1>1. ASSUME NEW r \in Routers, NEW i \in Ports(r), NEW packet \in ToSet(ocn_wr_if[r][i])
      PROVE  Flows[packet.flow].to = Behind(r, i) /\ Len(packet.destination) = 1
  <2> DEFINE a == OutAt(r, i)
             f == packet.flow
  <2>1. Line[a] = ocn_wr_if[r][i] /\ a \in Places /\ a.at = "out"
    BY LineIs, PlacesAre DEF OutAt
  <2>2. Line \in Lines /\ Placed(Line)
    BY DEF NetworkInv, InLine
  <2> HIDE DEF a
  <2>3. PICK m \in 1..Len(Line[a]) : packet = Line[a][m]
    <3>1. Line[a] \in Seq(Packet) /\ DOMAIN Line[a] = 1..Len(Line[a])
      BY <2>1, <2>2, PacketAt, LenProperties
    <3>2. \E m \in DOMAIN ocn_wr_if[r][i] : packet = ocn_wr_if[r][i][m]
      BY DEF ToSet
    <3> QED
      BY <2>1, <3>1, <3>2
  <2>4. f \in DOMAIN Flows
    BY <2>1, <2>2, <2>3, PacketAt
  <2>5. PICK t \in Nat : Stop(f, a, t, packet.destination)
    BY <2>1, <2>2, <2>3 DEF Placed
  <2>6. Arrived(f, a, packet.destination)
    BY <2>1, <2>5 DEF Stop, Passes, Comes, HeldAt
  <2>7. /\ r = Way[f][Final(f)].router /\ i = Way[f][Final(f)].port
        /\ packet.destination = Left(r, Way[f][Final(f)].destination)
    BY <2>6, PlacesDiffer DEF Arrived, a
  <2>8. Final(f) \in Hops(f)
    BY <2>4, WayOf
  <2> HIDE DEF f
  <2>9. /\ Behind(Way[f][Final(f)].router, Way[f][Final(f)].port) = Flows[f].to
        /\ Len(Left(Way[f][Final(f)].router, Way[f][Final(f)].destination)) = 1
    BY <2>4, <2>8 DEF Leads
  <2> QED
    BY <2>7, <2>9 DEF f
<1>2. failed = FALSE
  BY DEF NetworkInv
<1> QED
  BY <1>1, <1>2 DEF RightModule

(* When the tables lead every flow along a way to its module, no router    *)
(* meets a destination it does not know (DetermineOutputPortNumber()), and *)
(* no packet comes out at another module or with names left that should    *)
(* have been stripped on the way, however many are under way and whichever *)
(* queues are full.                                                        *)
THEOREM RightModuleHolds ==
  ASSUME Leads
  PROVE  NetworkSpec => []RightModule
<1>1. NetworkInit => NetworkInv
  BY InitKeeps
<1>2. NetworkInv /\ [NetworkNext]_networkvars => NetworkInv'
  BY NetworkStep
<1>3. NetworkInv => RightModule
  BY ArrivesRight
<1> QED
  BY <1>1, <1>2, <1>3, PTL DEF NetworkSpec

(* Along such ways Router_PortServiceThread(), which holds one packet at a *)
(* time and waits in put() while the way is full, loses no packet of a     *)
(* flow, doubles none and lets none overtake another, although it takes    *)
(* them from many ports.                                                   *)
THEOREM InOrderHolds ==
  ASSUME Leads
  PROVE  NetworkSpec => InOrder
<1>1. NetworkInit => NetworkInv
  BY InitKeeps
<1>2. NetworkInv /\ [NetworkNext]_networkvars => NetworkInv'
  BY NetworkStep
<1>3. NetworkInv /\ [NetworkNext]_networkvars =>
        [\A f \in DOMAIN Flows :
           received'[f] # received[f] => received'[f] = received[f] + 1]_networkvars
  BY NetworkStep
<1> QED
  BY <1>1, <1>2, <1>3, PTL DEF NetworkSpec, InOrder
=============================================================================
