------------------------- MODULE TrafficManager_proof -------------------------
(***************************************************************************)
(* That the traffic manager loses no packet descriptor but those its port  *)
(* service drops, sends none twice, and keeps the order within a priority, *)
(* proved for any packets, priorities, weights and parameters; and that    *)
(* its thread does not sleep on one, for the parameters that allow it.     *)
(*                                                                         *)
(* The order of what was sent is not inductive: a packet that leaves must  *)
(* come after all that left and before all that are still here, wherever   *)
(* they are.  That also keeps a packet from being in two places.           *)
(***************************************************************************)
EXTENDS TrafficManager, SequenceTheorems, FiniteSetTheorems,
        WellFoundedInduction, TLAPS

-----------------------------------------------------------------------------
\* The thread has a packet in its hands.
Puts == {"put", "blocked"}

Hand == IF pc \in Puts THEN {hand} ELSE {}

InOrder == UNION {Elements(packet_order[i]) : i \in Levels}

TypeInv == TypeOK /\ (pc \in Puts => hand \in Packets)

\* The flag tells that the queues are empty, and c how much of a round is left.
Round == /\ flag_buffer_empty => OrderEmpty
         /\ c = Len(output_set) + (IF c > 0 /\ pc \in Puts THEN 1 ELSE 0)
         /\ pc \in {"loop", "waiting", "woken", "end"} => c = 0
         /\ pc = "pop" => c > 0

RoundInv == /\ pc = "waiting" => flag_buffer_empty
            /\ parameters.NO_PRIORITY => Round
            /\ ~parameters.NO_PRIORITY => OrderEmpty

\* Of one priority, what is further on came first.
Ordered(s) == \A i, j \in 1..Len(s) :
                 i < j /\ PriorityOf[s[i]] = PriorityOf[s[j]] => s[i] < s[j]

Before(S, T) == \A p \in S, q \in T : PriorityOf[p] = PriorityOf[q] => p < q

Chain(S, F, H, O, I) == /\ Before(S, F \cup H \cup O \cup I)
                        /\ Before(F, H \cup O \cup I)
                        /\ Before(H, O \cup I)
                        /\ Before(O, I)

QueuesInOrder ==
    \A i \in Levels : /\ Ordered(packet_order[i])
                      /\ \A p \in Elements(packet_order[i]) : PriorityOf[p] = i

OrderInv ==
    /\ Ordered(sent) /\ Ordered(fifo) /\ Ordered(output_set)
    /\ QueuesInOrder
    /\ Chain(Elements(sent), Elements(fifo), Hand, Elements(output_set), InOrder)

\* What came is somewhere, or lost.
Placed == Elements(sent) \cup Elements(fifo) \cup Hand \cup Elements(output_set)
            \cup InOrder

PlacesInv == /\ Placed \cup lost = 1..(next - 1)
             /\ Placed \cap lost = {}

\* Without queues per priority, and when packets come no faster than they are
\* sent, one at a time is under way.
Prompt == ~parameters.NO_PRIORITY =>
             /\ c = 0
             /\ pc \notin {"pop", "blocked"}
             /\ pc = "woken" => ~flag_buffer_empty /\ Len(output_set) = 1
             /\ pc # "woken" => output_set = <<>>
             /\ pc \in {"loop", "waiting"} => flag_buffer_empty

-----------------------------------------------------------------------------
(* Sequences of packets, as the sets of their elements                     *)

LEMMA Empty == Elements(<<>>) = {} /\ Ordered(<<>>)
  BY DEF Elements, Ordered

LEMMA Appended ==
  ASSUME NEW s \in Seq(Packets), NEW p \in Packets
  PROVE  /\ Append(s, p) \in Seq(Packets)
         /\ Len(Append(s, p)) = Len(s) + 1
         /\ Elements(Append(s, p)) = Elements(s) \cup {p}
         /\ Ordered(s) /\ Before(Elements(s), {p}) => Ordered(Append(s, p))
<1> DEFINE t == Append(s, p)
<1>1. /\ t \in Seq(Packets) /\ Len(t) = Len(s) + 1 /\ Len(s) \in Nat
      /\ \A i \in 1..Len(s) : t[i] = s[i]
      /\ t[Len(s) + 1] = p
  BY AppendProperties, LenProperties
<1> HIDE DEF t
<1>2. Elements(t) = Elements(s) \cup {p}
  BY <1>1 DEF Elements
<1>3. ASSUME Ordered(s), Before(Elements(s), {p})
      PROVE  Ordered(t)
  <2> SUFFICES ASSUME NEW i \in 1..Len(t), NEW j \in 1..Len(t), i < j,
                      PriorityOf[t[i]] = PriorityOf[t[j]]
               PROVE  t[i] < t[j]
    BY DEF Ordered
  <2>1. i \in 1..Len(s) /\ t[i] = s[i] /\ s[i] \in Elements(s)
    BY <1>1 DEF Elements
  <2>2. CASE j \in 1..Len(s)
    BY <1>1, <1>3, <2>1, <2>2 DEF Ordered
  <2>3. CASE j = Len(s) + 1
    BY <1>1, <1>3, <2>1, <2>3 DEF Before
  <2> QED
    BY <1>1, <2>2, <2>3
<1> QED
  BY <1>1, <1>2, <1>3 DEF t

LEMMA Taken ==
  ASSUME NEW s \in Seq(Packets), s # <<>>
  PROVE  /\ Head(s) \in Packets /\ Tail(s) \in Seq(Packets)
         /\ Len(Tail(s)) = Len(s) - 1 /\ Len(s) \in Nat \ {0}
         /\ Elements(s) = {Head(s)} \cup Elements(Tail(s))
         /\ Ordered(s) => Ordered(Tail(s)) /\ Before({Head(s)}, Elements(Tail(s)))
<1> DEFINE t == Tail(s)
<1>1. /\ t \in Seq(Packets) /\ Len(t) = Len(s) - 1 /\ Len(s) \in Nat \ {0}
      /\ \A i \in 1..Len(t) : t[i] = s[i + 1]
      /\ Head(s) \in Packets /\ Head(s) = s[1]
  BY HeadTailProperties, EmptySeq
<1> HIDE DEF t
<1>2. Elements(s) = {Head(s)} \cup Elements(t)
  <2>1. ASSUME NEW i \in 1..Len(s) PROVE s[i] \in {Head(s)} \cup Elements(t)
    <3>1. i = 1 \/ (i - 1 \in 1..Len(t) /\ t[i - 1] = s[i])
      BY <1>1
    <3> QED
      BY <1>1, <3>1 DEF Elements
  <2>2. ASSUME NEW i \in 1..Len(t) PROVE t[i] \in Elements(s)
    <3>1. i + 1 \in 1..Len(s) /\ t[i] = s[i + 1]
      BY <1>1
    <3> QED
      BY <3>1 DEF Elements
  <2>3. Head(s) \in Elements(s)
    BY <1>1 DEF Elements
  <2> QED
    BY <2>1, <2>2, <2>3 DEF Elements
<1>3. ASSUME Ordered(s)
      PROVE  Ordered(t) /\ Before({Head(s)}, Elements(t))
  <2>1. ASSUME NEW i \in 1..Len(t)
        PROVE  i + 1 \in 1..Len(s) /\ 1 \in 1..Len(s) /\ t[i] = s[i + 1] /\ 1 < i + 1
    BY <1>1
  <2>2. Ordered(t)
    <3> SUFFICES ASSUME NEW i \in 1..Len(t), NEW j \in 1..Len(t), i < j,
                        PriorityOf[t[i]] = PriorityOf[t[j]]
                 PROVE  t[i] < t[j]
      BY DEF Ordered
    <3>1. i + 1 < j + 1
      OBVIOUS
    <3> QED
      BY <1>3, <2>1, <3>1 DEF Ordered
  <2>3. Before({Head(s)}, Elements(t))
    BY <1>1, <1>3, <2>1 DEF Ordered, Before, Elements
  <2> QED
    BY <2>2, <2>3
<1> QED
  BY <1>1, <1>2, <1>3 DEF t

LEMMA Cut ==
  ASSUME NEW s \in Seq(Packets), NEW n \in 0..Len(s)
  PROVE  LET first == SubSeq(s, 1, n)
             rest  == SubSeq(s, n + 1, Len(s))
         IN  /\ first \in Seq(Packets) /\ rest \in Seq(Packets)
             /\ Len(first) = n
             /\ Elements(s) = Elements(first) \cup Elements(rest)
             /\ Ordered(s) => /\ Ordered(first) /\ Ordered(rest)
                              /\ Before(Elements(first), Elements(rest))
<1> DEFINE first == SubSeq(s, 1, n)
           rest  == SubSeq(s, n + 1, Len(s))
<1>0. Len(s) \in Nat /\ n \in Nat /\ \A i \in 1..Len(s) : s[i] \in Packets
  BY LenProperties, ElementOfSeq
<1>1. /\ first \in Seq(Packets) /\ Len(first) = n
      /\ \A i \in 1..n : first[i] = s[i]
  <2>1. \A i \in 1..n : s[i] \in Packets
    BY <1>0
  <2>2. /\ first \in Seq(Packets) /\ Len(first) = IF 1 =< n THEN n - 1 + 1 ELSE 0
        /\ \A i \in 1..n - 1 + 1 : first[i] = s[1 + i - 1]
    BY <1>0, <2>1, SubSeqProperties
  <2> QED
    BY <1>0, <2>2
<1>2. /\ rest \in Seq(Packets) /\ Len(rest) = Len(s) - n
      /\ \A i \in 1..Len(s) - n : rest[i] = s[n + i]
  <2>1. \A i \in n + 1 .. Len(s) : s[i] \in Packets
    BY <1>0
  <2>2. /\ rest \in Seq(Packets)
        /\ Len(rest) = IF n + 1 =< Len(s) THEN Len(s) - (n + 1) + 1 ELSE 0
        /\ \A i \in 1..Len(s) - (n + 1) + 1 : rest[i] = s[(n + 1) + i - 1]
    BY <1>0, <2>1, SubSeqProperties
  <2> QED
    BY <1>0, <2>2
<1> HIDE DEF first, rest
<1>3. Elements(s) = Elements(first) \cup Elements(rest)
  <2>1. ASSUME NEW i \in 1..Len(s) PROVE s[i] \in Elements(first) \cup Elements(rest)
    <3>1. \/ i \in 1..n /\ first[i] = s[i]
          \/ i - n \in 1..Len(rest) /\ rest[i - n] = s[i]
      BY <1>0, <1>1, <1>2
    <3> QED
      BY <1>1, <3>1 DEF Elements
  <2>2. ASSUME NEW i \in 1..Len(first) PROVE first[i] \in Elements(s)
    BY <1>0, <1>1 DEF Elements
  <2>3. ASSUME NEW i \in 1..Len(rest) PROVE rest[i] \in Elements(s)
    <3>1. n + i \in 1..Len(s) /\ rest[i] = s[n + i]
      BY <1>0, <1>2
    <3> QED
      BY <3>1 DEF Elements
  <2> QED
    BY <2>1, <2>2, <2>3 DEF Elements
<1>4. ASSUME Ordered(s)
      PROVE  Ordered(first) /\ Ordered(rest) /\ Before(Elements(first), Elements(rest))
  <2>1. Ordered(first)
    BY <1>0, <1>1, <1>4 DEF Ordered
  <2>2. Ordered(rest)
    <3> SUFFICES ASSUME NEW i \in 1..Len(rest), NEW j \in 1..Len(rest), i < j,
                        PriorityOf[rest[i]] = PriorityOf[rest[j]]
                 PROVE  rest[i] < rest[j]
      BY DEF Ordered
    <3>1. /\ n + i \in 1..Len(s) /\ n + j \in 1..Len(s) /\ n + i < n + j
          /\ rest[i] = s[n + i] /\ rest[j] = s[n + j]
      BY <1>0, <1>2
    <3> QED
      BY <1>4, <3>1 DEF Ordered
  <2>3. ASSUME NEW i \in 1..Len(first), NEW j \in 1..Len(rest),
               PriorityOf[first[i]] = PriorityOf[rest[j]]
        PROVE  first[i] < rest[j]
    <3>1. /\ i \in 1..Len(s) /\ n + j \in 1..Len(s) /\ i < n + j
          /\ first[i] = s[i] /\ rest[j] = s[n + j]
      BY <1>0, <1>1, <1>2
    <3> QED
      BY <1>4, <2>3, <3>1 DEF Ordered
  <2> QED
    BY <2>1, <2>2, <2>3 DEF Before, Elements
<1> QED
  BY <1>1, <1>2, <1>3, <1>4 DEF first, rest

LEMMA Joined ==
  ASSUME NEW s \in Seq(Packets), NEW t \in Seq(Packets)
  PROVE  /\ s \o t \in Seq(Packets) /\ Len(s \o t) = Len(s) + Len(t)
         /\ Elements(s \o t) = Elements(s) \cup Elements(t)
         /\ Ordered(s) /\ Ordered(t) /\ Before(Elements(s), Elements(t))
               => Ordered(s \o t)
<1> DEFINE u == s \o t
<1>1. /\ u \in Seq(Packets) /\ Len(u) = Len(s) + Len(t)
      /\ \A i \in 1..Len(s) + Len(t) : u[i] = IF i <= Len(s) THEN s[i] ELSE t[i - Len(s)]
  BY ConcatProperties
<1>2. Len(s) \in Nat /\ Len(t) \in Nat
  BY LenProperties
<1> HIDE DEF u
<1>3. ASSUME NEW i \in 1..Len(u)
      PROVE  \/ i \in 1..Len(s) /\ u[i] = s[i]
             \/ i > Len(s) /\ i - Len(s) \in 1..Len(t) /\ u[i] = t[i - Len(s)]
  BY <1>1, <1>2
<1>4. Elements(u) = Elements(s) \cup Elements(t)
  <2>1. ASSUME NEW i \in 1..Len(s) PROVE s[i] \in Elements(u)
    <3>1. i \in 1..Len(u) /\ u[i] = s[i]
      BY <1>1, <1>2
    <3> QED
      BY <3>1 DEF Elements
  <2>2. ASSUME NEW i \in 1..Len(t) PROVE t[i] \in Elements(u)
    <3>1. /\ i + Len(s) \in 1..Len(u) /\ ~(i + Len(s) <= Len(s))
          /\ (i + Len(s)) - Len(s) = i
      BY <1>1, <1>2
    <3>2. u[i + Len(s)] = t[(i + Len(s)) - Len(s)]
      BY <1>1, <3>1
    <3> QED
      BY <3>1, <3>2 DEF Elements
  <2>3. ASSUME NEW i \in 1..Len(u) PROVE u[i] \in Elements(s) \cup Elements(t)
    BY <1>3 DEF Elements
  <2> QED
    BY <2>1, <2>2, <2>3 DEF Elements
<1>5. ASSUME Ordered(s), Ordered(t), Before(Elements(s), Elements(t))
      PROVE  Ordered(u)
  <2> SUFFICES ASSUME NEW i \in 1..Len(u), NEW j \in 1..Len(u), i < j,
                      PriorityOf[u[i]] = PriorityOf[u[j]]
               PROVE  u[i] < u[j]
    BY DEF Ordered
  <2>1. CASE j \in 1..Len(s) /\ u[j] = s[j]
    <3>1. i \in 1..Len(s) /\ u[i] = s[i]
      BY <1>2, <1>3, <2>1
    <3> QED
      BY <1>5, <2>1, <3>1 DEF Ordered
  <2>2. CASE i > Len(s) /\ i - Len(s) \in 1..Len(t) /\ u[i] = t[i - Len(s)]
    <3>1. /\ j - Len(s) \in 1..Len(t) /\ u[j] = t[j - Len(s)]
          /\ i - Len(s) < j - Len(s)
      BY <1>1, <1>2, <1>3, <2>2
    <3> QED
      BY <1>5, <2>2, <3>1 DEF Ordered
  <2>3. CASE i \in 1..Len(s) /\ u[i] = s[i] /\ j - Len(s) \in 1..Len(t)
               /\ u[j] = t[j - Len(s)]
    BY <1>5, <2>3 DEF Before, Elements
  <2> QED
    BY <1>2, <1>3, <2>1, <2>2, <2>3
<1> QED
  BY <1>1, <1>4, <1>5 DEF u

-----------------------------------------------------------------------------
(* A weighted round.  Collected and Gather are recursive: that there are   *)
(* such functions at all, and what they are for each number of queues, is  *)
(* shown with a least number for which it would be otherwise.              *)

LEMMA LeastNumber ==
  ASSUME NEW S \in SUBSET Nat, S # {}
  PROVE  \E n \in S : \A m \in S : n =< m
<1>1. PICK n \in S : \A m \in S : <<m, n>> \notin OpToRel(<, Nat)
  BY NatLessThanWellFounded, WFMin
<1>2. \A m \in S : <<m, n>> \notin OpToRel(<, Nat) => n =< m
  BY DEF OpToRel
<1> QED
  BY <1>1, <1>2

Steps(step, n, X) == \A k \in 1..n : \A x \in X : step[k][x] \in X

Follows(f, step, n, a) == f[0] = a /\ \A k \in 1..n : f[k] = step[k][f[k - 1]]

LEMMA Recursion ==
  ASSUME NEW n \in Nat, NEW X, NEW a \in X, NEW step, Steps(step, n, X)
  PROVE  \E f \in [0..n -> X] : Follows(f, step, n, a)
<1> USE DEF Steps, Follows
<1> DEFINE To(k) == \E f \in [0..k -> X] :
                       f[0] = a /\ \A j \in 1..k : f[j] = step[j][f[j - 1]]
           Bad == {k \in 0..n : ~To(k)}
<1>1. Bad = {}
  <2> SUFFICES ASSUME Bad # {} PROVE FALSE
    OBVIOUS
  <2>1. PICK k \in Bad : \A j \in Bad : k =< j
    <3>1. Bad \in SUBSET Nat
      OBVIOUS
    <3> HIDE DEF Bad
    <3> QED
      BY <3>1, LeastNumber
  <2>2. k \in 0..n /\ ~To(k)
    OBVIOUS
  <2>3. To(0)
    <3> DEFINE f == [j \in 0..0 |-> a]
    <3>1. f \in [0..0 -> X] /\ f[0] = a /\ \A j \in 1..0 : f[j] = step[j][f[j - 1]]
      OBVIOUS
    <3> QED
      BY <3>1
  <2>4. CASE k # 0
    <3>1. k - 1 \in 0..n /\ ~(k =< k - 1)
      BY <2>2, <2>4
    <3>2. To(k - 1)
      <4>1. k - 1 \notin Bad
        BY <2>1, <3>1
      <4> QED
        BY <3>1, <4>1
    <3>3. PICK f \in [0..(k - 1) -> X] :
             f[0] = a /\ \A j \in 1..(k - 1) : f[j] = step[j][f[j - 1]]
      BY <3>2
    <3> DEFINE g == [j \in 0..k |-> IF j = k THEN step[k][f[k - 1]] ELSE f[j]]
    <3>4. k \in 1..n /\ k - 1 \in 0..(k - 1) /\ 0 \in 0..(k - 1)
      BY <2>2, <2>4
    <3>5. step[k][f[k - 1]] \in X
      BY <3>4
    <3>6. g \in [0..k -> X]
      <4>1. \A j \in 0..k : j # k => j \in 0..(k - 1)
        BY <3>4
      <4> QED
        BY <3>5, <4>1
    <3>7. g[0] = a
      BY <2>4, <3>3, <3>4
    <3>8. ASSUME NEW j \in 1..k PROVE g[j] = step[j][g[j - 1]]
      <4>1. j - 1 \in 0..(k - 1) /\ j - 1 # k /\ j \in 0..k /\ j - 1 \in 0..k
        BY <3>4
      <4>2. g[j - 1] = f[j - 1]
        BY <4>1
      <4>3. CASE j = k
        BY <4>1, <4>2, <4>3
      <4>4. CASE j # k
        <5>1. j \in 1..(k - 1)
          BY <3>4, <4>4
        <5> QED
          BY <3>3, <4>1, <4>2, <4>4, <5>1
      <4> QED
        BY <4>3, <4>4
    <3> HIDE DEF g
    <3>9. To(k)
      BY <3>6, <3>7, <3>8
    <3> QED
      BY <2>2, <3>9
  <2> QED
    BY <2>2, <2>3, <2>4
<1>2. n \in 0..n
  OBVIOUS
<1> QED
  BY <1>1, <1>2

LEMMA LeastOfThree ==
  ASSUME NEW x \in Nat, NEW y \in Nat, NEW z \in Nat
  PROVE  /\ Least({x, y, z}) \in {x, y, z}
         /\ Least({x, y, z}) =< x /\ Least({x, y, z}) =< y /\ Least({x, y, z}) =< z
<1>1. \E m \in {x, y, z} : \A k \in {x, y, z} : m =< k
  OBVIOUS
<1>2. PICK m : m = Least({x, y, z})
  OBVIOUS
<1>3. m \in {x, y, z} /\ \A k \in {x, y, z} : m =< k
  BY <1>1, <1>2 DEF Least
<1> QED
  BY <1>2, <1>3

LEMMA CollectedIs ==
  ASSUME TypeOK
  PROVE  /\ Collected \in [0..Priorities -> Nat] /\ Collected[0] = 0
         /\ \A n \in 1..Priorities :
               Collected[n] = Least({MaxBuffer, Collected[n - 1] + Weights[n - 1],
                                     Collected[n - 1] + Len(packet_order[n - 1])})
<1>1. /\ Priorities \in Nat /\ MaxBuffer \in Nat
      /\ \A n \in 1..Priorities : /\ Weights[n - 1] \in Nat
                                  /\ Len(packet_order[n - 1]) \in Nat
  <2>1. Priorities \in Nat /\ MaxBuffer \in Nat
    BY TrafficAssumption
  <2>2. ASSUME NEW n \in 1..Priorities
        PROVE  Weights[n - 1] \in Nat /\ Len(packet_order[n - 1]) \in Nat
    <3>1. n - 1 \in Levels
      BY <2>1 DEF Levels
    <3> QED
      BY <3>1, TrafficAssumption, LenProperties DEF TypeOK
  <2> QED
    BY <2>1, <2>2
<1> DEFINE value(n, x) == Least({MaxBuffer, x + Weights[n - 1],
                                 x + Len(packet_order[n - 1])})
           step == [n \in 1..Priorities |-> [x \in Nat |-> value(n, x)]]
           Is(f) == f = [n \in 0..Priorities |->
                            IF n = 0 THEN 0 ELSE value(n, f[n - 1])]
<1>2. ASSUME NEW n \in 1..Priorities, NEW x \in Nat
      PROVE  value(n, x) \in Nat
  <2>1. x + Weights[n - 1] \in Nat /\ x + Len(packet_order[n - 1]) \in Nat
    BY <1>1
  <2> QED
    BY SMTT(60), <1>1, <2>1, LeastOfThree
<1>3. Steps(step, Priorities, Nat)
  BY <1>2 DEF Steps
<1>4. \E f \in [0..Priorities -> Nat] : Follows(f, step, Priorities, 0)
  <2> HIDE DEF step
  <2> QED
    BY <1>1, <1>3, Recursion
<1> HIDE DEF value
<1>5. PICK f \in [0..Priorities -> Nat] :
         f[0] = 0 /\ \A k \in 1..Priorities : f[k] = step[k][f[k - 1]]
  BY <1>4 DEF Follows
<1>6. Is(f)
  <2>1. ASSUME NEW n \in 0..Priorities, n # 0
        PROVE  f[n] = value(n, f[n - 1])
    <3>1. n \in 1..Priorities /\ n - 1 \in 0..Priorities
      BY <1>1, <2>1
    <3> QED
      BY <1>5, <3>1
  <2> QED
    BY <1>5, <2>1
<1>7. Is(Collected)
  <2>1. Collected = CHOOSE g : Is(g)
    BY DEF Collected, value
  <2> HIDE DEF Is
  <2> QED
    BY <1>6, <2>1
<1>8. ASSUME NEW n \in 0..Priorities
      PROVE  Collected[n] = f[n]
  <2> DEFINE Differs == {k \in 0..Priorities : Collected[k] # f[k]}
  <2> SUFFICES ASSUME Differs # {} PROVE FALSE
    OBVIOUS
  <2>1. PICK k \in Differs : \A j \in Differs : k =< j
    <3>1. Differs \in SUBSET Nat
      OBVIOUS
    <3> HIDE DEF Differs
    <3> QED
      BY <3>1, LeastNumber
  <2>2. k \in 0..Priorities /\ Collected[k] # f[k]
    OBVIOUS
  <2>3. k # 0
    BY <1>1, <1>5, <1>7, <2>2
  <2>4. k - 1 \in 0..Priorities /\ ~(k =< k - 1)
    BY <1>1, <2>2, <2>3
  <2>5. Collected[k - 1] = f[k - 1]
    BY <2>1, <2>4
  <2>6. Collected[k] = value(k, Collected[k - 1])
    BY <1>7, <2>2, <2>3
  <2>7. f[k] = value(k, f[k - 1])
    BY <1>6, <2>2, <2>3
  <2> QED
    BY <2>2, <2>5, <2>6, <2>7
<1>9. Collected \in [0..Priorities -> Nat]
  <2>1. Collected = [n \in 0..Priorities |-> Collected[n]]
    BY <1>7
  <2> QED
    BY <1>8, <2>1
<1>10. ASSUME NEW n \in 1..Priorities
       PROVE  Collected[n] = value(n, Collected[n - 1])
  BY <1>1, <1>7
<1>11. Collected[0] = 0
  BY <1>1, <1>5, <1>8
<1> QED
  BY <1>9, <1>10, <1>11 DEF value

\* What a round takes from a queue is a beginning of it, and all it takes is
\* no more than the buffer holds.
Front(i) == SubSeq(packet_order[i], 1, Share(i))

Rest(i) == SubSeq(packet_order[i], Share(i) + 1, Len(packet_order[i]))

LEMMA Shares ==
  ASSUME TypeOK
  PROVE  /\ \A n \in 0..Priorities : Collected[n] \in 0..MaxBuffer
         /\ \A i \in Levels : Share(i) \in 0..Len(packet_order[i])
<1>1. Priorities \in Nat /\ MaxBuffer \in Nat
  BY TrafficAssumption
<1>2. ASSUME NEW n \in 1..Priorities
      PROVE  /\ Collected[n] =< MaxBuffer
             /\ Collected[n] =< Collected[n - 1] + Len(packet_order[n - 1])
             /\ Collected[n] \in {MaxBuffer, Collected[n - 1] + Weights[n - 1],
                                  Collected[n - 1] + Len(packet_order[n - 1])}
             /\ Weights[n - 1] \in Nat /\ Len(packet_order[n - 1]) \in Nat
  <2>1. n - 1 \in Levels /\ n - 1 \in 0..Priorities
    BY <1>1 DEF Levels
  <2>2. Weights[n - 1] \in Nat /\ Len(packet_order[n - 1]) \in Nat
    BY <2>1, TrafficAssumption, LenProperties DEF TypeOK
  <2>3. Collected[n - 1] \in Nat
    BY <2>1, CollectedIs
  <2>4. /\ Collected[n - 1] + Weights[n - 1] \in Nat
        /\ Collected[n - 1] + Len(packet_order[n - 1]) \in Nat
    BY <2>2, <2>3
  <2>5. PICK y \in Nat, z \in Nat : /\ y = Collected[n - 1] + Weights[n - 1]
                                  /\ z = Collected[n - 1] + Len(packet_order[n - 1])
    BY <2>4
  <2>6. Collected[n] = Least({MaxBuffer, y, z})
    BY <2>5, CollectedIs
  <2>7. Collected[n] \in {MaxBuffer, y, z} /\ Collected[n] =< MaxBuffer /\ Collected[n] =< z
    BY <1>1, <2>6, LeastOfThree
  <2> QED
    BY <2>2, <2>5, <2>7
<1>3. ASSUME NEW n \in 0..Priorities PROVE Collected[n] \in 0..MaxBuffer
  <2>1. Collected[n] \in Nat /\ Collected[0] = 0
    BY CollectedIs
  <2>2. n = 0 \/ n \in 1..Priorities
    BY <1>1
  <2> QED
    BY <1>1, <1>2, <2>1, <2>2
<1>4. ASSUME NEW i \in Levels PROVE Share(i) \in 0..Len(packet_order[i])
  <2>1. i + 1 \in 1..Priorities /\ (i + 1) - 1 = i /\ i \in 0..Priorities
        /\ i + 1 \in 0..Priorities
    BY <1>1 DEF Levels
  <2>2. /\ Collected[i + 1] =< Collected[i] + Len(packet_order[i])
        /\ Collected[i + 1] \in {MaxBuffer, Collected[i] + Weights[i],
                                 Collected[i] + Len(packet_order[i])}
        /\ Weights[i] \in Nat /\ Len(packet_order[i]) \in Nat
    BY <1>2, <2>1
  <2>3. Collected[i] \in 0..MaxBuffer /\ Collected[i + 1] \in 0..MaxBuffer
    BY <1>3, <2>1
  <2> QED
    BY <1>1, <2>2, <2>3 DEF Share
<1> QED
  BY <1>3, <1>4

LEMMA Cuts ==
  ASSUME TypeOK, NEW i \in Levels
  PROVE  /\ Front(i) \in Seq(Packets) /\ Rest(i) \in Seq(Packets)
         /\ Len(Front(i)) = Share(i)
         /\ Elements(packet_order[i]) = Elements(Front(i)) \cup Elements(Rest(i))
         /\ Ordered(packet_order[i]) => /\ Ordered(Front(i)) /\ Ordered(Rest(i))
                                        /\ Before(Elements(Front(i)), Elements(Rest(i)))
<1>1. packet_order[i] \in Seq(Packets) /\ Share(i) \in 0..Len(packet_order[i])
  BY Shares DEF TypeOK
<1> QED
  BY <1>1, Cut DEF Front, Rest

LEMMA GatherIs ==
  ASSUME TypeOK
  PROVE  /\ Gather \in [0..Priorities -> Seq(Packets)] /\ Gather[0] = <<>>
         /\ \A n \in 1..Priorities : Gather[n] = Gather[n - 1] \o Front(n - 1)
<1>1. Priorities \in Nat
  BY TrafficAssumption
<1> DEFINE step == [n \in 1..Priorities |-> [x \in Seq(Packets) |-> x \o Front(n - 1)]]
           Is(f) == f = [n \in 0..Priorities |->
                            IF n = 0 THEN <<>> ELSE f[n - 1] \o Front(n - 1)]
<1>2. ASSUME NEW n \in 1..Priorities, NEW x \in Seq(Packets)
      PROVE  x \o Front(n - 1) \in Seq(Packets)
  <2>1. n - 1 \in Levels
    BY <1>1 DEF Levels
  <2>2. Front(n - 1) \in Seq(Packets)
    BY <2>1, Cuts
  <2> QED
    BY <2>2, ConcatProperties
<1>3. Steps(step, Priorities, Seq(Packets))
  BY <1>2 DEF Steps
<1>4. <<>> \in Seq(Packets)
  BY EmptySeq
<1>5. \E f \in [0..Priorities -> Seq(Packets)] : Follows(f, step, Priorities, <<>>)
  <2> HIDE DEF step
  <2> QED
    BY <1>1, <1>3, <1>4, Recursion
<1>6. PICK f \in [0..Priorities -> Seq(Packets)] :
         /\ f[0] = <<>>
         /\ \A k \in 1..Priorities : f[k] = step[k][f[k - 1]]
  BY <1>5 DEF Follows
<1>7. Is(f)
  <2>1. ASSUME NEW n \in 0..Priorities, n # 0
        PROVE  f[n] = f[n - 1] \o Front(n - 1)
    <3>1. n \in 1..Priorities /\ n - 1 \in 0..Priorities
      BY <1>1, <2>1
    <3>2. f[n - 1] \in Seq(Packets) /\ f[n] = step[n][f[n - 1]]
      BY <1>6, <3>1
    <3> QED
      BY <3>1, <3>2
  <2> QED
    BY <1>6, <2>1
<1>8. Is(Gather)
  <2>1. Gather = CHOOSE g : Is(g)
    BY DEF Gather, Front
  <2> HIDE DEF Is
  <2> QED
    BY <1>7, <2>1
<1>9. ASSUME NEW n \in 0..Priorities
      PROVE  Gather[n] = f[n]
  <2> DEFINE Differs == {k \in 0..Priorities : Gather[k] # f[k]}
  <2> SUFFICES ASSUME Differs # {} PROVE FALSE
    OBVIOUS
  <2>1. PICK k \in Differs : \A j \in Differs : k =< j
    <3>1. Differs \in SUBSET Nat
      OBVIOUS
    <3> HIDE DEF Differs
    <3> QED
      BY <3>1, LeastNumber
  <2>2. k \in 0..Priorities /\ Gather[k] # f[k]
    OBVIOUS
  <2>3. k # 0
    BY <1>1, <1>6, <1>8, <2>2
  <2>4. k - 1 \in 0..Priorities /\ ~(k =< k - 1)
    BY <1>1, <2>2, <2>3
  <2>5. Gather[k - 1] = f[k - 1]
    BY <2>1, <2>4
  <2>6. Gather[k] = Gather[k - 1] \o Front(k - 1)
    BY <1>8, <2>2, <2>3
  <2>7. f[k] = f[k - 1] \o Front(k - 1)
    BY <1>7, <2>2, <2>3
  <2> QED
    BY <2>2, <2>5, <2>6, <2>7
<1>10. Gather \in [0..Priorities -> Seq(Packets)]
  <2>1. Gather = [n \in 0..Priorities |-> Gather[n]]
    BY <1>8
  <2> QED
    BY <1>9, <2>1
<1>11. ASSUME NEW n \in 1..Priorities
       PROVE  Gather[n] = Gather[n - 1] \o Front(n - 1)
  <2>1. n \in 0..Priorities /\ n # 0
    BY <1>1
  <2> QED
    BY <1>8, <2>1
<1>12. Gather[0] = <<>>
  BY <1>1, <1>6, <1>9
<1> QED
  BY <1>10, <1>11, <1>12

\* A round has as many packets as it counts, those at the front of the queues,
\* and in order when the queues are.
LEMMA GatherRight ==
  ASSUME TypeOK
  PROVE  /\ Gather[Priorities] \in Seq(Packets)
         /\ Len(Gather[Priorities]) = Collected[Priorities]
         /\ Elements(Gather[Priorities]) = UNION {Elements(Front(i)) : i \in Levels}
         /\ QueuesInOrder => Ordered(Gather[Priorities])
<1>1. Priorities \in Nat
  BY TrafficAssumption
<1> DEFINE Right(n) ==
             /\ Gather[n] \in Seq(Packets)
             /\ Len(Gather[n]) = Collected[n]
             /\ Elements(Gather[n]) = UNION {Elements(Front(i)) : i \in 0..(n - 1)}
             /\ QueuesInOrder => Ordered(Gather[n])
           Wrong == {n \in 0..Priorities : ~Right(n)}
<1>2. Right(0)
  <2>1. Gather[0] = <<>> /\ Collected[0] = 0
    BY GatherIs, CollectedIs
  <2> QED
    BY <2>1, Empty, EmptySeq
<1>3. ASSUME NEW n \in 1..Priorities, Right(n - 1)
      PROVE  Right(n)
  <2>1. n - 1 \in Levels /\ n \in 0..Priorities /\ n - 1 \in 0..Priorities
        /\ 0..(n - 1) = (0..((n - 1) - 1)) \cup {n - 1} /\ (n - 1) + 1 = n
    BY <1>1 DEF Levels
  <2>2. Gather[n] = Gather[n - 1] \o Front(n - 1)
    BY GatherIs
  <2>3. /\ Front(n - 1) \in Seq(Packets) /\ Len(Front(n - 1)) = Share(n - 1)
        /\ Elements(Front(n - 1)) \subseteq Elements(packet_order[n - 1])
        /\ QueuesInOrder => Ordered(Front(n - 1))
    BY <2>1, Cuts DEF QueuesInOrder
  <2>4. /\ Gather[n] \in Seq(Packets)
        /\ Len(Gather[n]) = Len(Gather[n - 1]) + Len(Front(n - 1))
        /\ Elements(Gather[n]) = Elements(Gather[n - 1]) \cup Elements(Front(n - 1))
        /\ Ordered(Gather[n - 1]) /\ Ordered(Front(n - 1))
             /\ Before(Elements(Gather[n - 1]), Elements(Front(n - 1)))
               => Ordered(Gather[n])
    <3>1. Gather[n - 1] \in Seq(Packets) /\ Front(n - 1) \in Seq(Packets)
      BY <1>3, <2>3
    <3> QED
      BY <2>2, <3>1, Joined
  <2>5. Len(Gather[n]) = Collected[n]
    <3>1. Share(n - 1) = Collected[n] - Collected[n - 1]
      BY <2>1 DEF Share
    <3>2. Collected[n] \in 0..MaxBuffer /\ Collected[n - 1] \in 0..MaxBuffer
          /\ MaxBuffer \in Nat
      BY <2>1, Shares, TrafficAssumption
    <3> QED
      BY <1>3, <2>3, <2>4, <3>1, <3>2
  <2>6. Elements(Gather[n]) = UNION {Elements(Front(i)) : i \in 0..(n - 1)}
    BY <1>3, <2>1, <2>4
  <2>7. ASSUME QueuesInOrder PROVE Ordered(Gather[n])
    <3>1. ASSUME NEW p \in Elements(Gather[n - 1])
          PROVE  PriorityOf[p] \in 0..((n - 1) - 1)
      <4>1. PICK i \in 0..((n - 1) - 1) : p \in Elements(Front(i))
        BY <1>3, <3>1
      <4>2. i \in Levels
        BY <1>1, <4>1 DEF Levels
      <4>3. p \in Elements(packet_order[i])
        BY <4>1, <4>2, Cuts
      <4> QED
        BY <2>7, <4>1, <4>2, <4>3 DEF QueuesInOrder
    <3>2. \A p \in Elements(Front(n - 1)) : PriorityOf[p] = n - 1
      BY <2>1, <2>3, <2>7 DEF QueuesInOrder
    <3>3. Before(Elements(Gather[n - 1]), Elements(Front(n - 1)))
      BY <3>1, <3>2 DEF Before
    <3> QED
      BY <1>3, <2>3, <2>4, <2>7, <3>3
  <2> QED
    BY <2>4, <2>5, <2>6, <2>7
<1>4. Wrong = {}
  <2> SUFFICES ASSUME Wrong # {} PROVE FALSE
    OBVIOUS
  <2>1. PICK n \in Wrong : \A m \in Wrong : n =< m
    <3>1. Wrong \in SUBSET Nat
      OBVIOUS
    <3> HIDE DEF Wrong
    <3> QED
      BY <3>1, LeastNumber
  <2> HIDE DEF Right
  <2>2. n \in 0..Priorities /\ ~Right(n)
    OBVIOUS
  <2>3. n # 0
    BY <1>2, <2>2
  <2>4. n \in 1..Priorities /\ n - 1 \in 0..Priorities /\ ~(n =< n - 1)
    BY <1>1, <2>2, <2>3
  <2>5. Right(n - 1)
    BY <2>1, <2>4
  <2> QED
    BY <1>3, <2>2, <2>4, <2>5
<1>5. Priorities \in 0..Priorities /\ Levels = 0..(Priorities - 1)
  BY <1>1 DEF Levels
<1>6. Right(Priorities)
  <2> HIDE DEF Right
  <2> QED
    BY <1>4, <1>5
<1> QED
  BY <1>5, <1>6

\* With a packet in one of the queues there is a first such queue.
LEMMA TopFound ==
  ASSUME ~OrderEmpty
  PROVE  Top \in Levels /\ packet_order[Top] # <<>>
<1> DEFINE Some == {i \in Levels : packet_order[i] # <<>>}
<1>1. Some # {}
  BY DEF OrderEmpty
<1>2. Some \in SUBSET Nat
  BY TrafficAssumption DEF Levels
<1>3. PICK i \in Some : \A j \in Some : i =< j
  <2> HIDE DEF Some
  <2> QED
    BY <1>1, <1>2, LeastNumber
<1>4. i \in Levels /\ packet_order[i] # <<>>
  OBVIOUS
<1>5. ASSUME NEW j \in 0..(i - 1) PROVE packet_order[j] = <<>>
  <2>1. j \in Levels /\ ~(i =< j)
    BY <1>4, TrafficAssumption DEF Levels
  <2> QED
    BY <1>3, <2>1
<1>6. \E k \in Levels : /\ packet_order[k] # <<>>
                        /\ \A j \in 0..(k - 1) : packet_order[j] = <<>>
  BY <1>4, <1>5
<1> QED
  BY <1>6 DEF Top

-----------------------------------------------------------------------------
(* Types                                                                   *)

LEMMA TypeInit == Init => TypeInv
<1> SUFFICES ASSUME Init PROVE TypeInv
  OBVIOUS
<1>1. /\ \A S : <<>> \in Seq(S)
      /\ PacketCount \in Nat /\ MaxBuffer \in Nat
      /\ FifoSize \in Nat \ {0} /\ Len(<<>>) = 0
  BY TrafficAssumption, EmptySeq DEF FifoSize, Init
<1> QED
  BY <1>1 DEF Init, TypeInv, TypeOK, Puts

LEMMA TypeNext == TypeInv /\ [Next]_vars => TypeInv'
<1> SUFFICES ASSUME TypeInv, [Next]_vars PROVE TypeInv'
  OBVIOUS
<1> USE DEF TypeInv, Puts, queues
<1>0. /\ PacketCount \in Nat /\ MaxBuffer \in Nat \ {0}
      /\ FifoSize \in Nat \ {0} /\ Len(fifo) \in Nat
      /\ \A p \in Packets : PriorityOf[p] \in Levels
  BY TrafficAssumption, LenProperties DEF FifoSize, TypeOK
<1>1. CASE Arrive
  <2>1. next \in Packets /\ next + 1 \in 1..(PacketCount + 1)
    BY <1>0, <1>1 DEF Arrive, TypeOK, Packets
  <2>2. /\ Append(output_set, next) \in Seq(Packets)
        /\ Append(packet_order[PriorityOf[next]], next) \in Seq(Packets)
    BY <1>0, <2>1, Appended DEF TypeOK
  <2>3. output_set' \in Seq(Packets) /\ packet_order' \in [Levels -> Seq(Packets)]
    BY <1>1, <2>2 DEF Arrive, TypeOK
  <2> QED
    BY <1>1, <2>1, <2>3 DEF Arrive, TypeOK, FifoSize
<1>2. CASE ArriveFull
  <2>1. next \in Packets /\ next + 1 \in 1..(PacketCount + 1)
    BY <1>0, <1>2 DEF ArriveFull, TypeOK, Packets
  <2> QED
    BY <1>2, <2>1 DEF ArriveFull, TypeOK, FifoSize
<1>3. CASE Wait
  BY <1>3 DEF Wait, TypeOK, FifoSize
<1>4. CASE PickFixed
  <2>1. CASE OrderEmpty
    BY <1>4, <2>1 DEF PickFixed, TypeOK, FifoSize
  <2>2. CASE ~OrderEmpty
    <3>1. Top \in Levels /\ packet_order[Top] # <<>>
      BY <2>2, TopFound
    <3>2. Head(packet_order[Top]) \in Packets /\ Tail(packet_order[Top]) \in Seq(Packets)
      BY <3>1, Taken DEF TypeOK
    <3>3. packet_order' \in [Levels -> Seq(Packets)]
      BY <1>4, <2>2, <3>1, <3>2 DEF PickFixed, TypeOK
    <3> QED
      BY <1>4, <2>2, <3>2, <3>3 DEF PickFixed, TypeOK, FifoSize
  <2> QED
    BY <2>1, <2>2
<1>5. CASE Collect
  <2>1. Gather[Priorities] \in Seq(Packets)
    BY GatherRight
  <2>2. output_set' \in Seq(Packets)
    BY <1>5, <2>1, ConcatProperties DEF Collect, TypeOK
  <2>3. packet_order' = [i \in Levels |-> Rest(i)]
    BY <1>5 DEF Collect, Rest
  <2>4. packet_order' \in [Levels -> Seq(Packets)]
    BY <2>3, Cuts
  <2>5. c' \in 0..MaxBuffer
    <3>1. Priorities \in 0..Priorities
      BY TrafficAssumption
    <3> QED
      BY <1>5, <3>1, Shares DEF Collect
  <2>6. pc' \in {"pop", "end"}
    BY <1>5 DEF Collect
  <2> QED
    BY <1>5, <2>2, <2>4, <2>5, <2>6 DEF Collect, TypeOK, FifoSize
<1>6. CASE Pop
  <2>1. Head(output_set) \in Packets /\ Tail(output_set) \in Seq(Packets)
    BY <1>6, Taken DEF Pop, TypeOK
  <2> QED
    BY <1>6, <2>1 DEF Pop, TypeOK, FifoSize
<1>7. CASE Block
  BY <1>7 DEF Block, TypeOK, FifoSize
<1>8. CASE Put
  <2>1. hand \in Packets
    BY <1>8 DEF Put
  <2>2. fifo' \in Seq(Packets) /\ Len(fifo') =< FifoSize
    BY <1>0, <1>8, <2>1, Appended DEF Put, TypeOK
  <2>3. c' \in 0..MaxBuffer
    BY <1>0, <1>8 DEF Put, TypeOK
  <2>4. pc' \in {"pop", "end"}
    BY <1>8 DEF Put
  <2> QED
    BY <1>8, <2>2, <2>3, <2>4 DEF Put, TypeOK, FifoSize
<1>9. CASE EndRound
  BY <1>9 DEF EndRound, TypeOK, FifoSize
<1>10. CASE Take
  <2>1. /\ Head(fifo) \in Packets /\ Tail(fifo) \in Seq(Packets)
        /\ Len(Tail(fifo)) = Len(fifo) - 1
    BY <1>10, Taken DEF Take, TypeOK
  <2>2. sent' \in Seq(Packets)
    BY <1>10, <2>1, Appended DEF Take, TypeOK
  <2>3. Len(fifo') =< FifoSize
    BY <1>0, <1>10, <2>1 DEF Take, TypeOK
  <2> QED
    BY <1>10, <2>1, <2>2, <2>3 DEF Take, TypeOK, FifoSize
<1>11. CASE UNCHANGED vars
  BY <1>11 DEF vars, TypeOK, FifoSize
<1> QED
  BY <1>1, <1>2, <1>3, <1>4, <1>5, <1>6, <1>7, <1>8, <1>9, <1>10, <1>11
  DEF Next, Thread

LEMMA TypeInvariant == Spec => []TypeInv
  BY TypeInit, TypeNext, PTL DEF Spec

-----------------------------------------------------------------------------
(* Rounds                                                                  *)

LEMMA RoundInit == Init => RoundInv
  BY EmptySeq DEF Init, RoundInv, Round, OrderEmpty, Puts

LEMMA RoundNext == TypeInv /\ RoundInv /\ [Next]_vars => RoundInv'
<1> SUFFICES ASSUME TypeInv, RoundInv, [Next]_vars PROVE RoundInv'
  OBVIOUS
<1> USE DEF Puts, queues
<1>0. /\ TypeOK /\ c \in Nat /\ Len(output_set) \in Nat
      /\ packet_order \in [Levels -> Seq(Packets)] /\ output_set \in Seq(Packets)
      /\ pc \in {"loop", "waiting", "woken", "pop", "put", "blocked", "end"}
  BY TrafficAssumption, LenProperties DEF TypeInv, TypeOK
<1>1. CASE Arrive
  <2>1. next \in Packets
    BY <1>1, TrafficAssumption DEF Arrive, TypeInv, TypeOK, Packets
  <2>2. CASE parameters.NO_PRIORITY
    BY <1>0, <1>1, <2>2 DEF Arrive, RoundInv, Round
  <2>3. CASE ~parameters.NO_PRIORITY
    BY <1>1, <2>3 DEF Arrive, RoundInv, OrderEmpty
  <2> QED
    BY <2>2, <2>3
<1>2. CASE ArriveFull
  BY <1>2 DEF ArriveFull, RoundInv, Round, OrderEmpty
<1>3. CASE Wait
  BY <1>0, <1>3 DEF Wait, RoundInv, Round, OrderEmpty
<1>4. CASE PickFixed
  <2>1. CASE OrderEmpty
    BY <1>0, <1>4, <2>1 DEF PickFixed, RoundInv, Round, OrderEmpty
  <2>2. CASE ~OrderEmpty
    BY <1>0, <1>4, <2>2 DEF PickFixed, RoundInv, Round
  <2> QED
    BY <2>1, <2>2
<1>5. CASE Collect
  <2>1. /\ Gather[Priorities] \in Seq(Packets)
        /\ Len(Gather[Priorities]) = Collected[Priorities]
        /\ Collected[Priorities] \in Nat
    <3>1. Priorities \in 0..Priorities /\ MaxBuffer \in Nat
      BY TrafficAssumption
    <3> QED
      BY <1>0, <3>1, GatherRight, Shares
  <2>2. Len(output_set') = Len(output_set) + Collected[Priorities]
    BY <1>0, <1>5, <2>1, Joined DEF Collect
  <2>3. CASE parameters.NO_PRIORITY
    <3>1. c = 0 /\ Len(output_set) = 0
      BY <1>0, <1>5, <2>3 DEF Collect, RoundInv, Round
    <3> QED
      BY <1>0, <1>5, <2>1, <2>2, <2>3, <3>1 DEF Collect, RoundInv, Round
  <2>4. CASE ~parameters.NO_PRIORITY
    <3>1. ASSUME NEW i \in Levels PROVE packet_order'[i] = <<>>
      <4>1. packet_order[i] = <<>>
        BY <2>4 DEF RoundInv, OrderEmpty
      <4>2. Share(i) = 0
        BY <1>0, <4>1, Shares, EmptySeq
      <4>3. packet_order'[i] = SubSeq(packet_order[i], 0 + 1, 0)
        BY <1>5, <4>1, <4>2, EmptySeq DEF Collect
      <4> QED
        BY <4>3, SubSeqEmpty
    <3> QED
      BY <1>5, <2>4, <3>1 DEF Collect, RoundInv, OrderEmpty
  <2> QED
    BY <2>3, <2>4
<1>6. CASE Pop
  <2>1. Len(output_set') = Len(output_set) - 1 /\ Len(output_set) \in Nat \ {0}
    BY <1>0, <1>6, Taken DEF Pop
  <2>2. CASE parameters.NO_PRIORITY
    <3>1. Round
      BY <2>2 DEF RoundInv
    <3>2. pc = "pop" /\ c > 0 /\ c = Len(output_set)
      <4>1. c # 0
        BY <1>0, <2>1, <3>1 DEF Round
      <4>2. pc = "pop"
        <5>1. pc \notin {"loop", "woken"}
          BY <3>1, <4>1 DEF Round
        <5> QED
          BY <1>6, <5>1 DEF Pop, AtPop
      <4> QED
        BY <1>0, <3>1, <4>1, <4>2 DEF Round
    <3>3. Round'
      BY <1>0, <1>6, <2>1, <3>1, <3>2 DEF Pop, Round, OrderEmpty
    <3> QED
      BY <1>6, <2>2, <3>3 DEF Pop, RoundInv
  <2>3. CASE ~parameters.NO_PRIORITY
    BY <1>6, <2>3 DEF Pop, RoundInv, OrderEmpty
  <2> QED
    BY <2>2, <2>3
<1>7. CASE Block
  BY <1>7 DEF Block, RoundInv, Round, OrderEmpty
<1>8. CASE Put
  BY <1>0, <1>8 DEF Put, RoundInv, Round, OrderEmpty
<1>9. CASE EndRound
  BY <1>0, <1>9 DEF EndRound, RoundInv, Round, OrderEmpty
<1>10. CASE Take
  BY <1>10 DEF Take, RoundInv, Round, OrderEmpty
<1>11. CASE UNCHANGED vars
  BY <1>11 DEF vars, RoundInv, Round, OrderEmpty
<1> QED
  BY <1>1, <1>2, <1>3, <1>4, <1>5, <1>6, <1>7, <1>8, <1>9, <1>10, <1>11
  DEF Next, Thread

LEMMA RoundInvariant == Spec => [](TypeInv /\ RoundInv)
  BY RoundInit, RoundNext, TypeInit, TypeNext, PTL DEF Spec

-----------------------------------------------------------------------------
(* Order                                                                   *)

\* A packet goes one place further on when it is the first of its priority
\* where it is, and nothing is in between.
LEMMA MoveToSent ==
  ASSUME NEW S, NEW F, NEW H, NEW O, NEW I, NEW M, NEW G,
         Chain(S, F, H, O, I), F = M \cup G, Before(M, G)
  PROVE  Chain(S \cup M, G, H, O, I)
  BY DEF Chain, Before

LEMMA MoveToFifo ==
  ASSUME NEW S, NEW F, NEW H, NEW O, NEW I, Chain(S, F, H, O, I)
  PROVE  Chain(S, F \cup H, {}, O, I)
  BY DEF Chain, Before

LEMMA MoveToHand ==
  ASSUME NEW S, NEW F, NEW O, NEW I, NEW M, NEW Q,
         Chain(S, F, {}, O, I), O = M \cup Q, Before(M, Q)
  PROVE  Chain(S, F, M, Q, I)
  BY DEF Chain, Before

LEMMA MoveToOutput ==
  ASSUME NEW S, NEW F, NEW O, NEW I, NEW M, NEW J,
         Chain(S, F, {}, O, I), I = M \cup J, Before(M, J)
  PROVE  Chain(S, F, {}, O \cup M, J)
  BY DEF Chain, Before

LEMMA MoveIn ==
  ASSUME NEW S, NEW F, NEW H, NEW O, NEW I, NEW M, Chain(S, F, H, O, I),
         Before(S \cup F \cup H \cup O \cup I, M)
  PROVE  /\ Chain(S, F, H, O, I \cup M)
         /\ I = {} => Chain(S, F, H, O \cup M, {})
  BY DEF Chain, Before

LEMMA Apart ==
  ASSUME NEW S, NEW F, NEW H, NEW O, NEW I, Chain(S, F, H, O, I)
  PROVE  /\ Before(S, F) /\ Before(F, H) /\ Before(S, H) /\ Before(O, I)
         /\ Before(S, O) /\ Before(S, I) /\ Before(F, O) /\ Before(F, I)
         /\ Before(H, O) /\ Before(H, I)
  BY DEF Chain, Before

LEMMA OrderInit == Init => OrderInv /\ PlacesInv
<1> SUFFICES ASSUME Init PROVE OrderInv /\ PlacesInv
  OBVIOUS
<1>1. /\ Elements(sent) = {} /\ Elements(fifo) = {} /\ Elements(output_set) = {}
      /\ Ordered(sent) /\ Ordered(fifo) /\ Ordered(output_set)
      /\ \A i \in Levels : /\ Ordered(packet_order[i])
                           /\ Elements(packet_order[i]) = {}
      /\ Hand = {} /\ InOrder = {}
  BY Empty DEF Init, Hand, Puts, InOrder
<1>2. Chain({}, {}, {}, {}, {})
  BY DEF Chain, Before
<1>3. next = 1 /\ lost = {} /\ 1..(1 - 1) = {}
  BY DEF Init
<1> QED
  BY <1>1, <1>2, <1>3 DEF OrderInv, QueuesInOrder, PlacesInv, Placed

LEMMA OrderNext ==
  TypeInv /\ RoundInv /\ OrderInv /\ PlacesInv /\ [Next]_vars
    => OrderInv' /\ PlacesInv'
<1> SUFFICES ASSUME TypeInv, RoundInv, OrderInv, PlacesInv, [Next]_vars
             PROVE  OrderInv' /\ PlacesInv'
  OBVIOUS
<1> USE DEF queues
<1>0. /\ TypeOK /\ TypeInv'
      /\ sent \in Seq(Packets) /\ fifo \in Seq(Packets) /\ output_set \in Seq(Packets)
      /\ packet_order \in [Levels -> Seq(Packets)]
      /\ PacketCount \in Nat /\ next \in 1..(PacketCount + 1)
      /\ \A p \in Packets : PriorityOf[p] \in Levels
      /\ Levels \subseteq Nat
  <2>1. TypeInv'
    BY TypeNext
  <2>2. Levels \subseteq Nat /\ PacketCount \in Nat /\ PriorityOf \in [Packets -> Levels]
    BY TrafficAssumption DEF Levels
  <2> QED
    BY <2>1, <2>2 DEF TypeInv, TypeOK
<1>1. CASE Arrive
  <2>1. next \in Packets /\ next' = next + 1 /\ Hand' = Hand
    BY <1>0, <1>1 DEF Arrive, Packets, Hand, Puts
  <2>2. Before(Placed, {next})
    <3>1. Placed \subseteq 1..(next - 1) /\ next \in Nat
      BY <1>0 DEF PlacesInv
    <3> QED
      BY <3>1 DEF Before
  <2>3. Placed' = Placed \cup {next} => PlacesInv'
    <3>1. 1..(next' - 1) = (1..(next - 1)) \cup {next} /\ next \notin 1..(next - 1)
      BY <1>0, <2>1
    <3> QED
      BY <1>1, <3>1 DEF PlacesInv, Arrive
  <2>4. CASE parameters.NO_PRIORITY
    <3> DEFINE k == PriorityOf[next]
    <3>1. /\ packet_order' = [packet_order EXCEPT ![k] = Append(packet_order[k], next)]
          /\ UNCHANGED <<sent, fifo, output_set>>
      BY <1>1, <2>4 DEF Arrive
    <3>2. k \in Levels /\ packet_order[k] \in Seq(Packets)
          /\ Elements(packet_order[k]) \subseteq Placed
      BY <1>0, <2>1 DEF Placed, InOrder
    <3>3. /\ Elements(packet_order'[k]) = Elements(packet_order[k]) \cup {next}
          /\ Ordered(packet_order'[k])
      <4>1. Ordered(packet_order[k]) /\ Before(Elements(packet_order[k]), {next})
        BY <2>2, <3>2 DEF OrderInv, QueuesInOrder, Before
      <4>2. packet_order'[k] = Append(packet_order[k], next)
        BY <1>0, <3>1, <3>2
      <4> QED
        BY <2>1, <3>2, <4>1, <4>2, Appended
    <3>4. \A i \in Levels : i # k => packet_order'[i] = packet_order[i]
      BY <1>0, <3>1
    <3> HIDE DEF k
    <3>5. InOrder' = InOrder \cup {next}
      BY <3>2, <3>3, <3>4 DEF InOrder
    <3>6. QueuesInOrder'
      BY <3>2, <3>3, <3>4 DEF OrderInv, QueuesInOrder, k
    <3>7. Chain(Elements(sent), Elements(fifo), Hand, Elements(output_set), InOrder')
      BY <2>2, <3>5, MoveIn DEF OrderInv, Placed
    <3>8. OrderInv'
      BY <2>1, <3>1, <3>6, <3>7 DEF OrderInv
    <3>9. Placed' = Placed \cup {next}
      BY <2>1, <3>1, <3>5 DEF Placed
    <3> QED
      BY <2>3, <3>8, <3>9
  <2>5. CASE ~parameters.NO_PRIORITY
    <3>1. /\ output_set' = Append(output_set, next)
          /\ UNCHANGED <<sent, fifo, packet_order>>
      BY <1>1, <2>5 DEF Arrive
    <3>2. InOrder = {} /\ InOrder' = {}
      BY <2>5, <3>1, Empty DEF RoundInv, OrderEmpty, InOrder
    <3>3. /\ Elements(output_set') = Elements(output_set) \cup {next}
          /\ Ordered(output_set')
      <4>1. Ordered(output_set) /\ Before(Elements(output_set), {next})
        BY <2>2 DEF OrderInv, Placed, Before
      <4> QED
        BY <1>0, <2>1, <3>1, <4>1, Appended
    <3>4. Chain(Elements(sent), Elements(fifo), Hand, Elements(output_set'), {})
      BY <2>2, <3>2, <3>3, MoveIn DEF OrderInv, Placed
    <3>5. QueuesInOrder'
      BY <3>1 DEF OrderInv, QueuesInOrder
    <3>6. OrderInv'
      BY <2>1, <3>1, <3>2, <3>3, <3>4, <3>5 DEF OrderInv
    <3>7. Placed' = Placed \cup {next}
      BY <2>1, <3>1, <3>2, <3>3 DEF Placed
    <3> QED
      BY <2>3, <3>6, <3>7
  <2> QED
    BY <2>4, <2>5
<1>2. CASE ArriveFull
  <2>1. next' = next + 1 /\ lost' = lost \cup {next}
        /\ UNCHANGED <<sent, fifo, output_set, packet_order, pc, hand>>
    BY <1>2 DEF ArriveFull
  <2>2. OrderInv' /\ Placed' = Placed
    BY <2>1 DEF OrderInv, QueuesInOrder, Placed, Hand, InOrder
  <2>3. 1..(next' - 1) = (1..(next - 1)) \cup {next} /\ next \notin 1..(next - 1)
    BY <1>0, <2>1
  <2> QED
    BY <2>1, <2>2, <2>3 DEF PlacesInv
<1>3. ASSUME UNCHANGED <<sent, fifo, output_set, packet_order, next, lost>>, Hand' = Hand
      PROVE  OrderInv' /\ PlacesInv'
  <2>1. OrderInv' /\ Placed' = Placed
    BY <1>3 DEF OrderInv, QueuesInOrder, Placed, InOrder
  <2> QED
    BY <1>3, <2>1 DEF PlacesInv
<1>4. CASE PickFixed
  <2>1. CASE OrderEmpty
    BY <1>3, <1>4, <2>1 DEF PickFixed, Hand, Puts
  <2>2. CASE ~OrderEmpty
    <3>1. Top \in Levels /\ packet_order[Top] # <<>>
      BY <2>2, TopFound
    <3>2. PICK k : k = Top
      OBVIOUS
    <3>3. /\ packet_order' = [packet_order EXCEPT ![k] = Tail(packet_order[k])]
          /\ hand' = Head(packet_order[k]) /\ Hand' = {hand'} /\ Hand = {}
          /\ UNCHANGED <<sent, fifo, output_set, next, lost>>
      BY <1>4, <2>2, <3>2 DEF PickFixed, Hand, Puts
    <3>4. output_set = <<>>
      <4>1. c = 0 /\ Len(output_set) \in Nat
        BY <1>0, <1>4, <2>2, LenProperties DEF PickFixed, RoundInv, Round
      <4>2. Len(output_set) = 0
        BY <2>2, <4>1 DEF RoundInv, Round
      <4> QED
        BY <1>0, <4>2, EmptySeq
    <3>5. /\ packet_order'[k] = Tail(packet_order[k])
          /\ \A i \in Levels : i # k => packet_order'[i] = packet_order[i]
      BY <1>0, <3>1, <3>2, <3>3
    <3>6. /\ Elements(packet_order[k]) = {hand'} \cup Elements(packet_order'[k])
          /\ Ordered(packet_order'[k]) /\ Before({hand'}, Elements(packet_order'[k]))
      BY <1>0, <3>1, <3>2, <3>3, <3>5, Taken DEF OrderInv, QueuesInOrder
    <3>7. InOrder = {hand'} \cup InOrder'
      BY <3>1, <3>2, <3>5, <3>6 DEF InOrder
    <3>8. QueuesInOrder' /\ PriorityOf[hand'] = k
      BY <3>1, <3>2, <3>5, <3>6 DEF OrderInv, QueuesInOrder
    <3>9. Before({hand'}, InOrder')
      <4> SUFFICES ASSUME NEW q \in InOrder', PriorityOf[hand'] = PriorityOf[q]
                   PROVE  hand' < q
        BY DEF Before
      <4>1. PICK i \in Levels : q \in Elements(packet_order'[i])
        BY DEF InOrder
      <4>2. i = k
        BY <3>8, <4>1 DEF QueuesInOrder
      <4> QED
        BY <3>6, <4>1, <4>2 DEF Before
    <3>10. Elements(output_set) = {}
      BY <3>4, Empty
    <3>11. Chain(Elements(sent), Elements(fifo), {hand'}, {}, InOrder')
      <4>1. Chain(Elements(sent), Elements(fifo), {}, {} \cup {hand'}, InOrder')
        BY <3>3, <3>7, <3>9, <3>10, MoveToOutput DEF OrderInv
      <4>2. Before({hand'}, {}) /\ {} \cup {hand'} = {hand'} \cup {}
        BY DEF Before
      <4> QED
        BY <4>1, <4>2, MoveToHand
    <3>12. OrderInv'
      BY <3>3, <3>8, <3>10, <3>11 DEF OrderInv
    <3>13. Placed' = Placed
      BY <3>3, <3>7 DEF Placed
    <3> QED
      BY <3>3, <3>12, <3>13 DEF PlacesInv
  <2> QED
    BY <2>1, <2>2
<1>5. CASE Collect
  <2> DEFINE M == UNION {Elements(Front(i)) : i \in Levels}
             J == UNION {Elements(Rest(i)) : i \in Levels}
  <2>1. /\ output_set' = output_set \o Gather[Priorities]
        /\ packet_order' = [i \in Levels |-> Rest(i)]
        /\ UNCHANGED <<sent, fifo, next, lost>>
        /\ Hand = {} /\ Hand' = {}
    BY <1>5 DEF Collect, Rest, Hand, Puts
  <2>2. /\ Gather[Priorities] \in Seq(Packets)
        /\ Elements(Gather[Priorities]) = M
        /\ Ordered(Gather[Priorities])
    BY <1>0, GatherRight DEF OrderInv
  <2>3. InOrder = M \cup J /\ InOrder' = J
    <3>1. InOrder = M \cup J
      BY <1>0, Cuts DEF InOrder
    <3> QED
      BY <2>1, <3>1 DEF InOrder
  <2>4. Before(M, J)
    <3> SUFFICES ASSUME NEW p \in M, NEW q \in J, PriorityOf[p] = PriorityOf[q]
                 PROVE  p < q
      BY DEF Before
    <3>1. PICK i \in Levels : p \in Elements(Front(i))
      OBVIOUS
    <3>2. PICK j \in Levels : q \in Elements(Rest(j))
      OBVIOUS
    <3>3. p \in Elements(packet_order[i]) /\ q \in Elements(packet_order[j])
      BY <1>0, <3>1, <3>2, Cuts
    <3>4. i = j
      BY <3>3 DEF OrderInv, QueuesInOrder
    <3>5. Before(Elements(Front(i)), Elements(Rest(i)))
      BY <1>0, Cuts DEF OrderInv, QueuesInOrder
    <3> QED
      BY <3>1, <3>2, <3>4, <3>5 DEF Before
  <2> HIDE DEF M, J
  <2>5. Before(Elements(output_set), M)
    BY <2>3 DEF OrderInv, Chain, Before
  <2>6. Ordered(output_set') /\ Elements(output_set') = Elements(output_set) \cup M
    BY <1>0, <2>1, <2>2, <2>5, Joined DEF OrderInv
  <2>7. QueuesInOrder'
    <3>1. ASSUME NEW i \in Levels
          PROVE  /\ Ordered(packet_order'[i])
                 /\ Elements(packet_order'[i]) \subseteq Elements(packet_order[i])
      BY <1>0, <2>1, Cuts DEF OrderInv, QueuesInOrder
    <3> QED
      BY <3>1 DEF OrderInv, QueuesInOrder
  <2>8. Chain(Elements(sent), Elements(fifo), {}, Elements(output_set) \cup M, J)
    BY <2>1, <2>3, <2>4, MoveToOutput DEF OrderInv
  <2>9. OrderInv'
    BY <2>1, <2>3, <2>6, <2>7, <2>8 DEF OrderInv
  <2>10. Placed' = Placed
    BY <2>1, <2>3, <2>6 DEF Placed
  <2> QED
    BY <2>1, <2>9, <2>10 DEF PlacesInv
<1>6. CASE Pop
  <2>1. /\ output_set # <<>> /\ output_set' = Tail(output_set) /\ hand' = Head(output_set)
        /\ UNCHANGED <<sent, fifo, packet_order, next, lost>>
        /\ Hand = {} /\ Hand' = {hand'}
    BY <1>6 DEF Pop, AtPop, Hand, Puts
  <2>2. /\ Elements(output_set) = {hand'} \cup Elements(output_set')
        /\ Ordered(output_set') /\ Before({hand'}, Elements(output_set'))
    BY <1>0, <2>1, Taken DEF OrderInv
  <2>3. Chain(Elements(sent), Elements(fifo), {hand'}, Elements(output_set'), InOrder)
    BY <2>1, <2>2, MoveToHand DEF OrderInv
  <2>4. InOrder' = InOrder /\ QueuesInOrder'
    BY <2>1 DEF InOrder, OrderInv, QueuesInOrder
  <2>5. OrderInv'
    BY <2>1, <2>2, <2>3, <2>4 DEF OrderInv
  <2>6. Placed' = Placed
    BY <2>1, <2>2, <2>4 DEF Placed
  <2> QED
    BY <2>1, <2>5, <2>6 DEF PlacesInv
<1>7. CASE Put
  <2>1. /\ fifo' = Append(fifo, hand)
        /\ UNCHANGED <<sent, output_set, packet_order, next, lost>>
        /\ Hand = {hand} /\ Hand' = {} /\ hand \in Packets
    BY <1>7 DEF Put, Hand, Puts, TypeInv
  <2>2. Before(Elements(fifo), {hand})
    BY <2>1, Apart DEF OrderInv
  <2>3. Elements(fifo') = Elements(fifo) \cup {hand} /\ Ordered(fifo')
    BY <1>0, <2>1, <2>2, Appended DEF OrderInv
  <2>4. Chain(Elements(sent), Elements(fifo'), {}, Elements(output_set), InOrder)
    BY <2>1, <2>3, MoveToFifo DEF OrderInv
  <2>5. InOrder' = InOrder /\ QueuesInOrder'
    BY <2>1 DEF InOrder, OrderInv, QueuesInOrder
  <2>6. OrderInv'
    BY <2>1, <2>3, <2>4, <2>5 DEF OrderInv
  <2>7. Placed' = Placed
    BY <2>1, <2>3, <2>5 DEF Placed
  <2> QED
    BY <2>1, <2>6, <2>7 DEF PlacesInv
<1>8. CASE Take
  <2>1. PICK p : p = Head(fifo)
    OBVIOUS
  <2>2. /\ fifo # <<>> /\ fifo' = Tail(fifo) /\ sent' = Append(sent, p)
        /\ UNCHANGED <<output_set, packet_order, next, lost, pc, hand>>
        /\ Hand' = Hand
    BY <1>8, <2>1 DEF Take, Hand
  <2>3. /\ p \in Packets /\ Elements(fifo) = {p} \cup Elements(fifo')
        /\ Ordered(fifo') /\ Before({p}, Elements(fifo'))
    BY <1>0, <2>1, <2>2, Taken DEF OrderInv
  <2>4. Before(Elements(sent), {p})
    BY <2>3 DEF OrderInv, Chain, Before
  <2>5. Elements(sent') = Elements(sent) \cup {p} /\ Ordered(sent')
    BY <1>0, <2>2, <2>3, <2>4, Appended DEF OrderInv
  <2>6. Chain(Elements(sent'), Elements(fifo'), Hand, Elements(output_set), InOrder)
    BY <2>3, <2>5, MoveToSent DEF OrderInv
  <2>7. InOrder' = InOrder /\ QueuesInOrder'
    BY <2>2 DEF InOrder, OrderInv, QueuesInOrder
  <2>8. OrderInv'
    BY <2>2, <2>3, <2>5, <2>6, <2>7 DEF OrderInv
  <2>9. Placed' = Placed
    BY <2>2, <2>3, <2>5, <2>7 DEF Placed
  <2> QED
    BY <2>2, <2>8, <2>9 DEF PlacesInv
<1>9. CASE Wait \/ Block \/ EndRound \/ UNCHANGED vars
  BY <1>3, <1>9 DEF Wait, Block, EndRound, vars, Hand, Puts
<1> QED
  BY <1>1, <1>2, <1>4, <1>5, <1>6, <1>7, <1>8, <1>9 DEF Next, Thread

LEMMA OrderInvariant == Spec => [](TypeInv /\ RoundInv /\ OrderInv /\ PlacesInv)
  BY TypeInit, TypeNext, RoundInit, RoundNext, OrderInit, OrderNext, PTL DEF Spec

-----------------------------------------------------------------------------
(* The thread does not sleep                                               *)

\* Either there are queues per priority, or, as in the repository, packets come
\* no faster than they are sent and the channel has room for all.
Suited(set) == \/ set.NO_PRIORITY
               \/ /\ set.POLICY \notin {"FIXED_PRIORITY", "WEIGHTED_ROUND_ROBIN"}
                  /\ ~set.burst
                  /\ PacketCount =< set.fifo_size

\* The packet in hand is one the channel does not hold, so there is one less.
LEMMA RoomForAll ==
  ASSUME TypeInv, OrderInv, pc \in Puts
  PROVE  Len(fifo) < PacketCount
<1>1. /\ fifo \in [1..Len(fifo) -> Packets] /\ Len(fifo) \in Nat
      /\ PacketCount \in Nat /\ hand \in Packets
  BY LenProperties, TrafficAssumption DEF TypeInv, TypeOK
<1>2. ASSUME NEW i \in 1..Len(fifo) PROVE fifo[i] \in Packets \ {hand}
  <2>1. Before(Elements(fifo), {hand})
    BY Apart DEF OrderInv, Hand
  <2>2. fifo[i] \in Elements(fifo) /\ hand \in Nat
    BY <1>1 DEF Elements, Packets
  <2> QED
    BY <1>1, <2>1, <2>2 DEF Before
<1>3. ASSUME NEW i \in 1..Len(fifo), NEW j \in 1..Len(fifo), i # j, fifo[i] = fifo[j]
      PROVE  FALSE
  <2>1. fifo[i] \in Nat
    BY <1>1 DEF Packets
  <2>2. i < j \/ j < i
    BY <1>3
  <2> QED
    BY <1>3, <2>1, <2>2 DEF OrderInv, Ordered
<1>4. /\ IsFiniteSet(1..Len(fifo)) /\ Cardinality(1..Len(fifo)) = Len(fifo)
      /\ IsFiniteSet(Packets) /\ Cardinality(Packets) = PacketCount
  <2>1. /\ IsFiniteSet(1..Len(fifo))
        /\ Cardinality(1..Len(fifo)) = IF 1 > Len(fifo) THEN 0 ELSE Len(fifo) - 1 + 1
    BY SMTT(60), <1>1, FS_Interval
  <2>2. /\ IsFiniteSet(1..PacketCount)
        /\ Cardinality(1..PacketCount) = IF 1 > PacketCount THEN 0 ELSE PacketCount - 1 + 1
    BY <1>1, FS_Interval
  <2> QED
    BY <1>1, <2>1, <2>2 DEF Packets
<1>5. /\ IsFiniteSet(Packets \ {hand})
      /\ Cardinality(Packets \ {hand}) = PacketCount - 1
  BY <1>1, <1>4, FS_RemoveElement
<1>6. ~ (PacketCount - 1 < Len(fifo))
  <2> SUFFICES ASSUME PacketCount - 1 < Len(fifo) PROVE FALSE
    OBVIOUS
  <2>1. fifo \in [1..Len(fifo) -> Packets \ {hand}]
    BY <1>1, <1>2
  <2>2. \E i, j \in 1..Len(fifo) : i # j /\ fifo[i] = fifo[j]
    BY <1>4, <1>5, <2>1, FS_PigeonHole
  <2> QED
    BY <1>3, <2>2
<1> QED
  BY <1>1, <1>6

LEMMA PromptInit == Init => Prompt
  BY DEF Init, Prompt

LEMMA PromptNext ==
  ASSUME \A set \in Settings : Suited(set)
  PROVE  TypeInv /\ RoundInv /\ OrderInv /\ Prompt /\ [Next]_vars => Prompt'
<1> SUFFICES ASSUME TypeInv, RoundInv, OrderInv, Prompt, [Next]_vars,
                    ~parameters'.NO_PRIORITY
             PROVE  Prompt'
  BY DEF Prompt
<1> USE DEF Puts, queues
<1>1. parameters' = parameters /\ parameters \in Settings
  BY DEF Next, Thread, Arrive, ArriveFull, Wait, PickFixed, Collect, Pop, Block, Put,
         EndRound, Take, vars, TypeInv, TypeOK
<1>2. /\ Policy \notin {"FIXED_PRIORITY", "WEIGHTED_ROUND_ROBIN"}
      /\ ~parameters.burst /\ PacketCount =< FifoSize /\ OrderEmpty
      /\ c = 0 /\ pc \notin {"pop", "blocked"}
      /\ pc = "woken" => ~flag_buffer_empty /\ Len(output_set) = 1
      /\ pc # "woken" => output_set = <<>>
      /\ pc \in {"loop", "waiting"} => flag_buffer_empty
  BY <1>1 DEF Suited, Policy, FifoSize, RoundInv, Prompt
<1>3. CASE Arrive
  <2>1. pc = "waiting" /\ output_set = <<>>
    BY <1>2, <1>3, EmptySeq DEF Arrive, Yielded, AtPop
  <2>2. next \in Packets
    BY <1>3, TrafficAssumption DEF Arrive, TypeInv, TypeOK, Packets
  <2>3. Len(output_set') = 1
    <3>1. output_set' = Append(output_set, next)
      BY <1>1, <1>3 DEF Arrive
    <3>2. Len(output_set) = 0 /\ output_set \in Seq(Packets)
      BY <2>1, EmptySeq
    <3>3. Len(output_set') = Len(output_set) + 1
      BY <2>2, <3>1, <3>2, Appended
    <3> QED
      BY <3>2, <3>3
  <2> QED
    BY <1>2, <1>3, <2>1, <2>3 DEF Arrive, Prompt
<1>4. CASE ArriveFull
  BY <1>2, <1>4 DEF ArriveFull, Prompt
<1>5. CASE Wait
  BY <1>2, <1>5 DEF Wait, Prompt
<1>6. CASE PickFixed \/ Collect
  BY <1>2, <1>6 DEF PickFixed, Collect
<1>7. CASE Pop
  <2>1. output_set # <<>> /\ output_set \in Seq(Packets) /\ output_set' = Tail(output_set)
    BY <1>7 DEF Pop, TypeInv, TypeOK
  <2>2. pc = "woken" /\ Len(output_set) = 1
    BY <1>2, <2>1
  <2>3. Len(output_set') = 0 /\ output_set' \in Seq(Packets)
    BY <2>1, <2>2, Taken
  <2>4. output_set' = <<>>
    BY <2>3, EmptySeq
  <2> QED
    BY <1>2, <1>7, <2>4 DEF Pop, Prompt
<1>8. CASE Block
  <2>1. Len(fifo) < PacketCount
    BY <1>8, RoomForAll DEF Block
  <2>2. Len(fifo) = FifoSize /\ PacketCount \in Nat
    BY <1>8, TrafficAssumption DEF Block
  <2> QED
    BY <1>2, <2>1, <2>2
<1>9. CASE Put
  BY <1>2, <1>9 DEF Put, Prompt
<1>10. CASE EndRound
  BY <1>2, <1>10 DEF EndRound, Prompt
<1>11. CASE Take
  BY <1>2, <1>11 DEF Take, Prompt
<1>12. CASE UNCHANGED vars
  BY <1>2, <1>12 DEF vars, Prompt
<1> QED
  BY <1>3, <1>4, <1>5, <1>6, <1>7, <1>8, <1>9, <1>10, <1>11, <1>12 DEF Next, Thread

LEMMA AwakeInvariant ==
  ASSUME \A set \in Settings : Suited(set),
         TypeInv, RoundInv, Prompt
  PROVE  NoneStuck
<1>1. /\ parameters \in Settings /\ output_set \in Seq(Packets)
      /\ Len(output_set) \in Nat /\ c \in Nat
  BY LenProperties, TrafficAssumption DEF TypeInv, TypeOK
<1>2. CASE parameters.NO_PRIORITY
  <2>1. c = Len(output_set) + (IF c > 0 /\ pc \in Puts THEN 1 ELSE 0)
    BY <1>2 DEF RoundInv, Round
  <2>2. ASSUME pc = "waiting" PROVE OrderEmpty /\ output_set = <<>>
    <3>1. OrderEmpty /\ c = 0
      BY <1>2, <2>2 DEF RoundInv, Round
    <3>2. Len(output_set) = 0
      BY <1>1, <2>1, <3>1
    <3> QED
      BY <1>1, <3>1, <3>2, EmptySeq
  <2> QED
    BY <2>1, <2>2 DEF NoneStuck, Puts
<1>3. CASE ~parameters.NO_PRIORITY
  <2>1. Policy # "WEIGHTED_ROUND_ROBIN"
    BY <1>1, <1>3 DEF Suited, Policy
  <2>2. pc = "waiting" => OrderEmpty /\ output_set = <<>>
    BY <1>3 DEF RoundInv, Prompt
  <2> QED
    BY <2>1, <2>2 DEF NoneStuck
<1> QED
  BY <1>2, <1>3

-----------------------------------------------------------------------------
(* Every packet in one place                                               *)

LEMMA InOrOut ==
  ASSUME NEW p, NEW S
  PROVE  Cardinality({p} \cap S) = IF p \in S THEN 1 ELSE 0
<1>1. CASE p \in S
  <2>1. {p} \cap S = {p}
    BY <1>1
  <2> QED
    BY <1>1, <2>1, FS_Singleton
<1>2. CASE p \notin S
  <2>1. {p} \cap S = {}
    BY <1>2
  <2> QED
    BY <1>2, <2>1, FS_EmptySet
<1> QED
  BY <1>1, <1>2

LEMMA OnePlace ==
  ASSUME TypeInv, OrderInv, PlacesInv, NEW p \in Packets
  PROVE  Cardinality({i \in Levels : p \in Elements(packet_order[i])})
           + Cardinality({p} \cap Elements(output_set))
           + (IF pc \in {"put", "blocked"} /\ hand = p THEN 1 ELSE 0)
           + Cardinality({p} \cap Elements(fifo))
           + Cardinality({p} \cap Elements(sent))
           + Cardinality({p} \cap lost) = IF p < next THEN 1 ELSE 0
<1> DEFINE Holding == {i \in Levels : p \in Elements(packet_order[i])}
<1>1. /\ Cardinality({p} \cap Elements(output_set))
           = IF p \in Elements(output_set) THEN 1 ELSE 0
      /\ Cardinality({p} \cap Elements(fifo)) = IF p \in Elements(fifo) THEN 1 ELSE 0
      /\ Cardinality({p} \cap Elements(sent)) = IF p \in Elements(sent) THEN 1 ELSE 0
      /\ Cardinality({p} \cap lost) = IF p \in lost THEN 1 ELSE 0
  BY InOrOut
<1>2. Cardinality(Holding) = IF p \in InOrder THEN 1 ELSE 0
  <2>1. CASE p \in InOrder
    <3>1. PICK i \in Levels : p \in Elements(packet_order[i])
      BY <2>1 DEF InOrder
    <3>2. Holding = {i}
      BY <3>1 DEF OrderInv, QueuesInOrder
    <3> QED
      BY <2>1, <3>2, FS_Singleton
  <2>2. CASE p \notin InOrder
    <3>1. Holding = {}
      BY <2>2 DEF InOrder
    <3> QED
      BY <2>2, <3>1, FS_EmptySet
  <2> QED
    BY <2>1, <2>2
<1>3. p \in Hand <=> pc \in {"put", "blocked"} /\ hand = p
  BY DEF Hand, Puts
<1>4. /\ p \in Nat /\ p >= 1 /\ next \in Nat
      /\ p < next <=> p \in 1..(next - 1)
  BY TrafficAssumption DEF TypeInv, TypeOK, Packets
<1>5. /\ p < next <=> \/ p \in Elements(sent) \/ p \in Elements(fifo) \/ p \in Hand
                      \/ p \in Elements(output_set) \/ p \in InOrder \/ p \in lost
      /\ p \in lost => /\ p \notin Elements(sent) /\ p \notin Elements(fifo)
                       /\ p \notin Hand /\ p \notin Elements(output_set)
                       /\ p \notin InOrder
  BY <1>4 DEF PlacesInv, Placed
<1>6. \A S, T : Before(S, T) => ~ (p \in S /\ p \in T)
  BY <1>4 DEF Before
<1>7. /\ p \in Elements(sent) => /\ p \notin Elements(fifo) /\ p \notin Hand
                                 /\ p \notin Elements(output_set) /\ p \notin InOrder
      /\ p \in Elements(fifo) => /\ p \notin Hand /\ p \notin Elements(output_set)
                                 /\ p \notin InOrder
      /\ p \in Hand => p \notin Elements(output_set) /\ p \notin InOrder
      /\ p \in Elements(output_set) => p \notin InOrder
  BY <1>6, Apart DEF OrderInv
<1> HIDE DEF Holding
<1> QED
  BY <1>1, <1>2, <1>3, <1>5, <1>7 DEF Holding

-----------------------------------------------------------------------------
\* Every variable keeps its type, whatever packets come and however the traffic
\* manager is configured (TrafficManager.cpp).
THEOREM TypeCorrect == Spec => []TypeOK
  BY TypeInvariant, PTL DEF TypeInv

\* Packets of one priority leave in the order they came, under each of the
\* policies of TrafficManagerThread and any parameters.
THEOREM FifoPerPriorityHolds == Spec => []FifoPerPriority
<1>1. OrderInv => FifoPerPriority
  BY DEF OrderInv, Ordered, FifoPerPriority
<1> QED
  BY OrderInvariant, <1>1, PTL

\* A packet descriptor is in one place from the port service to the deparser,
\* is dropped by the port service alone, and does not wait for a thread that
\* sleeps on condition or, in a weighted round, in pop().
THEOREM ConservedHolds ==
  ASSUME \A set \in Settings : Suited(set)
  PROVE  Spec => []Conserved
<1>1. TypeInv /\ RoundInv /\ OrderInv /\ Prompt /\ [Next]_vars => Prompt'
  BY PromptNext
<1>2. TypeInv /\ RoundInv /\ OrderInv /\ PlacesInv /\ Prompt => Conserved
  <2> SUFFICES ASSUME TypeInv, RoundInv, OrderInv, PlacesInv, Prompt
               PROVE  Conserved
    OBVIOUS
  <2>1. TypeOK
    BY DEF TypeInv
  <2>2. NoneStuck
    BY AwakeInvariant
  <2> QED
    BY <2>1, <2>2, OnePlace DEF Conserved
<1> QED
  BY OrderInvariant, PromptInit, <1>1, <1>2, PTL DEF Spec
=============================================================================
