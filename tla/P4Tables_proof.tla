--------------------------- MODULE P4Tables_proof ---------------------------
(***************************************************************************)
(* That a match table of the switch answers what its entries say, proved   *)
(* for any routes, addresses, keys and hashes and any number of entries.   *)
(*                                                                         *)
(* None of the four properties is inductive alone.  For a table that       *)
(* matches longest prefixes the invariant says what tree stands for it: a  *)
(* node on the way to every route and no other, the flag set and the       *)
(* answer kept at the routes, and at the root the answer for addresses     *)
(* that nothing matches.  An insertion keeps it node by node.  A removal   *)
(* that prunes needs more: that what it prunes led nowhere else follows    *)
(* from the longest beginning that the removed route shares with another   *)
(* one, where the other one has a child that stops the pruning, or ends.   *)
(*                                                                         *)
(* For a table that matches exactly it says that each key is at one entry  *)
(* on the way of its hash, with nothing but bitmaps above and nothing      *)
(* below.  An entry that is split first moves down its own way, which      *)
(* leaves a place for the new key; a removal first drops an entry and      *)
(* then lifts what is left of the array, if that is one key.               *)
(*                                                                         *)
(* A lookup is one step in P4Tables because the cores make it under the    *)
(* read lock.  The last part is about that lock, ReadWriteLock, for any    *)
(* sets of readers and writers and any number of commands.                 *)
(***************************************************************************)
EXTENDS P4Tables, ReadWriteLock, SequenceTheorems, WellFoundedInduction, TLAPS

-----------------------------------------------------------------------------
(* Prefixes                                                                *)

\* s begins with p.
Begins(p, s) == Len(p) <= Len(s) /\ \A i \in 1 .. Len(p) : p[i] = s[i]

LEMMA BeginsPrefix ==
  ASSUME NEW D, NEW s \in Seq(D), NEW p \in Seq(D)
  PROVE  /\ p \in Prefixes(s) <=> Begins(p, s)
         /\ IsPrefix(p, s) <=> Begins(p, s)
<1>1. Len(s) \in Nat /\ Len(p) \in Nat
  OBVIOUS
<1>2. \A l \in 0 .. Len(s) : /\ SubSeq(s, 1, l) \in Seq(D) /\ Len(SubSeq(s, 1, l)) = l
                             /\ \A i \in 1 .. l : SubSeq(s, 1, l)[i] = s[i]
  OBVIOUS
<1>3. SubSeq(p, 1, Len(p)) = p
  OBVIOUS
<1>4. ASSUME p \in Prefixes(s) PROVE Begins(p, s)
  BY <1>1, <1>2, <1>4 DEF Prefixes, Begins
<1>5. ASSUME Begins(p, s) PROVE p = SubSeq(s, 1, Len(p)) /\ Len(p) \in 0 .. Len(s)
  BY <1>1, <1>2, <1>5, SeqEqual DEF Begins
<1>6. Begins(p, s) => p \in Prefixes(s) /\ IsPrefix(p, s)
  <2> SUFFICES ASSUME Begins(p, s) PROVE p \in Prefixes(s) /\ IsPrefix(p, s)
    OBVIOUS
  <2>1. p = SubSeq(s, 1, Len(p)) /\ Len(p) \in 0 .. Len(s)
    BY <1>5
  <2>2. p \in Prefixes(s)
    BY <2>1 DEF Prefixes
  <2>3. IsPrefix(p, s)
    BY <1>1, <1>3, <2>1 DEF IsPrefix
  <2> QED
    BY <2>2, <2>3
<1>7. ASSUME IsPrefix(p, s) PROVE Begins(p, s)
  BY <1>1, <1>2, <1>3, <1>7 DEF IsPrefix, Begins
<1> QED
  BY <1>4, <1>6, <1>7

LEMMA PrefixesTyped ==
  ASSUME NEW s \in Seq(Bit)
  PROVE  Prefixes(s) \subseteq Seq(Bit)
  BY DEF Prefixes

LEMMA BeginsEqual ==
  ASSUME NEW D, NEW s \in Seq(D), NEW p \in Seq(D), NEW q \in Seq(D),
         Begins(p, s), Begins(q, s), Len(p) = Len(q)
  PROVE  p = q
  BY SeqEqual DEF Begins

LEMMA BeginsTransitive ==
  ASSUME NEW D, NEW s \in Seq(D), NEW p \in Seq(D), NEW q \in Seq(D),
         Begins(p, q), Begins(q, s)
  PROVE  Begins(p, s)
  BY DEF Begins

\* Two beginnings of a string: the shorter begins the longer.
LEMMA BeginsBoth ==
  ASSUME NEW D, NEW s \in Seq(D), NEW p \in Seq(D), NEW q \in Seq(D),
         Begins(p, s), Begins(q, s), Len(p) <= Len(q)
  PROVE  Begins(p, q)
  BY DEF Begins

LEMMA LeastMember ==
  ASSUME NEW S \in SUBSET Nat, S # {}
  PROVE  \E n \in S : \A m \in S : n <= m
<1>1. PICK n \in S : \A m \in S : <<m, n>> \notin OpToRel(<, Nat)
  BY NatLessThanWellFounded, WFMin
<1>2. \A m \in S : <<m, n>> \notin OpToRel(<, Nat) => n <= m
  BY DEF OpToRel
<1> QED
  BY <1>1, <1>2

\* Of some beginnings of a string one is the longest.
LEMMA LongestMember ==
  ASSUME NEW D, NEW a \in Seq(D), NEW S \in SUBSET Seq(D), S # {}, \A p \in S : Begins(p, a)
  PROVE  \E p \in S : /\ \A q \in S : Len(q) <= Len(p)
                      /\ \A r \in S : (\A q \in S : Len(q) <= Len(r)) => r = p
<1> DEFINE Rest == { Len(a) - Len(p) : p \in S }
<1>1. \A p \in S : Len(p) \in Nat /\ Len(p) <= Len(a)
  BY DEF Begins
<1>2. Rest \in SUBSET Nat /\ Rest # {}
  BY <1>1
<1>3. PICK n \in Rest : \A m \in Rest : n <= m
  <2> HIDE DEF Rest
  <2> QED
    BY <1>2, LeastMember
<1>4. PICK p \in S : n = Len(a) - Len(p)
  OBVIOUS
<1>5. ASSUME NEW q \in S PROVE Len(q) <= Len(p)
  <2>1. Len(a) - Len(p) <= Len(a) - Len(q)
    BY <1>3, <1>4
  <2> QED
    BY <2>1, <1>1
<1>6. ASSUME NEW r \in S, \A q \in S : Len(q) <= Len(r) PROVE r = p
  <2>1. Len(r) = Len(p)
    BY <1>1, <1>5, <1>6
  <2> QED
    BY <2>1, BeginsEqual
<1> QED
  BY <1>5, <1>6

LEMMA LongestOfBits ==
  ASSUME NEW a \in Seq(Bit), NEW S \in SUBSET Seq(Bit), S # {}, \A p \in S : Begins(p, a)
  PROVE  \E p \in S : /\ \A q \in S : Len(q) <= Len(p)
                      /\ \A r \in S : (\A q \in S : Len(q) <= Len(r)) => r = p
<1> HIDE DEF Bit
<1> QED
  BY LongestMember, SMTT(60)

-----------------------------------------------------------------------------
(* Prefix trees                                                            *)

\* The tree holds the routes of T and has the nodes on the way to them, and no
\* others; g is what its root, and a lookup that finds nothing, answers.
Holds(tree, T, g) ==
  /\ DOMAIN tree = {"node", "default"} /\ tree.default = g
  /\ DOMAIN tree.node = {<<>>} \union UNION { Prefixes(r) : r \in DOMAIN T }
  /\ tree.node[<<>>].flag /\ tree.node[<<>>].action = g
  /\ \A p \in DOMAIN tree.node \ {<<>>} :
        /\ tree.node[p].flag <=> p \in DOMAIN T
        /\ p \in DOMAIN T => tree.node[p].action = T[p]

\* The prefixes a tree knows are those of this module.
LEMMA LpmPrefixes == \A s : LPM!Prefixes(s) = Prefixes(s)
  BY DEF Prefixes, LPM!Prefixes

LEMMA InsertHolds ==
  ASSUME NEW tree, NEW T, NEW g, Holds(tree, T, g), DOMAIN T \subseteq Seq(Bit),
         NEW k \in Seq(Bit), NEW v,
         NEW U, DOMAIN U = DOMAIN T \union {k}, U[k] = v, \A r \in DOMAIN T \ {k} : U[r] = T[r]
  PROVE  Holds(LPM!insert(tree, k, v), U, IF k = <<>> THEN v ELSE g)
<1> DEFINE N == DOMAIN tree.node \union Prefixes(k)
           h == IF k = <<>> THEN v ELSE g
           new == [p \in N |-> IF p = k THEN [action |-> v, flag |-> TRUE]
                               ELSE IF p \in DOMAIN tree.node THEN tree.node[p]
                               ELSE [action |-> Blank, flag |-> FALSE]]
<1>1. /\ tree.default = g
      /\ DOMAIN tree.node = {<<>>} \union UNION { Prefixes(r) : r \in DOMAIN T }
      /\ tree.node[<<>>].action = g /\ tree.node[<<>>].flag
      /\ \A p \in DOMAIN tree.node \ {<<>>} :
            /\ tree.node[p].flag <=> p \in DOMAIN T
            /\ p \in DOMAIN T => tree.node[p].action = T[p]
  BY DEF Holds
<1>2. LPM!insert(tree, k, v) = [node |-> new, default |-> h]
  <2>1. DOMAIN tree.node # {}
    BY <1>1
  <2> QED
    <3>1. LPM!insert(tree, k, v) =
            [node |-> [p \in N |-> IF p = k THEN LPM!UnibitNode(v, TRUE)
                                   ELSE IF p \in DOMAIN tree.node THEN tree.node[p]
                                   ELSE LPM!UnibitNode(Blank, FALSE)],
             default |-> IF k = <<>> THEN v ELSE tree.default]
      BY <2>1, LpmPrefixes DEF LPM!insert
    <3> QED
      BY <1>1, <3>1 DEF LPM!UnibitNode
<1>3. k \in Prefixes(k) /\ <<>> \in N
  BY <1>1, BeginsPrefix DEF Begins
<1>4. N = {<<>>} \union UNION { Prefixes(r) : r \in DOMAIN U }
  BY <1>1
<1>5. new[<<>>].action = h /\ new[<<>>].flag
  BY <1>1, <1>3
<1>7. \A r \in DOMAIN T : r \in DOMAIN tree.node
  BY <1>1, BeginsPrefix DEF Begins
<1>8. ASSUME NEW p \in N \ {<<>>}
      PROVE  /\ new[p].flag <=> p \in DOMAIN U
             /\ p \in DOMAIN U => new[p].action = U[p]
  <2>1. CASE p = k
    BY <2>1
  <2>2. CASE p # k /\ p \in DOMAIN tree.node
    <3>1. new[p] = tree.node[p]
      BY <2>2
    <3> QED
      BY <1>1, <2>2, <3>1
  <2>3. CASE p # k /\ p \notin DOMAIN tree.node
    <3>1. new[p].flag = FALSE
      BY <2>3
    <3>2. p \notin DOMAIN U
      BY <1>7, <2>3
    <3> QED
      BY <3>1, <3>2
  <2> QED
    BY <2>1, <2>2, <2>3
<1> QED
  <2>1. DOMAIN new = N
    OBVIOUS
  <2>2. PICK after : after = LPM!insert(tree, k, v)
    OBVIOUS
  <2> HIDE DEF N, h, new
  <2>3. after.node = new /\ after.default = h /\ DOMAIN after = {"node", "default"}
    BY <1>2, <2>2
  <2>4. Holds(after, U, h)
    BY <1>4, <1>5, <1>8, <2>1, <2>3 DEF Holds
  <2> QED
    BY <2>2, <2>4 DEF h

LEMMA LongestCommon ==
  ASSUME NEW r \in Seq(Bit), NEW k \in Seq(Bit), NEW p \in Seq(Bit), Begins(p, r), Begins(p, k)
  PROVE  \E q \in Seq(Bit) : /\ Begins(q, r) /\ Begins(q, k) /\ Begins(p, q)
                            /\ \A c \in Seq(Bit) : Begins(c, r) /\ Begins(c, k) => Len(c) <= Len(q)
<1> DEFINE S == { q \in Seq(Bit) : Begins(q, r) /\ Begins(q, k) }
<1>1. S \in SUBSET Seq(Bit) /\ p \in S /\ \A q \in S : Begins(q, r)
  OBVIOUS
<1>2. PICK q \in S : \A c \in S : Len(c) <= Len(q)
  <2> HIDE DEF S
  <2> QED
    BY <1>1, LongestMember
<1>3. Begins(p, q)
  BY <1>1, <1>2, BeginsBoth
<1> QED
  BY <1>2, <1>3

\* One bit further on the way to r
LEMMA OneBitFurther ==
  ASSUME NEW q \in Seq(Bit), NEW r \in Seq(Bit), Begins(q, r), q # r
  PROVE  \E b \in Bit : /\ Append(q, b) \in Seq(Bit) /\ Len(Append(q, b)) = Len(q) + 1
                        /\ Begins(q, Append(q, b)) /\ Begins(Append(q, b), r)
<1>1. Len(q) \in Nat /\ Len(r) \in Nat /\ Len(q) < Len(r)
  BY SeqEqual DEF Begins
<1>2. PICK b \in Bit : b = r[Len(q) + 1]
  BY <1>1
<1>3. PICK c : c \in Seq(Bit) /\ c = Append(q, b)
  <2>1. Append(q, b) \in Seq(Bit)
    OBVIOUS
  <2> QED
    BY <2>1, Zenon
<1>4. Len(c) = Len(q) + 1 /\ c[Len(q) + 1] = b /\ \A i \in 1 .. Len(q) : c[i] = q[i]
  BY <1>3
<1>5. \A i \in 1 .. Len(c) : i \in 1 .. Len(q) \/ i = Len(q) + 1
  BY <1>1, <1>4
<1>6. Begins(q, c)
  BY <1>1, <1>4 DEF Begins
<1>7. Begins(c, r)
  BY <1>1, <1>2, <1>4, <1>5 DEF Begins
<1> QED
  BY <1>3, <1>4, <1>6, <1>7

\* PrefixTree::remove for a node with no children: it prunes what led to the
\* route only.
LEMMA PrunedRight ==
  ASSUME NEW tree, NEW T, NEW g, Holds(tree, T, g), DOMAIN T \subseteq Seq(Bit),
         NEW k \in DOMAIN T, k # <<>>, LPM!Children(tree.node, k) = {}
  PROVE  DOMAIN tree.node \ LPM!Pruned(tree, k) = {<<>>} \union UNION { Prefixes(r) : r \in DOMAIN T \ {k} }
<1>1. /\ DOMAIN tree.node = {<<>>} \union UNION { Prefixes(r) : r \in DOMAIN T }
      /\ tree.node[<<>>].flag
      /\ \A p \in DOMAIN tree.node \ {<<>>} : tree.node[p].flag <=> p \in DOMAIN T
  BY DEF Holds
<1>2. \A p : p \in LPM!Pruned(tree, k) <=>
               /\ p \in Prefixes(k)
               /\ \A q \in Prefixes(k) : Len(p) <= Len(q) /\ q # k =>
                     ~ tree.node[q].flag /\ LPM!Children(tree.node, q) \subseteq Prefixes(k)
  BY LpmPrefixes DEF LPM!Pruned
<1>3. \A p : LPM!Children(tree.node, p) = { Append(p, b) : b \in Bit } \intersect DOMAIN tree.node
  BY DEF LPM!Children, LPM!Bit, Bit
<1>4. \A r \in DOMAIN T : \A p \in Prefixes(r) : p \in Seq(Bit) /\ Begins(p, r) /\ p \in DOMAIN tree.node
  BY <1>1, PrefixesTyped, BeginsPrefix
<1>5. \A r \in DOMAIN T, p \in Seq(Bit) : Begins(p, r) => p \in Prefixes(r) /\ p \in DOMAIN tree.node
  BY <1>1, BeginsPrefix
<1>6. <<>> \in Seq(Bit) /\ <<>> \in Prefixes(k) /\ <<>> \notin LPM!Pruned(tree, k)
  <2>1. <<>> \in Seq(Bit) /\ Begins(<<>>, k)
    BY DEF Begins
  <2>2. <<>> \in Prefixes(k)
    BY <1>5, <2>1
  <2> QED
    BY <1>1, <1>2, <2>1, <2>2
<1>7. ASSUME NEW r \in DOMAIN T \ {k}, NEW p \in Prefixes(r), p \in LPM!Pruned(tree, k)
      PROVE  FALSE
  <2>1. p \in Seq(Bit) /\ Begins(p, r) /\ Begins(p, k) /\ p # <<>>
    BY <1>2, <1>4, <1>6, <1>7
  <2>2. PICK q \in Seq(Bit) : /\ Begins(q, r) /\ Begins(q, k) /\ Begins(p, q)
                             /\ \A c \in Seq(Bit) : Begins(c, r) /\ Begins(c, k) => Len(c) <= Len(q)
    BY <2>1, LongestCommon
  <2>3. Len(p) <= Len(q) /\ q \in Prefixes(k) /\ Len(q) \in Nat
    BY <1>5, <2>2 DEF Begins
  <2>4. q # k
    <3> SUFFICES ASSUME q = k PROVE FALSE
      OBVIOUS
    <3>1. PICK b \in Bit : Append(k, b) \in Seq(Bit) /\ Begins(Append(k, b), r)
      BY <2>2, OneBitFurther
    <3>2. Append(k, b) \in LPM!Children(tree.node, k)
      BY <1>3, <1>5, <3>1, ZenonT(60)
    <3> QED
      BY <3>2
  <2>5. ~ tree.node[q].flag /\ LPM!Children(tree.node, q) \subseteq Prefixes(k)
    BY <1>2, <1>7, <2>3, <2>4
  <2>6. q # <<>> /\ q # r
    BY <1>1, <1>5, <2>2, <2>5
  <2>7. PICK b \in Bit : /\ Append(q, b) \in Seq(Bit) /\ Len(Append(q, b)) = Len(q) + 1
                        /\ Begins(Append(q, b), r)
    BY <2>2, <2>6, OneBitFurther
  <2>8. PICK c \in Seq(Bit) : c = Append(q, b) /\ Len(c) = Len(q) + 1 /\ Begins(c, r)
    BY <2>7, Zenon
  <2>9. c \in LPM!Children(tree.node, q)
    <3>1. c \in { Append(q, x) : x \in Bit }
      BY <2>8, Zenon
    <3>2. c \in DOMAIN tree.node
      BY <1>5, <2>8
    <3>3. c \in { Append(q, x) : x \in Bit } \intersect DOMAIN tree.node
      BY <3>1, <3>2, Zenon
    <3> QED
      BY <1>3, <3>3, Zenon
  <2>10. Begins(c, k)
    BY <1>4, <2>5, <2>9
  <2> QED
    <3>1. Len(c) <= Len(q) /\ Len(c) = Len(q) + 1
      BY <2>2, <2>8, <2>10, Zenon
    <3> QED
      BY <2>3, <3>1
<1>8. ASSUME NEW p \in DOMAIN tree.node, p \notin LPM!Pruned(tree, k), p # <<>>
      PROVE  \E r \in DOMAIN T \ {k} : p \in Prefixes(r)
  <2>1. PICK r \in DOMAIN T : p \in Prefixes(r)
    BY <1>1, <1>8
  <2>2. CASE r = k
    <3>1. PICK q \in Prefixes(k) :
             /\ Len(p) <= Len(q) /\ q # k
             /\ tree.node[q].flag \/ ~(LPM!Children(tree.node, q) \subseteq Prefixes(k))
      BY <1>2, <1>8, <2>1, <2>2
    <3>2. /\ p \in Seq(Bit) /\ q \in Seq(Bit) /\ Begins(p, q)
          /\ q \in DOMAIN tree.node /\ q # <<>>
      <4>1. p \in Seq(Bit) /\ q \in Seq(Bit) /\ Begins(p, k) /\ Begins(q, k) /\ q \in DOMAIN tree.node
        BY <1>4, <2>1, <2>2
      <4>2. Len(p) # 0
        BY <1>8, <4>1
      <4>3. q # <<>>
        BY <3>1, <4>1, <4>2
      <4> QED
        BY <3>1, <4>1, <4>3, BeginsBoth
    <3>3. CASE tree.node[q].flag
      <4>1. q \in DOMAIN T \ {k}
        BY <1>1, <3>1, <3>2, <3>3
      <4> QED
        BY <1>5, <3>2, <4>1
    <3>4. CASE ~(LPM!Children(tree.node, q) \subseteq Prefixes(k))
      <4>1. PICK b \in Bit : Append(q, b) \in DOMAIN tree.node /\ Append(q, b) \notin Prefixes(k)
        <5>1. PICK c : c \in LPM!Children(tree.node, q) /\ c \notin Prefixes(k)
          BY <3>4
        <5>2. c \in { Append(q, b) : b \in Bit } /\ c \in DOMAIN tree.node
          BY <1>3, <5>1
        <5> QED
          BY <5>1, <5>2
      <4>2. /\ Append(q, b) \in Seq(Bit) /\ Append(q, b) # <<>> /\ Begins(q, Append(q, b))
        <5>1. /\ Append(q, b) \in Seq(Bit) /\ Len(Append(q, b)) = Len(q) + 1 /\ Len(q) \in Nat
              /\ \A i \in 1 .. Len(q) : Append(q, b)[i] = q[i]
          BY <3>2
        <5>2. Append(q, b) # <<>>
          BY <3>2
        <5> QED
          BY <5>1, <5>2 DEF Begins
      <4>3. PICK s \in DOMAIN T : Append(q, b) \in Prefixes(s)
        BY <1>1, <4>1, <4>2
      <4>4. s # k /\ Begins(Append(q, b), s) /\ s \in Seq(Bit)
        BY <1>4, <4>1, <4>3
      <4>5. Begins(p, Append(q, b))
        BY <3>2, <4>2, BeginsTransitive
      <4>6. Begins(p, s)
        BY <3>2, <4>2, <4>4, <4>5, BeginsTransitive
      <4> QED
        BY <1>5, <3>2, <4>4, <4>6
    <3> QED
      BY <3>1, <3>3, <3>4
  <2> QED
    BY <2>1, <2>2
<1>9. \A r \in DOMAIN T \ {k} : \A p \in Prefixes(r) : p \in DOMAIN tree.node \ LPM!Pruned(tree, k)
  BY <1>4, <1>7
<1> QED
  BY <1>1, <1>6, <1>8, <1>9

LEMMA RemoveHolds ==
  ASSUME NEW tree, NEW T, NEW g, Holds(tree, T, g), DOMAIN T \subseteq Seq(Bit), NEW k \in DOMAIN T,
         NEW U, DOMAIN U = DOMAIN T \ {k}, \A r \in DOMAIN U : U[r] = T[r]
  PROVE  Holds(LPM!remove(tree, k), U, g)
<1>1. /\ DOMAIN tree = {"node", "default"} /\ tree.default = g
      /\ DOMAIN tree.node = {<<>>} \union UNION { Prefixes(r) : r \in DOMAIN T }
      /\ tree.node[<<>>].flag /\ tree.node[<<>>].action = g
      /\ \A p \in DOMAIN tree.node \ {<<>>} :
            /\ tree.node[p].flag <=> p \in DOMAIN T
            /\ p \in DOMAIN T => tree.node[p].action = T[p]
  BY DEF Holds
<1>2. k \in Prefixes(k) /\ k \in DOMAIN tree.node
  BY <1>1, BeginsPrefix DEF Begins
<1>3. PICK after : after = LPM!remove(tree, k)
  OBVIOUS
<1>4. CASE k = <<>>
  <2>1. after = tree
    BY <1>3, <1>4 DEF LPM!remove
  <2>2. Prefixes(k) = {<<>>}
    BY <1>4 DEF Prefixes
  <2>3. DOMAIN tree.node = {<<>>} \union UNION { Prefixes(r) : r \in DOMAIN U }
    BY <1>1, <1>4, <2>2
  <2> QED
    BY <1>1, <1>3, <1>4, <2>1, <2>3 DEF Holds
<1>5. CASE k # <<>> /\ LPM!Children(tree.node, k) # {}
  <2>1. after = [tree EXCEPT !.node = [tree.node EXCEPT ![k] = [action |-> g, flag |-> FALSE]]]
    BY <1>1, <1>2, <1>3, <1>5 DEF LPM!remove, LPM!UnibitNode
  <2>2. /\ DOMAIN after = {"node", "default"} /\ after.default = g
        /\ after.node = [tree.node EXCEPT ![k] = [action |-> g, flag |-> FALSE]]
    BY <1>1, <2>1
  <2>3. \A p \in Prefixes(k) : \E r \in DOMAIN U : p \in Prefixes(r)
    <3>1. PICK c : c \in LPM!Children(tree.node, k)
      BY <1>5
    <3>2. PICK b \in Bit : c = Append(k, b) /\ c \in DOMAIN tree.node
      BY <3>1 DEF LPM!Children, LPM!Bit, Bit
    <3>3. /\ c \in Seq(Bit) /\ c # <<>> /\ Len(c) = Len(k) + 1 /\ Len(k) \in Nat
          /\ \A i \in 1 .. Len(k) : c[i] = k[i]
      BY <3>2
    <3>4. PICK r \in DOMAIN T : c \in Prefixes(r)
      BY <1>1, <3>2, <3>3
    <3>5. Begins(c, r) /\ Begins(k, c) /\ r \in Seq(Bit)
      BY <3>3, <3>4, BeginsPrefix DEF Begins
    <3>6. r # k
      BY <3>3, <3>5 DEF Begins
    <3>7. ASSUME NEW p \in Prefixes(k) PROVE p \in Prefixes(r)
      <4>1. p \in Seq(Bit) /\ Begins(p, k)
        BY PrefixesTyped, BeginsPrefix
      <4>2. Begins(p, c)
        BY <3>3, <3>5, <4>1, BeginsTransitive
      <4>3. Begins(p, r)
        BY <3>3, <3>5, <4>1, <4>2, BeginsTransitive
      <4> QED
        BY <3>5, <4>1, <4>3, BeginsPrefix
    <3> QED
      BY <3>6, <3>7
  <2>4. DOMAIN tree.node = {<<>>} \union UNION { Prefixes(r) : r \in DOMAIN U }
    BY <1>1, <2>3
  <2>5. DOMAIN after.node = DOMAIN tree.node
    BY <2>2
  <2>6. \A p \in DOMAIN after.node \ {k} : after.node[p] = tree.node[p]
    BY <2>2, <2>5
  <2>7. ~after.node[k].flag
    BY <1>2, <2>2
  <2>8. \A p \in DOMAIN after.node \ {<<>>} :
            /\ after.node[p].flag <=> p \in DOMAIN U
            /\ p \in DOMAIN U => after.node[p].action = U[p]
    BY <1>1, <2>5, <2>6, <2>7
  <2>9. after.node[<<>>].flag /\ after.node[<<>>].action = g
    BY <1>1, <1>5, <2>5, <2>6
  <2> QED
    BY <1>3, <2>2, <2>4, <2>5, <2>8, <2>9 DEF Holds
<1>6. CASE k # <<>> /\ LPM!Children(tree.node, k) = {}
  <2>1. after = [tree EXCEPT !.node = [p \in DOMAIN tree.node \ LPM!Pruned(tree, k) |-> tree.node[p]]]
    BY <1>2, <1>3, <1>6 DEF LPM!remove
  <2>2. /\ DOMAIN after = {"node", "default"} /\ after.default = g
        /\ after.node = [p \in DOMAIN tree.node \ LPM!Pruned(tree, k) |-> tree.node[p]]
    BY <1>1, <2>1
  <2>3. DOMAIN after.node = {<<>>} \union UNION { Prefixes(r) : r \in DOMAIN U }
    BY <1>6, <2>2, PrunedRight
  <2>4. \A p \in DOMAIN after.node : p \in DOMAIN tree.node /\ after.node[p] = tree.node[p]
    BY <2>2
  <2>5. k \notin DOMAIN after.node
    <3>1. k \in LPM!Pruned(tree, k)
      <4>1. ASSUME NEW q \in Prefixes(k), Len(k) <= Len(q) PROVE q = k
        <5>1. q \in Seq(Bit) /\ Begins(q, k) /\ Begins(k, k)
          BY PrefixesTyped, BeginsPrefix DEF Begins
        <5> QED
          BY <4>1, <5>1, BeginsEqual DEF Begins
      <4> QED
        BY <1>2, <4>1, LpmPrefixes DEF LPM!Pruned
    <3> QED
      BY <2>2, <3>1
  <2>6. \A p \in DOMAIN after.node \ {<<>>} :
            /\ after.node[p].flag <=> p \in DOMAIN U
            /\ p \in DOMAIN U => after.node[p].action = U[p]
    BY <1>1, <2>4, <2>5
  <2>7. after.node[<<>>].flag /\ after.node[<<>>].action = g
    BY <1>1, <2>3, <2>4
  <2> QED
    BY <1>3, <2>2, <2>3, <2>6, <2>7 DEF Holds
<1> QED
  BY <1>4, <1>5, <1>6

-----------------------------------------------------------------------------
(* PrefixTree::update, with the one or two entries the switch gives it     *)

LEMMA AddOneEntry ==
  ASSUME NEW tree, NEW E, NEW entries \in Seq(E), Len(entries) = 1
  PROVE  LPM!update(tree, entries, "Add") = LPM!insert(tree, entries[1][1], entries[1][2])
<1> DEFINE Eq(f) == f = [i \in 0 .. 1 |-> IF i = 0 THEN tree
                                         ELSE LPM!insert(f[i - 1], entries[i][1], entries[i][2])]
           after == CHOOSE f : Eq(f)
           known == [i \in 0 .. 1 |-> IF i = 0 THEN tree
                                     ELSE LPM!insert(tree, entries[1][1], entries[1][2])]
<1>1. LPM!update(tree, entries, "Add") = after[1]
  BY DEF LPM!update, LPM!insertAll
<1>2. Eq(known)
  OBVIOUS
<1>3. Eq(after)
  <2> HIDE DEF known, Eq
  <2> QED
    BY <1>2
<1>4. after[0] = tree /\ after[1] = LPM!insert(after[0], entries[1][1], entries[1][2])
  <2> HIDE DEF after
  <2> QED
    BY <1>3
<1> QED
  BY <1>1, <1>4

LEMMA AddTwoEntries ==
  ASSUME NEW tree, NEW E, NEW entries \in Seq(E), Len(entries) = 2
  PROVE  LPM!update(tree, entries, "Add")
           = LPM!insert(LPM!insert(tree, entries[1][1], entries[1][2]), entries[2][1], entries[2][2])
<1> DEFINE first == LPM!insert(tree, entries[1][1], entries[1][2])
           Eq(f) == f = [i \in 0 .. 2 |-> IF i = 0 THEN tree
                                         ELSE LPM!insert(f[i - 1], entries[i][1], entries[i][2])]
           after == CHOOSE f : Eq(f)
           known == [i \in 0 .. 2 |-> IF i = 0 THEN tree ELSE IF i = 1 THEN first
                                     ELSE LPM!insert(first, entries[2][1], entries[2][2])]
<1>1. LPM!update(tree, entries, "Add") = after[2]
  BY DEF LPM!update, LPM!insertAll
<1>2. Eq(known)
  <2>1. \A i \in 0 .. 2 : known[i] = IF i = 0 THEN tree
                                    ELSE LPM!insert(known[i - 1], entries[i][1], entries[i][2])
    <3>1. known[0] = tree /\ known[1] = first
      OBVIOUS
    <3>2. known[2] = LPM!insert(known[1], entries[2][1], entries[2][2])
      BY <3>1
    <3>3. known[1] = LPM!insert(known[0], entries[1][1], entries[1][2])
      BY <3>1
    <3>4. \A i \in 0 .. 2 : i = 0 \/ (i = 1 /\ i - 1 = 0) \/ (i = 2 /\ i - 1 = 1)
      OBVIOUS
    <3> HIDE DEF known, first
    <3> QED
      BY <3>1, <3>2, <3>3, <3>4
  <2>2. known = [i \in 0 .. 2 |-> known[i]]
    OBVIOUS
  <2> HIDE DEF known
  <2> QED
    BY <2>1, <2>2
<1>3. Eq(after)
  <2> HIDE DEF known, Eq
  <2> QED
    BY <1>2
<1>4. /\ after[0] = tree /\ after[1] = LPM!insert(after[0], entries[1][1], entries[1][2])
      /\ after[2] = LPM!insert(after[1], entries[2][1], entries[2][2])
  <2> HIDE DEF after
  <2> QED
    BY <1>3
<1> QED
  BY <1>1, <1>4

LEMMA RemoveOneEntry ==
  ASSUME NEW tree, NEW k, NEW v
  PROVE  LPM!update(tree, << <<k, v>> >>, "Remove") = LPM!remove(tree, k)
<1> DEFINE keys == [i \in {1} |-> k]
           Eq(f) == f = [i \in 0 .. 1 |-> IF i = 0 THEN tree ELSE LPM!remove(f[i - 1], keys[i])]
           after == CHOOSE f : Eq(f)
           known == [i \in 0 .. 1 |-> IF i = 0 THEN tree ELSE LPM!remove(tree, k)]
<1>1. LPM!update(tree, << <<k, v>> >>, "Remove") = after[1]
  <2>1. [i \in DOMAIN << <<k, v>> >> |-> << <<k, v>> >>[i][1]] = keys /\ Len(keys) = 1
    <3>1. Len(keys) = 1
      <4>1. keys \in [1 .. 1 -> {k}]
        OBVIOUS
      <4> QED
        BY <4>1, LenProperties, SeqDef
    <3>2. DOMAIN << <<k, v>> >> = {1}
      OBVIOUS
    <3> QED
      BY <3>1, <3>2
  <2> HIDE DEF keys
  <2> QED
    BY <2>1 DEF LPM!update, LPM!removeAll
<1>2. Eq(known)
  OBVIOUS
<1>3. Eq(after)
  <2> HIDE DEF known, Eq
  <2> QED
    BY <1>2
<1>4. after[0] = tree /\ after[1] = LPM!remove(after[0], k)
  <2> HIDE DEF after
  <2> QED
    BY <1>3
<1> QED
  BY <1>1, <1>4

-----------------------------------------------------------------------------
(* The table and its tree                                                  *)

\* What a packet of an installed route is given
Answers == [k \in Installed |-> Value(table[k])]

\* From the first entry on the tree holds the routes of the table.
TreeInv ==
  kind = "lpm" =>
    /\ Installed \subseteq Routes
    /\ structure = None => Installed = {} /\ gateway = Miss
    /\ structure # None => Holds(structure, Answers, gateway)
    /\ <<>> \in Installed => gateway = Value(table[<<>>])

LEMMA HoldsSome == \A tree, T, g : Holds(tree, T, g) => tree # None
<1>1. DOMAIN None = {}
  BY DEF None
<1> QED
  BY <1>1 DEF Holds

LEMMA NewTreeHolds ==
  ASSUME NEW T, DOMAIN T = {}, NEW g
  PROVE  Holds(LPM!newTree(g), T, g)
<1>1. PICK tree : tree = LPM!newTree(g)
  OBVIOUS
<1>2. tree = [node |-> [p \in {<<>>} |-> [action |-> g, flag |-> TRUE]], default |-> g]
  BY <1>1 DEF LPM!newTree, LPM!UnibitNode
<1>3. DOMAIN tree = {"node", "default"} /\ tree.default = g
  BY <1>2
<1>4. tree.node = [p \in {<<>>} |-> [action |-> g, flag |-> TRUE]]
  BY <1>2
<1>5. DOMAIN tree.node = {<<>>} /\ tree.node[<<>>].flag /\ tree.node[<<>>].action = g
  BY <1>4
<1> QED
  BY <1>1, <1>3, <1>5 DEF Holds

LEMMA TreeInvInit == Init => TreeInv
  BY DEF Init, TreeInv, Installed

\* The tree the entries are added to
LEMMA TreeBefore ==
  ASSUME TreeInv, kind = "lpm"
  PROVE  Holds(IF structure = None THEN LPM!newTree(Miss) ELSE structure, Answers, gateway)
<1>1. CASE structure = None
  <2>1. DOMAIN Answers = {}
    BY <1>1 DEF TreeInv, Answers
  <2> QED
    BY <1>1, <2>1, NewTreeHolds DEF TreeInv
<1>2. CASE structure # None
  BY <1>2 DEF TreeInv
<1> QED
  BY <1>1, <1>2

\* The table with one entry more, or two, and what the structure is given
WithOne(k, handles) ==
  [x \in {k} \union Installed |-> IF x = k THEN handles[1] ELSE table[x]]

WithTwo(k, l, handles) ==
  [x \in {k, l} \union Installed |->
     IF x = k THEN handles[1] ELSE IF x = l THEN handles[2] ELSE table[x]]

SentOne(k, v) ==
  \E E : \E entries \in Seq(E) :
    /\ Len(entries) = 1 /\ entries[1][1] = k /\ entries[1][2] = v
    /\ structure' = Updated(entries, "Add")

SentTwo(k, v, l, w) ==
  \E E : \E entries \in Seq(E) :
    /\ Len(entries) = 2 /\ entries[1][1] = k /\ entries[1][2] = v
    /\ entries[2][1] = l /\ entries[2][2] = w
    /\ structure' = Updated(entries, "Add")

\* What a table is given when one entry is stored,
LEMMA OneStored ==
  ASSUME NEW k, NEW handles, store_entry(<<k>>, handles)
  PROVE  /\ table' = WithOne(k, handles)
         /\ used' = used \union {k} /\ kind' = kind
         /\ gateway' = IF k = <<>> THEN Value(handles[1]) ELSE gateway
         /\ SentOne(k, Value(handles[1]))
<1> DEFINE entries == [i \in DOMAIN <<k>> |-> << <<k>>[i], Value(handles[i]) >>]
           E == {<<k, Value(handles[1])>>}
<1>1. ToSet(<<k>>) = {k}
  BY DEF ToSet
<1>2. table' = [x \in {k} \union Installed |-> IF x = k THEN handles[1] ELSE table[x]]
  <2>1. \A x \in {k} : (CHOOSE i \in DOMAIN <<k>> : <<k>>[i] = x) = 1
    OBVIOUS
  <2> QED
    BY <1>1, <2>1 DEF store_entry
<1>3. gateway' = IF k = <<>> THEN Value(handles[1]) ELSE gateway
  BY <1>1, <1>2 DEF store_entry
<1>4. used' = used \union {k} /\ kind' = kind
  BY <1>1 DEF store_entry
<1>5. entries = [i \in 1 .. 1 |-> <<k, Value(handles[1])>>]
  OBVIOUS
<1>6. entries \in Seq(E) /\ Len(entries) = 1
  <2>1. entries \in [1 .. 1 -> E]
    BY <1>5
  <2> HIDE DEF entries, E
  <2>2. entries \in Seq(E)
    BY <2>1, SeqDef
  <2>3. DOMAIN entries = 1 .. 1 /\ DOMAIN entries = 1 .. Len(entries) /\ Len(entries) \in Nat
    BY <2>1, <2>2, LenProperties
  <2>4. 1 \in 1 .. Len(entries) /\ Len(entries) \in 1 .. 1
    BY <2>3
  <2> QED
    BY <2>2, <2>4
<1>7. entries[1][1] = k /\ entries[1][2] = Value(handles[1])
  BY <1>5
<1>8. structure' = Updated(entries, "Add")
  BY DEF store_entry
<1> HIDE DEF entries, E
<1> QED
  BY <1>2, <1>3, <1>4, <1>6, <1>7, <1>8 DEF WithOne, SentOne

\* and when two are.
LEMMA TwoStored ==
  ASSUME NEW k, NEW l, k # l, NEW handles, store_entry(<<k, l>>, handles)
  PROVE  /\ table' = WithTwo(k, l, handles)
         /\ used' = used \union {k, l} /\ kind' = kind
         /\ gateway' = IF k = <<>> THEN Value(handles[1])
                       ELSE IF l = <<>> THEN Value(handles[2]) ELSE gateway
         /\ SentTwo(k, Value(handles[1]), l, Value(handles[2]))
<1> DEFINE entries == [i \in DOMAIN <<k, l>> |-> << <<k, l>>[i], Value(handles[i]) >>]
           E == {<<k, Value(handles[1])>>, <<l, Value(handles[2])>>}
<1>1. DOMAIN <<k, l>> = {1, 2} /\ <<k, l>>[1] = k /\ <<k, l>>[2] = l
  OBVIOUS
<1>2. ToSet(<<k, l>>) = {k, l}
  BY <1>1 DEF ToSet
<1>3. table' = [x \in {k, l} \union Installed |->
                  IF x = k THEN handles[1] ELSE IF x = l THEN handles[2] ELSE table[x]]
  <2>1. /\ (CHOOSE i \in DOMAIN <<k, l>> : <<k, l>>[i] = k) = 1
        /\ (CHOOSE i \in DOMAIN <<k, l>> : <<k, l>>[i] = l) = 2
    BY <1>1
  <2>2. table' = [x \in Installed \union {k, l} |->
                    IF x \in {k, l} THEN handles[CHOOSE i \in DOMAIN <<k, l>> : <<k, l>>[i] = x]
                    ELSE table[x]]
    BY <1>2 DEF store_entry
  <2> QED
    BY <2>1, <2>2
<1>4. gateway' = IF k = <<>> THEN Value(handles[1])
                 ELSE IF l = <<>> THEN Value(handles[2]) ELSE gateway
  BY <1>2, <1>3 DEF store_entry
<1>5. used' = used \union {k, l} /\ kind' = kind
  BY <1>2 DEF store_entry
<1>6. entries = [i \in 1 .. 2 |-> IF i = 1 THEN <<k, Value(handles[1])>>
                                 ELSE <<l, Value(handles[2])>>]
  OBVIOUS
<1>7. entries \in Seq(E) /\ Len(entries) = 2
  <2>1. entries \in [1 .. 2 -> E]
    BY <1>6
  <2> HIDE DEF entries, E
  <2>2. entries \in Seq(E)
    BY <2>1, SeqDef
  <2>3. DOMAIN entries = 1 .. 2 /\ DOMAIN entries = 1 .. Len(entries) /\ Len(entries) \in Nat
    BY <2>1, <2>2, LenProperties
  <2>4. 2 \in 1 .. Len(entries) /\ Len(entries) \in 1 .. 2
    BY <2>3
  <2> QED
    BY <2>2, <2>4
<1>8. /\ entries[1][1] = k /\ entries[1][2] = Value(handles[1])
      /\ entries[2][1] = l /\ entries[2][2] = Value(handles[2])
  BY <1>6
<1>9. structure' = Updated(entries, "Add")
  BY DEF store_entry
<1> HIDE DEF entries, E
<1> QED
  BY <1>3, <1>4, <1>5, <1>7, <1>8, <1>9 DEF WithTwo, SentTwo

LEMMA StoreOne ==
  ASSUME TreeInv, kind = "lpm", NEW k \in Keys, NEW handles, store_entry(<<k>>, handles)
  PROVE  TreeInv'
<1>1. PICK v : v = Value(handles[1])
  OBVIOUS
<1>2. PICK tree : tree = IF structure = None THEN LPM!newTree(Miss) ELSE structure
  OBVIOUS
<1>3. k \in Routes /\ k \in Seq(Bit) /\ Installed \subseteq Seq(Bit) /\ Installed \subseteq Routes
  BY TablesAssumption DEF Keys, TreeInv
<1>5. table' = [x \in {k} \union Installed |-> IF x = k THEN handles[1] ELSE table[x]]
  <2>1. table' = WithOne(k, handles)
    BY OneStored
  <2> QED
    BY <2>1 DEF WithOne
<1>6. structure' = LPM!insert(tree, k, v)
  <2>0. PICK E : \E entries \in Seq(E) :
          /\ Len(entries) = 1 /\ entries[1][1] = k /\ entries[1][2] = v
          /\ structure' = Updated(entries, "Add")
    BY <1>1, OneStored DEF SentOne
  <2>1. PICK entries \in Seq(E) :
          /\ Len(entries) = 1 /\ entries[1][1] = k /\ entries[1][2] = v
          /\ structure' = Updated(entries, "Add")
    BY <2>0
  <2>2. structure' = LPM!update(tree, entries, "Add")
    BY <1>2, <2>1 DEF Updated
  <2> QED
    BY <2>1, <2>2, AddOneEntry
<1>7. gateway' = IF k = <<>> THEN v ELSE gateway
  BY <1>1, OneStored
<1>8. Installed' = Installed \union {k}
  BY <1>5 DEF Installed
<1>9. Holds(structure', Answers', gateway')
  <2>1. Holds(tree, Answers, gateway)
    BY <1>2, TreeBefore
  <2>2. /\ DOMAIN Answers = Installed /\ DOMAIN Answers' = Installed \union {k}
        /\ Answers'[k] = v /\ \A r \in Installed \ {k} : Answers'[r] = Answers[r]
    BY <1>1, <1>5, <1>8 DEF Answers, Installed
  <2>3. PICK U : U = Answers'
    OBVIOUS
  <2>4. Holds(LPM!insert(tree, k, v), U, IF k = <<>> THEN v ELSE gateway)
    BY <1>3, <2>1, <2>2, <2>3, InsertHolds
  <2> QED
    BY <1>6, <1>7, <2>3, <2>4
<1> QED
  <2>1. structure' # None
    BY <1>9, HoldsSome
  <2>2. <<>> \in Installed' => gateway' = Value(table'[<<>>])
    BY <1>1, <1>5, <1>7, <1>8 DEF TreeInv
  <2> QED
    BY <1>3, <1>8, <1>9, <2>1, <2>2 DEF TreeInv

LEMMA StoreTwo ==
  ASSUME TreeInv, kind = "lpm", NEW k \in Keys, NEW l \in Keys, k # l,
         NEW handles, store_entry(<<k, l>>, handles)
  PROVE  TreeInv'
<1>1. PICK v, w : v = Value(handles[1]) /\ w = Value(handles[2])
  OBVIOUS
<1>2. PICK tree : tree = IF structure = None THEN LPM!newTree(Miss) ELSE structure
  OBVIOUS
<1>3. /\ {k, l} \subseteq Routes /\ {k, l} \subseteq Seq(Bit)
      /\ Installed \subseteq Seq(Bit) /\ Installed \subseteq Routes
  BY TablesAssumption DEF Keys, TreeInv
<1>5. table' = [x \in {k, l} \union Installed |->
                  IF x = k THEN handles[1] ELSE IF x = l THEN handles[2] ELSE table[x]]
  <2>1. table' = WithTwo(k, l, handles)
    BY TwoStored
  <2> QED
    BY <2>1 DEF WithTwo
<1>6. structure' = LPM!insert(LPM!insert(tree, k, v), l, w)
  <2>0. PICK E : \E entries \in Seq(E) :
          /\ Len(entries) = 2 /\ entries[1][1] = k /\ entries[1][2] = v
          /\ entries[2][1] = l /\ entries[2][2] = w
          /\ structure' = Updated(entries, "Add")
    BY <1>1, TwoStored DEF SentTwo
  <2>1. PICK entries \in Seq(E) :
          /\ Len(entries) = 2 /\ entries[1][1] = k /\ entries[1][2] = v
          /\ entries[2][1] = l /\ entries[2][2] = w
          /\ structure' = Updated(entries, "Add")
    BY <2>0
  <2>2. structure' = LPM!update(tree, entries, "Add")
    BY <1>2, <2>1 DEF Updated
  <2> QED
    BY <2>1, <2>2, AddTwoEntries
<1>7. gateway' = IF k = <<>> THEN v ELSE IF l = <<>> THEN w ELSE gateway
  BY <1>1, TwoStored
<1>8. Installed' = Installed \union {k, l}
  BY <1>5 DEF Installed
<1>9. Holds(structure', Answers', gateway')
  <2>1. Holds(tree, Answers, gateway)
    BY <1>2, TreeBefore
  <2>2. PICK T : T = [r \in Installed \union {k} |-> IF r = k THEN v ELSE Answers[r]]
    OBVIOUS
  <2>3. PICK U : U = Answers'
    OBVIOUS
  <2>4. PICK g : g = IF k = <<>> THEN v ELSE gateway
    OBVIOUS
  <2>5. Holds(LPM!insert(tree, k, v), T, g)
    <3>1. /\ DOMAIN Answers = Installed /\ DOMAIN T = Installed \union {k} /\ T[k] = v
          /\ \A r \in Installed \ {k} : T[r] = Answers[r]
      BY <2>2 DEF Answers
    <3> QED
      BY <1>3, <2>1, <2>4, <3>1, InsertHolds, ZenonT(60)
  <2>6. /\ DOMAIN U = DOMAIN T \union {l} /\ DOMAIN T \subseteq Seq(Bit) /\ U[l] = w
        /\ \A r \in DOMAIN T \ {l} : U[r] = T[r]
    <3>1. U = [r \in Installed \union {k, l} |-> Value(table'[r])]
      BY <1>8, <2>3 DEF Answers
    <3>2. U[l] = w /\ U[k] = v
      BY <1>1, <1>5, <3>1
    <3>3. \A r \in Installed \ {k, l} : U[r] = Answers[r]
      BY <1>5, <3>1 DEF Answers
    <3> QED
      BY <1>3, <2>2, <3>1, <3>2, <3>3
  <2>7. Holds(LPM!insert(LPM!insert(tree, k, v), l, w), U, IF l = <<>> THEN w ELSE g)
    BY <1>3, <2>5, <2>6, InsertHolds
  <2>8. gateway' = IF l = <<>> THEN w ELSE g
    BY <1>7, <2>4
  <2> QED
    BY <1>6, <2>3, <2>7, <2>8
<1> QED
  <2>1. structure' # None
    BY <1>9, HoldsSome
  <2>2. <<>> \in Installed' => gateway' = Value(table'[<<>>])
    BY <1>1, <1>5, <1>7, <1>8 DEF TreeInv
  <2> QED
    BY <1>3, <1>8, <1>9, <2>1, <2>2 DEF TreeInv

LEMMA DeleteOne ==
  ASSUME TreeInv, kind = "lpm", NEW k \in Installed, delete_entry(k)
  PROVE  TreeInv'
<1>1. structure # None /\ Holds(structure, Answers, gateway) /\ gateway' = gateway
  BY DEF delete_entry, TreeInv
<1>2. Installed \subseteq Routes /\ Installed \subseteq Seq(Bit)
  BY TablesAssumption DEF TreeInv
<1>3. structure' = LPM!remove(structure, k)
  <2>1. structure' = LPM!update(structure, << <<k, Miss>> >>, "Remove")
    BY <1>1 DEF delete_entry, Updated
  <2> QED
    BY <2>1, RemoveOneEntry
<1>4. table' = [x \in Installed \ {k} |-> table[x]] /\ Installed' = Installed \ {k}
  BY DEF delete_entry, Installed
<1>5. PICK U : U = Answers'
  OBVIOUS
<1>6. /\ DOMAIN Answers = Installed /\ DOMAIN U = Installed \ {k}
      /\ \A r \in Installed \ {k} : U[r] = Answers[r]
  BY <1>4, <1>5 DEF Answers
<1>7. Holds(structure', U, gateway)
  BY <1>1, <1>2, <1>3, <1>6, RemoveHolds
<1>8. structure' # None
  BY <1>7, HoldsSome
<1>9. <<>> \in Installed' => gateway' = Value(table'[<<>>])
  BY <1>1, <1>4 DEF TreeInv
<1> QED
  BY <1>1, <1>2, <1>4, <1>5, <1>7, <1>8, <1>9 DEF TreeInv

LEMMA TreeInvNext == TreeInv /\ [Next]_vars => TreeInv'
<1> SUFFICES ASSUME TreeInv, [Next]_vars PROVE TreeInv'
  OBVIOUS
<1>1. CASE UNCHANGED vars
  BY <1>1 DEF vars, TreeInv, Installed, Answers
<1>2. CASE Next
  <2>1. kind' = kind
    BY <1>2 DEF Next, AddOne, AddTwo, Delete, store_entry, delete_entry
  <2>2. CASE kind # "lpm"
    BY <2>1, <2>2 DEF TreeInv
  <2>3. CASE kind = "lpm"
    <3>1. CASE AddOne
      BY <2>3, <3>1, StoreOne DEF AddOne
    <3>2. CASE AddTwo
      BY <2>3, <3>2, StoreTwo DEF AddTwo
    <3>3. CASE Delete
      BY <2>3, <3>3, DeleteOne DEF Delete
    <3> QED
      BY <1>2, <3>1, <3>2, <3>3 DEF Next
  <2> QED
    BY <2>2, <2>3
<1> QED
  BY <1>1, <1>2

LEMMA TreeInvariant == Spec => []TreeInv
  BY TreeInvInit, TreeInvNext, PTL DEF Spec

-----------------------------------------------------------------------------
(* Hash tries                                                              *)

\* The names in a trie are those of mRoot and, with any, what is above it.
Named(trie) == \A p \in DOMAIN trie : p \in Seq(Digits) /\ Len(p) \in 1 .. Levels

Rooted(trie) == \A p \in Seq(Digits) : Len(p) = 1 => p \in DOMAIN trie

\* What is above an entry are bitmaps.
Closed(trie) ==
  \A p \in Seq(Digits) : \A q \in DOMAIN trie :
     Begins(p, q) /\ Len(p) # 0 => p \in DOMAIN trie /\ (p # q => ~ trie[p].flag)

\* A key/value entry is on the way of its key and has the answer to it.
Kin(trie, T) ==
  \A p \in DOMAIN trie : trie[p].flag =>
     /\ trie[p].key \in DOMAIN T /\ Begins(p, HashOf[trie[p].key])
     /\ trie[p].value = T[trie[p].key]

Found(trie, T) == \A k \in DOMAIN T : \E p \in DOMAIN trie : trie[p].flag /\ trie[p].key = k

\* The trie holds the keys of T and no others.
EntriesHold(trie, T) ==
  Named(trie) /\ Rooted(trie) /\ Closed(trie) /\ Kin(trie, T) /\ Found(trie, T)

LEMMA HashTyped ==
  ASSUME NEW k \in ExactKeys
  PROVE  /\ Levels \in Nat \ {0} /\ HashOf[k] \in Hashes
         /\ HashOf[k] \in Seq(Digits) /\ Len(HashOf[k]) = Levels
         /\ RehashOf[HashOf[k]] \in Seq(Digits) /\ Len(RehashOf[HashOf[k]]) = Levels
         /\ RehashOf[RehashOf[HashOf[k]]] \in Seq(Digits)
         /\ Len(RehashOf[RehashOf[HashOf[k]]]) = Levels
<1>1. Levels \in Nat \ {0} /\ HashOf[k] \in Hashes
  BY TablesAssumption
<1>2. \A h \in Hashes : RehashOf[h] \in Hashes
  BY TablesAssumption
<1>3. \A h \in Hashes : h \in Seq(Digits) /\ Len(h) = Levels
  <2> SUFFICES ASSUME NEW h \in Hashes PROVE h \in Seq(Digits) /\ Len(h) = Levels
    OBVIOUS
  <2>1. h \in Seq(Digits) /\ DOMAIN h = 1 .. Levels
    BY <1>1, SeqDef DEF Hashes
  <2>2. DOMAIN h = 1 .. Len(h) /\ Len(h) \in Nat
    BY <2>1, LenProperties
  <2>3. Levels \in 1 .. Len(h) /\ (Len(h) # 0 => Len(h) \in 1 .. Levels)
    BY <1>1, <2>1, <2>2
  <2> QED
    BY <1>1, <2>1, <2>2, <2>3
<1> QED
  BY <1>1, <1>2, <1>3

\* A key is led down by its hash first.
LEMMA DigitsOfKey ==
  ASSUME NEW k \in ExactKeys
  PROVE  /\ EXACT!DigitsOf(k) \in Seq(Digits)
         /\ Len(EXACT!DigitsOf(k)) = Levels + Levels + Levels
         /\ \A i \in 1 .. Levels : EXACT!DigitsOf(k)[i] = HashOf[k][i]
<1>1. PICK a, b, c : a = HashOf[k] /\ b = RehashOf[a] /\ c = RehashOf[b]
  OBVIOUS
<1>2. /\ a \in Seq(Digits) /\ b \in Seq(Digits) /\ c \in Seq(Digits)
      /\ Len(a) = Levels /\ Len(b) = Levels /\ Len(c) = Levels /\ Levels \in Nat
  BY <1>1, HashTyped
<1>3. EXACT!DigitsOf(k) = (a \o b) \o c
  BY <1>1 DEF EXACT!DigitsOf, HashDigits, RehashDigits
<1>4. PICK d : d = a \o b
  OBVIOUS
<1>5. /\ d \in Seq(Digits) /\ Len(d) = Levels + Levels
      /\ \A i \in 1 .. Levels + Levels : d[i] = IF i <= Levels THEN a[i] ELSE b[i - Levels]
  <2>1. /\ a \o b \in Seq(Digits) /\ Len(a \o b) = Len(a) + Len(b)
        /\ \A i \in 1 .. Len(a) + Len(b) :
              (a \o b)[i] = IF i <= Len(a) THEN a[i] ELSE b[i - Len(a)]
    BY <1>2, ConcatProperties
  <2> QED
    BY <1>2, <1>4, <2>1
<1>6. PICK e : e = d \o c
  OBVIOUS
<1>7. /\ e \in Seq(Digits) /\ Len(e) = Len(d) + Len(c)
      /\ \A i \in 1 .. Len(d) + Len(c) : e[i] = IF i <= Len(d) THEN d[i] ELSE c[i - Len(d)]
  BY <1>2, <1>5, <1>6, ConcatProperties
<1>8. \A i \in 1 .. Levels : i \in 1 .. Len(d) + Len(c) /\ i <= Len(d) /\ i \in 1 .. Levels + Levels
  BY <1>2, <1>5
<1>9. \A i \in 1 .. Levels : e[i] = a[i]
  BY <1>5, <1>7, <1>8
<1>10. EXACT!DigitsOf(k) = e
  BY <1>3, <1>4, <1>6
<1>11. Len(e) = Levels + Levels + Levels
  BY <1>2, <1>5, <1>7
<1> QED
  BY <1>1, <1>7, <1>9, <1>10, <1>11

\* The names on that way
Way(k, n) == SubSeq(EXACT!DigitsOf(k), 1, n)

LEMMA WayOf ==
  ASSUME NEW k \in ExactKeys, NEW n \in 0 .. Levels
  PROVE  /\ Way(k, n) \in Seq(Digits) /\ Len(Way(k, n)) = n
         /\ \A i \in 1 .. n : Way(k, n)[i] = HashOf[k][i]
         /\ Begins(Way(k, n), HashOf[k])
         /\ \A p \in Seq(Digits) : Begins(p, HashOf[k]) /\ Len(p) = n => p = Way(k, n)
<1>1. PICK d : d = EXACT!DigitsOf(k)
  OBVIOUS
<1>2. /\ d \in Seq(Digits) /\ Len(d) \in Nat /\ Len(d) >= Levels /\ Levels \in Nat
      /\ HashOf[k] \in Seq(Digits) /\ Len(HashOf[k]) = Levels
      /\ \A i \in 1 .. Levels : d[i] = HashOf[k][i]
  BY <1>1, DigitsOfKey, HashTyped
<1>3. PICK w : w = Way(k, n)
  OBVIOUS
<1>4. w \in Seq(Digits) /\ Len(w) = n /\ \A i \in 1 .. n : w[i] = d[i]
  <2>1. n \in 0 .. Len(d)
    BY <1>2
  <2> QED
    BY <1>1, <1>2, <1>3, <2>1 DEF Way
<1>5. \A i \in 1 .. n : w[i] = HashOf[k][i]
  BY <1>2, <1>4
<1>6. Begins(w, HashOf[k])
  BY <1>2, <1>4, <1>5 DEF Begins
<1>7. ASSUME NEW p \in Seq(Digits), Begins(p, HashOf[k]), Len(p) = n
      PROVE  p = w
  BY <1>2, <1>4, <1>6, <1>7, BeginsEqual
<1> QED
  BY <1>3, <1>4, <1>5, <1>6, <1>7

LEMMA ExactPrefixes == \A s : EXACT!Prefixes(s) = Prefixes(s) /\ EXACT!Front(s) = Front(s)
  BY DEF Prefixes, EXACT!Prefixes, Front, EXACT!Front

\* A walk ends at the last entry on the way.
LEMMA Walk ==
  ASSUME NEW trie, Named(trie), Rooted(trie), NEW k \in ExactKeys,
         NEW p, p = EXACT!Reached(trie, k)
  PROVE  /\ p \in DOMAIN trie /\ p \in Seq(Digits) /\ Len(p) \in 1 .. Levels
         /\ Begins(p, HashOf[k])
         /\ \A q \in DOMAIN trie : Begins(q, HashOf[k]) => Begins(q, p)
<1> DEFINE way == { q \in Prefixes(EXACT!DigitsOf(k)) : q \in DOMAIN trie }
<1>1. /\ HashOf[k] \in Seq(Digits) /\ Len(HashOf[k]) = Levels
      /\ EXACT!DigitsOf(k) \in Seq(Digits) /\ Len(EXACT!DigitsOf(k)) >= Levels
      /\ Len(EXACT!DigitsOf(k)) \in Nat /\ Levels \in Nat \ {0}
      /\ \A i \in 1 .. Levels : EXACT!DigitsOf(k)[i] = HashOf[k][i]
  BY DigitsOfKey, HashTyped
<1>2. \A q \in DOMAIN trie : q \in Seq(Digits) /\ Len(q) \in 1 .. Levels
  BY DEF Named
<1>3. \A q \in DOMAIN trie : q \in way <=> Begins(q, HashOf[k])
  <2> SUFFICES ASSUME NEW q \in DOMAIN trie
               PROVE  q \in way <=> Begins(q, HashOf[k])
    OBVIOUS
  <2>1. q \in way <=> Begins(q, EXACT!DigitsOf(k))
    BY <1>1, <1>2, BeginsPrefix
  <2>2. Begins(q, EXACT!DigitsOf(k)) <=> Begins(q, HashOf[k])
    BY <1>1, <1>2 DEF Begins
  <2> QED
    BY <2>1, <2>2
<1>4. way # {}
  <2>1. 1 \in 0 .. Levels
    BY <1>1
  <2>2. Way(k, 1) \in DOMAIN trie /\ Begins(Way(k, 1), HashOf[k])
    BY <2>1, WayOf DEF Rooted
  <2> QED
    BY <1>3, <2>2
<1>5. way \in SUBSET Seq(Digits) /\ \A q \in way : Begins(q, HashOf[k])
  BY <1>2, <1>3
<1>6. way \subseteq DOMAIN trie
  OBVIOUS
<1>7. p = CHOOSE q \in way : \A r \in way : Len(r) <= Len(q)
  BY ExactPrefixes DEF EXACT!Reached
<1> HIDE DEF way
<1>8. p \in way /\ \A q \in way : Len(q) <= Len(p)
  <2>1. \E q \in way : \A r \in way : Len(r) <= Len(q)
    BY <1>1, <1>4, <1>5, LongestMember
  <2> QED
    BY <1>7, <2>1
<1>9. ASSUME NEW q \in DOMAIN trie, Begins(q, HashOf[k]) PROVE Begins(q, p)
  <2>1. q \in way /\ Len(q) <= Len(p)
    BY <1>3, <1>8, <1>9
  <2> QED
    BY <1>1, <1>5, <1>8, <2>1, BeginsBoth
<1> QED
  BY <1>2, <1>5, <1>6, <1>8, <1>9

\* It ends at the key if that is in the trie, and at no entry of it otherwise.
LEMMA WalkEnds ==
  ASSUME NEW trie, NEW T, EntriesHold(trie, T), NEW k \in ExactKeys,
         NEW p, p = EXACT!Reached(trie, k)
  PROVE  /\ k \in DOMAIN T => trie[p].flag /\ trie[p].key = k /\ trie[p].value = T[k]
         /\ k \notin DOMAIN T => ~ (trie[p].flag /\ trie[p].key = k)
<1>1. /\ p \in DOMAIN trie /\ \A q \in DOMAIN trie : Begins(q, HashOf[k]) => Begins(q, p)
  BY Walk DEF EntriesHold
<1>2. ASSUME k \in DOMAIN T
      PROVE  trie[p].flag /\ trie[p].key = k /\ trie[p].value = T[k]
  <2>1. PICK q \in DOMAIN trie : trie[q].flag /\ trie[q].key = k
    BY <1>2 DEF EntriesHold, Found
  <2>2. Begins(q, p) /\ q \in Seq(Digits) /\ Len(q) # 0
    BY <1>1, <2>1 DEF EntriesHold, Kin, Named
  <2>3. q = p
    BY <1>1, <2>1, <2>2 DEF EntriesHold, Closed
  <2> QED
    BY <1>1, <2>1, <2>3 DEF EntriesHold, Kin
<1>3. ASSUME k \notin DOMAIN T, trie[p].flag, trie[p].key = k PROVE FALSE
  BY <1>1, <1>3 DEF EntriesHold, Kin
<1> QED
  BY <1>2, <1>3

\* A key is at one entry.
LEMMA OneEntry ==
  ASSUME NEW trie, NEW T, EntriesHold(trie, T), DOMAIN T \subseteq ExactKeys,
         NEW p \in DOMAIN trie, NEW q \in DOMAIN trie,
         trie[p].flag, trie[q].flag, trie[p].key = trie[q].key
  PROVE  p = q
<1>1. PICK h : h = HashOf[trie[p].key]
  OBVIOUS
<1>2. /\ h \in Seq(Digits) /\ Begins(p, h) /\ Begins(q, h)
      /\ p \in Seq(Digits) /\ q \in Seq(Digits) /\ Len(p) # 0 /\ Len(q) # 0
  BY <1>1, HashTyped DEF EntriesHold, Named, Kin
<1>3. Begins(p, q) \/ Begins(q, p)
  BY <1>2, BeginsBoth DEF Begins
<1> QED
  BY <1>2, <1>3 DEF EntriesHold, Closed

\* Below an entry with a key there is none.
LEMMA NoneBelow ==
  ASSUME NEW trie, NEW T, EntriesHold(trie, T), NEW p \in DOMAIN trie, trie[p].flag,
         NEW q \in DOMAIN trie, Begins(p, q)
  PROVE  q = p
<1>1. p \in Seq(Digits) /\ Len(p) # 0
  BY DEF EntriesHold, Named
<1> QED
  BY <1>1 DEF EntriesHold, Closed

\* n may be filled: there are bitmaps above, and no key there or below.
Vacant(trie, n) ==
  /\ \A p \in Seq(Digits) :
        Begins(p, n) /\ Len(p) # 0 /\ p # n => p \in DOMAIN trie /\ ~ trie[p].flag
  /\ \A q \in DOMAIN trie : Begins(n, q) => q = n /\ ~ trie[q].flag

\* Answers with one key more or less
OneMore(U, T, k, v) ==
  DOMAIN U = DOMAIN T \union {k} /\ U[k] = v /\ \A r \in DOMAIN T : U[r] = T[r]

OneLess(U, T, k) == DOMAIN U = DOMAIN T \ {k} /\ \A r \in DOMAIN U : U[r] = T[r]

\* A key is added at such a name.
LEMMA AddHolds ==
  ASSUME NEW trie, NEW T, EntriesHold(trie, T),
         NEW k \in ExactKeys, k \notin DOMAIN T, NEW v,
         NEW n \in Seq(Digits), Len(n) \in 1 .. Levels, Begins(n, HashOf[k]), Vacant(trie, n),
         NEW U, OneMore(U, T, k, v)
  PROVE  EntriesHold(EXACT!With(trie, n, EXACT!KeyValue(k, v)), U)
<1> DEFINE after == EXACT!With(trie, n, EXACT!KeyValue(k, v))
<1>0. /\ DOMAIN after = DOMAIN trie \union {n} /\ after[n] = EXACT!KeyValue(k, v)
      /\ \A q \in DOMAIN trie \ {n} : after[q] = trie[q]
  BY DEF EXACT!With
<1> HIDE DEF after
<1>a. after[n].flag /\ after[n].key = k /\ after[n].value = v
  BY <1>0 DEF EXACT!KeyValue
<1>b. /\ \A p \in Seq(Digits) :
            Begins(p, n) /\ Len(p) # 0 /\ p # n => p \in DOMAIN trie /\ ~ trie[p].flag
      /\ \A q \in DOMAIN trie : Begins(n, q) => q = n /\ ~ trie[q].flag
  BY DEF Vacant
<1>c. DOMAIN U = DOMAIN T \union {k} /\ U[k] = v /\ \A r \in DOMAIN T : U[r] = T[r]
  BY DEF OneMore
<1> USE <1>0, <1>a, <1>b, <1>c
<1>1. Named(after)
  BY DEF EntriesHold, Named
<1>2. Rooted(after)
  BY DEF EntriesHold, Rooted
<1>3. ASSUME NEW p \in Seq(Digits), NEW q \in DOMAIN after, Begins(p, q), Len(p) # 0
      PROVE  p \in DOMAIN after /\ (p # q => ~ after[p].flag)
  <2>1. CASE q = n
    BY <1>3, <2>1
  <2>2. CASE q # n
    <3>1. q \in DOMAIN trie /\ p # n
      BY <1>3, <2>2
    <3> QED
      BY <1>3, <3>1 DEF EntriesHold, Closed
  <2> QED
    BY <2>1, <2>2
<1>4. Kin(after, U)
  <2> SUFFICES ASSUME NEW p \in DOMAIN after, after[p].flag
               PROVE  /\ after[p].key \in DOMAIN U /\ Begins(p, HashOf[after[p].key])
                      /\ after[p].value = U[after[p].key]
    BY DEF Kin
  <2>1. CASE p = n
    BY <2>1
  <2>2. CASE p # n
    <3>1. p \in DOMAIN trie /\ after[p] = trie[p]
      BY <2>2
    <3> QED
      BY <3>1 DEF EntriesHold, Kin
  <2> QED
    BY <2>1, <2>2
<1>5. Found(after, U)
  <2> SUFFICES ASSUME NEW r \in DOMAIN U
               PROVE  \E p \in DOMAIN after : after[p].flag /\ after[p].key = r
    BY DEF Found
  <2>1. CASE r = k
    BY <2>1
  <2>2. CASE r # k
    <3>1. PICK p \in DOMAIN trie : trie[p].flag /\ trie[p].key = r
      BY <2>2 DEF EntriesHold, Found
    <3>2. p # n
      BY <3>1 DEF Begins
    <3> QED
      BY <3>1, <3>2
  <2> QED
    BY <2>1, <2>2
<1> QED
  BY <1>1, <1>2, <1>3, <1>4, <1>5 DEF EntriesHold, Closed, after

\* An entry's key moves further down its way, and leaves bitmaps.
Lowered(after, trie, p, n, bitmaps) ==
  /\ bitmaps \subseteq Seq(Digits)
  /\ \A q \in Seq(Digits) : q \in bitmaps <=> Begins(p, q) /\ Begins(q, n) /\ q # n
  /\ DOMAIN after = DOMAIN trie \union bitmaps \union {n} /\ after[n] = trie[p]
  /\ \A q \in bitmaps : ~ after[q].flag
  /\ \A q \in DOMAIN trie \ {p} : q \notin bitmaps /\ q # n => after[q] = trie[q]

LEMMA MoveDownHolds ==
  ASSUME NEW trie, NEW T, EntriesHold(trie, T), DOMAIN T \subseteq ExactKeys,
         NEW p \in DOMAIN trie, trie[p].flag,
         NEW n \in Seq(Digits), Len(n) \in 1 .. Levels, Begins(n, HashOf[trie[p].key]),
         Len(p) < Len(n),
         NEW bitmaps, NEW after, Lowered(after, trie, p, n, bitmaps)
  PROVE  EntriesHold(after, T)
<1>0. /\ bitmaps \subseteq Seq(Digits)
      /\ \A q \in Seq(Digits) : q \in bitmaps <=> Begins(p, q) /\ Begins(q, n) /\ q # n
      /\ DOMAIN after = DOMAIN trie \union bitmaps \union {n} /\ after[n] = trie[p]
      /\ \A q \in bitmaps : ~ after[q].flag
      /\ \A q \in DOMAIN trie \ {p} : q \notin bitmaps /\ q # n => after[q] = trie[q]
  BY DEF Lowered
<1> USE <1>0
<1>1. PICK h : h = HashOf[trie[p].key]
  OBVIOUS
<1>2. /\ h \in Seq(Digits) /\ Begins(p, h) /\ Begins(n, h)
      /\ p \in Seq(Digits) /\ Len(p) # 0 /\ Begins(p, n) /\ Begins(p, p)
  <2>1. h \in Seq(Digits) /\ Begins(p, h) /\ Begins(n, h) /\ p \in Seq(Digits) /\ Len(p) # 0
    BY <1>1, HashTyped DEF EntriesHold, Named, Kin
  <2> QED
    BY <2>1, BeginsBoth DEF Begins
<1>3. \A q \in DOMAIN trie : Begins(p, q) => q = p
  BY NoneBelow
<1>4. p \in bitmaps /\ n \notin DOMAIN trie /\ n \notin bitmaps
  BY <1>2, <1>3
<1>5. \A q \in DOMAIN trie \ {p} : q \notin bitmaps /\ after[q] = trie[q]
  <2>1. \A q \in DOMAIN trie \ {p} : q \notin bitmaps
    BY <1>3 DEF EntriesHold, Named
  <2> QED
    BY <1>4, <2>1
<1>6. Named(after)
  <2>1. \A q \in bitmaps : q \in Seq(Digits) /\ Len(q) \in 1 .. Levels
    <3> SUFFICES ASSUME NEW q \in bitmaps PROVE Len(q) \in 1 .. Levels
      OBVIOUS
    <3>1. Len(p) <= Len(q) /\ Len(q) <= Len(n) /\ Len(q) \in Nat /\ Len(p) \in Nat /\ Len(n) \in Nat
      BY <1>2 DEF Begins
    <3>2. Len(p) # 0 /\ Levels \in Nat
      BY <1>2, TablesAssumption
    <3> QED
      BY <3>1, <3>2
  <2> QED
    BY <2>1 DEF EntriesHold, Named
<1>7. Rooted(after)
  BY DEF EntriesHold, Rooted
<1>8. ASSUME NEW s \in Seq(Digits), NEW q \in DOMAIN after, Begins(s, q), Len(s) # 0
      PROVE  s \in DOMAIN after /\ (s # q => ~ after[s].flag)
  <2>1. CASE q \in DOMAIN trie \ {p}
    <3>1. s \in DOMAIN trie /\ (s # q => ~ trie[s].flag)
      BY <1>8, <2>1 DEF EntriesHold, Closed
    <3>2. s # n
      BY <1>4, <3>1
    <3> QED
      BY <1>4, <1>5, <3>1, <3>2
  <2>2. CASE q \in bitmaps \union {n}
    <3>1. q \in Seq(Digits) /\ Begins(s, n) /\ Begins(q, n) /\ (q # s => s # n)
      <4>1. q \in Seq(Digits) /\ Begins(q, n)
        BY <2>2 DEF Begins
      <4>2. Begins(s, n)
        BY <1>8, <4>1, BeginsTransitive
      <4>3. s = n => q = s
        <5>1. s = n => Len(q) = Len(n)
          BY <1>8, <4>1 DEF Begins
        <5>2. Begins(n, n)
          BY DEF Begins
        <5> QED
          BY <4>1, <5>1, <5>2, BeginsEqual
      <4> QED
        BY <4>1, <4>2, <4>3
    <3>2. CASE Len(p) <= Len(s)
      <4>1. Begins(p, s)
        BY <1>2, <3>1, <3>2, BeginsBoth
      <4> QED
        BY <3>1, <4>1
    <3>3. CASE Len(s) < Len(p)
      <4>1. Begins(s, p) /\ s # p
        BY <1>2, <3>1, <3>3, BeginsBoth DEF Begins
      <4>2. s \in DOMAIN trie \ {p} /\ ~ trie[s].flag
        BY <1>8, <4>1 DEF EntriesHold, Closed
      <4> QED
        BY <1>5, <4>2
    <3>4. Len(s) \in Nat /\ Len(p) \in Nat
      BY <1>2
    <3> QED
      BY <3>2, <3>3, <3>4
  <2> QED
    BY <1>4, <1>8, <2>1, <2>2
<1>9. Kin(after, T)
  <2> SUFFICES ASSUME NEW q \in DOMAIN after, after[q].flag
               PROVE  /\ after[q].key \in DOMAIN T /\ Begins(q, HashOf[after[q].key])
                      /\ after[q].value = T[after[q].key]
    BY DEF Kin
  <2>1. CASE q = n
    BY <2>1 DEF EntriesHold, Kin
  <2>2. CASE q # n
    <3>1. q \in DOMAIN trie \ {p} /\ after[q] = trie[q]
      BY <1>4, <1>5, <2>2
    <3> QED
      BY <3>1 DEF EntriesHold, Kin
  <2> QED
    BY <2>1, <2>2
<1>10. Found(after, T)
  <2> SUFFICES ASSUME NEW r \in DOMAIN T
               PROVE  \E q \in DOMAIN after : after[q].flag /\ after[q].key = r
    BY DEF Found
  <2>1. PICK q \in DOMAIN trie : trie[q].flag /\ trie[q].key = r
    BY DEF EntriesHold, Found
  <2>2. CASE q = p
    BY <2>1, <2>2
  <2>3. CASE q # p
    BY <1>5, <2>1, <2>3
  <2> QED
    BY <2>2, <2>3
<1> QED
  BY <1>6, <1>7, <1>8, <1>9, <1>10 DEF EntriesHold, Closed

\* An entry below mRoot goes.
LEMMA DropHolds ==
  ASSUME NEW trie, NEW T, EntriesHold(trie, T), DOMAIN T \subseteq ExactKeys,
         NEW p \in DOMAIN trie, trie[p].flag, Len(p) # 1,
         NEW U, OneLess(U, T, trie[p].key),
         NEW after, DOMAIN after = DOMAIN trie \ {p},
         \A q \in DOMAIN trie \ {p} : after[q] = trie[q]
  PROVE  EntriesHold(after, U)
<1>0. DOMAIN U = DOMAIN T \ {trie[p].key} /\ \A r \in DOMAIN U : U[r] = T[r]
  BY DEF OneLess
<1>1. Named(after) /\ Rooted(after)
  BY DEF EntriesHold, Named, Rooted
<1>2. Closed(after)
  <2> SUFFICES ASSUME NEW s \in Seq(Digits), NEW q \in DOMAIN after, Begins(s, q), Len(s) # 0
               PROVE  s \in DOMAIN after /\ (s # q => ~ after[s].flag)
    BY DEF Closed
  <2>1. s # p
    BY NoneBelow
  <2> QED
    BY <2>1 DEF EntriesHold, Closed
<1>3. Kin(after, U)
  <2>1. \A q \in DOMAIN trie \ {p} : trie[q].flag => trie[q].key # trie[p].key
    BY OneEntry
  <2> QED
    BY <1>0, <2>1 DEF EntriesHold, Kin
<1>4. Found(after, U)
  <2> SUFFICES ASSUME NEW r \in DOMAIN U
               PROVE  \E q \in DOMAIN after : after[q].flag /\ after[q].key = r
    BY DEF Found
  <2>1. PICK q \in DOMAIN trie : trie[q].flag /\ trie[q].key = r
    BY <1>0 DEF EntriesHold, Found
  <2> QED
    BY <1>0, <2>1
<1> QED
  BY <1>1, <1>2, <1>3, <1>4 DEF EntriesHold

\* An entry of mRoot becomes an empty bitmap.
LEMMA ClearHolds ==
  ASSUME NEW trie, NEW T, EntriesHold(trie, T), DOMAIN T \subseteq ExactKeys,
         NEW p \in DOMAIN trie, trie[p].flag,
         NEW U, OneLess(U, T, trie[p].key),
         NEW after, DOMAIN after = DOMAIN trie, ~ after[p].flag,
         \A q \in DOMAIN trie \ {p} : after[q] = trie[q]
  PROVE  EntriesHold(after, U)
<1>0. DOMAIN U = DOMAIN T \ {trie[p].key} /\ \A r \in DOMAIN U : U[r] = T[r]
  BY DEF OneLess
<1>1. Named(after) /\ Rooted(after)
  BY DEF EntriesHold, Named, Rooted
<1>2. Closed(after)
  BY DEF EntriesHold, Closed
<1>3. Kin(after, U)
  <2>1. \A q \in DOMAIN trie \ {p} : trie[q].flag => trie[q].key # trie[p].key
    BY OneEntry
  <2> QED
    BY <1>0, <2>1 DEF EntriesHold, Kin
<1>4. Found(after, U)
  <2> SUFFICES ASSUME NEW r \in DOMAIN U
               PROVE  \E q \in DOMAIN after : after[q].flag /\ after[q].key = r
    BY DEF Found
  <2>1. PICK q \in DOMAIN trie : trie[q].flag /\ trie[q].key = r
    BY <1>0 DEF EntriesHold, Found
  <2> QED
    BY <1>0, <2>1
<1> QED
  BY <1>1, <1>2, <1>3, <1>4 DEF EntriesHold

\* The only entry of an array takes the place of the bitmap above.
Lifted(after, trie, o, parent) ==
  /\ \A q \in DOMAIN trie : Begins(parent, q) => q \in {parent, o}
  /\ DOMAIN after = DOMAIN trie \ {o} /\ after[parent] = trie[o]
  /\ \A q \in DOMAIN trie \ {o, parent} : after[q] = trie[q]

LEMMA PullUpHolds ==
  ASSUME NEW trie, NEW T, EntriesHold(trie, T), DOMAIN T \subseteq ExactKeys,
         NEW o \in DOMAIN trie, trie[o].flag,
         NEW parent \in Seq(Digits), Len(parent) # 0, Len(parent) < Len(o), Begins(parent, o),
         NEW after, Lifted(after, trie, o, parent)
  PROVE  EntriesHold(after, T)
<1>0. /\ \A q \in DOMAIN trie : Begins(parent, q) => q \in {parent, o}
      /\ DOMAIN after = DOMAIN trie \ {o} /\ after[parent] = trie[o]
      /\ \A q \in DOMAIN trie \ {o, parent} : after[q] = trie[q]
  BY DEF Lifted
<1> USE <1>0
<1>1. o \in Seq(Digits) /\ parent \in DOMAIN trie /\ parent # o /\ Len(o) # 1
  BY DEF EntriesHold, Named, Closed
<1>2. Named(after) /\ Rooted(after)
  BY <1>1 DEF EntriesHold, Named, Rooted
<1>3. Closed(after)
  <2> SUFFICES ASSUME NEW s \in Seq(Digits), NEW q \in DOMAIN after, Begins(s, q), Len(s) # 0
               PROVE  s \in DOMAIN after /\ (s # q => ~ after[s].flag)
    BY DEF Closed
  <2>1. s \in DOMAIN trie /\ (s # q => ~ trie[s].flag)
    BY DEF EntriesHold, Closed
  <2>2. q \in Seq(Digits)
    BY <1>2 DEF Named
  <2>3. s # o
    BY NoneBelow
  <2>4. s = parent => q = s
    <3>1. s = parent => q \in {parent, o}
      OBVIOUS
    <3> QED
      BY <3>1
  <2> QED
    BY <2>1, <2>3, <2>4
<1>4. Kin(after, T)
  <2> SUFFICES ASSUME NEW q \in DOMAIN after, after[q].flag
               PROVE  /\ after[q].key \in DOMAIN T /\ Begins(q, HashOf[after[q].key])
                      /\ after[q].value = T[after[q].key]
    BY DEF Kin
  <2>1. CASE q = parent
    <3>1. PICK h : h = HashOf[trie[o].key]
      OBVIOUS
    <3>2. trie[o].key \in DOMAIN T /\ Begins(o, h) /\ h \in Seq(Digits)
      BY <3>1, HashTyped DEF EntriesHold, Kin
    <3>3. Begins(parent, h)
      BY <1>1, <3>2, BeginsTransitive
    <3> QED
      BY <2>1, <3>1, <3>3 DEF EntriesHold, Kin
  <2>2. CASE q # parent
    BY <2>2 DEF EntriesHold, Kin
  <2> QED
    BY <2>1, <2>2
<1>5. Found(after, T)
  <2> SUFFICES ASSUME NEW r \in DOMAIN T
               PROVE  \E q \in DOMAIN after : after[q].flag /\ after[q].key = r
    BY DEF Found
  <2>1. PICK q \in DOMAIN trie : trie[q].flag /\ trie[q].key = r
    BY DEF EntriesHold, Found
  <2>2. CASE q = o
    BY <1>1, <2>1, <2>2
  <2>3. CASE q # o
    <3>1. ~ trie[parent].flag
      BY <1>1 DEF EntriesHold, Closed
    <3> QED
      BY <2>1, <2>3, <3>1
  <2> QED
    BY <2>2, <2>3
<1> QED
  BY <1>2, <1>3, <1>4, <1>5 DEF EntriesHold

\* The array of an entry
LEMMA SubtrieIs ==
  ASSUME NEW trie, Named(trie), Closed(trie), NEW p \in Seq(Digits)
  PROVE  /\ \A q \in DOMAIN trie :
              q \in EXACT!Subtrie(trie, p) <=> Begins(p, q) /\ Len(q) = Len(p) + 1
         /\ \A q \in DOMAIN trie : Begins(p, q) /\ q # p =>
              \E s \in EXACT!Subtrie(trie, p) : Begins(s, q)
         /\ EXACT!Subtrie(trie, p) \subseteq DOMAIN trie
<1>1. EXACT!Subtrie(trie, p) \subseteq DOMAIN trie
  BY DEF EXACT!Subtrie
<1>2. ASSUME NEW q \in Seq(Digits), Begins(p, q), Len(q) = Len(p) + 1
      PROVE  \E d \in Digits : q = Append(p, d)
  <2>1. Len(p) \in Nat /\ Len(p) + 1 \in 1 .. Len(q)
    BY <1>2
  <2>2. PICK d \in Digits : d = q[Len(p) + 1]
    BY <2>1, ElementOfSeq
  <2>3. PICK a : a = Append(p, d)
    OBVIOUS
  <2>4. a \in Seq(Digits) /\ Len(a) = Len(p) + 1 /\ a[Len(p) + 1] = d
        /\ \A i \in 1 .. Len(p) : a[i] = p[i]
    BY <2>3, AppendProperties
  <2>5. \A i \in 1 .. Len(q) : i \in 1 .. Len(p) \/ i = Len(p) + 1
    BY <1>2, <2>1
  <2>6. \A i \in 1 .. Len(q) : q[i] = a[i]
    BY <1>2, <2>2, <2>4, <2>5 DEF Begins
  <2>7. q = a
    BY <1>2, <2>4, <2>6, SeqEqual
  <2> QED
    BY <2>3, <2>7
<1>3. ASSUME NEW d \in Digits
      PROVE  Begins(p, Append(p, d)) /\ Len(Append(p, d)) = Len(p) + 1
  <2>1. PICK a : a = Append(p, d)
    OBVIOUS
  <2>2. a \in Seq(Digits) /\ Len(a) = Len(p) + 1 /\ \A i \in 1 .. Len(p) : a[i] = p[i]
    BY <2>1, AppendProperties
  <2> QED
    BY <2>1, <2>2 DEF Begins
<1>4. \A q \in DOMAIN trie :
         q \in EXACT!Subtrie(trie, p) <=> Begins(p, q) /\ Len(q) = Len(p) + 1
  BY <1>2, <1>3 DEF EXACT!Subtrie, Named
<1>5. ASSUME NEW q \in DOMAIN trie, Begins(p, q), q # p
      PROVE  \E s \in EXACT!Subtrie(trie, p) : Begins(s, q)
  <2>1. q \in Seq(Digits) /\ Len(q) \in Nat /\ Len(p) \in Nat
    BY DEF Named
  <2>2. Len(p) + 1 <= Len(q) /\ Len(p) + 1 \in 0 .. Len(q)
    <3>1. Len(p) <= Len(q)
      BY <1>5 DEF Begins
    <3>2. Len(p) # Len(q)
      <4>1. Begins(q, q)
        BY <2>1 DEF Begins
      <4> QED
        BY <1>5, <2>1, <4>1, BeginsEqual
    <3> QED
      BY <2>1, <3>1, <3>2
  <2>3. PICK s : s = SubSeq(q, 1, Len(p) + 1)
    OBVIOUS
  <2>4. s \in Seq(Digits) /\ Len(s) = Len(p) + 1 /\ \A i \in 1 .. Len(p) + 1 : s[i] = q[i]
    BY <2>1, <2>2, <2>3
  <2>5. Begins(s, q) /\ Len(s) # 0
    BY <2>1, <2>2, <2>4 DEF Begins
  <2>6. s \in DOMAIN trie
    BY <2>4, <2>5 DEF Closed
  <2>7. Begins(p, s)
    BY <1>5, <2>1, <2>4, <2>5, BeginsBoth
  <2> QED
    BY <1>4, <2>4, <2>5, <2>6, <2>7
<1> QED
  BY <1>1, <1>4, <1>5

\* A key that comes goes into an empty bitmap,
LEMMA FillHolds ==
  ASSUME NEW trie, NEW T, EntriesHold(trie, T), DOMAIN T \subseteq ExactKeys,
         NEW k \in ExactKeys, k \notin DOMAIN T, NEW v,
         NEW p, p = EXACT!Reached(trie, k), ~ trie[p].flag, EXACT!Subtrie(trie, p) = {},
         NEW U, OneMore(U, T, k, v)
  PROVE  EntriesHold([trie EXCEPT ![p] = EXACT!KeyValue(k, v)], U)
<1>1. p \in DOMAIN trie /\ p \in Seq(Digits) /\ Len(p) \in 1 .. Levels /\ Begins(p, HashOf[k])
  BY Walk DEF EntriesHold
<1>2. \A q \in DOMAIN trie : Begins(p, q) => q = p
  BY <1>1, SubtrieIs DEF EntriesHold
<1>3. \A q \in Seq(Digits) :
         Begins(q, p) /\ Len(q) # 0 /\ q # p => q \in DOMAIN trie /\ ~ trie[q].flag
  BY <1>1 DEF EntriesHold, Closed
<1>4. Vacant(trie, p)
  BY <1>2, <1>3 DEF Vacant
<1>5. [trie EXCEPT ![p] = EXACT!KeyValue(k, v)] = EXACT!With(trie, p, EXACT!KeyValue(k, v))
  BY <1>1 DEF EXACT!With
<1>6. EntriesHold(EXACT!With(trie, p, EXACT!KeyValue(k, v)), U)
  BY <1>1, <1>4, AddHolds
<1> QED
  BY <1>5, <1>6

\* or into the array of a bitmap where its digit is missing.
LEMMA ExtendHolds ==
  ASSUME NEW trie, NEW T, EntriesHold(trie, T), DOMAIN T \subseteq ExactKeys,
         NEW k \in ExactKeys, k \notin DOMAIN T, NEW v,
         NEW p, p = EXACT!Reached(trie, k), ~ trie[p].flag, EXACT!Subtrie(trie, p) # {},
         NEW U, OneMore(U, T, k, v)
  PROVE  EntriesHold(EXACT!With(trie, SubSeq(EXACT!DigitsOf(k), 1, Len(p) + 1),
                                EXACT!KeyValue(k, v)), U)
<1>1. /\ p \in DOMAIN trie /\ p \in Seq(Digits) /\ Len(p) \in 1 .. Levels
      /\ Begins(p, HashOf[k]) /\ \A q \in DOMAIN trie : Begins(q, HashOf[k]) => Begins(q, p)
      /\ Levels \in Nat
  BY Walk, TablesAssumption DEF EntriesHold
<1>2. Len(p) + 1 \in 1 .. Levels /\ Len(p) + 1 \in 0 .. Levels
  <2>1. PICK s \in DOMAIN trie : Len(s) = Len(p) + 1
    BY <1>1, SubtrieIs DEF EntriesHold
  <2>2. Len(s) \in 1 .. Levels
    BY <2>1 DEF EntriesHold, Named
  <2> QED
    BY <1>1, <2>1, <2>2
<1>3. PICK n : n = Way(k, Len(p) + 1)
  OBVIOUS
<1>4. n \in Seq(Digits) /\ Len(n) = Len(p) + 1 /\ Begins(n, HashOf[k]) /\ Len(n) \in 1 .. Levels
  BY <1>2, <1>3, WayOf
<1>5. ~ Begins(n, p)
  BY <1>1, <1>4 DEF Begins
<1>6. n \notin DOMAIN trie
  BY <1>1, <1>4, <1>5
<1>7. \A q \in DOMAIN trie : ~ Begins(n, q)
  BY <1>1, <1>4, <1>6 DEF EntriesHold, Closed
<1>8. ASSUME NEW q \in Seq(Digits), Begins(q, n), Len(q) # 0, q # n
      PROVE  q \in DOMAIN trie /\ ~ trie[q].flag
  <2>1. HashOf[k] \in Seq(Digits)
    BY HashTyped
  <2>2. Begins(q, HashOf[k])
    BY <1>4, <1>8, <2>1, BeginsTransitive
  <2>3. Len(q) <= Len(p)
    <3>1. Len(q) <= Len(n) /\ Begins(n, n)
      BY <1>4, <1>8 DEF Begins
    <3>2. Len(q) # Len(n)
      BY <1>4, <1>8, <3>1, BeginsEqual
    <3> QED
      BY <1>1, <1>4, <3>1, <3>2
  <2>4. Begins(q, p)
    BY <1>1, <2>1, <2>2, <2>3, BeginsBoth
  <2> QED
    BY <1>1, <1>8, <2>4 DEF EntriesHold, Closed
<1>9. Vacant(trie, n)
  BY <1>7, <1>8 DEF Vacant
<1>10. EntriesHold(EXACT!With(trie, n, EXACT!KeyValue(k, v)), U)
  BY <1>4, <1>9, AddHolds
<1> QED
  BY <1>3, <1>10 DEF Way

LEMMA SmallMod ==
  ASSUME NEW n \in Nat \ {0}, NEW a \in 0 .. (n - 1)
  PROVE  a % n = a
  OBVIOUS

\* Where a key parts from a resident one whose entry is p
PartingDigit(k, r, p) ==
  CHOOSE i \in (Len(p) + 1) .. Len(EXACT!DigitsOf(k)) :
    /\ EXACT!ResidentDigit(r, i) # EXACT!DigitsOf(k)[i]
    /\ \A j \in (Len(p) + 1) .. (i - 1) :
         ~ (EXACT!ResidentDigit(r, j) # EXACT!DigitsOf(k)[j])

\* It is within one hash if the hashes are different.
LEMMA PartAt ==
  ASSUME NEW k \in ExactKeys, NEW r \in ExactKeys, HashOf[r] # HashOf[k],
         NEW p \in Seq(Digits), Begins(p, HashOf[k]), Begins(p, HashOf[r]),
         NEW depth, depth = PartingDigit(k, r, p)
  PROVE  /\ depth \in (Len(p) + 1) .. Levels
         /\ HashOf[r][depth] # HashOf[k][depth]
         /\ \A i \in 1 .. (depth - 1) : HashOf[r][i] = HashOf[k][i]
         /\ EXACT!ResidentDigit(r, depth) = HashOf[r][depth]
<1> DEFINE parts(i) == EXACT!ResidentDigit(r, i) # EXACT!DigitsOf(k)[i]
           S == { i \in (Len(p) + 1) .. Levels : parts(i) }
<1>1. /\ HashOf[k] \in Seq(Digits) /\ Len(HashOf[k]) = Levels /\ Levels \in Nat \ {0}
      /\ HashOf[r] \in Seq(Digits) /\ Len(HashOf[r]) = Levels /\ Len(p) \in Nat
      /\ Len(p) <= Levels
      /\ Len(EXACT!DigitsOf(k)) = Levels + Levels + Levels
      /\ \A i \in 1 .. Levels : EXACT!DigitsOf(k)[i] = HashOf[k][i]
  BY HashTyped, DigitsOfKey DEF Begins
<1>2. \A i \in 1 .. Levels : EXACT!ResidentDigit(r, i) = HashOf[r][i]
  <2> SUFFICES ASSUME NEW i \in 1 .. Levels
               PROVE  EXACT!ResidentDigit(r, i) = HashOf[r][i]
    OBVIOUS
  <2>1. i - 1 \in 0 .. (Levels - 1)
    BY <1>1
  <2>2. (i - 1) % Levels = i - 1
    BY <1>1, <2>1, SmallMod
  <2>3. ((i - 1) % Levels) + 1 = i
    BY <1>1, <2>2
  <2> QED
    BY <2>3 DEF EXACT!ResidentDigit, HashDigits
<1>3. \A i \in 1 .. Levels : parts(i) <=> HashOf[r][i] # HashOf[k][i]
  BY <1>1, <1>2
<1>4. \A i \in 1 .. Len(p) : HashOf[r][i] = HashOf[k][i]
  BY DEF Begins
<1>5. S # {}
  <2>1. PICK i \in 1 .. Levels : HashOf[r][i] # HashOf[k][i]
    BY <1>1, SeqEqual
  <2>2. i \in (Len(p) + 1) .. Levels
    BY <1>1, <1>4, <2>1
  <2> QED
    BY <1>3, <2>1, <2>2
<1>6. S \in SUBSET Nat
  BY <1>1
<1>7. PICK m \in S : \A i \in S : m <= i
  <2> HIDE DEF S
  <2> QED
    BY <1>5, <1>6, LeastMember
<1>8. /\ depth \in (Len(p) + 1) .. Len(EXACT!DigitsOf(k)) /\ parts(depth)
      /\ \A j \in (Len(p) + 1) .. (depth - 1) : ~ parts(j)
  <2>1. m \in (Len(p) + 1) .. Len(EXACT!DigitsOf(k)) /\ parts(m)
    BY <1>1, <1>7
  <2>2. \A j \in (Len(p) + 1) .. (m - 1) : ~ parts(j)
    BY <1>1, <1>7
  <2> QED
    BY <2>1, <2>2 DEF PartingDigit
<1>9. depth <= m /\ depth \in Nat
  <2>1. m \in (Len(p) + 1) .. Levels /\ parts(m)
    BY <1>7
  <2> HIDE DEF parts, S
  <2>2. depth \in Nat /\ depth >= Len(p) + 1 /\ m \in Nat /\ m >= Len(p) + 1
    BY <1>1, <1>8, <2>1
  <2>3. ASSUME m < depth PROVE FALSE
    <3>1. m \in (Len(p) + 1) .. (depth - 1)
      BY <1>1, <2>2, <2>3
    <3> QED
      BY <1>8, <2>1, <3>1
  <2> QED
    BY <2>2, <2>3
<1>10. depth \in (Len(p) + 1) .. Levels
  BY <1>1, <1>7, <1>8, <1>9
<1>11. \A i \in 1 .. (depth - 1) : HashOf[r][i] = HashOf[k][i]
  <2> SUFFICES ASSUME NEW i \in 1 .. (depth - 1) PROVE HashOf[r][i] = HashOf[k][i]
    OBVIOUS
  <2>1. i \in 1 .. Len(p) \/ i \in (Len(p) + 1) .. (depth - 1)
    BY <1>1, <1>10
  <2>2. i \in 1 .. Levels
    BY <1>1, <1>10
  <2> QED
    BY <1>3, <1>4, <1>8, <2>1, <2>2
<1>12. depth \in 1 .. Levels
  BY <1>1, <1>10
<1>13. HashOf[r][depth] # HashOf[k][depth]
  <2> HIDE DEF parts
  <2> QED
    BY <1>3, <1>8, <1>12
<1>14. EXACT!ResidentDigit(r, depth) = HashOf[r][depth]
  BY <1>2, <1>12
<1> HIDE DEF S, parts
<1> QED
  BY <1>10, <1>11, <1>13, <1>14

\* A key that meets another is parted from it.
LEMMA SplitHolds ==
  ASSUME NEW trie, NEW T, EntriesHold(trie, T), DOMAIN T \subseteq ExactKeys,
         NEW k \in ExactKeys, k \notin DOMAIN T, EXACT!Kept(k) = k, NEW v,
         \A r \in DOMAIN T : HashOf[r] # HashOf[k],
         NEW p, p = EXACT!Reached(trie, k), trie[p].flag,
         NEW U, OneMore(U, T, k, v)
  PROVE  EntriesHold(EXACT!Split(trie, p, k, v), U)
<1>1. /\ p \in DOMAIN trie /\ p \in Seq(Digits) /\ Len(p) \in 1 .. Levels
      /\ Begins(p, HashOf[k]) /\ Levels \in Nat
  BY Walk, TablesAssumption DEF EntriesHold
<1>2. PICK r : r = trie[p].key
  OBVIOUS
<1>3. /\ r \in DOMAIN T /\ r \in ExactKeys /\ HashOf[r] # HashOf[k] /\ Begins(p, HashOf[r])
      /\ HashOf[r] \in Seq(Digits) /\ HashOf[k] \in Seq(Digits)
  BY <1>1, <1>2, HashTyped DEF EntriesHold, Kin
<1>4. PICK depth : depth = PartingDigit(k, r, p)
  OBVIOUS
<1>5. /\ depth \in (Len(p) + 1) .. Levels
      /\ HashOf[r][depth] # HashOf[k][depth]
      /\ \A i \in 1 .. (depth - 1) : HashOf[r][i] = HashOf[k][i]
      /\ EXACT!ResidentDigit(r, depth) = HashOf[r][depth]
  BY <1>1, <1>3, <1>4, PartAt
<1>6. /\ depth \in 0 .. Levels /\ depth - 1 \in 0 .. Levels /\ depth \in 1 .. Levels
      /\ Len(p) < depth /\ \A i \in Len(p) .. (depth - 1) : i \in 0 .. Levels
  BY <1>1, <1>5
<1>7. PICK n, m : n = Way(r, depth) /\ m = Way(k, depth)
  OBVIOUS
<1>8. /\ n \in Seq(Digits) /\ Len(n) = depth /\ Begins(n, HashOf[r])
      /\ m \in Seq(Digits) /\ Len(m) = depth /\ Begins(m, HashOf[k])
      /\ \A i \in 1 .. depth : n[i] = HashOf[r][i] /\ m[i] = HashOf[k][i]
  BY <1>3, <1>6, <1>7, WayOf
<1>9. n # m
  BY <1>5, <1>6, <1>8
<1>10. Append(Way(k, depth - 1), EXACT!ResidentDigit(r, depth)) = n
  <2>1. PICK w : w = Way(k, depth - 1)
    OBVIOUS
  <2>2. w \in Seq(Digits) /\ Len(w) = depth - 1 /\ \A i \in 1 .. (depth - 1) : w[i] = HashOf[k][i]
    BY <1>6, <2>1, WayOf
  <2>3. PICK d \in Digits : d = HashOf[r][depth]
    <3>1. depth \in 1 .. Len(HashOf[r])
      BY <1>3, <1>6, HashTyped
    <3> QED
      BY <1>3, <3>1, ElementOfSeq
  <2>4. PICK a : a = Append(w, d)
    OBVIOUS
  <2>5. /\ a \in Seq(Digits) /\ Len(a) = depth - 1 + 1 /\ a[depth - 1 + 1] = d
        /\ \A i \in 1 .. (depth - 1) : a[i] = w[i]
    BY <2>2, <2>4, AppendProperties
  <2>6. \A i \in 1 .. depth : i \in 1 .. (depth - 1) \/ i = depth
    BY <1>6
  <2>7. depth - 1 + 1 = depth
    BY <1>6
  <2>8. \A i \in 1 .. depth : a[i] = n[i]
    BY <1>5, <1>8, <2>2, <2>3, <2>5, <2>6, <2>7
  <2>9. a = n
    BY <1>8, <2>5, <2>7, <2>8, SeqEqual
  <2> QED
    BY <1>5, <2>1, <2>3, <2>4, <2>9
<1> DEFINE bitmaps == { SubSeq(EXACT!DigitsOf(k), 1, i) : i \in Len(p) .. (depth - 1) }
<1>11. \A q \in bitmaps : q \in Seq(Digits) /\ Begins(q, HashOf[k])
                          /\ Len(q) \in Len(p) .. (depth - 1)
  <2>1. \A i \in Len(p) .. (depth - 1) :
           Way(k, i) \in Seq(Digits) /\ Begins(Way(k, i), HashOf[k]) /\ Len(Way(k, i)) = i
    BY <1>6, WayOf
  <2> QED
    BY <2>1 DEF Way
<1>12. ASSUME NEW q \in Seq(Digits), Begins(q, HashOf[k]), Len(q) \in Len(p) .. (depth - 1)
       PROVE  q \in bitmaps
  <2>1. q = Way(k, Len(q))
    BY <1>6, <1>12, WayOf
  <2> QED
    BY <1>12, <2>1 DEF Way
<1> HIDE DEF bitmaps
<1>13. \A q \in Seq(Digits) : Len(q) < depth => (Begins(q, HashOf[k]) <=> Begins(q, n))
  <2> SUFFICES ASSUME NEW q \in Seq(Digits), Len(q) < depth
               PROVE  Begins(q, HashOf[k]) <=> Begins(q, n)
    OBVIOUS
  <2>1. Len(HashOf[k]) = Levels /\ Len(q) \in Nat
    BY HashTyped
  <2>2. \A i \in 1 .. Len(q) : i \in 1 .. (depth - 1) /\ i \in 1 .. depth
    BY <1>6, <2>1
  <2>3. \A i \in 1 .. Len(q) : n[i] = HashOf[k][i]
    BY <1>5, <1>8, <2>2
  <2>4. Len(q) <= Len(n) /\ Len(q) <= Len(HashOf[k])
    BY <1>6, <1>8, <2>1
  <2> QED
    BY <2>3, <2>4 DEF Begins
<1>14. ASSUME NEW q \in Seq(Digits)
       PROVE  q \in bitmaps <=> Begins(p, q) /\ Begins(q, n) /\ q # n
  <2>1. Len(q) \in Nat
    OBVIOUS
  <2>2. ASSUME q \in bitmaps PROVE Begins(p, q) /\ Begins(q, n) /\ q # n
    <3>1. Begins(q, HashOf[k]) /\ Len(p) <= Len(q) /\ Len(q) < depth
      BY <1>1, <1>6, <1>11, <2>2
    <3> QED
      BY <1>1, <1>3, <1>8, <1>13, <3>1, BeginsBoth
  <2>3. ASSUME Begins(p, q), Begins(q, n), q # n PROVE q \in bitmaps
    <3>1. Len(p) <= Len(q) /\ Len(q) <= Len(n) /\ Begins(n, n)
      BY <1>8, <2>3 DEF Begins
    <3>2. Len(q) # Len(n)
      BY <1>8, <2>3, <3>1, BeginsEqual
    <3>3. Len(q) < depth /\ Len(q) \in Len(p) .. (depth - 1)
      BY <1>1, <1>6, <1>8, <2>1, <3>1, <3>2
    <3> QED
      BY <1>12, <1>13, <2>3, <3>3
  <2> QED
    BY <2>2, <2>3
<1> DEFINE added == EXACT!With(trie, m, EXACT!KeyValue(k, v))
           moved == EXACT!With(added, n, trie[p])
           after == EXACT!WithBitmaps(moved, bitmaps)
           down  == [q \in DOMAIN trie \union bitmaps \union {n} |->
                       IF q \in bitmaps THEN EXACT!Bitmap
                       ELSE IF q = n THEN trie[p] ELSE trie[q]]
<1>15. EXACT!Split(trie, p, k, v) = after
  <2>1. depth = PartingDigit(k, trie[p].key, p)
    BY <1>2, <1>4
  <2>2. /\ m = SubSeq(EXACT!DigitsOf(k), 1, depth)
        /\ n = Append(SubSeq(EXACT!DigitsOf(k), 1, depth - 1),
                      EXACT!ResidentDigit(trie[p].key, depth))
    BY <1>2, <1>7, <1>10 DEF Way
  <2> QED
    BY <2>1, <2>2 DEF EXACT!Split, PartingDigit, bitmaps
<1>16. n \notin bitmaps /\ m \notin bitmaps
  BY <1>1, <1>6, <1>8, <1>11
<1>17. EntriesHold(down, T)
  <2>1. DOMAIN down = DOMAIN trie \union bitmaps \union {n} /\ down[n] = trie[p]
    BY <1>16
  <2>2. \A q \in bitmaps : ~ down[q].flag
    BY DEF EXACT!Bitmap
  <2>3. \A q \in DOMAIN trie \ {p} : q \notin bitmaps /\ q # n => down[q] = trie[q]
    OBVIOUS
  <2>4. Len(n) \in 1 .. Levels /\ Len(p) < Len(n) /\ Begins(n, HashOf[trie[p].key])
    BY <1>2, <1>6, <1>8
  <2>5. bitmaps \subseteq Seq(Digits)
    BY <1>11
  <2> HIDE DEF down
  <2>6. Lowered(down, trie, p, n, bitmaps)
    BY <1>14, <2>1, <2>2, <2>3, <2>5 DEF Lowered
  <2> QED
    BY <1>1, <1>8, <2>4, <2>6, MoveDownHolds
<1>18. Vacant(down, m)
  <2>1. ASSUME NEW q \in Seq(Digits), Begins(q, m), Len(q) # 0, q # m
        PROVE  q \in DOMAIN down /\ ~ down[q].flag
    <3>1. Begins(q, HashOf[k]) /\ Len(q) \in Nat
      BY <1>3, <1>8, <2>1, BeginsTransitive
    <3>2. Len(q) < depth
      <4>1. Len(q) <= Len(m) /\ Begins(m, m)
        BY <1>8, <2>1 DEF Begins
      <4>2. Len(q) # Len(m)
        BY <1>8, <2>1, <4>1, BeginsEqual
      <4> QED
        BY <1>6, <1>8, <3>1, <4>1, <4>2
    <3>3. CASE Len(p) <= Len(q)
      <4>1. Len(q) \in Len(p) .. (depth - 1)
        BY <1>1, <1>6, <3>1, <3>2, <3>3
      <4>2. q \in bitmaps
        BY <1>12, <3>1, <4>1
      <4> QED
        BY <4>2 DEF EXACT!Bitmap
    <3>4. CASE Len(q) < Len(p)
      <4>1. Begins(q, p) /\ q # p
        BY <1>1, <1>3, <3>1, <3>4, BeginsBoth
      <4>2. q \in DOMAIN trie /\ ~ trie[q].flag
        BY <1>1, <2>1, <4>1 DEF EntriesHold, Closed
      <4>3. q \notin bitmaps /\ q # n
        BY <1>1, <1>6, <1>8, <1>11, <3>4
      <4> QED
        BY <4>2, <4>3
    <3> QED
      BY <1>1, <3>1, <3>3, <3>4
  <2>2. ASSUME NEW q \in DOMAIN down, Begins(m, q) PROVE FALSE
    <3>1. CASE q \in bitmaps
      BY <1>1, <1>6, <1>8, <1>11, <2>2, <3>1 DEF Begins
    <3>2. CASE q = n
      <4>1. Begins(n, n)
        BY <1>8 DEF Begins
      <4> QED
        BY <1>8, <1>9, <2>2, <3>2, <4>1, BeginsEqual
    <3>3. CASE q \in DOMAIN trie
      <4>1. q \in Seq(Digits)
        BY <3>3 DEF EntriesHold, Named
      <4>2. Begins(p, m)
        BY <1>1, <1>3, <1>6, <1>8, BeginsBoth
      <4>3. Begins(p, q)
        BY <1>1, <1>8, <2>2, <4>1, <4>2, BeginsTransitive
      <4>4. q = p
        BY <1>1, <3>3, <4>3, NoneBelow
      <4> QED
        BY <1>1, <1>6, <1>8, <2>2, <4>4 DEF Begins
    <3> QED
      BY <2>2, <3>1, <3>2, <3>3
  <2> HIDE DEF down
  <2> QED
    BY <2>1, <2>2 DEF Vacant
<1>19. after = EXACT!With(down, m, EXACT!KeyValue(k, v))
  BY <1>9, <1>16 DEF EXACT!With, EXACT!WithBitmaps
<1>20. EntriesHold(EXACT!With(down, m, EXACT!KeyValue(k, v)), U)
  <2> HIDE DEF down
  <2> QED
    BY <1>6, <1>8, <1>17, <1>18, AddHolds
<1> QED
  <2> HIDE DEF down, after
  <2> QED
    BY <1>15, <1>19, <1>20

\* A key that is not there is added.
LEMMA ExactInsertHolds ==
  ASSUME NEW trie, NEW T, EntriesHold(trie, T), DOMAIN T \subseteq ExactKeys,
         NEW k \in ExactKeys, k \notin DOMAIN T, EXACT!Kept(k) = k, NEW v,
         \A r \in DOMAIN T : HashOf[r] # HashOf[k],
         NEW U, OneMore(U, T, k, v)
  PROVE  EntriesHold(EXACT!insert(trie, k, v), U)
<1>1. PICK p : p = EXACT!Reached(trie, k)
  OBVIOUS
<1>2. ~ (trie[p].flag /\ trie[p].key = k)
  BY <1>1, WalkEnds
<1>3. CASE trie[p].flag
  <2>1. EXACT!insert(trie, k, v) = EXACT!Split(trie, p, k, v)
    BY <1>1, <1>2, <1>3 DEF EXACT!insert
  <2> QED
    BY <1>1, <1>3, <2>1, SplitHolds
<1>4. CASE ~ trie[p].flag /\ EXACT!Subtrie(trie, p) = {}
  <2>1. EXACT!insert(trie, k, v) = [trie EXCEPT ![p] = EXACT!KeyValue(k, v)]
    BY <1>1, <1>4 DEF EXACT!insert
  <2>2. EntriesHold([trie EXCEPT ![p] = EXACT!KeyValue(k, v)], U)
    BY <1>1, <1>4, FillHolds
  <2> QED
    BY <2>1, <2>2
<1>5. CASE ~ trie[p].flag /\ EXACT!Subtrie(trie, p) # {}
  <2>1. EXACT!insert(trie, k, v) = EXACT!With(trie, SubSeq(EXACT!DigitsOf(k), 1, Len(p) + 1),
                                               EXACT!KeyValue(k, v))
    BY <1>1, <1>5 DEF EXACT!insert
  <2> QED
    BY <1>1, <1>5, <2>1, ExtendHolds
<1> QED
  BY <1>3, <1>4, <1>5

\* A key that is there is removed.
LEMMA ExactRemoveHolds ==
  ASSUME NEW trie, NEW T, EntriesHold(trie, T), DOMAIN T \subseteq ExactKeys,
         NEW k \in DOMAIN T, NEW U, OneLess(U, T, k)
  PROVE  EntriesHold(EXACT!remove(trie, k), U)
<1>1. PICK p : p = EXACT!Reached(trie, k)
  OBVIOUS
<1>2. /\ p \in DOMAIN trie /\ p \in Seq(Digits) /\ Len(p) \in 1 .. Levels /\ Levels \in Nat
      /\ trie[p].flag /\ trie[p].key = k
  BY <1>1, Walk, WalkEnds, TablesAssumption DEF EntriesHold
<1>3. CASE Len(p) = 1
  <2>1. PICK after : after = [trie EXCEPT ![p] = EXACT!Bitmap]
    OBVIOUS
  <2>2. EXACT!remove(trie, k) = after
    BY <1>1, <1>2, <1>3, <2>1 DEF EXACT!remove
  <2>3. /\ DOMAIN after = DOMAIN trie /\ ~ after[p].flag
        /\ \A q \in DOMAIN trie \ {p} : after[q] = trie[q]
    BY <1>2, <2>1 DEF EXACT!Bitmap
  <2> QED
    BY <1>2, <2>2, <2>3, ClearHolds
<1>4. CASE Len(p) # 1
  <2>1. PICK parent : parent = Front(p)
    OBVIOUS
  <2>2. parent \in Seq(Digits) /\ Len(parent) = Len(p) - 1 /\ Begins(parent, p)
    <3>1. Len(p) - 1 \in 0 .. Len(p) /\ parent = SubSeq(p, 1, Len(p) - 1)
      BY <1>2, <2>1 DEF Front
    <3>2. PICK n \in 0 .. Len(p) : n = Len(p) - 1
      BY <3>1
    <3>3. parent \in Seq(Digits) /\ Len(parent) = n /\ \A i \in 1 .. n : parent[i] = p[i]
      BY <1>2, <3>1, <3>2
    <3> QED
      BY <1>2, <3>2, <3>3 DEF Begins
  <2>3. PICK less : less = EXACT!Without(trie, {p})
    OBVIOUS
  <2>4. DOMAIN less = DOMAIN trie \ {p} /\ \A q \in DOMAIN trie \ {p} : less[q] = trie[q]
    BY <2>3 DEF EXACT!Without
  <2>5. EntriesHold(less, U)
    BY <1>2, <1>4, <2>4, DropHolds
  <2> DEFINE others == EXACT!Subtrie(trie, EXACT!Front(EXACT!Reached(trie, k)))
                         \ {EXACT!Reached(trie, k)}
             heir == CHOOSE o \in others : TRUE
  <2>a. EXACT!remove(trie, k) =
          IF \E o \in others : others = {o} /\ trie[o].flag
          THEN EXACT!With(EXACT!Without(trie, {p, heir}), parent, trie[heir])
          ELSE EXACT!Without(trie, {p})
    BY <1>1, <1>2, <1>4, <2>1, ExactPrefixes DEF EXACT!remove
  <2>b. others = EXACT!Subtrie(trie, parent) \ {p}
    BY <1>1, <2>1, ExactPrefixes
  <2> HIDE DEF heir
  <2>6. CASE \E o \in others : others = {o} /\ trie[o].flag
    <3>1. PICK o : others = {o} /\ trie[o].flag
      BY <2>6
    <3>2. heir = o
      BY <3>1 DEF heir
    <3>3. PICK after : after = EXACT!With(EXACT!Without(trie, {p, o}), parent, trie[o])
      OBVIOUS
    <3>4. EXACT!remove(trie, k) = after
      BY <2>6, <2>a, <3>2, <3>3
    <3> HIDE DEF others
    <3>5. Front(p) = parent /\ EXACT!Subtrie(trie, parent) \ {p} = {o}
      BY <2>1, <2>b, <3>1
    <3>6. o \in DOMAIN less /\ o # p /\ Begins(parent, o) /\ Len(o) = Len(parent) + 1
          /\ less[o].flag /\ Len(parent) \in Nat /\ Len(parent) # 0
      BY <1>2, <1>4, <2>2, <2>4, <3>1, <3>5, SubtrieIs DEF EntriesHold
    <3>7. \A q \in DOMAIN less : Begins(parent, q) => q \in {parent, o}
      <4> SUFFICES ASSUME NEW q \in DOMAIN trie, Begins(parent, q), q # p, q # parent
                   PROVE  q = o
        BY <2>4
      <4>1. PICK s \in EXACT!Subtrie(trie, parent) : Begins(s, q) /\ s \in DOMAIN trie
        BY <2>2, SubtrieIs DEF EntriesHold
      <4>2. s \in {p, o}
        BY <3>5
      <4> QED
        BY <1>2, <3>1, <4>1, <4>2, NoneBelow
    <3>8. parent \in DOMAIN trie /\ parent # p
      BY <1>2, <2>2, <3>6 DEF EntriesHold, Closed
    <3>9. /\ DOMAIN after = DOMAIN less \ {o} /\ after[parent] = less[o]
          /\ \A q \in DOMAIN less \ {o, parent} : after[q] = less[q]
      <4>1. parent # o
        BY <3>6
      <4> QED
        BY <2>4, <3>3, <3>6, <3>8, <4>1 DEF EXACT!With, EXACT!Without
    <3>10. DOMAIN U \subseteq ExactKeys /\ Len(parent) < Len(o)
      BY <3>6 DEF OneLess
    <3>11. Lifted(after, less, o, parent)
      BY <3>7, <3>9 DEF Lifted
    <3> QED
      BY <2>2, <2>5, <3>4, <3>6, <3>10, <3>11, PullUpHolds
  <2>7. CASE ~ \E o \in others : others = {o} /\ trie[o].flag
    <3>1. EXACT!remove(trie, k) = less
      BY <2>3, <2>7, <2>a
    <3> QED
      BY <2>5, <3>1
  <2> QED
    BY <2>6, <2>7
<1> QED
  BY <1>3, <1>4

LEMMA NewTrieHolds ==
  ASSUME NEW T, DOMAIN T = {}
  PROVE  EntriesHold(EXACT!newTrie, T)
<1>1. PICK trie : trie = EXACT!newTrie
  OBVIOUS
<1>2. DOMAIN trie = { <<d>> : d \in Digits } /\ \A p \in DOMAIN trie : ~ trie[p].flag
  BY <1>1 DEF EXACT!newTrie, EXACT!Bitmap
<1>3. \A p \in DOMAIN trie : p \in Seq(Digits) /\ Len(p) = 1
  <2>1. \A d \in Digits : <<d>> \in Seq(Digits) /\ Len(<<d>>) = 1
    OBVIOUS
  <2> QED
    BY <1>2, <2>1
<1>4. \A p \in Seq(Digits) : Len(p) = 1 => p \in DOMAIN trie
  <2> SUFFICES ASSUME NEW p \in Seq(Digits), Len(p) = 1 PROVE p \in DOMAIN trie
    OBVIOUS
  <2>1. PICK d \in Digits : d = p[1]
    BY ElementOfSeq
  <2>2. <<d>> \in Seq(Digits) /\ Len(<<d>>) = 1 /\ <<d>>[1] = d
    OBVIOUS
  <2>3. p = <<d>>
    BY <2>1, <2>2, SeqEqual
  <2> QED
    BY <1>2, <2>3
<1>5. ASSUME NEW p \in Seq(Digits), NEW q \in DOMAIN trie, Begins(p, q), Len(p) # 0
      PROVE  p = q
  <2>1. q \in Seq(Digits) /\ Len(q) = 1 /\ Begins(q, q) /\ Len(p) = 1
    BY <1>3, <1>5 DEF Begins
  <2> QED
    BY <1>5, <2>1, BeginsEqual
<1>6. Levels \in Nat \ {0}
  BY TablesAssumption
<1>7. Named(trie) /\ Rooted(trie)
  BY <1>3, <1>4, <1>6 DEF Named, Rooted
<1>8. Closed(trie)
  BY <1>5 DEF Closed
<1>9. Kin(trie, T) /\ Found(trie, T)
  BY <1>2 DEF Kin, Found
<1> QED
  BY <1>1, <1>7, <1>8, <1>9 DEF EntriesHold

LEMMA EntriesSome ==
  ASSUME NEW trie, NEW T, EntriesHold(trie, T), NEW k \in ExactKeys
  PROVE  trie # None
<1>1. EXACT!Reached(trie, k) \in DOMAIN trie
  BY Walk DEF EntriesHold
<1>2. DOMAIN None = {}
  BY DEF None
<1> QED
  BY <1>1, <1>2

\* Entries are inserted and removed one after the other.
LEMMA ExactAddOne ==
  ASSUME NEW trie, NEW E, NEW entries \in Seq(E), Len(entries) = 1
  PROVE  EXACT!update(trie, entries, "Add") = EXACT!insert(trie, entries[1][1], entries[1][2])
<1> DEFINE Eq(f) == f = [i \in 0 .. 1 |-> IF i = 0 THEN trie
                                         ELSE EXACT!insert(f[i - 1], entries[i][1], entries[i][2])]
           after == CHOOSE f : Eq(f)
           known == [i \in 0 .. 1 |-> IF i = 0 THEN trie
                                     ELSE EXACT!insert(trie, entries[1][1], entries[1][2])]
<1>1. EXACT!update(trie, entries, "Add") = after[1]
  BY DEF EXACT!update, EXACT!insertAll
<1>2. Eq(known)
  OBVIOUS
<1>3. Eq(after)
  <2> HIDE DEF known, Eq
  <2> QED
    BY <1>2
<1>4. after[0] = trie /\ after[1] = EXACT!insert(after[0], entries[1][1], entries[1][2])
  <2> HIDE DEF after
  <2> QED
    BY <1>3
<1> QED
  BY <1>1, <1>4

LEMMA ExactAddTwo ==
  ASSUME NEW trie, NEW E, NEW entries \in Seq(E), Len(entries) = 2
  PROVE  EXACT!update(trie, entries, "Add")
           = EXACT!insert(EXACT!insert(trie, entries[1][1], entries[1][2]),
                          entries[2][1], entries[2][2])
<1> DEFINE first == EXACT!insert(trie, entries[1][1], entries[1][2])
           Eq(f) == f = [i \in 0 .. 2 |-> IF i = 0 THEN trie
                                         ELSE EXACT!insert(f[i - 1], entries[i][1], entries[i][2])]
           after == CHOOSE f : Eq(f)
           known == [i \in 0 .. 2 |-> IF i = 0 THEN trie ELSE IF i = 1 THEN first
                                     ELSE EXACT!insert(first, entries[2][1], entries[2][2])]
<1>1. EXACT!update(trie, entries, "Add") = after[2]
  BY DEF EXACT!update, EXACT!insertAll
<1>2. Eq(known)
  <2>1. \A i \in 0 .. 2 : known[i] = IF i = 0 THEN trie
                                    ELSE EXACT!insert(known[i - 1], entries[i][1], entries[i][2])
    <3>1. known[0] = trie /\ known[1] = first
      OBVIOUS
    <3>2. known[2] = EXACT!insert(known[1], entries[2][1], entries[2][2])
      BY <3>1
    <3>3. known[1] = EXACT!insert(known[0], entries[1][1], entries[1][2])
      BY <3>1
    <3>4. \A i \in 0 .. 2 : i = 0 \/ (i = 1 /\ i - 1 = 0) \/ (i = 2 /\ i - 1 = 1)
      OBVIOUS
    <3> HIDE DEF known, first
    <3> QED
      BY <3>1, <3>2, <3>3, <3>4
  <2>2. known = [i \in 0 .. 2 |-> known[i]]
    OBVIOUS
  <2> HIDE DEF known
  <2> QED
    BY <2>1, <2>2
<1>3. Eq(after)
  <2> HIDE DEF known, Eq
  <2> QED
    BY <1>2
<1>4. /\ after[0] = trie /\ after[1] = EXACT!insert(after[0], entries[1][1], entries[1][2])
      /\ after[2] = EXACT!insert(after[1], entries[2][1], entries[2][2])
  <2> HIDE DEF after
  <2> QED
    BY <1>3
<1> QED
  BY <1>1, <1>4

LEMMA ExactRemoveOne ==
  ASSUME NEW trie, NEW E, NEW entries \in Seq(E), Len(entries) = 1
  PROVE  EXACT!update(trie, entries, "Remove") = EXACT!remove(trie, entries[1][1])
<1> DEFINE Eq(f) == f = [i \in 0 .. 1 |-> IF i = 0 THEN trie
                                         ELSE EXACT!remove(f[i - 1], entries[i][1])]
           after == CHOOSE f : Eq(f)
           known == [i \in 0 .. 1 |-> IF i = 0 THEN trie ELSE EXACT!remove(trie, entries[1][1])]
<1>1. EXACT!update(trie, entries, "Remove") = after[1]
  BY DEF EXACT!update, EXACT!removeAll
<1>2. Eq(known)
  OBVIOUS
<1>3. Eq(after)
  <2> HIDE DEF known, Eq
  <2> QED
    BY <1>2
<1>4. after[0] = trie /\ after[1] = EXACT!remove(after[0], entries[1][1])
  <2> HIDE DEF after
  <2> QED
    BY <1>3
<1> QED
  BY <1>1, <1>4

-----------------------------------------------------------------------------
(* The table and its hash trie                                             *)

AllKept == \A k \in used : WellKept(k)

\* From the first entry on the trie holds the keys of the table, as long as
\* only keys that it can tell apart were used.
ExactInv ==
  kind = "exact" =>
    /\ Installed \subseteq used /\ used \subseteq ExactKeys
    /\ AllKept => /\ structure = None => Installed = {}
                  /\ structure # None => EntriesHold(structure, Answers)

LEMMA KeptApart ==
  ASSUME AllKept, NEW k \in used
  PROVE  EXACT!Kept(k) = k /\ \A l \in used \ {k} : HashOf[l] # HashOf[k]
  BY DEF AllKept, WellKept

\* The trie the entries are added to
LEMMA TrieBefore ==
  ASSUME ExactInv, kind = "exact", AllKept
  PROVE  EntriesHold(IF structure = None THEN EXACT!newTrie ELSE structure, Answers)
<1>1. CASE structure = None
  <2>1. DOMAIN Answers = {}
    BY <1>1 DEF ExactInv, Answers
  <2> QED
    BY <1>1, <2>1, NewTrieHolds
<1>2. CASE structure # None
  BY <1>2 DEF ExactInv
<1> QED
  BY <1>1, <1>2

LEMMA ExactStoreOne ==
  ASSUME ExactInv, kind = "exact", NEW k \in Keys \ Installed,
         NEW handles, store_entry(<<k>>, handles)
  PROVE  ExactInv'
<1>1. PICK v : v = Value(handles[1])
  OBVIOUS
<1>2. PICK trie : trie = IF structure = None THEN EXACT!newTrie ELSE structure
  OBVIOUS
<1>3. k \in ExactKeys /\ Installed \subseteq used /\ used \subseteq ExactKeys
  BY DEF Keys, ExactInv
<1>4. /\ table' = [x \in {k} \union Installed |-> IF x = k THEN handles[1] ELSE table[x]]
      /\ used' = used \union {k} /\ kind' = kind
  <2>1. table' = WithOne(k, handles) /\ used' = used \union {k} /\ kind' = kind
    BY OneStored
  <2> QED
    BY <2>1 DEF WithOne
<1>5. Installed' = Installed \union {k}
  BY <1>4 DEF Installed
<1>6. structure' = EXACT!insert(trie, k, v)
  <2>0. PICK E : \E entries \in Seq(E) :
          /\ Len(entries) = 1 /\ entries[1][1] = k /\ entries[1][2] = v
          /\ structure' = Updated(entries, "Add")
    BY <1>1, OneStored DEF SentOne
  <2>1. PICK entries \in Seq(E) :
          /\ Len(entries) = 1 /\ entries[1][1] = k /\ entries[1][2] = v
          /\ structure' = Updated(entries, "Add")
    BY <2>0
  <2>2. structure' = EXACT!update(trie, entries, "Add")
    BY <1>2, <2>1 DEF Updated
  <2> QED
    BY <2>1, <2>2, ExactAddOne
<1>7. ASSUME AllKept' PROVE EntriesHold(structure', Answers')
  <2>1. AllKept
    BY <1>4, <1>7 DEF AllKept, WellKept
  <2>2. EXACT!Kept(k) = k /\ \A l \in Installed : HashOf[l] # HashOf[k]
    BY <1>3, <1>4, <1>7 DEF AllKept, WellKept
  <2>3. EntriesHold(trie, Answers)
    BY <1>2, <2>1, TrieBefore
  <2>4. DOMAIN Answers = Installed /\ DOMAIN Answers \subseteq ExactKeys /\ k \notin DOMAIN Answers
    BY <1>3 DEF Answers
  <2>5. PICK U : U = Answers'
    OBVIOUS
  <2>6. OneMore(U, Answers, k, v)
    BY <1>1, <1>4, <1>5, <2>4, <2>5 DEF OneMore, Answers, Installed
  <2>7. EntriesHold(EXACT!insert(trie, k, v), U)
    BY <1>3, <2>2, <2>3, <2>4, <2>6, ExactInsertHolds
  <2> QED
    BY <1>6, <2>5, <2>7
<1>8. AllKept' => structure' # None
  BY <1>3, <1>7, EntriesSome
<1> QED
  BY <1>3, <1>4, <1>5, <1>7, <1>8 DEF ExactInv

LEMMA ExactStoreTwo ==
  ASSUME ExactInv, kind = "exact", NEW k \in Keys \ Installed, NEW l \in Keys \ Installed, k # l,
         NEW handles, store_entry(<<k, l>>, handles)
  PROVE  ExactInv'
<1>1. PICK v, w : v = Value(handles[1]) /\ w = Value(handles[2])
  OBVIOUS
<1>2. PICK trie : trie = IF structure = None THEN EXACT!newTrie ELSE structure
  OBVIOUS
<1>3. {k, l} \subseteq ExactKeys /\ Installed \subseteq used /\ used \subseteq ExactKeys
  BY DEF Keys, ExactInv
<1>4. /\ table' = [x \in {k, l} \union Installed |->
                     IF x = k THEN handles[1] ELSE IF x = l THEN handles[2] ELSE table[x]]
      /\ used' = used \union {k, l} /\ kind' = kind
  <2>1. table' = WithTwo(k, l, handles) /\ used' = used \union {k, l} /\ kind' = kind
    BY TwoStored
  <2> QED
    BY <2>1 DEF WithTwo
<1>5. Installed' = Installed \union {k, l}
  BY <1>4 DEF Installed
<1>6. structure' = EXACT!insert(EXACT!insert(trie, k, v), l, w)
  <2>0. PICK E : \E entries \in Seq(E) :
          /\ Len(entries) = 2 /\ entries[1][1] = k /\ entries[1][2] = v
          /\ entries[2][1] = l /\ entries[2][2] = w
          /\ structure' = Updated(entries, "Add")
    BY <1>1, TwoStored DEF SentTwo
  <2>1. PICK entries \in Seq(E) :
          /\ Len(entries) = 2 /\ entries[1][1] = k /\ entries[1][2] = v
          /\ entries[2][1] = l /\ entries[2][2] = w
          /\ structure' = Updated(entries, "Add")
    BY <2>0
  <2>2. structure' = EXACT!update(trie, entries, "Add")
    BY <1>2, <2>1 DEF Updated
  <2> QED
    BY <2>1, <2>2, ExactAddTwo
<1>7. ASSUME AllKept' PROVE EntriesHold(structure', Answers')
  <2>1. AllKept
    BY <1>4, <1>7 DEF AllKept, WellKept
  <2>2. /\ EXACT!Kept(k) = k /\ \A r \in Installed : HashOf[r] # HashOf[k]
        /\ EXACT!Kept(l) = l /\ \A r \in Installed \union {k} : HashOf[r] # HashOf[l]
    BY <1>3, <1>4, <1>7 DEF AllKept, WellKept
  <2>3. EntriesHold(trie, Answers)
    BY <1>2, <2>1, TrieBefore
  <2>4. DOMAIN Answers = Installed /\ DOMAIN Answers \subseteq ExactKeys
        /\ k \notin DOMAIN Answers /\ l \notin DOMAIN Answers
    BY <1>3 DEF Answers
  <2>5. PICK T : T = [r \in Installed \union {k} |-> IF r = k THEN v ELSE Answers[r]]
    OBVIOUS
  <2>6. OneMore(T, Answers, k, v)
    BY <2>4, <2>5 DEF OneMore
  <2>7. EntriesHold(EXACT!insert(trie, k, v), T)
    BY <1>3, <2>2, <2>3, <2>4, <2>6, ExactInsertHolds
  <2>8. PICK U : U = Answers'
    OBVIOUS
  <2>9. OneMore(U, T, l, w)
    <3>1. U = [r \in Installed \union {k, l} |-> Value(table'[r])]
      BY <1>5, <2>8 DEF Answers
    <3>2. U[l] = w /\ U[k] = v
      BY <1>1, <1>4, <3>1
    <3>3. \A r \in Installed : U[r] = Answers[r]
      BY <1>4, <3>1 DEF Answers
    <3> QED
      BY <2>4, <2>5, <3>1, <3>2, <3>3 DEF OneMore
  <2>10. PICK more : more = EXACT!insert(trie, k, v)
    OBVIOUS
  <2>11. DOMAIN T = Installed \union {k} /\ l \notin DOMAIN T /\ DOMAIN T \subseteq ExactKeys
    BY <1>3, <2>4, <2>5
  <2>12. EntriesHold(EXACT!insert(more, l, w), U)
    BY <1>3, <2>2, <2>7, <2>9, <2>10, <2>11, ExactInsertHolds
  <2> QED
    BY <1>6, <2>8, <2>10, <2>12
<1>8. AllKept' => structure' # None
  BY <1>3, <1>7, EntriesSome
<1> QED
  BY <1>3, <1>4, <1>5, <1>7, <1>8 DEF ExactInv

LEMMA ExactDeleteOne ==
  ASSUME ExactInv, kind = "exact", NEW k \in Installed, delete_entry(k)
  PROVE  ExactInv'
<1>1. structure # None /\ used' = used /\ kind' = kind /\ Installed \subseteq used /\ used \subseteq ExactKeys
  BY DEF delete_entry, ExactInv
<1>2. structure' = EXACT!remove(structure, k)
  <2>0. PICK x : x = <<k, Miss>>
    OBVIOUS
  <2>1. PICK entries \in Seq({x}) : entries = <<x>>
    <3>1. <<x>> \in Seq({x})
      OBVIOUS
    <3> QED
      BY <3>1
  <2>2. structure' = EXACT!update(structure, entries, "Remove")
    BY <1>1, <2>0, <2>1 DEF delete_entry, Updated
  <2>3. Len(entries) = 1 /\ entries[1][1] = k
    BY <2>0, <2>1
  <2> QED
    BY <2>2, <2>3, ExactRemoveOne
<1>3. table' = [x \in Installed \ {k} |-> table[x]] /\ Installed' = Installed \ {k}
  BY DEF delete_entry, Installed
<1>4. ASSUME AllKept' PROVE EntriesHold(structure', Answers')
  <2>1. AllKept
    BY <1>1, <1>4 DEF AllKept, WellKept
  <2>2. EntriesHold(structure, Answers)
    BY <1>1, <2>1 DEF ExactInv
  <2>3. PICK U : U = Answers'
    OBVIOUS
  <2>4. DOMAIN Answers = Installed /\ DOMAIN Answers \subseteq ExactKeys /\ OneLess(U, Answers, k)
    BY <1>1, <1>3, <2>3 DEF Answers, OneLess
  <2>5. EntriesHold(EXACT!remove(structure, k), U)
    BY <2>2, <2>4, ExactRemoveHolds
  <2> QED
    BY <1>2, <2>3, <2>5
<1>5. AllKept' => structure' # None
  BY <1>1, <1>4, EntriesSome
<1> QED
  BY <1>1, <1>3, <1>4, <1>5 DEF ExactInv

LEMMA ExactInvInit == Init => ExactInv
  BY DEF Init, ExactInv, Installed

LEMMA ExactInvNext == ExactInv /\ [Next]_vars => ExactInv'
<1> SUFFICES ASSUME ExactInv, [Next]_vars PROVE ExactInv'
  OBVIOUS
<1>1. CASE UNCHANGED vars
  BY <1>1 DEF vars, ExactInv, Installed, Answers, AllKept, WellKept
<1>2. CASE Next
  <2>1. kind' = kind
    BY <1>2 DEF Next, AddOne, AddTwo, Delete, store_entry, delete_entry
  <2>2. CASE kind # "exact"
    BY <2>1, <2>2 DEF ExactInv
  <2>3. CASE kind = "exact"
    <3>1. CASE AddOne
      BY <2>3, <3>1, ExactStoreOne DEF AddOne
    <3>2. CASE AddTwo
      BY <2>3, <3>2, ExactStoreTwo DEF AddTwo
    <3>3. CASE Delete
      BY <2>3, <3>3, ExactDeleteOne DEF Delete
    <3> QED
      BY <1>2, <3>1, <3>2, <3>3 DEF Next
  <2> QED
    BY <2>2, <2>3
<1> QED
  BY <1>1, <1>2

LEMMA ExactInvariant == Spec => []ExactInv
  BY ExactInvInit, ExactInvNext, PTL DEF Spec

-----------------------------------------------------------------------------
\* Deleting gives back every node it can and no other (PrefixTree::remove).
THEOREM TreeMinimalHolds == Spec => []TreeMinimal
<1>1. TreeInv => TreeMinimal
  BY DEF TreeInv, TreeMinimal, Holds, Answers
<1> QED
  BY TreeInvariant, <1>1, PTL

\* A packet is given the handle of the longest installed prefix of its address,
\* or, when there is none, what the last route with the empty prefix was given,
\* after any additions and deletions (PrefixTree::longestPrefixMatch).
THEOREM LpmCorrectHolds == Spec => []LpmCorrect
<1>1. TreeInv => LpmCorrect
  <2> SUFFICES ASSUME TreeInv, kind = "lpm", NEW a \in Addresses
               PROVE  LET matching == { r \in Installed \ {<<>>} : IsPrefix(r, a) }
                      IN  lookup(a) = IF matching = {} THEN gateway ELSE Value(table[Longest(matching)])
    BY DEF LpmCorrect
  <2> DEFINE matching == { r \in Installed \ {<<>>} : IsPrefix(r, a) }
  <2>1. a \in Seq(Bit) /\ Installed \subseteq Seq(Bit)
    BY TablesAssumption DEF TreeInv
  <2>2. CASE structure = None
    <3>1. matching = {} /\ gateway = Miss
      BY <2>2 DEF TreeInv
    <3> QED
      BY <2>2, <3>1 DEF lookup
  <2>3. CASE structure # None
    <3> DEFINE flagged == { p \in Prefixes(a) \intersect DOMAIN structure.node :
                              p = <<>> \/ structure.node[p].flag }
    <3>1. /\ DOMAIN structure.node = {<<>>} \union UNION { Prefixes(r) : r \in Installed }
          /\ structure.node[<<>>].action = gateway
          /\ \A p \in DOMAIN structure.node \ {<<>>} :
                /\ structure.node[p].flag <=> p \in Installed
                /\ p \in Installed => structure.node[p].action = Value(table[p])
      BY <2>3 DEF TreeInv, Holds, Answers
    <3>2. <<>> \in Seq(Bit) /\ <<>> \in Prefixes(a)
      <4>1. <<>> \in Seq(Bit) /\ Begins(<<>>, a)
        BY <2>1 DEF Begins
      <4> QED
        BY <2>1, <4>1, BeginsPrefix
    <3>3. \A r \in Installed : r \in Prefixes(r)
      BY <2>1, BeginsPrefix DEF Begins
    <3>4. flagged = {<<>>} \union matching
      <4>1. \A r \in Installed : IsPrefix(r, a) <=> r \in Prefixes(a)
        BY <2>1, BeginsPrefix
      <4> QED
        BY <3>1, <3>2, <3>3, <4>1
    <3>5. \A p \in flagged : p \in Seq(Bit) /\ Begins(p, a)
      BY <2>1, PrefixesTyped, BeginsPrefix
    <3>6. PICK p \in flagged : /\ \A q \in flagged : Len(q) <= Len(p)
                              /\ \A r \in flagged : (\A q \in flagged : Len(q) <= Len(r)) => r = p
      <4>1. flagged \in SUBSET Seq(Bit) /\ flagged # {} /\ \A q \in flagged : Begins(q, a)
        BY <3>4, <3>5
      <4> HIDE DEF flagged
      <4> QED
        BY <2>1, <4>1, LongestOfBits
    <3>7. (CHOOSE q \in flagged : \A r \in flagged : Len(r) <= Len(q)) = p
      <4> HIDE DEF flagged
      <4> QED
        BY <3>6
    <3>8. lookup(a) = structure.node[p].action
      <4>1. DOMAIN structure.node # {}
        BY <3>1
      <4> QED
        BY <2>3, <3>7, <4>1, LpmPrefixes DEF lookup, LPM!longestPrefixMatch
    <3>9. CASE matching = {}
      <4>1. p = <<>>
        BY <3>4, <3>9
      <4> QED
        BY <3>1, <3>8, <3>9, <4>1
    <3>10. CASE matching # {}
      <4>1. p \in matching
        <5>1. PICK r \in matching : r # <<>> /\ r \in flagged
          BY <3>4, <3>10
        <5>2. Len(r) # 0 /\ Len(r) \in Nat /\ Len(r) <= Len(p)
          BY <3>5, <3>6, <5>1
        <5>3. p # <<>>
          BY <5>2
        <5> QED
          BY <3>4, <5>3
      <4>2. \A l \in matching : Len(l) <= Len(p)
        BY <3>4, <3>6
      <4>3. \A r \in matching : (\A l \in matching : Len(l) <= Len(r)) => r = p
        <5> SUFFICES ASSUME NEW r \in matching, \A l \in matching : Len(l) <= Len(r) PROVE r = p
          OBVIOUS
        <5>1. r \in flagged /\ Len(<<>>) <= Len(r)
          BY <3>4, <3>5
        <5>2. \A q \in flagged : Len(q) <= Len(r)
          BY <3>4, <5>1
        <5> QED
          BY <3>6, <5>1, <5>2
      <4>4. Longest(matching) = p
        <5> HIDE DEF matching
        <5> QED
          BY <4>1, <4>2, <4>3 DEF Longest
      <4>5. p \in Installed /\ p # <<>> /\ p \in DOMAIN structure.node
        BY <3>6, <4>1
      <4> QED
        BY <3>1, <3>8, <3>10, <4>4, <4>5
    <3> QED
      BY <3>9, <3>10
  <2> QED
    BY <2>2, <2>3
<1> QED
  BY TreeInvariant, <1>1, PTL

\* The switch is told that an entry exists when it does, and of one that does
\* not only when a longer one leads past its node or an empty prefix was
\* installed (PrefixTree::exactPrefixMatch).
THEOREM ExistsRightlyHolds == Spec => []ExistsRightly
<1>1. TreeInv => ExistsRightly
  <2> SUFFICES ASSUME TreeInv, kind = "lpm", NEW k \in Routes
               PROVE  /\ k \in Installed => entry_exists(k)
                      /\ entry_exists(k) => \/ k \in Installed
                                            \/ \E r \in Installed : IsStrictPrefix(k, r)
                                            \/ gateway # Miss
    BY DEF ExistsRightly
  <2>1. CASE structure = None
    BY <2>1 DEF TreeInv, entry_exists
  <2>2. CASE structure # None
    <3>1. /\ DOMAIN structure.node = {<<>>} \union UNION { Prefixes(r) : r \in Installed }
          /\ structure.node[<<>>].action = gateway /\ structure.default = gateway
          /\ \A p \in DOMAIN structure.node \ {<<>>} :
                p \in Installed => structure.node[p].action = Value(table[p])
          /\ <<>> \in Installed => gateway = Value(table[<<>>])
      BY <2>2 DEF TreeInv, Holds, Answers
    <3>2. k \in Seq(Bit) /\ Installed \subseteq Seq(Bit)
      BY TablesAssumption DEF TreeInv
    <3>3. entry_exists(k) <=>
            (IF k \in DOMAIN structure.node THEN structure.node[k].action ELSE gateway).match
      BY <2>2, <3>1 DEF entry_exists, exactPrefixMatch, LPM!exactPrefixMatch
    <3>4. ~Miss.match /\ \A h : Value(h).match
      BY DEF Miss, Value
    <3>5. k \in Installed => entry_exists(k)
      <4>1. k \in Installed => k \in DOMAIN structure.node
        BY <3>1, <3>2, BeginsPrefix DEF Begins
      <4>2. k \in Installed => structure.node[k].action = Value(table[k])
        BY <3>1, <4>1
      <4> QED
        BY <3>3, <3>4, <4>1, <4>2
    <3>6. ASSUME entry_exists(k), gateway = Miss, k \notin Installed
          PROVE  \E r \in Installed : IsStrictPrefix(k, r)
      <4>1. k \in DOMAIN structure.node /\ k # <<>>
        BY <3>1, <3>3, <3>4, <3>6
      <4>2. PICK r \in Installed : k \in Prefixes(r)
        BY <3>1, <4>1
      <4>3. IsPrefix(k, r) /\ k # r
        BY <3>2, <3>6, <4>2, BeginsPrefix
      <4> QED
        BY <4>3 DEF IsStrictPrefix
    <3> QED
      BY <3>5, <3>6
  <2> QED
    BY <2>1, <2>2
<1> QED
  BY TreeInvariant, <1>1, PTL

\* As long as only keys were used that a hash trie can tell apart, a packet with
\* an installed key is given its handle and any other packet misses, however
\* entries were split and pulled up meanwhile, and no null pointer is read
\* (HashTrie::insert, remove, exactPrefixMatch).
THEOREM ExactCorrectHolds == Spec => []ExactCorrect
<1>1. ExactInv => ExactCorrect
  <2> SUFFICES ASSUME ExactInv, kind = "exact", structure # None, AllKept, NEW k \in used
               PROVE  /\ ~ EXACT!Faults(structure, k)
                      /\ lookup(k) = IF k \in Installed THEN Value(table[k]) ELSE Miss
    BY DEF ExactCorrect, AllKept
  <2>1. PICK p : p = EXACT!Reached(structure, k)
    OBVIOUS
  <2>2. /\ EntriesHold(structure, Answers) /\ k \in ExactKeys
        /\ Installed \subseteq used /\ DOMAIN Answers = Installed
    BY DEF ExactInv, Answers
  <2>3. /\ p \in DOMAIN structure /\ p \in Seq(Digits) /\ Len(p) \in 1 .. Levels
        /\ Begins(p, HashOf[k]) /\ Levels \in Nat \ {0}
    BY <2>1, <2>2, Walk, TablesAssumption DEF EntriesHold
  <2>4. /\ k \in Installed => /\ structure[p].flag /\ structure[p].key = k
                              /\ structure[p].value = Value(table[k])
        /\ k \notin Installed => ~ (structure[p].flag /\ structure[p].key = k)
    BY <2>1, <2>2, WalkEnds DEF Answers
  <2>5. lookup(k) = IF k \in Installed THEN Value(table[k]) ELSE Miss
    BY <2>1, <2>4 DEF lookup, EXACT!exactPrefixMatch
  <2>6. ASSUME structure[p].flag, structure[p].key # k, Len(p) % Levels = 0 PROVE FALSE
    <3>1. PICK r : r = structure[p].key
      OBVIOUS
    <3>2. r \in used /\ r \in ExactKeys /\ Begins(p, HashOf[r])
      BY <2>2, <2>3, <2>6, <3>1 DEF EntriesHold, Kin, ExactInv
    <3>3. Len(p) = Levels
      <4>1. CASE Len(p) < Levels
        <5>1. Len(p) \in 0 .. (Levels - 1)
          BY <2>3, <4>1
        <5>2. Len(p) % Levels = Len(p)
          BY <2>3, <5>1, SmallMod
        <5> QED
          BY <2>3, <2>6, <5>2
      <4> QED
        BY <2>3, <4>1
    <3>4. p = HashOf[r] /\ p = HashOf[k]
      <4>1. \A x \in ExactKeys : HashOf[x] \in Seq(Digits) /\ Len(HashOf[x]) = Levels
        BY HashTyped
      <4>2. \A x \in Seq(Digits) : Begins(x, x)
        BY DEF Begins
      <4> QED
        BY <2>2, <2>3, <3>2, <3>3, <4>1, <4>2, BeginsEqual
    <3> QED
      BY <2>6, <3>1, <3>2, <3>4, KeptApart
  <2> QED
    BY <2>1, <2>5, <2>6 DEF EXACT!Faults
<1> QED
  BY ExactInvariant, <1>1, PTL
-----------------------------------------------------------------------------
(* The lock                                                                *)

(* The lock starts free, with nobody asleep: LockInv holds. *)
LEMMA InitLockInv == LockInit => LockInv
  BY ProcsAssumption, CommandsAssumption
  DEF LockInit, LockInv, TypeOK, PlacesAgree, CommandOwed, WriterAlone, NoLostWakeup, Procs

(* A reader that goes to sleep leaves a writer behind who owes it the wake-up. *)
LEMMA ReadLockWaitInv ==
  ASSUME LockInv, NEW r \in Readers, ReadLockWait(r)
  PROVE  LockInv'
<1> USE ProcsAssumption DEF LockInv, ReadLockWait, AtEntry
<1>1. TypeOK' BY DEF TypeOK, Procs
<1>2. PlacesAgree' BY DEF TypeOK, PlacesAgree, Procs
<1>3. CommandOwed' BY DEF TypeOK, CommandOwed, Procs
<1>4. WriterAlone' BY DEF TypeOK, WriterAlone, Procs
<1>5. NoLostWakeup' BY DEF TypeOK, NoLostWakeup, Procs
<1> QED BY <1>1, <1>2, <1>3, <1>4, <1>5

(* A reader enters only while no writer has claimed the lock. *)
LEMMA ReadLockAcquireInv ==
  ASSUME LockInv, NEW r \in Readers, ReadLockAcquire(r)
  PROVE  LockInv'
<1> USE ProcsAssumption DEF LockInv, ReadLockAcquire, AtEntry
<1>1. TypeOK' BY DEF TypeOK, Procs
<1>2. PlacesAgree' BY DEF TypeOK, PlacesAgree, Procs
<1>3. CommandOwed' BY DEF TypeOK, CommandOwed, Procs
<1>4. WriterAlone' BY DEF TypeOK, WriterAlone, PlacesAgree, Procs
<1>5. NoLostWakeup' BY DEF TypeOK, NoLostWakeup, Procs
<1> QED BY <1>1, <1>2, <1>3, <1>4, <1>5

(* The last reader out wakes the draining writer. *)
LEMMA ReadUnlockInv ==
  ASSUME LockInv, NEW r \in Readers, ReadUnlock(r)
  PROVE  LockInv'
<1> USE ProcsAssumption DEF LockInv, ReadUnlock, Notify
<1>1. TypeOK' BY DEF TypeOK, Procs
<1>2. PlacesAgree' BY DEF TypeOK, PlacesAgree, Procs
<1>3. CommandOwed' BY DEF TypeOK, CommandOwed, Procs
<1>4. WriterAlone' BY DEF TypeOK, WriterAlone, PlacesAgree, Procs
<1>5. NoLostWakeup'
  <2>1. CASE readers' = {} /\ writer # NoProc
    BY <2>1 DEF NoLostWakeup
  <2>2. CASE readers' # {}
    BY <2>2 DEF TypeOK, NoLostWakeup, Procs
  <2>3. CASE writer = NoProc
    \* without a writer nobody sleeps
    <3>1. cond = {}
      BY <2>3 DEF TypeOK, NoLostWakeup, PlacesAgree, Procs
    <3> QED BY <3>1, <2>3 DEF NoLostWakeup
  <2> QED BY <2>1, <2>2, <2>3
<1> QED BY <1>1, <1>2, <1>3, <1>4, <1>5

(* A second writer sleeps behind the first. *)
LEMMA WriteLockWaitInv ==
  ASSUME LockInv, NEW w \in Writers, WriteLockWait(w)
  PROVE  LockInv'
<1> USE ProcsAssumption DEF LockInv, WriteLockWait, AtEntry
<1>1. TypeOK' BY DEF TypeOK, Procs
<1>2. PlacesAgree' BY DEF TypeOK, PlacesAgree, Procs
<1>3. CommandOwed' BY DEF TypeOK, CommandOwed, Procs
<1>4. WriterAlone' BY DEF TypeOK, WriterAlone, Procs
<1>5. NoLostWakeup' BY DEF TypeOK, NoLostWakeup, Procs
<1> QED BY <1>1, <1>2, <1>3, <1>4, <1>5

(* A claim either starts the section or waits for the readers inside. *)
LEMMA WriteLockClaimInv ==
  ASSUME LockInv, NEW w \in Writers, WriteLockClaim(w)
  PROVE  LockInv'
<1> USE ProcsAssumption DEF LockInv, WriteLockClaim, AtEntry
<1>1. TypeOK' BY DEF TypeOK, Procs
<1>2. PlacesAgree' BY DEF TypeOK, PlacesAgree, Procs
<1>3. CommandOwed' BY DEF TypeOK, CommandOwed, Procs
<1>4. WriterAlone' BY DEF TypeOK, WriterAlone, PlacesAgree, Procs
<1>5. NoLostWakeup' BY DEF TypeOK, NoLostWakeup, PlacesAgree, Procs
<1> QED BY <1>1, <1>2, <1>3, <1>4, <1>5

(* A woken writer tests again before it starts. *)
LEMMA WriteLockDrainInv ==
  ASSUME LockInv, NEW w \in Writers, WriteLockDrain(w)
  PROVE  LockInv'
<1> USE ProcsAssumption DEF LockInv, WriteLockDrain
<1>1. TypeOK' BY DEF TypeOK, Procs
<1>2. PlacesAgree' BY DEF TypeOK, PlacesAgree, Procs
<1>3. CommandOwed' BY DEF TypeOK, CommandOwed, Procs
<1>4. WriterAlone' BY DEF TypeOK, WriterAlone, PlacesAgree, Procs
<1>5. NoLostWakeup' BY DEF TypeOK, NoLostWakeup, PlacesAgree, Procs
<1> QED BY <1>1, <1>2, <1>3, <1>4, <1>5

(* The end of a section wakes every sleeper. *)
LEMMA WriteUnlockInv ==
  ASSUME LockInv, NEW w \in Writers, WriteUnlock(w)
  PROVE  LockInv'
<1> USE ProcsAssumption, CommandsAssumption DEF LockInv, WriteUnlock, Notify
<1>1. TypeOK' BY DEF TypeOK, CommandOwed, Procs
<1>2. PlacesAgree' BY DEF TypeOK, PlacesAgree, Procs
<1>3. CommandOwed' BY DEF TypeOK, CommandOwed, Procs
<1>4. WriterAlone' BY DEF TypeOK, WriterAlone, PlacesAgree, Procs
<1>5. NoLostWakeup' BY DEF NoLostWakeup
<1> QED BY <1>1, <1>2, <1>3, <1>4, <1>5

-------------------------------------------------------------------------------
(* Every step of the lock's functions preserves LockInv.                   *)
LEMMA NextLockInv == LockInv /\ [LockNext]_lockvars => LockInv'
<1> SUFFICES ASSUME LockInv, [LockNext]_lockvars PROVE LockInv'
  OBVIOUS
<1>1. ASSUME NEW r \in Readers, ReadStep(r) PROVE LockInv'
  BY <1>1, ReadLockWaitInv, ReadLockAcquireInv, ReadUnlockInv DEF ReadStep
<1>2. ASSUME NEW w \in Writers, WriteStep(w) PROVE LockInv'
  BY <1>2, WriteLockWaitInv, WriteLockClaimInv, WriteLockDrainInv,
     WriteUnlockInv DEF WriteStep
<1>3. CASE UNCHANGED lockvars
  BY <1>3 DEF lockvars, LockInv, TypeOK, PlacesAgree, CommandOwed, WriterAlone,
              NoLostWakeup
<1> QED BY <1>1, <1>2, <1>3 DEF LockNext

(* The inductive invariant holds in every reachable state.                 *)
THEOREM LockInvariant == LockSpec => []LockInv
<1>1. LockInit => LockInv BY InitLockInv
<1>2. LockInv /\ [LockNext]_lockvars => LockInv' BY NextLockInv
<1> QED BY <1>1, <1>2, PTL DEF LockSpec

(* Types are kept: the part of LockInv that ReadWriteLock.cfg checks as    *)
(* TypeOK.                                                                 *)
THEOREM LockTypeCorrect == LockSpec => []TypeOK
<1>1. LockInv => TypeOK BY DEF LockInv
<1> QED BY <1>1, LockInvariant, PTL

(* write_lock() gives exclusive access: no reader is inside a writer's     *)
(* section and there is one writer, for any number of cores and agents.    *)
THEOREM MutualExclusionHolds == LockSpec => []MutualExclusion
<1>1. LockInv => MutualExclusion
  BY DEF LockInv, PlacesAgree, WriterAlone, MutualExclusion
<1> QED BY <1>1, LockInvariant, PTL

(* Every process asleep on cond is owed a notify() by another one: the     *)
(* single event and the condition in read_unlock() lose no wake-up.        *)
THEOREM NoLostWakeupHolds == LockSpec => []NoLostWakeup
<1>1. LockInv => NoLostWakeup BY DEF LockInv
<1> QED BY <1>1, LockInvariant, PTL

(* After write_lock() has claimed the lock no reader enters.               *)
THEOREM WriterPreferenceHolds == LockSpec => WriterPreference
<1>1. LockInv /\ [LockNext]_lockvars
        => [writer # NoProc => readers' \subseteq readers]_lockvars
  BY DEF LockNext, ReadStep, WriteStep, ReadLockWait, ReadLockAcquire, ReadUnlock,
         WriteLockWait, WriteLockClaim, WriteLockDrain, WriteUnlock, lockvars
<1> QED BY <1>1, LockInvariant, PTL DEF LockSpec, WriterPreference

-------------------------------------------------------------------------------
(* The processes in the read section and in the write section change as    *)
(* RWLockSpec says: each step of the lock is a step of it or a stutter.    *)
LEMMA LockStepRefines ==
  ASSUME LockInv, [LockNext]_lockvars
  PROVE  [Abstract!Next]_(Abstract!vars)
<1> DEFINE sh == {p \in Readers : pc[p] = "reading"}
           ex == {p \in Writers : pc[p] = "writing"}
<1> USE ProcsAssumption
    DEF LockInv, TypeOK, PlacesAgree, WriterAlone, Procs, AtEntry,
        Abstract!vars, Abstract!Next, Abstract!Share, Abstract!Unshare,
        Abstract!Exclude, Abstract!Release
<1>1. ASSUME NEW r \in Readers, ReadLockWait(r)
      PROVE  sh' = sh /\ ex' = ex
  BY <1>1 DEF ReadLockWait
<1>2. ASSUME NEW r \in Readers, ReadLockAcquire(r)
      PROVE  ex = {} /\ r \notin sh /\ sh' = sh \cup {r} /\ ex' = ex
  BY <1>2 DEF ReadLockAcquire
<1>3. ASSUME NEW r \in Readers, ReadUnlock(r)
      PROVE  r \in sh /\ sh' = sh \ {r} /\ ex' = ex
  BY <1>3 DEF ReadUnlock
<1>4. ASSUME NEW w \in Writers, WriteLockWait(w)
      PROVE  sh' = sh /\ ex' = ex
  BY <1>4 DEF WriteLockWait
<1>5. ASSUME NEW w \in Writers, WriteLockClaim(w)
      PROVE  \/ sh' = sh /\ ex' = ex
             \/ sh = {} /\ ex = {} /\ ex' = {w} /\ sh' = sh
  BY <1>5 DEF WriteLockClaim
<1>6. ASSUME NEW w \in Writers, WriteLockDrain(w)
      PROVE  \/ sh' = sh /\ ex' = ex
             \/ sh = {} /\ ex = {} /\ ex' = {w} /\ sh' = sh
  BY <1>6 DEF WriteLockDrain
<1>7. ASSUME NEW w \in Writers, WriteUnlock(w)
      PROVE  ex = {w} /\ ex' = {} /\ sh' = sh
  BY <1>7 DEF WriteUnlock
<1>8. CASE UNCHANGED lockvars
  BY <1>8 DEF lockvars
<1> QED
  BY <1>1, <1>2, <1>3, <1>4, <1>5, <1>6, <1>7, <1>8
  DEF LockNext, ReadStep, WriteStep

(* ReadWriteLock implements RWLockSpec.                                    *)
THEOREM LockRefinement == LockSpec => AbstractSpec
<1>1. LockInit => Abstract!Init
  BY ProcsAssumption DEF LockInit, Abstract!Init, Procs
<1>2. LockInv /\ [LockNext]_lockvars => [Abstract!Next]_(Abstract!vars)
  BY LockStepRefines
<1> QED
  BY <1>1, <1>2, LockInvariant, PTL DEF LockSpec, AbstractSpec, Abstract!Spec
=============================================================================
