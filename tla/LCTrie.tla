------------------------------- MODULE LCTrie -------------------------------
(***************************************************************************)
(* The level-compressed trie (tries/src/LCTrie.h, LCNode.h,                *)
(* BaseVectorEntry.h, PrefixVectorEntry.h), one of the classes the switch  *)
(* can take for its longest-prefix-match tables.                           *)
(*                                                                         *)
(* The routes that are a prefix of no other, sorted, are the base vector.  *)
(* A trie of nodes in one array leads a key to one of its entries; what    *)
(* the key does not have in common with the entry is decided by the chain  *)
(* of shorter routes the entry points to.                                  *)
(*                                                                         *)
(* An entry of the base vector is its bits and the route it stands for,    *)
(* which is shorter when the entry was expanded; its chain is the routes   *)
(* that are a proper prefix of that route.  Positions in the two arrays    *)
(* count from 0, as in the code.                                           *)
(***************************************************************************)
EXTENDS BitString

CONSTANTS ADR_SIZE,  \* bits in an address
          Missing    \* mDefaultAction

LCNode(branch, skip, adr) == [branch |-> branch, skip |-> skip, adr |-> adr]

\* The routes of a table, a sequence of <<key, action>> with no key twice
Routed(entries) == { e[1] : e \in ToSet(entries) }
ActionOf(entries, r) == SelectSeq(entries, LAMBDA e : e[1] = r)[1][2]

BaseVector(routes) ==
  LET bases == Sorted({ r \in routes : ~ \E q \in routes : IsStrictPrefix(r, q) })
  IN  [i \in DOMAIN bases |-> [prefix |-> bases[i], route |-> bases[i]]]

\* Faulty variant: only the longest of the shorter routes is linked.
ChainOfOne(routes, entry) ==
  LET shorter == { r \in routes : IsStrictPrefix(r, entry.route) }
  IN  { r \in shorter : \A q \in shorter : Len(q) <= Len(r) }

Chain(routes, entry) == { r \in routes : IsStrictPrefix(r, entry.route) }

-----------------------------------------------------------------------------
(* Building the trie: b is [node, next, base], where `next` is mNextFree. *)

Entry(b, i) == b.base[i + 1].prefix

\* The bits the first and the last of the entries have in common are skipped.
computeNewPrefix(b, prefix, first, num) ==
  LET low  == Entry(b, first)
      high == Entry(b, first + num - 1)
      stop == CHOOSE n \in prefix .. ADR_SIZE + 1 :
                /\ \/ n > Len(low) \/ n > Len(high)
                   \/ extract(n, 1, low) # extract(n, 1, high)
                /\ \A m \in prefix .. n - 1 :
                     /\ m <= Len(low) /\ m <= Len(high)
                     /\ extract(m, 1, low) = extract(m, 1, high)
  IN  stop

\* Can b bits be branched on?  Pattern after pattern is looked for in the
\* sorted entries; an entry that is too short uses a pattern up.
Filled(b, prefix, first, num, bits) ==
  LET long(i) == Len(Entry(b, i)) >= prefix + bits
      end     == first + num
      runEnd(i, pattern) ==
        CHOOSE j \in i .. end :
          /\ j = end \/ extract(prefix, bits, Entry(b, j)) # pattern
          /\ \A k \in i .. j - 1 : extract(prefix, bits, Entry(b, k)) = pattern
      look(acc, pattern) ==
        IF acc.i < end /\ ~ long(acc.i) THEN [acc EXCEPT !.i = @ + 1]
        ELSE LET j == runEnd(acc.i, pattern)
             IN  [i |-> j, count |-> IF \E k \in acc.i .. j - 1 : long(k)
                                     THEN acc.count + 1 ELSE acc.count]
      found == FoldLeft(look, [i |-> first, count |-> 0], [w \in 1 .. 2^bits |-> w - 1])
  IN  num >= 2^bits /\ prefix + bits <= ADR_SIZE /\ found.count >= 2^bits

\* With the fill factor of 1 every pattern has to be there.
computeBranch(b, prefix, first, num) ==
  IF num = 2 THEN 1
  ELSE CHOOSE bits \in 1 .. ADR_SIZE :
         /\ ~ Filled(b, prefix, first, num, bits + 1)
         /\ \A fewer \in 2 .. bits : Filled(b, prefix, first, num, fewer)

\* Length of the longest route in the chain of an entry that is longer than
\* the skipped prefix and agrees with the pattern; past the bits of the
\* pattern everything counts as 0.
bestPrefixMatch(routes, b, prefix, i, pattern, branch) ==
  LET bits(n) == IF n > branch THEN 0 ELSE toInt(substr(intToBitString(pattern, branch), 0, n))
      agreeing == { r \in Chain(routes, b.base[i + 1]) :
                      /\ Len(r) > prefix
                      /\ extract(prefix, Len(r) - prefix, Entry(b, i)) = bits(Len(r) - prefix) }
  IN  IF agreeing = {} THEN 0
      ELSE CHOOSE n \in { Len(r) : r \in agreeing } : \A r \in agreeing : Len(r) <= n

\* An entry that ends among the bits branched on is replaced by one for every
\* way to go on.
Expanded(b, i, length) ==
  LET entry == b.base[i + 1]
      more  == length - Len(entry.prefix)
      copies == [w \in 1 .. 2^more |->
                   [entry EXCEPT !.prefix = @ \o intToBitString(w - 1, more)]]
  IN  IF more <= 0 THEN b
      ELSE [b EXCEPT !.base = SubSeq(@, 1, i) \o copies \o SubSeq(@, i + 2, Len(@))]

\* The entries from p on that match the pattern, and the vector with those
\* met on the way expanded.  (An entry that ends before the bits branched on
\* would make substr throw.)
RECURSIVE Matched(_, _, _, _, _, _, _)
Matched(b, p, end, prefix, branch, pattern, k) ==
  IF p + k >= end THEN [b |-> b, k |-> k]
  ELSE LET wide == Expanded(b, p + k, prefix + branch)
       IN  IF substr(Entry(wide, p + k), prefix, branch) # intToBitString(pattern, branch)
           THEN [b |-> wide, k |-> k]
           ELSE Matched(wide, p, end + Len(wide.base) - Len(b.base), prefix, branch, pattern, k + 1)

\* A pattern no entry has goes to a neighbour's leaf.
Neighbour(before, after, p, first, end) ==
  IF (before > after /\ p > first) \/ p = end THEN p - 1 ELSE p

\* The entries for a pattern have been matched: m is what Matched gave, and
\* the subtree of a pattern without any is a leaf.
Chosen(routes, m, p, first, end, prefix, branch, pattern) ==
  LET best(i) == bestPrefixMatch(routes, m.b, prefix, i, pattern, branch)
  IN  IF m.k > 0 THEN [first |-> p, num |-> m.k]
      ELSE [first |-> Neighbour(IF p > first THEN best(p - 1) ELSE 0,
                                IF p < end THEN best(p) ELSE 0, p, first, end),
            num |-> 1]

Advanced(built, m, p) ==
  [b |-> built, p |-> p + m.k + Len(built.base) - Len(m.b.base)]

RECURSIVE build(_, _, _, _, _, _)
build(routes, b, prefix, first, num, pos) ==
  LET \* one node, its 2^branch children at b.next
      inner(skipped, branch) ==
        LET end(c) == first + num + Len(c.base) - Len(b.base)
            chosenFor(m, p, pattern) ==
              Chosen(routes, m, p, first, end(m.b), skipped, branch, pattern)
            go(m, p, at, c) ==
              Advanced(build(routes, m.b, skipped + branch, c.first, c.num, at), m, p)
            child(m, p, pattern) == go(m, p, b.next + pattern, chosenFor(m, p, pattern))
            subtree(acc, pattern) ==
              child(Matched(acc.b, acc.p, end(acc.b), skipped, branch, pattern, 0), acc.p, pattern)
            start == [b EXCEPT !.node = (pos :> LCNode(branch, skipped - prefix, b.next)) @@ @,
                               !.next = @ + 2^branch]
        IN  FoldLeft(subtree, [b |-> start, p |-> first], [w \in 1 .. 2^branch |-> w - 1]).b
      branched(skipped) == inner(skipped, computeBranch(b, skipped, first, num))
  IN  IF num = 1
      THEN [b EXCEPT !.node = (pos :> LCNode(0, Len(Entry(b, first)) - prefix, first)) @@ @]
      ELSE branched(computeNewPrefix(b, prefix, first, num))

\* LCTrie::update with Reconstruct, and the constructor; with any other action
\* the code throws a string.
constructTrie(entries) ==
  LET base  == BaseVector(Routed(entries))
      built == build(Routed(entries), [node |-> <<>>, next |-> 1, base |-> base],
                     0, 0, Len(base), 0)
  IN  [node |-> built.node, base |-> built.base, entries |-> entries]

-----------------------------------------------------------------------------
(* Lookups *)

\* The entry a key is led to, and the number of bits that took; past its end a
\* key goes on with zeros.
RECURSIVE Led(_, _, _, _)
Led(trie, key, pos, depth) ==
  LET node == trie.node[pos]
      at   == depth + node.skip
  IN  IF node.branch = 0 THEN trie.base[node.adr + 1] @@ [depth |-> at]
      ELSE Led(trie, key, node.adr + extract(at, node.branch, key \o zeros(at + node.branch)),
               at + node.branch)

LocalChain(trie, entry) == Chain(Routed(trie.entries), entry)

exactPrefix(trie, key) ==
  LET entry == Led(trie, key, 0, 0)
  IN  IF entry.prefix = key THEN ActionOf(trie.entries, entry.route)
      ELSE IF key \in LocalChain(trie, entry) THEN ActionOf(trie.entries, key)
      ELSE Missing

\* The entry itself, when it is the bits that led to it, or the longest route
\* of its chain the key begins with
longestPrefix(trie, key) ==
  LET entry   == Led(trie, key, 0, 0)
      shorter == { r \in LocalChain(trie, entry) : IsPrefix(r, key) }
  IN  IF entry.prefix = substr(key, 0, entry.depth) THEN ActionOf(trie.entries, entry.route)
      ELSE IF shorter = {} THEN Missing
      ELSE ActionOf(trie.entries, CHOOSE r \in shorter : \A q \in shorter : Len(q) <= Len(r))
==============================================================================
