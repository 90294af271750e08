------------------------------ MODULE RangeTrie ------------------------------
(***************************************************************************)
(* The range trie (tries/src/RangeTrie.h, RangeTrieNode.h), one of the     *)
(* classes the switch can take for its longest-prefix-match tables: how it *)
(* is built from a table, and lookups.  insert() and remove() are          *)
(* unfinished and left out.                                                *)
(*                                                                         *)
(* A route covers a range of addresses; the ranges of all of them cut the  *)
(* addresses up into regions, each owned by one route (a region's id in    *)
(* the code is the place of that route's action in mActionTable).  A tree  *)
(* of comparisons with the bounds of the regions leads an address to its   *)
(* own.  Addresses are numbers here where the code compares their bit      *)
(* strings whole.                                                          *)
(***************************************************************************)
EXTENDS BitString

CONSTANTS mPrefixLength,         \* bits of an address
          mMaxComparatorWidth,   \* bits a comparator compares
          mNumOfSubComparators,  \* parts it may be split into
          mMemoryBandwidth       \* bits of comparands read at once

MaxAddress == 2^mPrefixLength

-----------------------------------------------------------------------------
(* Regions *)

\* The first address of a route, and the first after it: the last 0 of the
\* route becomes 1 and what follows 0.
Lower(r) == toInt(r \o zeros(mPrefixLength - Len(r)))

Upper(r) ==
  LET unset == { j \in 1 .. Len(r) : r[j] = 0 }
      last  == Max(unset)
  IN  IF unset = {} THEN MaxAddress
      ELSE toInt(SubSeq(r, 1, last - 1) \o <<1>> \o zeros(mPrefixLength - last))

\* The regions up to some route, the sorted routes being taken in turn: where
\* each region starts, where the last but one ends, and the ends of the routes
\* around, the innermost last.
NoRegions(first) ==
  [open |-> <<>>, end |-> first, lower |-> IF first = 0 THEN <<0>> ELSE <<0, first>>]

\* Faulty variant: routes that end together get a region each.
EndEach(acc, at) == [acc EXCEPT !.lower = Append(@, acc.end), !.end = at]

EndAt(acc, at) ==
  IF acc.end = at THEN acc
  ELSE [acc EXCEPT !.lower = Append(@, acc.end), !.end = at]

StartAt(acc, at) == [acc EXCEPT !.lower = Append(@, at)]

\* The routes around, once those that end before this one have been dropped
Opened(around, end) ==
  IF around # <<>> /\ end >= Last(around) THEN around ELSE Append(around, end)

\* The next route lies inside this one.
Inside(acc, this, start) ==
  LET opened == [acc EXCEPT !.open = Opened(SelectSeq(@, LAMBDA end : this.lower < end),
                                            this.upper)]
  IN  IF start = Last(acc.lower) THEN opened
      ELSE StartAt([opened EXCEPT !.end = start], start)

\* There is a gap between them, where the routes around this one may end.
Beyond(acc, this, start) ==
  LET ended == FoldLeft(EndAt,
                        [acc EXCEPT !.end = this.upper,
                                    !.open = SelectSeq(@, LAMBDA end : end >= start)],
                        Reverse(SelectSeq(acc.open, LAMBDA end : end < start)))
  IN  StartAt(EndAt(ended, start), start)

NextRoute(acc, this, start) ==
  CASE this.upper > start -> Inside(acc, this, start)
    [] this.upper < start -> Beyond(acc, this, start)
    [] OTHER -> StartAt([acc EXCEPT !.end = this.upper], start)

\* After the last route those still around end.  (With none, top() of an empty
\* stack is read.)
EndOpen(acc, open) ==
  LET step(a, at) ==
        IF Last(a.lower) >= at THEN a
        ELSE [a EXCEPT !.end = at, !.lower = IF at = open[1] THEN @ ELSE Append(@, at)]
  IN  FoldLeft(step, acc, Reverse(open))

LastRoute(acc, end) ==
  EndOpen(acc, IF end < Last(acc.open) THEN Append(acc.open, end) ELSE acc.open)

\* Where the regions start
UpToMax(acc) == IF acc.end = MaxAddress THEN acc.lower ELSE Append(acc.lower, acc.end)

RegionStarts(ranges) ==
  LET step(acc, i) == NextRoute(acc, ranges[i], ranges[i + 1].lower)
  IN  UpToMax(LastRoute(FoldLeft(step, NoRegions(ranges[1].lower),
                                 [i \in 1 .. Len(ranges) - 1 |-> i]),
                        Last(ranges).upper))

-----------------------------------------------------------------------------
(* Owners of regions, found with the route the search starts from; <<>> is *)
(* none.                                                                   *)

Covers(r, address) == IsPrefix(r, intToBitString(address, mPrefixLength))

\* From the route that comes next back to one that covers the start of the
\* region; when it is the one that comes next, on through those that do too.
Owner(routes, acc, index, start) ==
  LET backTo(js)  == [acc EXCEPT !.index = index,
                                 !.owners = Append(@, IF js = {} THEN <<>>
                                                      ELSE <<routes[Max(js)]>>)]
      through(last) == [index |-> last + 1, owners |-> Append(acc.owners, <<routes[last]>>)]
  IN  IF Covers(routes[index], start)
      THEN through(Max({ k \in index .. Len(routes) :
                           \A i \in index .. k : Covers(routes[i], start) }))
      ELSE backTo({ j \in 1 .. index - 1 : Covers(routes[j], start) })

Owners(routes, starts) ==
  LET step(acc, start) == Owner(routes, acc, Min({acc.index, Len(routes)}), start)
  IN  FoldLeft(step, [index |-> 1, owners |-> <<>>], starts).owners

-----------------------------------------------------------------------------
(* The tree, from the top down, over bounds as bit strings *)

\* How many bits all strings begin and end with
commonPrefix(strings) ==
  Max({ n \in 0 .. Len(strings[1]) - 1 :
          \A i \in DOMAIN strings : SubSeq(strings[i], 1, n) = SubSeq(strings[1], 1, n) })

commonSuffix(strings) ==
  Max({ n \in 0 .. Len(strings[1]) :
          \A i \in DOMAIN strings :
            tailFrom(strings[i], Len(strings[i]) - n) = tailFrom(strings[1], Len(strings[1]) - n) })

\* Branches of a node with n bounds when its comparator is split in parts
Branches(n, parts) ==
  Min({mMemoryBandwidth \div (mMaxComparatorWidth \div parts), n \div parts + 1})

MostBranches(n) == Max({ Branches(n, parts) : parts \in 1 .. mNumOfSubComparators })

ComparisonWidth(n) ==
  mMaxComparatorWidth \div Min({ parts \in 1 .. mNumOfSubComparators :
                                   Branches(n, parts) = MostBranches(n) })

\* Bounds that agree in the bits compared are one group, which goes on behind
\* those bits; `part` gives the bits of a bound.
Groups(part, after) ==
  LET starts == SelectSeq([i \in DOMAIN part |-> i],
                          LAMBDA i : i = 1 \/ part[i] # part[i - 1])
  IN  [g \in DOMAIN starts |->
         [from |-> starts[g],
          to |-> IF g = Len(starts) THEN Len(part) ELSE starts[g + 1] - 1,
          pos |-> after]]

\* Too many groups: one below the average is merged with the next and goes on
\* in front of the bits compared.
Averaged(groups, n, before) ==
  LET average == (n + Len(groups) - 1) \div Len(groups)
      small(g) == g.to - g.from + 1 < average /\ g.to # n
      step(acc, g) ==
        IF acc.small
        THEN [small |-> FALSE, groups |-> [acc.groups EXCEPT ![Len(acc.groups)].to = g.to]]
        ELSE [small |-> small(g),
              groups |-> Append(acc.groups, IF small(g) THEN [g EXCEPT !.pos = before] ELSE g)]
  IN  FoldLeft(step, [small |-> FALSE, groups |-> <<>>], groups).groups

\* Still too many: two by two, again and again
RECURSIVE Halved(_, _, _)
Halved(groups, most, before) ==
  LET n == Len(groups)
      pair(i) == [from |-> groups[2 * i - 1].from, to |-> groups[Min({2 * i, n})].to,
                  pos |-> before]
  IN  IF n <= most THEN groups
      ELSE Halved([i \in 1 .. (n + 1) \div 2 |-> pair(i)], most, before)

\* A node: the bits compared, those in front of them that all its bounds share,
\* and where to go, which in a leaf are the owners of the regions its bounds
\* separate and in an inner node a child for each group.  (A leaf keeps the bits
\* all its bounds end with too, which lookups only look at when they have found
\* the region.  The words of a node in table memory are written at an address
\* the constructor never sets, and no getter returns what it reads there.)
RangeTrieNode(pos, length, prefix, prefixLength, comparisons, owners) ==
  [pos |-> pos, length |-> length, prefix |-> prefix, prefixLength |-> prefixLength,
   comparisons |-> comparisons, owners |-> owners, next |-> <<>>]

\* The branches: complete when nothing is left to compare, otherwise each goes
\* on in its group.
Finish(node, groups, part, owners, complete, children) ==
  LET first == [g \in DOMAIN groups |-> toInt(part[groups[g].from])]
  IN  IF complete THEN [node EXCEPT !.comparisons = first, !.owners = owners]
      ELSE [node EXCEPT !.comparisons = Tail(first),
                        !.next = children]

RECURSIVE buildTopDown(_, _, _)
buildTopDown(bounds, owners, pos) ==
  LET n == Len(bounds)
      child(g) == buildTopDown(SubSeq(bounds, g.from, g.to), SubSeq(owners, g.from, g.to + 1),
                               g.pos)
      branched(node, groups, part, complete) ==
        Finish(node, groups, part, owners, complete, [g \in DOMAIN groups |-> child(groups[g])])
      halved(node, groups, part, rest, most) ==
        branched(node, Halved(groups, most, node.pos), part, rest = 0 /\ Len(groups) <= most)
      averaged(node, groups, part, rest, most) ==
        halved(node, IF Len(groups) > most THEN Averaged(groups, n, node.pos) ELSE groups, part,
               rest, most)
      group(node, part, rest, most) ==
        averaged(node, Groups(part, node.pos + node.length), part, rest, most)
      compared(strings, prefix, width, rest) ==
        group(RangeTrieNode(pos + prefix, width, toInt(substr(strings[1], 0, prefix)), prefix,
                       <<>>, <<>>),
              [i \in 1 .. n |-> substr(strings[i], prefix, width)], rest, MostBranches(n))
      narrowed(strings, prefix, free, width) ==
        compared(strings, prefix, Min({width, free}), free - Min({width, free}))
      free(strings, prefix) ==
        narrowed(strings, prefix,
                 mPrefixLength - pos - prefix - commonSuffix(strings), ComparisonWidth(n))
      node(strings) == free(strings, commonPrefix(strings))
  IN  IF n = 1
      THEN RangeTrieNode(pos, mPrefixLength - pos, 0, 0, <<toInt(tailFrom(bounds[1], pos))>>, owners)
      ELSE node([i \in 1 .. n |-> tailFrom(bounds[i], pos)])

\* The constructor, and update() with Reconstruct
TrieOf(starts, owners) ==
  [root |-> buildTopDown([i \in 1 .. Len(starts) - 1 |->
                            intToBitString(starts[i + 1], mPrefixLength)], owners, 0),
   first |-> owners[1]]

buildFrom(routes, starts) == TrieOf(starts, Owners(routes, starts))

buildTrie(routes) ==
  buildFrom(routes, RegionStarts([i \in DOMAIN routes |->
                                    [lower |-> Lower(routes[i]), upper |-> Upper(routes[i])]]))

-----------------------------------------------------------------------------
(* Lookups *)

\* Which way from a node: by the bits in front of those compared, if they
\* differ, or by comparisons
Way(node, address) ==
  LET n        == Len(node.comparisons)
      prefix   == toInt(substr(address, node.pos - node.prefixLength, node.prefixLength))
      compared == toInt(substr(address, node.pos, node.length))
      atLeast(i) == node.comparisons[i] <= compared
  IN  IF node.prefixLength # 0 /\ prefix # node.prefix
      THEN IF prefix < node.prefix THEN 0 ELSE n
      ELSE IF ~ atLeast(1) THEN 0
      ELSE IF atLeast(n) THEN n
      ELSE Min({ i \in 1 .. n - 1 : atLeast(i) /\ ~ atLeast(i + 1) })

RECURSIVE Region(_, _)
Region(node, address) ==
  LET way == Way(node, address) + 1
  IN  IF node.owners # <<>> THEN node.owners[way] ELSE Region(node.next[way], address)

\* The region of an address, and the route that owns it, <<>> if none: the
\* first is answered at once.  exactPrefixMatch is the same.
RangeOwner(trie, address) ==
  IF toInt(address) = 0 THEN trie.first ELSE Region(trie.root, address)
==============================================================================
