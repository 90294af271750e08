---------------------------- MODULE MultibitTrie ----------------------------
(***************************************************************************)
(* The multibit trie (tries/src/MultibitTrie.h, MultibitNode.h), one of    *)
(* the classes the switch can take for its longest-prefix-match tables.    *)
(*                                                                         *)
(* A level of the trie tests several bits at once, its stride, and a route *)
(* that ends inside a level is copied to every entry it covers.  A prefix  *)
(* tree on the side keeps the routes as they were given; the strides are   *)
(* the cheapest ones for it when a level is made, and stay.                *)
(*                                                                         *)
(* A node is named by the bits on the way to it: mRoot is the names of     *)
(* mRootStride bits, and what a node's pointer points to are the names     *)
(* `stride` bits longer than its own.                                      *)
(***************************************************************************)
EXTENDS PrefixTree, FiniteSetsExt

CONSTANTS mHeight,  \* levels a trie may have
          Default   \* mDefaultAction

MultibitNode == [stride |-> 0, action |-> Blank, flag |-> FALSE, length |-> 0]

\* What setAction and setLength leave in a node
Held(node, action, length) ==
  [node EXCEPT !.action = action, !.flag = TRUE, !.length = length]

Level(p, stride) == { p \o w : w \in [1 .. stride -> Bit] }

Fresh(p, stride) == [q \in Level(p, stride) |-> MultibitNode]

-----------------------------------------------------------------------------
(* The strides *)

\* Distance to the deepest leaf below a node, less one
Height(tree, p) == Max({ Len(q) : q \in { q \in DOMAIN tree.node : IsPrefix(p, q) } }) - Len(p) - 1

Leaf(tree, p) == Children(tree.node, p) = {}

\* Entries of the levels below a node, when its first level tests i bits and
\* `below` is what each node costs with a level less
Cost(tree, p, i, below) ==
  2^i + MapThenSumSet(LAMBDA q : below[q],
          { q \in DOMAIN tree.node : IsPrefix(p, q) /\ Len(q) = Len(p) + i })

\* Opt(iNode, iStride, iLevels): the fewest entries for what is below a node
Cheapest(tree) ==
  LET cost[levels \in Nat] ==
        LET below == cost[levels - 1]
        IN  [p \in DOMAIN tree.node |->
              IF Leaf(tree, p) \/ levels = 0 THEN 0
              ELSE IF levels = 1 THEN 2^(1 + Height(tree, p))
              ELSE Min({ Cost(tree, p, i, below) : i \in 1 .. 1 + Height(tree, p) })]
  IN  cost

\* The strides of the first level below a node that cost least
Best(tree, p, below) ==
  LET strides == 1 .. 1 + Height(tree, p)
  IN  { i \in strides : \A j \in strides : Cost(tree, p, i, below) <= Cost(tree, p, j, below) }

\* Opt(iNode, iLevels): the stride of the level below a node, the smallest of
\* the cheapest, 17 at most
Opt(tree, p, levels) ==
  IF Leaf(tree, p) \/ levels < 1 THEN 0
  ELSE IF levels = 1 THEN 1 + Height(tree, p)
  ELSE Min({17} \union Best(tree, p, Cheapest(tree)[levels - 1]))

-----------------------------------------------------------------------------
(* A trie is its nodes, mRootStride and mPrefixTree. *)

NoMultibitTrie ==
  [node |-> [p \in {} |-> MultibitNode], stride |-> 0, tree |-> newTree(Default)]

WithTree(trie, tree) == [trie EXCEPT !.tree = tree]

\* mRoot is made when there is none.
Rooted(trie) ==
  LET stride == IF trie.stride = 0 THEN Opt(trie.tree, <<>>, mHeight) ELSE trie.stride
  IN  IF DOMAIN trie.node # {} THEN trie
      ELSE [trie EXCEPT !.stride = stride, !.node = Fresh(<<>>, stride)]

\* Faulty variant: longer prefixes in the level are written over.
FillAll(node, p, stride, prefix, action) ==
  LET covered == { q \in Level(p, stride) : IsPrefix(prefix, q) }
  IN  [q \in covered |-> Held(node[q], action, Len(prefix))] @@ node

\* A prefix goes to every entry of the level it ends in that it covers and
\* that holds no longer one.
Fill(node, p, stride, prefix, action) ==
  LET covered == { q \in Level(p, stride) : IsPrefix(prefix, q) /\ node[q].length <= Len(prefix) }
  IN  [q \in covered |-> Held(node[q], action, Len(prefix))] @@ node

\* The stride of the level below the node reached, chosen when it is made
StrideAt(tree, walk, levels) ==
  IF walk.node[walk.at].stride # 0 THEN walk.node[walk.at].stride
  ELSE Opt(tree, walk.at, levels)

\* One level down, to the end of the prefix if that lies inside
Down(walk, stride, prefix, action) ==
  LET p     == walk.at
      node  == IF walk.node[p].stride # 0 THEN walk.node
               ELSE Fresh(p, stride) @@ [walk.node EXCEPT ![p].stride = stride]
      depth == Len(p) + stride
  IN  IF depth >= Len(prefix)
      THEN [at |-> prefix, node |-> Fill(node, p, stride, prefix, action)]
      ELSE [at |-> SubSeq(prefix, 1, depth), node |-> node]

\* Level after level down along the prefix, making those that are missing.
\* When there are mHeight of them the prefix is given up, silently.
insertNode(trie, prefix, action) ==
  LET down(walk, levels) ==
        IF Len(walk.at) >= Len(prefix) THEN walk
        ELSE Down(walk, StrideAt(trie.tree, walk, levels), prefix, action)
      root == [at |-> SubSeq(prefix, 1, trie.stride), node |-> trie.node]
  IN  [trie EXCEPT !.node =
         IF trie.stride >= Len(prefix) THEN Fill(@, <<>>, trie.stride, prefix, action)
         ELSE FoldLeft(down, root, [i \in 1 .. mHeight - 1 |-> mHeight - i]).node]

insertRoute(trie, prefix, action) ==
  insertNode(Rooted(WithTree(trie, insert(trie.tree, prefix, action))), prefix, action)

insertRoutes(trie, entries) ==
  FoldLeft(LAMBDA t, e : insertRoute(t, e[1], e[2]), trie, entries)

-----------------------------------------------------------------------------
(* Removal *)

\* Lengths of what is left of a prefix, up to `stride` bits shorter, that the
\* prefix tree answers `action` for
Sources(tree, prefix, stride, action) ==
  { k \in 0 .. Len(prefix) - 1 :
      /\ k >= Len(prefix) - stride
      /\ exactPrefixMatch(tree, SubSeq(prefix, 1, k)) = action }

\* In a level below the root.  The nodes that held the prefix are to hold the
\* next longest one, unless a node above holds it: then they are left with the
\* default action, and with their flag.  Of the nodes a prefix was copied to,
\* only the first is given the next longest one.  (The levels that this
\* leaves empty would be freed, but a node left with its flag is not empty.)
RemovedBelow(trie, prefix, parent, tree, next) ==
  LET stride   == trie.node[parent].stride
      above    == { p \in DOMAIN trie.node : IsStrictPrefix(p, prefix) }
      shadowed == \E p \in above : trie.node[p].action = next
      sources  == Sources(tree, prefix, stride, next)
      holders  == { q \in Level(parent, stride) :
                      /\ IsPrefix(prefix, q)
                      /\ trie.node[q].action = exactPrefixMatch(trie.tree, prefix) }
      first(q) == \A r \in holders : q = r \/ compareEntries(q, r)
      held(q)  ==
        IF shadowed THEN Held(trie.node[q], Default, 0)
        ELSE IF q = prefix
        THEN Held(trie.node[q], next, IF sources = {} THEN 0 ELSE Min(sources))
        ELSE IF first(q)
        THEN Held(trie.node[q], next, IF sources = {} THEN Len(prefix) - stride ELSE Max(sources))
        ELSE trie.node[q]
  IN  [q \in IF Len(parent) + stride = Len(prefix) THEN {prefix} ELSE holders |-> held(q)]
        @@ trie.node

\* In the root's level: every node that held the prefix is given the next
\* longest one.
RemovedAtRoot(trie, prefix, tree, next) ==
  LET sources == Sources(tree, prefix, trie.stride, next)
      length  == IF next = Default THEN 0
                 ELSE IF trie.stride = Len(prefix) THEN Min(sources) ELSE Max(sources)
      holders == { q \in Level(<<>>, trie.stride) :
                     /\ IsPrefix(prefix, q)
                     /\ \/ q = prefix
                        \/ trie.node[q].action = exactPrefixMatch(trie.tree, prefix) }
  IN  [q \in holders |-> Held(trie.node[q], next, length)] @@ trie.node

\* Faulty variant: the level is freed with the nodes the prefix was in.
FreedAtOnce(root, stride, next) ==
  next = Default /\ \E p \in Level(<<>>, stride) : root[p].action = Default

\* The root's level is freed when every node of it has been given the default
\* action and leads nowhere.
Freed(root, stride, next) ==
  /\ next = Default
  /\ \A p \in Level(<<>>, stride) : root[p].action = Default /\ root[p].stride = 0

\* Nothing happens to a prefix that is not in the prefix tree, nor to one that
\* was given up when it was inserted.
removeRoute(trie, prefix) ==
  LET tree   == remove(trie.tree, prefix)
      next   == longestPrefixMatch(tree, prefix)
      above  == { p \in DOMAIN trie.node : IsStrictPrefix(p, prefix) }
      parent == CHOOSE p \in above : \A q \in above : Len(q) <= Len(p)
      root   == RemovedAtRoot(trie, prefix, tree, next)
  IN  IF prefix = <<>> \/ exactPrefixMatch(trie.tree, prefix) = Default THEN trie
      ELSE IF trie.stride >= Len(prefix)
      THEN IF Freed(root, trie.stride, next) THEN [NoMultibitTrie EXCEPT !.tree = tree]
           ELSE [trie EXCEPT !.node = root, !.tree = tree]
      ELSE IF trie.node[parent].stride = 0 THEN trie
      ELSE [trie EXCEPT !.node = RemovedBelow(trie, prefix, parent, tree, next), !.tree = tree]

-----------------------------------------------------------------------------
(* What lookups answer, when there is a root *)

\* The last node with its flag on the way down; only whole strides count.
longestRoute(trie, key) ==
  LET hits == { p \in Prefixes(key) \cap DOMAIN trie.node : trie.node[p].flag }
  IN  IF hits = {} THEN Default
      ELSE trie.node[CHOOSE p \in hits : \A q \in hits : Len(q) <= Len(p)].action

\* The node at the end of the prefix, if a level ends there, set or not; what
\* was expanded from a prefix that ends inside a level is not looked for.
exactRoute(trie, prefix) ==
  IF prefix # <<>> /\ prefix \in DOMAIN trie.node THEN trie.node[prefix].action ELSE Default

\* MultibitTrie::update, and the constructor for Reconstruct
updateRoutes(trie, entries, action) ==
  CASE action = "Add" -> insertRoutes(WithTree(trie, insertAll(trie.tree, entries)), entries)
    [] action = "Remove" -> FoldLeft(LAMBDA t, e : removeRoute(t, e[1]), trie, entries)
    [] action = "Reconstruct" ->
         LET tree == insertAll(newTree(Default), entries)
         IN  insertRoutes(Rooted(WithTree(NoMultibitTrie, tree)), entries)
==============================================================================
