----------------------------- MODULE PrefixTree -----------------------------
(***************************************************************************)
(* The unibit trie behind every longest-prefix-match table of the switch   *)
(* (tries/src/PrefixTree.h, tries/src/UnibitNode.h).                       *)
(*                                                                         *)
(* A tree is a record: `node` gives, for every node, the action and the    *)
(* action flag it holds, and `default` is mDefaultAction.  A node is named *)
(* by the bits on the way to it, so that its children are the names one    *)
(* bit longer and a null pointer is a name that is not in the domain; no   *)
(* name at all is a tree whose mRoot is null.                              *)
(***************************************************************************)
EXTENDS BitString

CONSTANT Blank  \* the action a node is left with by `new UnibitNode<T>()`

UnibitNode(action, flag) == [action |-> action, flag |-> flag]

NoTree(default) == [node |-> [p \in {} |-> UnibitNode(Blank, FALSE)], default |-> default]

\* PrefixTree(iDefaultAction, ...)
newTree(default) ==
  [node |-> [p \in {<<>>} |-> UnibitNode(default, TRUE)], default |-> default]

Children(node, p) == { Append(p, b) : b \in Bit } \cap DOMAIN node

\* Down the tree along `key`, making the nodes that are missing.
insert(tree, key, action) ==
  LET rooted == IF DOMAIN tree.node = {} THEN newTree(tree.default).node ELSE tree.node
      path   == DOMAIN rooted \union Prefixes(key)
  IN  [node    |-> [p \in path |-> IF p = key THEN UnibitNode(action, TRUE)
                                   ELSE IF p \in DOMAIN rooted THEN rooted[p]
                                   ELSE UnibitNode(Blank, FALSE)],
       default |-> IF key = <<>> THEN action ELSE tree.default]

\* Faulty variant: pruning goes past nodes that have an action.
PrunedPastRoutes(tree, key) ==
  { p \in Prefixes(key) :
      \A q \in Prefixes(key) :
         (Len(p) <= Len(q) /\ q # key) => Children(tree.node, q) \subseteq Prefixes(key) }

\* Faulty variant: only the node of the key goes.
PrunedOne(tree, key) == {key}

\* What is pruned with the node of `key`: the nodes above it that have no
\* other child and no action, up to the first that has either.
Pruned(tree, key) ==
  { p \in Prefixes(key) :
      \A q \in Prefixes(key) :
         (Len(p) <= Len(q) /\ q # key)
            => /\ ~ tree.node[q].flag
               /\ Children(tree.node, q) \subseteq Prefixes(key) }

\* Nothing happens to the empty prefix, nor to one whose node is not there.  A
\* node with children stays and loses its action.
remove(tree, key) ==
  IF key = <<>> \/ key \notin DOMAIN tree.node THEN tree
  ELSE IF Children(tree.node, key) # {}
  THEN [tree EXCEPT !.node[key] = UnibitNode(tree.default, FALSE)]
  ELSE [tree EXCEPT !.node = [p \in DOMAIN tree.node \ Pruned(tree, key) |-> tree.node[p]]]

\* getNodeForPrefix: the node at which the prefix ends, if it is there.
exactPrefixMatch(tree, key) ==
  IF key \in DOMAIN tree.node THEN tree.node[key].action ELSE tree.default

\* The last node with an action on the way down, the root's action at least.
longestPrefixMatch(tree, key) ==
  IF DOMAIN tree.node = {} THEN tree.default
  ELSE LET flagged == { p \in Prefixes(key) \cap DOMAIN tree.node :
                          p = <<>> \/ tree.node[p].flag }
       IN  tree.node[CHOOSE p \in flagged : \A q \in flagged : Len(q) <= Len(p)].action

\* A table of entries <<key, action>>, inserted from the first to the last
insertAll(tree, entries) ==
  LET after[i \in 0 .. Len(entries)] ==
        IF i = 0 THEN tree ELSE insert(after[i - 1], entries[i][1], entries[i][2])
  IN  after[Len(entries)]

removeAll(tree, keys) ==
  LET after[i \in 0 .. Len(keys)] == IF i = 0 THEN tree ELSE remove(after[i - 1], keys[i])
  IN  after[Len(keys)]

\* The actions of PrefixTree::update.  Reconstruct keeps mDefaultAction, which
\* an entry with the empty prefix has changed.
update(tree, entries, action) ==
  CASE action = "Add"         -> insertAll(tree, entries)
    [] action = "Remove"      -> removeAll(tree, [i \in DOMAIN entries |-> entries[i][1]])
    [] action = "Reconstruct" -> insertAll(NoTree(tree.default), entries)
==============================================================================
