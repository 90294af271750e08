---------------------------- MODULE TrieVariants ----------------------------
(***************************************************************************)
(* The classes that may stand behind a longest-prefix-match table in place *)
(* of PrefixTree (LPM_TRIE in P4.cpp), used through the interface of       *)
(* tries/src/Trie.h: made from a table of routes, then updated.            *)
(***************************************************************************)
EXTENDS BitString

CONSTANTS Classes,    \* of "MultibitTrie", "HashTrie", "LCTrie" and "RangeTrie"
          Routes,     \* the prefixes a table may have, none of them empty
          Addresses,  \* the keys packets are looked up with
          TableSize,  \* routes a table is made with
          Changes,    \* additions and removals, where the class has them
          Width,      \* bits of an address
          Levels,     \* levels a multibit trie may have
          HashDigits, HashLevels, HashOf(_), RehashOf(_),      \* of a hash trie
          ComparatorWidth, SubComparators, Bandwidth  \* of a range trie

\* Comparators are at least a bit wide, and a node has two branches at least
\* (otherwise the construction of a range trie divides by 0 or does not end).
ASSUME ComparatorAssumption ==
  /\ SubComparators \in 1 .. ComparatorWidth
  /\ Bandwidth >= 2 * ComparatorWidth

VARIABLES class,      \* what stands behind the table
          structure,  \* the trie, None before it is made
          table,      \* the routes in the table
          changes,    \* changes since it was made
          removed     \* has one of them been a removal?

vars == <<class, structure, table, changes, removed>>

None == [none |-> TRUE]

\* struct Value of P4.h; every route has a handle of its own
Action(r) == [match |-> TRUE, handle |-> r]
Miss  == [match |-> FALSE, handle |-> <<>>]
Blank == [match |-> TRUE, handle |-> <<>>]

MULTIBIT == INSTANCE MultibitTrie WITH mHeight <- Levels, Default <- Miss
LC == INSTANCE LCTrie WITH ADR_SIZE <- Width, Missing <- Miss
HASH == INSTANCE HashTrie WITH Digit <- HashDigits, LEVELS <- HashLevels, KeyBits <- 32,
                               Hash <- HashOf, Rehash <- RehashOf, Default <- Miss
RANGE == INSTANCE RangeTrie WITH mPrefixLength <- Width, mMaxComparatorWidth <- ComparatorWidth,
                                 mNumOfSubComparators <- SubComparators,
                                 mMemoryBandwidth <- Bandwidth

Entries(keys) == [i \in DOMAIN keys |-> <<keys[i], Action(keys[i])>>]

Init ==
  /\ class \in Classes
  /\ structure = None
  /\ table = {}
  /\ changes = 0
  /\ removed = FALSE

\* A range trie is made from tables with a default route only: in others the
\* top of an empty stack is read (RangeTrie.h:282).
Always == IF class = "RangeTrie" THEN {<<>>} ELSE {}

Reconstructed(keys) ==
  CASE class = "MultibitTrie" ->
         MULTIBIT!updateRoutes(MULTIBIT!NoMultibitTrie, Entries(keys), "Reconstruct")
    [] class = "HashTrie" -> HASH!update(HASH!newTrie, Entries(keys), "Reconstruct")
    [] class = "LCTrie" -> LC!constructTrie(Entries(keys))
    [] class = "RangeTrie" -> RANGE!buildTrie(Sorted(ToSet(keys) \union Always))

\* The constructor, with a table in any order
Construct(keys) ==
  /\ structure' = Reconstructed(keys)
  /\ table' = ToSet(keys) \union Always
  /\ UNCHANGED <<class, changes, removed>>

\* Two of the classes are changed in place.
InPlace == class \in {"MultibitTrie", "HashTrie"}

Updated(r, action) ==
  IF class = "HashTrie" THEN HASH!update(structure, Entries(<<r>>), action)
  ELSE MULTIBIT!updateRoutes(structure, Entries(<<r>>), action)

Update(r, action) ==
  /\ structure # None /\ InPlace /\ changes < Changes
  /\ structure' = Updated(r, action)
  /\ table' = IF action = "Add" THEN table \union {r} ELSE table \ {r}
  /\ changes' = changes + 1
  /\ removed' = (removed \/ action = "Remove")
  /\ UNCHANGED class

\* The others are constructed again: LCTrie throws a string for anything but
\* Reconstruct, RangeTrie's insert() and remove() are unfinished.
Tables ==
  IF structure = None THEN { f \in [1 .. TableSize -> Routes] : IsInjective(f) }
  ELSE IF InPlace THEN {}
  ELSE { Sorted(t) : t \in { table \union {r} : r \in Routes \ table }
                              \union { table \ {r} : r \in table \ Always } } \ {Sorted(Always)}

Next ==
  \/ \E keys \in Tables : Construct(keys)
  \/ \E r \in Routes \ table : Update(r, "Add")
  \/ \E r \in table : Update(r, "Remove")

Spec == Init /\ [][Next]_vars

-----------------------------------------------------------------------------
\* A lookup in a multibit trie whose root was freed reads a null pointer.
Rooted == structure # None /\ (class = "MultibitTrie" => DOMAIN structure.node # {})

lookup(trie, key) ==
  CASE class = "LCTrie" -> LC!longestPrefix(trie, key)
    [] class = "HashTrie" -> HASH!longestPrefixMatch(trie, key)
    [] class = "MultibitTrie" -> MULTIBIT!longestRoute(trie, key)

exactLookup(prefix) ==
  CASE class = "LCTrie" -> LC!exactPrefix(structure, prefix)
    [] class = "HashTrie" -> HASH!exactPrefixMatch(structure, prefix)
    [] class = "MultibitTrie" -> MULTIBIT!exactRoute(structure, prefix)

rangeAnswer(owner) == IF owner = <<>> THEN Miss ELSE Action(owner[1])
rangeLookup(key) == rangeAnswer(RANGE!RangeOwner(structure, key))

\* A multibit trie gives up a route that would need more levels than it may
\* have; the levels along a route that was not given up reach its end.
Kept(r) == class # "MultibitTrie" \/ \E p \in DOMAIN structure.node : IsPrefix(r, p)

Longest(key) ==
  LET matching == { r \in table : IsPrefix(r, key) /\ (Kept(r) \/ changes = 0) }
  IN  IF matching = {} THEN Miss
      ELSE Action(CHOOSE r \in matching : \A q \in matching : Len(q) <= Len(r))

\* Removals from a multibit trie leave it with less than the routes left.
Intact == class # "RangeTrie" /\ Rooted /\ (class = "MultibitTrie" => ~ removed)

\* Whatever the table, however its base vector was expanded while the trie was
\* built (LCTrie), and whatever was added to it in whatever order
\* (MultibitTrie) or removed from it, with hashes that part late (HashTrie), an
\* address is answered with its longest route.  Only a route added later to a
\* multibit trie may be given up: the strides chosen for a table use the levels
\* up exactly and keep every route of it.
LongestMatch ==
  Intact => \A a \in Addresses : lookup(structure, a) = Longest(a)

\* A range trie's comparisons lead the addresses where the answer may change,
\* the first of a route and the first after it, to their longest route, however
\* the bounds are grouped under the comparator's width.  (Not so when one route
\* ends exactly where another begins, for which the code forgets the routes
\* around both, and not always for the addresses between.)
BoundsMatch ==
  class = "RangeTrie" /\ structure # None
    /\ (\A r, q \in table : RANGE!Upper(r) # RANGE!Lower(q)) =>
       \A a \in Addresses :
         (\E r \in table : toInt(a) \in {RANGE!Lower(r), RANGE!Upper(r)})
           => rangeLookup(a) = Longest(a)

\* An exact lookup finds every route (MultibitTrie: if a level ends where it
\* does), and no other prefix, but for the shorter route that was expanded to
\* it and for a node never set (LCTrie, MultibitTrie).
FoundExactly ==
  Intact =>
    \A r \in Routes :
      LET found == exactLookup(r)
      IN  IF r \in table THEN found = Action(r) \/ (class = "MultibitTrie" /\ found = Miss)
          ELSE \/ found = Miss
               \/ class = "MultibitTrie" /\ found = Blank
               \/ class # "HashTrie" /\ \E q \in table : IsStrictPrefix(q, r) /\ found = Action(q)

\* A change of one route touches no other: it changes the answer for no address
\* outside that route, and no route that was kept is given up, nor the root of
\* a multibit trie freed under one.
ChangesLocal ==
  [][InPlace /\ structure # None =>
       /\ \A r \in table \cap table' : Kept(r) => Kept(r)'
       /\ Rooted /\ Rooted' =>
            \A a \in Addresses :
              lookup(structure', a) # lookup(structure, a) =>
                \E r \in (table \ table') \union (table' \ table) : IsPrefix(r, a)]_vars
==============================================================================
