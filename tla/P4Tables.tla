------------------------------ MODULE P4Tables ------------------------------
(***************************************************************************)
(* A match table of the P4 switch and the lookup structure the factory of  *)
(* P4.cpp makes for it: MemAwareLPMTrie with a PrefixTree inside when it   *)
(* matches longest prefixes, MemAwareExactMap with a HashTrie inside when  *)
(* it matches keys exactly.  Both are made with the first entry.           *)
(*                                                                         *)
(* The table itself (which entries there are, their handles, that a key    *)
(* is added once) is the switch library's, outside this repository.        *)
(***************************************************************************)
EXTENDS BitString, FiniteSets

CONSTANTS Kinds,       \* the match kinds considered, of "lpm" and "exact"
          Routes,      \* the prefixes that may be installed
          Addresses,   \* the keys packets are looked up with
          ExactKeys,   \* the keys of an exact table
          HashOf,      \* the digits of the hash of a key
          RehashOf,    \* the digits of the hash of a hash
          Digits, Levels, KeyWidth,
          TableSize    \* entries a table may hold

Hashes == [1 .. Levels -> Digits]

ASSUME TablesAssumption ==
  /\ Routes \subseteq Seq(Bit) /\ Addresses \subseteq Seq(Bit)
  /\ Levels \in Nat \ {0}
  /\ HashOf \in [ExactKeys -> Hashes] /\ RehashOf \in [Hashes -> Hashes]

VARIABLES kind,       \* match kind of the table
          structure,  \* the trie, None before the first entry
          table,      \* handle of every installed key
          gateway,    \* last value a route with the empty prefix was given
          used        \* keys ever installed

vars == <<kind, structure, table, gateway, used>>

\* No structure: either kind is a function on something.
None == <<>>

Handles == 1 .. TableSize
Invalid == 0  \* handle ~0

\* struct Value of P4.h: what a lookup answers
Value(handle) == [match |-> TRUE, handle |-> handle]
Miss  == [match |-> FALSE, handle |-> Invalid]
Blank == [match |-> TRUE, handle |-> Invalid]

HashDigits(key)    == HashOf[key]
RehashDigits(hash) == RehashOf[hash]

LPM == INSTANCE PrefixTree
EXACT == INSTANCE HashTrie WITH
           Digit <- Digits, LEVELS <- Levels, KeyBits <- KeyWidth,
           Hash <- HashDigits, Rehash <- RehashDigits, Default <- Miss

Keys == IF kind = "lpm" THEN Routes ELSE ExactKeys
Installed == DOMAIN table

\* create_for_exact, create_for_LPM
Init ==
  /\ kind \in Kinds
  /\ structure = None
  /\ table = [k \in {} |-> Invalid]
  /\ gateway = Miss
  /\ used = {}

exactPrefixMatch(key) ==
  IF kind = "lpm" THEN LPM!exactPrefixMatch(structure, key)
  ELSE EXACT!exactPrefixMatch(structure, key)

\* MemAwareLPMTrie::lookup and MemAwareExactMap::lookup
lookup(key) ==
  IF structure = None THEN Miss
  ELSE IF kind = "lpm" THEN LPM!longestPrefixMatch(structure, key)
  ELSE EXACT!exactPrefixMatch(structure, key)

\* Faulty variant: the longest prefix is looked up.
entry_existsLongest(key) == lookup(key).match

entry_exists(key) == structure # None /\ exactPrefixMatch(key).match

Updated(entries, action) ==
  IF kind = "lpm"
  THEN LPM!update(IF structure = None THEN LPM!newTree(Miss) ELSE structure, entries, action)
  ELSE EXACT!update(IF structure = None THEN EXACT!newTrie ELSE structure, entries, action)

FreeHandles == Handles \ { table[k] : k \in Installed }

\* store_entry, and add_entry for a single key.  The switch asks first whether
\* the keys exist already; the handles it gives are the lowest that are free.
store_entry(keys, handles) ==
  /\ \A i \in DOMAIN keys : ~ entry_exists(keys[i])
  /\ structure' = Updated([i \in DOMAIN keys |-> <<keys[i], Value(handles[i])>>], "Add")
  /\ table' = [k \in Installed \union ToSet(keys) |->
                  IF k \in ToSet(keys) THEN handles[CHOOSE i \in DOMAIN keys : keys[i] = k]
                  ELSE table[k]]
  /\ gateway' = IF <<>> \in ToSet(keys)
                THEN Value(table'[<<>>]) ELSE gateway
  /\ used' = used \union ToSet(keys)
  /\ UNCHANGED kind

delete_entry(key) ==
  /\ structure # None
  /\ structure' = Updated(<< <<key, Miss>> >>, "Remove")
  /\ table' = [k \in Installed \ {key} |-> table[k]]
  /\ UNCHANGED <<kind, gateway, used>>

Free(n) == SubSeq(SetToSortSeq(FreeHandles, <), 1, n)

AddOne == \E k \in Keys \ Installed :
            FreeHandles # {} /\ store_entry(<<k>>, Free(1))

AddTwo == \E k, l \in Keys \ Installed :
            k # l /\ Cardinality(FreeHandles) > 1 /\ store_entry(<<k, l>>, Free(2))

Delete == \E k \in Installed : delete_entry(k)

Next == AddOne \/ AddTwo \/ Delete

Spec == Init /\ [][Next]_vars

-----------------------------------------------------------------------------
Longest(keys) == CHOOSE k \in keys : \A l \in keys : Len(l) <= Len(k)

\* A packet is given the handle of the longest installed prefix of its
\* address, whatever was added and deleted before, in whatever order.  When no
\* prefix matches it is given what the last route with the empty prefix was
\* given, even after that route was deleted: PrefixTree::remove does nothing
\* for it.
LpmCorrect ==
  kind = "lpm" =>
    \A a \in Addresses :
      LET matching == { r \in Installed \ {<<>>} : IsPrefix(r, a) }
      IN  lookup(a) = IF matching = {} THEN gateway ELSE Value(table[Longest(matching)])

\* The keys whose bits survive the integer an entry keeps them in, and that
\* share their hash with no other key
WellKept(key) ==
  EXACT!Kept(key) = key /\ \A k \in used \ {key} : HashOf[k] # HashOf[key]

\* As long as only such keys were used, a packet with an installed key is given
\* its handle, every other packet misses and no null pointer is read: splitting
\* an entry for a new key, and pulling a key up when its neighbour goes, lose
\* and confuse none.
ExactCorrect ==
  (kind = "exact" /\ structure # None /\ \A k \in used : WellKept(k)) =>
    \A k \in used :
      /\ ~ EXACT!Faults(structure, k)
      /\ lookup(k) = IF k \in Installed THEN Value(table[k]) ELSE Miss

\* Deleting gives back every node it can and no other: the nodes of a tree are
\* the root and what lies on the way to an installed route.
TreeMinimal ==
  (kind = "lpm" /\ structure # None) =>
    DOMAIN structure.node = {<<>>} \union UNION { Prefixes(r) : r \in Installed }

\* An entry that is there is never added a second time.  One that is not there
\* is refused in two cases only: its prefix is the beginning of one that is
\* installed, whose tree node says "match" with no handle, or a route with the
\* empty prefix was installed once, which answers for every absent prefix.
ExistsRightly ==
  kind = "lpm" =>
    \A k \in Routes :
      /\ k \in Installed => entry_exists(k)
      /\ entry_exists(k) => \/ k \in Installed
                            \/ \E r \in Installed : IsStrictPrefix(k, r)
                            \/ gateway # Miss
==============================================================================
