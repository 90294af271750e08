------------------------------ MODULE HashTrie ------------------------------
(***************************************************************************)
(* The hash trie behind every exact-match table of the switch              *)
(* (tries/src/HashTrie.h, tries/src/HashTableEntry.h).                     *)
(*                                                                         *)
(* A trie gives, for every entry, what it holds.  An entry is named by the *)
(* digits (STRIDE bits of a hash) on the way to it: those of length one    *)
(* are the entries of mRoot, and those that extend the name of a bitmap    *)
(* entry are the array its pointer points to, the bitmap saying which are  *)
(* there.  A key/value entry has flag TRUE.  A bitmap entry with no bit    *)
(* set is an empty one.                                                    *)
(***************************************************************************)
EXTENDS BitString

CONSTANTS Digit,      \* values of STRIDE bits of a hash
          LEVELS,     \* PRE_LEN / STRIDE, digits of a hash
          KeyBits,    \* bits of the integer an entry keeps a key in
          Hash(_),    \* the digits of the hash of a key
          Rehash(_),  \* the digits of the hash of the bits of a hash
          Default     \* mDefaultAction

KeyValue(key, value) == [flag |-> TRUE, key |-> key, value |-> value]
Bitmap == [flag |-> FALSE, key |-> <<>>, value |-> Default]

\* What an entry keeps of a key, which goes through an integer: the bits above
\* the lowest KeyBits come back as zeros.
Kept(key) ==
  IF Len(key) <= KeyBits THEN key
  ELSE zeros(Len(key) - KeyBits) \o tailFrom(key, Len(key) - KeyBits)

\* The digits that lead a key down: its hash is hashed when it is used up, for
\* up to twice its length here.
DigitsOf(key) == Hash(key) \o Rehash(Hash(key)) \o Rehash(Rehash(Hash(key)))

\* The digit a resident key is given when its entry is split: always one of
\* its own hash, however deep the entry lies.
ResidentDigit(key, i) == Hash(key)[((i - 1) % LEVELS) + 1]

newTrie == [p \in { <<d>> : d \in Digit } |-> Bitmap]

\* The array an entry's pointer points to.  What extract() and popcount() find
\* out from the bitmap, the place in the array for a digit, is its name here.
Subtrie(trie, p) == { Append(p, d) : d \in Digit } \cap DOMAIN trie

\* The entry at which the walk along a key ends
Reached(trie, key) ==
  LET way == { p \in Prefixes(DigitsOf(key)) : p \in DOMAIN trie }
  IN  CHOOSE p \in way : \A q \in way : Len(q) <= Len(p)

\* A key whose walk ends at another key after a whole hash is looked for in
\* the array of an entry that has none: the read of a null pointer, unless the
\* bit tested in the other key happens to be 0.
Faults(trie, key) ==
  LET p == Reached(trie, key)
  IN  trie[p].flag /\ trie[p].key # key /\ Len(p) % LEVELS = 0

exactPrefixMatch(trie, key) ==
  LET entry == trie[Reached(trie, key)]
  IN  IF entry.flag /\ entry.key = key THEN entry.value ELSE Default

\* The key, then the key less its last bit, and so on
longestPrefixMatch(trie, key) ==
  LET found == { q \in Prefixes(key) : exactPrefixMatch(trie, q) # Default }
  IN  IF found = {} THEN Default
      ELSE exactPrefixMatch(trie, CHOOSE q \in found : \A r \in found : Len(r) <= Len(q))

With(trie, p, entry) ==
  [q \in DOMAIN trie \union {p} |-> IF q = p THEN entry ELSE trie[q]]

WithBitmaps(trie, names) ==
  [q \in DOMAIN trie \union names |-> IF q \in names THEN Bitmap ELSE trie[q]]

Without(trie, gone) == [p \in DOMAIN trie \ gone |-> trie[p]]

\* Faulty variant: the two keys are parted by the next digit, even when it is
\* the same.
SplitOnce(trie, p, key, value) ==
  LET depth == Len(p) + 1
      resident == Append(p, ResidentDigit(trie[p].key, depth))
      added == With(trie, SubSeq(DigitsOf(key), 1, depth), KeyValue(Kept(key), value))
  IN  With(With(added, resident, trie[p]), p, Bitmap)

\* The entry of another key becomes a bitmap, and both go as far down as it
\* takes to part them.
Split(trie, p, key, value) ==
  LET digits == DigitsOf(key)
      parts(i) == ResidentDigit(trie[p].key, i) # digits[i]
      depth == CHOOSE i \in (Len(p) + 1) .. Len(digits) :
                 parts(i) /\ \A j \in (Len(p) + 1) .. (i - 1) : ~ parts(j)
      bitmaps == { SubSeq(digits, 1, i) : i \in Len(p) .. (depth - 1) }
      resident == Append(SubSeq(digits, 1, depth - 1), ResidentDigit(trie[p].key, depth))
      added == With(trie, SubSeq(digits, 1, depth), KeyValue(Kept(key), value))
  IN  WithBitmaps(With(added, resident, trie[p]), bitmaps)

insert(trie, key, value) ==
  LET p == Reached(trie, key)
  IN  IF trie[p].flag
      THEN IF trie[p].key = key THEN [trie EXCEPT ![p].value = value]
           ELSE Split(trie, p, key, value)
      ELSE IF Subtrie(trie, p) = {}
      THEN [trie EXCEPT ![p] = KeyValue(Kept(key), value)]
      ELSE With(trie, SubSeq(DigitsOf(key), 1, Len(p) + 1), KeyValue(Kept(key), value))

\* The entry the walk ends at goes, whatever key it holds, unless it is one of
\* mRoot.  When one other entry is left in its array and holds a key, that one
\* takes the place of the bitmap above.
remove(trie, key) ==
  LET p      == Reached(trie, key)
      parent == Front(p)
      others == Subtrie(trie, parent) \ {p}
  IN  IF ~ trie[p].flag THEN trie
      ELSE IF Len(p) = 1
      THEN IF trie[p].key = key THEN [trie EXCEPT ![p] = Bitmap] ELSE trie
      ELSE IF \E o \in others : others = {o} /\ trie[o].flag
      THEN LET o == CHOOSE o \in others : TRUE
           IN  With(Without(trie, {p, o}), parent, trie[o])
      ELSE Without(trie, {p})

insertAll(trie, entries) ==
  LET after[i \in 0 .. Len(entries)] ==
        IF i = 0 THEN trie ELSE insert(after[i - 1], entries[i][1], entries[i][2])
  IN  after[Len(entries)]

removeAll(trie, entries) ==
  LET after[i \in 0 .. Len(entries)] ==
        IF i = 0 THEN trie ELSE remove(after[i - 1], entries[i][1])
  IN  after[Len(entries)]

\* The actions of HashTrie::update
update(trie, entries, action) ==
  CASE action = "Add"         -> insertAll(trie, entries)
    [] action = "Remove"      -> removeAll(trie, entries)
    [] action = "Reconstruct" -> insertAll(newTrie, entries)
==============================================================================
