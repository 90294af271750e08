------------------------------ MODULE BitString ------------------------------
(***************************************************************************)
(* The bit strings that keys and prefixes of the lookup structures are     *)
(* made of (tries/src/BitString.cpp), and the order and prefix relation of *)
(* the entries of a routing table (tries/src/RoutingTableEntry.h).         *)
(*                                                                         *)
(* A bit string is a sequence of bits, the most significant first; the     *)
(* strings of characters the class can be made from and printed as are     *)
(* left out.                                                               *)
(***************************************************************************)
EXTENDS Integers, Sequences, SequencesExt

Bit == {0, 1}

\* substr(startPos, length): cut off at the end of the string.  Where startPos
\* is not inside the string the code throws, as it does for the empty prefix in
\* a multibit trie; no table here asks for that.
substr(b, startPos, length) ==
  SubSeq(b, startPos + 1, IF startPos + length > Len(b) THEN Len(b) ELSE startPos + length)

\* substr(startPos), up to the end
tailFrom(b, startPos) == SubSeq(b, startPos + 1, Len(b))

zeros(n) == [i \in 1 .. n |-> 0]

\* The value of a non-empty string; of an empty one the code answers -1, as an
\* unsigned number larger than every other.
Unsigned == 2^30

toInt(b) ==
  IF b = <<>> THEN Unsigned - 1 ELSE FoldLeft(LAMBDA x, y : 2 * x + y, 0, b)

\* The n lowest bits of x
intToBitString(x, n) == [i \in 1 .. n |-> (x \div 2^(n - i)) % 2]

\* The bits that follow `startPos`, as a number, and 0 when there are not
\* enough of them (LCTrie::extract and RangeTrie::extract).
extract(startPos, length, b) ==
  IF startPos + length > Len(b) THEN 0 ELSE toInt(substr(b, startPos, length))

\* RoutingTableEntry::compareEntries: bit by bit, a prefix before what it is a
\* prefix of.
compareEntries(first, second) ==
  \/ IsStrictPrefix(first, second)
  \/ \E i \in 1 .. Len(first) :
       /\ i <= Len(second) /\ first[i] = 0 /\ second[i] = 1
       /\ SubSeq(first, 1, i - 1) = SubSeq(second, 1, i - 1)

\* The strings of a set in that order
Sorted(strings) ==
  SortSeq(FoldSet(LAMBDA s, seq : Append(seq, s), <<>>, strings), compareEntries)
==============================================================================
