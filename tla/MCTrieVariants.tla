--------------------------- MODULE MCTrieVariants ---------------------------
EXTENDS TrieVariants

MCRoutes == { <<0>>, <<0, 1>>, <<0, 1, 1>>, <<0, 1, 1, 0>>, <<1>>, <<1, 0>>, <<1, 0, 0>>,
              <<1, 0, 1>>, <<1, 1, 0, 1>>, <<0, 0, 1>>, <<1, 1, 1>> }
MCAddresses == [1 .. 4 -> Bit]

\* Three digits of a hash, no two keys with the same, some with the same two
MCHash(key) ==
  LET h(value) == <<value % 4, (value \div 4) % 4, value \div 16>>
  IN  h((11 * toInt(<<1>> \o key)) % 64)
MCRehash(hash) == [i \in 1 .. 3 |-> 3 - hash[i]]
==============================================================================
