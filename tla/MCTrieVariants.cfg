CONSTANTS
  Classes = {"MultibitTrie", "HashTrie", "LCTrie", "RangeTrie"}
  Routes <- MCRoutes
  Addresses <- MCAddresses
  TableSize = 3
  Changes = 3
  Width = 4
  Levels = 2
  HashDigits = {0, 1, 2, 3}
  HashLevels = 3
  HashOf <- MCHash
  RehashOf <- MCRehash
  ComparatorWidth = 2
  SubComparators = 2
  Bandwidth = 4
SPECIFICATION Spec
CHECK_DEADLOCK FALSE
INVARIANTS
  LongestMatch
  BoundsMatch
  FoundExactly
PROPERTIES
  ChangesLocal
