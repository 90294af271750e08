CONSTANTS
  Kinds = {"lpm", "exact"}
  Routes <- MCRoutes
  Addresses <- MCAddresses
  ExactKeys <- MCKeys
  HashOf <- MCHash
  RehashOf <- MCRehash
  Digits = {0, 1}
  Levels = 3
  KeyWidth = 3
  TableSize = 3
SPECIFICATION Spec
CHECK_DEADLOCK FALSE

INVARIANTS
  LpmCorrect
  ExactCorrect
  TreeMinimal
  ExistsRightly
