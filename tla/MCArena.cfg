SPECIFICATION Spec
CONSTANTS
  Root = Root
  SubArenas = {s1, s2}
  NoArena = NoArena
  WordSize = 2
  DefaultAlignment = 2
  MaxAlignment = 4
  SizeModulus = 128
  ArenaSizes = {0, 29}
  SubArenaSizes = {0, 1, 12}
  BlockSizes = {0, 3}
  Alignments = {2, 4, 8}
  Residue = {0, 5}
  PopBeforeAlloc = FALSE
SYMMETRY Symmetry
INVARIANTS TypeOK BlocksDisjoint BlocksAccounted BlocksAligned
PROPERTIES PopRevertsLastGrant DestroySparesSiblings KeepsPromise
