\* Three resources and a foreign row, a cap of two entries, a settlement, a restart.
SPECIFICATION SearchFairSpec
CONSTANTS
  q1 = q1
  q2 = q2
  x = x
  y = y
  Keys = {k1, k2, k3}
  Old = {k1, k2}
  Foreign = {f}
  Texts = {x, y}
  OldText = x
  Queries = {q1, q2}
  Lexical <- MCLexical
  Similarity <- MCSimilarity
  MaxEntries = 2
  MaxQueryVectors = 1
  BatchSize = 2
  MaxUpserts = 1
  MaxFlushes = 1
  MaxCrashes = 1
  Null = Null
INVARIANTS
  OwnVectors
  FusionSound
PROPERTIES
  EveryRowEmbedded
