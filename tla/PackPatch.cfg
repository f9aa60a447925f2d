CONSTANTS
  main = main
  lib = lib
  native = native
  x = x
  y = y
  BunFS = {main, lib}
  Foreign = {native}
  Bytes = {x, y}
  Length <- MCLength
  Empty = Empty
  None = None
  Keep = Keep
  Releases <- AllReleases
  Decodable = {x}
  Scribble = Scribble
  NoBase = NoBase
  NoPatch = NoPatch
  MaxEdits = 2
SPECIFICATION Spec
INVARIANTS
  PatchMeansPack
  ReapplyHarmless
  DisjointPatchesCommute
PROPERTIES
  ChangesWereMeant
  PackKeepsFiles
