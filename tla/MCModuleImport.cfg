SPECIFICATION FairSpec
CHECK_DEADLOCK FALSE
CONSTANTS
  r = r
  a = a
  b = b
  c = c
  s = s
  t = t
  na = na
  nb = nb
  nb2 = nb2
  nc = nc
  nr = nr
  nx = nx
  NoFile = NoFile
  NoName = NoName
  Root = r
  File <- MCFile
  Name <- MCName
  Sym <- MCSym
  Find <- MCFind
  Programs <- MCPrograms
INVARIANTS
  TypeOK
  NoReentry
  WritesOwnTables
  TablesAreVisible
  AcceptsOnlyClosed
  AcceptsAllLegal
  NamesAgree
PROPERTIES
  Stops
  BuildsInOrder
