CONSTANTS
  ana = ana
  beto = beto
  caro = caro
  c1 = c1
  c2 = c2
  Users <- MCUsers
  Veterans <- MCVeterans
  ClanNames <- MCClanNames
  NoUser = NoUser
  NoClan = NoClan
  MaxMembers = 2
  MaxFailures = 1

SPECIFICATION Spec
SYMMETRY Symmetry

INVARIANTS
  TypeOK
  ClansConsistent
  AnsweredIsSaved
  MailIsTrue
