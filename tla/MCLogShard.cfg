SPECIFICATION Spec
CONSTANTS
  DN = {d1, d2}
  NoDN = NoDN
  r1 = r1
  r2 = r2
  Replica <- MCReplica
  MaxLog = 5
  Proposals <- MCProposals
  Scenarios <- MCScenarios
SYMMETRY Symmetry
INVARIANTS TypeOK VerdictsRight ReplayIsComplete  LeaseHistoryRight CompactionIsSafe 
CHECK_DEADLOCK FALSE
