SPECIFICATION FairSpec
CONSTANTS
  big = big
  small = small
  b1 = b1
  b2 = b2
  s1 = s1
  s2 = s2
  c1 = c1
  c2 = c2
  Tasks = {b1, b2, s1, s2}
  Workspaces = {big, small}
  Claimers = {c1, c2}
  WorkspaceOf <- MCWorkspaceOf
  BaseRank <- MCBaseRank
  TurnRank <- MCTurnRank
  Limits = {1, 2}
  NoOne = NoOne
INVARIANTS BoundedBypass
PROPERTIES WorkspacesServed ClaimsEnd
