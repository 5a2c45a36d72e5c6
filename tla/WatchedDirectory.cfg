\* Two files, rewritten and removed during scans; locks, prunes and interrupts.
SPECIFICATION FairSpec
CONSTANTS
  Files = {1, 2}
  Documents = {d1, d2}
  Invalid = Invalid
  RunIds = {r1}
  RunOf <- MCRunOf
  None = None
  Faults = {"locked", "pruned", "coarse"}
  MaxTime = 3
  d1 = d1
  d2 = d2
  d3 = d3
  r1 = r1
  r2 = r2
INVARIANTS
  SkippedFilesAreRecorded
  RepeatedIssuesAreReal
PROPERTIES
  ValidFilesAreRecorded
