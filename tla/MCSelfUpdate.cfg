SPECIFICATION FairUSpec
CONSTANTS
  c1 = c1
  c2 = c2
  c3 = c3
  plain = plain
  zip = zip
  Cores <- MCCores
  None = None
  Updates <- MCUpdates
  Zipped = {zip}
  Old = Old
  Junk = Junk
  Faults = {}
  MaxJobs = 1
INVARIANTS UTypeOK RunsOrWaits RunsVerified ToldTruth UpdateConsistent ExeSound
PROPERTY EventuallyRuns
