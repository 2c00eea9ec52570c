CONSTANTS
  MaxMaster = 2
  MaxCommits = 5
  MaxCalls = 2
SPECIFICATION FairSpec
INVARIANTS CiIsAuthoritative ReviewerReadsItsLog DoneIsGated
PROPERTY CallsEnd
