\* Three URLs, two workers.
CONSTANTS
  Workers = {w1, w2}
  NumJobs = 3
SPECIFICATION FairSpec
INVARIANTS
  TypeOK
  AllOrNothing
  ReportIsTrue
  SendsGoThrough
PROPERTY
  BulkEnds
