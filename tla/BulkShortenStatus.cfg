\* Two URLs, one worker, and whatever goes wrong.
CONSTANTS
  Workers = {w1}
  NumJobs = 2
SPECIFICATION Spec
INVARIANT RolledBackIsNoSuccess
