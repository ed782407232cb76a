\* The ok callback is set after init(): a connection that is established before
\* that goes unnoticed, and main gives up.  And main returns while the detached
\* thread still uses what main owns.  `tlc -continue' shows both.
CONSTANTS
  Queries = {q1}
  NoQuery = NoQuery
  MaxResults = 1
  PromptThread = TRUE
SPECIFICATION Spec
INVARIANTS
  OkIsNoticed
  NoUseAfterScope
CHECK_DEADLOCK FALSE
