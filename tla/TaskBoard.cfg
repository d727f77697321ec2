SPECIFICATION Spec
CONSTANTS
  s1 = s1
  s2 = s2
  n1 = n1
  n2 = n2
  admin = admin
  Searches = {s1}
  NumUrls = 3
  Agents = {n1, n2}
  Admin = admin
  AdminUrls = {1}
  MaxFaults = 1
INVARIANTS
  TypeOK
  HandedOnce
  OwnEntriesOnce
  CompletedMeansDone
PROPERTIES
  ImplementsCrawl
  SearchCompletes
CHECK_DEADLOCK FALSE
