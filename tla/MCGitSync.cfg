\* The walk through the repositories while another machine pushes.
CONSTANTS
  blog = blog
  tmp = tmp
  Repo = {blog, tmp}
  Order <- MCOrder
  Mine = {"mine"}
  Others = {"one", "two"}
SPECIFICATION FairSpec
INVARIANTS
  TypeOK
  EveryRepoListed
  OkMeansInStep
PROPERTIES
  NeverMerges
  Ends
CHECK_DEADLOCK FALSE
