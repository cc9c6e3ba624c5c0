\* What is printed as settled is settled.
CONSTANTS
  blog = blog
  tmp = tmp
  Repo = {blog, tmp}
  Order <- MCOrder
  Mine = {"mine"}
  Others = {"one", "two"}
SPECIFICATION Spec
INVARIANTS
  OkMeansSettled
CHECK_DEADLOCK FALSE
