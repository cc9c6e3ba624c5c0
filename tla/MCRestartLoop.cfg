\* The polling loop on both kinds of machine.
CONSTANTS
  Commits <- MCCommits
  MaxAccidents = 2
  NoFile = NoFile
  Mixed = Mixed
SPECIFICATION FairSpec
INVARIANTS
  TypeOK
  QuietMeansCurrent
PROPERTIES
  Published
  LanRepairs
