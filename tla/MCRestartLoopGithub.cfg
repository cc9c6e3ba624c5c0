\* The public server pushes what it has pulled.
CONSTANTS
  Commits <- MCCommits
  MaxAccidents = 0
  NoFile = NoFile
  Mixed = Mixed
SPECIFICATION FairSpec
PROPERTIES
  PushedToGithub
