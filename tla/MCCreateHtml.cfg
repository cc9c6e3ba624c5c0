\* One build at a time: the restart loop and push-github.sh take turns.
CONSTANTS
  restart = restart
  push = push
  www = www
  io = io
  index = index
  video = video
  fs = fs
  Builder = {restart, push}
  Site = {www, io}
  DefaultSite = www
  HtmlPath <- MCHtmlPath
  ReplaceIp <- MCReplaceIp
  Doc = {index, video, fs}
  CourseDoc = {video, fs}
  Excepted = {video}
  SignFile = sign
  StyleSheet = stylesheet
  Picture = picture
  Godot = godot
  Directories <- MCDirectories
  Rank <- MCRank
  Listed <- MCListed
  Repo = {"blog", "tmp"}
  Commits <- MCCommits
  Overlap = FALSE
SPECIFICATION Spec
INVARIANTS
  TypeOK
  SiteFromOneBuild
  SiteUp
PROPERTY
  ImplementsWebsite
