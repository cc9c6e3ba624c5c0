\* Two builds at a time: nothing in the scripts keeps them apart.
CONSTANTS
  restart = restart
  push = push
  www = www
  io = io
  index = index
  video = video
  fs = fs
  Builder = {restart, push}
  Site = {www, io}
  DefaultSite = www
  HtmlPath <- MCHtmlPath
  ReplaceIp <- MCReplaceIp
  Doc = {index, video, fs}
  CourseDoc = {video, fs}
  Excepted = {video}
  SignFile = sign
  StyleSheet = stylesheet
  Picture = picture
  Godot = godot
  Directories <- MCDirectories
  Rank <- MCRank
  Listed <- MCListed
  Repo = {"blog", "tmp"}
  Commits <- MCCommits
  Overlap = TRUE
SPECIFICATION Spec
INVARIANTS
  SiteUp
