----------------------------- MODULE CreateHtml -----------------------------
(***************************************************************************)
(* src/src/blog-web/create-html.sh: the builder that turns the checked-out *)
(* sources into a site.  Every run of the script works in the same two     *)
(* temporary directories, /tmp/blog-src-tmp and /tmp/blog-html-tmp, and    *)
(* takes no lock.  A builder stands for one caller of the script; each     *)
(* action is one command of it.                                            *)
(*                                                                         *)
(* A directory is a function from the files in it to their contents, so    *)
(* that a file is missing when it is outside the DOMAIN.                   *)
(***************************************************************************)
EXTENDS Integers

CONSTANTS
  Builder,       \* the callers of create-html.sh on one machine
  Site,          \* the directories that are published
  DefaultSite,   \* /var/www/html
  HtmlPath,      \* HtmlPath[b]: the site that b writes
  ReplaceIp,     \* ReplaceIp[b]: b builds for the local network
  Doc,           \* the source documents
  CourseDoc,     \* those that course.sh rewrites
  Excepted,      \* those of them that do not get the common header
  SignFile,      \* sign.html
  StyleSheet,    \* stylesheet.css
  Picture,       \* picture/
  Godot,         \* godot/
  Directories,   \* the directories that mv moves: the items in each
  Rank,          \* Rank[i]: where the shell lists item i, or its directory
  Listed(_),     \* Listed(v): the documents of comm_array in commit v
  Repo,          \* the checked-out repositories
  Commits,       \* bound: the commits of r are 0..Commits[r]
  Overlap        \* TRUE: nobody keeps two builds, or a build and an
                 \* update of the sources, from running at the same time

Version(r) == 0..Commits[r]

ASSUME ConstantsAssumption ==
  /\ Commits \in [Repo -> Nat]
  /\ HtmlPath \in [Builder -> Site]
  /\ ReplaceIp \in [Builder -> BOOLEAN]
  /\ \A s \in Site : \E b \in Builder : HtmlPath[b] = s
  /\ Excepted \subseteq CourseDoc
  /\ CourseDoc \subseteq Doc
  /\ \A v \in Version("blog") : Listed(v) \subseteq Doc
  /\ {SignFile, StyleSheet, Picture, Godot} \cap Doc = {}
  /\ SignFile \notin {StyleSheet, Picture, Godot}
  /\ StyleSheet \notin {Picture, Godot}
  /\ \A D, E \in Directories : D = E \/ D \cap E = {}
  /\ {"blog", "tmp"} \subseteq Repo
  /\ Overlap \in BOOLEAN

VARIABLES
  head,      \* head[r]: the commit that is checked out of r
  pc,        \* pc[b]: the next command of b, "idle" when b is not running
  todo,      \* todo[b]: what is left of the loop that b is in
  srcDir,    \* does /tmp/blog-src-tmp exist
  srcTmp,    \* its documents
  htmlDir,   \* does /tmp/blog-html-tmp exist
  htmlTmp,   \* its files
  site,      \* site[s]: the files in s
  broken     \* history: the sites whose last replacement was killed

buildVars == <<head, pc, todo, srcDir, srcTmp, htmlDir, htmlTmp, site, broken>>

-----------------------------------------------------------------------------
(* Contents *)

Item == Doc \cup {SignFile, StyleSheet, Picture, Godot}

\* A document: its commit, whether the common header precedes it, and
\* whether the private and unfinished blocks have been stripped.
SrcFile == [ver : Nat, common : BOOLEAN, public : BOOLEAN]

\* A file of a site: what it was made from, whether its links name the local
\* address, which signature it carries, and whether it belongs to nginx.
Page == [src : SrcFile, lan : BOOLEAN, sign : {"none", "plain", "lan"},
         nginx : BOOLEAN]

IsDirectory(dir, names, contents) ==
  /\ dir = [i \in DOMAIN dir |-> dir[i]]
  /\ DOMAIN dir \subseteq names
  /\ \A i \in DOMAIN dir : dir[i] \in contents

EmptyDir == [i \in {} |-> TRUE]

Restriction(dir, names) == [i \in DOMAIN dir \cap names |-> dir[i]]

Overlay(dir, base) ==
  [i \in DOMAIN dir \cup DOMAIN base |->
     IF i \in DOMAIN dir THEN dir[i] ELSE base[i]]

Put(base, i, content) == Overlay([j \in {i} |-> content], base)

Phase == {"idle", "html_tmp", "src_tmp", "copy", "course", "strip", "sign",
          "lan_sign", "render", "style", "picture", "godot", "perm", "clear",
          "mv", "moving", "rm_src"}

Edition == [blog : Version("blog"), tmp : Version("tmp")]

CurrentEdition == [blog |-> head["blog"], tmp |-> head["tmp"]]

SrcOf(v, common, public) == [ver |-> v, common |-> common, public |-> public]

PageOf(src, lan, sign, nginx) ==
  [src |-> src, lan |-> lan, sign |-> sign, nginx |-> nginx]

Raw(v) == SrcOf(v, FALSE, FALSE)

Joined(d, v) == SrcOf(v, d \in CourseDoc \ Excepted, FALSE)

Stripped(f) == SrcOf(f.ver, f.common, TRUE)

\* A document as the author wants it read.
Prepared(d, v) == Stripped(Joined(d, v))

\* sign.html carries no signature of its own; it has nothing to strip.
SignPage(v, lan) == PageOf(SrcOf(v, FALSE, TRUE), lan, "none", FALSE)

\* A file, or a directory of files, that is copied as it is.
CopyOf(v) == PageOf(SrcOf(v, FALSE, TRUE), FALSE, "none", FALSE)

Localised(p) == PageOf(p.src, TRUE, p.sign, p.nginx)

OwnedByNginx(p) == PageOf(p.src, p.lan, p.sign, TRUE)

\* A page of edition e as b generates it, before it is given to nginx.
DraftPage(b, e, i) ==
  CASE i = SignFile -> SignPage(e.blog, ReplaceIp[b])
    [] i = StyleSheet -> CopyOf(e.blog)
    [] i \in {Picture, Godot} -> CopyOf(e.tmp)
    [] OTHER -> PageOf(Prepared(i, e.blog), ReplaceIp[b],
                       IF ReplaceIp[b] THEN "lan" ELSE "plain", FALSE)

FullPage(b, e, i) ==
  IF HtmlPath[b] = DefaultSite
    THEN OwnedByNginx(DraftPage(b, e, i))
    ELSE DraftPage(b, e, i)

FullItems(e) == Listed(e.blog) \cup {SignFile, StyleSheet, Picture, Godot}

\* What a build of edition e by b is meant to leave in the site.
FullSite(b, e) == [i \in FullItems(e) |-> FullPage(b, e, i)]

-----------------------------------------------------------------------------
(* The commands of create-html.sh *)

Quiet == \A b \in Builder : pc[b] = "idle"

Step(b, from, to) ==
  /\ pc[b] = from
  /\ pc' = [pc EXCEPT ![b] = to]

\* The builder that left what is deployed at first.
OwnerOf(s) == CHOOSE b \in Builder : HtmlPath[b] = s

Init ==
  /\ head = [r \in Repo |-> 0]
  /\ pc = [b \in Builder |-> "idle"]
  /\ todo = [b \in Builder |-> {}]
  /\ srcDir = FALSE
  /\ srcTmp = EmptyDir
  /\ htmlDir = FALSE
  /\ htmlTmp = EmptyDir
  /\ site = [s \in Site |->
       FullSite(OwnerOf(s), [blog |-> 0, tmp |-> 0])]
  /\ broken = {}

\* The script is called, and sources comm_array once, from the checkout.
Start(b) ==
  /\ Step(b, "idle", "html_tmp")
  /\ Overlap \/ Quiet
  /\ todo' = [todo EXCEPT ![b] = Listed(head["blog"])]
  /\ UNCHANGED <<head, srcDir, srcTmp, htmlDir, htmlTmp, site, broken>>

\* Mutation: mkdir -p without rm -rf.
ResetHtmlTmpKeeping(b) ==
  /\ Step(b, "html_tmp", "src_tmp")
  /\ htmlDir' = TRUE
  /\ UNCHANGED <<head, todo, srcDir, srcTmp, htmlTmp, site, broken>>

\* Mutation: the site is cleared before the build.
ResetHtmlTmpAndSite(b) ==
  /\ Step(b, "html_tmp", "src_tmp")
  /\ htmlDir' = TRUE
  /\ htmlTmp' = EmptyDir
  /\ site' = [site EXCEPT ![HtmlPath[b]] = EmptyDir]
  /\ UNCHANGED <<head, todo, srcDir, srcTmp, broken>>

\* Mutation: a build goes on with what a killed one has left.
ResetHtmlTmpResuming(b) ==
  /\ Step(b, "html_tmp", IF htmlDir THEN "clear" ELSE "src_tmp")
  /\ htmlDir' = TRUE
  /\ todo' = IF htmlDir THEN [todo EXCEPT ![b] = {}] ELSE todo
  /\ UNCHANGED <<head, srcDir, srcTmp, htmlTmp, site, broken>>

\* my_init: mkdir -p ${html_path}; rm -rf and mkdir -p ${tmp_html_path}
ResetHtmlTmp(b) ==
  /\ Step(b, "html_tmp", "src_tmp")
  /\ htmlDir' = TRUE
  /\ htmlTmp' = EmptyDir
  /\ UNCHANGED <<head, todo, srcDir, srcTmp, site, broken>>

ResetSrcTmp(b) ==
  /\ Step(b, "src_tmp", "copy")
  /\ srcDir' = TRUE
  /\ srcTmp' = EmptyDir
  /\ UNCHANGED <<head, todo, htmlDir, htmlTmp, site, broken>>

\* cp -rf of several sources does nothing when the directory is gone.
CopySrc(b) ==
  /\ Step(b, "copy", "course")
  /\ srcTmp' = IF srcDir
                 THEN Overlay([d \in Listed(head["blog"]) |-> Raw(head["blog"])],
                              srcTmp)
                 ELSE srcTmp
  /\ UNCHANGED <<head, todo, srcDir, htmlDir, htmlTmp, site, broken>>

\* course.sh writes the course documents again, from the checkout, below
\* their common header; mkdir -p brings back a directory that is gone.
AddCommon(b) ==
  LET courses == Listed(head["blog"]) \cap CourseDoc IN
  /\ Step(b, "course", "strip")
  /\ srcDir' = (srcDir \/ courses # {})
  /\ srcTmp' = Overlay([d \in courses |-> Joined(d, head["blog"])], srcTmp)
  /\ UNCHANGED <<head, todo, htmlDir, htmlTmp, site, broken>>

RmPrivate(b) ==
  /\ Step(b, "strip", "sign")
  /\ srcTmp' = [d \in DOMAIN srcTmp |-> Stripped(srcTmp[d])]
  /\ UNCHANGED <<head, todo, srcDir, htmlDir, htmlTmp, site, broken>>

\* pandoc cannot write into a directory that is gone.
CreateSign(b) ==
  /\ Step(b, "sign", "lan_sign")
  /\ htmlTmp' = IF htmlDir
                  THEN Put(htmlTmp, SignFile, SignPage(head["blog"], FALSE))
                  ELSE htmlTmp
  /\ UNCHANGED <<head, todo, srcDir, srcTmp, htmlDir, site, broken>>

UpdateLanSign(b) ==
  /\ Step(b, "lan_sign", "render")
  /\ htmlTmp' = IF ReplaceIp[b] /\ SignFile \in DOMAIN htmlTmp
                  THEN Put(htmlTmp, SignFile, Localised(htmlTmp[SignFile]))
                  ELSE htmlTmp
  /\ UNCHANGED <<head, todo, srcDir, srcTmp, htmlDir, site, broken>>

\* The page pandoc writes over whatever is there; without the document it
\* writes nothing, and the commands after it edit a page that is there.
Rendered(b, d) ==
  LET base == IF d \in DOMAIN srcTmp
                THEN PageOf(srcTmp[d], FALSE, "none", FALSE)
                ELSE htmlTmp[d]
      sign == IF SignFile \in DOMAIN htmlTmp
                THEN IF htmlTmp[SignFile].lan THEN "lan" ELSE "plain"
                ELSE base.sign
  IN PageOf(base.src, base.lan \/ ReplaceIp[b], sign, base.nginx)

CreatePage(b, d) ==
  /\ pc[b] = "render"
  /\ d \in todo[b]
  /\ todo' = [todo EXCEPT ![b] = @ \ {d}]
  /\ htmlDir' = TRUE
  /\ htmlTmp' = IF d \in DOMAIN srcTmp \cup DOMAIN htmlTmp
                  THEN Put(htmlTmp, d, Rendered(b, d))
                  ELSE htmlTmp
  /\ UNCHANGED <<head, pc, srcDir, srcTmp, site, broken>>

CreatePagesDone(b) ==
  /\ Step(b, "render", "style")
  /\ todo[b] = {}
  /\ UNCHANGED <<head, todo, srcDir, srcTmp, htmlDir, htmlTmp, site, broken>>

\* cp cannot copy into a directory that is gone.
Copy(i, v) ==
  /\ htmlTmp' = IF htmlDir THEN Put(htmlTmp, i, CopyOf(v)) ELSE htmlTmp
  /\ UNCHANGED <<head, todo, srcDir, srcTmp, site, broken>>

CopyStyleSheet(b) ==
  /\ Step(b, "style", "picture")
  /\ Copy(StyleSheet, head["blog"])
  /\ UNCHANGED htmlDir

CopyPicture(b) ==
  /\ Step(b, "picture", "godot")
  /\ Copy(Picture, head["tmp"])
  /\ UNCHANGED htmlDir

\* Only here the target ends in the directory itself: if that is gone, cp makes
\* it, and what is in godot/ lies in it under names that are not the site's.
CopyGodot(b) ==
  /\ Step(b, "godot", "perm")
  /\ Copy(Godot, head["tmp"])
  /\ htmlDir' = TRUE

\* Only for the default path; a path given as an argument is left alone.
ChangePerm(b) ==
  /\ Step(b, "perm", "clear")
  /\ htmlTmp' = IF HtmlPath[b] = DefaultSite
                  THEN [i \in DOMAIN htmlTmp |-> OwnedByNginx(htmlTmp[i])]
                  ELSE htmlTmp
  /\ UNCHANGED <<head, todo, srcDir, srcTmp, htmlDir, site, broken>>

\* my_exit: rm ${html_path}/* -rf
ClearSite(b) ==
  /\ Step(b, "clear", "mv")
  /\ site' = [site EXCEPT ![HtmlPath[b]] = EmptyDir]
  /\ UNCHANGED <<head, todo, srcDir, srcTmp, htmlDir, htmlTmp, broken>>

\* mv ${tmp_html_path}/* ${html_path}: the shell lists the files first.
ListMoves(b) ==
  /\ Step(b, "mv", "moving")
  /\ todo' = [todo EXCEPT ![b] = DOMAIN htmlTmp]
  /\ UNCHANGED <<head, srcDir, srcTmp, htmlDir, htmlTmp, site, broken>>

\* What mv moves at once: a directory, or one file.
Entry(i) == {i} \cup UNION {D \in Directories : i \in D}

\* In the order of the names. A file replaces its namesake, a directory that is
\* not empty stays.
MoveEntry(b, i) ==
  LET s == HtmlPath[b]
      stays == \E D \in Directories : i \in D /\ DOMAIN site[s] \cap D # {}
  IN
  /\ pc[b] = "moving"
  /\ i \in todo[b]
  /\ \A j \in todo[b] : Rank[i] <= Rank[j]
  /\ todo' = [todo EXCEPT ![b] = @ \ Entry(i)]
  /\ IF stays
       THEN UNCHANGED <<site, htmlTmp>>
       ELSE /\ site' = [site EXCEPT
                          ![s] = Overlay(Restriction(htmlTmp, Entry(i)), @)]
            /\ htmlTmp' = Restriction(htmlTmp, Item \ Entry(i))
  /\ UNCHANGED <<head, pc, srcDir, srcTmp, htmlDir, broken>>

\* Mutation: mv runs in the background.
RmHtmlTmpEarly(b) ==
  /\ Step(b, "moving", "rm_src")
  /\ htmlDir' = FALSE
  /\ htmlTmp' = EmptyDir
  /\ broken' = broken \ {HtmlPath[b]}
  /\ UNCHANGED <<head, todo, srcDir, srcTmp, site>>

RmHtmlTmp(b) ==
  /\ Step(b, "moving", "rm_src")
  /\ todo[b] = {}
  /\ htmlDir' = FALSE
  /\ htmlTmp' = EmptyDir
  /\ broken' = broken \ {HtmlPath[b]}
  /\ UNCHANGED <<head, todo, srcDir, srcTmp, site>>

RmSrcTmp(b) ==
  /\ Step(b, "rm_src", "idle")
  /\ srcDir' = FALSE
  /\ srcTmp' = EmptyDir
  /\ UNCHANGED <<head, todo, htmlDir, htmlTmp, site, broken>>

\* b is between the rm and the end of the mv of my_exit.
Replacing(b) == pc[b] = "mv" \/ (pc[b] = "moving" /\ todo[b] # {})

\* Ctrl+C, or the machine goes down: nothing is tidied up.
Crash(b) ==
  /\ pc[b] # "idle"
  /\ pc' = [pc EXCEPT ![b] = "idle"]
  /\ todo' = [todo EXCEPT ![b] = {}]
  /\ broken' = IF Replacing(b) THEN broken \cup {HtmlPath[b]} ELSE broken
  /\ UNCHANGED <<head, srcDir, srcTmp, htmlDir, htmlTmp, site>>

\* One command of a running build.
BuildStep(b) ==
  \/ ResetHtmlTmp(b)
  \/ ResetSrcTmp(b)
  \/ CopySrc(b)
  \/ AddCommon(b)
  \/ RmPrivate(b)
  \/ CreateSign(b)
  \/ UpdateLanSign(b)
  \/ \E d \in Doc : CreatePage(b, d)
  \/ CreatePagesDone(b)
  \/ CopyStyleSheet(b)
  \/ CopyPicture(b)
  \/ CopyGodot(b)
  \/ ChangePerm(b)
  \/ ClearSite(b)
  \/ ListMoves(b)
  \/ \E i \in Item : MoveEntry(b, i)
  \/ RmHtmlTmp(b)
  \/ RmSrcTmp(b)

\* The checkout of r moves to a later commit.
Advance(r) ==
  /\ head[r] < Commits[r]
  /\ Overlap \/ Quiet
  /\ head' = [head EXCEPT ![r] = @ + 1]
  /\ UNCHANGED <<pc, todo, srcDir, srcTmp, htmlDir, htmlTmp, site, broken>>

Next ==
  \/ \E b \in Builder : Start(b) \/ BuildStep(b) \/ Crash(b)
  \/ \E r \in Repo : Advance(r)

Spec == Init /\ [][Next]_buildVars

-----------------------------------------------------------------------------
(* Properties *)

\* Types, and what the commands take for granted: a directory that is gone
\* holds nothing, and a loop is finished before the next command starts.
TypeOK ==
  /\ head \in [Repo -> Nat]
  /\ \A r \in Repo : head[r] \in Version(r)
  /\ pc \in [Builder -> Phase]
  /\ todo \in [Builder -> SUBSET Item]
  /\ srcDir \in BOOLEAN
  /\ IsDirectory(srcTmp, Doc, SrcFile)
  /\ htmlDir \in BOOLEAN
  /\ IsDirectory(htmlTmp, Item, Page)
  /\ site = [s \in Site |-> site[s]]
  /\ \A s \in Site : IsDirectory(site[s], Item, Page)
  /\ broken \in SUBSET Site
  /\ ~srcDir => srcTmp = EmptyDir
  /\ ~htmlDir => htmlTmp = EmptyDir
  /\ \A b \in Builder :
       pc[b] \in {"idle", "style", "picture", "godot", "perm", "clear", "mv", "rm_src"}
         => todo[b] = {}

Whole(s) ==
  \E b \in Builder, e \in Edition : HtmlPath[b] = s /\ site[s] = FullSite(b, e)

PartOf(dir, full) ==
  /\ DOMAIN dir \subseteq DOMAIN full
  /\ \A i \in DOMAIN dir : dir[i] = full[i]

\* Whatever a visitor finds, at any moment and after any crash, comes from
\* one build for that site: one edition, stripped, below its common header,
\* with the links and the signature of that site (create-html.sh 20-76).
SiteFromOneBuild ==
  \A s \in Site : \E b \in Builder, e \in Edition :
    /\ HtmlPath[b] = s
    /\ e.blog <= head["blog"] /\ e.tmp <= head["tmp"]
    /\ PartOf(site[s], FullSite(b, e))

\* create-html.sh:3 says the temporary directory keeps a site accessible
\* while its pages are generated: a site has all its pages unless some
\* builder is in the rm and mv of my_exit, or was killed there.
SiteUp ==
  \A s \in Site :
    \/ s \in broken
    \/ \E b \in Builder : HtmlPath[b] = s /\ Replacing(b)
    \/ Whole(s)

\* dir has the pages of e that b makes, and no others.
Shows(dir, b, e) ==
  /\ DOMAIN dir = FullItems(e)
  /\ \A i \in FullItems(e) : dir[i] = FullPage(b, e, i)

\* The editions whose pages all are in s.
ShownEditions ==
  [s \in Site |-> {e \in Edition :
     \E b \in Builder : HtmlPath[b] = s /\ Shows(site[s], b, e)}]

W == INSTANCE Website WITH newest <- CurrentEdition, shown <- ShownEditions

\* The builder implements the visitor's view (Website): a site never passes
\* from one edition to another except through being down, and what comes up
\* is the edition that is checked out.
ImplementsWebsite == W!Spec

-----------------------------------------------------------------------------
(* Why the properties hold when builds take turns: one builder runs, and   *)
(* the two directories hold exactly what its next command expects.         *)

SoleBuilder ==
  \A b, c \in Builder : pc[b] # "idle" /\ pc[c] # "idle" => b = c

Drafts(b, items) == [i \in items |-> DraftPage(b, CurrentEdition, i)]

SrcTmpReady(b) ==
  LET docs == Listed(head["blog"])
      v == head["blog"]
  IN
  /\ pc[b] \in {"copy", "course", "strip", "sign", "lan_sign", "render"} => srcDir
  /\ pc[b] = "copy" => srcTmp = EmptyDir
  /\ pc[b] = "course" => srcTmp = [d \in docs |-> Raw(v)]
  /\ pc[b] = "strip" => srcTmp = [d \in docs |-> Joined(d, v)]
  /\ pc[b] \in {"sign", "lan_sign", "render"} =>
       srcTmp = [d \in docs |-> Prepared(d, v)]

HtmlTmpReady(b) ==
  LET docs == Listed(head["blog"])
      full == FullSite(b, CurrentEdition)
  IN
  /\ pc[b] \notin {"idle", "html_tmp", "rm_src"} => htmlDir
  /\ pc[b] \in {"html_tmp", "src_tmp", "copy", "course", "strip", "sign",
                "lan_sign"} => todo[b] = docs
  /\ pc[b] \in {"src_tmp", "copy", "course", "strip", "sign"} =>
       htmlTmp = EmptyDir
  /\ pc[b] = "lan_sign" =>
       htmlTmp = [i \in {SignFile} |-> SignPage(head["blog"], FALSE)]
  /\ pc[b] = "render" =>
       /\ todo[b] \subseteq docs
       /\ htmlTmp = Drafts(b, {SignFile} \cup (docs \ todo[b]))
  /\ pc[b] = "style" => htmlTmp = Drafts(b, {SignFile} \cup docs)
  /\ pc[b] = "picture" => htmlTmp = Drafts(b, {SignFile} \cup docs \cup {StyleSheet})
  /\ pc[b] = "godot" =>
       htmlTmp = Drafts(b, {SignFile} \cup docs \cup {StyleSheet} \cup {Picture})
  /\ pc[b] = "perm" => htmlTmp = Drafts(b, FullItems(CurrentEdition))
  /\ pc[b] \in {"clear", "mv"} => htmlTmp = full

\* mv has moved all of a directory's items or none.
NoneDivided(left, items) ==
  \A D \in Directories : left \cap D # {} => items \cap D \subseteq left

SiteReady(b) ==
  LET full == FullSite(b, CurrentEdition)
      items == FullItems(CurrentEdition)
      s == HtmlPath[b]
  IN
  /\ pc[b] = "mv" => site[s] = EmptyDir
  /\ pc[b] = "moving" =>
       /\ todo[b] \subseteq items
       /\ NoneDivided(todo[b], items)
       /\ htmlTmp = Restriction(full, todo[b])
       /\ site[s] = Restriction(full, items \ todo[b])
  /\ pc[b] = "rm_src" => site[s] = full

Ready(b) == SrcTmpReady(b) /\ HtmlTmpReady(b) /\ SiteReady(b)

IInv ==
  /\ TypeOK
  /\ SoleBuilder
  /\ \A b \in Builder : Ready(b)
  /\ SiteFromOneBuild
  /\ SiteUp
=============================================================================
