-------------------------- MODULE CreateHtml_proofs --------------------------
(***************************************************************************)
(* The builder: type correctness for every use of it, and the site's       *)
(* safety for builders that take turns (~Overlap).                         *)
(***************************************************************************)
EXTENDS CreateHtml, TLAPS

-----------------------------------------------------------------------------
(* Directories *)

LEMMA EmptyDirectory ==
  ASSUME NEW names, NEW contents
  PROVE  IsDirectory(EmptyDir, names, contents)
BY DEF IsDirectory, EmptyDir

LEMMA OverlayDirectory ==
  ASSUME NEW names, NEW contents, NEW dir, NEW base,
         IsDirectory(dir, names, contents), IsDirectory(base, names, contents)
  PROVE  IsDirectory(Overlay(dir, base), names, contents)
BY DEF IsDirectory, Overlay

LEMMA PutDirectory ==
  ASSUME NEW names, NEW contents, NEW base, NEW i \in names, NEW c \in contents,
         IsDirectory(base, names, contents)
  PROVE  IsDirectory(Put(base, i, c), names, contents)
<1>1. IsDirectory([j \in {i} |-> c], names, contents)
  BY DEF IsDirectory
<1>2. QED
  BY <1>1, OverlayDirectory DEF Put

LEMMA RestrictionDirectory ==
  ASSUME NEW names, NEW contents, NEW dir, NEW kept,
         IsDirectory(dir, names, contents)
  PROVE  IsDirectory(Restriction(dir, kept), names, contents)
BY DEF IsDirectory, Restriction

-----------------------------------------------------------------------------
(* Pages *)

LEMMA ContentTypes ==
  ASSUME NEW v \in Nat, NEW lan \in BOOLEAN, NEW d
  PROVE  /\ Raw(v) \in SrcFile
         /\ Prepared(d, v) \in SrcFile
         /\ SignPage(v, lan) \in Page
         /\ CopyOf(v) \in Page
BY DEF Raw, Prepared, Joined, Stripped, SignPage, CopyOf, SrcOf, PageOf,
   SrcFile, Page

LEMMA EditTypes ==
  /\ \A d, v : v \in Nat => Joined(d, v) \in SrcFile
  /\ \A f \in SrcFile : Stripped(f) \in SrcFile
  /\ \A p \in Page : Localised(p) \in Page /\ OwnedByNginx(p) \in Page
  /\ \A f \in SrcFile, l \in BOOLEAN, g \in {"none", "plain", "lan"}, n \in BOOLEAN :
       PageOf(f, l, g, n) \in Page
BY DEF Joined, Stripped, Localised, OwnedByNginx, SrcOf, PageOf, SrcFile, Page

LEMMA EditionType == TypeOK => CurrentEdition \in Edition
BY ConstantsAssumption DEF TypeOK, CurrentEdition, Edition

LEMMA EditionNat ==
  ASSUME NEW e \in Edition
  PROVE  e.blog \in Nat /\ e.tmp \in Nat /\ e.blog \in Version("blog")
BY ConstantsAssumption DEF Edition, Version

LEMMA DraftPageType ==
  ASSUME NEW b \in Builder, NEW e \in Edition, NEW i
  PROVE  DraftPage(b, e, i) \in Page
<1>1. ReplaceIp[b] \in BOOLEAN
  BY ConstantsAssumption
<1>2. PageOf(Prepared(i, e.blog), ReplaceIp[b],
             IF ReplaceIp[b] THEN "lan" ELSE "plain", FALSE) \in Page
  BY <1>1, EditionNat, ContentTypes, EditTypes
<1>3. /\ SignPage(e.blog, ReplaceIp[b]) \in Page
      /\ CopyOf(e.blog) \in Page /\ CopyOf(e.tmp) \in Page
  BY <1>1, EditionNat, ContentTypes
<1>4. QED
  BY <1>2, <1>3 DEF DraftPage

LEMMA FullSiteType ==
  ASSUME NEW b \in Builder, NEW e \in Edition
  PROVE  IsDirectory(FullSite(b, e), Item, Page)
<1>1. FullItems(e) \subseteq Item
  BY ConstantsAssumption, EditionNat DEF FullItems, Item
<1>2. ASSUME NEW i \in FullItems(e) PROVE FullPage(b, e, i) \in Page
  BY DraftPageType, EditTypes DEF FullPage
<1>3. QED
  BY <1>1, <1>2 DEF IsDirectory, FullSite

-----------------------------------------------------------------------------
(* Type correctness, for builders that overlap too *)

LEMMA CommitsFromZero ==
  \A r \in Repo : Commits[r] \in Nat /\ 0 \in Version(r)
<1>1. \A r \in Repo : Commits[r] \in Nat
  BY ConstantsAssumption
<1>2. QED
  BY <1>1 DEF Version

LEMMA BuilderConstants ==
  ASSUME NEW b \in Builder
  PROVE  HtmlPath[b] \in Site /\ ReplaceIp[b] \in BOOLEAN
BY ConstantsAssumption

LEMMA CurrentEditionType ==
  TypeOK => /\ CurrentEdition.blog = head["blog"] /\ CurrentEdition.tmp = head["tmp"]
            /\ head["blog"] \in Nat /\ head["tmp"] \in Nat
            /\ Listed(head["blog"]) \subseteq Doc
BY ConstantsAssumption DEF TypeOK, CurrentEdition, Version

LEMMA InitTypeOK == Init => TypeOK
<1> SUFFICES ASSUME Init PROVE TypeOK
  OBVIOUS
<1>1. /\ head \in [Repo -> Nat] /\ \A r \in Repo : head[r] \in Version(r)
  BY CommitsFromZero DEF Init
<1>2. [blog |-> 0, tmp |-> 0] \in Edition
  BY CommitsFromZero, ConstantsAssumption DEF Edition
<1>3. ASSUME NEW s \in Site
      PROVE  OwnerOf(s) \in Builder /\ HtmlPath[OwnerOf(s)] = s
  BY ConstantsAssumption DEF OwnerOf
<1>4. \A s \in Site : IsDirectory(site[s], Item, Page)
  BY <1>2, <1>3, FullSiteType DEF Init
<1>5. site = [s \in Site |-> site[s]]
  BY DEF Init
<1>6. IsDirectory(srcTmp, Doc, SrcFile) /\ IsDirectory(htmlTmp, Item, Page)
  BY EmptyDirectory DEF Init
<1>7. QED
  BY <1>1, <1>4, <1>5, <1>6 DEF Init, TypeOK, Phase

LEMMA RenderedType ==
  ASSUME TypeOK, NEW b \in Builder, NEW d \in Doc,
         d \in DOMAIN srcTmp \cup DOMAIN htmlTmp
  PROVE  Rendered(b, d) \in Page
<1> DEFINE base == IF d \in DOMAIN srcTmp
                     THEN PageOf(srcTmp[d], FALSE, "none", FALSE)
                     ELSE htmlTmp[d]
           sign == IF SignFile \in DOMAIN htmlTmp
                     THEN IF htmlTmp[SignFile].lan THEN "lan" ELSE "plain"
                     ELSE base.sign
<1>1. base \in Page
  BY EditTypes DEF TypeOK, IsDirectory
<1>2. /\ base.src \in SrcFile /\ base.nginx \in BOOLEAN
      /\ sign \in {"none", "plain", "lan"}
  BY <1>1 DEF Page
<1>3. (base.lan \/ ReplaceIp[b]) \in BOOLEAN
  OBVIOUS
<1> HIDE DEF base, sign
<1>4. PageOf(base.src, base.lan \/ ReplaceIp[b], sign, base.nginx) \in Page
  BY <1>2, <1>3, EditTypes
<1>5. QED
  BY <1>4 DEF Rendered, base, sign

LEMMA StepTypeOK ==
  ASSUME TypeOK, NEW b \in Builder, BuildStep(b)
  PROVE  TypeOK'
<1> USE DEF TypeOK
<1>1. CASE ResetHtmlTmp(b)
  BY <1>1, EmptyDirectory DEF ResetHtmlTmp, Step, Phase
<1>2. CASE ResetSrcTmp(b)
  BY <1>2, EmptyDirectory DEF ResetSrcTmp, Step, Phase
<1>3. CASE CopySrc(b)
  <2>1. IsDirectory([d \in Listed(head["blog"]) |-> Raw(head["blog"])], Doc, SrcFile)
    BY CurrentEditionType, ContentTypes DEF IsDirectory
  <2>2. IsDirectory(srcTmp', Doc, SrcFile)
    BY <1>3, <2>1, OverlayDirectory DEF CopySrc
  <2>3. QED
    BY <1>3, <2>2 DEF CopySrc, Step, Phase
<1>4. CASE AddCommon(b)
  <2> DEFINE courses == Listed(head["blog"]) \cap CourseDoc
             files == [d \in courses |-> Joined(d, head["blog"])]
  <2>1. IsDirectory(files, Doc, SrcFile)
    BY CurrentEditionType, EditTypes DEF IsDirectory
  <2>2. IsDirectory(srcTmp', Doc, SrcFile)
    BY <1>4, <2>1, OverlayDirectory DEF AddCommon
  <2>3. ~srcDir' => srcTmp' = EmptyDir
    BY <1>4 DEF AddCommon, Overlay, EmptyDir
  <2>4. QED
    BY <1>4, <2>2, <2>3 DEF AddCommon, Step, Phase
<1>5. CASE RmPrivate(b)
  <2>1. IsDirectory(srcTmp', Doc, SrcFile)
    BY <1>5, EditTypes DEF RmPrivate, IsDirectory
  <2>2. ~srcDir' => srcTmp' = EmptyDir
    BY <1>5 DEF RmPrivate, EmptyDir
  <2>3. QED
    BY <1>5, <2>1, <2>2 DEF RmPrivate, Step, Phase
<1>6. CASE CreateSign(b)
  <2>1. IsDirectory(htmlTmp', Item, Page)
    BY <1>6, CurrentEditionType, ContentTypes, PutDirectory DEF CreateSign, Item
  <2>2. QED
    BY <1>6, <2>1 DEF CreateSign, Step, Phase
<1>7. CASE UpdateLanSign(b)
  <2>1. SignFile \in DOMAIN htmlTmp => Localised(htmlTmp[SignFile]) \in Page
    BY EditTypes DEF IsDirectory
  <2>2. IsDirectory(htmlTmp', Item, Page)
    BY <1>7, <2>1, PutDirectory DEF UpdateLanSign, Item
  <2>3. ~htmlDir' => htmlTmp' = EmptyDir
    BY <1>7 DEF UpdateLanSign, EmptyDir
  <2>4. QED
    BY <1>7, <2>2, <2>3 DEF UpdateLanSign, Step, Phase
<1>8. ASSUME NEW d \in Doc, CreatePage(b, d) PROVE TypeOK'
  <2>1. IsDirectory(htmlTmp', Item, Page)
    BY <1>8, RenderedType, PutDirectory DEF CreatePage, Item
  <2>2. QED
    BY <1>8, <2>1 DEF CreatePage, Phase
<1>9. CASE CreatePagesDone(b)
  BY <1>9 DEF CreatePagesDone, Step, Phase
<1>10. CASE CopyStyleSheet(b) \/ CopyPicture(b) \/ CopyGodot(b)
  <2>1. \E i \in {StyleSheet, Picture, Godot}, v \in {head["blog"], head["tmp"]} :
          Copy(i, v)
    BY <1>10 DEF CopyStyleSheet, CopyPicture, CopyGodot
  <2>2. IsDirectory(htmlTmp', Item, Page) /\ (~htmlDir => htmlTmp' = htmlTmp)
    <3>1. PICK i \in {StyleSheet, Picture, Godot}, v \in {head["blog"], head["tmp"]} :
            Copy(i, v)
      BY <2>1
    <3>2. CopyOf(v) \in Page /\ i \in Item
      BY CurrentEditionType, ContentTypes DEF Item
    <3>3. IsDirectory(Put(htmlTmp, i, CopyOf(v)), Item, Page)
      BY <3>2, PutDirectory DEF TypeOK
    <3>. QED
      BY <3>1, <3>3 DEF Copy
  <2>3. UNCHANGED <<head, todo, srcDir, srcTmp, site, broken>>
    BY <2>1 DEF Copy
  <2>4. htmlDir' = htmlDir \/ htmlDir' = TRUE
    BY <1>10 DEF CopyStyleSheet, CopyPicture, CopyGodot
  <2>5. \/ Step(b, "style", "picture") \/ Step(b, "picture", "godot")
        \/ Step(b, "godot", "perm")
    BY <1>10 DEF CopyStyleSheet, CopyPicture, CopyGodot
  <2>6. QED
    BY <2>2, <2>3, <2>4, <2>5 DEF Step, Phase
<1>11. CASE ChangePerm(b)
  <2>1. IsDirectory(htmlTmp', Item, Page)
    BY <1>11, EditTypes DEF ChangePerm, IsDirectory
  <2>2. ~htmlDir' => htmlTmp' = EmptyDir
    BY <1>11 DEF ChangePerm, EmptyDir
  <2>3. QED
    BY <1>11, <2>1, <2>2 DEF ChangePerm, Step, Phase
<1>12. CASE ClearSite(b)
  <2>1. site' = [s \in Site |-> site'[s]]
    BY <1>12 DEF ClearSite
  <2>2. ASSUME NEW s \in Site PROVE IsDirectory(site'[s], Item, Page)
    BY <1>12, EmptyDirectory, ConstantsAssumption DEF ClearSite
  <2>3. QED
    BY <1>12, <2>1, <2>2 DEF ClearSite, Step, Phase
<1>13. CASE ListMoves(b)
  BY <1>13 DEF ListMoves, Step, Phase, IsDirectory
<1>14. ASSUME NEW i \in Item, MoveEntry(b, i) PROVE TypeOK'
  <2>1. IsDirectory(Restriction(htmlTmp, Entry(i)), Item, Page)
    BY RestrictionDirectory
  <2>2. HtmlPath[b] \in Site
    BY ConstantsAssumption
  <2>3. IsDirectory(Overlay(Restriction(htmlTmp, Entry(i)), site[HtmlPath[b]]), Item, Page)
    BY <2>1, <2>2, OverlayDirectory
  <2>4. site' = [s \in Site |-> site'[s]]
    BY <1>14 DEF MoveEntry
  <2>5. ASSUME NEW s \in Site PROVE IsDirectory(site'[s], Item, Page)
    BY <1>14, <2>3 DEF MoveEntry
  <2>6. IsDirectory(htmlTmp', Item, Page)
    BY <1>14, RestrictionDirectory DEF MoveEntry
  <2>7. ~htmlDir' => htmlTmp' = EmptyDir
    BY <1>14 DEF MoveEntry, EmptyDir, Restriction
  <2>8. QED
    BY <1>14, <2>4, <2>5, <2>6, <2>7 DEF MoveEntry, Phase
<1>15. CASE RmHtmlTmp(b)
  BY <1>15, EmptyDirectory DEF RmHtmlTmp, Step, Phase
<1>16. CASE RmSrcTmp(b)
  BY <1>16, EmptyDirectory DEF RmSrcTmp, Step, Phase
<1>17. QED
  BY <1>1, <1>2, <1>3, <1>4, <1>5, <1>6, <1>7, <1>8, <1>9, <1>10, <1>11, <1>12,
     <1>13, <1>14, <1>15, <1>16 DEF BuildStep

LEMMA NextTypeOK == TypeOK /\ [Next]_buildVars => TypeOK'
<1> SUFFICES ASSUME TypeOK, [Next]_buildVars PROVE TypeOK'
  OBVIOUS
<1>1. ASSUME NEW b \in Builder, Start(b) PROVE TypeOK'
  <2>1. Listed(head["blog"]) \subseteq Item
    BY CurrentEditionType DEF Item
  <2>2. QED
    BY <1>1, <2>1 DEF Start, Step, TypeOK, Phase
<1>2. ASSUME NEW b \in Builder, BuildStep(b) PROVE TypeOK'
  BY <1>2, StepTypeOK
<1>3. ASSUME NEW b \in Builder, Crash(b) PROVE TypeOK'
  BY <1>3, BuilderConstants DEF Crash, TypeOK, Phase
<1>4. ASSUME NEW r \in Repo, Advance(r) PROVE TypeOK'
  <2>1. head[r] \in Nat /\ Commits[r] \in Nat
    BY CommitsFromZero DEF TypeOK
  <2>2. head' \in [Repo -> Nat] /\ \A q \in Repo : head'[q] \in Version(q)
    BY <1>4, <2>1 DEF Advance, TypeOK, Version
  <2>3. QED
    BY <1>4, <2>2 DEF Advance, TypeOK
<1>5. CASE UNCHANGED buildVars
  BY <1>5 DEF buildVars, TypeOK
<1>6. QED
  BY <1>1, <1>2, <1>3, <1>4, <1>5 DEF Next

\* Types hold however builders overlap (create-html.sh 20-76).
THEOREM TypeCorrect == Spec => []TypeOK
<1>1. QED
  BY InitTypeOK, NextTypeOK, PTL DEF Spec

-----------------------------------------------------------------------------
(* How the commands build up a directory *)

LEMMA OverlayEmpty ==
  ASSUME NEW dir, dir = [i \in DOMAIN dir |-> dir[i]]
  PROVE  Overlay(dir, EmptyDir) = dir
BY DEF Overlay, EmptyDir

LEMMA PutDraft ==
  ASSUME NEW b \in Builder, NEW items, NEW i
  PROVE  Put(Drafts(b, items), i, DraftPage(b, CurrentEdition, i))
           = Drafts(b, items \cup {i})
<1> DEFINE f(j) == DraftPage(b, CurrentEdition, j)
<1> HIDE DEF f
<1>1. Put([j \in items |-> f(j)], i, f(i)) = [j \in items \cup {i} |-> f(j)]
  BY DEF Put, Overlay
<1>2. QED
  BY <1>1 DEF Drafts, f

LEMMA OverlayRestriction ==
  ASSUME NEW full, NEW R, NEW S, full = [i \in DOMAIN full |-> full[i]]
  PROVE  Overlay(Restriction(full, R), Restriction(full, S))
           = Restriction(full, R \cup S)
BY DEF Overlay, Restriction

LEMMA RestrictTwice ==
  ASSUME NEW full, NEW R, NEW S
  PROVE  Restriction(Restriction(full, R), S) = Restriction(full, R \cap S)
BY DEF Restriction

LEMMA RestrictAll ==
  ASSUME NEW full, full = [i \in DOMAIN full |-> full[i]]
  PROVE  Restriction(full, DOMAIN full) = full
BY DEF Restriction

LEMMA RestrictNothing ==
  ASSUME NEW full, NEW R, R \cap DOMAIN full = {}
  PROVE  Restriction(full, R) = EmptyDir
BY DEF Restriction, EmptyDir

LEMMA FullSiteFunction ==
  ASSUME NEW b \in Builder, NEW e \in Edition
  PROVE  /\ DOMAIN FullSite(b, e) = FullItems(e)
         /\ FullSite(b, e) = [i \in DOMAIN FullSite(b, e) |-> FullSite(b, e)[i]]
         /\ FullItems(e) \subseteq Item
         /\ FullItems(e) # {}
BY ConstantsAssumption, EditionNat DEF FullSite, FullItems, Item

LEMMA OnlyCoursesJoined ==
  ASSUME NEW d, NEW v, d \notin CourseDoc
  PROVE  Joined(d, v) = Raw(v)
<1>1. (d \in CourseDoc \ Excepted) = FALSE
  OBVIOUS
<1>2. QED
  BY <1>1 DEF Joined, Raw

-----------------------------------------------------------------------------
(* The strengthened invariant IInv, for builders that take turns *)

\* While the checkout stays, so does what a build of it should leave.
LEMMA SameHead ==
  ASSUME head' = head
  PROVE  /\ CurrentEdition' = CurrentEdition
         /\ \A b \in Builder : \A items :
              /\ (FullSite(b, CurrentEdition))' = FullSite(b, CurrentEdition)
              /\ (Drafts(b, items))' = Drafts(b, items)
         /\ (FullItems(CurrentEdition))' = FullItems(CurrentEdition)
BY DEF CurrentEdition, FullSite, FullItems, FullPage, Drafts, DraftPage

LEMMA IdleReady ==
  ASSUME NEW b \in Builder
  PROVE  /\ pc[b] = "idle" => Ready(b)
         /\ pc'[b] = "idle" => Ready(b)'
BY DEF Ready, SrcTmpReady, HtmlTmpReady, SiteReady

LEMMA InitIInv == Init => IInv
<1> SUFFICES ASSUME Init PROVE IInv
  OBVIOUS
<1>1. TypeOK
  BY InitTypeOK
<1>2. SoleBuilder /\ \A b \in Builder : Ready(b)
  BY IdleReady DEF Init, SoleBuilder
<1>3. CurrentEdition = [blog |-> 0, tmp |-> 0] /\ CurrentEdition \in Edition
  BY <1>1, EditionType, ConstantsAssumption DEF Init, CurrentEdition
<1>4. ASSUME NEW s \in Site
      PROVE  /\ OwnerOf(s) \in Builder /\ HtmlPath[OwnerOf(s)] = s
             /\ site[s] = FullSite(OwnerOf(s), CurrentEdition)
  BY <1>3, ConstantsAssumption DEF Init, OwnerOf
<1>5. SiteUp
  BY <1>3, <1>4 DEF SiteUp, Whole
<1>6. SiteFromOneBuild
  BY <1>1, <1>3, <1>4, CurrentEditionType DEF SiteFromOneBuild, PartOf
<1>7. QED
  BY <1>1, <1>2, <1>5, <1>6 DEF IInv

LEMMA DraftPageCases ==
  ASSUME NEW b \in Builder, NEW e
  PROVE  /\ DraftPage(b, e, SignFile) = SignPage(e.blog, ReplaceIp[b])
         /\ DraftPage(b, e, StyleSheet) = CopyOf(e.blog)
         /\ DraftPage(b, e, Picture) = CopyOf(e.tmp)
         /\ DraftPage(b, e, Godot) = CopyOf(e.tmp)
         /\ \A d \in Doc : DraftPage(b, e, d)
              = PageOf(Prepared(d, e.blog), ReplaceIp[b],
                       IF ReplaceIp[b] THEN "lan" ELSE "plain", FALSE)
<1>1. /\ {SignFile, StyleSheet, Picture, Godot} \cap Doc = {}
      /\ SignFile \notin {StyleSheet, Picture, Godot}
      /\ StyleSheet \notin {Picture, Godot}
  BY ConstantsAssumption
<1>2. QED
  BY <1>1 DEF DraftPage

LEMMA RenderedIsDraft ==
  ASSUME TypeOK, NEW b \in Builder, Ready(b), pc[b] = "render", NEW d \in todo[b]
  PROVE  /\ d \in DOMAIN srcTmp
         /\ Rendered(b, d) = DraftPage(b, CurrentEdition, d)
<1> DEFINE v == head["blog"]
           docs == Listed(v)
<1>1. todo[b] \subseteq docs /\ docs \subseteq Doc /\ ReplaceIp[b] \in BOOLEAN
  BY CurrentEditionType, BuilderConstants DEF Ready, HtmlTmpReady
<1>2. d \in DOMAIN srcTmp /\ srcTmp[d] = Prepared(d, v)
  BY <1>1 DEF Ready, SrcTmpReady
<1>3. SignFile \in DOMAIN htmlTmp /\ htmlTmp[SignFile] = SignPage(v, ReplaceIp[b])
  <2>1. htmlTmp = Drafts(b, {SignFile} \cup (docs \ todo[b]))
    BY DEF Ready, HtmlTmpReady
  <2>2. QED
    BY <2>1, CurrentEditionType, DraftPageCases DEF Drafts
<1>4. htmlTmp[SignFile].lan = ReplaceIp[b]
  BY <1>3 DEF SignPage, PageOf
<1>5. DraftPage(b, CurrentEdition, d)
        = PageOf(Prepared(d, v), ReplaceIp[b],
                 IF ReplaceIp[b] THEN "lan" ELSE "plain", FALSE)
  BY <1>1, DraftPageCases, CurrentEditionType
<1>6. Rendered(b, d)
        = PageOf(PageOf(srcTmp[d], FALSE, "none", FALSE).src,
                 PageOf(srcTmp[d], FALSE, "none", FALSE).lan \/ ReplaceIp[b],
                 IF ReplaceIp[b] THEN "lan" ELSE "plain",
                 PageOf(srcTmp[d], FALSE, "none", FALSE).nginx)
  BY <1>2, <1>3, <1>4 DEF Rendered
<1>7. (FALSE \/ ReplaceIp[b]) = ReplaceIp[b]
  BY <1>1
<1>8. QED
  BY <1>2, <1>5, <1>6, <1>7 DEF PageOf

\* Up to the strip, a command prepares the sources its successor expects.
LEMMA SourcesReady ==
  ASSUME TypeOK, NEW b \in Builder, Ready(b),
         \/ ResetHtmlTmp(b) \/ ResetSrcTmp(b) \/ CopySrc(b) \/ AddCommon(b)
         \/ RmPrivate(b)
  PROVE  Ready(b)'
<1> DEFINE v == head["blog"]
           docs == Listed(v)
<1> USE DEF Ready, SrcTmpReady, HtmlTmpReady, SiteReady, Step
<1>0. pc \in [Builder -> Phase]
  BY DEF TypeOK
<1>1. CASE ResetHtmlTmp(b)
  BY <1>0, <1>1 DEF ResetHtmlTmp
<1>2. CASE ResetSrcTmp(b)
  BY <1>0, <1>2 DEF ResetSrcTmp
<1>3. CASE CopySrc(b)
  <2>1. Overlay([d \in docs |-> Raw(v)], EmptyDir) = [d \in docs |-> Raw(v)]
    BY OverlayEmpty
  <2>2. srcTmp' = [d \in docs |-> Raw(v)]
    BY <1>3, <2>1 DEF CopySrc
  <2>3. QED
    BY <1>0, <1>3, <2>2 DEF CopySrc
<1>4. CASE AddCommon(b)
  <2>1. srcTmp' = [d \in docs |-> Joined(d, v)]
    <3>1. srcTmp = [d \in docs |-> Raw(v)]
      BY <1>4 DEF AddCommon
    <3>2. srcTmp' = Overlay([d \in docs \cap CourseDoc |-> Joined(d, v)], srcTmp)
      BY <1>4 DEF AddCommon
    <3>3. Overlay([d \in docs \cap CourseDoc |-> Joined(d, v)], [d \in docs |-> Raw(v)])
            = [d \in docs |-> Joined(d, v)]
      BY OnlyCoursesJoined DEF Overlay
    <3>4. QED
      BY <3>1, <3>2, <3>3
  <2>2. QED
    BY <1>0, <1>4, <2>1 DEF AddCommon
<1>5. CASE RmPrivate(b)
  <2>1. srcTmp' = [d \in docs |-> Prepared(d, v)]
    <3>1. srcTmp = [d \in docs |-> Joined(d, v)]
      BY <1>5 DEF RmPrivate
    <3>2. srcTmp' = [d \in docs |-> Stripped(Joined(d, v))]
      BY <1>5, <3>1 DEF RmPrivate
    <3>3. QED
      BY <3>2 DEF Prepared
  <2>2. QED
    BY <1>0, <1>5, <2>1 DEF RmPrivate
<1>6. QED
  BY <1>1, <1>2, <1>3, <1>4, <1>5

\* Up to the change of owner, it prepares the pages.
LEMMA PagesReady ==
  ASSUME TypeOK, NEW b \in Builder, Ready(b),
         \/ CreateSign(b) \/ UpdateLanSign(b) \/ \E d \in Doc : CreatePage(b, d)
         \/ CreatePagesDone(b) \/ CopyStyleSheet(b) \/ CopyPicture(b) \/ CopyGodot(b)
         \/ ChangePerm(b)
  PROVE  Ready(b)'
<1> DEFINE v == head["blog"]
           docs == Listed(v)
<1> USE DEF Ready, SrcTmpReady, HtmlTmpReady, SiteReady, Step
<1>0. pc \in [Builder -> Phase] /\ todo \in [Builder -> SUBSET Item]
  BY DEF TypeOK
<1>1. CASE CreateSign(b)
  <2>1. htmlTmp' = [i \in {SignFile} |-> SignPage(v, FALSE)]
    BY <1>1, OverlayEmpty DEF CreateSign, Put
  <2>2. QED
    BY <1>0, <1>1, <2>1 DEF CreateSign
<1>2. CASE UpdateLanSign(b)
  <2>1. Put([i \in {SignFile} |-> SignPage(v, FALSE)], SignFile,
            Localised(SignPage(v, FALSE)))
          = [i \in {SignFile} |-> SignPage(v, TRUE)]
    BY DEF Put, Overlay, Localised, SignPage, PageOf
  <2>2. htmlTmp' = [i \in {SignFile} |-> SignPage(v, ReplaceIp[b])]
    BY <1>2, <2>1, BuilderConstants DEF UpdateLanSign
  <2>3. htmlTmp' = Drafts(b, {SignFile})
    <3>1. DraftPage(b, CurrentEdition, SignFile) = SignPage(v, ReplaceIp[b])
      <4>1. DraftPage(b, CurrentEdition, SignFile)
              = SignPage(CurrentEdition.blog, ReplaceIp[b])
        BY DraftPageCases
      <4>2. QED
        BY <4>1, CurrentEditionType
    <3>2. QED
      BY <2>2, <3>1 DEF Drafts
  <2>4. (Drafts(b, {SignFile} \cup (docs \ todo[b])))' = Drafts(b, {SignFile})
    <3>1. head' = head /\ todo'[b] = docs
      BY <1>2 DEF UpdateLanSign
    <3>2. (Drafts(b, {SignFile} \cup (docs \ todo[b])))'
            = Drafts(b, {SignFile} \cup (docs \ docs))
      BY <3>1 DEF Drafts, DraftPage, CurrentEdition
    <3>3. {SignFile} \cup (docs \ docs) = {SignFile}
      OBVIOUS
    <3>4. QED
      BY <3>2, <3>3
  <2>5. QED
    BY <1>0, <1>2, <2>3, <2>4 DEF UpdateLanSign
<1>3. ASSUME NEW d \in Doc, CreatePage(b, d) PROVE Ready(b)'
  <2>1. d \in todo[b] /\ todo[b] \subseteq docs /\ todo' = [todo EXCEPT ![b] = @ \ {d}]
    BY <1>3 DEF CreatePage
  <2>2. htmlTmp' = Put(htmlTmp, d, DraftPage(b, CurrentEdition, d))
    BY <1>3, RenderedIsDraft DEF CreatePage
  <2>3. htmlTmp' = Drafts(b, {SignFile} \cup (docs \ todo[b]) \cup {d})
    BY <1>3, <2>2, PutDraft DEF CreatePage
  <2>4. {SignFile} \cup (docs \ todo[b]) \cup {d} = {SignFile} \cup (docs \ todo'[b])
    BY <1>0, <2>1
  <2>5. (Drafts(b, {SignFile} \cup (docs \ todo[b])))' = htmlTmp'
    <3>1. head' = head
      BY <1>3 DEF CreatePage
    <3>2. (Drafts(b, {SignFile} \cup (docs \ todo[b])))'
            = Drafts(b, {SignFile} \cup (docs \ todo'[b]))
      BY <3>1 DEF Drafts, DraftPage, CurrentEdition
    <3>3. QED
      BY <2>3, <2>4, <3>2
  <2>6. QED
    BY <1>0, <1>3, <2>1, <2>5 DEF CreatePage
<1>4. CASE CreatePagesDone(b)
  <2>1. {SignFile} \cup (docs \ {}) = {SignFile} \cup docs
    OBVIOUS
  <2>2. htmlTmp' = (Drafts(b, {SignFile} \cup docs))'
    BY <1>4, <2>1, SameHead DEF CreatePagesDone
  <2>3. QED
    BY <1>0, <1>4, <2>2 DEF CreatePagesDone
<1>5. ASSUME NEW items, NEW i, NEW u,
             htmlTmp = Drafts(b, items), htmlDir, Copy(i, u),
             DraftPage(b, CurrentEdition, i) = CopyOf(u)
      PROVE  htmlTmp' = (Drafts(b, items \cup {i}))'
  <2>1. htmlTmp' = Put(htmlTmp, i, DraftPage(b, CurrentEdition, i)) /\ head' = head
    BY <1>5 DEF Copy
  <2>2. htmlTmp' = Drafts(b, items \cup {i})
    BY <1>5, <2>1, PutDraft
  <2>3. (Drafts(b, items \cup {i}))' = Drafts(b, items \cup {i})
    BY <2>1 DEF Drafts, DraftPage, CurrentEdition
  <2>4. QED
    BY <2>2, <2>3
<1>6. /\ DraftPage(b, CurrentEdition, StyleSheet) = CopyOf(v)
      /\ DraftPage(b, CurrentEdition, Picture) = CopyOf(head["tmp"])
      /\ DraftPage(b, CurrentEdition, Godot) = CopyOf(head["tmp"])
  BY CurrentEditionType, DraftPageCases
<1>7. CASE CopyStyleSheet(b)
  <2>1. htmlTmp = Drafts(b, {SignFile} \cup docs) /\ htmlDir
    BY <1>7 DEF CopyStyleSheet
  <2>2. htmlTmp' = (Drafts(b, {SignFile} \cup docs \cup {StyleSheet}))'
    BY <1>5, <1>6, <1>7, <2>1 DEF CopyStyleSheet, Copy
  <2>3. QED
    BY <1>0, <1>7, <2>1, <2>2 DEF CopyStyleSheet, Copy
<1>8. CASE CopyPicture(b)
  <2>1. htmlTmp = Drafts(b, {SignFile} \cup docs \cup {StyleSheet}) /\ htmlDir
    BY <1>8 DEF CopyPicture
  <2>2. htmlTmp' = (Drafts(b, {SignFile} \cup docs \cup {StyleSheet} \cup {Picture}))'
    BY <1>5, <1>6, <1>8, <2>1 DEF CopyPicture, Copy
  <2>3. QED
    BY <1>0, <1>8, <2>1, <2>2 DEF CopyPicture, Copy
<1>9. CASE CopyGodot(b)
  <2>1. htmlTmp = Drafts(b, {SignFile} \cup docs \cup {StyleSheet} \cup {Picture}) /\ htmlDir
    BY <1>9 DEF CopyGodot
  <2>2. {SignFile} \cup docs \cup {StyleSheet} \cup {Picture} \cup {Godot}
          = FullItems(CurrentEdition)
    BY CurrentEditionType DEF FullItems
  <2>3. htmlTmp' = (Drafts(b, FullItems(CurrentEdition)))'
    <3>1. head' = head
      BY <1>9 DEF CopyGodot, Copy
    <3>2. (Drafts(b, FullItems(CurrentEdition)))' = Drafts(b, FullItems(CurrentEdition))
      BY <3>1 DEF Drafts, DraftPage, CurrentEdition, FullItems
    <3>3. htmlTmp' = Put(htmlTmp, Godot, DraftPage(b, CurrentEdition, Godot))
      BY <1>6, <1>9, <2>1 DEF CopyGodot, Copy
    <3>4. htmlTmp' = Drafts(b, FullItems(CurrentEdition))
      BY <2>1, <2>2, <3>3, PutDraft
    <3>5. QED
      BY <3>2, <3>4
  <2>4. QED
    BY <1>0, <1>9, <2>1, <2>3 DEF CopyGodot, Copy
<1>10. CASE ChangePerm(b)
  <2>1. htmlTmp = Drafts(b, FullItems(CurrentEdition))
    BY <1>10 DEF ChangePerm
  <2>2. htmlTmp' = FullSite(b, CurrentEdition)
    BY <1>10, <2>1 DEF ChangePerm, Drafts, FullSite, FullPage
  <2>3. htmlTmp' = (FullSite(b, CurrentEdition))'
    BY <1>10, <2>2, SameHead DEF ChangePerm
  <2>4. QED
    BY <1>0, <1>10, <2>3 DEF ChangePerm
<1>11. QED
  BY <1>1, <1>2, <1>3, <1>4, <1>7, <1>8, <1>9, <1>10

\* What is still to be moved finds no directory of its name in the site.
LEMMA EntryMoves ==
  ASSUME TypeOK, NEW b \in Builder, Ready(b), NEW i \in Item, MoveEntry(b, i)
  PROVE  LET full == FullSite(b, CurrentEdition)
             items == FullItems(CurrentEdition)
         IN  /\ todo'[b] = todo[b] \ Entry(i)
             /\ todo'[b] \subseteq items
             /\ NoneDivided(todo'[b], items)
             /\ htmlTmp' = Restriction(full, todo'[b])
             /\ site' = [site EXCEPT ![HtmlPath[b]] =
                           Restriction(full, items \ todo'[b])]
<1> DEFINE full == FullSite(b, CurrentEdition)
           items == FullItems(CurrentEdition)
           s == HtmlPath[b]
<1>1. /\ DOMAIN full = items /\ full = [j \in DOMAIN full |-> full[j]]
      /\ items \subseteq Item
  BY EditionType, FullSiteFunction
<1>2. /\ todo[b] \subseteq items
      /\ NoneDivided(todo[b], items)
      /\ htmlTmp = Restriction(full, todo[b])
      /\ site[s] = Restriction(full, items \ todo[b])
  BY DEF MoveEntry, Ready, SiteReady
<1>3. todo'[b] = todo[b] \ Entry(i) /\ i \in todo[b]
  BY DEF MoveEntry, TypeOK
<1> HIDE DEF full, items
<1>4. DOMAIN site[s] = items \ todo[b]
  BY <1>1, <1>2 DEF Restriction
<1>5. ~\E D \in Directories : i \in D /\ DOMAIN site[s] \cap D # {}
  BY <1>2, <1>3, <1>4 DEF NoneDivided
<1>6. /\ site' = [site EXCEPT ![s] = Overlay(Restriction(htmlTmp, Entry(i)), @)]
      /\ htmlTmp' = Restriction(htmlTmp, Item \ Entry(i))
  BY <1>5 DEF MoveEntry
<1>7. htmlTmp' = Restriction(full, todo'[b])
  <2>1. htmlTmp' = Restriction(full, todo[b] \cap (Item \ Entry(i)))
    BY <1>2, <1>6, RestrictTwice
  <2>2. todo[b] \cap (Item \ Entry(i)) = todo'[b]
    BY <1>1, <1>2, <1>3
  <2>3. QED
    BY <2>1, <2>2
<1>8. Overlay(Restriction(htmlTmp, Entry(i)), site[s]) = Restriction(full, items \ todo'[b])
  <2>1. Restriction(htmlTmp, Entry(i)) = Restriction(full, todo[b] \cap Entry(i))
    BY <1>2, RestrictTwice
  <2>2. Overlay(Restriction(htmlTmp, Entry(i)), site[s])
          = Restriction(full, (todo[b] \cap Entry(i)) \cup (items \ todo[b]))
    BY <1>1, <1>2, <2>1, OverlayRestriction
  <2>3. (todo[b] \cap Entry(i)) \cup (items \ todo[b]) = items \ todo'[b]
    BY <1>2, <1>3
  <2>4. QED
    BY <2>2, <2>3
<1>9. site' = [site EXCEPT ![s] = Restriction(full, items \ todo'[b])]
  BY <1>6, <1>8
<1>10. todo'[b] \subseteq items
  BY <1>2, <1>3
<1>11. NoneDivided(todo'[b], items)
  <2>. SUFFICES ASSUME NEW D \in Directories, todo'[b] \cap D # {}
                PROVE  items \cap D \subseteq todo'[b]
    BY DEF NoneDivided
  <2>1. items \cap D \subseteq todo[b]
    BY <1>2, <1>3 DEF NoneDivided
  <2>2. CASE i \in D
    <3>1. D \subseteq Entry(i)
      BY <2>2 DEF Entry
    <3>2. QED
      BY <1>3, <3>1
  <2>3. CASE i \notin D
    <3>1. \A E \in Directories : i \in E => E \cap D = {}
      BY <2>3, ConstantsAssumption
    <3>2. Entry(i) \cap D = {}
      BY <2>3, <3>1 DEF Entry
    <3>3. QED
      BY <1>3, <2>1, <3>2
  <2>4. QED
    BY <2>2, <2>3
<1>12. QED
  BY <1>3, <1>7, <1>9, <1>10, <1>11 DEF full, items

\* From the rm on, the site is what my_exit has made of it so far.
LEMMA SiteIsReady ==
  ASSUME TypeOK, NEW b \in Builder, Ready(b),
         \/ ClearSite(b) \/ ListMoves(b) \/ \E i \in Item : MoveEntry(b, i)
         \/ RmHtmlTmp(b) \/ RmSrcTmp(b)
  PROVE  Ready(b)'
<1> DEFINE full == FullSite(b, CurrentEdition)
           items == FullItems(CurrentEdition)
           s == HtmlPath[b]
<1> USE DEF Ready, SrcTmpReady, HtmlTmpReady, SiteReady, Step
<1>0. /\ pc \in [Builder -> Phase] /\ todo \in [Builder -> SUBSET Item]
      /\ s \in Site /\ site = [t \in Site |-> site[t]]
  BY BuilderConstants DEF TypeOK
<1>1. /\ DOMAIN full = items /\ full = [j \in DOMAIN full |-> full[j]]
      /\ Restriction(full, items) = full
  BY EditionType, FullSiteFunction, RestrictAll
<1>2. head' = head
  BY DEF ClearSite, ListMoves, MoveEntry, RmHtmlTmp, RmSrcTmp
<1>3. (FullSite(b, CurrentEdition))' = full /\ (FullItems(CurrentEdition))' = items
  BY <1>2, SameHead
<1>4. CASE ClearSite(b)
  BY <1>0, <1>3, <1>4 DEF ClearSite
<1>5. CASE ListMoves(b)
  <2>1. htmlTmp = full /\ site[s] = EmptyDir
    BY <1>5 DEF ListMoves
  <2>2. todo'[b] = items /\ htmlTmp' = htmlTmp /\ site' = site /\ htmlDir' = htmlDir
    BY <1>0, <1>1, <1>5, <2>1 DEF ListMoves
  <2>3. Restriction(full, items \ items) = EmptyDir
    BY <1>1, RestrictNothing
  <2>4. htmlTmp' = Restriction(full, todo'[b]) /\ site'[s] = Restriction(full, items \ todo'[b])
    BY <1>1, <2>1, <2>2, <2>3
  <2>5. NoneDivided(todo'[b], items)
    BY <2>2 DEF NoneDivided
  <2>6. QED
    BY <1>0, <1>3, <1>5, <2>2, <2>4, <2>5 DEF ListMoves
<1>6. ASSUME NEW i \in Item, MoveEntry(b, i) PROVE Ready(b)'
  <2>1. /\ todo'[b] \subseteq items
        /\ NoneDivided(todo'[b], items)
        /\ htmlTmp' = Restriction(full, todo'[b])
        /\ site'[s] = Restriction(full, items \ todo'[b])
    BY <1>0, <1>6, EntryMoves
  <2>2. pc'[b] = "moving" /\ htmlDir'
    BY <1>6 DEF MoveEntry
  <2>3. QED
    BY <1>3, <2>1, <2>2
<1>7. CASE RmHtmlTmp(b)
  <2>1. site[s] = Restriction(full, items \ {})
    BY <1>7 DEF RmHtmlTmp
  <2>2. items \ {} = items
    OBVIOUS
  <2>3. site'[s] = full
    BY <1>1, <1>7, <2>1, <2>2 DEF RmHtmlTmp
  <2>4. QED
    BY <1>0, <1>3, <1>7, <2>3 DEF RmHtmlTmp
<1>8. CASE RmSrcTmp(b)
  BY <1>0, <1>8 DEF RmSrcTmp
<1>9. QED
  BY <1>4, <1>5, <1>6, <1>7, <1>8

\* What a step of one builder leaves alone.
LEMMA StepFrame ==
  ASSUME TypeOK, NEW b \in Builder, BuildStep(b)
  PROVE  /\ pc[b] # "idle"
         /\ head' = head
         /\ \A c \in Builder : c # b => pc'[c] = pc[c] /\ todo'[c] = todo[c]
         /\ \A s \in Site : s # HtmlPath[b] => site'[s] = site[s]
         /\ \A s \in broken : s # HtmlPath[b] => s \in broken'
BY DEF BuildStep, ResetHtmlTmp, ResetSrcTmp, CopySrc, AddCommon, RmPrivate,
   CreateSign, UpdateLanSign, CreatePage, CreatePagesDone, Copy, CopyStyleSheet,
   CopyPicture, CopyGodot, ChangePerm,
   ClearSite, ListMoves, MoveEntry, RmHtmlTmp, RmSrcTmp, Step, TypeOK

LEMMA OthersIdle ==
  ASSUME SoleBuilder, NEW b \in Builder, pc[b] # "idle", NEW c \in Builder, c # b
  PROVE  pc[c] = "idle"
BY DEF SoleBuilder

LEMMA StepReady ==
  ASSUME IInv, NEW b \in Builder, BuildStep(b)
  PROVE  SoleBuilder' /\ \A c \in Builder : (Ready(c))'
<1>1. TypeOK /\ SoleBuilder /\ Ready(b)
  BY DEF IInv
<1>2. \A c \in Builder : c # b => pc'[c] = "idle"
  BY <1>1, StepFrame, OthersIdle
<1>3. SoleBuilder'
  BY <1>2 DEF SoleBuilder
<1>4. Ready(b)'
  BY <1>1, SourcesReady, PagesReady, SiteIsReady DEF BuildStep
<1>5. QED
  BY <1>2, <1>3, <1>4, IdleReady

LEMMA WholeStays ==
  ASSUME NEW s \in Site, site'[s] = site[s], Whole(s)
  PROVE  Whole(s)'
BY DEF Whole

\* A site that is not touched still comes from its one build.
LEMMA PartStays ==
  ASSUME TypeOK, NEW s \in Site, site'[s] = site[s],
         /\ head["blog"] <= head'["blog"] /\ head'["blog"] \in Nat
         /\ head["tmp"] <= head'["tmp"] /\ head'["tmp"] \in Nat,
         \E b \in Builder, e \in Edition :
           /\ HtmlPath[b] = s
           /\ e.blog <= head["blog"] /\ e.tmp <= head["tmp"]
           /\ PartOf(site[s], FullSite(b, e))
  PROVE  \E b \in Builder, e \in Edition :
           /\ HtmlPath[b] = s
           /\ e.blog <= head'["blog"] /\ e.tmp <= head'["tmp"]
           /\ PartOf(site'[s], FullSite(b, e))
<1>1. PICK b \in Builder, e \in Edition :
           /\ HtmlPath[b] = s
           /\ e.blog <= head["blog"] /\ e.tmp <= head["tmp"]
           /\ PartOf(site[s], FullSite(b, e))
  OBVIOUS
<1>2. e.blog \in Nat /\ e.tmp \in Nat /\ head["blog"] \in Nat /\ head["tmp"] \in Nat
  BY EditionNat, CurrentEditionType
<1>3. e.blog <= head'["blog"] /\ e.tmp <= head'["tmp"]
  BY <1>1, <1>2
<1>4. QED
  BY <1>1, <1>3

LEMMA RestrictionIsPart ==
  ASSUME NEW full, NEW R
  PROVE  PartOf(Restriction(full, R), full) /\ PartOf(EmptyDir, full)
BY DEF PartOf, Restriction, EmptyDir

LEMMA StepFromOneBuild ==
  ASSUME IInv, NEW b \in Builder, BuildStep(b)
  PROVE  SiteFromOneBuild'
<1> DEFINE e == CurrentEdition
           s == HtmlPath[b]
<1>1. /\ TypeOK /\ Ready(b) /\ head' = head /\ SiteFromOneBuild
      /\ e \in Edition /\ s \in Site
      /\ e.blog <= head'["blog"] /\ e.tmp <= head'["tmp"]
  BY StepFrame, EditionType, CurrentEditionType, BuilderConstants DEF IInv
<1>2. ASSUME NEW t \in Site, site'[t] = site[t]
      PROVE  \E c \in Builder, f \in Edition :
               /\ HtmlPath[c] = t
               /\ f.blog <= head'["blog"] /\ f.tmp <= head'["tmp"]
               /\ PartOf(site'[t], FullSite(c, f))
  <2>1. head'["blog"] \in Nat /\ head'["tmp"] \in Nat
    BY <1>1, CurrentEditionType
  <2>2. /\ head["blog"] <= head'["blog"] /\ head["tmp"] <= head'["tmp"]
    BY <1>1, <2>1
  <2>3. QED
    BY <1>1, <1>2, <2>1, <2>2, PartStays DEF SiteFromOneBuild
<1>3. site'[s] = site[s] \/ PartOf(site'[s], FullSite(b, e))
  <2>1. CASE ClearSite(b)
    <3>1. site'[s] = EmptyDir
      BY <1>1, <2>1 DEF ClearSite, TypeOK
    <3>2. QED
      BY <3>1, RestrictionIsPart
  <2>2. ASSUME NEW i \in Item, MoveEntry(b, i)
        PROVE  PartOf(site'[s], FullSite(b, e))
    <3>1. site'[s] = Restriction(FullSite(b, e), FullItems(e) \ todo'[b])
      BY <1>1, <2>2, EntryMoves DEF TypeOK
    <3>2. QED
      BY <3>1, RestrictionIsPart
  <2>3. QED
    BY <2>1, <2>2 DEF BuildStep, ResetHtmlTmp, ResetSrcTmp, CopySrc, AddCommon,
       RmPrivate, CreateSign, UpdateLanSign, CreatePage, CreatePagesDone, Copy,
       CopyStyleSheet, CopyPicture, CopyGodot,
       ChangePerm, ListMoves, RmHtmlTmp, RmSrcTmp
<1>4. QED
  BY <1>1, <1>2, <1>3, StepFrame DEF SiteFromOneBuild

LEMMA StepSiteUp ==
  ASSUME IInv, NEW b \in Builder, BuildStep(b)
  PROVE  SiteUp'
<1> DEFINE e == CurrentEdition
           s == HtmlPath[b]
<1>1. /\ TypeOK /\ SoleBuilder /\ Ready(b) /\ SiteUp
      /\ e \in Edition /\ s \in Site
  BY EditionType, BuilderConstants DEF IInv
<1>2. \A c \in Builder : Replacing(c) => c = b
  BY <1>1, StepFrame DEF Replacing, SoleBuilder
<1>3. ASSUME NEW t \in Site, t # s
      PROVE  t \in broken' \/ Whole(t)'
  BY <1>1, <1>2, <1>3, StepFrame, WholeStays DEF SiteUp
<1>4. ASSUME site'[s] = FullSite(b, e)
      PROVE  Whole(s)'
  BY <1>1, <1>4 DEF Whole
<1>5. \/ s \in broken'
      \/ Replacing(b)'
      \/ Whole(s)'
  <2>1. CASE ~Replacing(b) /\ site' = site /\ broken' = broken
    BY <1>1, <1>2, <2>1, WholeStays DEF SiteUp
  <2>2. CASE ClearSite(b)
    BY <1>1, <2>2 DEF ClearSite, Step, Replacing, TypeOK
  <2>3. CASE ListMoves(b)
    <3>1. todo'[b] = FullItems(e) /\ pc'[b] = "moving"
      BY <1>1, <2>3, FullSiteFunction DEF ListMoves, Step, TypeOK, Ready, HtmlTmpReady
    <3>2. QED
      BY <1>1, <3>1, FullSiteFunction DEF Replacing
  <2>4. ASSUME NEW i \in Item, MoveEntry(b, i)
        PROVE  Replacing(b)' \/ Whole(s)'
    <3>1. /\ site'[s] = Restriction(FullSite(b, e), FullItems(e) \ todo'[b])
          /\ pc'[b] = "moving"
      <4>1. site'[s] = Restriction(FullSite(b, e), FullItems(e) \ todo'[b])
        BY <1>1, <2>4, EntryMoves DEF TypeOK
      <4>2. QED
        BY <2>4, <4>1 DEF MoveEntry
    <3>2. ASSUME todo'[b] = {} PROVE site'[s] = FullSite(b, e)
      <4>1. FullItems(e) \ todo'[b] = DOMAIN FullSite(b, e)
        BY <1>1, <3>2, FullSiteFunction
      <4>2. QED
        BY <1>1, <3>1, <4>1, FullSiteFunction, RestrictAll
    <3>3. QED
      BY <1>4, <3>1, <3>2 DEF Replacing
  <2>5. CASE RmHtmlTmp(b)
    <3>1. site'[s] = Restriction(FullSite(b, e), FullItems(e) \ {})
      BY <1>1, <2>5 DEF RmHtmlTmp, Step, Ready, SiteReady
    <3>2. FullItems(e) \ {} = DOMAIN FullSite(b, e)
      BY <1>1, FullSiteFunction
    <3>3. QED
      BY <1>1, <1>4, <3>1, <3>2, FullSiteFunction, RestrictAll
  <2>6. CASE RmSrcTmp(b)
    BY <1>1, <1>4, <2>6 DEF RmSrcTmp, Step, Ready, SiteReady
  <2>7. QED
    BY <2>1, <2>2, <2>3, <2>4, <2>5, <2>6 DEF BuildStep, ResetHtmlTmp, ResetSrcTmp,
       CopySrc, AddCommon, RmPrivate, CreateSign, UpdateLanSign, CreatePage,
       CreatePagesDone, Copy, CopyStyleSheet, CopyPicture, CopyGodot, ChangePerm, Step, Replacing
<1>6. QED
  BY <1>3, <1>5 DEF SiteUp

LEMMA NextIInv ==
  ASSUME ~Overlap, IInv, [Next]_buildVars
  PROVE  IInv'
<1>0. TypeOK /\ TypeOK' /\ SoleBuilder /\ SiteUp /\ SiteFromOneBuild
      /\ \A b \in Builder : Ready(b)
  BY NextTypeOK DEF IInv
<1>1. ASSUME NEW b \in Builder, Start(b) PROVE IInv'
  <2>1. /\ \A c \in Builder : pc[c] = "idle"
        /\ \A c \in Builder : c # b => pc'[c] = "idle"
        /\ pc'[b] = "html_tmp"
    BY <1>0, <1>1 DEF Start, Step, Quiet, TypeOK
  <2>2. SoleBuilder'
    BY <2>1 DEF SoleBuilder
  <2>3. Ready(b)'
    BY <1>0, <1>1, <2>1 DEF Start, Ready, SrcTmpReady, HtmlTmpReady, SiteReady, TypeOK
  <2>4. \A c \in Builder : (Ready(c))'
    BY <2>1, <2>3, IdleReady
  <2>5. SiteFromOneBuild'
    BY <1>0, <1>1 DEF Start, SiteFromOneBuild
  <2>6. SiteUp'
    BY <1>0, <1>1, <2>1 DEF Start, SiteUp, Replacing, Whole
  <2>7. QED
    BY <1>0, <2>2, <2>4, <2>5, <2>6 DEF IInv
<1>2. ASSUME NEW b \in Builder, BuildStep(b) PROVE IInv'
  BY <1>0, <1>2, StepReady, StepFromOneBuild, StepSiteUp DEF IInv
<1>3. ASSUME NEW b \in Builder, Crash(b) PROVE IInv'
  <2>1. \A c \in Builder : pc'[c] = "idle"
    BY <1>0, <1>3 DEF Crash, SoleBuilder, TypeOK
  <2>2. SoleBuilder' /\ \A c \in Builder : (Ready(c))'
    BY <2>1, IdleReady DEF SoleBuilder
  <2>3. SiteFromOneBuild'
    BY <1>0, <1>3 DEF Crash, SiteFromOneBuild
  <2>4. ASSUME NEW s \in Site PROVE s \in broken' \/ Whole(s)'
    <3>1. CASE s \in broken
      BY <1>3, <3>1 DEF Crash
    <3>2. CASE \E c \in Builder : HtmlPath[c] = s /\ Replacing(c)
      <4>1. Replacing(b) /\ HtmlPath[b] = s
        BY <1>0, <1>3, <3>2 DEF Crash, SoleBuilder, Replacing
      <4>2. QED
        BY <1>3, <4>1 DEF Crash
    <3>3. CASE Whole(s)
      BY <1>3, <3>3 DEF Crash, Whole
    <3>4. QED
      BY <1>0, <3>1, <3>2, <3>3 DEF SiteUp
  <2>5. QED
    BY <1>0, <2>2, <2>3, <2>4 DEF IInv, SiteUp
<1>4. ASSUME NEW r \in Repo, Advance(r) PROVE IInv'
  <2>1. \A c \in Builder : pc[c] = "idle" /\ pc'[c] = "idle"
    BY <1>4 DEF Advance, Quiet
  <2>2. SoleBuilder' /\ \A c \in Builder : (Ready(c))'
    BY <2>1, IdleReady DEF SoleBuilder
  <2>3. SiteFromOneBuild'
    <3>1. {"blog", "tmp"} \subseteq Repo
      BY ConstantsAssumption
    <3>2. \A q \in Repo : head[q] \in Nat /\ head'[q] \in Nat /\ head[q] <= head'[q]
      BY <1>0, <1>4 DEF Advance, TypeOK
    <3>3. QED
      BY <1>0, <1>4, <3>1, <3>2, PartStays DEF Advance, SiteFromOneBuild
  <2>4. SiteUp'
    BY <1>0, <1>4, <2>1 DEF Advance, SiteUp, Replacing, Whole
  <2>5. QED
    BY <1>0, <2>2, <2>3, <2>4 DEF IInv
<1>5. CASE UNCHANGED buildVars
  <2>1. SoleBuilder' /\ SiteFromOneBuild' /\ SiteUp'
    BY <1>0, <1>5 DEF buildVars, SoleBuilder, SiteFromOneBuild, SiteUp, Whole, Replacing
  <2>2. ASSUME NEW b \in Builder PROVE Ready(b)'
    <3>1. SrcTmpReady(b)'
      BY <1>0, <1>5 DEF buildVars, Ready, SrcTmpReady
    <3>2. HtmlTmpReady(b)'
      <4>1. /\ (FullSite(b, CurrentEdition))' = FullSite(b, CurrentEdition)
            /\ (FullItems(CurrentEdition))' = FullItems(CurrentEdition)
            /\ \A items : (Drafts(b, items))' = Drafts(b, items)
        BY <1>5, SameHead DEF buildVars
      <4>2. (Drafts(b, {SignFile} \cup (Listed(head["blog"]) \ todo[b])))'
              = Drafts(b, {SignFile} \cup (Listed(head["blog"]) \ todo[b]))
        BY <1>5 DEF buildVars, Drafts, DraftPage, CurrentEdition
      <4>3. (Drafts(b, FullItems(CurrentEdition)))' = Drafts(b, FullItems(CurrentEdition))
        BY <1>5 DEF buildVars, Drafts, DraftPage, CurrentEdition, FullItems
      <4>4. (Drafts(b, {SignFile} \cup Listed(head["blog"])))'
              = Drafts(b, {SignFile} \cup Listed(head["blog"]))
        BY <1>5 DEF buildVars, Drafts, DraftPage, CurrentEdition
      <4>5. QED
        BY <1>0, <1>5, <4>1, <4>2, <4>3, <4>4 DEF buildVars, Ready, HtmlTmpReady
    <3>3. SiteReady(b)'
      BY <1>0, <1>5, SameHead DEF buildVars, Ready, SiteReady
    <3>4. QED
      BY <3>1, <3>2, <3>3 DEF Ready
  <2>3. QED
    BY <1>0, <2>1, <2>2 DEF IInv
<1>6. QED
  BY <1>1, <1>2, <1>3, <1>4, <1>5 DEF Next

\* Builders that take turns keep each other's directories apart: whatever a
\* site holds, after any crash, comes from one build (create-html.sh 20-76).
THEOREM SerialSiteFromOneBuild == ~Overlap /\ Spec => []SiteFromOneBuild
<1> SUFFICES ASSUME ~Overlap PROVE Spec => []SiteFromOneBuild
  OBVIOUS
<1>1. IInv /\ [Next]_buildVars => IInv'
  BY NextIInv
<1>2. IInv => SiteFromOneBuild
  BY DEF IInv
<1>3. QED
  BY InitIInv, <1>1, <1>2, PTL DEF Spec

\* And a site is only incomplete between the rm and the mv of my_exit, or
\* after a crash there (create-html.sh 31-36).
THEOREM SerialSiteUp == ~Overlap /\ Spec => []SiteUp
<1> SUFFICES ASSUME ~Overlap PROVE Spec => []SiteUp
  OBVIOUS
<1>1. IInv /\ [Next]_buildVars => IInv'
  BY NextIInv
<1>2. IInv => SiteUp
  BY DEF IInv
<1>3. QED
  BY InitIInv, <1>1, <1>2, PTL DEF Spec

-----------------------------------------------------------------------------
(* The builder implements the visitor's view *)

\* A site's files tell which edition they are: sign.html carries the commit
\* of blog and the pictures that of tmp.
LEMMA EditionInFiles ==
  ASSUME NEW d \in Builder, NEW g \in Edition
  PROVE  /\ FullSite(d, g)[SignFile].src.ver = g.blog
         /\ FullSite(d, g)[Picture].src.ver = g.tmp
<1>1. \A p : OwnedByNginx(p).src = p.src
  BY DEF OwnedByNginx, PageOf
<1>2. /\ FullSite(d, g)[SignFile].src = DraftPage(d, g, SignFile).src
      /\ FullSite(d, g)[Picture].src = DraftPage(d, g, Picture).src
  BY <1>1 DEF FullSite, FullItems, FullPage
<1>3. \A v, lan : SignPage(v, lan).src.ver = v /\ CopyOf(v).src.ver = v
  BY DEF SignPage, CopyOf, SrcOf, PageOf
<1>4. /\ DraftPage(d, g, SignFile) = SignPage(g.blog, ReplaceIp[d])
      /\ DraftPage(d, g, Picture) = CopyOf(g.tmp)
  BY DraftPageCases
<1>5. QED
  BY <1>2, <1>3, <1>4

LEMMA EditionOfSite ==
  ASSUME NEW b \in Builder, NEW c \in Builder, NEW e \in Edition, NEW f \in Edition,
         FullSite(b, e) = FullSite(c, f)
  PROVE  e = f
<1>1. e.blog = f.blog /\ e.tmp = f.tmp
  BY EditionInFiles
<1>2. QED
  BY <1>1 DEF Edition

(* Showing an edition is being equal to its full site.                     *)
LEMMA ShowsFullSite ==
  ASSUME NEW dir, dir = [i \in DOMAIN dir |-> dir[i]], NEW c, NEW f
  PROVE  Shows(dir, c, f) <=> dir = FullSite(c, f)
<1>1. ASSUME Shows(dir, c, f) PROVE dir = FullSite(c, f)
  BY <1>1 DEF Shows, FullSite
<1>2. ASSUME dir = FullSite(c, f) PROVE Shows(dir, c, f)
  BY <1>2 DEF Shows, FullSite
<1>. QED
  BY <1>1, <1>2

LEMMA FullSiteShows ==
  ASSUME NEW b, NEW e, NEW c, NEW f
  PROVE  Shows(FullSite(b, e), c, f) <=> FullSite(b, e) = FullSite(c, f)
<1>1. FullSite(b, e) = [i \in DOMAIN FullSite(b, e) |-> FullSite(b, e)[i]]
  BY DEF FullSite
<1>. QED
  BY <1>1, ShowsFullSite

LEMMA ShownWhole ==
  ASSUME NEW s \in Site, NEW b \in Builder, NEW e \in Edition,
         HtmlPath[b] = s, site[s] = FullSite(b, e)
  PROVE  ShownEditions[s] = {e}
<1>1. \A c \in Builder, f \in Edition : FullSite(b, e) = FullSite(c, f) => f = e
  BY EditionOfSite
<1>2. \A c \in Builder, f \in Edition : Shows(site[s], c, f) <=> site[s] = FullSite(c, f)
  BY FullSiteShows
<1>. QED
  BY <1>1, <1>2 DEF ShownEditions

LEMMA ShownWholeNext ==
  ASSUME NEW s \in Site, NEW b \in Builder, NEW e \in Edition,
         HtmlPath[b] = s, site'[s] = FullSite(b, e)
  PROVE  ShownEditions'[s] = {e}
<1>1. \A c \in Builder, f \in Edition : FullSite(b, e) = FullSite(c, f) => f = e
  BY EditionOfSite
<1>2. \A c \in Builder, f \in Edition : Shows(site'[s], c, f) <=> site'[s] = FullSite(c, f)
  BY FullSiteShows
<1>. QED
  BY <1>1, <1>2 DEF ShownEditions

\* What misses a page shows no edition.
LEMMA PartShowsNone ==
  ASSUME NEW b \in Builder, NEW e \in Edition, NEW R, ~(FullItems(e) \subseteq R),
         NEW c \in Builder, NEW f \in Edition
  PROVE  ~Shows(Restriction(FullSite(b, e), R), c, f)
<1> DEFINE dir == Restriction(FullSite(b, e), R)
<1>0. dir = [i \in DOMAIN dir |-> dir[i]]
  BY DEF Restriction
<1> HIDE DEF dir
<1> SUFFICES ASSUME dir = FullSite(c, f) PROVE FALSE
  BY <1>0, ShowsFullSite DEF dir
<1> USE DEF dir
<1>1. FullItems(f) = FullItems(e) \cap R
  BY FullSiteFunction DEF Restriction
<1>2. SignFile \in FullItems(f) /\ Picture \in FullItems(f)
  BY DEF FullItems
<1>3. /\ FullSite(c, f)[SignFile] = FullSite(b, e)[SignFile]
      /\ FullSite(c, f)[Picture] = FullSite(b, e)[Picture]
  BY <1>1, <1>2, FullSiteFunction DEF Restriction
<1>4. e.blog = f.blog /\ e.tmp = f.tmp
  BY <1>3, EditionInFiles
<1>5. e = f
  BY <1>4 DEF Edition
<1>6. QED
  BY <1>1, <1>5

LEMMA InitShown == Init => W!Init
<1> SUFFICES ASSUME Init PROVE W!Init
  OBVIOUS
<1>1. TypeOK /\ CurrentEdition \in Edition
  BY InitTypeOK, EditionType
<1>2. CurrentEdition = [blog |-> 0, tmp |-> 0]
  BY ConstantsAssumption DEF Init, CurrentEdition
<1>3. ASSUME NEW s \in Site PROVE ShownEditions[s] = {CurrentEdition}
  <2>1. /\ OwnerOf(s) \in Builder /\ HtmlPath[OwnerOf(s)] = s
        /\ site[s] = FullSite(OwnerOf(s), CurrentEdition)
    BY <1>2, ConstantsAssumption DEF Init, OwnerOf
  <2>2. QED
    BY <1>1, <2>1, ShownWhole
<1>4. ShownEditions = [s \in Site |-> {CurrentEdition}]
  BY <1>3 DEF ShownEditions
<1>5. QED
  BY <1>1, <1>4 DEF W!Init

\* Nothing a visitor sees changes unless site or head does.
LEMMA SameShown ==
  ASSUME UNCHANGED <<head, site>>
  PROVE  UNCHANGED W!vars
BY DEF W!vars, CurrentEdition, ShownEditions

LEMMA ShownElsewhere ==
  ASSUME NEW s \in Site, site'[s] = site[s]
  PROVE  ShownEditions'[s] = ShownEditions[s]
BY DEF ShownEditions

\* The one step that brings a site up is the last move of mv.
LEMMA MoveShows ==
  ASSUME IInv, NEW b \in Builder, NEW i \in Item, MoveEntry(b, i)
  PROVE  UNCHANGED W!vars \/ W!BringUp(HtmlPath[b])
<1> DEFINE e == CurrentEdition
           s == HtmlPath[b]
<1>1. /\ TypeOK /\ Ready(b) /\ e \in Edition /\ s \in Site
      /\ head' = head /\ pc[b] = "moving" /\ i \in todo[b]
  BY EditionType, BuilderConstants DEF IInv, MoveEntry
<1>2. /\ site[s] = Restriction(FullSite(b, e), FullItems(e) \ todo[b])
      /\ todo[b] \subseteq FullItems(e)
  BY <1>1 DEF Ready, SiteReady
<1>3. /\ site'[s] = Restriction(FullSite(b, e), FullItems(e) \ todo'[b])
      /\ todo'[b] \subseteq FullItems(e)
      /\ \A t \in Site : t # s => site'[t] = site[t]
  BY <1>1, EntryMoves DEF TypeOK
<1>4. ShownEditions[s] = {}
  <2>1. ~(FullItems(e) \subseteq FullItems(e) \ todo[b])
    BY <1>1, <1>2
  <2>2. \A c \in Builder, f \in Edition : ~Shows(site[s], c, f)
    BY <1>1, <1>2, <2>1, PartShowsNone
  <2>3. QED
    BY <1>1, <2>2 DEF ShownEditions
<1>5. \A t \in Site : t # s => ShownEditions'[t] = ShownEditions[t]
  BY <1>3, ShownElsewhere
<1>6. /\ DOMAIN ShownEditions = Site /\ ShownEditions = [t \in Site |-> ShownEditions[t]]
      /\ ShownEditions' = [t \in Site |-> ShownEditions'[t]]
      /\ CurrentEdition' = CurrentEdition
  BY <1>1 DEF ShownEditions, CurrentEdition
<1>7. CASE todo'[b] # {}
  <2>1. ~(FullItems(e) \subseteq FullItems(e) \ todo'[b])
    BY <1>3, <1>7
  <2>2. \A c \in Builder, f \in Edition : ~Shows(site'[s], c, f)
    BY <1>1, <1>3, <2>1, PartShowsNone
  <2>3. ShownEditions'[s] = {}
    BY <1>1, <2>2 DEF ShownEditions
  <2>4. ShownEditions' = ShownEditions
    BY <1>4, <1>5, <1>6, <2>3
  <2>5. QED
    BY <1>6, <2>4 DEF W!vars
<1>8. CASE todo'[b] = {}
  <2>1. FullItems(e) \ todo'[b] = DOMAIN FullSite(b, e)
    BY <1>1, <1>8, FullSiteFunction
  <2>2. site'[s] = FullSite(b, e)
    BY <1>1, <1>3, <2>1, FullSiteFunction, RestrictAll
  <2>3. ShownEditions'[s] = {e}
    BY <1>1, <2>2, ShownWholeNext
  <2>4. ShownEditions' = [ShownEditions EXCEPT ![s] = {e}]
    BY <1>1, <1>5, <1>6, <2>3
  <2>5. QED
    BY <1>4, <1>6, <2>4 DEF W!BringUp
<1>9. QED
  BY <1>7, <1>8

LEMMA ClearHides ==
  ASSUME TypeOK, NEW b \in Builder, ClearSite(b)
  PROVE  W!TakeDown(HtmlPath[b])
<1> DEFINE s == HtmlPath[b]
<1>1. /\ s \in Site /\ head' = head /\ site'[s] = EmptyDir
      /\ \A t \in Site : t # s => site'[t] = site[t]
  BY BuilderConstants DEF ClearSite, TypeOK
<1>2. ASSUME NEW c \in Builder, NEW f \in Edition PROVE ~Shows(EmptyDir, c, f)
  BY DEF Shows, EmptyDir, FullItems
<1>3. ShownEditions'[s] = {}
  BY <1>1, <1>2 DEF ShownEditions
<1>4. \A t \in Site : t # s => ShownEditions'[t] = ShownEditions[t]
  BY <1>1, ShownElsewhere
<1>5. /\ ShownEditions = [t \in Site |-> ShownEditions[t]]
      /\ ShownEditions' = [t \in Site |-> ShownEditions'[t]]
      /\ CurrentEdition' = CurrentEdition
  BY <1>1 DEF ShownEditions, CurrentEdition
<1>6. ShownEditions' = [ShownEditions EXCEPT ![s] = {}]
  BY <1>3, <1>4, <1>5
<1>7. QED
  BY <1>5, <1>6 DEF W!TakeDown

LEMMA AdvanceShows ==
  ASSUME TypeOK, TypeOK', NEW r \in Repo, Advance(r)
  PROVE  W!Advance
<1>1. CurrentEdition' \in Edition
  BY EditionType, ConstantsAssumption DEF TypeOK, CurrentEdition, Edition
<1>2. ShownEditions' = ShownEditions
  BY DEF Advance, ShownEditions
<1>3. {"blog", "tmp"} \subseteq Repo
  BY ConstantsAssumption
<1>4. \A q \in Repo : head[q] \in Nat /\ head'[q] >= head[q]
  BY DEF Advance, TypeOK
<1>5. CurrentEdition'.blog >= CurrentEdition.blog /\ CurrentEdition'.tmp >= CurrentEdition.tmp
  BY <1>3, <1>4 DEF CurrentEdition
<1>6. QED
  BY <1>1, <1>2, <1>5 DEF W!Advance

LEMMA NextShown ==
  ASSUME IInv, IInv', [Next]_buildVars
  PROVE  [W!Next]_(W!vars)
<1>0. TypeOK /\ TypeOK'
  BY DEF IInv
<1>1. ASSUME NEW b \in Builder, ClearSite(b) PROVE W!Next
  BY <1>0, <1>1, ClearHides, BuilderConstants DEF W!Next
<1>2. ASSUME NEW b \in Builder, NEW i \in Item, MoveEntry(b, i)
      PROVE  W!Next \/ UNCHANGED W!vars
  BY <1>2, MoveShows, BuilderConstants DEF W!Next
<1>3. ASSUME NEW r \in Repo, Advance(r) PROVE W!Next
  BY <1>0, <1>3, AdvanceShows DEF W!Next
<1>4. ASSUME NEW b \in Builder, BuildStep(b)
      PROVE  W!Next \/ UNCHANGED W!vars
  <2>1. CASE UNCHANGED <<head, site>>
    BY <2>1, SameShown
  <2>2. CASE ~UNCHANGED <<head, site>>
    BY <1>1, <1>2, <1>4, <2>2 DEF BuildStep, ResetHtmlTmp, ResetSrcTmp, CopySrc,
       AddCommon, RmPrivate, CreateSign, UpdateLanSign, CreatePage, CreatePagesDone,
       Copy, CopyStyleSheet, CopyPicture, CopyGodot, ChangePerm, ListMoves, RmHtmlTmp, RmSrcTmp
  <2>3. QED
    BY <2>1, <2>2
<1>5. ASSUME NEW b \in Builder, Start(b) \/ Crash(b)
      PROVE  UNCHANGED W!vars
  BY <1>5, SameShown DEF Start, Crash
<1>6. CASE UNCHANGED buildVars
  BY <1>6, SameShown DEF buildVars
<1>7. QED
  BY <1>3, <1>4, <1>5, <1>6 DEF Next

\* For builders that take turns, a visitor sees the abstract specification
\* Website: what a site shows is one whole edition or nothing, and what
\* comes up is the edition that is checked out (create-html.sh 20-76).
THEOREM SerialRefinement == ~Overlap /\ Spec => ImplementsWebsite
<1> SUFFICES ASSUME ~Overlap PROVE Spec => W!Spec
  BY DEF ImplementsWebsite
<1>1. IInv /\ [Next]_buildVars => IInv'
  BY NextIInv
<1>2. IInv /\ IInv' /\ [Next]_buildVars => [W!Next]_(W!vars)
  BY NextShown
<1>3. QED
  BY InitIInv, InitShown, <1>1, <1>2, PTL DEF Spec, W!Spec
=============================================================================
