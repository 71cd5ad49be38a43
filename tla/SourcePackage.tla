--------------------------- MODULE SourcePackage ---------------------------
(***************************************************************************)
(* One source package of the mock OBS server: what MockPackage of          *)
(* open-build-service-mock/src/lib.rs holds, and the operations that make  *)
(* a package or change one.  The operators are pure: SourceStore keeps     *)
(* packages in its state and applies these operators to them.              *)
(*                                                                         *)
(* A file is stored under a key, its path and the MD5 of its contents.     *)
(* Contents that users provide are the keys in UserFiles; the documents    *)
(* the server writes itself (_meta and _link) have an MD5 determined by    *)
(* what is written in them, so that record stands for the digest.  Times,  *)
(* users, comments and sizes are only echoed and are left out.             *)
(***************************************************************************)
EXTENDS Naturals, Sequences, FiniteSets, SequencesExt

CONSTANTS
  Projects,          \* project names
  PackageNames,      \* package names
  UserFiles,         \* keys [path, md5] of the files users put in packages
  Versions,          \* Some(version) of a revision
  NoVersion,         \* its None
  Srcmd5s,           \* digests of revisions: random_md5() or a caller's choice
  ZERO_REV_SRCMD5,   \* the digest of the empty "zero revision"
  DisabledLists,     \* lists of disabled builds, one of them empty:
  NoneDisabled

ASSUME PackageAssumption ==
  /\ NoVersion \notin Versions
  /\ ZERO_REV_SRCMD5 \notin Srcmd5s
  /\ NoneDisabled \in DisabledLists

LINK_PATH == "_link"
META_PATH == "_meta"

AllVersions == Versions \cup {NoVersion}

-----------------------------------------------------------------------------
(* Files the server writes, and the types.                                 *)

MetaFile(project, package, disabled) ==
  [path |-> META_PATH,
   md5 |-> [project |-> project, package |-> package, disabled |-> disabled]]

LinkFile(project, baserev, missingok) ==
  [path |-> LINK_PATH,
   md5 |-> [project |-> project, baserev |-> baserev, missingok |-> missingok]]

FileKeys ==
  UserFiles
    \cup {MetaFile(p, k, d) : p \in Projects, k \in PackageNames, d \in DisabledLists}
    \cup {LinkFile(p, b, m) :
            p \in Projects, b \in Srcmd5s \cup {ZERO_REV_SRCMD5}, m \in BOOLEAN}

LinkInfo ==
  [project : Projects, package : PackageNames, missingok : BOOLEAN,
   baserev : Srcmd5s \cup {ZERO_REV_SRCMD5}, lsrcmd5 : Srcmd5s]

\* linkinfo is a vector that never has more than one element: a set here.
Revision ==
  [vrev : Nat, version : AllVersions, srcmd5 : Srcmd5s,
   linkinfo : SUBSET LinkInfo, entries : SUBSET FileKeys]

\* Every meta revision has one entry, its _meta file, and neither vrev nor
\* linkinfo: the key of that file stands for the revision.  A version that is
\* not in the latest_vrevs map has the count 0.
Package ==
  [files : SUBSET FileKeys, revisions : Seq(Revision), metaRevisions : Seq(FileKeys),
   latestVrevs : [AllVersions -> Nat], disabled : DisabledLists]

LastRevision(pkg) == pkg.revisions[Len(pkg.revisions)]

Entry(rev, path) == {e \in rev.entries : e.path = path}

-----------------------------------------------------------------------------
(* Making a package.                                                       *)

NewWithMetadata(project, package, disabled) ==
  LET meta == MetaFile(project, package, disabled)
  IN  [files |-> {meta}, revisions |-> << >>, metaRevisions |-> <<meta>>,
       latestVrevs |-> [v \in AllVersions |-> 0], disabled |-> disabled]

\* Mutant of BranchBase: a branch keeps the entries but not the files.
BranchBaseWithoutFiles(origin, hasOrigin) ==
  [files |-> {}, disabled |-> NoneDisabled,
   entries |-> IF hasOrigin /\ origin.revisions # << >>
               THEN LastRevision(origin).entries ELSE {},
   srcmd5 |-> IF hasOrigin /\ origin.revisions # << >>
              THEN LastRevision(origin).srcmd5 ELSE ZERO_REV_SRCMD5]

\* What a branch takes over from its origin's last revision; an origin that is
\* missing, or has no revision, counts as an empty one.
BranchBase(origin, hasOrigin) ==
  IF hasOrigin /\ origin.revisions # << >>
  THEN LET rev == LastRevision(origin)
       IN  [files |-> origin.files, entries |-> rev.entries,
            srcmd5 |-> rev.srcmd5, disabled |-> origin.disabled]
  ELSE [files |-> {}, entries |-> {},
        srcmd5 |-> ZERO_REV_SRCMD5, disabled |-> NoneDisabled]

\* The _link file names the branched project, the linkinfo the origin.
NewBranched(fromProject, fromPackage, base, project, package, missingok, srcmd5) ==
  LET meta == MetaFile(project, package, base.disabled)
      link == LinkFile(project, base.srcmd5, missingok)
      info == [project |-> fromProject, package |-> fromPackage, missingok |-> missingok,
               baserev |-> base.srcmd5, lsrcmd5 |-> srcmd5]
      kept == {e \in base.entries : e.path # LINK_PATH}
  IN  [files |-> base.files \cup {meta, link},
       revisions |-> <<[vrev |-> 1, version |-> NoVersion, srcmd5 |-> srcmd5,
                        linkinfo |-> {info}, entries |-> kept \cup {link}]>>,
       metaRevisions |-> <<meta>>,
       latestVrevs |-> [v \in AllVersions |-> IF v = NoVersion THEN 1 ELSE 0],
       disabled |-> base.disabled]

-----------------------------------------------------------------------------
(* Changing a package.                                                     *)

PutFile(pkg, file) == [pkg EXCEPT !.files = @ \cup {file}]

\* The list of disabled builds the package itself keeps is not touched.
PutMetadata(pkg, meta) ==
  [pkg EXCEPT !.files = @ \cup {meta}, !.metaRevisions = Append(@, meta)]

EntriesStored(pkg, entries) == entries \subseteq pkg.files

\* Mutant of InheritedLinkInfo: a commit loses the linkinfo of the branch.
InheritedNever(pkg, entries) == {}

\* Mutant of InheritedLinkInfo: the check that the revision has a _link is lost.
InheritedWithoutLink(pkg, entries) ==
  IF pkg.revisions # << >> THEN LastRevision(pkg).linkinfo ELSE {}

\* The linkinfo of a new revision: its predecessor's, while it has a _link.
InheritedLinkInfo(pkg, entries) ==
  IF pkg.revisions # << >> /\ \E e \in entries : e.path = LINK_PATH
  THEN LastRevision(pkg).linkinfo
  ELSE {}

\* Mutant of AddRevision: one count for all versions.
AddRevisionOneCount(pkg, version, srcmd5, entries) ==
  [pkg EXCEPT !.latestVrevs[version] = Len(pkg.revisions) + 1,
              !.revisions = Append(@,
                [vrev |-> Len(pkg.revisions) + 1, version |-> version, srcmd5 |-> srcmd5,
                 linkinfo |-> InheritedLinkInfo(pkg, entries), entries |-> entries])]

\* The counter moves before the entries are looked up, so a failed assertion
\* leaves it one ahead of the revisions.
AddRevision(pkg, version, srcmd5, entries) ==
  LET vrev == pkg.latestVrevs[version] + 1
      rev == [vrev |-> vrev, version |-> version, srcmd5 |-> srcmd5,
              linkinfo |-> InheritedLinkInfo(pkg, entries), entries |-> entries]
      counted == [pkg EXCEPT !.latestVrevs[version] = vrev]
  IN  IF EntriesStored(pkg, entries)
      THEN [counted EXCEPT !.revisions = Append(@, rev)]
      ELSE counted

\* A commit's file list: the entries the package has no file for, and the
\* entries of the revision it makes (the last one listed for a path counts).
Missing(pkg, list) == {i \in DOMAIN list : list[i] \notin pkg.files}

CommitEntries(list) ==
  {list[i] : i \in {i \in DOMAIN list :
                      \A j \in DOMAIN list : j > i => list[j].path # list[i].path}}

-----------------------------------------------------------------------------
(* Reading a package: what each GET handler answers.  "panic" is an unwrap *)
(* of None or an index out of bounds.                                      *)

ListingReply(pkg, entries) == IF EntriesStored(pkg, entries) THEN "ok" ELSE "panic"

\* Mutant of ListReply: the revision is checked as if counted from zero.
ListReplyOffByOne(pkg, listMeta, given, rev) ==
  LET revId == IF given THEN rev ELSE Len(pkg.revisions)
  IN  IF listMeta THEN "ok"
      ELSE IF given /\ rev > Len(pkg.revisions) + 1 THEN "no such revision"
      ELSE IF revId = 0 THEN "zero revision"
      ELSE IF revId \in DOMAIN pkg.revisions
           THEN ListingReply(pkg, pkg.revisions[revId].entries) ELSE "panic"

\* GET of the listing.  rev is given, or defaults to the last revision of the
\* list asked for.  Values of rev and meta that do not parse, which are refused
\* before anything is looked at, are left out.
ListReply(pkg, listMeta, given, rev) ==
  LET revisions == IF listMeta THEN [i \in DOMAIN pkg.metaRevisions |-> {pkg.metaRevisions[i]}]
                               ELSE [i \in DOMAIN pkg.revisions |-> pkg.revisions[i].entries]
      revId == IF given THEN rev ELSE Len(revisions)
  IN  IF given /\ ~(rev <= Len(pkg.revisions) /\ (rev > 0 \/ ~listMeta))
      THEN "no such revision"
      ELSE IF revId = 0
           THEN IF listMeta THEN "panic" ELSE "zero revision"
           ELSE IF revId \in DOMAIN revisions
                THEN ListingReply(pkg, revisions[revId])
                ELSE "panic"

\* GET of one file of the last revision, or of the last _meta.
FileReply(pkg, path) ==
  IF path = META_PATH
  THEN IF pkg.metaRevisions # << >>
       THEN ListingReply(pkg, {pkg.metaRevisions[Len(pkg.metaRevisions)]})
       ELSE "panic"
  ELSE IF pkg.revisions = << >> \/ Entry(LastRevision(pkg), path) = {}
       THEN "no such file"
       ELSE ListingReply(pkg, Entry(LastRevision(pkg), path))

-----------------------------------------------------------------------------
(* What is right about a package.                                          *)

\* Every entry of every revision has its file, which is what the listing and
\* file handlers unwrap.
FilesResolve(pkg) ==
  /\ \A i \in DOMAIN pkg.revisions : EntriesStored(pkg, pkg.revisions[i].entries)
  /\ \A i \in DOMAIN pkg.metaRevisions : pkg.metaRevisions[i] \in pkg.files

\* The vrev of a revision is its rank among the revisions of its version.
RevsOf(pkg, version, n) == {i \in 1..n : pkg.revisions[i].version = version}

VrevsAreRanks(pkg) ==
  \A n \in DOMAIN pkg.revisions :
    pkg.revisions[n].vrev = Cardinality(RevsOf(pkg, pkg.revisions[n].version, n))

CountersMatch(pkg) ==
  \A v \in AllVersions :
    pkg.latestVrevs[v] = Cardinality(RevsOf(pkg, v, Len(pkg.revisions)))

\* Revision i and all before it hold a _link.
LinkedUpTo(pkg, i) == \A j \in 1..i : Entry(pkg.revisions[j], LINK_PATH) # {}

\* The linkinfo of a branch lasts exactly while its revisions keep a _link: a
\* revision has the linkinfo of the first one if every revision up to it holds
\* a _link, and else none, whatever _link comes back later.  The first one has
\* linkinfo if the server wrote its _link, and the lsrcmd5 is its own srcmd5.
LinkInfoOfFirst(pkg) ==
  \A i \in DOMAIN pkg.revisions :
    LET first == pkg.revisions[1]
    IN  /\ pkg.revisions[i].linkinfo = IF LinkedUpTo(pkg, i) THEN first.linkinfo ELSE {}
        /\ Entry(first, LINK_PATH) \subseteq UserFiles \/ first.linkinfo # {}
        /\ \A info \in first.linkinfo : info.lsrcmd5 = first.srcmd5
=============================================================================
