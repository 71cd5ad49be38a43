------------------------- MODULE SourcePackageProofs -------------------------
(***************************************************************************)
(* What the operations on one package preserve.                            *)
(***************************************************************************)
EXTENDS SourcePackage, TLAPS, FiniteSetTheorems

\* The server writes a _link only as it makes a branch, which has a revision.
NoServerLink(pkg) ==
  pkg.revisions = << >> => \A file \in pkg.files : file.path = LINK_PATH => file \in UserFiles

\* A package as the code keeps it, all but its counters, which a failed
\* assertion in add_revision leaves ahead.
Good(pkg) ==
  /\ pkg \in Package
  /\ pkg.metaRevisions # << >>
  /\ FilesResolve(pkg)
  /\ VrevsAreRanks(pkg)
  /\ LinkInfoOfFirst(pkg)
  /\ NoServerLink(pkg)

-----------------------------------------------------------------------------

\* The _meta and _link files the server writes are file keys like any other.
LEMMA GeneratedFiles ==
  /\ \A p \in Projects, k \in PackageNames, d \in DisabledLists : MetaFile(p, k, d) \in FileKeys
  /\ \A p \in Projects, b \in Srcmd5s \cup {ZERO_REV_SRCMD5}, m \in BOOLEAN :
       LinkFile(p, b, m) \in FileKeys
  /\ UserFiles \subseteq FileKeys
BY DEF FileKeys

\* A package made from metadata alone is good, and has counted nothing.
LEMMA NewWithMetadataGood ==
  ASSUME NEW p \in Projects, NEW k \in PackageNames, NEW d \in DisabledLists
  PROVE  Good(NewWithMetadata(p, k, d)) /\ CountersMatch(NewWithMetadata(p, k, d))
<1> DEFINE pkg == NewWithMetadata(p, k, d)
<1>1. MetaFile(p, k, d) \in FileKeys
  BY GeneratedFiles
<1>2. pkg \in Package
  BY <1>1 DEF NewWithMetadata, Package
<1>3. pkg.metaRevisions # << >> /\ FilesResolve(pkg)
  BY <1>1 DEF NewWithMetadata, FilesResolve, EntriesStored
<1>4. VrevsAreRanks(pkg) /\ LinkInfoOfFirst(pkg)
  BY DEF NewWithMetadata, VrevsAreRanks, LinkInfoOfFirst
<1>6. NoServerLink(pkg)
  BY DEF NewWithMetadata, NoServerLink, MetaFile, META_PATH, LINK_PATH
<1>5. CountersMatch(pkg)
  <2>1. \A v \in AllVersions : RevsOf(pkg, v, Len(pkg.revisions)) = {}
    BY DEF RevsOf, NewWithMetadata
  <2>2. \A v \in AllVersions : pkg.latestVrevs[v] = 0
    BY DEF NewWithMetadata
  <2> QED
    BY <2>1, <2>2, FS_EmptySet DEF CountersMatch
<1> QED
  BY <1>2, <1>3, <1>4, <1>5, <1>6 DEF Good

-----------------------------------------------------------------------------
(* Branching.                                                              *)

Base ==
  [files : SUBSET FileKeys, entries : SUBSET FileKeys,
   srcmd5 : Srcmd5s \cup {ZERO_REV_SRCMD5}, disabled : DisabledLists]

\* What a branch starts from: entries whose files all come along.
LEMMA BranchBaseGood ==
  ASSUME NEW origin, NEW has \in BOOLEAN, has => Good(origin)
  PROVE  LET base == BranchBase(origin, has)
         IN  base \in Base /\ base.entries \subseteq base.files
<1>1. CASE has /\ origin.revisions # << >>
  <2> DEFINE n == Len(origin.revisions)
  <2>1. origin \in Package /\ n \in DOMAIN origin.revisions /\ n \in Nat
    BY <1>1 DEF Good, Package
  <2>2. origin.revisions[n] \in Revision
    BY <2>1 DEF Package
  <2>3. origin.revisions[n].entries \subseteq origin.files
    BY <1>1, <2>1 DEF Good, FilesResolve, EntriesStored
  <2> QED
    BY <1>1, <2>1, <2>2, <2>3 DEF BranchBase, LastRevision, Base, Package, Revision
<1>2. CASE ~(has /\ origin.revisions # << >>)
  BY <1>2, PackageAssumption DEF BranchBase, Base
<1> QED
  BY <1>1, <1>2

\* A branch is good, and its counters say that it has its one revision.
LEMMA NewBranchedGood ==
  ASSUME NEW fp \in Projects, NEW fk \in PackageNames, NEW p \in Projects,
         NEW k \in PackageNames, NEW m \in BOOLEAN, NEW s \in Srcmd5s,
         NEW base \in Base, base.entries \subseteq base.files
  PROVE  LET pkg == NewBranched(fp, fk, base, p, k, m, s)
         IN  Good(pkg) /\ CountersMatch(pkg)
<1> DEFINE pkg == NewBranched(fp, fk, base, p, k, m, s)
           meta == MetaFile(p, k, base.disabled)
           link == LinkFile(p, base.srcmd5, m)
           info == [project |-> fp, package |-> fk, missingok |-> m,
                    baserev |-> base.srcmd5, lsrcmd5 |-> s]
           entries == {e \in base.entries : e.path # LINK_PATH} \cup {link}
           rev == [vrev |-> 1, version |-> NoVersion, srcmd5 |-> s,
                   linkinfo |-> {info}, entries |-> entries]
<1>0. /\ base.files \subseteq FileKeys /\ base.entries \subseteq FileKeys
      /\ base.srcmd5 \in Srcmd5s \cup {ZERO_REV_SRCMD5} /\ base.disabled \in DisabledLists
  BY DEF Base
<1>1. meta \in FileKeys /\ link \in FileKeys /\ link.path = LINK_PATH
  BY <1>0, GeneratedFiles DEF LinkFile
<1>2. info \in LinkInfo
  BY <1>0 DEF LinkInfo
<1>3. entries \subseteq base.files \cup {meta, link} /\ entries \subseteq FileKeys
  BY <1>0, <1>1
<1>5. rev \in Revision
  BY <1>2, <1>3 DEF Revision, AllVersions
<1> HIDE DEF rev, entries, info, meta, link
<1>6. /\ pkg = [files |-> base.files \cup {meta, link}, revisions |-> <<rev>>,
                metaRevisions |-> <<meta>>,
                latestVrevs |-> [v \in AllVersions |-> IF v = NoVersion THEN 1 ELSE 0],
                disabled |-> base.disabled]
      /\ rev.vrev = 1 /\ rev.version = NoVersion /\ rev.srcmd5 = s
      /\ rev.linkinfo = {info} /\ rev.entries = entries /\ info.lsrcmd5 = s
      /\ link \in entries
  BY DEF NewBranched, rev, entries, info, meta, link
<1> HIDE DEF pkg
<1>7. pkg \in Package
  BY <1>0, <1>1, <1>5, <1>6 DEF Package
<1>8. FilesResolve(pkg) /\ NoServerLink(pkg) /\ pkg.metaRevisions # << >>
  BY <1>3, <1>6 DEF FilesResolve, EntriesStored, NoServerLink
<1>9. LinkInfoOfFirst(pkg)
  <2>1. DOMAIN pkg.revisions = {1} /\ pkg.revisions[1] = rev /\ 1..1 = {1}
    BY <1>6
  <2>2. Entry(pkg.revisions[1], LINK_PATH) # {}
    BY <1>1, <1>6, <2>1 DEF Entry
  <2>3. LinkedUpTo(pkg, 1)
    BY <2>1, <2>2 DEF LinkedUpTo
  <2> QED
    BY <1>6, <2>1, <2>3 DEF LinkInfoOfFirst
<1>10. \A v \in AllVersions : RevsOf(pkg, v, 1) = IF v = NoVersion THEN {1} ELSE {}
  BY <1>6 DEF RevsOf
<1>11. VrevsAreRanks(pkg) /\ CountersMatch(pkg)
  <2>1. Cardinality({1}) = 1 /\ Cardinality({}) = 0
    BY FS_EmptySet, FS_Singleton
  <2>2. NoVersion \in AllVersions
    BY DEF AllVersions
  <2>3. DOMAIN pkg.revisions = {1} /\ Len(pkg.revisions) = 1 /\ pkg.revisions[1] = rev
    BY <1>6
  <2>4. pkg.revisions[1].vrev = 1 /\ pkg.revisions[1].version = NoVersion
    BY <1>6, <2>3
  <2>5. \A v \in AllVersions : pkg.latestVrevs[v] = IF v = NoVersion THEN 1 ELSE 0
    BY <1>6
  <2>6. VrevsAreRanks(pkg)
    BY <1>10, <2>1, <2>2, <2>3, <2>4 DEF VrevsAreRanks
  <2>7. CountersMatch(pkg)
    BY <1>10, <2>1, <2>3, <2>5 DEF CountersMatch
  <2> QED
    BY <2>6, <2>7
<1> QED
  BY <1>7, <1>8, <1>9, <1>11 DEF Good, pkg

-----------------------------------------------------------------------------
(* Changing.                                                               *)

\* What the counters say depends on the revisions alone.
LEMMA SameRevisions ==
  ASSUME NEW old, NEW new, new.revisions = old.revisions, new.latestVrevs = old.latestVrevs
  PROVE  /\ VrevsAreRanks(old) => VrevsAreRanks(new)
         /\ CountersMatch(old) => CountersMatch(new)
<1>1. \A v, n : RevsOf(new, v, n) = RevsOf(old, v, n)
  BY DEF RevsOf
<1>2. VrevsAreRanks(old) => VrevsAreRanks(new)
  BY <1>1 DEF VrevsAreRanks
<1>3. CountersMatch(old) => CountersMatch(new)
  BY <1>1 DEF CountersMatch
<1> QED
  BY <1>2, <1>3

\* So does the linkinfo.
LEMMA SameLinkInfo ==
  ASSUME NEW old, NEW new, new.revisions = old.revisions, LinkInfoOfFirst(old)
  PROVE  LinkInfoOfFirst(new)
<1>1. \A i : LinkedUpTo(new, i) = LinkedUpTo(old, i)
  BY DEF LinkedUpTo
<1> QED
  BY <1>1 DEF LinkInfoOfFirst

\* Storing a file disturbs nothing.
LEMMA PutFileGood ==
  ASSUME NEW pkg, Good(pkg), NEW file \in UserFiles
  PROVE  Good(PutFile(pkg, file)) /\ (CountersMatch(pkg) => CountersMatch(PutFile(pkg, file)))
<1> DEFINE new == PutFile(pkg, file)
<1>0. file \in FileKeys
  BY GeneratedFiles
<1>1. /\ new \in Package /\ new.files = pkg.files \cup {file}
      /\ new.revisions = pkg.revisions /\ new.metaRevisions = pkg.metaRevisions
      /\ new.latestVrevs = pkg.latestVrevs
  BY <1>0 DEF Good, Package, PutFile
<1> HIDE DEF new
<1>2. FilesResolve(new)
  BY <1>1 DEF Good, FilesResolve, EntriesStored
<1>3. LinkInfoOfFirst(new) /\ NoServerLink(new)
  BY <1>1, SameLinkInfo DEF Good, NoServerLink
<1>4. VrevsAreRanks(new) /\ (CountersMatch(pkg) => CountersMatch(new))
  BY <1>1, SameRevisions DEF Good
<1> QED
  BY <1>1, <1>2, <1>3, <1>4 DEF Good, new

\* Nor does a revision of the metadata.
LEMMA PutMetadataGood ==
  ASSUME NEW pkg, Good(pkg), NEW meta \in FileKeys, meta.path = META_PATH
  PROVE  /\ Good(PutMetadata(pkg, meta))
         /\ CountersMatch(pkg) => CountersMatch(PutMetadata(pkg, meta))
<1> DEFINE new == PutMetadata(pkg, meta)
<1>0. pkg.metaRevisions \in Seq(FileKeys) /\ Append(pkg.metaRevisions, meta) \in Seq(FileKeys)
  BY DEF Good, Package
<1>1. /\ new \in Package /\ new.files = pkg.files \cup {meta}
      /\ new.revisions = pkg.revisions /\ new.metaRevisions = Append(pkg.metaRevisions, meta)
      /\ new.latestVrevs = pkg.latestVrevs
  BY <1>0 DEF Good, Package, PutMetadata
<1> HIDE DEF new
<1>2. new.metaRevisions # << >> /\ \A i \in DOMAIN new.metaRevisions : new.metaRevisions[i] \in new.files
  BY <1>0, <1>1 DEF Good, FilesResolve
<1>3. FilesResolve(new)
  BY <1>1, <1>2 DEF Good, FilesResolve, EntriesStored
<1>4. LinkInfoOfFirst(new) /\ NoServerLink(new)
  BY <1>1, SameLinkInfo DEF Good, NoServerLink, META_PATH, LINK_PATH
<1>5. VrevsAreRanks(new) /\ (CountersMatch(pkg) => CountersMatch(new))
  BY <1>1, SameRevisions DEF Good
<1> QED
  BY <1>1, <1>2, <1>3, <1>4, <1>5 DEF Good, new

\* Counting the revisions of a version up to one more place.
LEMMA RevsOfNext ==
  ASSUME NEW old, NEW new, NEW v, NEW n \in Nat,
         \A i \in 1..n : new.revisions[i] = old.revisions[i]
  PROVE  Cardinality(RevsOf(new, v, n + 1)) =
           Cardinality(RevsOf(old, v, n)) + (IF new.revisions[n + 1].version = v THEN 1 ELSE 0)
<1>1. IsFiniteSet(RevsOf(old, v, n)) /\ n + 1 \notin RevsOf(old, v, n)
  <2>1. IsFiniteSet(1..n)
    BY FS_Interval
  <2> QED
    BY <2>1, FS_Subset DEF RevsOf
<1>2. RevsOf(new, v, n + 1) =
        RevsOf(old, v, n) \cup (IF new.revisions[n + 1].version = v THEN {n + 1} ELSE {})
  BY DEF RevsOf
<1>3. Cardinality(RevsOf(old, v, n)) \in Nat
  BY <1>1, FS_CardinalityType
<1>4. CASE new.revisions[n + 1].version = v
  <2>1. RevsOf(new, v, n + 1) = RevsOf(old, v, n) \cup {n + 1}
    BY <1>2, <1>4
  <2> QED
    BY <1>1, <1>4, <2>1, FS_AddElement
<1>5. CASE new.revisions[n + 1].version # v
  <2>1. RevsOf(new, v, n + 1) = RevsOf(old, v, n)
    BY <1>2, <1>5
  <2> QED
    BY <1>3, <1>5, <2>1
<1> QED
  BY <1>4, <1>5

\* A new revision leaves the package good; its counters match as well unless the
\* assertion on the entries fails.
LEMMA AddRevisionGood ==
  ASSUME NEW pkg, Good(pkg), CountersMatch(pkg), NEW v \in AllVersions, NEW s \in Srcmd5s,
         NEW entries \in SUBSET FileKeys
  PROVE  LET new == AddRevision(pkg, v, s, entries)
         IN  Good(new) /\ (EntriesStored(pkg, entries) => CountersMatch(new))
<1> DEFINE n == Len(pkg.revisions)
           rev == [vrev |-> pkg.latestVrevs[v] + 1, version |-> v, srcmd5 |-> s,
                   linkinfo |-> InheritedLinkInfo(pkg, entries), entries |-> entries]
           new == AddRevision(pkg, v, s, entries)
           counts == [pkg.latestVrevs EXCEPT ![v] = pkg.latestVrevs[v] + 1]
<1>0. /\ pkg \in Package /\ n \in Nat /\ DOMAIN pkg.revisions = 1..n
      /\ pkg.revisions \in Seq(Revision)
      /\ counts \in [AllVersions -> Nat] /\ pkg.latestVrevs \in [AllVersions -> Nat]
  BY DEF Good, Package
<1>1. CASE ~EntriesStored(pkg, entries)
  <2>1. new = [pkg EXCEPT !.latestVrevs = counts]
    BY <1>0, <1>1 DEF AddRevision, Package
  <2>2. /\ new \in Package /\ new.files = pkg.files /\ new.revisions = pkg.revisions
        /\ new.metaRevisions = pkg.metaRevisions
    BY <1>0, <2>1 DEF Package
  <2> HIDE DEF new
  <2>3. VrevsAreRanks(new)
    <3>1. \A w, m : RevsOf(new, w, m) = RevsOf(pkg, w, m)
      BY <2>2 DEF RevsOf
    <3> QED
      BY <2>2, <3>1 DEF Good, VrevsAreRanks
  <2>4. FilesResolve(new) /\ LinkInfoOfFirst(new) /\ NoServerLink(new)
    BY <2>2, SameLinkInfo DEF Good, FilesResolve, EntriesStored, NoServerLink
  <2>5. Good(new)
    BY <2>2, <2>3, <2>4 DEF Good
  <2> QED
    BY <1>1, <2>5 DEF new
<1>2. CASE EntriesStored(pkg, entries)
  <2>1. InheritedLinkInfo(pkg, entries) \in SUBSET LinkInfo
    <3>1. pkg.revisions # << >> => pkg.revisions[n] \in Revision
      BY <1>0
    <3> QED
      BY <3>1 DEF InheritedLinkInfo, LastRevision, Revision
  <2>2. rev \in Revision
    BY <1>0, <2>1 DEF Revision
  <2>3. Append(pkg.revisions, rev) \in Seq(Revision)
    BY <1>0, <2>2
  <2>4. new = [[pkg EXCEPT !.latestVrevs = counts] EXCEPT !.revisions = Append(pkg.revisions, rev)]
    BY <1>0, <1>2 DEF AddRevision, Package
  <2>5. /\ rev.vrev = pkg.latestVrevs[v] + 1 /\ rev.version = v
        /\ rev.linkinfo = InheritedLinkInfo(pkg, entries) /\ rev.entries = entries
    OBVIOUS
  <2> HIDE DEF rev
  <2>6. /\ new \in Package /\ new.files = pkg.files /\ new.metaRevisions = pkg.metaRevisions
        /\ new.revisions = Append(pkg.revisions, rev) /\ new.latestVrevs = counts
    BY <1>0, <2>3, <2>4 DEF Package
  <2> HIDE DEF new
  <2>7. /\ DOMAIN new.revisions = 1..(n + 1) /\ Len(new.revisions) = n + 1
        /\ \A i \in 1..n : new.revisions[i] = pkg.revisions[i]
        /\ new.revisions[n + 1] = rev
    BY <1>0, <2>2, <2>6
  <2>8. FilesResolve(new) /\ NoServerLink(new)
    BY <1>0, <1>2, <2>5, <2>6, <2>7 DEF Good, FilesResolve, EntriesStored, NoServerLink
  <2>9. \A w : Cardinality(RevsOf(new, w, n + 1)) =
                 Cardinality(RevsOf(pkg, w, n)) + (IF w = v THEN 1 ELSE 0)
    <3> SUFFICES ASSUME NEW w
                 PROVE  Cardinality(RevsOf(new, w, n + 1)) =
                          Cardinality(RevsOf(pkg, w, n)) + (IF w = v THEN 1 ELSE 0)
      OBVIOUS
    <3>1. Cardinality(RevsOf(new, w, n + 1)) =
            Cardinality(RevsOf(pkg, w, n))
              + (IF new.revisions[n + 1].version = w THEN 1 ELSE 0)
      <4> HIDE DEF n
      <4>1. n \in Nat /\ \A i \in 1..n : new.revisions[i] = pkg.revisions[i]
        BY <1>0, <2>7
      <4> QED
        BY <4>1, RevsOfNext
    <3>2. new.revisions[n + 1].version = v
      BY <2>5, <2>7
    <3> QED
      BY <3>1, <3>2
  <2>10. \A w : \A m \in 1..n : RevsOf(new, w, m) = RevsOf(pkg, w, m)
    <3>1. n \in Nat /\ \A i \in 1..n : new.revisions[i] = pkg.revisions[i]
      BY <1>0, <2>7
    <3> HIDE DEF n
    <3>2. \A m \in 1..n : \A i \in 1..m : new.revisions[i] = pkg.revisions[i]
      BY <3>1
    <3> QED
      BY <3>2 DEF RevsOf
  <2>11. \A w \in AllVersions : pkg.latestVrevs[w] = Cardinality(RevsOf(pkg, w, n))
    BY DEF CountersMatch
  <2>12. CountersMatch(new)
    BY <1>0, <2>6, <2>7, <2>9, <2>11 DEF CountersMatch
  <2>13. VrevsAreRanks(new)
    <3> SUFFICES ASSUME NEW m \in 1..(n + 1)
                 PROVE  new.revisions[m].vrev =
                          Cardinality(RevsOf(new, new.revisions[m].version, m))
      BY <2>7 DEF VrevsAreRanks
    <3>1. CASE m \in 1..n
      <4>1. new.revisions[m] = pkg.revisions[m]
        BY <2>7, <3>1
      <4>2. pkg.revisions[m].vrev = Cardinality(RevsOf(pkg, pkg.revisions[m].version, m))
        BY <1>0, <3>1 DEF VrevsAreRanks, Good
      <4> QED
        BY <2>10, <3>1, <4>1, <4>2
    <3>2. CASE m = n + 1
      BY <2>5, <2>7, <2>9, <2>11, <3>2
    <3> QED
      BY <1>0, <3>1, <3>2
  <2>14. LinkInfoOfFirst(new)
    <3>1. rev.entries = entries /\ entries \subseteq pkg.files
      BY <1>2, <2>5 DEF EntriesStored
    <3>2. CASE n = 0
      <4>1. rev.linkinfo = {} /\ pkg.revisions = << >>
        BY <1>0, <2>5, <3>2 DEF InheritedLinkInfo
      <4>2. Entry(rev, LINK_PATH) \subseteq UserFiles
        BY <3>1, <4>1 DEF Good, NoServerLink, Entry
      <4>3. DOMAIN new.revisions = {1} /\ new.revisions[1] = rev
        BY <2>7, <3>2
      <4> QED
        BY <4>1, <4>2, <4>3 DEF LinkInfoOfFirst
    <3>3. CASE n # 0
      <4>1. /\ n \in 1..n /\ 1 \in 1..n /\ new.revisions[1] = pkg.revisions[1]
            /\ pkg.revisions # << >>
        BY <1>0, <2>7, <3>3
      <4>2. \A i \in 1..n : LinkedUpTo(new, i) = LinkedUpTo(pkg, i)
        <5>1. n \in Nat /\ \A i \in 1..n : new.revisions[i] = pkg.revisions[i]
          BY <1>0, <2>7
        <5> HIDE DEF n
        <5>2. \A i \in 1..n : \A j \in 1..i : new.revisions[j] = pkg.revisions[j]
          BY <5>1
        <5> QED
          BY <5>2 DEF LinkedUpTo
      <4>3. LinkInfoOfFirst(pkg)
        BY DEF Good
      <4>4. LinkedUpTo(new, n + 1) = (LinkedUpTo(pkg, n) /\ Entry(rev, LINK_PATH) # {})
        <5>1. LinkedUpTo(new, n + 1) =
                (LinkedUpTo(new, n) /\ Entry(new.revisions[n + 1], LINK_PATH) # {})
          <6>1. n \in Nat
            BY <1>0
          <6> HIDE DEF n
          <6>2. 1..(n + 1) = (1..n) \cup {n + 1}
            BY <6>1
          <6> QED
            BY <6>2 DEF LinkedUpTo
        <5> QED
          BY <2>7, <4>1, <4>2, <5>1
      <4>5. rev.linkinfo = IF Entry(rev, LINK_PATH) # {} THEN pkg.revisions[n].linkinfo ELSE {}
        BY <2>5, <3>1, <4>1 DEF InheritedLinkInfo, LastRevision, Entry
      <4>6. pkg.revisions[n].linkinfo =
              IF LinkedUpTo(pkg, n) THEN pkg.revisions[1].linkinfo ELSE {}
        BY <1>0, <4>1, <4>3 DEF LinkInfoOfFirst
      <4>7. rev.linkinfo = IF LinkedUpTo(new, n + 1) THEN new.revisions[1].linkinfo ELSE {}
        BY <4>1, <4>4, <4>5, <4>6
      <4>8. \A i \in 1..(n + 1) :
              new.revisions[i].linkinfo =
                IF LinkedUpTo(new, i) THEN new.revisions[1].linkinfo ELSE {}
        <5> SUFFICES ASSUME NEW i \in 1..(n + 1)
                     PROVE  new.revisions[i].linkinfo =
                              IF LinkedUpTo(new, i) THEN new.revisions[1].linkinfo ELSE {}
          OBVIOUS
        <5>1. CASE i = n + 1
          BY <2>7, <4>7, <5>1
        <5>2. CASE i \in 1..n
          <6>1. pkg.revisions[i].linkinfo =
                  IF LinkedUpTo(pkg, i) THEN pkg.revisions[1].linkinfo ELSE {}
            BY <1>0, <4>3, <5>2 DEF LinkInfoOfFirst
          <6> QED
            BY <2>7, <4>1, <4>2, <5>2, <6>1
        <5> QED
          BY <1>0, <5>1, <5>2
      <4>9. /\ Entry(new.revisions[1], LINK_PATH) \subseteq UserFiles
                 \/ new.revisions[1].linkinfo # {}
            /\ \A info \in new.revisions[1].linkinfo : info.lsrcmd5 = new.revisions[1].srcmd5
        BY <1>0, <4>1, <4>3 DEF LinkInfoOfFirst
      <4> QED
        BY <2>7, <4>8, <4>9 DEF LinkInfoOfFirst
    <3> QED
      BY <3>2, <3>3
  <2>15. Good(new)
    BY <2>6, <2>8, <2>13, <2>14 DEF Good
  <2> QED
    BY <1>2, <2>12, <2>15 DEF new
<1> QED
  BY <1>1, <1>2
=============================================================================
