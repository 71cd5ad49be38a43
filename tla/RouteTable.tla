----------------------------- MODULE RouteTable -----------------------------
(***************************************************************************)
(* Which responder of the mock server gets a request, and what names it    *)
(* finds in its path: the mounts of ObsMock::start, and the path_segments  *)
(* that the responders pick, counted from the end.  wiremock, external to  *)
(* this code, hands a request to the first mount that fits.                *)
(*                                                                         *)
(* A path is a sequence of segments, as they are written in the URL: the   *)
(* names in it are percent-encoded, and no responder decodes them.         *)
(***************************************************************************)
EXTENDS Naturals, Sequences, FiniteSets, SequencesExt

SOME == "[^/]+"

On(method, pattern, responder) ==
  [method |-> method, pattern |-> pattern, responder |-> responder, anchored |-> TRUE]

\* This pattern does not begin with ^: the other segments may precede it.
ArchListingMount ==
  [On("GET", <<"build", SOME, SOME>>, "ArchListing") EXCEPT !.anchored = FALSE]

Package == <<"source", SOME, SOME>>
Pair == <<"build", SOME, SOME, SOME>>

SourceMounts ==
  << On("GET", <<"source", SOME>>, "ProjectListing"),
     On("DELETE", <<"source", SOME>>, "ProjectDelete"),
     On("GET", <<"source", SOME, "_meta">>, "ProjectMeta"),
     On("GET", Package, "PackageSourceListing"),
     On("POST", Package, "PackageSourceCommand"),
     On("DELETE", Package, "PackageSourceDelete"),
     On("GET", Package \o <<"_history">>, "PackageSourceHistory"),
     On("GET", Package \o <<SOME>>, "PackageSourceFile"),
     On("PUT", Package \o <<SOME>>, "PackageSourcePlacement") >>

BuildMounts ==
  << On("POST", <<"build", SOME>>, "ProjectBuildCommand"),
     On("GET", <<"build", SOME, "_result">>, "BuildResults"),
     On("GET", <<"build", SOME>>, "RepoListing"),
     ArchListingMount,
     On("GET", Pair \o <<"_jobhistory">>, "BuildJobHistory"),
     On("GET", Pair \o <<SOME>>, "BuildBinaryList"),
     On("GET", Pair \o <<SOME, "_history">>, "BuildHistory"),
     On("GET", Pair \o <<SOME, "_log">>, "BuildLog"),
     On("GET", Pair \o <<SOME, "_status">>, "BuildPackageStatus"),
     On("GET", Pair \o <<SOME, SOME>>, "BuildBinaryFile") >>

\* Mutant of Mounts: what is looked up most comes first.
MountsReversed == Reverse(SourceMounts) \o BuildMounts

Mounts == SourceMounts \o BuildMounts

-----------------------------------------------------------------------------

Matches(pattern, path) ==
  /\ Len(pattern) = Len(path)
  /\ \A i \in DOMAIN path : pattern[i] \in {SOME, path[i]}

Fits(mount, request) ==
  /\ mount.method = request.method
  /\ \/ Matches(mount.pattern, request.path)
     \/ /\ ~mount.anchored
        /\ Len(request.path) >= Len(mount.pattern)
        /\ Matches(mount.pattern,
                   SubSeq(request.path, Len(request.path) - Len(mount.pattern) + 1,
                          Len(request.path)))

\* The responder of a request, or "none": the answer is then an empty 404.
Dispatch(request) ==
  LET i == SelectInSeq(Mounts, LAMBDA mount : Fits(mount, request))
  IN  IF i = 0 THEN "none" ELSE Mounts[i].responder

\* The names that a responder takes from a path, from its end; "-" is skipped.
Segments(responder) ==
  CASE responder \in {"ProjectListing", "ProjectDelete", "ProjectBuildCommand", "RepoListing"} ->
         <<"project">>
    [] responder \in {"ProjectMeta", "BuildResults"} -> <<"-", "project">>
    [] responder \in {"PackageSourceListing", "PackageSourceCommand", "PackageSourceDelete"} ->
         <<"package", "project">>
    [] responder = "PackageSourceHistory" -> <<"-", "package", "project">>
    [] responder \in {"PackageSourceFile", "PackageSourcePlacement"} ->
         <<"file", "package", "project">>
    [] responder = "ArchListing" -> <<"repository", "project">>
    [] responder = "BuildJobHistory" -> <<"-", "arch", "repository", "project">>
    [] responder = "BuildBinaryList" -> <<"package", "arch", "repository", "project">>
    [] responder = "BuildBinaryFile" -> <<"file", "package", "arch", "repository", "project">>
    [] responder \in {"BuildHistory", "BuildLog", "BuildPackageStatus"} ->
         <<"-", "package", "arch", "repository", "project">>
    [] responder = "none" -> << >>

\* Mutant of NamesFor: the last segment is not skipped.
NamesForUnskipped(responder, path) ==
  LET taken == SelectSeq(Segments(responder), LAMBDA name : name # "-")
      back == Reverse(path)
  IN  [name \in ToSet(taken) |-> back[SelectInSeq(taken, LAMBDA n : n = name)]]

NamesFor(responder, path) ==
  LET taken == Segments(responder)
      back == Reverse(path)
  IN  [name \in ToSet(taken) \ {"-"} |-> back[SelectInSeq(taken, LAMBDA n : n = name)]]
=============================================================================
