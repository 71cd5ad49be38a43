----------------------------- MODULE ClientCalls -----------------------------
(***************************************************************************)
(* The calls of the client library as requests: the method and path that   *)
(* ProjectBuilder, PackageBuilder and PackageLog build, and where the mock *)
(* server takes them.  Of the answers only that of a request for a job     *)
(* history is here, which a test may extend while the call is on its way.  *)
(***************************************************************************)
EXTENDS RouteTable, JobHistory

CONSTANTS
  Names,             \* Names[role]: the names there are of projects, packages,
                     \* repositories, archs and files
  Encoded,           \* names that percent-encoding writes otherwise
  Written(_),        \* how it writes them
  Home,              \* the one project, repository and arch the server knows
  Jobs,              \* entries there may be in its job history
  Queries,           \* queries for it
  MaxJobs            \* bound: entries of the job history

ASSUME CallsAssumption ==
  /\ NotANumber \notin Nat /\ MaxJobs \in Nat
  /\ \A job \in Jobs : job.code \in JobCodes
  /\ \A name \in Encoded : Written(name) # name
  /\ \A query \in Queries : query.limits \in Seq(Nat \cup {NotANumber})

VARIABLES
  jobhist,           \* the job history of Home
  call,              \* the call that is on its way or answered
  delivered,         \* the responder that got it, and the names it found
  answer             \* the job history it wrote, if it writes one

vars == <<jobhist, call, delivered, answer>>

Roles == {"project", "package", "repository", "arch", "file"}

InProject == <<"source", "project">>
InPackage == <<"source", "project", "package">>
InBuild == <<"build", "project">>
InPair == <<"build", "project", "repository", "arch">>
InBuilt == <<"build", "project", "repository", "arch", "package">>

Api(method, path, responder) == [method |-> method, path |-> path, responder |-> responder]

\* The client's methods: where a request goes, and the responder meant for it.
ProjectBuilder ==
  [delete |-> Api("DELETE", InProject, "ProjectDelete"),
   list_packages |-> Api("GET", InProject, "ProjectListing"),
   meta |-> Api("GET", InProject \o <<"_meta">>, "ProjectMeta"),
   result |-> Api("GET", InBuild \o <<"_result">>, "BuildResults"),
   repositories |-> Api("GET", InBuild, "RepoListing"),
   arches |-> Api("GET", InBuild \o <<"repository">>, "ArchListing"),
   rebuild |-> Api("POST", InBuild, "ProjectBuildCommand"),
   jobhistory |-> Api("GET", InPair \o <<"_jobhistory">>, "BuildJobHistory")]

\* create builds a URL that it does not use, and uploads _meta.
SourceBuilder ==
  [create |-> Api("PUT", InPackage \o <<"_meta">>, "PackageSourcePlacement"),
   delete_package |-> Api("DELETE", InPackage, "PackageSourceDelete"),
   revisions |-> Api("GET", InPackage \o <<"_history">>, "PackageSourceHistory"),
   list |-> Api("GET", InPackage, "PackageSourceListing"),
   package_meta |-> Api("GET", InPackage \o <<"_meta">>, "PackageSourceFile"),
   source_file |-> Api("GET", InPackage \o <<"file">>, "PackageSourceFile"),
   upload_for_commit |-> Api("PUT", InPackage \o <<"file">>, "PackageSourcePlacement"),
   commit |-> Api("POST", InPackage, "PackageSourceCommand"),
   branch |-> Api("POST", InPackage, "PackageSourceCommand")]

\* The mock has no responder for jobstatus.
BuildCommands ==
  [jobstatus |-> Api("GET", InBuilt \o <<"_jobstatus">>, "none"),
   history |-> Api("GET", InBuilt \o <<"_history">>, "BuildHistory"),
   status |-> Api("GET", InBuilt \o <<"_status">>, "BuildPackageStatus"),
   binary_file |-> Api("GET", InBuilt \o <<"file">>, "BuildBinaryFile"),
   binaries |-> Api("GET", InBuilt, "BuildBinaryList"),
   log |-> Api("GET", InBuilt \o <<"_log">>, "BuildLog")]

Kinds == DOMAIN ProjectBuilder \cup DOMAIN SourceBuilder \cup DOMAIN BuildCommands

Methods ==
  [kind \in Kinds |-> IF kind \in DOMAIN ProjectBuilder THEN ProjectBuilder[kind]
                     ELSE IF kind \in DOMAIN SourceBuilder THEN SourceBuilder[kind]
                     ELSE BuildCommands[kind]]

Uses(kind) == ToSet(Methods[kind].path) \cap Roles

\* The client sets limit once and to a number, and names codes only.  Queries
\* holds other ones too, for any program can make the request.
Everything == [packages |-> {}, codes |-> {}, limits |-> << >>]

QueriesOf(kind) == IF kind = "jobhistory" THEN Queries ELSE {Everything}

NamesOf(kind) ==
  {names \in [Uses(kind) -> UNION {Names[r] : r \in Roles}] :
     \A r \in Uses(kind) : names[r] \in Names[r]}

Calls ==
  UNION {[kind : {kind}, names : NamesOf(kind), query : QueriesOf(kind)] :
         kind \in Kinds}

Segment(name) == IF name \in Encoded THEN Written(name) ELSE name

\* The names in a body or a query, which the server decodes, are left out.
RequestOf(c) ==
  LET path == Methods[c.kind].path
  IN  [method |-> Methods[c.kind].method,
       path |-> [i \in DOMAIN path |->
                   IF path[i] \in Roles THEN Segment(c.names[path[i]]) ELSE path[i]]]

\* BuildJobHistoryResponder::respond: the query, then the lookups, then the
\* history.
Reply(names, query) ==
  LET missing == SelectInSeq(<<"project", "repository", "arch">>,
                             LAMBDA role : names[role] # Home[role])
  IN  IF QueryError(query) = "none" /\ missing # 0
      THEN [code |-> <<"unknown_project", "unknown_repo", "unknown_arch">>[missing],
            jobs |-> << >>]
      ELSE JobHistoryReply(jobhist, query)

NoCall == [kind |-> "none"]
Nobody == [responder |-> "nobody", names |-> << >>]
NoAnswer == [code |-> "not_a_job_history", jobs |-> << >>]

-----------------------------------------------------------------------------

Init ==
  /\ jobhist = << >>
  /\ call = NoCall
  /\ delivered = Nobody
  /\ answer = NoAnswer

\* ObsMock::add_job_history.
AddJobHistory(job) ==
  /\ Len(jobhist) < MaxJobs
  /\ jobhist' = Append(jobhist, job)
  /\ UNCHANGED <<call, delivered, answer>>

\* A client makes a call, and its request is sent.
Call(c) ==
  /\ call = NoCall
  /\ call' = c
  /\ UNCHANGED <<jobhist, delivered, answer>>

\* The server hands the request to a responder.
Deliver ==
  /\ call # NoCall
  /\ delivered = Nobody
  /\ LET request == RequestOf(call)
         responder == Dispatch(request)
         names == NamesFor(responder, request.path)
     IN  /\ delivered' = [responder |-> responder, names |-> names]
         /\ answer' = IF responder = "BuildJobHistory" THEN Reply(names, call.query)
                      ELSE NoAnswer
  /\ UNCHANGED <<jobhist, call>>

\* The call returns; what it returned is forgotten.
Return ==
  /\ delivered # Nobody
  /\ call' = NoCall
  /\ delivered' = Nobody
  /\ answer' = NoAnswer
  /\ UNCHANGED jobhist

Next ==
  \/ \E job \in Jobs : AddJobHistory(job)
  \/ \E c \in Calls : Call(c)
  \/ Deliver
  \/ Return

Spec == Init /\ [][Next]_vars

-----------------------------------------------------------------------------

\* The type of the state; a call has its answer once it was delivered.
TypeOK ==
  /\ jobhist \in Seq(Jobs)
  /\ Len(jobhist) <= MaxJobs
  /\ call \in Calls \cup {NoCall}
  /\ delivered # Nobody => call # NoCall /\ DOMAIN delivered.names \subseteq Roles
  /\ answer # NoAnswer =>
       /\ delivered.responder = "BuildJobHistory"
       /\ ToSet(answer.jobs) \subseteq ToSet(jobhist)
       /\ answer.code # "ok" => answer.jobs = << >>

\* The responder meant for a call gets it, with the names the caller gave.
ArrivesRight ==
  /\ delivered.responder = Methods[call.kind].responder
  /\ \A role \in Uses(call.kind) :
       role \in DOMAIN delivered.names /\ delivered.names[role] = call.names[role]

Named(roles, odd) == \E role \in roles \cap Uses(call.kind) : call.names[role] \in odd

\* The names that do not get through: those that are encoded, and those that
\* are also a word of a route before the one meant for the call.
OddlyNamed ==
  \/ Named(Roles, Encoded)
  \/ call.kind \in {"jobhistory", "binaries"} /\ Named({"repository"}, {"build"})
  \/ call.kind \in DOMAIN BuildCommands \ {"binaries"} /\ Named({"arch"}, {"build"})
  \/ call.kind = "arches" /\ Named({"repository"}, {"_result"})
  \/ call.kind = "list" /\ Named({"package"}, {"_meta"})
  \/ call.kind = "binaries" /\ Named({"package"}, {"_jobhistory"})
  \/ call.kind = "source_file" /\ Named({"file"}, {"_history"})
  \/ call.kind = "binary_file" /\ Named({"file"}, {"_history", "_log", "_status"})

\* Each method of the client reaches the responder that was written for it,
\* with the names it was called with, exactly if no name is odd; jobstatus,
\* for which there is no responder, never does.  The order of the mounts, the
\* pattern of ArchListing and the segments that the responders count from the
\* end must agree for that (ObsMock::start, and path_segments in api/).
OnlyOddNamesGoAstray ==
  delivered # Nobody =>
    (ArrivesRight <=> ~OddlyNamed /\ call.kind # "jobstatus")

\* The entries a query asks for: of its packages and its codes, if it names any.
Wanted(query, job) ==
  /\ job.package \in query.packages \/ query.packages = {}
  /\ job.code \in query.codes \/ query.codes \cap JobCodes = {}

\* How many of the first n entries a query asks for.
Asked(query, n) == Cardinality({i \in 1..n : Wanted(query, jobhist[i])})

\* A job history that is answered is the one of that moment: the entries asked
\* for, the oldest first, and as many as there are of them or limit allows; 0
\* is no limit (BuildJobHistoryResponder::respond).
JobHistoryIsWhatWasAsked ==
  [][answer = NoAnswer /\ answer'.code = "ok" =>
       LET query == call.query
           all == Asked(query, Len(jobhist))
           limited == query.limits # << >> /\ query.limits[1] # 0 /\ query.limits[1] < all
           jobs == answer'.jobs
       IN  /\ Len(jobs) = IF limited THEN query.limits[1] ELSE all
           /\ \A i \in DOMAIN jobhist :
                Wanted(query, jobhist[i]) /\ Asked(query, i) <= Len(jobs) =>
                  jobs[Asked(query, i)] = jobhist[i]]_vars
=============================================================================
