# A verification project for open-build-service-rs

TLA+ modules, TLC configurations and TLAPS proofs kept beside the workspace of
`obsctl`, `oscrc`, `open-build-service-api` (the client library) and
`open-build-service-mock` (a mock OBS server, used by tests). `PROJECT.json`
lists components, runs, mutants, hazards, theorems and, for every definition,
the lines it models.

## The system

| Component | State | Operations |
| --- | --- | --- |
| Source package (`MockPackage`, mock `lib.rs`) | files by (path, MD5), source and metadata revisions, latest vrev per version, disabled builds | new_with_metadata, new_branched, add_revision |
| Store (`ObsMock`, mock `lib.rs`) | `RwLock` around the map of projects: packages, repositories, modes | setters called by tests |
| Source API (mock `api/source.rs`) | none of its own | list, get, history; delete project; PUT `_meta` and files; commit, branch; delete package |
| Build API (mock `api/build.rs`) | none of its own | rebuild, results, listings, job history, binaries, status, log, build history |
| Route table (`ObsMock::start`) | mounted path patterns, first match answers | fixed at start |
| Client library (`open-build-service-api`) | a `PackageLogStream` holds an offset and a request; the rest is stateless | one method per API call, log stream |
| Monitor (`obsctl`) | last code seen per repository/architecture | poll results every 20 s until all are final |
| Credentials (`oscrc`) | a parsed file | look up user and password |

The client sends HTTP requests. Each handler checks the credentials (but for
`ProjectMetaResponder` and `PackageSourceHistoryResponder`, which do not), takes the
read or write guard of the store's one lock, and answers. A test calls the
setters in the same process while requests are served: setters and handlers
interleave, but each holds the guard from its first look at the map to its
last, so each is one atomic step. A setter panics, holding the guard, on an
unknown project, package or repository: that poisons the lock and from then on
every access panics. What takes several steps lies outside the lock: a log is
read over many requests while new builds replace it, a commit is a list of
missing files, uploads, and another commit, and the monitor acts on results
that have changed since.

### What has to be right, and what is hard about it

* **Source packages.** Listings and downloads unwrap the file of every entry of
  a revision, so no sequence of branches, overwrites, commits and metadata
  updates may lose one. vrevs have to number the revisions of a version although
  the counter moves before the entries are checked. linkinfo has to live as long
  as `_link` and no longer, although it is copied from revision to revision. Each
  entry of a commit has to be stored, and the last one listed of a path counts.
* **Requests.** One that fails leaves no trace, although a branch makes its
  target project before its last check. None panics.
* **Repositories.** Records of packages are kept in the repositories, apart from
  the packages themselves, and have to go with them.
* **Log stream.** Bytes in order, once, up to the end asked for, over answers
  cut into chunks, connections that break, and logs that are replaced or deleted with
  all that leads to them; the stream ends, and is refused only for cause.
* **Builds.** A rebuild must restart all packages named or none, leave disabled
  builds alone, and record nothing of packages that are not there. Records go
  with their sources and only with them, and five handlers that read them have
  to agree on what a missing one means.
* **Committing.** Create, commit, upload and commit again are requests of their own, among
  those of other clients, over connections that fail, on a package that may be deleted.
  A name that the URL escapes arrives as another, and `_meta` is not a file to upload.
* **Monitor.** It keeps a vector of the codes it last knew while results turn
  dirty, empty or vanish, and its verdict must fit them.
* **Routes.** Twenty patterns that overlap, of which the first that fits counts,
  and names that may be words of them.

`PROJECT.json` lists the hazards one by one, each at its line.

## Modules

| Module | What it is |
| --- | --- |
| `SourcePackage` | Pure: a package as a record, the operations on it, what GETs of it answer, and what is right about a package. |
| `SourceStore` | The server's state and one action per handler and setter that changes it, over `SourcePackage`. |
| `MCSourceStore` | Values for its constants; six configurations. |
| `SourcePackageProofs`, `SourceStoreProofs` | Lemmas about the operations, and the theorems. |
| `LibraryLemmas` | Facts about operators of the community modules that several proofs cite: `IsPrefix`, `Max`, `Min`, `SetToSeq`, and the folds. |
| `LogDelivery` | Abstract: what a caller of `PackageLog::stream` is promised. |
| `LogStream` | `PackageLogStream::poll_next`, `BuildLogResponder` and the connection between them; implements `LogDelivery`. |
| `MCLogStream` | Values for its constants. |
| `LogStreamProofs` | Its invariant, and that it implements `LogDelivery`. |
| `BuildStore` | The server's state as far as builds go: records, repositories, job histories, disabled builds; rebuild, the setters that play the build farm, the operations on sources that move builds, and what the GETs of `api/build.rs` answer. |
| `MCBuildStore` | Values for its constants; two configurations. |
| `BuildStoreProofs` | What its steps leave of a project, and the theorems. |
| `MonitorVerdict` | Abstract: what `obsctl monitor` promises. |
| `Monitor` | Its loop over the results of a server; implements `MonitorVerdict`. |
| `MCMonitor` | Values for its constants. |
| `MonitorProofs` | What an answer does to the vector, and that it implements `MonitorVerdict`. |
| `RevisionLog` | Abstract: a package as a log of whole lists that several clients append to. |
| `CommitClient` | Clients of the library that commit to one package, the connection, and the handlers, over `SourcePackage`; implements `RevisionLog`. |
| `MCCommitClient` | Values for its constants. |
| `CommitClientProofs` | Its invariant, and that it implements `RevisionLog`. |
| `RouteTable` | Pure: the mounts of the mock server and the names its responders take from a path. |
| `JobHistory` | Pure: the answer to a query for a job history. |
| `ClientCalls` | All calls of the client as requests, where they arrive, and the job history they get, over these two. |
| `MCClientCalls` | Values for its constants. |
| `ClientCallsProofs` | What the loop over a job history writes, which mount and names each method meets, and the theorems. |

### SourcePackage and SourceStore

`packages[p][k]` is a `MockPackage`; the fields keep their names in camel case. A file
is its key (path, MD5); documents the server writes (`_meta`, `_link`) have as
MD5 a record of what is written in them, so two are equal exactly when their
texts are. A metadata revision always has the one entry `_meta`, and is that
file's key. linkinfo, a vector of at most one element, is a set.
`repos[p][r]` is the set of packages a repository/architecture pair has a record
for. `poisoned` is the lock. `reply` is the last operation and how it ended
("panic" included); nothing reads it, it is there for the properties. `random_md5()` is any member of
`Srcmd5s`: repetition is not excluded, no property rests on it.

Each action has the handler's checks as disjuncts in the code's order, and each
error is `Refuse`, which changes nothing. `Branch` is the exception kept as it
is in the code: the disjunct of `double_branch_package` makes the target
project, and `FailedRequestChangesNothing` shows that in this case the project
was there. `PushRevision` (commit and `add_package_revision`) counts first, then
asserts; a commit also lists what it made. Inputs are what a client or test can
send: files of its own, and keys of any file the package has, which listings
show. Reads change nothing and are operators, not actions: `ListReply` and
`FileReply` say "ok", an error, or "panic" where the code unwraps `None` or
indexes out of bounds. Values of `rev` and `meta` that do not parse are refused
first, and left out.

That a revision has one entry of a path is the type of the map in the code, and no
property here. `LinkInfoOfFirst` says of each revision what its linkinfo *is*: the first
revision's, if every revision up to it has a `_link`, and none otherwise, so a linkinfo
lost early fails it as much as one kept too long. The first revision has one unless it has
no `_link` or a user's own.

Left out: times, users, comments, sizes and xsrcmd5 (echoed only), project
modes and repository codes (in `BuildStore`), XML. A history listing
(`_history`) unwraps `vrev`, which every source revision of the model has.

### LogDelivery and LogStream

`there` says which of the project, the package, the repository, the architecture
and the package's record exist: what a request for the log is looked up by
(`LookupError`, in the handler's order). Setters, requests and branches make and delete
them at any time (`ServerChange`); deleting the package takes its record, deleting the
project takes all. `logs` is every value `latest_log` has had, oldest first: a length and a
`chunk_size`, or `NoLog` for a record made without one. A byte is its log and position. The client's variables are those of
`PackageLogStream`; `wire` is what the future or body stream it holds will yield
next: a request not yet answered, an error, or what is left of a body.
Each turn of the loop in `poll_next` is an action, so the server (`Answer`), what
happens to the log (`ServerChange`) and the connection (`LoseConnection`,
`BodyBreaks`) move in between. `consumer` is the caller, who after an error may
poll on or let go; polling a request that has failed panics, and the model keeps
that as an outcome. Panics of the server's arithmetic and slices reach the
client as a failed request. A body that broke has no more to bring: that, and
that bytes arrive in order, is taken from the HTTP stack and external.

`LogDelivery` is what the pair is for: `Deliver` appends the next bytes from a log not
older than the last one read, and `Finish` is allowed at the end asked for,
at the end of some such log, or after an error. The mapping is the identity but
for `done`, which is `consumer \in Over`. What is *not* promised, and false: that
the bytes come from one log. A log replaced by a longer one between two requests
is continued in the middle, and so is the log of a package that was deleted and made again.

`RefusalsHaveCause` is about the answer's own step. A refused lookup names something
that is not there at that moment, and a stream that has been given data is refused only
when the record its last byte came from is gone or has a newer log: nothing else on the way
can go and leave the record. A start is out of range only of a log shorter than the
position, again a newer one once there is data.

### BuildStore

`projects[p]` is a `MockProject`; of a package it keeps the list of disabled
builds twice, as the server does: `disabled`, which rebuilds read, and `meta`,
which `_meta` shows. `repos[r].records[k]` is a `MockRepositoryPackage`. The
server never looks into a status, log or history entry, so these are opaque
values; a binary is its name. Files and revisions are left out, as records are
in `SourceStore`: the two modules are views of the one map, each with the
operations that touch its part. That a branch hands on the list of disabled
builds depends on the origin having a revision, so `BranchDisabled` has both
outcomes. `Rebuilt` restarts disabled builds too: the code's `continue` skips
nothing. `Branch` makes its target before the check that can refuse it, as the code does. The
GETs are operators, and `ReadsAgree` compares them in every state.

### Monitor and MonitorVerdict

`last` is the vector of `MonitorData`, `server` what the next answer will say.
The server is a real OBS, whose scheduler is not in this repository: results
appear, change, turn dirty, lose their status and vanish at any time. `Poll` is
one request with the loop over its results and the tests after it; a change
while an answer travels is a change after it. `FoldLeft` goes through the
results in some order: a pair is listed once, so none matters. An
answer without any result does not parse (`ResultList` requires one), so the
monitor ends with an error. `MonitorVerdict` has a function from builds to codes
where the code has a vector, and one step for an answer.

*Not* promised, and false: that the verdict is of builds that are all over. A
build known to have succeeded that turns dirty counts as succeeded until a
clean answer says otherwise; `VerdictOnQuietAnswer` and `VerdictNotFromDirty` say exactly how far
the verdict can be off. Nor that it always ends: a build that is never final,
or was not when it vanished, is waited for.

### CommitClient and RevisionLog

The package is a record of `SourcePackage`, and the handlers use its operators.
`wire[c]` is the one request of client `c` that is on its way, or its answer.
`ConnectionFails` loses either, and the client cannot tell which:
`send_with_error` returns the same error. The library retries nothing; the
caller does (`StartOver`), or not (`GiveUp`), as callers outside this repository
may. `Delete` is any other client. `todo` is uploaded file by file in any fixed order.
`uploaded`, `made` and `unanswered` are history variables for the properties.

An upload names its file in the URL, a commit in its XML. `Written` is the name that the
handler stores: it escapes the paths in `Encoded`, and nobody unescapes them. A file called
`_meta` is taken for metadata: the package is made if there is none, the answer is ok, and
nothing is stored. `Arrives` tells the files that neither befalls. A client that lists
another one is told that it is missing after each upload, and asked for it forever:
`NothingMissingTwice` and `EveryoneFinishes` except such files, and no other. Empty
names, `.` and `..` are left out, as in `ClientCalls`.

`RevisionLog` says that a commit takes effect once between its call and answer,
with the whole list, or not at all. The mapping takes `log` from the package's
revisions and `call` from the phase and the wire. *Not* promised, and false: that
committing again after an error makes one revision; `RevisionsAreAccountedFor` bounds them
by the commits without an answer.

### RouteTable, JobHistory and ClientCalls

A path is a sequence of segments. `Dispatch` is wiremock's rule, the first mount
that fits; the pattern of `ArchListing` has no `^` and fits the end of
longer paths. `Segments` lists what each responder takes with `nth_back`.
`Methods` has for each method of the client the path it builds and the
responder written for it. `OnlyOddNamesGoAstray` says exactly which names do not
get through: an architecture `build` takes log and status requests to the
listing of architectures, a file `_log` of a package cannot be fetched as a
binary, and a name that a URL encodes reaches the server encoded. Names `.` and
`..`, which a URL drops, and empty names are left out; OBS has none. `jobstatus` has no responder.

`JobHistoryReply` is a fold over the history, one turn of the loop a step;
`JobHistoryIsWhatWasAsked` says, by counting, how many entries an answer has and where each
is. The history grows while calls are on their way.

## Runs

| Run | Instance | Shows |
| --- | --- | --- |
| `branches` | 2 projects, 1 package name, 2 revisions | `TypeOK`, `StoredFilesResolve`, `FailedRequestChangesNothing`, `OnlyReplacingLosesHistory` |
| `revisions` | 1 package, 2 contents of a path, 2 versions, 3 revisions, lists of 2 | `VrevsNumberRevisions`, `ReadsNeverPanic` |
| `links` | 1 package branching itself, a `_link` of the user's own, 2 digests, 3 revisions | `LinkInfoTracksLink` |
| `repositories` | 2 projects, 2 packages, 1 repository | `OnlyBranchingOrphansRecords` |
| `log_delivery` | 2 logs of up to 3 bytes; every offset, end and chunk_size up to the boundaries, 0 and overflow included; all that leads to them made and deleted | `TypeOK`, `RefusalsHaveCause`, `DeliversInOrder`, `Terminates` |
| `meta_listing` | one package | violated: `MetaRevisionsAreListed` |
| `orphans` | as `repositories` | violated: `RepoPackagesHaveSources` |
| `builds` | 2 projects, 2 packages, 1 repository, 2 statuses, 4 stored things | `TypeOK`, `ReadsAgree`, `BuildsGoOnlyWithSources`, `OrphansComeFromBranching` |
| `rebuild_disabled` | 1 project, a package with lists of disabled builds, 2 architectures | violated: `DisabledBuildsAreLeftAlone` |
| `monitor` | 2 architectures, 5 codes | `TypeOK`, `VerdictOnQuietAnswer`, `KeepsPromise`, `VerdictNotFromDirty`, `EndsOnceSettled` |
| `commits` | 3 clients: two share a file, one lists a path twice, one lists `_meta` and an escaped name; 2 faults | `TypeOK`, `NothingMissingTwice`, `RevisionsAreAccountedFor`, `CommitsAreAtomic`, `EveryoneFinishes` |
| `requests` | up to 5 names of a role, histories of 3 entries, 26 queries | `TypeOK`, `OnlyOddNamesGoAstray`, `JobHistoryIsWhatWasAsked` |

The three violated properties are findings. The listing of metadata compares
`rev` with the number of *source* revisions: it refuses revision 1 of a new
package, which its own answer names, and panics when there are more source than metadata
revisions. And a branch that makes its project clones the origin's repositories
with records of packages the new project does not have, which the setters
assert does not happen; `OnlyBranchingOrphansRecords` shows that this is the only way.
A rebuild restarts disabled builds: the loop meant to skip them continues
itself, and a list set by `set_package_metadata` is shown in `_meta` but never
read.

**Bounds** (`MaxRevs`, `MaxMetaRevs`, `MaxFiles`, `MaxListLen`, `MaxLogs`, `MaxStored`,
`MaxFaults`, `MaxJobs`, named in the guards). An operation on a package looks at its last revision only, so
three revisions reach every case of a link that comes and goes and of vrevs of
two versions that alternate; a list of two entries can repeat a path. Two
projects and two packages are enough for an operation and a bystander. Two
logs give every relation of an old and a new length to the offset. Four stored
things (records, logs, binaries, entries of histories) are a record with all it
can hold, or four records, copied by a branch. Two faults are a lost answer and
a deletion, or two of one kind; three clients are two that share a file and one
whose files do not arrive (an empty list, which the server does not parse, is in the model and
the proofs, not in the run). Three entries of a job history exceed each limit but none.
The runs of `SourceStore` and `BuildStore` use `VIEW store`: `reply` is determined by the step, no
guard reads it and the invariants say nothing of it beyond its type; TLC
checks the action properties on every step it generates. `branches`,
`repositories`, `orphans` and `builds` use symmetry of the names, which nothing tells apart, and state no
liveness.

**Fairness.** None in `SourceStore`, `BuildStore` and `ClientCalls`: requests and
setters need not happen. `LogStream`
assumes weak fairness of `Poll` (an executor polls a stream that its caller
awaits; a body in transit arrives or breaks; a caller that has an error goes on
or lets go) and of `Answer` (the mock's server runs). No fairness of new logs or
lost connections. `Monitor` assumes weak fairness of an answered request (the
sleep of 20 s ends and the server answers), none of failures, and nothing of the server;
`EndsOnceSettled` has the server settling as its premise. `CommitClient` assumes for
each client weak fairness of its calls, their handling and their return: an
executor runs a caller that awaits, the mock's server answers, and a caller
that has an error goes on or gives up. No fairness of `ConnectionFails` and
`Delete`, and no bound on retries but the one on faults, without which
a client that is disturbed forever would not finish. `Monitor` and
`CommitClient` stop when all are done, hence `CHECK_DEADLOCK FALSE`.

## Proofs

All safety properties that the passing runs check, the action properties and
the three refinements included, are proved for every value of the constants.
The bounds in the guards are
constants too, any numbers, so the theorems hold of runs of any length. What the
constants have to satisfy is named where they are declared, and says that what
stands for "none" is not a value (`NoPackage`, `NoLog`, `None`, `NotANumber`
and so on: `PackageAssumption`, `StoreAssumption`, `StreamAssumption`,
`WireAssumption`, `BuildAssumption`, `AbsenceAssumption`), that numbers are
numbers, and further:

* `CommitAssumption`: what a client commits is a list of files, of any names, which are
  files under the names they are written by too, and each commit of a client can have a
  digest of its own;
* `MonitorAssumption`: there are finitely many pairs of repository and architecture, and the
  server sends no code that `PackageCode` does not have;
* `CallsAssumption`: a limit is a number or not one, the code of a job is one of
  `PackageCode` (the mock's field has that type), and a name that is encoded is not
  written as it is.

### Sources

`SourceStoreProofs` proves `Invariance`: `Spec => []IInv`. `IInv` is `TypeOK` and
`PackagesOK`: every package is *good*, and until the lock is poisoned its
counters match. From it follow `TypeCorrectness`, `FilesAlwaysResolve`,
`VrevsAlwaysNumber`, `LinkInfoAlwaysTracks` and `ReadsAlwaysAnswer`.

The properties are not inductive one by one: a branch of a package has its
files only if the origin's entries resolved; a vrev is a rank only if the
counter it comes from matched; linkinfo is inherited from a last revision
whose own was right. `Good` is their conjunction for one package, with a last
metadata revision added, which reads of `_meta` need. `SourcePackageProofs` shows
that each way of making or changing a package yields a good one; in
`SourceStoreProofs` one lemma per action applies that to the one package the
step writes (`SetPackageStep`), and `NextInv` collects them. That the counters match
only while the lock is not poisoned is what makes the assertion in
`add_revision`, which may fail after the count, harmless.

Three theorems are about steps. `FailuresAreClean` (`FailedRequestChangesNothing`) needs the
invariant for the commit: its entries are stored by the check for missing ones, so the
assertion holds, and the listing of a good package does not panic.
`HistoryOnlyGrows` (`OnlyReplacingLosesHistory`) shows of each operation on a package that
files and revisions are appended to. `OnlyBranchesOrphan`
(`OnlyBranchingOrphansRecords`) shows where each record of a package without sources comes from.

### Builds

`BuildStoreProofs`: every step replaces one project, makes one or removes one.
`Sound` says of two projects that the second has all builds of the first whose
sources it has, and no more builds without sources. Each operation on a project
is shown to be sound, whatever the project; `BuildsAreKept` (`BuildsGoOnlyWithSources`) and
`BuildsHaveSources` (`OrphansComeFromBranching`) follow from that and from `TypeOK`
(`TypeCorrectness`) alone. `ReadersAgree` (`ReadsAgree`) is a fact about the handlers that read: they agree in every
state, reachable or not, so no invariant is needed.

### Log stream

`LogStreamProofs` proves `Invariance` of an `IInv` that adds to `TypeOK`: where the request is (`RequestOK`), that the stream, its request and the
body on its way are at one position (`InStep`), that a body is of a log not
older than the last one read and within its length and the range asked for (`BodyOK`), that what was
delivered is within the log it came from (`DeliveredOK`), that an empty
answer is one at the end (`EmptyAtEnd`), and that a log which is still the latest of its
record is still found (`FoundOK`). Each is needed by the next: the
bytes delivered are the next ones because the body is where the stream is, and
the stream may end at an empty answer because the server slices up to
the range asked for. `RefusalsAreCaused` (`RefusalsHaveCause`) goes through
the answers: a position within the log read last is out of range only of a newer one, and a
lookup that fails contradicts `FoundOK` unless the record or its log changed. `ImplementsLogDelivery` (`DeliversInOrder`) maps
each action to a step of `LogDelivery` or to none, with the mapping of the run.

### Committing

`CommitClientProofs` proves `Invariance`. Its `IInv` says of the package what the
server's invariant says of all (`SourcePackageProofs` is used again); of the wire, that it has the
request or answer of the phase its client is in (`WireOK`); of what a client has uploaded, that
the package has what arrived until it is deleted (`UploadsKept`), which is why nothing that
arrives is missing twice; and of unanswered commits, that each took a fault (`FaultsCounted`). From it follow `TypeCorrectness`,
`NoUploadTwice` (`NothingMissingTwice`) and `AccountsBalance`
(`RevisionsAreAccountedFor`). `ImplementsTheLog` (`CommitsAreAtomic`) maps a commit that the server handles
to `RevisionLog`'s append, and a lost connection to a call that ends before or after it.

### Monitor

`MonitorProofs`: an answer is a fold over its results, each of which is searched
for in the vector. `Told` says what a vector holds once the results in a set
were looked at; `RememberTells` that a result more keeps it so, and `PollTells` gets
by induction over the results what an answer does: every pair listed
is known, with its code or the one known before. All theorems follow from that:
`TypeCorrectness` (one entry for each pair, which the search relies on), `VerdictIsQuiet`
(`VerdictOnQuietAnswer`), `DirtyResultsDecideNothing` (`VerdictNotFromDirty`), and
`ImplementsTheVerdict` (`KeepsPromise`), where the map of `MonitorVerdict` is that of the entries.

### Client requests

`ClientCallsProofs`: the answer to a query is a fold over the history, and `Reads` says
what is written after its first n entries: how many, each where counting puts it,
and whether the limit is reached. `TurnReads` shows that a turn of the loop goes
from n to n + 1, and `AnsweredReads` that the answer is what all entries come to. `JobHistoryAnswers`
(`JobHistoryIsWhatWasAsked`) needs `TypeOK` (`TypeCorrectness`) for the type of the history and of the
query.

`OddNamesOnly` (`OnlyOddNamesGoAstray`) holds of any names, also ones that are words of routes. `FitTable`
says of each mount which requests it fits, by their method, their length and the words at a few
places; `DispatchTable` which one is first; `SegmentsAgree` that what a responder counts from the
end of a path is what the client's method has put there. `RightResponder` then goes through the
methods, and `NamesRight` gives the names. The invariant, `Arrived`, is that what was delivered is
the request of the call that is on its way.

### Folds and induction

The library defines `FoldLeft` by a function on the sets of indices it has
been through, chosen by the equation it satisfies. The library's induction theorems take an
operator as a parameter, which the provers cannot instantiate; but its theorem
on well-founded relations (`WFMin`) does not. `LibraryLemmas` gets from it that a set of numbers has a
minimum (`MinimumExists`), so that a set with 0 and with i + 1 for each i is all of them (`CountingUp`),
and that the function a fold chooses exists (`StepsExist`). So what the
two folds compute is proved, not only checked.

### Model-checked only

* `Terminates`, `EndsOnceSettled` and `EveryoneFinishes`: liveness under fairness
  is out of the prover's reach.
* The three violated properties, of which the counterexample is the point.

No module has a RECURSIVE operator.

## Plan

1. *Done:* the modules above.
2. *Done:* proofs of type correctness, of the safety invariants and action properties, of
   the refinements of `LogDelivery`, `RevisionLog` and `MonitorVerdict`, and of which names
   get through, whatever names there are.
3. Left: the decoding of answers, in so far as a caller branches on it, and logs with
   characters of several bytes.

## Not modelled

`oscrc` and the example command line (I/O and one lookup), XML formatting and
what of its parsing no workflow branches on, the HTTP library, CI files. Logs
with characters of several bytes, where a slice of the log may panic
(`api/build.rs`, line 832). The `dirty` flag that the mock writes for each status and
the monitor does not read: it looks at the result's. `PackageLog::entry`, which
only formats.
