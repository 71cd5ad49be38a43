---------------------------- MODULE CommitClient ----------------------------
(***************************************************************************)
(* Several users of the client library who commit to one package of the    *)
(* mock server, as test_commits of the integration tests does: make the    *)
(* package, ask for the commit, upload what is missing, ask again.  Each   *)
(* call of PackageBuilder is one request and its answer; between two of    *)
(* them the other users' requests are handled, and someone may delete the  *)
(* package.  A connection may fail before or after the request is handled: *)
(* the call returns the same error, and its caller starts over or gives up *)
(* (the library itself tries nothing twice and waits for no timeout).      *)
(*                                                                         *)
(* The package is that of SourcePackage.  The digest of a revision is      *)
(* random; here it names the commit that made it.                          *)
(***************************************************************************)
EXTENDS SourcePackage

CONSTANTS
  Clients,
  FileList,          \* FileList[c]: the CommitFileList of client c
  Encoded,           \* Encoded[path]: how a URL writes a path it cannot take as it is
  NoPackage,         \* the package does not exist
  Nothing,           \* no request or answer is on its way
  MaxFaults          \* bound: failed connections and deletions, over all

\* upload_for_commit names the file in its URL, which escapes what a URL cannot
\* hold; the handler does not take that back.  (An empty name, "." and ".." are
\* left out: with those the URL is not that of a file.)
Written(file) ==
  IF file.path \in DOMAIN Encoded THEN [file EXCEPT !.path = Encoded[file.path]] ELSE file

ASSUME CommitAssumption ==
  /\ Projects # {} /\ PackageNames # {}
  /\ FileList \in [Clients -> Seq(UserFiles)]
  /\ \A c \in Clients : \A i \in DOMAIN FileList[c] : Written(FileList[c][i]) \in UserFiles
  /\ NoPackage \notin Package
  /\ MaxFaults \in Nat
  /\ Clients \X (1..MaxFaults + 1) \subseteq Srcmd5s

VARIABLES
  package,           \* the package on the server
  phase,             \* phase[c]: what client c is about
  todo,              \* todo[c]: missing entries it has yet to upload
  wire,              \* wire[c]: its request or the answer to it
  faults,            \* how many there have been
  uploaded,          \* uploaded[c]: what c has uploaded to this package
  made,              \* made[c]: how many commits of c have made a revision
  unanswered         \* unanswered[c]: how many commits of c had no answer

network == <<wire, faults>>
history == <<uploaded, made, unanswered>>
vars == <<package, phase, todo, network, history>>

ListOf(c) == ToSet(FileList[c])
Listed == UNION {ListOf(c) : c \in Clients}

Requests == [op : {"create", "commit"}] \cup [op : {"upload"}, file : Listed]
Answers ==
  [op : {"create", "commit", "upload"}, code : {"ok", "unknown_package", "bad_request"}]
    \cup [op : {"commit"}, code : {"missing"}, entries : SUBSET Listed]

ASSUME WireAssumption == Nothing \notin Requests \cup Answers

TypeOK ==
  /\ package \in Package \cup {NoPackage}
  /\ phase \in [Clients -> {"create", "commit", "upload", "committed", "error", "gave_up"}]
  /\ todo \in [Clients -> SUBSET Listed]
  /\ wire \in [Clients -> {Nothing} \cup Requests \cup Answers]
  /\ \A c \in Clients : phase[c] = "upload" <=> todo[c] # {}
  /\ faults \in 0..MaxFaults
  /\ uploaded \in [Clients -> SUBSET Listed]
  /\ made \in [Clients -> Nat] /\ unanswered \in [Clients -> Nat]

Init ==
  /\ package = NoPackage
  /\ phase = [c \in Clients |-> "create"]
  /\ todo = [c \in Clients |-> {}]
  /\ wire = [c \in Clients |-> Nothing]
  /\ faults = 0
  /\ uploaded = [c \in Clients |-> {}]
  /\ made = [c \in Clients |-> 0]
  /\ unanswered = [c \in Clients |-> 0]

TheProject == CHOOSE p \in Projects : TRUE
ThePackage == CHOOSE k \in PackageNames : TRUE

-----------------------------------------------------------------------------
(* The calls of the client.                                                *)

Send(c, request) ==
  /\ wire[c] = Nothing
  /\ wire' = [wire EXCEPT ![c] = request]
  /\ UNCHANGED <<package, phase, todo, faults, history>>

\* PackageBuilder::create, commit and upload_for_commit.
Create(c) == phase[c] = "create" /\ Send(c, [op |-> "create"])

Commit(c) == phase[c] = "commit" /\ Send(c, [op |-> "commit"])

Upload(c) ==
  /\ phase[c] = "upload"
  /\ Send(c, [op |-> "upload", file |-> CHOOSE file \in todo[c] : TRUE])

-----------------------------------------------------------------------------
(* The handlers of the server.                                             *)

Handles(c, op) == wire[c] \in Requests /\ wire[c].op = op

Answer(c, answer) ==
  /\ wire' = [wire EXCEPT ![c] = answer]
  /\ UNCHANGED <<phase, todo, faults, unanswered>>

Refuse(c, code) ==
  /\ Answer(c, [op |-> wire[c].op, code |-> code])
  /\ UNCHANGED <<package, uploaded, made>>

\* What a PUT of _meta leaves.
WithMetadata ==
  IF package = NoPackage THEN NewWithMetadata(TheProject, ThePackage, NoneDisabled) ELSE package

HandleCreate(c) ==
  /\ Handles(c, "create")
  /\ package' = WithMetadata
  /\ Answer(c, [op |-> "create", code |-> "ok"])
  /\ UNCHANGED <<uploaded, made>>

Accept(c) ==
  /\ uploaded' = [uploaded EXCEPT ![c] = @ \cup {wire[c].file}]
  /\ Answer(c, [op |-> "upload", code |-> "ok"])
  /\ UNCHANGED made

\* Mutant of HandleUpload: a path that is there is not written again.
HandleUploadOnce(c) ==
  LET file == Written(wire[c].file)
  IN  /\ Handles(c, "upload")
      /\ package # NoPackage
      /\ package' = IF \E f \in package.files : f.path = file.path THEN package
                    ELSE PutFile(package, file)
      /\ Accept(c)

\* PUT of a file with rev=repository.  One called _meta is taken for metadata and
\* not stored, and the package is made if there is none.
HandleUpload(c) ==
  LET file == Written(wire[c].file)
  IN  /\ Handles(c, "upload")
      /\ \/ /\ file.path = META_PATH
            /\ package' = WithMetadata
            /\ Accept(c)
         \/ /\ file.path # META_PATH /\ package = NoPackage
            /\ Refuse(c, "unknown_package")
         \/ /\ file.path # META_PATH /\ package # NoPackage
            /\ package' = PutFile(package, file)
            /\ Accept(c)

\* Mutant of NewRevision: files that no entry of the revision names are dropped.
NewRevisionDropsFiles(c) ==
  LET revised == AddRevision(package, NoVersion, <<c, made[c] + 1>>, CommitEntries(FileList[c]))
  IN  [revised EXCEPT !.files = {f \in @ : f.path = META_PATH \/ f \in CommitEntries(FileList[c])}]

\* Mutant of NewRevision: the entries of the last revision stay.
NewRevisionMerges(c) ==
  LET before == IF package.revisions = << >> THEN {} ELSE LastRevision(package).entries
      list == CommitEntries(FileList[c])
      kept == {e \in before : \A f \in list : e.path # f.path}
  IN  AddRevision(package, NoVersion, <<c, made[c] + 1>>, kept \cup list)

NewRevision(c) ==
  AddRevision(package, NoVersion, <<c, made[c] + 1>>, CommitEntries(FileList[c]))

\* Mutant of HandleCommit: a list with missing files makes a revision of the
\* others.
HandleCommitOfSome(c) ==
  LET list == SelectSeq(FileList[c], LAMBDA e : e \in package.files)
  IN  /\ Handles(c, "commit")
      /\ package # NoPackage
      /\ package' = AddRevision(package, NoVersion, <<c, made[c] + 1>>, CommitEntries(list))
      /\ made' = [made EXCEPT ![c] = @ + 1]
      /\ Answer(c, IF list = FileList[c] THEN [op |-> "commit", code |-> "ok"]
                   ELSE [op |-> "commit", code |-> "missing",
                         entries |-> ListOf(c) \ package.files])
      /\ UNCHANGED uploaded

\* An empty list is not parsed.
CommitError(c) ==
  IF package = NoPackage THEN "unknown_package"
  ELSE IF FileList[c] = << >> THEN "bad_request"
  ELSE "none"

\* POST of cmd=commitfilelist.
HandleCommit(c) ==
  /\ Handles(c, "commit")
  /\ \/ /\ CommitError(c) # "none"
        /\ Refuse(c, CommitError(c))
     \/ /\ CommitError(c) = "none"
        /\ Missing(package, FileList[c]) # {}
        /\ Answer(c, [op |-> "commit", code |-> "missing",
                      entries |-> {FileList[c][i] : i \in Missing(package, FileList[c])}])
        /\ UNCHANGED <<package, uploaded, made>>
     \/ /\ CommitError(c) = "none"
        /\ Missing(package, FileList[c]) = {}
        /\ package' = NewRevision(c)
        /\ made' = [made EXCEPT ![c] = @ + 1]
        /\ Answer(c, [op |-> "commit", code |-> "ok"])
        /\ UNCHANGED uploaded

-----------------------------------------------------------------------------
(* What the caller makes of the answer.                                    *)

Receive(c, op, code) ==
  /\ wire[c] \in Answers /\ wire[c].op = op /\ wire[c].code = code
  /\ wire' = [wire EXCEPT ![c] = Nothing]
  /\ UNCHANGED <<package, faults, history>>

Enters(c, to) == phase' = [phase EXCEPT ![c] = to]

Created(c) == Receive(c, "create", "ok") /\ Enters(c, "commit") /\ UNCHANGED todo

\* CommitResult::Success.
Committed(c) == Receive(c, "commit", "ok") /\ Enters(c, "committed") /\ UNCHANGED todo

\* CommitResult::MissingEntries.
MissingEntries(c) ==
  /\ Receive(c, "commit", "missing")
  /\ Enters(c, "upload")
  /\ todo' = [todo EXCEPT ![c] = wire[c].entries]

\* Mutant of Uploaded: after one file the commit is asked for again.
UploadedOne(c) ==
  /\ Receive(c, "upload", "ok")
  /\ todo' = [todo EXCEPT ![c] = @ \ {CHOOSE file \in @ : TRUE}]
  /\ Enters(c, "commit")

Uploaded(c) ==
  /\ Receive(c, "upload", "ok")
  /\ todo' = [todo EXCEPT ![c] = @ \ {CHOOSE file \in @ : TRUE}]
  /\ Enters(c, IF todo'[c] = {} THEN "commit" ELSE "upload")

Fails(c) == Enters(c, "error") /\ todo' = [todo EXCEPT ![c] = {}]

\* Error::ApiError.
ApiError(c) ==
  \E op \in {"commit", "upload"}, code \in {"unknown_package", "bad_request"} :
    Receive(c, op, code) /\ Fails(c)

StartOver(c) ==
  /\ phase[c] = "error" /\ FileList[c] # << >>
  /\ Enters(c, "create")
  /\ UNCHANGED <<package, todo, network, history>>

GiveUp(c) ==
  /\ phase[c] = "error"
  /\ Enters(c, "gave_up")
  /\ UNCHANGED <<package, todo, network, history>>

-----------------------------------------------------------------------------
(* What goes wrong.                                                        *)

Fault == faults < MaxFaults /\ faults' = faults + 1

\* Error::ReqwestError: the request or its answer is lost.
ConnectionFails(c) ==
  /\ Fault
  /\ wire[c] # Nothing
  /\ unanswered' = [unanswered EXCEPT ![c] = IF wire[c].op = "commit" THEN @ + 1 ELSE @]
  /\ wire' = [wire EXCEPT ![c] = Nothing]
  /\ Fails(c)
  /\ UNCHANGED <<package, uploaded, made>>

\* Someone deletes the package, with all that was uploaded.
Delete ==
  /\ Fault
  /\ package # NoPackage
  /\ package' = NoPackage
  /\ uploaded' = [c \in Clients |-> {}]
  /\ UNCHANGED <<phase, todo, wire, made, unanswered>>

Call(c) == Create(c) \/ Commit(c) \/ Upload(c)
Handle(c) == HandleCreate(c) \/ HandleUpload(c) \/ HandleCommit(c)
Return(c) ==
  Created(c) \/ Committed(c) \/ MissingEntries(c) \/ Uploaded(c) \/ ApiError(c)

Next ==
  \/ \E c \in Clients :
       Call(c) \/ Handle(c) \/ Return(c) \/ StartOver(c) \/ GiveUp(c) \/ ConnectionFails(c)
  \/ Delete

\* A caller that is not done goes on, and what is sent is handled and answered
\* unless the connection fails.
Fairness ==
  \A c \in Clients : WF_vars(Call(c) \/ Handle(c) \/ Return(c) \/ StartOver(c) \/ GiveUp(c))

Spec == Init /\ [][Next]_vars /\ Fairness

-----------------------------------------------------------------------------
(* Properties.                                                             *)

Answered(c, code) == wire[c] \in Answers /\ wire[c].op = "commit" /\ wire[c].code = code

Revisions == IF package = NoPackage THEN << >> ELSE package.revisions

\* A file that an upload stores as the commit looks it up.
Arrives(file) == file.path # META_PATH /\ Written(file) = file

\* Nobody is asked for a file a second time that can arrive: what the answer to a
\* commit says is missing, its client has not uploaded since the package was made,
\* whatever the others committed between its calls, but for what is called _meta
\* or has a name that a URL escapes.
NothingMissingTwice ==
  \A c \in Clients :
    Answered(c, "missing") => \A file \in wire[c].entries \cap uploaded[c] : ~Arrives(file)

\* A client knows how many revisions it made, up to the commits it got no answer
\* to: it is told of success exactly once, and no commit that was refused or
\* found files missing made one.
RevisionsAreAccountedFor ==
  \A c \in Clients :
    LET told == IF phase[c] = "committed" \/ Answered(c, "ok") THEN 1 ELSE 0
    IN  told <= made[c] /\ made[c] <= told + unanswered[c]

\* The revision that is the whole list of c: of each path the last file listed.
WholeList(c) ==
  LET Places(path) == {i \in DOMAIN FileList[c] : FileList[c][i].path = path}
  IN  {FileList[c][Max(Places(f.path))] : f \in ListOf(c)}

CallOf(c) ==
  IF phase[c] = "committed" THEN "committed"
  ELSE IF Answered(c, "ok") THEN "done"
  ELSE IF Handles(c, "commit") THEN "called"
  ELSE "none"

Log == INSTANCE RevisionLog WITH
  Whole <- WholeList,
  log <- [i \in DOMAIN Revisions |-> Revisions[i].entries],
  call <- [c \in Clients |-> CallOf(c)]

\* However the requests of several clients mix, each revision is the whole list
\* of one of them, made at one moment of a commit of its, and stays until the
\* package is deleted.
CommitsAreAtomic == Log!Spec

\* No client waits forever: the others' commits never make it upload again, so
\* each whose files can all arrive is done once the connections hold and nobody
\* deletes the package.
EveryoneFinishes ==
  \A c \in Clients :
    (\A file \in ListOf(c) : Arrives(file)) => <>(phase[c] \in {"committed", "gave_up"})
=============================================================================
