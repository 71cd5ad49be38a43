------------------------- MODULE CommitClientProofs -------------------------
(***************************************************************************)
(* CommitClient for any clients, lists and number of faults: its safety,   *)
(* and that it implements RevisionLog.                                     *)
(*                                                                         *)
(* The inductive invariant says of the package what SourceStoreProofs says *)
(* of each of the server's packages; of the requests and answers, that     *)
(* they are of the call their client is in; and of the files uploaded,     *)
(* that those which arrive stay until the package is deleted.              *)
(***************************************************************************)
EXTENDS CommitClient, SourcePackageProofs, LibraryLemmas

PackageOK == package # NoPackage => Good(package) /\ CountersMatch(package)

WireOK ==
  \A c \in Clients :
    /\ wire[c] # Nothing => wire[c].op = phase[c]
    /\ Answered(c, "missing") => wire[c].entries # {}

UploadsKept ==
  \A c \in Clients : \A file \in uploaded[c] :
    package # NoPackage /\ (Arrives(file) => file \in package.files)

FaultsCounted == \A c \in Clients : unanswered[c] <= faults

IInv ==
  /\ TypeOK /\ PackageOK /\ WireOK /\ UploadsKept /\ FaultsCounted
  /\ NothingMissingTwice /\ RevisionsAreAccountedFor

-----------------------------------------------------------------------------
(* What is on the wire.                                                    *)

Phases == {"create", "commit", "upload", "committed", "error", "gave_up"}
Wires == {Nothing} \cup Requests \cup Answers

\* A request is no answer, and neither is nothing.
LEMMA WireKinds ==
  /\ \A w \in Requests : w \notin Answers /\ w # Nothing /\ w.op \in {"create", "commit", "upload"}
  /\ \A w \in Answers : w # Nothing /\ w.op \in {"create", "commit", "upload"}
BY WireAssumption DEF Requests, Answers

\* The client knows of success, or is about to: it is on the wire.
Told(c) == phase[c] = "committed" \/ Answered(c, "ok")

-----------------------------------------------------------------------------
(* Steps of a kind.                                                        *)

\* The client's side moves: it sends, receives, starts over or gives up.  It
\* knows of success before the step exactly if it does after it.
LEMMA ClientMoves ==
  ASSUME IInv, NEW c \in Clients, NEW w \in {Nothing} \cup Requests, NEW ph \in Phases,
         NEW files \in SUBSET Listed,
         wire' = [wire EXCEPT ![c] = w], phase' = [phase EXCEPT ![c] = ph],
         todo' = [todo EXCEPT ![c] = files], UNCHANGED <<package, faults, history>>,
         ph = "upload" <=> files # {}, w # Nothing => w.op = ph,
         ph = "committed" <=> Told(c)
  PROVE  IInv'
<1>1. /\ wire' \in [Clients -> Wires] /\ wire'[c] = w /\ w \notin Answers
      /\ phase' \in [Clients -> Phases] /\ phase'[c] = ph
      /\ todo' \in [Clients -> SUBSET Listed] /\ todo'[c] = files
      /\ \A d \in Clients \ {c} :
           wire'[d] = wire[d] /\ phase'[d] = phase[d] /\ todo'[d] = todo[d]
      /\ UNCHANGED <<uploaded, made, unanswered>>
  BY WireKinds DEF IInv, TypeOK, Phases, Wires, history
<1>2. TypeOK'
  BY <1>1 DEF IInv, TypeOK, Phases, Wires
<1>3. PackageOK' /\ UploadsKept' /\ FaultsCounted'
  BY <1>1 DEF IInv, PackageOK, UploadsKept, FaultsCounted
<1>4. WireOK' /\ NothingMissingTwice'
  BY <1>1 DEF IInv, WireOK, NothingMissingTwice, Answered
<1>5. \A d \in Clients : Told(d)' <=> Told(d)
  BY <1>1 DEF Told, Answered
<1>6. RevisionsAreAccountedFor'
  BY <1>1, <1>5 DEF IInv, RevisionsAreAccountedFor, Told
<1> QED
  BY <1>2, <1>3, <1>4, <1>6 DEF IInv

\* The server's side moves: it answers c, which is in the call it made, and
\* makes a revision exactly if it tells of success.
LEMMA ServerMoves ==
  ASSUME IInv, NEW c \in Clients, wire[c] \in Requests, NEW answer \in Answers,
         answer.op = wire[c].op, Answer(c, answer),
         package' \in Package \cup {NoPackage}, PackageOK', UploadsKept',
         uploaded' \in [Clients -> SUBSET Listed],
         \A d \in Clients : wire[d] \notin Requests => uploaded'[d] = uploaded[d],
         answer.code = "missing" =>
           answer.entries # {} /\ \A f \in answer.entries \cap uploaded'[c] : ~Arrives(f),
         made' = IF answer.op = "commit" /\ answer.code = "ok"
                 THEN [made EXCEPT ![c] = @ + 1] ELSE made
  PROVE  IInv'
<1>1. /\ wire' \in [Clients -> Wires] /\ wire'[c] = answer
      /\ \A d \in Clients \ {c} : wire'[d] = wire[d]
      /\ UNCHANGED <<phase, todo, faults, unanswered>>
  BY DEF Answer, IInv, TypeOK, Wires
<1>2. /\ made' \in [Clients -> Nat] /\ \A d \in Clients \ {c} : made'[d] = made[d]
      /\ made'[c] = IF Answered(c, "ok")' THEN made[c] + 1 ELSE made[c]
  BY <1>1 DEF Answered, IInv, TypeOK
<1>3. TypeOK'
  BY <1>1, <1>2 DEF IInv, TypeOK, Wires
<1>4. answer.op = phase[c] /\ answer # Nothing /\ phase[c] # "committed" /\ ~Answered(c, "ok")
  BY WireKinds DEF IInv, WireOK, Answered
<1>5. WireOK'
  BY <1>1, <1>4 DEF IInv, WireOK, Answered
<1>6. FaultsCounted'
  BY <1>1 DEF IInv, FaultsCounted
<1>7. NothingMissingTwice'
  BY <1>1, WireKinds DEF IInv, NothingMissingTwice, Answered
<1>8. RevisionsAreAccountedFor'
  <2>1. ~Told(c) /\ (Told(c)' <=> Answered(c, "ok")')
    BY <1>1, <1>4 DEF Told
  <2>2. \A d \in Clients \ {c} : Told(d)' <=> Told(d)
    BY <1>1 DEF Told, Answered
  <2>3. made[c] \in Nat /\ unanswered[c] \in Nat /\ made[c] <= 0 + unanswered[c]
    BY <2>1 DEF IInv, TypeOK, RevisionsAreAccountedFor, Told
  <2>4. \A d \in Clients \ {c} :
          LET told == IF Told(d) THEN 1 ELSE 0
          IN  told <= made[d] /\ made[d] <= told + unanswered[d]
    BY DEF IInv, RevisionsAreAccountedFor, Told
  <2>5. LET told == IF Told(c)' THEN 1 ELSE 0
        IN  told <= made'[c] /\ made'[c] <= told + unanswered[c]
    BY <1>2, <2>1, <2>3
  <2>6. \A d \in Clients \ {c} :
          LET told == IF Told(d)' THEN 1 ELSE 0
          IN  told <= made'[d] /\ made'[d] <= told + unanswered[d]
    BY <1>2, <2>2, <2>4
  <2> QED
    BY <1>1, <2>5, <2>6 DEF RevisionsAreAccountedFor, Told
<1> QED
  BY <1>3, <1>5, <1>6, <1>7, <1>8 DEF IInv

-----------------------------------------------------------------------------
(* One lemma per group of actions.                                         *)

\* A call preserves the invariant: the request fits the phase its client is in.
LEMMA CallStep ==
  ASSUME IInv, NEW c \in Clients, Call(c)
  PROVE  IInv'
<1>0. /\ phase \in [Clients -> Phases] /\ todo \in [Clients -> SUBSET Listed]
      /\ phase[c] = "upload" <=> todo[c] # {}
  BY DEF IInv, TypeOK, Phases
<1>1. /\ phase' = [phase EXCEPT ![c] = phase[c]] /\ todo' = [todo EXCEPT ![c] = todo[c]]
      /\ UNCHANGED <<package, faults, history>> /\ wire[c] = Nothing
      /\ phase[c] # "committed"
  BY <1>0 DEF Call, Create, Commit, Upload, Send
<1>2. ~Told(c)
  BY <1>1, WireKinds DEF Told, Answered
<1>3. \E request \in Requests :
        request.op = phase[c] /\ wire' = [wire EXCEPT ![c] = request]
  <2>1. CASE Create(c)
    BY <2>1 DEF Create, Send, Requests
  <2>2. CASE Commit(c)
    BY <2>2 DEF Commit, Send, Requests
  <2>3. CASE Upload(c)
    <3>1. (CHOOSE file \in todo[c] : TRUE) \in Listed
      BY <1>0, <2>3 DEF Upload
    <3> DEFINE file == CHOOSE file \in todo[c] : TRUE
    <3> HIDE DEF file
    <3>2. wire' = [wire EXCEPT ![c] = [op |-> "upload", file |-> file]] /\ phase[c] = "upload"
      BY <2>3 DEF Upload, Send, file
    <3> QED
      BY <3>1, <3>2 DEF Requests, file
  <2> QED
    BY <2>1, <2>2, <2>3 DEF Call
<1>4. phase[c] \in Phases /\ todo[c] \in SUBSET Listed
  BY <1>0
<1> QED
  BY <1>0, <1>1, <1>2, <1>3, <1>4, ClientMoves

\* Receiving an answer preserves the invariant: success is known as before, and
\* what is missing is the next to upload.
LEMMA ReturnStep ==
  ASSUME IInv, NEW c \in Clients, Return(c)
  PROVE  IInv'
<1>0. /\ phase \in [Clients -> Phases] /\ todo \in [Clients -> SUBSET Listed]
      /\ phase[c] = "upload" <=> todo[c] # {}
      /\ wire[c] # Nothing => wire[c].op = phase[c]
  BY DEF IInv, TypeOK, Phases, WireOK
<1>1. /\ UNCHANGED <<package, faults, history>> /\ wire' = [wire EXCEPT ![c] = Nothing]
      /\ wire[c] \in Answers /\ phase[c] = wire[c].op
  BY <1>0, WireKinds DEF Return, Created, Committed, MissingEntries, Uploaded, ApiError, Receive
<1>2. ASSUME NEW ph \in Phases, NEW files \in SUBSET Listed,
             phase' = [phase EXCEPT ![c] = ph], todo' = [todo EXCEPT ![c] = files],
             ph = "upload" <=> files # {}, ph = "committed" <=> Told(c)
      PROVE  IInv'
  BY <1>1, <1>2, ClientMoves
<1>3. Told(c) <=> wire[c].op = "commit" /\ wire[c].code = "ok"
  BY <1>1, WireKinds DEF Told, Answered
<1>4. CASE Created(c)
  <2>1. todo' = [todo EXCEPT ![c] = todo[c]] /\ todo[c] = {} /\ ~Told(c)
    BY <1>0, <1>1, <1>3, <1>4 DEF Created, Receive
  <2> QED
    BY <1>2, <1>4, <2>1 DEF Created, Enters, Phases
<1>5. CASE Committed(c)
  <2>1. todo' = [todo EXCEPT ![c] = todo[c]] /\ todo[c] = {} /\ Told(c)
    BY <1>0, <1>1, <1>3, <1>5 DEF Committed, Receive
  <2> QED
    BY <1>2, <1>5, <2>1 DEF Committed, Enters, Phases
<1>6. CASE MissingEntries(c)
  <2>1. Answered(c, "missing") /\ ~Told(c)
    BY <1>3, <1>6 DEF MissingEntries, Receive, Answered
  <2>2. wire[c].entries \in SUBSET Listed /\ wire[c].entries # {}
    BY <2>1 DEF Answered, Answers, IInv, WireOK
  <2> QED
    BY <1>2, <1>6, <2>1, <2>2 DEF MissingEntries, Enters, Phases
<1>7. CASE Uploaded(c)
  <2> DEFINE left == todo[c] \ {CHOOSE file \in todo[c] : TRUE}
  <2>1. ~Told(c) /\ left \in SUBSET Listed /\ todo' = [todo EXCEPT ![c] = left]
        /\ todo'[c] = left
    BY <1>0, <1>3, <1>7 DEF Uploaded, Receive
  <2> HIDE DEF left
  <2>2. phase' = [phase EXCEPT ![c] = IF left = {} THEN "commit" ELSE "upload"]
    BY <1>7, <2>1 DEF Uploaded, Enters
  <2> QED
    BY <1>2, <2>1, <2>2 DEF Phases
<1>8. CASE ApiError(c)
  <2>1. ~Told(c)
    BY <1>3, <1>8 DEF ApiError, Receive
  <2> QED
    BY <1>2, <1>8, <2>1 DEF ApiError, Fails, Enters, Phases
<1> QED
  BY <1>4, <1>5, <1>6, <1>7, <1>8 DEF Return

\* Starting over and giving up preserve the invariant: nothing is on the wire.
LEMMA AfterErrorStep ==
  ASSUME IInv, NEW c \in Clients, StartOver(c) \/ GiveUp(c)
  PROVE  IInv'
<1>0. /\ phase \in [Clients -> Phases] /\ todo \in [Clients -> SUBSET Listed]
      /\ phase[c] = "upload" <=> todo[c] # {}
      /\ wire \in [Clients -> Wires]
      /\ wire[c] # Nothing => wire[c].op = phase[c]
  BY DEF IInv, TypeOK, Phases, Wires, WireOK
<1>1. phase[c] = "error" /\ UNCHANGED <<package, todo, network, history>>
  BY DEF StartOver, GiveUp
<1>2. wire[c] = Nothing /\ todo[c] = {}
  BY <1>0, <1>1, WireKinds DEF Wires
<1>3. wire' = [wire EXCEPT ![c] = Nothing] /\ todo' = [todo EXCEPT ![c] = {}]
      /\ UNCHANGED <<package, faults, history>>
  BY <1>0, <1>1, <1>2 DEF network
<1>4. ~Told(c)
  BY <1>1, <1>2, WireKinds DEF Told, Answered
<1>5. PICK ph \in {"create", "gave_up"} : phase' = [phase EXCEPT ![c] = ph]
  BY DEF StartOver, GiveUp, Enters
<1>6. ph \in Phases /\ ph # "upload" /\ ph # "committed"
  BY DEF Phases
<1> QED
  BY <1>3, <1>4, <1>5, <1>6, ClientMoves

\* A connection that fails preserves the invariant: the client does not know any
\* more of the commit it made, if it was one, and that is counted.
LEMMA ConnectionFailsStep ==
  ASSUME IInv, NEW c \in Clients, ConnectionFails(c)
  PROVE  IInv'
<1>1. /\ wire \in [Clients -> Wires] /\ phase \in [Clients -> Phases]
      /\ todo \in [Clients -> SUBSET Listed] /\ unanswered \in [Clients -> Nat]
      /\ made \in [Clients -> Nat] /\ faults \in Nat /\ MaxFaults \in Nat
  BY CommitAssumption DEF IInv, TypeOK, Phases, Wires
<1>2. /\ wire'[c] = Nothing /\ phase'[c] = "error" /\ todo'[c] = {}
      /\ \A d \in Clients \ {c} :
           /\ wire'[d] = wire[d] /\ phase'[d] = phase[d] /\ todo'[d] = todo[d]
           /\ unanswered'[d] = unanswered[d]
      /\ unanswered'[c] = IF wire[c].op = "commit" THEN unanswered[c] + 1 ELSE unanswered[c]
      /\ unanswered' \in [Clients -> Nat]
      /\ faults' = faults + 1 /\ faults' \in 0..MaxFaults /\ wire[c] # Nothing
      /\ UNCHANGED <<package, uploaded, made>>
  BY <1>1 DEF ConnectionFails, Fault, Fails, Enters
<1>3. TypeOK'
  BY <1>1, <1>2 DEF ConnectionFails, Fails, Enters, IInv, TypeOK, Phases, Wires
<1>4. PackageOK' /\ UploadsKept'
  BY <1>2 DEF IInv, PackageOK, UploadsKept
<1>5. FaultsCounted'
  BY <1>1, <1>2 DEF IInv, FaultsCounted
<1>6. WireOK' /\ NothingMissingTwice'
  BY <1>2, WireKinds DEF IInv, WireOK, NothingMissingTwice, Answered
<1>7. RevisionsAreAccountedFor'
  <2>1. ~Told(c)' /\ \A d \in Clients \ {c} : Told(d)' <=> Told(d)
    BY <1>2, WireKinds DEF Told, Answered
  <2>2. Told(c) => wire[c].op = "commit"
    BY <1>1, <1>2, WireKinds DEF Told, Answered, IInv, WireOK, Wires
  <2>3. \A d \in Clients :
          LET told == IF Told(d) THEN 1 ELSE 0
          IN  told <= made[d] /\ made[d] <= told + unanswered[d]
    BY DEF IInv, RevisionsAreAccountedFor, Told
  <2>4. 0 <= made[c] /\ made[c] <= 0 + unanswered'[c]
    BY <1>1, <1>2, <2>2, <2>3
  <2>5. \A d \in Clients :
          LET told == IF Told(d)' THEN 1 ELSE 0
          IN  told <= made[d] /\ made[d] <= told + unanswered'[d]
    BY <1>2, <2>1, <2>3, <2>4
  <2> QED
    BY <1>2, <2>5 DEF RevisionsAreAccountedFor, Told
<1> QED
  BY <1>3, <1>4, <1>5, <1>6, <1>7 DEF IInv

\* Deleting the package preserves the invariant: nothing counts as uploaded.
LEMMA DeleteStep ==
  ASSUME IInv, Delete
  PROVE  IInv'
<1>1. /\ package' = NoPackage /\ uploaded' = [c \in Clients |-> {}]
      /\ UNCHANGED <<phase, todo, wire, made, unanswered>>
      /\ faults < MaxFaults /\ faults' = faults + 1
  BY DEF Delete, Fault
<1>2. faults \in Nat /\ MaxFaults \in Nat /\ unanswered \in [Clients -> Nat]
  BY CommitAssumption DEF IInv, TypeOK
<1>3. TypeOK'
  BY <1>1, <1>2 DEF IInv, TypeOK
<1>4. PackageOK' /\ UploadsKept' /\ WireOK' /\ NothingMissingTwice'
  BY <1>1 DEF IInv, PackageOK, UploadsKept, WireOK, NothingMissingTwice, Answered
<1>5. FaultsCounted'
  BY <1>1, <1>2 DEF IInv, FaultsCounted
<1>6. RevisionsAreAccountedFor'
  BY <1>1 DEF IInv, RevisionsAreAccountedFor, Answered
<1> QED
  BY <1>3, <1>4, <1>5, <1>6 DEF IInv

\* The files that a client lists, as SourcePackage stores them.
LEMMA ListedFiles ==
  /\ \A file \in Listed : file \in UserFiles /\ Written(file) \in UserFiles
  /\ \A c \in Clients : \A i \in DOMAIN FileList[c] : FileList[c][i] \in Listed
<1>1. \A c \in Clients : \A i \in DOMAIN FileList[c] : FileList[c][i] \in UserFiles
  BY CommitAssumption
<1> QED
  BY <1>1, CommitAssumption DEF Listed, ListOf, ToSet

\* The entries of a list that a commit may store.
LEMMA EntriesOfList ==
  ASSUME NEW c \in Clients
  PROVE  CommitEntries(FileList[c]) \in SUBSET FileKeys
BY ListedFiles, GeneratedFiles DEF CommitEntries

\* A refusal, or any other answer that changes nothing else, preserves it.
LEMMA AnswerStep ==
  ASSUME IInv, NEW c \in Clients, wire[c] \in Requests, NEW answer \in Answers,
         answer.op = wire[c].op, Answer(c, answer), UNCHANGED <<package, uploaded, made>>,
         ~(answer.op = "commit" /\ answer.code = "ok"),
         answer.code = "missing" =>
           answer.entries # {} /\ \A f \in answer.entries \cap uploaded[c] : ~Arrives(f)
  PROVE  IInv'
<1>1. /\ package' \in Package \cup {NoPackage} /\ PackageOK' /\ UploadsKept'
      /\ uploaded' \in [Clients -> SUBSET Listed]
  BY DEF IInv, TypeOK, PackageOK, UploadsKept
<1> QED
  BY <1>1, ServerMoves

\* PUT of _meta preserves the invariant: the package it makes is good, and
\* nothing was uploaded to it.
LEMMA HandleCreateStep ==
  ASSUME IInv, NEW c \in Clients, HandleCreate(c)
  PROVE  IInv'
<1> DEFINE answer == [op |-> "create", code |-> "ok"]
           new == NewWithMetadata(TheProject, ThePackage, NoneDisabled)
<1>1. answer \in Answers /\ answer.op # "commit" /\ answer.code # "missing"
      /\ answer.op = wire[c].op /\ Answer(c, answer) /\ wire[c] \in Requests
  BY DEF Answers, HandleCreate, Handles
<1> HIDE DEF answer
<1>2. TheProject \in Projects /\ ThePackage \in PackageNames
  BY CommitAssumption DEF TheProject, ThePackage
<1>3. Good(new) /\ CountersMatch(new)
  BY <1>2, NewWithMetadataGood, PackageAssumption
<1>4. new \in Package
  BY <1>3 DEF Good
<1> HIDE DEF new
<1>5. package' = (IF package = NoPackage THEN new ELSE package) /\ UNCHANGED <<uploaded, made>>
  BY DEF HandleCreate, WithMetadata, new
<1>6. /\ package' \in Package \cup {NoPackage} /\ PackageOK' /\ UploadsKept'
      /\ uploaded' \in [Clients -> SUBSET Listed]
  BY <1>3, <1>4, <1>5, CommitAssumption DEF IInv, TypeOK, PackageOK, UploadsKept
<1> QED
  BY <1>1, <1>5, <1>6, ServerMoves

\* PUT of a file preserves the invariant: a file that arrives is stored as long as
\* it counts as uploaded.
LEMMA HandleUploadStep ==
  ASSUME IInv, NEW c \in Clients, HandleUpload(c)
  PROVE  IInv'
<1> DEFINE file == wire[c].file
           written == Written(file)
<1>1. /\ wire[c] \in Requests /\ wire[c].op = "upload"
      /\ file \in Listed /\ written \in UserFiles /\ written \in FileKeys
  <2>1. wire[c] \in Requests /\ wire[c].op = "upload" /\ file \in Listed
    BY DEF HandleUpload, Handles, Requests
  <2> QED
    BY <2>1, ListedFiles, GeneratedFiles
<1>2. CASE Refuse(c, "unknown_package")
  <2> DEFINE answer == [op |-> wire[c].op, code |-> "unknown_package"]
  <2>1. answer \in Answers /\ answer.op = wire[c].op /\ answer.code \notin {"ok", "missing"}
    BY <1>1 DEF Answers
  <2>2. Answer(c, answer) /\ UNCHANGED <<package, uploaded, made>>
    BY <1>2 DEF Refuse
  <2> HIDE DEF answer
  <2> QED
    BY <1>1, <2>1, <2>2, AnswerStep
<1>3. ASSUME Accept(c), Good(package'), CountersMatch(package'),
             package # NoPackage => package.files \subseteq package'.files,
             Arrives(file) => file \in package'.files
      PROVE  IInv'
  <2> DEFINE answer == [op |-> "upload", code |-> "ok"]
  <2> HIDE DEF file, written
  <2>1. answer \in Answers /\ answer.op # "commit" /\ answer.code # "missing"
        /\ answer.op = wire[c].op /\ Answer(c, answer)
    BY <1>1, <1>3 DEF Accept, Answers
  <2> HIDE DEF answer
  <2>2. uploaded' = [uploaded EXCEPT ![c] = uploaded[c] \cup {file}] /\ UNCHANGED made
    BY <1>3 DEF Accept, file
  <2>3. uploaded \in [Clients -> SUBSET Listed]
    BY DEF IInv, TypeOK
  <2>4. package' \in Package /\ package' # NoPackage
    BY <1>3, CommitAssumption DEF Good
  <2>5. UploadsKept'
    <3>1. \A d \in Clients : uploaded'[d] \subseteq uploaded[d] \cup {file}
      BY <2>2, <2>3
    <3> QED
      BY <1>3, <2>4, <3>1 DEF IInv, UploadsKept, Arrives
  <2>6. PackageOK' /\ uploaded' \in [Clients -> SUBSET Listed]
        /\ \A d \in Clients : wire[d] \notin Requests => uploaded'[d] = uploaded[d]
    BY <1>1, <1>3, <2>2, <2>3 DEF PackageOK
  <2> QED
    BY <1>1, <2>1, <2>2, <2>4, <2>5, <2>6, ServerMoves
<1>4. CASE written.path = META_PATH /\ package' = WithMetadata /\ Accept(c)
  <2> DEFINE new == NewWithMetadata(TheProject, ThePackage, NoneDisabled)
  <2>1. TheProject \in Projects /\ ThePackage \in PackageNames
    BY CommitAssumption DEF TheProject, ThePackage
  <2>2. Good(new) /\ CountersMatch(new)
    BY <2>1, NewWithMetadataGood, PackageAssumption
  <2> HIDE DEF new
  <2>3. package' = IF package = NoPackage THEN new ELSE package
    BY <1>4 DEF WithMetadata, new
  <2>4. Good(package') /\ CountersMatch(package')
    BY <2>2, <2>3 DEF IInv, PackageOK
  <2>5. ~Arrives(file)
    BY <1>4 DEF Arrives
  <2> HIDE DEF file, written
  <2> QED
    BY <1>3, <1>4, <2>3, <2>4, <2>5
<1>5. CASE package # NoPackage /\ package' = PutFile(package, written) /\ Accept(c)
  <2> DEFINE new == PutFile(package, written)
  <2>1. Good(package) /\ CountersMatch(package)
    BY <1>5 DEF IInv, PackageOK
  <2>2. Good(new) /\ CountersMatch(new) /\ new.files = package.files \cup {written}
    BY <1>1, <2>1, PutFileGood DEF PutFile, Good, Package
  <2>3. Arrives(file) => written = file
    BY DEF Arrives
  <2> HIDE DEF file, written, new
  <2>4. package' = new
    BY <1>5 DEF new
  <2> QED
    BY <1>3, <1>5, <2>2, <2>3, <2>4
<1> QED
  BY <1>2, <1>4, <1>5 DEF HandleUpload

\* The commit of a list with nothing missing makes a good revision: its digest
\* is a new one, as there are no more commits than connections that can fail.
LEMMA NewRevisionGood ==
  ASSUME IInv, NEW c \in Clients, wire[c] \in Requests, package # NoPackage,
         Missing(package, FileList[c]) = {}
  PROVE  /\ Good(NewRevision(c)) /\ CountersMatch(NewRevision(c))
         /\ NewRevision(c).files = package.files
<1> DEFINE entries == CommitEntries(FileList[c])
           digest == <<c, made[c] + 1>>
<1>1. Good(package) /\ CountersMatch(package) /\ package \in Package
  BY DEF IInv, PackageOK, Good
<1>2. entries \in SUBSET FileKeys
  BY EntriesOfList
<1>3. EntriesStored(package, entries)
  BY DEF Missing, CommitEntries, EntriesStored
<1> HIDE DEF entries
<1>4. digest \in Srcmd5s
  <2>1. /\ made[c] \in Nat /\ unanswered[c] \in Nat /\ faults \in Nat /\ faults <= MaxFaults
        /\ unanswered[c] <= faults /\ MaxFaults \in Nat
    BY CommitAssumption DEF IInv, TypeOK, FaultsCounted
  <2>2. ~Told(c)
    BY WireKinds DEF IInv, WireOK, Told, Answered
  <2>3. made[c] <= 0 + unanswered[c]
    BY <2>2 DEF IInv, RevisionsAreAccountedFor, Told
  <2>4. made[c] + 1 \in 1..MaxFaults + 1
    BY <2>1, <2>3
  <2> QED
    BY <2>4, CommitAssumption
<1> HIDE DEF digest
<1>5. NoVersion \in AllVersions
  BY DEF AllVersions
<1>6. NewRevision(c) = AddRevision(package, NoVersion, digest, entries)
  BY DEF NewRevision, digest, entries
<1>7. AddRevision(package, NoVersion, digest, entries).files = package.files
  BY <1>1, <1>5 DEF AddRevision, Package
<1> QED
  BY <1>1, <1>2, <1>3, <1>4, <1>5, <1>6, <1>7, AddRevisionGood

\* POST of a commit preserves the invariant: a file that is missing was not
\* uploaded to this package.
LEMMA HandleCommitStep ==
  ASSUME IInv, NEW c \in Clients, HandleCommit(c)
  PROVE  IInv'
<1>1. wire[c] \in Requests /\ wire[c].op = "commit"
  BY DEF HandleCommit, Handles
<1>2. ASSUME NEW code \in {"unknown_package", "bad_request"}, Refuse(c, code)
      PROVE  IInv'
  <2> DEFINE answer == [op |-> wire[c].op, code |-> code]
  <2>1. answer \in Answers /\ answer.op = wire[c].op /\ answer.code \notin {"ok", "missing"}
    BY <1>1 DEF Answers
  <2>2. Answer(c, answer) /\ UNCHANGED <<package, uploaded, made>>
    BY <1>2 DEF Refuse
  <2> HIDE DEF answer
  <2> QED
    BY <1>1, <2>1, <2>2, AnswerStep
<1>3. ASSUME package # NoPackage, Missing(package, FileList[c]) # {},
             Answer(c, [op |-> "commit", code |-> "missing",
                        entries |-> {FileList[c][i] : i \in Missing(package, FileList[c])}]),
             UNCHANGED <<package, uploaded, made>>
      PROVE  IInv'
  <2> DEFINE entries == {FileList[c][i] : i \in Missing(package, FileList[c])}
             answer == [op |-> "commit", code |-> "missing", entries |-> entries]
  <2>1. entries \subseteq Listed /\ entries # {} /\ entries \cap package.files = {}
    BY <1>3, ListedFiles DEF Missing
  <2>2. \A f \in entries \cap uploaded[c] : ~Arrives(f)
    BY <1>3, <2>1 DEF IInv, UploadsKept
  <2>3. Answer(c, answer)
    BY <1>3
  <2> HIDE DEF entries
  <2>4. answer \in Answers /\ answer.op = wire[c].op /\ answer.code = "missing"
        /\ answer.entries = entries
    BY <1>1, <2>1 DEF Answers
  <2> HIDE DEF answer
  <2> QED
    BY <1>1, <1>3, <2>1, <2>2, <2>3, <2>4, AnswerStep
<1>4. ASSUME package # NoPackage, Missing(package, FileList[c]) = {},
             package' = NewRevision(c), made' = [made EXCEPT ![c] = @ + 1],
             Answer(c, [op |-> "commit", code |-> "ok"]), UNCHANGED uploaded
      PROVE  IInv'
  <2> DEFINE answer == [op |-> "commit", code |-> "ok"]
  <2>1. Answer(c, answer)
    BY <1>4
  <2>2. answer \in Answers /\ answer.op = "commit" /\ answer.code = "ok"
    BY DEF Answers
  <2> HIDE DEF answer
  <2>3. Good(package') /\ CountersMatch(package') /\ package'.files = package.files
    BY <1>1, <1>4, NewRevisionGood
  <2>4. package' \in Package /\ package' # NoPackage
    BY <2>3, CommitAssumption DEF Good
  <2>5. PackageOK' /\ UploadsKept'
    BY <1>4, <2>3, <2>4 DEF IInv, PackageOK, UploadsKept
  <2>6. uploaded' \in [Clients -> SUBSET Listed] /\ uploaded' = uploaded
    BY <1>4 DEF IInv, TypeOK
  <2> QED
    BY <1>1, <1>4, <2>1, <2>2, <2>4, <2>5, <2>6, ServerMoves
<1> QED
  BY <1>2, <1>3, <1>4 DEF HandleCommit, CommitError

-----------------------------------------------------------------------------
(* The theorems.                                                           *)

\* Before any client calls, the invariant holds.
LEMMA InitInv == Init => IInv
<1> SUFFICES ASSUME Init PROVE IInv
  OBVIOUS
<1>1. \A c \in Clients : wire[c] = Nothing /\ phase[c] = "create" /\ ~Answered(c, "ok")
                         /\ ~Answered(c, "missing")
  BY WireKinds DEF Init, Answered
<1>2. TypeOK
  BY CommitAssumption DEF Init, TypeOK
<1>3. PackageOK /\ WireOK /\ UploadsKept /\ FaultsCounted
  BY <1>1 DEF Init, PackageOK, WireOK, UploadsKept, FaultsCounted
<1>4. NothingMissingTwice /\ RevisionsAreAccountedFor
  BY <1>1 DEF Init, NothingMissingTwice, RevisionsAreAccountedFor
<1> QED
  BY <1>2, <1>3, <1>4 DEF IInv

\* Every step preserves it.
LEMMA NextInv == IInv /\ [Next]_vars => IInv'
<1> SUFFICES ASSUME IInv, [Next]_vars PROVE IInv'
  OBVIOUS
<1>1. CASE UNCHANGED vars
  BY <1>1 DEF vars, network, history, IInv, TypeOK, PackageOK, WireOK, UploadsKept,
              FaultsCounted, NothingMissingTwice, RevisionsAreAccountedFor, Answered
<1> QED
  BY <1>1, CallStep, HandleCreateStep, HandleUploadStep, HandleCommitStep, ReturnStep,
     AfterErrorStep, ConnectionFailsStep, DeleteStep DEF Next, Handle

\* The invariant holds throughout.
THEOREM Invariance == Spec => []IInv
BY InitInv, NextInv, PTL DEF Spec

\* TypeOK: what the clients and the server hold, and what is between them, is
\* well typed; a client uploads exactly while it has something to upload.
THEOREM TypeCorrectness == Spec => []TypeOK
<1>1. IInv => TypeOK
  BY DEF IInv
<1> QED
  BY <1>1, Invariance, PTL

\* NothingMissingTwice: a commit never asks its client for a file that it has
\* uploaded since the package was made, but for what is called _meta or has a name
\* that a URL escapes.
THEOREM NoUploadTwice == Spec => []NothingMissingTwice
<1>1. IInv => NothingMissingTwice
  BY DEF IInv
<1> QED
  BY <1>1, Invariance, PTL

\* RevisionsAreAccountedFor: a client is told of every revision it makes but
\* those whose answer was lost, and of no other.
THEOREM AccountsBalance == Spec => []RevisionsAreAccountedFor
<1>1. IInv => RevisionsAreAccountedFor
  BY DEF IInv
<1> QED
  BY <1>1, Invariance, PTL

-----------------------------------------------------------------------------
(* The log of revisions.                                                   *)

\* The revision that a commit of c stores is the whole list of c.
LEMMA StoresWholeList ==
  ASSUME NEW c \in Clients
  PROVE  CommitEntries(FileList[c]) = WholeList(c)
<1> DEFINE list == FileList[c]
           Places(path) == {i \in DOMAIN list : list[i].path = path}
           last == {i \in DOMAIN list :
                      \A j \in DOMAIN list : j > i => list[j].path # list[i].path}
<1>1. list \in Seq(UserFiles) /\ DOMAIN list = 1..Len(list) /\ Len(list) \in Nat
  BY CommitAssumption
<1>2. ASSUME NEW i \in DOMAIN list
      PROVE  LET m == Max(Places(list[i].path))
             IN  m \in last /\ list[m].path = list[i].path /\ (i \in last => m = i)
  <2> DEFINE S == Places(list[i].path)
  <2>1. S \in SUBSET Nat /\ S # {} /\ i \in S
    BY <1>1, <1>2
  <2>2. IsFiniteSet(S)
    <3>1. IsFiniteSet(1..Len(list)) /\ S \in SUBSET (1..Len(list))
      BY <1>1, FS_Interval
    <3> QED
      BY <3>1, FS_Subset
  <2>3. Max(S) \in S /\ \A j \in S : Max(S) >= j
    <3> HIDE DEF S
    <3> QED
      BY <2>1, <2>2, MaximumExists
  <2> DEFINE m == Max(S)
  <2> HIDE DEF m
  <2>4. m \in DOMAIN list /\ m \in Nat /\ list[m].path = list[i].path
        /\ \A j \in DOMAIN list : list[j].path = list[i].path => m >= j
    BY <1>1, <2>3 DEF m
  <2>5. m \in last /\ (i \in last => m = i)
    BY <1>1, <1>2, <2>4
  <2> QED
    BY <2>4, <2>5 DEF m
<1>3. WholeList(c) = {list[Max(Places(list[i].path))] : i \in DOMAIN list}
  BY <1>1 DEF WholeList, ListOf, ToSet
<1>4. CommitEntries(list) = {list[i] : i \in last}
  BY DEF CommitEntries
<1> HIDE DEF list, last, Places
<1>5. CommitEntries(list) \subseteq WholeList(c)
  <2> SUFFICES ASSUME NEW i \in last
               PROVE  list[i] \in WholeList(c)
    BY <1>4
  <2>1. i \in DOMAIN list
    BY DEF last
  <2> QED
    BY <1>2, <1>3, <2>1
<1>6. WholeList(c) \subseteq CommitEntries(list)
  BY <1>2, <1>3, <1>4
<1> QED
  BY <1>5, <1>6 DEF list

-----------------------------------------------------------------------------
(* CommitClient implements RevisionLog.                                    *)

\* The log and the calls that the state stands for.
Entries(revisions) == [i \in DOMAIN revisions |-> revisions[i].entries]
Calls == [c \in Clients |-> CallOf(c)]

\* A log grows as the revisions do, and is empty when there are none.
LEMMA EntriesOfRevisions ==
  /\ Entries(<< >>) = << >>
  /\ \A revisions \in Seq(Revision), rev \in Revision :
       Entries(Append(revisions, rev)) = Append(Entries(revisions), rev.entries)
<1>1. Entries(<< >>) = << >>
  BY DEF Entries
<1>2. ASSUME NEW revisions \in Seq(Revision), NEW rev \in Revision
      PROVE  Entries(Append(revisions, rev)) = Append(Entries(revisions), rev.entries)
  <2>0. /\ DOMAIN revisions = 1..Len(revisions) /\ Len(revisions) \in Nat
        /\ \A i \in DOMAIN revisions : revisions[i].entries \in SUBSET FileKeys
    <3>1. /\ DOMAIN revisions = 1..Len(revisions) /\ Len(revisions) \in Nat
          /\ \A i \in DOMAIN revisions : revisions[i] \in Revision
      OBVIOUS
    <3>2. \A r \in Revision : r.entries \in SUBSET FileKeys
      BY DEF Revision
    <3> QED
      BY <3>1, <3>2
  <2> DEFINE n == Len(revisions)
             entries(i) == revisions[i].entries
  <2>1. Entries(revisions) = [i \in 1..n |-> entries(i)]
    BY <2>0 DEF Entries
  <2>2. Entries(revisions) \in Seq(SUBSET FileKeys) /\ Len(Entries(revisions)) = n
    <3>1. \A i \in 1..n : entries(i) \in SUBSET FileKeys
      BY <2>0
    <3> HIDE DEF n, entries
    <3> QED
      BY <2>0, <2>1, <3>1 DEF n
  <2>3. rev.entries \in SUBSET FileKeys
    BY DEF Revision
  <2> QED
    BY <2>2, <2>3 DEF Entries
<1> QED
  BY <1>1, <1>2

\* A step in which only the call of c can move.
LEMMA OneCallMoves ==
  ASSUME NEW c \in Clients,
         \A d \in Clients \ {c} : wire'[d] = wire[d] /\ phase'[d] = phase[d]
  PROVE  Calls' = [Calls EXCEPT ![c] = CallOf(c)']
<1>1. \A d \in Clients \ {c} : CallOf(d)' = CallOf(d)
  BY DEF CallOf, Answered, Handles
<1> QED
  BY <1>1 DEF Calls

\* Where a call is, from the phase of its client and what is on the wire.
CallsFitPhases ==
  \A c \in Clients :
    /\ phase[c] \in {"create", "upload", "error", "gave_up"} => CallOf(c) = "none"
    /\ wire[c] = Nothing /\ phase[c] # "committed" => CallOf(c) = "none"
    /\ wire[c] \in Requests /\ phase[c] = "commit" => CallOf(c) = "called"
    /\ wire[c] \in Answers /\ phase[c] = "commit" =>
         CallOf(c) = IF wire[c].code = "ok" THEN "done" ELSE "none"
    /\ phase[c] = "committed" => CallOf(c) = "committed"

\* It follows from what is known of the wire, now and after a step.
LEMMA CallOfPhase == IInv => CallsFitPhases
<1>1. ASSUME IInv, NEW c \in Clients
      PROVE  wire[c] \in Wires /\ (wire[c] # Nothing => wire[c].op = phase[c])
  BY <1>1 DEF IInv, TypeOK, WireOK, Wires
<1> QED
  BY <1>1, WireKinds DEF CallsFitPhases, CallOf, Answered, Handles, Wires

\* What is on its way fits the phase of its client after a step, too.
LEMMA CallOfNextPhase == IInv' => CallsFitPhases'
BY CallOfPhase, PTL

\* The log as it is, and a log step.
LogOf == Entries(Revisions)

\* The actions of RevisionLog are steps of it.
LEMMA LogSteps ==
  ASSUME NEW c \in Clients, Calls' = [Calls EXCEPT ![c] = CallOf(c)'],
         \/ UNCHANGED LogOf /\ CallOf(c)' = CallOf(c)
         \/ UNCHANGED LogOf /\ CallOf(c) = "none" /\ CallOf(c)' = "called"
         \/ UNCHANGED LogOf /\ CallOf(c) = "done" /\ CallOf(c)' = "committed"
         \/ UNCHANGED LogOf /\ CallOf(c) \in {"called", "done"} /\ CallOf(c)' = "none"
         \/ LogOf' = Append(LogOf, WholeList(c)) /\ CallOf(c) = "called" /\ CallOf(c)' = "done"
  PROVE  [Log!Next]_Log!vars
<1>1. Calls[c] = CallOf(c)
  BY DEF Calls
<1>2. CASE UNCHANGED LogOf /\ CallOf(c)' = CallOf(c)
  <2>1. UNCHANGED Calls
    BY <1>1, <1>2 DEF Calls
  <2> QED
    BY <1>2, <2>1 DEF Log!vars, Calls, LogOf, Entries
<1>3. CASE UNCHANGED LogOf /\ CallOf(c) = "none" /\ CallOf(c)' = "called"
  <2>1. Log!Call(c)
    BY <1>1, <1>3 DEF Log!Call, Log!Moves, Calls, LogOf, Entries
  <2> QED
    BY <2>1 DEF Log!Next
<1>4. CASE UNCHANGED LogOf /\ CallOf(c) = "done" /\ CallOf(c)' = "committed"
  <2>1. Log!Answer(c)
    BY <1>1, <1>4 DEF Log!Answer, Log!Moves, Calls, LogOf, Entries
  <2> QED
    BY <2>1 DEF Log!Next
<1>5. CASE UNCHANGED LogOf /\ CallOf(c) \in {"called", "done"} /\ CallOf(c)' = "none"
  <2>1. Log!NoSuccess(c)
    BY <1>1, <1>5 DEF Log!NoSuccess, Log!Moves, Calls, LogOf, Entries
  <2> QED
    BY <2>1 DEF Log!Next
<1>6. CASE LogOf' = Append(LogOf, WholeList(c)) /\ CallOf(c) = "called" /\ CallOf(c)' = "done"
  <2>1. Log!TakeEffect(c)
    BY <1>1, <1>6 DEF Log!TakeEffect, Log!Moves, Calls, LogOf, Entries
  <2> QED
    BY <2>1 DEF Log!Next
<1> QED
  BY <1>2, <1>3, <1>4, <1>5, <1>6

\* A client's step that is no more than the request of a commit, the news of its
\* success, or nothing that the log knows of.
LEMMA ClientStepSimulates ==
  ASSUME IInv, IInv', NEW c \in Clients, Call(c) \/ Return(c) \/ StartOver(c) \/ GiveUp(c)
  PROVE  [Log!Next]_Log!vars
<1>1. /\ phase \in [Clients -> Phases] /\ wire \in [Clients -> Wires]
      /\ wire[c] # Nothing => wire[c].op = phase[c]
  BY DEF IInv, TypeOK, Phases, Wires, WireOK
<1>2. UNCHANGED package
  BY DEF Call, Create, Commit, Upload, Send, Return, Created, Committed, MissingEntries,
         Uploaded, ApiError, Receive, StartOver, GiveUp
<1>3. UNCHANGED LogOf
  BY <1>2 DEF LogOf, Revisions
<1>4. CASE Call(c)
  <2>1. UNCHANGED phase /\ wire[c] = Nothing /\ wire'[c] \in Wires
        /\ \A d \in Clients \ {c} : wire'[d] = wire[d]
    BY <1>1, <1>4 DEF Call, Create, Commit, Upload, Send, IInv, TypeOK, Wires
  <2>2. CallOf(c) = "none"
    BY <1>1, <1>4, <2>1, CallOfPhase DEF CallsFitPhases, Call, Create, Commit, Upload
  <2>3. CallOf(c)' \in {"none", "called"}
    <3>1. CASE phase[c] = "commit"
      <4>1. Commit(c)
        BY <1>4, <3>1 DEF Call, Create, Upload
      <4>2. wire'[c] = [op |-> "commit"]
        BY <1>1, <4>1 DEF Commit, Send
      <4>3. wire'[c] \in Requests
        BY <4>2 DEF Requests
      <4>4. CallOf(c)' = "called"
        BY <2>1, <3>1, <4>3, CallOfNextPhase DEF CallsFitPhases
      <4> QED
        BY <4>4
    <3>2. CASE phase[c] \in {"create", "upload"}
      BY <2>1, <3>2, CallOfNextPhase DEF CallsFitPhases
    <3> QED
      BY <1>4, <3>1, <3>2 DEF Call, Create, Commit, Upload
  <2>4. Calls' = [Calls EXCEPT ![c] = CallOf(c)']
    BY <2>1, OneCallMoves
  <2> QED
    BY <1>3, <2>2, <2>3, <2>4, LogSteps
<1>5. CASE Return(c)
  <2>1. /\ wire[c] \in Answers /\ wire' = [wire EXCEPT ![c] = Nothing]
        /\ phase[c] = wire[c].op /\ phase[c] \in {"create", "commit", "upload"}
    BY <1>1, <1>5, WireKinds
       DEF Return, Created, Committed, MissingEntries, Uploaded, ApiError, Receive
  <2>2. \A d \in Clients \ {c} : wire'[d] = wire[d] /\ phase'[d] = phase[d]
    BY <1>1, <1>5, <2>1
       DEF Return, Created, Committed, MissingEntries, Uploaded, ApiError, Fails, Enters
  <2>3. Calls' = [Calls EXCEPT ![c] = CallOf(c)']
    BY <2>2, OneCallMoves
  <2>4. CASE Committed(c)
    <3>1. CallOf(c) = "done"
      BY <2>1, <2>4, CallOfPhase DEF CallsFitPhases, Committed, Receive
    <3>2. phase'[c] = "committed"
      BY <1>1, <2>4 DEF Committed, Enters
    <3>3. CallOf(c)' = "committed"
      BY <3>2 DEF CallOf
    <3> QED
      BY <1>3, <2>3, <3>1, <3>3, LogSteps
  <2>5. CASE Created(c) \/ MissingEntries(c) \/ Uploaded(c) \/ ApiError(c)
    <3>1. CallOf(c) = "none"
      BY <2>1, <2>5, CallOfPhase DEF CallsFitPhases, Created, MissingEntries, Uploaded, ApiError, Receive
    <3>2. wire'[c] = Nothing /\ phase'[c] # "committed"
      BY <1>1, <2>1, <2>5 DEF Created, MissingEntries, Uploaded, ApiError, Fails, Enters
    <3>3. CallOf(c)' = "none"
      BY <3>2, CallOfNextPhase DEF CallsFitPhases
    <3> QED
      BY <1>3, <2>3, <3>1, <3>3, LogSteps
  <2> QED
    BY <1>5, <2>4, <2>5 DEF Return
<1>6. CASE StartOver(c) \/ GiveUp(c)
  <2>1. UNCHANGED wire /\ phase[c] = "error" /\ phase'[c] \in {"create", "gave_up"}
        /\ \A d \in Clients \ {c} : phase'[d] = phase[d]
    BY <1>1, <1>6 DEF StartOver, GiveUp, Enters, network
  <2>2. CallOf(c) = "none" /\ CallOf(c)' = "none"
    BY <2>1, CallOfPhase, CallOfNextPhase DEF CallsFitPhases
  <2>3. Calls' = [Calls EXCEPT ![c] = CallOf(c)']
    BY <2>1, OneCallMoves
  <2> QED
    BY <1>3, <2>2, <2>3, LogSteps
<1> QED
  BY <1>4, <1>5, <1>6

\* Whatever the server answers to the rest leaves the log and the calls alone.
LEMMA HandleStepSimulates ==
  ASSUME IInv, IInv', NEW c \in Clients, HandleCreate(c) \/ HandleUpload(c)
  PROVE  [Log!Next]_Log!vars
<1>1. /\ wire \in [Clients -> Wires] /\ wire[c] \in Requests
      /\ phase[c] \in {"create", "upload"} /\ UNCHANGED phase
  BY WireKinds DEF IInv, TypeOK, Wires, WireOK, HandleCreate, HandleUpload, Accept, Handles,
         Refuse, Answer
<1>2. CallOf(c) = "none" /\ CallOf(c)' = "none"
  BY <1>1, CallOfPhase, CallOfNextPhase DEF CallsFitPhases
<1>3. \A d \in Clients \ {c} : wire'[d] = wire[d]
  BY <1>1 DEF HandleCreate, HandleUpload, Accept, Refuse, Answer
<1>4. Calls' = [Calls EXCEPT ![c] = CallOf(c)']
  BY <1>1, <1>3, OneCallMoves
<1>5. UNCHANGED Revisions
  <2> DEFINE new == NewWithMetadata(TheProject, ThePackage, NoneDisabled)
  <2>1. new.revisions = << >>
    BY DEF NewWithMetadata
  <2> HIDE DEF new
  <2>2. CASE package' = WithMetadata
    BY <2>1, <2>2 DEF WithMetadata, Revisions, new
  <2>3. CASE HandleUpload(c)
    <3> DEFINE written == Written(wire[c].file)
    <3>1. \/ UNCHANGED package
          \/ package' = WithMetadata
          \/ /\ package # NoPackage
             /\ package' = [package EXCEPT !.files = @ \cup {written}]
      BY <2>3 DEF HandleUpload, Refuse, PutFile
    <3>2. written \in FileKeys
      BY <1>1, <2>3, ListedFiles, GeneratedFiles DEF HandleUpload, Handles, Requests
    <3> HIDE DEF written
    <3>3. ASSUME package # NoPackage
          PROVE  LET after == [package EXCEPT !.files = @ \cup {written}]
                 IN  after # NoPackage /\ after.revisions = package.revisions
      <4>1. package \in Package
        BY <3>3 DEF IInv, TypeOK
      <4> DEFINE files == package.files \cup {written}
      <4>2. files \in SUBSET FileKeys
        BY <3>2, <4>1 DEF Package
      <4> HIDE DEF files
      <4>3. [package EXCEPT !.files = files] \in Package
        BY <4>1, <4>2 DEF Package
      <4>4. [package EXCEPT !.files = files].revisions = package.revisions
        BY <4>1 DEF Package
      <4> QED
        BY <4>3, <4>4, CommitAssumption DEF files
    <3> QED
      BY <2>2, <3>1, <3>3 DEF Revisions
  <2> QED
    BY <2>2, <2>3 DEF HandleCreate
<1> QED
  BY <1>2, <1>4, <1>5, LogSteps DEF LogOf

\* A commit that makes a revision takes effect when it is handled; one that is
\* refused, or finds files missing, is over.
LEMMA HandleCommitSimulates ==
  ASSUME IInv, IInv', NEW c \in Clients, HandleCommit(c)
  PROVE  [Log!Next]_Log!vars
<1>1. /\ wire \in [Clients -> Wires] /\ wire[c] \in Requests
      /\ phase[c] = "commit" /\ UNCHANGED phase
  BY WireKinds DEF IInv, TypeOK, Wires, WireOK, HandleCommit, Handles, Refuse, Answer
<1>2. CallOf(c) = "called"
  BY <1>1, CallOfPhase DEF CallsFitPhases
<1>3. ASSUME NEW answer, Answer(c, answer)
      PROVE  /\ wire'[c] = answer /\ Calls' = [Calls EXCEPT ![c] = CallOf(c)']
             /\ answer \in Answers => CallOf(c)' = IF answer.code = "ok" THEN "done" ELSE "none"
  <2>1. wire'[c] = answer /\ \A d \in Clients \ {c} : wire'[d] = wire[d]
    BY <1>1, <1>3 DEF Answer
  <2> QED
    BY <1>1, <2>1, OneCallMoves, CallOfNextPhase DEF CallsFitPhases
<1>4. ASSUME NEW answer \in Answers, answer.code # "ok", Answer(c, answer), UNCHANGED package
      PROVE  [Log!Next]_Log!vars
  <2>1. UNCHANGED LogOf
    BY <1>4 DEF LogOf, Revisions
  <2> QED
    BY <1>2, <1>3, <1>4, <2>1, LogSteps
<1>5. ASSUME NEW code \in {"unknown_package", "bad_request"}, Refuse(c, code)
      PROVE  [Log!Next]_Log!vars
  <2> DEFINE answer == [op |-> wire[c].op, code |-> code]
  <2>1. answer \in Answers /\ answer.code # "ok"
    BY <1>1, WireKinds DEF Answers
  <2>2. Answer(c, answer) /\ UNCHANGED package
    BY <1>5 DEF Refuse
  <2> HIDE DEF answer
  <2> QED
    BY <1>4, <2>1, <2>2
<1>6. ASSUME Answer(c, [op |-> "commit", code |-> "missing",
                        entries |-> {FileList[c][i] : i \in Missing(package, FileList[c])}]),
             UNCHANGED package
      PROVE  [Log!Next]_Log!vars
  <2> DEFINE entries == {FileList[c][i] : i \in Missing(package, FileList[c])}
             answer == [op |-> "commit", code |-> "missing", entries |-> entries]
  <2>1. entries \subseteq Listed
    BY ListedFiles DEF Missing
  <2>2. Answer(c, answer)
    BY <1>6
  <2> HIDE DEF entries
  <2>3. answer \in Answers /\ answer.code # "ok"
    BY <2>1 DEF Answers
  <2> HIDE DEF answer
  <2> QED
    BY <1>4, <1>6, <2>2, <2>3
<1>7. ASSUME package # NoPackage, Missing(package, FileList[c]) = {},
             package' = NewRevision(c), Answer(c, [op |-> "commit", code |-> "ok"])
      PROVE  [Log!Next]_Log!vars
  <2> DEFINE answer == [op |-> "commit", code |-> "ok"]
             entries == CommitEntries(FileList[c])
             digest == <<c, made[c] + 1>>
             rev == [vrev |-> package.latestVrevs[NoVersion] + 1, version |-> NoVersion,
                     srcmd5 |-> digest, linkinfo |-> InheritedLinkInfo(package, entries),
                     entries |-> entries]
  <2>1. answer \in Answers /\ answer.code = "ok"
    BY DEF Answers
  <2>2. Answer(c, answer)
    BY <1>7
  <2> HIDE DEF answer
  <2>3. CallOf(c)' = "done" /\ Calls' = [Calls EXCEPT ![c] = CallOf(c)']
    BY <1>3, <2>1, <2>2
  <2>4. Good(package') /\ package \in Package
    BY <1>1, <1>7, NewRevisionGood DEF IInv, PackageOK, Good
  <2>5. package' \in Package /\ package' # NoPackage
    BY <2>4, CommitAssumption DEF Good
  <2>6. EntriesStored(package, entries)
    BY <1>7 DEF Missing, CommitEntries, EntriesStored
  <2>7. package'.revisions = Append(package.revisions, rev)
    BY <1>7, <2>4, <2>6 DEF NewRevision, AddRevision, Package
  <2>8. package.revisions \in Seq(Revision) /\ rev.entries = entries
    BY <2>4 DEF Package
  <2>9. rev \in Revision
    <3>1. package'.revisions \in Seq(Revision)
      BY <2>5 DEF Package
    <3> HIDE DEF rev
    <3>2. package'.revisions[Len(package.revisions) + 1] = rev
          /\ Len(package.revisions) + 1 \in DOMAIN package'.revisions
      BY <2>7, <2>8
    <3> QED
      BY <3>1, <3>2
  <2> HIDE DEF rev
  <2>10. LogOf' = Append(LogOf, entries)
    BY <1>7, <2>5, <2>7, <2>8, <2>9, EntriesOfRevisions DEF LogOf, Revisions
  <2>11. entries = WholeList(c)
    BY StoresWholeList
  <2> HIDE DEF entries
  <2> QED
    BY <1>2, <2>3, <2>10, <2>11, LogSteps
<1> QED
  BY <1>5, <1>6, <1>7 DEF HandleCommit, CommitError

\* What goes wrong: a call is lost, before or after it took effect, or the log is.
LEMMA FaultSimulates ==
  ASSUME IInv, IInv', Delete \/ \E c \in Clients : ConnectionFails(c)
  PROVE  [Log!Next]_Log!vars
<1>1. CASE Delete
  <2>1. UNCHANGED <<phase, wire>> /\ package' = NoPackage
    BY <1>1 DEF Delete
  <2>2. LogOf' = << >>
    BY <2>1, EntriesOfRevisions DEF LogOf, Revisions
  <2>3. UNCHANGED Calls
    BY <2>1 DEF Calls, CallOf, Answered, Handles
  <2>4. Log!Delete
    BY <2>2, <2>3 DEF Log!Delete, LogOf, Entries, Calls
  <2> QED
    BY <2>4 DEF Log!Next
<1>2. ASSUME NEW c \in Clients, ConnectionFails(c)
      PROVE  [Log!Next]_Log!vars
  <2>1. /\ wire \in [Clients -> Wires] /\ phase \in [Clients -> Phases]
        /\ wire[c] # Nothing /\ phase[c] = wire[c].op
    BY <1>2 DEF IInv, TypeOK, Phases, Wires, WireOK, ConnectionFails
  <2>2. /\ wire'[c] = Nothing /\ phase'[c] = "error" /\ UNCHANGED package
        /\ \A d \in Clients \ {c} : wire'[d] = wire[d] /\ phase'[d] = phase[d]
    BY <1>2, <2>1 DEF ConnectionFails, Fails, Enters
  <2>3. CallOf(c)' = "none" /\ Calls' = [Calls EXCEPT ![c] = CallOf(c)']
    BY <2>2, CallOfNextPhase, OneCallMoves DEF CallsFitPhases
  <2>4. CallOf(c) \in {"none", "called", "done"}
    BY <2>1, WireKinds DEF CallOf, Wires
  <2>5. UNCHANGED LogOf
    BY <2>2 DEF LogOf, Revisions
  <2> QED
    BY <2>3, <2>4, <2>5, LogSteps
<1> QED
  BY <1>1, <1>2

\* Before any client calls the log is empty, and every step is one of the log
\* or changes nothing of it.
LEMMA InitSimulates == IInv /\ Init => Log!Init
<1> SUFFICES ASSUME IInv, Init PROVE Log!Init
  OBVIOUS
<1>1. \A c \in Clients : CallOf(c) = "none"
  BY CallOfPhase DEF CallsFitPhases, Init
<1>2. LogOf = << >>
  BY EntriesOfRevisions DEF LogOf, Revisions, Init
<1> QED
  BY <1>1, <1>2 DEF Log!Init, LogOf, Entries

\* Every step is one of RevisionLog, or none.
LEMMA NextSimulates == IInv /\ IInv' /\ [Next]_vars => [Log!Next]_Log!vars
<1> SUFFICES ASSUME IInv, IInv', [Next]_vars PROVE [Log!Next]_Log!vars
  OBVIOUS
<1>1. CASE UNCHANGED vars
  <2>1. UNCHANGED LogOf /\ UNCHANGED Calls
    BY <1>1 DEF vars, network, LogOf, Revisions, Calls, CallOf, Answered, Handles
  <2> QED
    BY <2>1 DEF Log!vars, LogOf, Entries, Calls
<1>2. CASE Next
  BY <1>2, ClientStepSimulates, HandleStepSimulates, HandleCommitSimulates, FaultSimulates
     DEF Next, Handle
<1> QED
  BY <1>1, <1>2

\* CommitsAreAtomic: the commits of any clients, however their requests and the
\* failures mix, are those of a log of whole lists, of which each takes effect at
\* one moment or not at all.
THEOREM ImplementsTheLog == Spec => CommitsAreAtomic
<1>1. IInv /\ Init => Log!Init
  BY InitSimulates
<1>2. IInv /\ IInv' /\ [Next]_vars => [Log!Next]_Log!vars
  BY NextSimulates
<1> QED
  BY <1>1, <1>2, Invariance, PTL DEF Spec, CommitsAreAtomic, Log!Spec
=============================================================================
