--------------------------- MODULE FileUploadProofs ----------------------------
(***************************************************************************)
(* Proofs about FileUpload, for every number of requests, of days of a     *)
(* level and of transcriptions at a time.                                  *)
(***************************************************************************)
EXTENDS FileUpload, SequenceTheorems, FiniteSetTheorems, WellFoundedInduction, TLAPS

Ended == {"ok", "refused", "failed"}

\* The calls every operation consists of, and the names it is about.
StepsOf(op) ==
  CASE op \in {"insert", "deleteObject"}    -> {"find", "download", "save", "remove", "upload"}
    [] op = "read"                          -> {"find", "download"}
    [] op \in {"deleteFile", "deleteAudio"} -> {"find", "remove"}
    [] op = "upload"                        -> {"upload"}
    [] op = "combine" -> {"search", "fetch", "fetchDownload", "save", "remove", "upload"}
    [] op = "compare" -> {"wait", "transcribe"}
    [] OTHER -> {}

KeysOf(op) ==
  CASE op \in {"insert", "deleteObject", "deleteFile", "read"} -> {Document}
    [] op = "upload"      -> {"wav", "mp3"} \X Days
    [] op = "deleteAudio" -> Keys \ {Document}
    [] op = "combine"     -> {Combined}
    [] OTHER              -> {None}

\* A request that runs is at a step of its operation.
AtStep(q) ==
  /\ q.step \in StepsOf(q.op)
  /\ q.key \in KeysOf(q.op)
  /\ q.content \subseteq (IF q.op = "combine" THEN Days \X Requests ELSE Requests)
  /\ q.step \in {"download", "remove", "fetchDownload"} => q.found # None
  /\ q.step \in {"fetch", "fetchDownload"} => q.keys # {}

Sound(q) == q = Blank \/ q.step \in Ended \/ AtStep(q)

RequestsSound == \A r \in Requests : Sound(requests[r])

\* A version is the last thing its request did.
UploadsAnswered ==
  \A key \in Keys : \A i \in DOMAIN files[key] : requests[files[key][i].by].step = "ok"

PlacesCounted == IsFiniteSet(Transcribing) /\ inFlight = Cardinality(Transcribing)

HasPart(content, d) == \E part \in content : part[1] = d

\* What a combination knows so far: its parts and the days it goes on with
\* leave out no lasting day.
OnTrack(r) ==
  LET q == requests[r]
  IN  q.op = "combine" /\ IsRunning(r) =>
        /\ q.content \subseteq current[r]
        /\ q.step = "search" => \A d \in lasting[r] : d < q.day => d \in q.keys
        /\ q.step \in {"fetch", "fetchDownload"} =>
             \A d \in lasting[r] : d \in q.keys \/ HasPart(q.content, d)
        /\ q.step = "fetchDownload" => <<NextDay(q), q.found>> \in current[r]
        /\ q.step \in {"save", "remove", "upload"} =>
             \A d \in lasting[r] : HasPart(q.content, d)

CombinationsOnTrack == \A r \in Requests : OnTrack(r)

CombinedVersions ==
  \A v \in Versions(Combined) :
    /\ \A d \in lasting[v.by] : HasPart(v.content, d)
    /\ v.content \subseteq current[v.by]

On(r, key) == IsRunning(r) /\ requests[r].key = key

\* On an undisturbed name there is one version at most, and only the one
\* request that may change it has taken it away to upload the next.
Alone(key) ==
  \A q, r \in Requests :
    q # r /\ On(q, key) /\ On(r, key) => requests[q].op = "read" /\ requests[r].op = "read"

InTurn(key) ==
  /\ Alone(key)
  /\ Len(files[key]) <= 1
  /\ \A r \in Requests : On(r, key) =>
       /\ requests[r].step \in {"download", "remove"} =>
            files[key] # <<>> /\ files[key][1].by = requests[r].found
       /\ requests[r].step = "upload" => files[key] = <<>>

Undisturbed == \A key \in {Document, Combined} : key \notin disturbed => InTurn(key)

Held == UNION {v.content : v \in Versions(Document)}

Edits(r) ==
  /\ On(r, Document)
  /\ requests[r].op \in {"insert", "deleteObject"}
  /\ requests[r].step \in {"save", "remove", "upload"}

\* What an edit is about to save.
Edited(r) == IF requests[r].op = "insert" THEN promised \cup {r}
             ELSE promised \ {requests[r].object}

Promising ==
  /\ \A r \in Requests : Edits(r) => requests[r].content = Edited(r)
  /\ (\A r \in Requests : On(r, Document) => requests[r].step # "upload") => promised = Held

DocumentKept == Document \notin disturbed => Promising

IInv ==
  /\ TypeOK
  /\ RequestsSound
  /\ UploadsAnswered
  /\ PlacesCounted
  /\ CombinationsOnTrack
  /\ CombinedVersions
  /\ Undisturbed
  /\ DocumentKept

-----------------------------------------------------------------------------
(* Names and steps.                                                        *)

LEMMA Names ==
  /\ Document # Combined /\ Document \in Keys /\ Combined \in Keys
  /\ None \notin Keys /\ None \notin Requests
  /\ \A key \in {"wav", "mp3"} \X Days : key \in Keys \ {Document, Combined}
BY FileUploadAssumption DEF Document, Combined, Keys

LEMMA RecordingNames == \A d \in Days : Recording(d) \in Keys \ {Document, Combined}
BY Names DEF Recording

\* At which operations and names a request at a step can be.
LEMMA StepFacts ==
  ASSUME NEW q \in Request, Sound(q), q.step \notin Ended \cup {"new"}
  PROVE  /\ AtStep(q)
         /\ q.step = "find" => q.op \in {"insert", "deleteObject", "read", "deleteFile", "deleteAudio"}
         /\ q.step = "download" => q.op \in {"insert", "deleteObject", "read"}
         /\ q.step = "save" => q.op \in {"insert", "deleteObject", "combine"}
         /\ q.step = "remove" =>
              q.op \in {"insert", "deleteObject", "combine", "deleteFile", "deleteAudio"}
         /\ q.step = "upload" => q.op \in {"insert", "deleteObject", "combine", "upload"}
         /\ q.step \in {"search", "fetch", "fetchDownload"} => q.op = "combine"
         /\ q.step \in {"wait", "transcribe"} => q.op = "compare"
BY DEF Sound, Blank, AtStep, StepsOf, Ended

LEMMA KeyFacts ==
  ASSUME NEW q \in Request, AtStep(q)
  PROVE  /\ q.op \in {"insert", "deleteObject", "deleteFile", "read"} <=> q.key = Document
         /\ q.op = "combine" => q.key = Combined
         /\ q.key = Combined => q.op \in {"combine", "deleteAudio"}
         /\ q.op = "compare" <=> q.key = None
         /\ q.key # None => q.key \in Keys
<1>1. q.op \in {"insert", "deleteObject", "deleteFile", "read", "upload", "deleteAudio",
               "combine", "compare"}
  BY DEF AtStep, StepsOf
<1>2. CASE q.op \in {"insert", "deleteObject", "deleteFile", "read"}
  <2>1. q.key = Document
    BY <1>2 DEF AtStep, KeysOf
  <2> QED
    BY <1>2, <2>1, Names
<1>3. CASE q.op = "upload"
  <2>1. q.key \in {"wav", "mp3"} \X Days
    BY <1>3 DEF AtStep, KeysOf
  <2> QED
    BY <1>3, <2>1, Names
<1>4. CASE q.op = "deleteAudio"
  <2>1. q.key \in Keys \ {Document}
    BY <1>4 DEF AtStep, KeysOf
  <2> QED
    BY <1>4, <2>1, Names
<1>5. CASE q.op = "combine"
  <2>1. q.key = Combined
    BY <1>5 DEF AtStep, KeysOf
  <2> QED
    BY <1>5, <2>1, Names
<1>6. CASE q.op = "compare"
  <2>1. q.key = None
    BY <1>6 DEF AtStep, KeysOf
  <2> QED
    BY <1>6, <2>1, Names
<1> QED
  BY <1>1, <1>2, <1>3, <1>4, <1>5, <1>6

-----------------------------------------------------------------------------
(* The steps of a request.                                                 *)

\* Only r goes on, and is at a step of its operation afterwards.
RequestStep(r) ==
  /\ requests' \in [Requests -> Request]
  /\ \A q \in Requests \ {r} : requests'[q] = requests[q]
  /\ Sound(requests'[r])

Arrives(r) ==
  /\ requests[r] = Blank
  /\ UNCHANGED files
  /\ LET q == requests'[r]
     IN  /\ AtStep(q)
         /\ q.step \in {"find", "upload", "search"}
         /\ q.step = "upload" <=> q.op = "upload"
         /\ q.step = "search" <=> q.op = "combine"
         /\ q.content = {} /\ q.day = 1
         /\ disturbed' = IF q.key \in {Document, Combined} /\ Overlapping(r, q.op, q.key)
                         THEN disturbed \cup {q.key} ELSE disturbed

LEMMA BlankType == Blank \in Request
BY FileUploadAssumption DEF Blank, Request

LEMMA ArriveStep ==
  ASSUME TypeOK, NEW r \in Requests, NEW op, NEW key, NEW step, Arrive(r, op, key, step),
         step \in StepsOf(op), key \in KeysOf(op), key \in Keys,
         step \in {"find", "upload", "search"},
         step = "upload" <=> op = "upload", step = "search" <=> op = "combine"
  PROVE  RequestStep(r) /\ Arrives(r)
<1>1. op \in {"insert", "deleteObject", "deleteFile", "read", "upload", "deleteAudio", "combine",
              "compare"}
  BY DEF StepsOf
<1>2. /\ requests[r] = Blank /\ UNCHANGED files
      /\ requests' = [requests EXCEPT ![r].op = op, ![r].key = key, ![r].step = step]
  BY DEF Arrive
<1>3. requests'[r] = [Blank EXCEPT !.op = op, !.key = key, !.step = step]
  BY <1>2 DEF TypeOK
<1>4. \A q \in Requests \ {r} : requests'[q] = requests[q]
  BY <1>2 DEF TypeOK
<1>5. requests'[r] \in Request
  BY <1>1, <1>3, BlankType DEF Request
<1>6. requests' \in [Requests -> Request]
  BY <1>2, <1>4, <1>5 DEF TypeOK
<1>7. /\ requests'[r].op = op /\ requests'[r].key = key /\ requests'[r].step = step
      /\ requests'[r].content = {} /\ requests'[r].day = 1
  BY <1>3 DEF Blank
<1>8. AtStep(requests'[r])
  BY <1>7 DEF AtStep
<1>9. Arrives(r)
  BY <1>2, <1>7, <1>8 DEF Arrives, Arrive
<1> QED
  BY <1>4, <1>6, <1>8, <1>9 DEF RequestStep, Sound

LEMMA ArrivalStep ==
  ASSUME TypeOK, NEW r \in Requests, Arrival(r)
  PROVE  RequestStep(r) /\ Arrives(r)
<1>1. CASE insertIntoJsonDataArray(r)
  BY <1>1, ArriveStep, Names DEF insertIntoJsonDataArray, StepsOf, KeysOf
<1>2. ASSUME NEW o \in Requests, deleteFromJsonDataArray(r, o)
      PROVE  RequestStep(r) /\ Arrives(r)
  <2>1. /\ requests[r] = Blank /\ UNCHANGED files
        /\ requests' = [requests EXCEPT ![r].op = "deleteObject", ![r].key = Document,
                                        ![r].step = "find", ![r].object = o]
    BY <1>2 DEF deleteFromJsonDataArray
  <2>2. requests'[r] =
          [Blank EXCEPT !.op = "deleteObject", !.key = Document, !.step = "find", !.object = o]
    BY <2>1 DEF TypeOK
  <2>3. \A q \in Requests \ {r} : requests'[q] = requests[q]
    BY <2>1 DEF TypeOK
  <2>4. requests'[r] \in Request
    BY <2>2, BlankType, Names DEF Request
  <2>5. requests' \in [Requests -> Request]
    BY <2>1, <2>3, <2>4 DEF TypeOK
  <2>6. /\ requests'[r].op = "deleteObject" /\ requests'[r].key = Document
        /\ requests'[r].step = "find" /\ requests'[r].content = {} /\ requests'[r].day = 1
    BY <2>2 DEF Blank
  <2>7. AtStep(requests'[r])
    BY <2>6 DEF AtStep, StepsOf, KeysOf
  <2>8. Arrives(r)
    BY <1>2, <2>1, <2>6, <2>7 DEF Arrives, deleteFromJsonDataArray
  <2> QED
    BY <2>3, <2>5, <2>7, <2>8 DEF RequestStep, Sound
<1>3. CASE deleteFile(r)
  BY <1>3, ArriveStep, Names DEF deleteFile, StepsOf, KeysOf
<1>4. CASE getContentByName(r)
  BY <1>4, ArriveStep, Names DEF getContentByName, StepsOf, KeysOf
<1>5. ASSUME NEW d \in Days, NEW format \in {"wav", "mp3"}, uploadUserAudio(r, d, format)
      PROVE  RequestStep(r) /\ Arrives(r)
  <2>1. <<format, d>> \in {"wav", "mp3"} \X Days
    OBVIOUS
  <2>2. <<format, d>> \in Keys /\ <<format, d>> \in KeysOf("upload")
    BY <2>1, Names DEF KeysOf
  <2>3. Arrive(r, "upload", <<format, d>>, "upload")
    BY <1>5 DEF uploadUserAudio
  <2> HIDE DEF Arrive
  <2> QED
    BY <2>2, <2>3, ArriveStep DEF StepsOf
<1>6. ASSUME NEW key \in Keys \ {Document}, deleteUserAudio(r, key)
      PROVE  RequestStep(r) /\ Arrives(r)
  BY <1>6, ArriveStep, Names DEF deleteUserAudio, StepsOf, KeysOf
<1>7. CASE combineUserLevelAudios(r)
  BY <1>7, ArriveStep, Names DEF combineUserLevelAudios, StepsOf, KeysOf
<1> QED
  BY <1>1, <1>2, <1>3, <1>4, <1>5, <1>6, <1>7 DEF Arrival

LEMMA AnsweredStep ==
  ASSUME TypeOK, NEW r \in Requests, NEW outcome \in Ended, requests' = Answered(r, outcome)
  PROVE  RequestStep(r) /\ requests'[r] = [Blank EXCEPT !.step = outcome]
                        /\ requests'[r].step = outcome
<1>1. requests'[r] = [Blank EXCEPT !.step = outcome]
  BY DEF Answered, TypeOK
<1>2. \A q \in Requests \ {r} : requests'[q] = requests[q]
  BY DEF Answered, TypeOK
<1>3. requests'[r] \in Request /\ requests'[r].step = outcome
  <2>1. requests'[r].step = outcome
    BY <1>1 DEF Blank
  <2>2. requests'[r] \in Request
    BY <1>1, BlankType DEF Request, Ended
  <2> QED
    BY <2>1, <2>2
<1>4. requests' \in [Requests -> Request]
  BY <1>2, <1>3 DEF Answered, TypeOK
<1> QED
  BY <1>1, <1>2, <1>3, <1>4 DEF RequestStep, Sound

\* A request that only changes its own record.
LEMMA GoesOn ==
  ASSUME TypeOK, NEW r \in Requests, NEW q, AtStep(q), q \in Request,
         requests' = [requests EXCEPT ![r] = q]
  PROVE  RequestStep(r) /\ requests'[r] = q
<1>1. requests'[r] = q /\ \A p \in Requests \ {r} : requests'[p] = requests[p]
  BY DEF TypeOK
<1>2. requests' \in [Requests -> Request]
  BY <1>1 DEF TypeOK
<1> QED
  BY <1>1, <1>2 DEF RequestStep, Sound

\* What an operation does once it has the objects of the document.
HasObjects(r, objects) ==
  LET p == requests[r]
      q == requests'[r]
  IN  \/ /\ p.op = "insert" /\ q.op = "insert"
         /\ q.step = "save" /\ q.key = p.key
         /\ q.content = objects \cup {r}
      \/ /\ p.op = "deleteObject" /\ q.op = "deleteObject"
         /\ q.step = "save" /\ q.key = p.key
         /\ q.content = objects \ {q.object} /\ q.object = p.object
      \/ /\ p.op = "deleteObject" /\ p.object \notin objects
         /\ q.step = "refused"
      \/ /\ p.op = "read"
         /\ q.step = "ok" /\ q.content = objects

LEMMA WithObjectsStep ==
  ASSUME TypeOK, NEW r \in Requests, AtStep(requests[r]),
         requests[r].op \in {"insert", "deleteObject", "read"},
         NEW objects \in SUBSET Requests, requests' = WithObjects(r, objects)
  PROVE  RequestStep(r) /\ HasObjects(r, objects)
<1> DEFINE p == requests[r]
<1>1. p \in Request
  BY DEF TypeOK
<1>2. CASE p.op = "insert"
  <2> DEFINE q == [p EXCEPT !.content = objects \cup {r}, !.step = "save", !.found = None]
  <2>1. requests' = [requests EXCEPT ![r] = q]
    BY <1>2 DEF WithObjects
  <2>2. /\ q.op = "insert" /\ q.step = "save" /\ q.key = p.key /\ q.content = objects \cup {r}
        /\ q \in Request
    BY <1>1, <1>2 DEF Request
  <2>3. AtStep(q)
    BY <1>2, <2>2 DEF AtStep, StepsOf, KeysOf
  <2> HIDE DEF q
  <2>4. RequestStep(r) /\ requests'[r] = q
    BY <2>1, <2>2, <2>3, GoesOn
  <2> QED
    BY <1>2, <2>2, <2>4 DEF HasObjects
<1>3. CASE p.op = "deleteObject" /\ p.object \in objects
  <2> DEFINE q == [p EXCEPT !.content = objects \ {p.object}, !.step = "save", !.found = None]
  <2>1. requests' = [requests EXCEPT ![r] = q]
    BY <1>3 DEF WithObjects
  <2>2. /\ q.op = "deleteObject" /\ q.step = "save" /\ q.key = p.key
        /\ q.content = objects \ {q.object} /\ q.object = p.object
        /\ q \in Request
    BY <1>1, <1>3 DEF Request
  <2>3. AtStep(q)
    BY <1>3, <2>2 DEF AtStep, StepsOf, KeysOf
  <2> HIDE DEF q
  <2>4. RequestStep(r) /\ requests'[r] = q
    BY <2>1, <2>2, <2>3, GoesOn
  <2> QED
    BY <1>3, <2>2, <2>4 DEF HasObjects
<1>4. CASE p.op = "deleteObject" /\ p.object \notin objects
  <2>1. requests' = Answered(r, "refused")
    BY <1>4 DEF WithObjects
  <2>2. RequestStep(r) /\ requests'[r].step = "refused"
    BY <2>1, AnsweredStep DEF Ended
  <2> QED
    BY <1>4, <2>2 DEF HasObjects
<1>5. CASE p.op = "read"
  <2> DEFINE q == [Blank EXCEPT !.step = "ok", !.op = "read", !.content = objects]
  <2>1. requests' = [requests EXCEPT ![r] = q]
    BY <1>5 DEF WithObjects
  <2>2. q.step = "ok" /\ q.content = objects
    BY DEF Blank
  <2>3. q \in Request
    BY BlankType DEF Request
  <2> HIDE DEF q
  <2>4. requests'[r] = q /\ \A o \in Requests \ {r} : requests'[o] = requests[o]
    BY <2>1 DEF TypeOK
  <2>5. requests' \in [Requests -> Request]
    BY <2>1, <2>3 DEF TypeOK
  <2> QED
    BY <1>5, <2>2, <2>4, <2>5 DEF HasObjects, RequestStep, Sound, Ended
<1> QED
  BY <1>2, <1>3, <1>4, <1>5

-----------------------------------------------------------------------------
(* Versions.                                                               *)

LEMMA FilesType ==
  ASSUME TypeOK, NEW key \in Keys
  PROVE  /\ files[key] \in Seq(Version)
         /\ Len(files[key]) \in Nat
         /\ DOMAIN files[key] = 1 .. Len(files[key])
         /\ \A i \in DOMAIN files[key] :
              /\ files[key][i] \in Version
              /\ files[key][i].by \in Requests
              /\ files[key][i].content \subseteq
                   (IF key = Combined THEN Days \X Requests ELSE Requests)
<1>1. files[key] \in Seq(Version)
  BY DEF TypeOK
<1>2. /\ Len(files[key]) \in Nat
      /\ DOMAIN files[key] = 1 .. Len(files[key])
      /\ \A i \in DOMAIN files[key] : files[key][i] \in Version
  BY <1>1
<1>3. \A i \in DOMAIN files[key] : files[key][i] \in Versions(key)
  BY DEF Versions, ToSet
<1> QED
  BY <1>1, <1>2, <1>3 DEF Version, TypeOK

LEMMA LatestFacts ==
  ASSUME TypeOK, NEW key \in Keys
  PROVE  /\ Latest(key) = None <=> files[key] = <<>>
         /\ files[key] # <<>> =>
              /\ Len(files[key]) \in DOMAIN files[key]
              /\ Latest(key) = files[key][Len(files[key])].by
              /\ Latest(key) \in Requests
<1>1. files[key] # <<>> => Len(files[key]) \in 1 .. Len(files[key])
  <2>1. files[key] \in Seq(Version) /\ Len(files[key]) \in Nat
    BY FilesType
  <2> QED
    BY <2>1, EmptySeq
<1>2. DOMAIN files[key] = 1 .. Len(files[key])
  BY FilesType
<1>3. CASE files[key] # <<>>
  <2>1. Latest(key) = files[key][Len(files[key])].by
    BY <1>3 DEF Latest, Last
  <2>2. Latest(key) \in Requests
    BY <1>1, <1>2, <1>3, <2>1, FilesType
  <2> QED
    BY <1>1, <1>2, <1>3, <2>1, <2>2, Names
<1>4. CASE files[key] = <<>>
  BY <1>4 DEF Latest
<1> QED
  BY <1>3, <1>4

\* Of what is stored, the content is the content of a version.
LEMMA StoredContent ==
  ASSUME TypeOK, NEW key \in Keys, NEW id, IsStored(key, id)
  PROVE  \E i \in DOMAIN files[key] :
           files[key][i].by = id /\ ContentOf(key, id) = files[key][i].content
<1>1. PICK v \in Versions(key) : v.by = id
  BY DEF IsStored
<1>2. /\ (CHOOSE w \in Versions(key) : w.by = id) \in Versions(key)
      /\ (CHOOSE w \in Versions(key) : w.by = id).by = id
  BY <1>1
<1> QED
  BY <1>2 DEF ContentOf, Versions, ToSet

-----------------------------------------------------------------------------
(* The calls of a request.                                                 *)

LEMMA Running ==
  ASSUME TypeOK, RequestsSound, NEW r \in Requests, requests[r].step \notin Ended \cup {"new"}
  PROVE  /\ requests[r] \in Request /\ AtStep(requests[r])
         /\ IsRunning(r) /\ requests[r] # Blank
<1>1. requests[r] \in Request /\ Sound(requests[r])
  BY DEF TypeOK, RequestsSound
<1>2. AtStep(requests[r])
  BY <1>1, StepFacts
<1> QED
  BY <1>1, <1>2 DEF IsRunning, Blank, Ended

\* The operation, its name and its object stay the same.
SameOperation(p, q) == q.op = p.op /\ q.key = p.key /\ q.object = p.object

LEMMA FindDocumentStep ==
  ASSUME TypeOK, RequestsSound, NEW r \in Requests, FindDocument(r)
  PROVE  /\ RequestStep(r)
         /\ \/ files[Document] = <<>> /\ HasObjects(r, {})
            \/ /\ files[Document] # <<>>
               /\ SameOperation(requests[r], requests'[r])
               /\ requests'[r].step = "download" /\ requests'[r].found = Latest(Document)
<1> DEFINE p == requests[r]
<1>1. p \in Request /\ AtStep(p) /\ p.op \in {"insert", "deleteObject", "read"}
  BY Running DEF FindDocument, Ended
<1>2. CASE Latest(Document) = None
  <2>1. requests' = WithObjects(r, {})
    BY <1>2 DEF FindDocument
  <2> QED
    BY <1>1, <1>2, <2>1, WithObjectsStep, LatestFacts, Names
<1>3. CASE Latest(Document) # None
  <2> DEFINE q == [p EXCEPT !.found = Latest(Document), !.step = "download"]
  <2>1. Latest(Document) \in Requests /\ files[Document] # <<>>
    BY <1>3, LatestFacts, Names
  <2>2. requests' = [requests EXCEPT ![r] = q]
    BY <1>3 DEF FindDocument
  <2>3. /\ q \in Request /\ SameOperation(p, q) /\ q.content = p.content
        /\ q.step = "download" /\ q.found = Latest(Document)
    BY <1>1, <2>1 DEF Request, SameOperation
  <2>4. AtStep(q)
    BY <1>1, <1>3, <2>3 DEF AtStep, StepsOf, SameOperation
  <2> HIDE DEF q
  <2>5. RequestStep(r) /\ requests'[r] = q
    BY <2>2, <2>3, <2>4, GoesOn
  <2> QED
    BY <2>1, <2>3, <2>5
<1> QED
  BY <1>2, <1>3

LEMMA DownloadDocumentStep ==
  ASSUME TypeOK, RequestsSound, NEW r \in Requests, DownloadDocument(r)
  PROVE  /\ RequestStep(r)
         /\ requests[r].key = Document
         /\ \/ /\ ~ \E i \in DOMAIN files[Document] : files[Document][i].by = requests[r].found
               /\ HasObjects(r, {})
            \/ \E i \in DOMAIN files[Document] :
                 /\ files[Document][i].by = requests[r].found
                 /\ HasObjects(r, files[Document][i].content)
<1> DEFINE p == requests[r]
<1>1. p \in Request /\ AtStep(p) /\ Sound(p)
  BY Running DEF DownloadDocument, Ended, RequestsSound
<1>2. p.op \in {"insert", "deleteObject", "read"}
  BY <1>1, StepFacts DEF DownloadDocument, Ended
<1>3. p.key = Document
  BY <1>1, <1>2, KeyFacts
<1>4. CASE IsStored(Document, p.found)
  <2>1. PICK i \in DOMAIN files[Document] :
          files[Document][i].by = p.found /\ ContentOf(Document, p.found) = files[Document][i].content
    BY <1>4, StoredContent, Names
  <2>2. files[Document][i].content \in SUBSET Requests
    BY FilesType, Names
  <2>3. requests' = WithObjects(r, files[Document][i].content)
    BY <1>4, <2>1 DEF DownloadDocument
  <2> QED
    BY <1>1, <1>2, <1>3, <2>1, <2>2, <2>3, WithObjectsStep
<1>5. CASE ~ IsStored(Document, p.found)
  <2>1. requests' = WithObjects(r, {})
    BY <1>5 DEF DownloadDocument
  <2>2. ~ \E i \in DOMAIN files[Document] : files[Document][i].by = p.found
    BY <1>5 DEF IsStored, Versions, ToSet
  <2> QED
    BY <1>1, <1>2, <1>3, <2>1, <2>2, WithObjectsStep
<1> QED
  BY <1>4, <1>5

LEMMA ReadFailsStep ==
  ASSUME TypeOK, RequestsSound, NEW r \in Requests, ReadFails(r)
  PROVE  RequestStep(r) /\ HasObjects(r, {})
<1>1. /\ requests[r].op \in {"insert", "deleteObject", "read"}
      /\ requests' = WithObjects(r, {})
  BY DEF ReadFails
<1>2. AtStep(requests[r])
  BY Running DEF ReadFails, Ended
<1> QED
  BY <1>1, <1>2, WithObjectsStep

LEMMA SearchDayStep ==
  ASSUME TypeOK, RequestsSound, NEW r \in Requests, SearchDay(r)
  PROVE  LET p == requests[r]
             q == requests'[r]
         IN  /\ RequestStep(r)
             /\ p.op = "combine" /\ p.day \in Days
             /\ SameOperation(p, q)
             /\ q.step = "search" /\ q.content = p.content /\ q.day = p.day + 1
             /\ q.keys = IF files[Recording(p.day)] # <<>> THEN p.keys \cup {p.day} ELSE p.keys
<1> DEFINE p == requests[r]
           found == IF Latest(Recording(p.day)) # None THEN p.keys \cup {p.day} ELSE p.keys
           q == [p EXCEPT !.day = p.day + 1, !.keys = found]
<1>1. p \in Request /\ AtStep(p) /\ Sound(p)
  BY Running DEF SearchDay, Ended, RequestsSound
<1>2. p.op = "combine"
  BY <1>1, StepFacts DEF SearchDay, Ended
<1>3. p.day \in Days
  BY <1>1, FileUploadAssumption DEF SearchDay, SearchIsOver, Request, Days
<1>4. Latest(Recording(p.day)) # None <=> files[Recording(p.day)] # <<>>
  BY <1>3, RecordingNames, LatestFacts
<1>5. requests' = [requests EXCEPT ![r] = q]
  BY DEF SearchDay
<1>6. p.step = "search"
  BY DEF SearchDay
<1>7. /\ q \in Request /\ SameOperation(p, q) /\ q.content = p.content /\ q.step = "search"
      /\ q.day = p.day + 1 /\ q.keys = found
  <2> DEFINE next == p.day + 1
  <2>1. next \in 1 .. TotalDays + 1
    BY <1>3, FileUploadAssumption DEF Days
  <2>2. found \in SUBSET Days
    BY <1>1, <1>3 DEF Request
  <2> HIDE DEF next, found
  <2>3. q = [p EXCEPT !.day = next, !.keys = found]
    BY DEF next, found
  <2>4. q.day = next
    BY <1>1, <2>3 DEF Request
  <2>5. /\ q \in Request /\ SameOperation(p, q) /\ q.content = p.content /\ q.step = "search"
        /\ q.keys = found
    BY <1>1, <1>6, <2>1, <2>2, <2>3 DEF Request, SameOperation
  <2> QED
    BY <2>4, <2>5 DEF next
<1>8. AtStep(q)
  BY <1>1, <1>6, <1>7 DEF AtStep, SameOperation
<1> HIDE DEF q
<1>9. RequestStep(r) /\ requests'[r] = q
  BY <1>5, <1>7, <1>8, GoesOn
<1> QED
  BY <1>2, <1>3, <1>4, <1>7, <1>9

LEMMA EndSearchStep ==
  ASSUME TypeOK, RequestsSound, NEW r \in Requests, EndSearch(r)
  PROVE  LET p == requests[r]
             q == requests'[r]
         IN  /\ RequestStep(r)
             /\ p.op = "combine" /\ p.day > TotalDays
             /\ \/ q.step = "refused"
                \/ /\ SameOperation(p, q)
                   /\ q.step = "fetch" /\ q.content = p.content /\ q.keys = p.keys
<1> DEFINE p == requests[r]
           q == [p EXCEPT !.step = "fetch", !.day = 1]
<1>1. p \in Request /\ AtStep(p) /\ Sound(p) /\ p.step = "search" /\ p.day > TotalDays
  BY Running DEF EndSearch, SearchIsOver, Ended, RequestsSound
<1>2. p.op = "combine"
  BY <1>1, StepFacts DEF Ended
<1>3. CASE p.keys = {}
  <2>1. requests' = Answered(r, "refused")
    BY <1>3 DEF EndSearch
  <2> QED
    BY <1>1, <1>2, <2>1, AnsweredStep DEF Ended
<1>4. CASE p.keys # {}
  <2>1. requests' = [requests EXCEPT ![r] = q]
    BY <1>4 DEF EndSearch
  <2>0. 1 \in 1 .. TotalDays + 1
    BY FileUploadAssumption
  <2>2. /\ q \in Request /\ SameOperation(p, q) /\ q.content = p.content /\ q.keys = p.keys
        /\ q.step = "fetch"
    BY <1>1, <2>0 DEF Request, SameOperation
  <2>3. AtStep(q)
    BY <1>1, <1>2, <1>4, <2>2 DEF AtStep, StepsOf, SameOperation
  <2> HIDE DEF q
  <2>4. RequestStep(r) /\ requests'[r] = q
    BY <2>1, <2>2, <2>3, GoesOn
  <2> QED
    BY <1>1, <1>2, <2>2, <2>4
<1> QED
  BY <1>3, <1>4

\* Every non-empty set of natural numbers has a least element.
LEMMA LeastNumber ==
  ASSUME NEW S \in SUBSET Nat, S # {}
  PROVE  \E n \in S : \A m \in S : n <= m
<1> DEFINE R == {p \in Nat \X Nat : p[1] < p[2]}
<1>1. IsWellFoundedOn(R, Nat)
  BY NatLessThanWellFounded DEF OpToRel
<1>2. \A m, n \in Nat : m < n => <<m, n>> \in R
  OBVIOUS
<1> HIDE DEF R
<1>3. PICK n \in S : \A m \in S : ~ (<<m, n>> \in R)
  BY <1>1, WFMin
<1>4. ASSUME NEW m \in S PROVE n <= m
  <2>1. m \in Nat /\ n \in Nat
    OBVIOUS
  <2>2. ~ (m < n)
    BY <1>2, <1>3, <2>1
  <2> QED
    BY <2>1, <2>2
<1> QED
  BY <1>4

LEMMA NextDayIsOneOfThem ==
  ASSUME NEW q \in Request, q.keys # {}
  PROVE  NextDay(q) \in q.keys /\ NextDay(q) \in Days
<1>1. q.keys \in SUBSET Days
  BY DEF Request
<1>2. q.keys \in SUBSET Nat
  BY <1>1 DEF Days
<1>3. \E n \in q.keys : \A m \in q.keys : n <= m
  BY <1>2, LeastNumber
<1> QED
  BY <1>1, <1>3 DEF NextDay

LEMMA FetchDayStep ==
  ASSUME TypeOK, RequestsSound, NEW r \in Requests, FetchDay(r)
  PROVE  LET p == requests[r]
             q == requests'[r]
         IN  /\ RequestStep(r)
             /\ p.op = "combine"
             /\ \/ q.step = "failed"
                \/ /\ SameOperation(p, q)
                   /\ q.step = "fetchDownload" /\ q.content = p.content /\ q.keys = p.keys
                   /\ NextDay(q) \in Days
                   /\ files[Recording(NextDay(q))] # <<>>
                   /\ q.found = Latest(Recording(NextDay(q)))
<1> DEFINE p == requests[r]
           found == Latest(Recording(NextDay(p)))
           q == [p EXCEPT !.found = found, !.step = "fetchDownload"]
<1>1. p \in Request /\ AtStep(p) /\ Sound(p) /\ p.step = "fetch"
  BY Running DEF FetchDay, Ended, RequestsSound
<1>2. p.op = "combine"
  BY <1>1, StepFacts DEF Ended
<1>3. CASE found = None
  <2>1. requests' = Answered(r, "failed")
    BY <1>3 DEF FetchDay
  <2> QED
    BY <1>2, <2>1, AnsweredStep DEF Ended
<1>4. CASE found # None
  <2>1. requests' = [requests EXCEPT ![r] = q]
    BY <1>4 DEF FetchDay
  <2>2. NextDay(p) \in Days /\ p.keys # {}
    BY <1>1, NextDayIsOneOfThem DEF AtStep
  <2>3. files[Recording(NextDay(p))] # <<>> /\ found \in Requests
    BY <1>4, <2>2, RecordingNames, LatestFacts
  <2>4. /\ q \in Request /\ SameOperation(p, q) /\ q.content = p.content /\ q.keys = p.keys
        /\ q.step = "fetchDownload" /\ q.found = found
    BY <1>1, <2>3 DEF Request, SameOperation
  <2>5. NextDay(q) = NextDay(p)
    BY <2>4 DEF NextDay
  <2>6. AtStep(q)
    BY <1>1, <1>2, <1>4, <2>2, <2>4 DEF AtStep, StepsOf, SameOperation
  <2> HIDE DEF q
  <2>7. RequestStep(r) /\ requests'[r] = q
    BY <2>1, <2>4, <2>6, GoesOn
  <2> QED
    BY <1>2, <2>2, <2>3, <2>4, <2>5, <2>7
<1> QED
  BY <1>3, <1>4

LEMMA DownloadDayStep ==
  ASSUME TypeOK, RequestsSound, NEW r \in Requests, DownloadDay(r)
  PROVE  LET p == requests[r]
             q == requests'[r]
         IN  /\ RequestStep(r)
             /\ p.op = "combine" /\ NextDay(p) \in p.keys /\ NextDay(p) \in Days
             /\ \/ q.step = "failed"
                \/ /\ SameOperation(p, q)
                   /\ q.content = p.content \cup {<<NextDay(p), p.found>>}
                   /\ q.keys = p.keys \ {NextDay(p)}
                   /\ q.step = IF q.keys = {} THEN "save" ELSE "fetch"
<1> DEFINE p == requests[r]
           left == p.keys \ {NextDay(p)}
           q == [p EXCEPT !.content = p.content \cup {<<NextDay(p), p.found>>}, !.found = None,
                          !.keys = left, !.step = IF left = {} THEN "save" ELSE "fetch"]
<1>1. p \in Request /\ AtStep(p) /\ Sound(p) /\ p.step = "fetchDownload"
  BY Running DEF DownloadDay, Ended, RequestsSound
<1>2. p.op = "combine"
  BY <1>1, StepFacts DEF Ended
<1>3. NextDay(p) \in p.keys /\ NextDay(p) \in Days
  BY <1>1, NextDayIsOneOfThem DEF AtStep
<1>4. CASE ~ IsStored(Recording(NextDay(p)), p.found)
  <2>1. requests' = Answered(r, "failed")
    BY <1>4 DEF DownloadDay
  <2> QED
    BY <1>2, <1>3, <2>1, AnsweredStep DEF Ended
<1>5. CASE IsStored(Recording(NextDay(p)), p.found)
  <2>1. requests' = [requests EXCEPT ![r] = q]
    BY <1>5 DEF DownloadDay
  <2>2. p.found \in Requests
    BY <1>1 DEF AtStep, Request
  <2>3. p.content \cup {<<NextDay(p), p.found>>} \in SUBSET (Days \X Requests)
    BY <1>1, <1>2, <1>3, <2>2 DEF AtStep
  <2>4. /\ q \in Request /\ SameOperation(p, q) /\ q.keys = left
        /\ q.content = p.content \cup {<<NextDay(p), p.found>>}
        /\ q.step = IF left = {} THEN "save" ELSE "fetch"
    BY <1>1, <2>3 DEF Request, SameOperation
  <2>5. AtStep(q)
    BY <1>1, <1>2, <2>3, <2>4 DEF AtStep, StepsOf, SameOperation
  <2> HIDE DEF q
  <2>6. RequestStep(r) /\ requests'[r] = q
    BY <2>1, <2>4, <2>5, GoesOn
  <2> QED
    BY <1>2, <1>3, <2>4, <2>6
<1> QED
  BY <1>4, <1>5

LEMMA FindExistingStep ==
  ASSUME TypeOK, RequestsSound, NEW r \in Requests, FindExisting(r)
  PROVE  LET p == requests[r]
             q == requests'[r]
         IN  /\ RequestStep(r)
             /\ AtStep(p) /\ p.op \in {"insert", "deleteObject", "combine"}
             /\ p.key \in Keys
             /\ SameOperation(p, q) /\ q.content = p.content
             /\ \/ files[p.key] = <<>> /\ q.step = "upload"
                \/ files[p.key] # <<>> /\ q.step = "remove" /\ q.found = Latest(p.key)
<1> DEFINE p == requests[r]
           found == Latest(p.key)
           q == [p EXCEPT !.found = found, !.step = IF found = None THEN "upload" ELSE "remove"]
<1>1. p \in Request /\ AtStep(p) /\ Sound(p) /\ p.step = "save"
  BY Running DEF FindExisting, Ended, RequestsSound
<1>2. p.op \in {"insert", "deleteObject", "combine"}
  BY <1>1, StepFacts DEF Ended
<1>3. p.key \in Keys
  BY <1>1, <1>2, KeyFacts, Names
<1>4. /\ found = None <=> files[p.key] = <<>>
      /\ found \in Requests \cup {None}
  BY <1>3, LatestFacts
<1>5. requests' = [requests EXCEPT ![r] = q]
  BY DEF FindExisting
<1>6. /\ q \in Request /\ SameOperation(p, q) /\ q.content = p.content
      /\ q.step = IF found = None THEN "upload" ELSE "remove"
      /\ q.found = found
  BY <1>1, <1>4 DEF Request, SameOperation
<1>7. AtStep(q)
  BY <1>1, <1>2, <1>6 DEF AtStep, StepsOf, SameOperation
<1> HIDE DEF q
<1>8. RequestStep(r) /\ requests'[r] = q
  BY <1>5, <1>6, <1>7, GoesOn
<1> QED
  BY <1>1, <1>2, <1>3, <1>4, <1>6, <1>8

LEMMA FindToDeleteStep ==
  ASSUME TypeOK, RequestsSound, NEW r \in Requests, FindToDelete(r)
  PROVE  LET p == requests[r]
             q == requests'[r]
         IN  /\ RequestStep(r)
             /\ AtStep(p) /\ p.op \in {"deleteFile", "deleteAudio"}
             /\ p.key \in Keys
             /\ \/ files[p.key] = <<>> /\ q.step = "refused"
                \/ /\ SameOperation(p, q)
                   /\ files[p.key] # <<>> /\ q.step = "remove" /\ q.found = Latest(p.key)
<1> DEFINE p == requests[r]
           found == Latest(p.key)
           q == [p EXCEPT !.found = found, !.step = "remove"]
<1>1. /\ p \in Request /\ AtStep(p)
      /\ p.op \in {"deleteFile", "deleteAudio"}
  BY Running DEF FindToDelete, Ended
<1>2. p.key \in Keys
  BY <1>1, Names DEF AtStep, KeysOf
<1>3. /\ found = None <=> files[p.key] = <<>>
      /\ found \in Requests \cup {None}
  BY <1>2, LatestFacts
<1>4. CASE found = None
  <2>1. requests' = Answered(r, "refused")
    BY <1>4 DEF FindToDelete
  <2> QED
    BY <1>1, <1>2, <1>3, <1>4, <2>1, AnsweredStep DEF Ended
<1>5. CASE found # None
  <2>1. requests' = [requests EXCEPT ![r] = q]
    BY <1>5 DEF FindToDelete
  <2>2. /\ q \in Request /\ SameOperation(p, q) /\ q.content = p.content
        /\ q.step = "remove" /\ q.found = found
    BY <1>1, <1>3 DEF Request, SameOperation
  <2>3. AtStep(q)
    BY <1>1, <1>5, <2>2 DEF AtStep, StepsOf, SameOperation
  <2> HIDE DEF q
  <2>4. RequestStep(r) /\ requests'[r] = q
    BY <2>1, <2>2, <2>3, GoesOn
  <2> QED
    BY <1>1, <1>2, <1>3, <1>5, <2>2, <2>4
<1> QED
  BY <1>4, <1>5

LEMMA DeleteStep ==
  ASSUME TypeOK, RequestsSound, NEW r \in Requests, Delete(r)
  PROVE  LET p == requests[r]
             q == requests'[r]
         IN  /\ RequestStep(r)
             /\ AtStep(p) /\ p.key \in Keys
             /\ \/ /\ ~ \E i \in DOMAIN files[p.key] : files[p.key][i].by = p.found
                   /\ q.step = "failed" /\ UNCHANGED files
                \/ /\ \E i \in DOMAIN files[p.key] :
                        /\ files[p.key][i].by = p.found
                        /\ files' = [files EXCEPT ![p.key] = RemoveAt(files[p.key], i)]
                   /\ \/ p.op \in {"deleteFile", "deleteAudio"} /\ q.step = "ok"
                      \/ /\ p.op \in {"insert", "deleteObject", "combine"}
                         /\ SameOperation(p, q) /\ q.content = p.content /\ q.step = "upload"
<1> DEFINE p == requests[r]
           q == [p EXCEPT !.step = "upload", !.found = None]
<1>1. p \in Request /\ AtStep(p) /\ Sound(p) /\ p.step = "remove"
  BY Running DEF Delete, Ended, RequestsSound
<1>2. p.op \in {"insert", "deleteObject", "combine", "deleteFile", "deleteAudio"}
  BY <1>1, StepFacts DEF Ended
<1>3. p.key \in Keys
  BY <1>1, <1>2, Names DEF AtStep, KeysOf
<1>4. CASE ~ IsStored(p.key, p.found) /\ requests' = Answered(r, "failed") /\ UNCHANGED files
  <2>1. ~ \E i \in DOMAIN files[p.key] : files[p.key][i].by = p.found
    BY <1>4 DEF IsStored, Versions, ToSet
  <2>2. RequestStep(r) /\ requests'[r].step = "failed"
    BY <1>4, AnsweredStep DEF Ended
  <2> QED
    BY <1>1, <1>3, <1>4, <2>1, <2>2
<1>5. ASSUME NEW i \in DOMAIN files[p.key],
             files[p.key][i].by = p.found,
             files' = [files EXCEPT ![p.key] = RemoveAt(@, i)],
             requests' = IF p.op \in {"deleteFile", "deleteAudio"} THEN Answered(r, "ok")
                         ELSE [requests EXCEPT ![r].step = "upload", ![r].found = None]
      PROVE  /\ RequestStep(r)
             /\ files' = [files EXCEPT ![p.key] = RemoveAt(files[p.key], i)]
             /\ \/ p.op \in {"deleteFile", "deleteAudio"} /\ requests'[r].step = "ok"
                \/ /\ p.op \in {"insert", "deleteObject", "combine"}
                   /\ SameOperation(p, requests'[r]) /\ requests'[r].content = p.content
                   /\ requests'[r].step = "upload"
  <2>1. files' = [files EXCEPT ![p.key] = RemoveAt(files[p.key], i)]
    BY <1>5
  <2>2. CASE p.op \in {"deleteFile", "deleteAudio"}
    <3>1. requests' = Answered(r, "ok")
      BY <1>5, <2>2
    <3> QED
      BY <2>1, <2>2, <3>1, AnsweredStep DEF Ended
  <2>3. CASE p.op \notin {"deleteFile", "deleteAudio"}
    <3>1. requests' = [requests EXCEPT ![r] = q]
      BY <1>5, <2>3
    <3>2. /\ q \in Request /\ SameOperation(p, q) /\ q.content = p.content
          /\ q.step = "upload"
      BY <1>1 DEF Request, SameOperation
    <3>3. AtStep(q)
      BY <1>1, <1>2, <2>3, <3>2 DEF AtStep, StepsOf, SameOperation
    <3> HIDE DEF q
    <3>4. RequestStep(r) /\ requests'[r] = q
      BY <3>1, <3>2, <3>3, GoesOn
    <3> QED
      BY <1>2, <2>1, <2>3, <3>2, <3>4
  <2> QED
    BY <2>2, <2>3
<1> QED
  BY <1>1, <1>3, <1>4, <1>5 DEF Delete

LEMMA UploadStep ==
  ASSUME TypeOK, RequestsSound, NEW r \in Requests, Upload(r)
  PROVE  LET p == requests[r]
             q == requests'[r]
             new == [by |-> r, content |-> p.content]
         IN  /\ RequestStep(r)
             /\ AtStep(p) /\ p.op \in {"insert", "deleteObject", "combine", "upload"}
             /\ p.key \in Keys /\ (p.key = Combined <=> p.op = "combine")
             /\ files' = [files EXCEPT ![p.key] = Append(files[p.key], new)]
             /\ new \in Version
             /\ new.content \subseteq (IF p.key = Combined THEN Days \X Requests ELSE Requests)
             /\ q.step = "ok"
<1> DEFINE p == requests[r]
           new == [by |-> r, content |-> p.content]
<1>1. p \in Request /\ AtStep(p) /\ Sound(p) /\ p.step = "upload"
  BY Running DEF Upload, Ended, RequestsSound
<1>2. p.op \in {"insert", "deleteObject", "combine", "upload"}
  BY <1>1, StepFacts DEF Ended
<1>3. p.key \in Keys /\ (p.key = Combined <=> p.op = "combine")
  BY <1>1, <1>2, KeyFacts, Names
<1>4. files' = [files EXCEPT ![p.key] = Append(files[p.key], new)]
  BY DEF Upload
<1>5. new \in Version
  BY <1>1 DEF Version, Request
<1>6. new.content \subseteq (IF p.key = Combined THEN Days \X Requests ELSE Requests)
  BY <1>1, <1>3 DEF AtStep
<1>7. RequestStep(r) /\ requests'[r].step = "ok"
  BY AnsweredStep DEF Upload, Ended
<1> HIDE DEF new
<1> QED
  BY <1>1, <1>2, <1>3, <1>4, <1>5, <1>6, <1>7 DEF new

LEMMA FailStep ==
  ASSUME TypeOK, RequestsSound, NEW r \in Requests, Fail(r)
  PROVE  /\ RequestStep(r)
         /\ requests'[r].step = "failed"
         /\ AtStep(requests[r]) /\ requests[r].op # "compare"
<1>1. requests[r] \in Request /\ AtStep(requests[r])
  BY Running DEF Fail, IsRunning, Ended
<1>2. requests[r].op # "compare"
  BY <1>1, KeyFacts DEF Fail
<1>3. requests' = Answered(r, "failed")
  BY DEF Fail
<1> QED
  BY <1>1, <1>2, <1>3, AnsweredStep DEF Ended

\* A place is taken or given back only by the request that uses it.
Counts(r) ==
  inFlight' = IF requests[r].step # "transcribe" /\ requests'[r].step = "transcribe"
                THEN inFlight + 1
              ELSE IF requests[r].step = "transcribe" /\ requests'[r].step # "transcribe"
                THEN inFlight - 1
              ELSE inFlight

LEMMA SpeechStep ==
  ASSUME TypeOK, RequestsSound, NEW r \in Requests, Speech(r)
  PROVE  LET p == requests[r]
             q == requests'[r]
         IN  /\ RequestStep(r) /\ Counts(r)
             /\ inFlight' > inFlight => inFlight < MaxConcurrency
             /\ p = Blank \/ (AtStep(p) /\ p.op = "compare")
             /\ q.step \in Ended \/ (AtStep(q) /\ q.op = "compare")
             /\ UNCHANGED <<files, disturbed>>
<1> DEFINE p == requests[r]
           q == requests'[r]
<1>0. inFlight \in Int
  BY DEF TypeOK
<1>1. CASE compareSpeakTranscript(r)
  <2> DEFINE waits == [Blank EXCEPT !.op = "compare", !.step = "wait"]
             runs == [Blank EXCEPT !.op = "compare", !.step = "transcribe", !.polls = 0]
  <2>1. p = Blank /\ p.step = "new"
    BY <1>1 DEF compareSpeakTranscript, Blank
  <2>2. /\ waits \in Request /\ waits.op = "compare" /\ waits.step = "wait"
        /\ waits.key = None /\ waits.content = {}
    BY BlankType DEF Request, Blank
  <2>3. /\ runs \in Request /\ runs.op = "compare" /\ runs.step = "transcribe"
        /\ runs.key = None /\ runs.content = {}
    BY BlankType DEF Request, Blank
  <2>4. AtStep(waits) /\ AtStep(runs)
    BY <2>2, <2>3 DEF AtStep, StepsOf, KeysOf
  <2>5. CASE HasPlace
    <3>1. requests' = [requests EXCEPT ![r] = runs] /\ inFlight' = inFlight + 1
      BY <1>1, <2>1, <2>5 DEF compareSpeakTranscript, TakePlace
    <3> HIDE DEF runs
    <3>2. RequestStep(r) /\ requests'[r] = runs
      BY <2>3, <2>4, <3>1, GoesOn
    <3> QED
      BY <1>1, <2>1, <2>3, <2>4, <2>5, <3>1, <3>2 DEF compareSpeakTranscript, Counts, HasPlace
  <2>6. CASE ~ HasPlace
    <3>1. requests' = [requests EXCEPT ![r] = waits] /\ inFlight' = inFlight
      BY <1>1, <2>1, <2>6 DEF compareSpeakTranscript
    <3> HIDE DEF waits
    <3>2. RequestStep(r) /\ requests'[r] = waits
      BY <2>2, <2>4, <3>1, GoesOn
    <3> QED
      BY <1>0, <1>1, <2>1, <2>2, <2>4, <3>1, <3>2 DEF compareSpeakTranscript, Counts
  <2> QED
    BY <2>5, <2>6
<1>2. CASE LookAgain(r)
  <2> DEFINE waits == [p EXCEPT !.polls = p.polls + 1]
             runs == [p EXCEPT !.op = "compare", !.step = "transcribe", !.polls = 0]
  <2>1. p \in Request /\ AtStep(p) /\ Sound(p) /\ p.step = "wait"
    BY <1>2, Running DEF LookAgain, Ended, RequestsSound
  <2>2. p.op = "compare"
    BY <2>1, StepFacts DEF Ended
  <2>3. CASE HasPlace
    <3>1. requests' = [requests EXCEPT ![r] = runs] /\ inFlight' = inFlight + 1
      BY <1>2, <2>3 DEF LookAgain, TakePlace
    <3>2. /\ runs \in Request /\ runs.op = "compare" /\ runs.step = "transcribe"
          /\ runs.key = p.key /\ runs.content = p.content
      BY <2>1 DEF Request
    <3>3. AtStep(runs)
      BY <2>1, <2>2, <3>2 DEF AtStep, StepsOf
    <3> HIDE DEF runs
    <3>4. RequestStep(r) /\ requests'[r] = runs
      BY <3>1, <3>2, <3>3, GoesOn
    <3> QED
      BY <1>2, <2>1, <2>2, <2>3, <3>1, <3>2, <3>3, <3>4 DEF LookAgain, Counts, HasPlace
  <2>4. CASE ~ HasPlace /\ p.polls = MaxPolls
    <3>1. requests' = Answered(r, "refused") /\ inFlight' = inFlight
      BY <1>2, <2>4 DEF LookAgain
    <3>2. RequestStep(r) /\ requests'[r].step = "refused"
      BY <3>1, AnsweredStep DEF Ended
    <3> QED
      BY <1>0, <1>2, <2>1, <2>2, <3>1, <3>2 DEF LookAgain, Counts, Ended
  <2>5. CASE ~ HasPlace /\ p.polls # MaxPolls
    <3>1. requests' = [requests EXCEPT ![r] = waits] /\ inFlight' = inFlight
      BY <1>2, <2>5 DEF LookAgain
    <3>2. p.polls + 1 \in Nat
      BY <2>1 DEF Request
    <3>3. /\ waits \in Request /\ waits.op = "compare" /\ waits.step = "wait"
          /\ waits.key = p.key /\ waits.content = p.content
      BY <2>1, <2>2, <3>2 DEF Request
    <3>4. AtStep(waits)
      BY <2>1, <2>2, <3>3 DEF AtStep, StepsOf
    <3> HIDE DEF waits
    <3>5. RequestStep(r) /\ requests'[r] = waits
      BY <3>1, <3>3, <3>4, GoesOn
    <3> QED
      BY <1>0, <1>2, <2>1, <2>2, <3>1, <3>3, <3>4, <3>5 DEF LookAgain, Counts
  <2> QED
    BY <2>3, <2>4, <2>5
<1>3. ASSUME NEW outcome \in {"ok", "refused", "failed"}, FinishTranscription(r, outcome)
      PROVE  /\ RequestStep(r) /\ Counts(r)
             /\ inFlight' > inFlight => inFlight < MaxConcurrency
             /\ AtStep(p) /\ p.op = "compare"
             /\ q.step \in Ended
             /\ UNCHANGED <<files, disturbed>>
  <2>1. p \in Request /\ AtStep(p) /\ Sound(p) /\ p.step = "transcribe"
    BY <1>3, Running DEF FinishTranscription, Ended, RequestsSound
  <2>2. p.op = "compare"
    BY <2>1, StepFacts DEF Ended
  <2>3. RequestStep(r) /\ requests'[r].step = outcome
    BY <1>3, AnsweredStep DEF FinishTranscription, Ended
  <2>4. inFlight' = inFlight - 1
    BY <1>3 DEF FinishTranscription, Freed
  <2> QED
    BY <1>0, <1>3, <2>1, <2>2, <2>3, <2>4 DEF FinishTranscription, Counts, Ended
<1> QED
  BY <1>1, <1>2, <1>3 DEF Speech

RestartStep ==
  /\ requests' \in [Requests -> Request]
  /\ \A r \in Requests :
       /\ IsRunning(r) => requests'[r].step = "failed"
       /\ ~ IsRunning(r) => requests'[r] = requests[r]
  /\ \A r \in Requests : IsRunning(r) /\ requests[r].key = Document => Document \in disturbed'

LEMMA Restarted ==
  ASSUME TypeOK, Restart
  PROVE  RestartStep
<1> DEFINE failed == [Blank EXCEPT !.step = "failed"]
<1>1. failed \in Request /\ failed.step = "failed"
  BY BlankType DEF Request, Blank
<1>2. requests' = [r \in Requests |-> IF IsRunning(r) THEN failed ELSE requests[r]]
  BY DEF Restart
<1>3. \A r \in Requests : IsRunning(r) /\ requests[r].key = Document => Document \in disturbed'
  BY DEF Restart
<1> HIDE DEF failed
<1> QED
  BY <1>1, <1>2, <1>3 DEF RestartStep, TypeOK

-----------------------------------------------------------------------------
(* What a step changes.                                                    *)

\* One request does one thing.
Step(r) == Arrival(r) \/ NextCall(r) \/ ReadFails(r) \/ Fail(r) \/ Speech(r)

LEMMA StepIsOfOneRequest ==
  ASSUME TypeOK, RequestsSound, NEW r \in Requests, Step(r)
  PROVE  /\ RequestStep(r)
         /\ requests[r] = Blank \/ AtStep(requests[r])
<1>1. CASE Arrival(r)
  BY <1>1, ArrivalStep DEF Arrives
<1>2. CASE NextCall(r)
  <2>1. requests[r].step \notin Ended \cup {"new"}
    BY <1>2 DEF NextCall, FindDocument, DownloadDocument, SearchDay, EndSearch, FetchDay,
                DownloadDay, FindExisting, FindToDelete, Delete, Upload, Ended
  <2>2. AtStep(requests[r])
    BY <2>1, Running
  <2>3. RequestStep(r)
    BY <1>2, FindDocumentStep, DownloadDocumentStep, SearchDayStep, EndSearchStep, FetchDayStep,
       DownloadDayStep, FindExistingStep, FindToDeleteStep, DeleteStep, UploadStep DEF NextCall
  <2> QED
    BY <2>2, <2>3
<1>3. CASE ReadFails(r)
  <2>1. AtStep(requests[r])
    BY <1>3, Running DEF ReadFails, Ended
  <2> QED
    BY <1>3, <2>1, ReadFailsStep
<1>4. CASE Fail(r)
  BY <1>4, FailStep
<1>5. CASE Speech(r)
  BY <1>5, SpeechStep
<1> QED
  BY <1>1, <1>2, <1>3, <1>4, <1>5 DEF Step

\* A request that has ended does nothing any more.
LEMMA EndedRequestsRest ==
  ASSUME NEW q, q = Blank \/ AtStep(q)
  PROVE  q.step \notin Ended
BY DEF Blank, AtStep, StepsOf, Ended

LEMMA Removed ==
  ASSUME NEW S, NEW s \in Seq(S), NEW i \in DOMAIN s
  PROVE  /\ RemoveAt(s, i) \in Seq(S)
         /\ Len(RemoveAt(s, i)) = Len(s) - 1
         /\ \A j \in DOMAIN RemoveAt(s, i) : \E k \in DOMAIN s : RemoveAt(s, i)[j] = s[k]
<1> DEFINE n == Len(s)
           a == SubSeq(s, 1, i - 1)
           b == SubSeq(s, i + 1, n)
<1>1. n \in Nat /\ DOMAIN s = 1 .. n /\ i \in 1 .. n
  OBVIOUS
<1>2. \A j \in 1 .. n : s[j] \in S
  BY <1>1
<1>3. /\ a \in Seq(S) /\ Len(a) = i - 1
      /\ \A j \in 1 .. i - 1 : a[j] = s[j]
  <2>1. i - 1 \in Int /\ 1 \in Int /\ \A j \in 1 .. i - 1 : s[j] \in S
    BY <1>1, <1>2
  <2>2. /\ a \in Seq(S)
        /\ Len(a) = IF 1 <= i - 1 THEN i - 1 - 1 + 1 ELSE 0
        /\ \A j \in 1 .. i - 1 - 1 + 1 : a[j] = s[1 + j - 1]
    BY <2>1, SubSeqProperties
  <2> QED
    BY <1>1, <2>2
<1>4. /\ b \in Seq(S) /\ Len(b) = n - i
      /\ \A j \in 1 .. n - i : b[j] = s[i + j]
  <2>1. i + 1 \in Int /\ n \in Int /\ \A j \in i + 1 .. n : s[j] \in S
    BY <1>1, <1>2
  <2>2. /\ b \in Seq(S)
        /\ Len(b) = IF i + 1 <= n THEN n - (i + 1) + 1 ELSE 0
        /\ \A j \in 1 .. n - (i + 1) + 1 : b[j] = s[i + 1 + j - 1]
    BY <2>1, SubSeqProperties
  <2> QED
    BY <1>1, <2>2
<1> HIDE DEF n, a, b
<1>5. /\ a \o b \in Seq(S)
      /\ Len(a \o b) = Len(a) + Len(b)
      /\ \A j \in 1 .. Len(a) + Len(b) :
           (a \o b)[j] = IF j <= Len(a) THEN a[j] ELSE b[j - Len(a)]
  BY <1>3, <1>4, ConcatProperties
<1>6. RemoveAt(s, i) = a \o b
  BY DEF RemoveAt, a, b, n
<1>7. Len(a \o b) = n - 1 /\ DOMAIN (a \o b) = 1 .. n - 1
  BY <1>1, <1>3, <1>4, <1>5
<1>8. ASSUME NEW j \in 1 .. n - 1
      PROVE  \E k \in 1 .. n : (a \o b)[j] = s[k]
  <2>1. CASE j <= i - 1
    <3>1. (a \o b)[j] = s[j] /\ j \in 1 .. n
      BY <1>1, <1>3, <1>4, <1>5, <2>1
    <3> QED
      BY <3>1
  <2>2. CASE j > i - 1
    <3>1. j - (i - 1) \in 1 .. n - i /\ i + (j - (i - 1)) = j + 1 /\ j + 1 \in 1 .. n
      BY <1>1, <2>2
    <3>2. (a \o b)[j] = b[j - (i - 1)]
      BY <1>1, <1>3, <1>4, <1>5, <2>2
    <3>3. (a \o b)[j] = s[j + 1]
      BY <1>4, <3>1, <3>2
    <3> QED
      BY <3>1, <3>3
  <2>3. j <= i - 1 \/ j > i - 1
    BY <1>1
  <2> QED
    BY <2>1, <2>2, <2>3
<1> QED
  BY <1>1, <1>5, <1>6, <1>7, <1>8 DEF n

NewVersion(r) == [by |-> r, content |-> requests[r].content]

\* Whatever is stored after a step of r was stored before it or is r's.
VersionsStep(r) ==
  \A key \in Keys : \A j \in DOMAIN files'[key] :
    \/ \E i \in DOMAIN files[key] : files'[key][j] = files[key][i]
    \/ /\ files'[key][j] = NewVersion(r)
       /\ requests[r].step = "upload" /\ requests'[r].step = "ok" /\ requests[r].key = key

LEMMA DeleteFiles ==
  ASSUME TypeOK, NEW key \in Keys, NEW i \in DOMAIN files[key],
         files' = [files EXCEPT ![key] = RemoveAt(files[key], i)]
  PROVE  /\ files' \in [Keys -> Seq(Version)]
         /\ files'[key] \in Seq(Version)
         /\ Len(files'[key]) = Len(files[key]) - 1
         /\ \A other \in Keys \ {key} : files'[other] = files[other]
         /\ \A k \in Keys : \A j \in DOMAIN files'[k] :
              \E m \in DOMAIN files[k] : files'[k][j] = files[k][m]
<1> DEFINE left == RemoveAt(files[key], i)
<1>1. /\ left \in Seq(Version)
      /\ Len(left) = Len(files[key]) - 1
      /\ \A j \in DOMAIN left : \E k \in DOMAIN files[key] : left[j] = files[key][k]
  <2>1. files[key] \in Seq(Version)
    BY FilesType
  <2> QED
    BY <2>1, Removed
<1> HIDE DEF left
<1>2. files' = [files EXCEPT ![key] = left]
  BY DEF left
<1>3. files'[key] = left /\ \A other \in Keys \ {key} : files'[other] = files[other]
  BY <1>2 DEF TypeOK
<1>4. files' \in [Keys -> Seq(Version)]
  BY <1>1, <1>2 DEF TypeOK
<1>5. ASSUME NEW k \in Keys, NEW j \in DOMAIN files'[k]
      PROVE  \E m \in DOMAIN files[k] : files'[k][j] = files[k][m]
  <2>1. CASE k = key
    BY <1>1, <1>3, <1>5, <2>1
  <2>2. CASE k # key
    BY <1>3, <1>5, <2>2
  <2> QED
    BY <2>1, <2>2
<1> QED
  BY <1>1, <1>3, <1>4, <1>5

LEMMA UploadFiles ==
  ASSUME TypeOK, NEW r \in Requests, NEW key \in Keys, NewVersion(r) \in Version,
         files' = [files EXCEPT ![key] = Append(files[key], NewVersion(r))]
  PROVE  /\ files' \in [Keys -> Seq(Version)]
         /\ files'[key] \in Seq(Version)
         /\ Len(files'[key]) = Len(files[key]) + 1
         /\ files'[key][Len(files[key]) + 1] = NewVersion(r)
         /\ \A other \in Keys \ {key} : files'[other] = files[other]
         /\ \A k \in Keys : \A j \in DOMAIN files'[k] :
              \/ \E m \in DOMAIN files[k] : files'[k][j] = files[k][m]
              \/ files'[k][j] = NewVersion(r) /\ k = key
<1> DEFINE new == NewVersion(r)
           n == Len(files[key])
           more == Append(files[key], new)
<1> HIDE DEF new
<1>1. files[key] \in Seq(Version) /\ n \in Nat /\ DOMAIN files[key] = 1 .. n
  BY FilesType
<1>2. /\ more \in Seq(Version) /\ Len(more) = n + 1
      /\ \A j \in 1 .. n : more[j] = files[key][j]
      /\ more[n + 1] = new
  BY <1>1, AppendProperties DEF new
<1>3. DOMAIN more = 1 .. n + 1
  BY <1>2
<1> HIDE DEF more
<1>4. files' = [files EXCEPT ![key] = more]
  BY DEF more, new
<1>5. files'[key] = more /\ \A other \in Keys \ {key} : files'[other] = files[other]
  BY <1>4 DEF TypeOK
<1>6. files' \in [Keys -> Seq(Version)]
  BY <1>2, <1>4 DEF TypeOK
<1>7. ASSUME NEW k \in Keys, NEW j \in DOMAIN files'[k]
      PROVE  \/ \E m \in DOMAIN files[k] : files'[k][j] = files[k][m]
             \/ files'[k][j] = new /\ k = key
  <2>1. CASE k = key
    <3>1. j \in 1 .. n \/ j = n + 1
      BY <1>1, <1>3, <1>5, <1>7, <2>1
    <3> QED
      BY <1>1, <1>2, <1>5, <2>1, <3>1
  <2>2. CASE k # key
    BY <1>5, <1>7, <2>2
  <2> QED
    BY <2>1, <2>2
<1> QED
  BY <1>2, <1>5, <1>6, <1>7 DEF new

\* Only a deletion and an upload change the files.
LEMMA FilesUnchanged ==
  ASSUME NEW r \in Requests, Step(r), ~ Delete(r), ~ Upload(r), TypeOK
  PROVE  UNCHANGED files
<1>1. CASE Arrival(r)
  BY <1>1, ArrivalStep DEF Arrives
<1>2. CASE NextCall(r)
  BY <1>2 DEF NextCall, FindDocument, DownloadDocument, SearchDay, EndSearch, FetchDay,
              DownloadDay, FindExisting, FindToDelete
<1>3. CASE ReadFails(r)
  BY <1>3 DEF ReadFails
<1>4. CASE Fail(r)
  BY <1>4 DEF Fail
<1>5. CASE Speech(r)
  BY <1>5 DEF Speech, compareSpeakTranscript, LookAgain, FinishTranscription
<1> QED
  BY <1>1, <1>2, <1>3, <1>4, <1>5 DEF Step

LEMMA StepFiles ==
  ASSUME TypeOK, RequestsSound, NEW r \in Requests, Step(r)
  PROVE  files' \in [Keys -> Seq(Version)] /\ VersionsStep(r)
<1> DEFINE p == requests[r]
<1>1. CASE Delete(r)
  <2>1. p.key \in Keys
    BY <1>1, DeleteStep
  <2>2. CASE UNCHANGED files
    BY <2>2 DEF VersionsStep, TypeOK
  <2>3. ASSUME NEW i \in DOMAIN files[p.key],
               files' = [files EXCEPT ![p.key] = RemoveAt(files[p.key], i)]
        PROVE  files' \in [Keys -> Seq(Version)] /\ VersionsStep(r)
    <3>1. /\ files' \in [Keys -> Seq(Version)]
          /\ \A k \in Keys : \A j \in DOMAIN files'[k] :
               \E m \in DOMAIN files[k] : files'[k][j] = files[k][m]
      <4> HIDE DEF p
      <4> QED
        BY <2>1, <2>3, DeleteFiles
    <3> QED
      BY <3>1 DEF VersionsStep
  <2> QED
    BY <1>1, <2>2, <2>3, DeleteStep
<1>2. CASE Upload(r)
  <2>1. /\ p.key \in Keys /\ NewVersion(r) \in Version
        /\ files' = [files EXCEPT ![p.key] = Append(files[p.key], NewVersion(r))]
        /\ requests'[r].step = "ok" /\ p.step = "upload"
    BY <1>2, UploadStep DEF NewVersion, Upload
  <2>2. /\ files' \in [Keys -> Seq(Version)]
        /\ \A k \in Keys : \A j \in DOMAIN files'[k] :
             \/ \E m \in DOMAIN files[k] : files'[k][j] = files[k][m]
             \/ files'[k][j] = NewVersion(r) /\ k = p.key
    BY <2>1, UploadFiles
  <2> QED
    BY <2>1, <2>2 DEF VersionsStep
<1>3. CASE ~ Delete(r) /\ ~ Upload(r)
  <2>1. UNCHANGED files
    BY <1>3, FilesUnchanged
  <2> QED
    BY <2>1 DEF VersionsStep, TypeOK
<1> QED
  BY <1>1, <1>2, <1>3

\* What r uploads has the form the name asks for.
LEMMA NewContent ==
  ASSUME TypeOK, RequestsSound, NEW r \in Requests, requests[r].step = "upload"
  PROVE  requests[r].content \subseteq
           (IF requests[r].key = Combined THEN Days \X Requests ELSE Requests)
<1> DEFINE p == requests[r]
<1>1. p \in Request /\ AtStep(p) /\ Sound(p)
  BY Running DEF Ended, RequestsSound
<1>2. p.op \in {"insert", "deleteObject", "combine", "upload"}
  BY <1>1, StepFacts DEF Ended
<1>3. p.key = Combined <=> p.op = "combine"
  BY <1>1, <1>2, KeyFacts, Names
<1> QED
  BY <1>1, <1>3 DEF AtStep

-----------------------------------------------------------------------------
(* The history.                                                            *)

Combining(r) == requests[r].op = "combine" /\ IsRunning(r)

Begins(r) == requests[r] = Blank /\ requests'[r].op = "combine"

LEMMA RecordingsType ==
  ASSUME TypeOK
  PROVE  DaysWithWav \subseteq Days /\ LatestWavs \subseteq Days \X Requests
<1>1. ASSUME NEW d \in DaysWithWav
      PROVE  <<d, Last(files[Recording(d)]).by>> \in Days \X Requests
  <2>1. d \in Days /\ files[Recording(d)] # <<>>
    BY DEF DaysWithWav
  <2>2. Recording(d) \in Keys
    BY <2>1, RecordingNames
  <2>3. Latest(Recording(d)) \in Requests
    BY <2>1, <2>2, LatestFacts
  <2> QED
    BY <2>1, <2>3 DEF Latest
<1> QED
  BY <1>1 DEF DaysWithWav, LatestWavs

LEMMA Watched ==
  ASSUME TypeOK, Watch
  PROVE  /\ current' = [r \in Requests |->
              IF Begins(r) THEN LatestWavs
              ELSE IF Combining(r) THEN current[r] \cup LatestWavs' ELSE current[r]]
         /\ lasting' = [r \in Requests |->
              IF Begins(r) THEN DaysWithWav
              ELSE IF Combining(r) THEN lasting[r] \cap DaysWithWav' ELSE lasting[r]]
BY DEF Watch, Begins, Combining

LEMMA WatchedRequest ==
  ASSUME TypeOK, Watch, NEW r \in Requests
  PROVE  /\ Begins(r) => current'[r] = LatestWavs /\ lasting'[r] = DaysWithWav
         /\ ~ Begins(r) /\ Combining(r) =>
              /\ current'[r] = current[r] \cup LatestWavs'
              /\ lasting'[r] = lasting[r] \cap DaysWithWav'
         /\ ~ Begins(r) /\ ~ Combining(r) =>
              current'[r] = current[r] /\ lasting'[r] = lasting[r]
BY Watched

\* A request is counted among the answered ones only in the step that ends
\* it, so a step changes what was promised by one answer at most.
LEMMA PromisedStep ==
  ASSUME TypeOK, Watch, NEW r \in Requests, RequestStep(r)
  PROVE  /\ ~ Answers(r) => promised' = promised
         /\ Answers(r) => promised' =
              (promised \cup (IF requests[r].op = "insert" THEN {r} ELSE {}))
                \ (CASE requests[r].op = "deleteObject" -> {requests[r].object}
                     [] requests[r].op = "deleteFile"   -> Requests
                     [] OTHER                           -> {})
<1> DEFINE Gone(q) == CASE requests[q].op = "deleteObject" -> {requests[q].object}
                        [] requests[q].op = "deleteFile"   -> Requests
                        [] OTHER                           -> {}
<1>1. \A q \in Requests \ {r} : ~ Answers(q)
  BY DEF RequestStep, Answers, IsRunning
<1>2. promised' = (promised \cup {q \in Requests : Answers(q) /\ requests[q].op = "insert"})
                    \ UNION {Gone(q) : q \in {x \in Requests : Answers(x)}}
  BY DEF Watch
<1>3. CASE ~ Answers(r)
  <2>1. {q \in Requests : Answers(q)} = {}
    BY <1>1, <1>3
  <2>2. {Gone(q) : q \in {x \in Requests : Answers(x)}} = {}
    BY <2>1
  <2>3. {q \in Requests : Answers(q) /\ requests[q].op = "insert"} = {}
    BY <2>1
  <2> HIDE DEF Gone
  <2> QED
    BY <1>2, <1>3, <2>2, <2>3
<1>4. CASE Answers(r)
  <2>1. {q \in Requests : Answers(q)} = {r}
    BY <1>1, <1>4
  <2>2. {Gone(q) : q \in {x \in Requests : Answers(x)}} = {Gone(r)}
    BY <2>1
  <2>3. {q \in Requests : Answers(q) /\ requests[q].op = "insert"} =
          IF requests[r].op = "insert" THEN {r} ELSE {}
    BY <2>1
  <2>4. UNION {Gone(r)} = Gone(r)
    OBVIOUS
  <2>5. promised' = (promised \cup (IF requests[r].op = "insert" THEN {r} ELSE {})) \ Gone(r)
    <3> HIDE DEF Gone
    <3> QED
      BY <1>2, <2>2, <2>3, <2>4
  <2> QED
    BY <1>4, <2>5
<1> QED
  BY <1>3, <1>4

-----------------------------------------------------------------------------
(* Types.                                                                  *)

LEMMA DisturbedGrows ==
  ASSUME TypeOK, NEW r \in Requests, Step(r)
  PROVE  disturbed \subseteq disturbed' /\ disturbed' \subseteq {Document, Combined}
<1>1. disturbed \subseteq {Document, Combined}
  BY DEF TypeOK
<1>2. CASE Arrival(r)
  <2>1. disturbed' = disturbed \/ disturbed' = disturbed \cup {Document}
          \/ disturbed' = disturbed \cup {Combined}
    BY <1>2, ArrivalStep DEF Arrives
  <2> QED
    BY <1>1, <2>1
<1>3. CASE NextCall(r)
  <2>1. UNCHANGED disturbed
    BY <1>3 DEF NextCall, FindDocument, DownloadDocument, SearchDay, EndSearch, FetchDay,
                DownloadDay, FindExisting, FindToDelete, Delete, Upload
  <2> QED
    BY <1>1, <2>1
<1>4. CASE ReadFails(r)
  BY <1>1, <1>4 DEF ReadFails
<1>5. CASE Fail(r)
  BY <1>1, <1>5 DEF Fail
<1>6. CASE Speech(r)
  <2>1. UNCHANGED disturbed
    BY <1>6 DEF Speech, compareSpeakTranscript, LookAgain, FinishTranscription
  <2> QED
    BY <1>1, <2>1
<1> QED
  BY <1>2, <1>3, <1>4, <1>5, <1>6 DEF Step

\* Requests on files are no transcriptions.
LEMMA FilesOrSpeech ==
  ASSUME TypeOK, RequestsSound, NEW r \in Requests,
         Arrival(r) \/ NextCall(r) \/ ReadFails(r) \/ Fail(r)
  PROVE  requests[r].step # "transcribe" /\ requests'[r].step # "transcribe"
<1>1. CASE Arrival(r)
  BY <1>1, ArrivalStep DEF Arrives, Blank
<1>2. CASE NextCall(r)
  <2>1. requests[r].step # "transcribe"
    BY <1>2 DEF NextCall, FindDocument, DownloadDocument, SearchDay, EndSearch, FetchDay,
                DownloadDay, FindExisting, FindToDelete, Delete, Upload
  <2>2. CASE FindDocument(r)
    BY <2>1, <2>2, FindDocumentStep DEF HasObjects
  <2>3. CASE DownloadDocument(r)
    BY <2>1, <2>3, DownloadDocumentStep DEF HasObjects
  <2>4. CASE SearchDay(r) \/ EndSearch(r)
    BY <2>1, <2>4, SearchDayStep, EndSearchStep
  <2>5. CASE FetchDay(r) \/ DownloadDay(r)
    BY <2>1, <2>5, FetchDayStep, DownloadDayStep
  <2>6. CASE FindExisting(r) \/ FindToDelete(r)
    BY <2>1, <2>6, FindExistingStep, FindToDeleteStep
  <2>7. CASE Delete(r) \/ Upload(r)
    BY <2>1, <2>7, DeleteStep, UploadStep
  <2> QED
    BY <1>2, <2>1, <2>2, <2>3, <2>4, <2>5, <2>6, <2>7 DEF NextCall
<1>3. CASE ReadFails(r)
  BY <1>3, ReadFailsStep DEF ReadFails, HasObjects
<1>4. CASE Fail(r)
  <2>1. AtStep(requests[r]) /\ requests[r].op # "compare" /\ requests'[r].step = "failed"
    BY <1>4, FailStep
  <2> QED
    BY <2>1 DEF AtStep, StepsOf
<1> QED
  BY <1>1, <1>2, <1>3, <1>4

\* How the counter follows the steps of one request.
LEMMA PlacesStep ==
  ASSUME TypeOK, RequestsSound, NEW r \in Requests,
         \/ (Arrival(r) \/ NextCall(r) \/ ReadFails(r) \/ Fail(r)) /\ UNCHANGED inFlight
         \/ Speech(r)
  PROVE  Step(r) /\ Counts(r) /\ (inFlight' > inFlight => inFlight < MaxConcurrency)
<1>1. CASE (Arrival(r) \/ NextCall(r) \/ ReadFails(r) \/ Fail(r)) /\ UNCHANGED inFlight
  <2>1. requests[r].step # "transcribe" /\ requests'[r].step # "transcribe"
    BY <1>1, FilesOrSpeech
  <2>2. inFlight \in Int
    BY DEF TypeOK
  <2> QED
    BY <1>1, <2>1, <2>2 DEF Step, Counts
<1>2. CASE Speech(r)
  BY <1>2, SpeechStep DEF Step
<1> QED
  BY <1>1, <1>2

LEMMA PlacesKept ==
  ASSUME TypeOK, PlacesCounted, NEW r \in Requests, RequestStep(r), Counts(r),
         inFlight' > inFlight => inFlight < MaxConcurrency
  PROVE  PlacesCounted' /\ inFlight' \in 0 .. MaxConcurrency
<1> DEFINE before == requests[r].step = "transcribe"
           after  == requests'[r].step = "transcribe"
<1>0. inFlight \in 0 .. MaxConcurrency /\ MaxConcurrency \in Nat
  BY SpeechResultsAssumption DEF TypeOK
<1>1. IsFiniteSet(Transcribing) /\ inFlight = Cardinality(Transcribing)
  BY DEF PlacesCounted
<1>2. CASE after /\ ~ before
  <2>1. Transcribing' = Transcribing \cup {r} /\ r \notin Transcribing
    BY <1>2 DEF Transcribing, RequestStep
  <2>2. /\ IsFiniteSet(Transcribing \cup {r})
        /\ Cardinality(Transcribing \cup {r}) = Cardinality(Transcribing) + 1
    BY <1>1, <2>1, FS_AddElement
  <2>3. inFlight' = inFlight + 1
    BY <1>2 DEF Counts
  <2> QED
    BY <1>0, <1>1, <2>1, <2>2, <2>3 DEF PlacesCounted
<1>3. CASE before /\ ~ after
  <2>1. Transcribing' = Transcribing \ {r} /\ r \in Transcribing
    BY <1>3 DEF Transcribing, RequestStep
  <2>2. /\ IsFiniteSet(Transcribing \ {r})
        /\ Cardinality(Transcribing \ {r}) = Cardinality(Transcribing) - 1
    BY <1>1, <2>1, FS_RemoveElement
  <2>3. inFlight' = inFlight - 1
    BY <1>3 DEF Counts
  <2>4. Cardinality(Transcribing \ {r}) \in Nat
    BY <2>2, FS_CardinalityType
  <2> QED
    BY <1>0, <1>1, <2>1, <2>2, <2>3, <2>4 DEF PlacesCounted
<1>4. CASE before <=> after
  <2>1. Transcribing' = Transcribing
    BY <1>4 DEF Transcribing, RequestStep
  <2>2. inFlight' = inFlight
    BY <1>4 DEF Counts
  <2> QED
    BY <1>0, <1>1, <2>1, <2>2 DEF PlacesCounted
<1> QED
  BY <1>2, <1>3, <1>4

LEMMA HistoryType ==
  ASSUME TypeOK, Watch, files' \in [Keys -> Seq(Version)]
  PROVE  /\ promised' \subseteq Requests
         /\ current' \in [Requests -> SUBSET (Days \X Requests)]
         /\ lasting' \in [Requests -> SUBSET Days]
<1>1. promised' \subseteq Requests
  <2>1. promised' \subseteq promised \cup {r \in Requests : Answers(r) /\ requests[r].op = "insert"}
    BY DEF Watch
  <2>2. promised \subseteq Requests
    BY DEF TypeOK
  <2> QED
    BY <2>1, <2>2
<1>2. DaysWithWav \subseteq Days /\ LatestWavs \subseteq Days \X Requests
  BY RecordingsType
<1>3. DaysWithWav' \subseteq Days
  BY DEF DaysWithWav
<1>4. LatestWavs' \subseteq Days \X Requests
  <2>1. ASSUME NEW d \in DaysWithWav'
        PROVE  <<d, Last(files'[Recording(d)]).by>> \in Days \X Requests
    <3>1. d \in Days /\ files'[Recording(d)] # <<>>
      BY DEF DaysWithWav
    <3>2. files'[Recording(d)] \in Seq(Version)
      BY <3>1, RecordingNames
    <3>3. Last(files'[Recording(d)]) \in Version
      BY <3>1, <3>2, EmptySeq, ElementOfSeq DEF Last
    <3> QED
      BY <3>1, <3>3 DEF Version
  <2> QED
    BY <2>1 DEF LatestWavs
<1>5. ASSUME NEW r \in Requests
      PROVE  current'[r] \subseteq Days \X Requests /\ lasting'[r] \subseteq Days
  <2>1. current[r] \subseteq Days \X Requests /\ lasting[r] \subseteq Days
    BY DEF TypeOK
  <2> QED
    BY <1>2, <1>3, <1>4, <2>1, WatchedRequest
<1>6. /\ current' = [r \in Requests |-> current'[r]]
      /\ lasting' = [r \in Requests |-> lasting'[r]]
  BY Watched
<1> QED
  BY <1>1, <1>5, <1>6

LEMMA StepTypeOK ==
  ASSUME TypeOK, RequestsSound, NEW r \in Requests, Step(r), Watch,
         inFlight' \in 0 .. MaxConcurrency
  PROVE  TypeOK'
<1>1. files' \in [Keys -> Seq(Version)] /\ VersionsStep(r)
  BY StepFiles
<1>2. ASSUME NEW key \in Keys, NEW v \in Versions(key)'
      PROVE  v.content \subseteq (IF key = Combined THEN Days \X Requests ELSE Requests)
  <2>1. PICK j \in DOMAIN files'[key] : v = files'[key][j]
    BY <1>2 DEF Versions, ToSet
  <2>2. CASE \E i \in DOMAIN files[key] : files'[key][j] = files[key][i]
    BY <2>1, <2>2, FilesType
  <2>3. CASE files'[key][j] = NewVersion(r) /\ requests[r].step = "upload" /\ requests[r].key = key
    <3>1. v.content = requests[r].content
      BY <2>1, <2>3 DEF NewVersion
    <3> QED
      BY <2>3, <3>1, NewContent
  <2> QED
    BY <1>1, <2>2, <2>3 DEF VersionsStep
<1>3. requests' \in [Requests -> Request]
  BY StepIsOfOneRequest DEF RequestStep
<1>4. disturbed' \subseteq {Document, Combined}
  BY DisturbedGrows
<1> QED
  BY <1>1, <1>2, <1>3, <1>4, HistoryType DEF TypeOK

LEMMA RestartTypeOK ==
  ASSUME TypeOK, Restart, Watch
  PROVE  TypeOK'
<1>1. UNCHANGED files /\ inFlight' = 0
  BY DEF Restart
<1>2. requests' \in [Requests -> Request]
  BY Restarted DEF RestartStep
<1>3. disturbed' \subseteq {Document, Combined}
  BY DEF Restart, TypeOK
<1>4. 0 \in 0 .. MaxConcurrency
  BY SpeechResultsAssumption
<1>5. /\ files' \in [Keys -> Seq(Version)]
      /\ \A key \in Keys : \A v \in Versions(key)' :
           v.content \subseteq (IF key = Combined THEN Days \X Requests ELSE Requests)
  BY <1>1 DEF TypeOK, Versions
<1> QED
  BY <1>1, <1>2, <1>3, <1>4, <1>5, HistoryType DEF TypeOK

-----------------------------------------------------------------------------
(* Requests, versions and places.                                          *)

LEMMA RequestsStaySound ==
  ASSUME RequestsSound, NEW r \in Requests, RequestStep(r)
  PROVE  RequestsSound'
BY DEF RequestsSound, RequestStep, Sound, AtStep

LEMMA UploadsStayAnswered ==
  ASSUME TypeOK, RequestsSound, UploadsAnswered, NEW r \in Requests, Step(r)
  PROVE  UploadsAnswered'
<1>1. /\ RequestStep(r) /\ VersionsStep(r)
      /\ requests[r].step \notin Ended
  BY StepFiles, StepIsOfOneRequest, EndedRequestsRest
<1>2. SUFFICES ASSUME NEW key \in Keys, NEW j \in DOMAIN files'[key]
               PROVE  requests'[files'[key][j].by].step = "ok"
  BY DEF UploadsAnswered
<1>3. ASSUME NEW i \in DOMAIN files[key], files'[key][j] = files[key][i]
      PROVE  requests'[files'[key][j].by].step = "ok"
  <2>1. files[key][i].by \in Requests /\ requests[files[key][i].by].step = "ok"
    BY FilesType DEF UploadsAnswered
  <2>2. files[key][i].by # r
    BY <1>1, <2>1 DEF Ended
  <2> QED
    BY <1>1, <1>3, <2>1, <2>2 DEF RequestStep
<1>4. ASSUME files'[key][j] = NewVersion(r), requests'[r].step = "ok"
      PROVE  requests'[files'[key][j].by].step = "ok"
  BY <1>4 DEF NewVersion
<1> QED
  BY <1>1, <1>3, <1>4 DEF VersionsStep

\* A restart changes no file and leaves the requests that ended as they are.
LEMMA RestartKeeps ==
  ASSUME TypeOK, RequestsSound, UploadsAnswered, Restart
  PROVE  RequestsSound' /\ UploadsAnswered' /\ PlacesCounted'
<1>1. RestartStep /\ UNCHANGED files /\ inFlight' = 0
  BY Restarted DEF Restart
<1>2. RequestsSound'
  BY <1>1 DEF RestartStep, RequestsSound, Sound, Ended, AtStep
<1>3. UploadsAnswered'
  <2> SUFFICES ASSUME NEW key \in Keys, NEW i \in DOMAIN files[key]
               PROVE  requests'[files[key][i].by].step = "ok"
    BY <1>1 DEF UploadsAnswered
  <2>1. files[key][i].by \in Requests /\ requests[files[key][i].by].step = "ok"
    BY FilesType DEF UploadsAnswered
  <2>2. ~ IsRunning(files[key][i].by)
    BY <2>1 DEF IsRunning
  <2> QED
    BY <1>1, <2>1, <2>2 DEF RestartStep
<1>4. PlacesCounted'
  <2>1. Transcribing' = {}
    BY <1>1 DEF Transcribing, RestartStep, IsRunning
  <2> QED
    BY <1>1, <2>1, FS_EmptySet DEF PlacesCounted
<1> QED
  BY <1>2, <1>3, <1>4

-----------------------------------------------------------------------------
(* Combined recordings.                                                    *)

\* While a combination runs, more recordings become current and fewer days
\* are lasting.
LEMMA CombiningStep ==
  ASSUME TypeOK, Watch, NEW r \in Requests, Combining(r)
  PROVE  /\ current'[r] = current[r] \cup LatestWavs'
         /\ lasting'[r] = lasting[r] \cap DaysWithWav'
<1>1. ~ Begins(r)
  BY DEF Combining, IsRunning, Begins, Blank
<1> QED
  BY <1>1, WatchedRequest

LEMMA OthersOnTrack ==
  ASSUME TypeOK, Watch, NEW r \in Requests, RequestStep(r),
         NEW q \in Requests, q # r, OnTrack(q)
  PROVE  OnTrack(q)'
<1> SUFFICES ASSUME requests'[q].op = "combine", IsRunning(q)'
             PROVE  OnTrack(q)'
  BY DEF OnTrack
<1>1. requests'[q] = requests[q]
  BY DEF RequestStep
<1>2. Combining(q)
  BY <1>1 DEF Combining, IsRunning
<1>3. current[q] \subseteq current'[q] /\ lasting'[q] \subseteq lasting[q]
  BY <1>2, CombiningStep
<1>4. NextDay(requests'[q]) = NextDay(requests[q])
  BY <1>1
<1> QED
  BY <1>1, <1>2, <1>3, <1>4 DEF OnTrack, Combining

LEMMA SearchOnTrack ==
  ASSUME TypeOK, RequestsSound, NEW r \in Requests, OnTrack(r), Watch, TypeOK',
         SearchDay(r)
  PROVE  OnTrack(r)'
<1> DEFINE p == requests[r]
           q == requests'[r]
<1>1. /\ p.op = "combine" /\ p.day \in Days
      /\ q.step = "search" /\ q.content = p.content /\ q.day = p.day + 1
      /\ q.keys = IF files[Recording(p.day)] # <<>> THEN p.keys \cup {p.day} ELSE p.keys
  BY SearchDayStep
<1>2. Combining(r) /\ p.step = "search" /\ UNCHANGED files
  BY <1>1 DEF Combining, IsRunning, SearchDay
<1>3. /\ p.content \subseteq current[r]
      /\ \A d \in lasting[r] : d < p.day => d \in p.keys
  BY <1>2 DEF OnTrack, Combining
<1>4. /\ current[r] \subseteq current'[r]
      /\ lasting'[r] \subseteq lasting[r]
      /\ lasting'[r] \subseteq DaysWithWav'
  BY <1>2, CombiningStep
<1>5. ASSUME NEW d \in lasting'[r], d < q.day PROVE d \in q.keys
  <2>1. d \in Days /\ d \in Int /\ p.day \in Int
    BY <1>1 DEF TypeOK, Days
  <2>2. CASE d < p.day
    BY <1>1, <1>3, <1>4, <2>2
  <2>3. CASE d = p.day
    <3>1. files[Recording(d)] # <<>>
      BY <1>2, <1>4 DEF DaysWithWav
    <3> QED
      BY <1>1, <2>3, <3>1
  <2> QED
    BY <1>1, <1>5, <2>1, <2>2, <2>3
<1> QED
  BY <1>1, <1>3, <1>4, <1>5 DEF OnTrack

LEMMA EndSearchOnTrack ==
  ASSUME TypeOK, RequestsSound, NEW r \in Requests, OnTrack(r), Watch, EndSearch(r)
  PROVE  OnTrack(r)'
<1> DEFINE p == requests[r]
           q == requests'[r]
<1>1. /\ p.op = "combine" /\ p.day > TotalDays
      /\ \/ q.step = "refused"
         \/ q.step = "fetch" /\ q.content = p.content /\ q.keys = p.keys
  BY EndSearchStep
<1>2. Combining(r) /\ p.step = "search"
  BY <1>1 DEF Combining, IsRunning, EndSearch
<1>3. /\ p.content \subseteq current[r]
      /\ \A d \in lasting[r] : d < p.day => d \in p.keys
  BY <1>2 DEF OnTrack, Combining
<1>4. current[r] \subseteq current'[r] /\ lasting'[r] \subseteq lasting[r]
  BY <1>2, CombiningStep
<1>5. CASE q.step = "refused"
  BY <1>5 DEF OnTrack, IsRunning
<1>6. CASE q.step = "fetch" /\ q.content = p.content /\ q.keys = p.keys
  <2>1. \A d \in lasting'[r] : d \in q.keys
    <3> SUFFICES ASSUME NEW d \in lasting'[r] PROVE d \in q.keys
      OBVIOUS
    <3>1. d \in lasting[r] /\ d \in 1 .. TotalDays /\ p.day \in Int
      BY <1>4 DEF TypeOK, Days, Request
    <3>2. d < p.day
      BY <1>1, <3>1, FileUploadAssumption
    <3> QED
      BY <1>3, <1>6, <3>1, <3>2
  <2> QED
    BY <1>3, <1>4, <1>6, <2>1 DEF OnTrack
<1> QED
  BY <1>1, <1>5, <1>6

LEMMA FetchOnTrack ==
  ASSUME TypeOK, RequestsSound, NEW r \in Requests, OnTrack(r), Watch, FetchDay(r)
  PROVE  OnTrack(r)'
<1> DEFINE p == requests[r]
           q == requests'[r]
<1>1. /\ p.op = "combine"
      /\ \/ q.step = "failed"
         \/ /\ q.step = "fetchDownload" /\ q.content = p.content /\ q.keys = p.keys
            /\ NextDay(q) \in Days
            /\ files[Recording(NextDay(q))] # <<>>
            /\ q.found = Latest(Recording(NextDay(q)))
  BY FetchDayStep
<1>2. Combining(r) /\ p.step = "fetch" /\ UNCHANGED files
  BY <1>1 DEF Combining, IsRunning, FetchDay
<1>3. /\ p.content \subseteq current[r]
      /\ \A d \in lasting[r] : d \in p.keys \/ HasPart(p.content, d)
  BY <1>2 DEF OnTrack, Combining
<1>4. /\ current[r] \subseteq current'[r]
      /\ LatestWavs' \subseteq current'[r]
      /\ lasting'[r] \subseteq lasting[r]
  BY <1>2, CombiningStep
<1>5. CASE q.step = "failed"
  BY <1>5 DEF OnTrack, IsRunning
<1>6. CASE q.step # "failed"
  <2>1. <<NextDay(q), q.found>> \in LatestWavs
    BY <1>1, <1>6 DEF LatestWavs, DaysWithWav, Latest
  <2>2. LatestWavs' = LatestWavs
    BY <1>2 DEF LatestWavs, DaysWithWav
  <2>3. <<NextDay(q), q.found>> \in current'[r]
    BY <1>4, <2>1, <2>2
  <2> HIDE DEF q
  <2>4. /\ q.content \subseteq current'[r]
        /\ \A d \in lasting'[r] : d \in q.keys \/ HasPart(q.content, d)
    BY <1>1, <1>3, <1>4, <1>6
  <2>5. q.step = "fetchDownload"
    BY <1>1, <1>6
  <2> QED
    BY <2>3, <2>4, <2>5 DEF OnTrack, q
<1> QED
  BY <1>5, <1>6

LEMMA DownloadOnTrack ==
  ASSUME TypeOK, RequestsSound, NEW r \in Requests, OnTrack(r), Watch, DownloadDay(r)
  PROVE  OnTrack(r)'
<1> DEFINE p == requests[r]
           q == requests'[r]
           d0 == NextDay(p)
<1>1. /\ p.op = "combine"
      /\ \/ q.step = "failed"
         \/ /\ q.content = p.content \cup {<<d0, p.found>>}
            /\ q.keys = p.keys \ {d0}
            /\ q.step = IF q.keys = {} THEN "save" ELSE "fetch"
  BY DownloadDayStep
<1>2. Combining(r) /\ p.step = "fetchDownload"
  BY <1>1 DEF Combining, IsRunning, DownloadDay
<1>3. /\ p.content \subseteq current[r]
      /\ \A d \in lasting[r] : d \in p.keys \/ HasPart(p.content, d)
      /\ <<d0, p.found>> \in current[r]
  BY <1>2 DEF OnTrack, Combining
<1>4. current[r] \subseteq current'[r] /\ lasting'[r] \subseteq lasting[r]
  BY <1>2, CombiningStep
<1>5. CASE q.step = "failed"
  BY <1>5 DEF OnTrack, IsRunning
<1>6. CASE q.step # "failed"
  <2> HIDE DEF d0
  <2>1. q.content \subseteq current'[r]
    BY <1>1, <1>3, <1>4, <1>6
  <2>2. \A d \in lasting'[r] : d \in q.keys \/ HasPart(q.content, d)
    <3> SUFFICES ASSUME NEW d \in lasting'[r], d \notin q.keys PROVE HasPart(q.content, d)
      OBVIOUS
    <3>1. CASE d = d0
      <4>1. <<d0, p.found>> \in q.content /\ <<d0, p.found>>[1] = d
        BY <1>1, <1>6, <3>1
      <4> QED
        BY <4>1 DEF HasPart
    <3>2. CASE d # d0
      <4>1. HasPart(p.content, d)
        BY <1>1, <1>3, <1>4, <1>6, <3>2
      <4> QED
        BY <1>1, <1>6, <4>1 DEF HasPart
    <3> QED
      BY <3>1, <3>2
  <2>3. CASE q.keys = {}
    <3>1. q.step = "save"
      BY <1>1, <1>6, <2>3
    <3> QED
      BY <2>1, <2>2, <2>3, <3>1 DEF OnTrack
  <2>4. CASE q.keys # {}
    <3>1. q.step = "fetch"
      BY <1>1, <1>6, <2>4
    <3> QED
      BY <2>1, <2>2, <3>1 DEF OnTrack
  <2> QED
    BY <2>3, <2>4
<1> QED
  BY <1>5, <1>6

\* Between the last download and the upload.
LEMMA SavingOnTrack ==
  ASSUME TypeOK, NEW r \in Requests, OnTrack(r), Watch,
         requests[r].step \in {"save", "remove"},
         SameOperation(requests[r], requests'[r]),
         requests'[r].content = requests[r].content,
         requests'[r].step \in {"remove", "upload"}
  PROVE  OnTrack(r)'
<1> SUFFICES ASSUME requests'[r].op = "combine"
             PROVE  OnTrack(r)'
  BY DEF OnTrack
<1>1. Combining(r)
  BY DEF Combining, IsRunning, SameOperation
<1>2. /\ requests[r].content \subseteq current[r]
      /\ \A d \in lasting[r] : HasPart(requests[r].content, d)
  BY <1>1 DEF OnTrack, Combining
<1>3. current[r] \subseteq current'[r] /\ lasting'[r] \subseteq lasting[r]
  BY <1>1, CombiningStep
<1> QED
  BY <1>2, <1>3 DEF OnTrack

\* No other step of a request that goes on is one of a combination.
LEMMA StepOnTrack ==
  ASSUME TypeOK, RequestsSound, NEW r \in Requests, OnTrack(r), Watch, TypeOK', Step(r)
  PROVE  OnTrack(r)'
<1> DEFINE q == requests'[r]
<1>0. q.op # "combine" \/ q.step \in Ended => OnTrack(r)'
  BY DEF OnTrack, IsRunning, Ended
<1>1. CASE Arrival(r)
  <2> SUFFICES ASSUME q.op = "combine"
               PROVE  OnTrack(r)'
    BY <1>0
  <2>1. requests[r] = Blank /\ q.step = "search" /\ q.content = {} /\ q.day = 1
    BY <1>1, ArrivalStep DEF Arrives
  <2>2. \A d \in lasting'[r] : d < q.day => d \in q.keys
    BY <2>1 DEF TypeOK, Days
  <2> QED
    BY <2>1, <2>2 DEF OnTrack
<1>2. CASE NextCall(r)
  <2>1. CASE FindDocument(r)
    <3>1. requests[r].op \in {"insert", "deleteObject", "read"}
      BY <2>1 DEF FindDocument
    <3>2. q.op # "combine" \/ q.step \in Ended
      BY <2>1, <3>1, FindDocumentStep DEF HasObjects, SameOperation, Ended
    <3> QED
      BY <1>0, <3>2
  <2>2. CASE DownloadDocument(r)
    <3>1. q.op # "combine" \/ q.step \in Ended
      BY <2>2, DownloadDocumentStep DEF HasObjects, Ended
    <3> QED
      BY <1>0, <3>1
  <2>3. CASE FindToDelete(r)
    <3>1. q.op # "combine" \/ q.step \in Ended
      BY <2>3, FindToDeleteStep DEF SameOperation, Ended
    <3> QED
      BY <1>0, <3>1
  <2>4. CASE FindExisting(r)
    <3>1. /\ requests[r].step = "save"
          /\ SameOperation(requests[r], q) /\ q.content = requests[r].content
          /\ q.step \in {"remove", "upload"}
      BY <2>4, FindExistingStep DEF FindExisting
    <3> QED
      BY <3>1, SavingOnTrack
  <2>5. CASE Delete(r)
    <3>1. requests[r].step = "remove"
      BY <2>5 DEF Delete
    <3>2. \/ q.step \in Ended
          \/ /\ SameOperation(requests[r], q) /\ q.content = requests[r].content
             /\ q.step = "upload"
      BY <2>5, DeleteStep DEF Ended
    <3> QED
      BY <1>0, <3>1, <3>2, SavingOnTrack
  <2>6. CASE Upload(r)
    <3>1. q.step \in Ended
      BY <2>6, UploadStep DEF Ended
    <3> QED
      BY <1>0, <3>1
  <2> QED
    BY <1>2, <2>1, <2>2, <2>3, <2>4, <2>5, <2>6, SearchOnTrack, EndSearchOnTrack, FetchOnTrack,
       DownloadOnTrack DEF NextCall
<1>3. CASE ReadFails(r)
  <2>1. q.op # "combine" \/ q.step \in Ended
    BY <1>3, ReadFailsStep DEF HasObjects, Ended
  <2> QED
    BY <1>0, <2>1
<1>4. CASE Fail(r)
  <2>1. q.step \in Ended
    BY <1>4, FailStep DEF Ended
  <2> QED
    BY <1>0, <2>1
<1>5. CASE Speech(r)
  <2>1. q.op # "combine" \/ q.step \in Ended
    BY <1>5, SpeechStep
  <2> QED
    BY <1>0, <2>1
<1> QED
  BY <1>1, <1>2, <1>3, <1>4, <1>5 DEF Step

\* The history of a request that ended is kept.
LEMMA EndedHistory ==
  ASSUME TypeOK, Watch, NEW q \in Requests, requests[q].step = "ok"
  PROVE  current'[q] = current[q] /\ lasting'[q] = lasting[q]
<1>1. ~ Begins(q) /\ ~ Combining(q)
  BY DEF Begins, Combining, IsRunning, Blank
<1> QED
  BY <1>1, WatchedRequest

LEMMA StoredStaysComplete ==
  ASSUME TypeOK, UploadsAnswered, CombinedVersions, Watch, NEW i \in DOMAIN files[Combined]
  PROVE  LET v == files[Combined][i]
         IN  /\ \A d \in lasting'[v.by] : HasPart(v.content, d)
             /\ v.content \subseteq current'[v.by]
<1> DEFINE v == files[Combined][i]
<1>1. v \in Versions(Combined)
  BY DEF Versions, ToSet
<1>2. v.by \in Requests /\ requests[v.by].step = "ok"
  BY FilesType, Names DEF UploadsAnswered
<1>3. current'[v.by] = current[v.by] /\ lasting'[v.by] = lasting[v.by]
  BY <1>2, EndedHistory
<1> QED
  BY <1>1, <1>3 DEF CombinedVersions

LEMMA CombinedStaysComplete ==
  ASSUME TypeOK, RequestsSound, UploadsAnswered, CombinationsOnTrack, CombinedVersions,
         Watch, NEW r \in Requests, Step(r)
  PROVE  CombinedVersions'
<1>1. VersionsStep(r)
  BY StepFiles
<1>2. SUFFICES ASSUME NEW v \in Versions(Combined)'
               PROVE  /\ \A d \in lasting'[v.by] : HasPart(v.content, d)
                      /\ v.content \subseteq current'[v.by]
  BY DEF CombinedVersions
<1>3. PICK j \in DOMAIN files'[Combined] : v = files'[Combined][j]
  BY DEF Versions, ToSet
<1>4. ASSUME NEW i \in DOMAIN files[Combined], files'[Combined][j] = files[Combined][i]
      PROVE  /\ \A d \in lasting'[v.by] : HasPart(v.content, d)
             /\ v.content \subseteq current'[v.by]
  BY <1>3, <1>4, StoredStaysComplete
<1>5. ASSUME files'[Combined][j] = NewVersion(r), requests[r].step = "upload",
             requests[r].key = Combined
      PROVE  /\ \A d \in lasting'[v.by] : HasPart(v.content, d)
             /\ v.content \subseteq current'[v.by]
  <2>1. v.by = r /\ v.content = requests[r].content
    BY <1>3, <1>5 DEF NewVersion
  <2>2. requests[r] \in Request /\ AtStep(requests[r]) /\ Sound(requests[r])
    BY <1>5, Running DEF Ended, RequestsSound
  <2>3. requests[r].op \in {"insert", "deleteObject", "combine", "upload"}
    BY <1>5, <2>2, StepFacts DEF Ended
  <2>4. requests[r].op = "combine"
    BY <1>5, <2>2, <2>3, KeyFacts
  <2>5. Combining(r)
    BY <1>5, <2>4 DEF Combining, IsRunning
  <2>6. /\ requests[r].content \subseteq current[r]
        /\ \A d \in lasting[r] : HasPart(requests[r].content, d)
    BY <1>5, <2>5 DEF CombinationsOnTrack, OnTrack, Combining
  <2>7. current[r] \subseteq current'[r] /\ lasting'[r] \subseteq lasting[r]
    BY <2>5, CombiningStep
  <2> QED
    BY <2>1, <2>6, <2>7
<1> QED
  BY <1>1, <1>4, <1>5, Names DEF VersionsStep

LEMMA RestartStaysComplete ==
  ASSUME TypeOK, UploadsAnswered, CombinedVersions, Restart, Watch
  PROVE  CombinationsOnTrack' /\ CombinedVersions'
<1>1. RestartStep /\ UNCHANGED files
  BY Restarted DEF Restart
<1>2. \A r \in Requests : ~ IsRunning(r)'
  BY <1>1 DEF RestartStep, IsRunning
<1>3. CombinationsOnTrack'
  BY <1>2 DEF CombinationsOnTrack, OnTrack
<1>4. CombinedVersions'
  <2> SUFFICES ASSUME NEW v \in Versions(Combined)'
               PROVE  /\ \A d \in lasting'[v.by] : HasPart(v.content, d)
                      /\ v.content \subseteq current'[v.by]
    BY DEF CombinedVersions
  <2>1. PICK i \in DOMAIN files[Combined] : v = files[Combined][i]
    BY <1>1 DEF Versions, ToSet
  <2> QED
    BY <2>1, StoredStaysComplete
<1> QED
  BY <1>3, <1>4

-----------------------------------------------------------------------------
(* Undisturbed names.                                                      *)

\* A request that goes on with a name was at work on it before, unless it
\* has just arrived.
LEMMA StaysOnItsName ==
  ASSUME TypeOK, RequestsSound, NEW r \in Requests, Step(r), ~ Arrival(r),
         NEW key \in {Document, Combined}, On(r, key)'
  PROVE  On(r, key) /\ requests'[r].op = requests[r].op
<1> DEFINE p == requests[r]
           q == requests'[r]
<1>0. q.key = key /\ q.step \notin Ended /\ key \in Keys
  BY Names DEF On, IsRunning, Ended
<1>1. CASE NextCall(r)
  <2>1. IsRunning(r)
    BY <1>1 DEF NextCall, FindDocument, DownloadDocument, SearchDay, EndSearch, FetchDay,
                DownloadDay, FindExisting, FindToDelete, Delete, Upload, IsRunning
  <2>2. q.op = p.op /\ q.key = p.key
    <3>1. CASE FindDocument(r) \/ DownloadDocument(r)
      BY <1>0, <3>1, FindDocumentStep, DownloadDocumentStep DEF HasObjects, SameOperation, Ended
    <3>2. CASE SearchDay(r) \/ EndSearch(r)
      BY <1>0, <3>2, SearchDayStep, EndSearchStep DEF SameOperation, Ended
    <3>3. CASE FetchDay(r) \/ DownloadDay(r)
      BY <1>0, <3>3, FetchDayStep, DownloadDayStep DEF SameOperation, Ended
    <3>4. CASE FindExisting(r) \/ FindToDelete(r)
      BY <1>0, <3>4, FindExistingStep, FindToDeleteStep DEF SameOperation, Ended
    <3>5. CASE Delete(r) \/ Upload(r)
      BY <1>0, <3>5, DeleteStep, UploadStep DEF SameOperation, Ended
    <3> QED
      BY <1>1, <3>1, <3>2, <3>3, <3>4, <3>5 DEF NextCall
  <2> QED
    BY <1>0, <2>1, <2>2 DEF On
<1>2. CASE ReadFails(r)
  BY <1>0, <1>2, ReadFailsStep DEF HasObjects, Ended, On, ReadFails, IsRunning
<1>3. CASE Fail(r)
  BY <1>0, <1>3, FailStep DEF Ended
<1>4. CASE Speech(r)
  <2>1. AtStep(q) /\ q.op = "compare" /\ q \in Request
    BY <1>0, <1>4, SpeechStep DEF RequestStep
  <2>2. q.key = None
    BY <2>1, KeyFacts
  <2> QED
    BY <1>0, <2>2, Names
<1> QED
  BY <1>1, <1>2, <1>3, <1>4 DEF Step

LEMMA StaysAlone ==
  ASSUME TypeOK, RequestsSound, NEW r \in Requests, Step(r), RequestStep(r),
         NEW key \in {Document, Combined}, Alone(key), key \notin disturbed'
  PROVE  Alone(key)'
<1> SUFFICES ASSUME NEW q \in Requests, q # r, On(q, key)', On(r, key)'
             PROVE  requests'[q].op = "read" /\ requests'[r].op = "read"
  BY DEF Alone, On, IsRunning, RequestStep
<1>1. requests'[q] = requests[q] /\ On(q, key)
  BY DEF RequestStep, On, IsRunning
<1>2. CASE Arrival(r)
  <2>1. ~ Overlapping(r, requests'[r].op, key)
    BY <1>2, ArrivalStep DEF Arrives, On
  <2>2. {requests'[r].op, requests[q].op} = {"read"}
    BY <1>1, <2>1 DEF Overlapping, On
  <2> QED
    BY <1>1, <2>2
<1>3. CASE ~ Arrival(r)
  <2>1. On(r, key) /\ requests'[r].op = requests[r].op
    BY <1>3, StaysOnItsName
  <2> QED
    BY <1>1, <2>1 DEF Alone
<1> QED
  BY <1>2, <1>3

LEMMA FilesOfOtherNames ==
  ASSUME TypeOK, RequestsSound, NEW r \in Requests, Step(r), NEW key \in Keys,
         requests[r].key = key => ~ Delete(r) /\ ~ Upload(r)
  PROVE  files'[key] = files[key]
<1>1. CASE Delete(r)
  <2>1. \/ UNCHANGED files
        \/ \E i \in DOMAIN files[requests[r].key] :
             files' = [files EXCEPT ![requests[r].key] = RemoveAt(files[requests[r].key], i)]
    BY <1>1, DeleteStep
  <2> QED
    BY <1>1, <2>1 DEF TypeOK
<1>2. CASE Upload(r)
  <2>1. files' = [files EXCEPT ![requests[r].key] = Append(files[requests[r].key], NewVersion(r))]
    BY <1>2 DEF Upload, NewVersion
  <2> QED
    BY <1>2, <2>1 DEF TypeOK
<1>3. CASE ~ Delete(r) /\ ~ Upload(r)
  BY <1>3, FilesUnchanged
<1> QED
  BY <1>1, <1>2, <1>3

LEMMA OneVersion ==
  ASSUME NEW s \in Seq(Version), Len(s) <= 1, s # <<>>
  PROVE  Len(s) = 1 /\ DOMAIN s = 1 .. 1
<1> DEFINE n == Len(s)
<1>1. n \in Nat /\ n # 0 /\ n <= 1
  BY EmptySeq
<1>2. n = 1
  <2> HIDE DEF n
  <2> QED
    BY <1>1
<1> QED
  BY <1>2

\* An undisturbed name has no version once its only one is deleted ...
LEMMA DeleteInTurn ==
  ASSUME TypeOK, RequestsSound, NEW r \in Requests, Delete(r),
         InTurn(requests[r].key)
  PROVE  LET key == requests[r].key
         IN  /\ files'[key] = <<>>
             /\ \/ requests[r].op \in {"deleteFile", "deleteAudio"} /\ requests'[r].step = "ok"
                \/ /\ requests[r].op \in {"insert", "deleteObject", "combine"}
                   /\ SameOperation(requests[r], requests'[r])
                   /\ requests'[r].content = requests[r].content
                   /\ requests'[r].step = "upload"
<1> DEFINE key == requests[r].key
<1>1. On(r, key) /\ requests[r].step = "remove"
  BY DEF Delete, On, IsRunning
<1>2. key \in Keys
  BY DeleteStep
<1>3. /\ files[key] # <<>> /\ files[key][1].by = requests[r].found
      /\ Len(files[key]) <= 1
  BY <1>1 DEF InTurn
<1>4. Len(files[key]) = 1 /\ DOMAIN files[key] = 1 .. 1
  <2>1. files[key] \in Seq(Version)
    BY <1>2, FilesType
  <2> QED
    BY <1>3, <2>1, OneVersion
<1>5. /\ \E i \in DOMAIN files[key] :
           files' = [files EXCEPT ![key] = RemoveAt(files[key], i)]
      /\ \/ requests[r].op \in {"deleteFile", "deleteAudio"} /\ requests'[r].step = "ok"
         \/ /\ requests[r].op \in {"insert", "deleteObject", "combine"}
            /\ SameOperation(requests[r], requests'[r])
            /\ requests'[r].content = requests[r].content
            /\ requests'[r].step = "upload"
  BY <1>3, <1>4, DeleteStep
<1> HIDE DEF key
<1>6. files'[key] \in Seq(Version) /\ Len(files'[key]) = Len(files[key]) - 1
  BY <1>2, <1>5, DeleteFiles
<1>7. files'[key] = <<>>
  BY <1>4, <1>6, EmptySeq
<1> QED
  BY <1>5, <1>7 DEF key

\* ... and one once the next is uploaded.
LEMMA UploadInTurn ==
  ASSUME TypeOK, RequestsSound, NEW r \in Requests, Upload(r),
         InTurn(requests[r].key)
  PROVE  LET key == requests[r].key
         IN  /\ files'[key] \in Seq(Version)
             /\ Len(files'[key]) = 1 /\ files'[key][1] = NewVersion(r)
             /\ requests'[r].step = "ok"
<1> DEFINE key == requests[r].key
<1>1. On(r, key) /\ requests[r].step = "upload"
  BY DEF Upload, On, IsRunning
<1>2. files[key] = <<>>
  BY <1>1 DEF InTurn
<1>3. /\ key \in Keys /\ NewVersion(r) \in Version /\ requests'[r].step = "ok"
      /\ files' = [files EXCEPT ![key] = Append(files[key], NewVersion(r))]
  BY UploadStep DEF NewVersion
<1> HIDE DEF key
<1>4. /\ files'[key] \in Seq(Version)
      /\ Len(files'[key]) = Len(files[key]) + 1
      /\ files'[key][Len(files[key]) + 1] = NewVersion(r)
  BY <1>3, UploadFiles
<1>5. Len(files[key]) = 0
  BY <1>2
<1> QED
  BY <1>3, <1>4, <1>5 DEF key

\* What a request on an undisturbed name knows of it after a step that
\* leaves the files alone.
LEMMA OwnTurn ==
  ASSUME TypeOK, RequestsSound, NEW r \in Requests, Step(r), ~ Delete(r), ~ Upload(r),
         NEW key \in {Document, Combined}, InTurn(key), On(r, key)'
  PROVE  /\ requests'[r].step \in {"download", "remove"} =>
              files[key] # <<>> /\ files[key][1].by = requests'[r].found
         /\ requests'[r].step = "upload" => files[key] = <<>>
<1> DEFINE p == requests[r]
           q == requests'[r]
<1>0. q.key = key /\ key \in Keys /\ q.step \notin Ended
  BY Names DEF On, IsRunning, Ended
<1>1. files[key] # <<>> => Latest(key) = files[key][1].by
  <2>1. files[key] \in Seq(Version) /\ Len(files[key]) <= 1
    BY <1>0, FilesType DEF InTurn
  <2>2. files[key] # <<>> => Len(files[key]) = 1
    BY <2>1, OneVersion
  <2> QED
    BY <1>0, <2>2, LatestFacts
<1>2. CASE Arrival(r)
  <2>1. AtStep(q) /\ q.step \in {"find", "upload", "search"} /\ (q.step = "upload" <=> q.op = "upload")
    BY <1>2, ArrivalStep DEF Arrives
  <2>2. q \in Request
    BY <1>2, ArrivalStep DEF RequestStep
  <2>3. q.op # "upload"
    BY <1>0, <2>1, <2>2, KeyFacts
  <2> QED
    BY <2>1, <2>3
<1>3. CASE FindDocument(r)
  <2>1. p \in Request /\ AtStep(p) /\ p.op \in {"insert", "deleteObject", "read"}
    BY <1>3, Running DEF FindDocument, Ended
  <2>2. p.key = Document
    BY <2>1, KeyFacts
  <2>3. \/ q.step \in {"save", "refused", "ok"}
        \/ /\ files[Document] # <<>> /\ q.key = p.key
           /\ q.step = "download" /\ q.found = Latest(Document)
    BY <1>3, FindDocumentStep DEF HasObjects, SameOperation
  <2> QED
    BY <1>0, <1>1, <2>2, <2>3
<1>4. CASE DownloadDocument(r) \/ ReadFails(r)
  <2>1. q.step \in {"save", "refused", "ok"}
    BY <1>4, DownloadDocumentStep, ReadFailsStep DEF HasObjects
  <2> QED
    BY <2>1
<1>5. CASE SearchDay(r) \/ EndSearch(r)
  BY <1>5, SearchDayStep, EndSearchStep
<1>6. CASE FetchDay(r) \/ DownloadDay(r)
  BY <1>6, FetchDayStep, DownloadDayStep
<1>7. CASE FindExisting(r)
  BY <1>0, <1>1, <1>7, FindExistingStep DEF SameOperation
<1>8. CASE FindToDelete(r)
  BY <1>0, <1>1, <1>8, FindToDeleteStep DEF SameOperation
<1>9. CASE Fail(r)
  BY <1>9, FailStep
<1>10. CASE Speech(r)
  <2>1. AtStep(q) /\ q.op = "compare"
    BY <1>0, <1>10, SpeechStep
  <2> QED
    BY <2>1 DEF AtStep, StepsOf
<1> QED
  BY <1>2, <1>3, <1>4, <1>5, <1>6, <1>7, <1>8, <1>9, <1>10 DEF Step, NextCall

LEMMA StaysInTurn ==
  ASSUME TypeOK, RequestsSound, NEW r \in Requests, Step(r),
         NEW key \in {Document, Combined}, InTurn(key), key \notin disturbed'
  PROVE  InTurn(key)'
<1>1. RequestStep(r)
  BY StepIsOfOneRequest
<1>2. Alone(key)'
  BY <1>1, StaysAlone DEF InTurn
<1>3. CASE requests[r].key = key /\ (Delete(r) \/ Upload(r))
  <2>1. On(r, key) /\ requests[r].op # "read"
    <3>1. IsRunning(r)
      BY <1>3 DEF Delete, Upload, IsRunning
    <3>2. AtStep(requests[r]) /\ requests[r].step \in {"remove", "upload"}
      BY <1>3, DeleteStep, UploadStep DEF Delete, Upload
    <3> QED
      BY <1>3, <3>1, <3>2 DEF On, AtStep, StepsOf
  <2>2. \A q \in Requests \ {r} : ~ On(q, key)
    BY <2>1 DEF InTurn, Alone
  <2>3. \A q \in Requests \ {r} : ~ On(q, key)'
    BY <1>1, <2>2 DEF RequestStep, On, IsRunning
  <2>4. CASE Delete(r)
    <3>1. /\ files'[key] = <<>>
          /\ requests'[r].step \in {"ok", "upload"}
      BY <1>3, <2>4, DeleteInTurn
    <3> QED
      BY <1>2, <2>3, <3>1 DEF InTurn
  <2>5. CASE Upload(r)
    <3>1. Len(files'[key]) = 1 /\ requests'[r].step = "ok"
      BY <1>3, <2>5, UploadInTurn
    <3>2. ~ On(r, key)'
      BY <3>1 DEF On, IsRunning
    <3> QED
      BY <1>2, <2>3, <3>1, <3>2 DEF InTurn
  <2> QED
    BY <1>3, <2>4, <2>5
<1>4. CASE ~ (requests[r].key = key /\ (Delete(r) \/ Upload(r)))
  <2>1. files'[key] = files[key]
    BY <1>4, FilesOfOtherNames, Names
  <2>2. ASSUME NEW q \in Requests \ {r}, On(q, key)'
        PROVE  /\ requests'[q].step \in {"download", "remove"} =>
                    files[key] # <<>> /\ files[key][1].by = requests'[q].found
               /\ requests'[q].step = "upload" => files[key] = <<>>
    <3>1. requests'[q] = requests[q] /\ On(q, key)
      BY <1>1, <2>2 DEF RequestStep, On, IsRunning
    <3> QED
      BY <3>1 DEF InTurn
  <2>3. ASSUME On(r, key)'
        PROVE  /\ requests'[r].step \in {"download", "remove"} =>
                    files[key] # <<>> /\ files[key][1].by = requests'[r].found
               /\ requests'[r].step = "upload" => files[key] = <<>>
    <3>1. CASE Delete(r) \/ Upload(r)
      <4>1. ~ Arrival(r)
        BY <3>1, ArrivalStep DEF Delete, Upload, Arrives, Blank
      <4>2. On(r, key)
        BY <2>3, <4>1, StaysOnItsName
      <4> QED
        BY <1>4, <3>1, <4>2 DEF On
    <3>2. CASE ~ Delete(r) /\ ~ Upload(r)
      BY <2>3, <3>2, OwnTurn
    <3> QED
      BY <3>1, <3>2
  <2> QED
    BY <1>2, <2>1, <2>2, <2>3 DEF InTurn
<1> QED
  BY <1>3, <1>4

LEMMA StaysUndisturbed ==
  ASSUME TypeOK, RequestsSound, Undisturbed, NEW r \in Requests, Step(r)
  PROVE  Undisturbed'
<1>1. disturbed \subseteq disturbed'
  BY DisturbedGrows
<1> QED
  BY <1>1, StaysInTurn DEF Undisturbed

LEMMA RestartStaysUndisturbed ==
  ASSUME TypeOK, Undisturbed, Restart
  PROVE  Undisturbed'
<1>1. RestartStep /\ UNCHANGED files /\ disturbed \subseteq disturbed'
  BY Restarted DEF Restart
<1>2. \A r \in Requests : ~ IsRunning(r)'
  BY <1>1 DEF RestartStep, IsRunning
<1>3. \A key : ~ \E r \in Requests : On(r, key)'
  BY <1>2 DEF On
<1> QED
  BY <1>1, <1>3 DEF Undisturbed, InTurn, Alone

-----------------------------------------------------------------------------
(* The document.                                                           *)

LEMMA ContentOfOneVersion ==
  ASSUME NEW s \in Seq(Version), Len(s) <= 1
  PROVE  /\ s = <<>> => UNION {v.content : v \in ToSet(s)} = {}
         /\ s # <<>> => UNION {v.content : v \in ToSet(s)} = s[1].content
<1>1. CASE s = <<>>
  <2>1. ToSet(s) = {}
    BY <1>1 DEF ToSet
  <2> QED
    BY <1>1, <2>1
<1>2. CASE s # <<>>
  <2>1. DOMAIN s = 1 .. 1
    BY <1>2, OneVersion
  <2>2. ToSet(s) = {s[1]}
    BY <2>1 DEF ToSet
  <2>3. {v.content : v \in ToSet(s)} = {s[1].content}
    BY <2>2
  <2> QED
    BY <1>2, <2>3
<1> QED
  BY <1>1, <1>2

LEMMA HeldByOneVersion ==
  ASSUME TypeOK, InTurn(Document)
  PROVE  /\ files[Document] = <<>> => Held = {}
         /\ files[Document] # <<>> => Held = files[Document][1].content
<1>1. files[Document] \in Seq(Version) /\ Len(files[Document]) <= 1
  BY FilesType, Names DEF InTurn
<1> QED
  BY <1>1, ContentOfOneVersion DEF Held, Versions

NobodyUploads == \A q \in Requests : On(q, Document) => requests[q].step # "upload"

\* Whoever finds or downloads the undisturbed document is not overtaken.
LEMMA NobodyUploadsMeanwhile ==
  ASSUME TypeOK, RequestsSound, InTurn(Document), NEW r \in Requests, On(r, Document),
         requests[r].step # "upload"
  PROVE  NobodyUploads
<1> SUFFICES ASSUME NEW q \in Requests, q # r, On(q, Document)
             PROVE  requests[q].step # "upload"
  BY DEF NobodyUploads
<1>1. requests[q].op = "read"
  BY DEF InTurn, Alone
<1>2. AtStep(requests[q])
  BY Running DEF On, IsRunning, Ended
<1> QED
  BY <1>1, <1>2 DEF AtStep, StepsOf

\* A step that changes neither the document nor what was promised.
LEMMA KeepsPromise ==
  ASSUME Promising, NEW r \in Requests, RequestStep(r),
         On(r, Document) => requests[r].step # "upload",
         files'[Document] = files[Document], promised' = promised,
         Edits(r)' => requests'[r].content = Edited(r)'
  PROVE  Promising'
<1>1. \A q \in Requests \ {r} :
        /\ requests'[q] = requests[q]
        /\ On(q, Document)' <=> On(q, Document)
        /\ Edits(q)' <=> Edits(q)
        /\ Edited(q)' = Edited(q)
  BY DEF RequestStep, On, IsRunning, Edits, Edited
<1>2. \A q \in Requests : Edits(q)' => requests'[q].content = Edited(q)'
  BY <1>1 DEF Promising
<1>3. Held' = Held
  BY DEF Held, Versions
<1>4. ASSUME \A q \in Requests : On(q, Document)' => requests'[q].step # "upload"
      PROVE  promised' = Held'
  <2>1. \A q \in Requests : On(q, Document) => requests[q].step # "upload"
    BY <1>1, <1>4
  <2> QED
    BY <1>3, <2>1 DEF Promising
<1> QED
  BY <1>2, <1>4 DEF Promising

\* The objects an operation has are the promised ones.
LEMMA ObjectsArePromised ==
  ASSUME TypeOK, RequestsSound, InTurn(Document), Promising, NEW r \in Requests,
         FindDocument(r) \/ DownloadDocument(r)
  PROVE  \/ HasObjects(r, promised)
         \/ /\ requests'[r].step = "download"
            /\ SameOperation(requests[r], requests'[r])
<1> DEFINE p == requests[r]
<1>1. p \in Request /\ AtStep(p) /\ Sound(p) /\ p.step \in {"find", "download"}
  BY Running DEF FindDocument, DownloadDocument, Ended, RequestsSound
<1>2. p.op \in {"insert", "deleteObject", "read"}
  BY <1>1, StepFacts DEF FindDocument, Ended, DownloadDocument
<1>3. On(r, Document)
  BY <1>1, <1>2, KeyFacts DEF On, IsRunning
<1>4. promised = Held
  <2>1. NobodyUploads
    BY <1>1, <1>3, NobodyUploadsMeanwhile
  <2> QED
    BY <2>1 DEF NobodyUploads, Promising
<1>5. CASE FindDocument(r)
  BY <1>4, <1>5, FindDocumentStep, HeldByOneVersion
<1>6. CASE DownloadDocument(r)
  <2>1. files[Document] # <<>> /\ files[Document][1].by = p.found
    BY <1>3, <1>6 DEF InTurn, DownloadDocument
  <2>2. DOMAIN files[Document] = 1 .. 1
    <3>1. files[Document] \in Seq(Version) /\ Len(files[Document]) <= 1
      BY FilesType, Names DEF InTurn
    <3> QED
      BY <2>1, <3>1, OneVersion
  <2>3. Held = files[Document][1].content
    BY <2>1, HeldByOneVersion
  <2>4. HasObjects(r, files[Document][1].content)
    <3>1. \E i \in DOMAIN files[Document] : files[Document][i].by = p.found
      BY <2>1, <2>2
    <3>2. PICK i \in DOMAIN files[Document] : HasObjects(r, files[Document][i].content)
      BY <1>6, <3>1, DownloadDocumentStep
    <3>3. i = 1
      BY <2>2
    <3> QED
      BY <3>2, <3>3
  <2> QED
    BY <1>4, <2>3, <2>4
<1> QED
  BY <1>5, <1>6

\* Only deletions and uploads are answers that promise anything.
LEMMA PromisesUnchanged ==
  ASSUME TypeOK, RequestsSound, Watch, NEW r \in Requests, Step(r),
         ~ Delete(r), ~ Upload(r)
  PROVE  promised' = promised
<1> DEFINE p == requests[r]
           q == requests'[r]
<1>0. ~ Answers(r) \/ p.op \in {"read", "compare"}
  <2>1. CASE Arrival(r)
    BY <2>1, ArrivalStep DEF Arrives, Answers
  <2>2. CASE FindDocument(r) \/ DownloadDocument(r) \/ ReadFails(r)
    BY <2>2, FindDocumentStep, DownloadDocumentStep, ReadFailsStep DEF HasObjects, Answers
  <2>3. CASE SearchDay(r) \/ EndSearch(r)
    BY <2>3, SearchDayStep, EndSearchStep DEF Answers
  <2>4. CASE FetchDay(r) \/ DownloadDay(r)
    BY <2>4, FetchDayStep, DownloadDayStep DEF Answers
  <2>5. CASE FindExisting(r) \/ FindToDelete(r)
    BY <2>5, FindExistingStep, FindToDeleteStep DEF Answers
  <2>6. CASE Fail(r)
    BY <2>6, FailStep DEF Answers
  <2>7. CASE Speech(r)
    BY <2>7, SpeechStep DEF Answers, IsRunning, Blank
  <2> QED
    BY <2>1, <2>2, <2>3, <2>4, <2>5, <2>6, <2>7 DEF Step, NextCall
<1>1. RequestStep(r)
  BY StepIsOfOneRequest
<1> QED
  BY <1>0, <1>1, PromisedStep

\* What a request is about to save after a step that is no deletion.
LEMMA OwnEdit ==
  ASSUME TypeOK, RequestsSound, InTurn(Document), Promising, Watch, NEW r \in Requests, Step(r),
         ~ Delete(r), ~ Upload(r), Document \notin disturbed', Edits(r)'
  PROVE  requests'[r].content = Edited(r)'
<1> DEFINE p == requests[r]
           q == requests'[r]
<1>0. /\ q.op \in {"insert", "deleteObject"} /\ q.key = Document
      /\ q.step \in {"save", "remove", "upload"}
      /\ promised' = promised
  BY PromisesUnchanged DEF Edits, On
<1>1. CASE Arrival(r)
  BY <1>0, <1>1, ArrivalStep DEF Arrives
<1>2. CASE FindDocument(r) \/ DownloadDocument(r)
  <2>1. HasObjects(r, promised)
    BY <1>0, <1>2, ObjectsArePromised
  <2> QED
    BY <1>0, <2>1 DEF HasObjects, Edited
<1>3. CASE ReadFails(r)
  BY <1>3 DEF ReadFails
<1>4. CASE SearchDay(r) \/ EndSearch(r)
  BY <1>0, <1>4, SearchDayStep, EndSearchStep
<1>5. CASE FetchDay(r) \/ DownloadDay(r)
  BY <1>0, <1>5, FetchDayStep, DownloadDayStep DEF SameOperation
<1>6. CASE FindExisting(r)
  <2>1. /\ p.step = "save" /\ IsRunning(r)
        /\ SameOperation(p, q) /\ q.content = p.content
    BY <1>6, FindExistingStep DEF FindExisting, IsRunning
  <2>2. Edits(r) /\ Edited(r)' = Edited(r)
    BY <1>0, <2>1 DEF Edits, On, SameOperation, Edited
  <2> QED
    BY <2>1, <2>2 DEF Promising
<1>7. CASE FindToDelete(r)
  BY <1>0, <1>7, FindToDeleteStep DEF SameOperation
<1>8. CASE Fail(r)
  BY <1>0, <1>8, FailStep
<1>9. CASE Speech(r)
  BY <1>0, <1>9, SpeechStep DEF Ended
<1> QED
  BY <1>1, <1>2, <1>3, <1>4, <1>5, <1>6, <1>7, <1>8, <1>9 DEF Step, NextCall

\* A request of another name keeps the document and the promises.
LEMMA OffTheDocument ==
  ASSUME TypeOK, RequestsSound, Promising, Watch, NEW r \in Requests, Step(r),
         Delete(r) \/ Upload(r), requests[r].key # Document
  PROVE  Promising'
<1> DEFINE p == requests[r]
           q == requests'[r]
<1>1. RequestStep(r)
  BY StepIsOfOneRequest
<1>2. p \in Request /\ AtStep(p)
  BY DeleteStep, UploadStep DEF TypeOK
<1>3. p.op \notin {"insert", "deleteObject", "deleteFile"}
  BY <1>2, KeyFacts
<1>4. promised' = promised
  BY <1>1, <1>3, PromisedStep
<1>5. files'[Document] = files[Document]
  BY FilesOfOtherNames, Names
<1>6. ~ Edits(r)'
  <2>1. ~ Arrival(r)
    BY ArrivalStep DEF Delete, Upload, Arrives, Blank
  <2>2. ~ On(r, Document)'
    BY <2>1, StaysOnItsName DEF On
  <2> QED
    BY <2>2 DEF Edits
<1> QED
  BY <1>1, <1>4, <1>5, <1>6, KeepsPromise DEF On

\* Nobody else is at work on the document while it is changed.
LEMMA AloneOnTheDocument ==
  ASSUME TypeOK, RequestsSound, InTurn(Document), NEW r \in Requests, RequestStep(r),
         Delete(r) \/ Upload(r), requests[r].key = Document
  PROVE  /\ On(r, Document) /\ AtStep(requests[r])
         /\ requests[r].op \in {"insert", "deleteObject", "deleteFile"}
         /\ \A q \in Requests \ {r} : ~ On(q, Document)'
<1>1. AtStep(requests[r]) /\ requests[r] \in Request
  BY DeleteStep, UploadStep DEF TypeOK
<1>2. On(r, Document)
  BY DEF On, Delete, Upload, IsRunning
<1>3. requests[r].op \in {"insert", "deleteObject", "deleteFile", "read"}
  BY <1>1, KeyFacts
<1>4. requests[r].op # "read"
  BY <1>1 DEF AtStep, StepsOf, Delete, Upload
<1>5. \A q \in Requests \ {r} : ~ On(q, Document)
  BY <1>2, <1>4 DEF InTurn, Alone
<1>6. \A q \in Requests \ {r} : ~ On(q, Document)'
  BY <1>5 DEF RequestStep, On, IsRunning
<1> QED
  BY <1>1, <1>2, <1>3, <1>4, <1>6

LEMMA DeleteKeepsPromise ==
  ASSUME TypeOK, RequestsSound, InTurn(Document), Promising, Watch, NEW r \in Requests, Step(r),
         Delete(r), requests[r].key = Document
  PROVE  Promising'
<1> DEFINE p == requests[r]
           q == requests'[r]
<1>1. RequestStep(r)
  BY StepIsOfOneRequest
<1>2. /\ On(r, Document)
      /\ p.op \in {"insert", "deleteObject", "deleteFile"}
      /\ \A o \in Requests \ {r} : ~ On(o, Document)'
  BY <1>1, AloneOnTheDocument
<1>3. /\ files'[Document] = <<>>
      /\ \/ p.op \in {"deleteFile", "deleteAudio"} /\ q.step = "ok"
         \/ /\ p.op \in {"insert", "deleteObject", "combine"}
            /\ SameOperation(p, q) /\ q.content = p.content /\ q.step = "upload"
  BY DeleteInTurn
<1>4. CASE p.op = "deleteFile"
  <2>1. q.step = "ok" /\ Answers(r)
    BY <1>2, <1>3, <1>4 DEF Answers, On
  <2>2. promised' = promised \ Requests
    BY <1>1, <1>4, <2>1, PromisedStep
  <2>3. promised' = {}
    BY <2>2 DEF TypeOK
  <2>4. Held' = {}
    <3>1. Versions(Document)' = {}
      BY <1>3 DEF Versions, ToSet
    <3> QED
      BY <3>1 DEF Held
  <2>5. ~ On(r, Document)'
    BY <2>1 DEF On, IsRunning
  <2> QED
    BY <1>2, <2>3, <2>4, <2>5 DEF Promising, Edits
<1>5. CASE p.op \in {"insert", "deleteObject"}
  <2>1. SameOperation(p, q) /\ q.content = p.content /\ q.step = "upload"
    BY <1>3, <1>5
  <2>2. promised' = promised
    BY <1>1, <2>1, PromisedStep DEF Answers
  <2>3. Edits(r) /\ Edited(r)' = Edited(r)
    BY <1>2, <1>5, <2>1, <2>2 DEF Edits, Delete, Edited, SameOperation
  <2>4. q.content = Edited(r)'
    BY <2>1, <2>3 DEF Promising
  <2>5. On(r, Document)'
    BY <1>2, <2>1 DEF On, IsRunning, SameOperation
  <2> QED
    BY <1>2, <2>1, <2>4, <2>5 DEF Promising, Edits
<1> QED
  BY <1>2, <1>4, <1>5

LEMMA UploadKeepsPromise ==
  ASSUME TypeOK, RequestsSound, InTurn(Document), Promising, Watch, NEW r \in Requests, Step(r),
         Upload(r), requests[r].key = Document
  PROVE  Promising'
<1> DEFINE p == requests[r]
           q == requests'[r]
<1>1. RequestStep(r)
  BY StepIsOfOneRequest
<1>2. /\ On(r, Document) /\ AtStep(p)
      /\ p.op \in {"insert", "deleteObject", "deleteFile"}
      /\ \A o \in Requests \ {r} : ~ On(o, Document)'
  BY <1>1, AloneOnTheDocument
<1>3. p.step = "upload" /\ p.op \in {"insert", "deleteObject"}
  BY <1>2 DEF Upload, AtStep, StepsOf
<1>4. /\ files'[Document] \in Seq(Version)
      /\ Len(files'[Document]) = 1 /\ files'[Document][1] = NewVersion(r)
      /\ q.step = "ok"
  BY UploadInTurn
<1>5. Held' = p.content
  <2>1. files'[Document] # <<>>
    BY <1>4
  <2>2. UNION {v.content : v \in ToSet(files'[Document])} = files'[Document][1].content
    <3> DEFINE s == files'[Document]
    <3>1. s \in Seq(Version) /\ Len(s) <= 1 /\ s # <<>>
      BY <1>4, <2>1
    <3> HIDE DEF s
    <3>2. UNION {v.content : v \in ToSet(s)} = s[1].content
      BY <3>1, ContentOfOneVersion
    <3> QED
      BY <3>2 DEF s
  <2>3. Held' = NewVersion(r).content
    BY <1>4, <2>2 DEF Held, Versions
  <2> QED
    BY <2>3 DEF NewVersion
<1>6. p.content = Edited(r)
  <2>1. Edits(r)
    BY <1>2, <1>3 DEF Edits
  <2> QED
    BY <2>1 DEF Promising
<1>7. promised' = Edited(r)
  <2>1. Answers(r)
    BY <1>2, <1>4 DEF Answers, On
  <2>2. CASE p.op = "insert"
    BY <1>1, <2>1, <2>2, PromisedStep DEF Edited
  <2>3. CASE p.op = "deleteObject"
    BY <1>1, <2>1, <2>3, PromisedStep DEF Edited
  <2> QED
    BY <1>3, <2>2, <2>3
<1>8. ~ On(r, Document)'
  BY <1>4 DEF On, IsRunning
<1> QED
  BY <1>2, <1>5, <1>6, <1>7, <1>8 DEF Promising, Edits

LEMMA DocumentStaysKept ==
  ASSUME TypeOK, RequestsSound, Undisturbed, DocumentKept, Watch, NEW r \in Requests, Step(r)
  PROVE  DocumentKept'
<1> SUFFICES ASSUME Document \notin disturbed'
             PROVE  Promising'
  BY DEF DocumentKept
<1>1. InTurn(Document) /\ Promising
  BY DisturbedGrows DEF Undisturbed, DocumentKept
<1>2. CASE Delete(r) \/ Upload(r)
  BY <1>1, <1>2, OffTheDocument, DeleteKeepsPromise, UploadKeepsPromise
<1>3. CASE ~ Delete(r) /\ ~ Upload(r)
  <2>1. RequestStep(r) /\ promised' = promised
    BY <1>3, StepIsOfOneRequest, PromisesUnchanged
  <2>2. files'[Document] = files[Document]
    BY <1>3, FilesUnchanged
  <2>3. On(r, Document) => requests[r].step # "upload"
    <3>1. requests[r].step = "upload" => \/ Fail(r)
                                         \/ ~ IsRunning(r)
      <4>1. CASE Arrival(r)
        BY <4>1, ArrivalStep DEF Arrives, Blank
      <4>2. CASE NextCall(r)
        BY <1>3, <4>2 DEF NextCall, FindDocument, DownloadDocument, SearchDay, EndSearch, FetchDay,
                          DownloadDay, FindExisting, FindToDelete
      <4>3. CASE ReadFails(r)
        BY <4>3 DEF ReadFails
      <4>4. CASE Speech(r)
        BY <4>4 DEF Speech, compareSpeakTranscript, LookAgain, FinishTranscription, Blank
      <4> QED
        BY <4>1, <4>2, <4>3, <4>4 DEF Step
    <3>2. Fail(r) => requests[r].key # Document
      BY DEF Fail
    <3> QED
      BY <3>1, <3>2 DEF On
  <2>4. Edits(r)' => requests'[r].content = Edited(r)'
    BY <1>1, <1>3, OwnEdit
  <2> QED
    BY <1>1, <2>1, <2>2, <2>3, <2>4, KeepsPromise
<1> QED
  BY <1>2, <1>3

LEMMA RestartStaysKept ==
  ASSUME TypeOK, DocumentKept, Restart, Watch
  PROVE  DocumentKept'
<1>1. RestartStep /\ UNCHANGED files /\ disturbed \subseteq disturbed'
  BY Restarted DEF Restart
<1> SUFFICES ASSUME Document \notin disturbed'
             PROVE  Promising'
  BY DEF DocumentKept
<1>2. \A r \in Requests : ~ On(r, Document) /\ ~ On(r, Document)'
  <2>1. \A r \in Requests : ~ IsRunning(r)'
    BY <1>1 DEF RestartStep, IsRunning
  <2> QED
    BY <1>1, <2>1 DEF RestartStep, On
<1>3. promised = Held
  BY <1>1, <1>2 DEF DocumentKept, Promising
<1>4. promised' = promised
  <2>1. \A r \in Requests : ~ Answers(r)
    BY <1>1 DEF RestartStep, Answers
  <2>2. {r \in Requests : Answers(r) /\ requests[r].op = "insert"} = {}
    BY <2>1
  <2>3. {q \in Requests : Answers(q)} = {}
    BY <2>1
  <2> QED
    BY <2>2, <2>3 DEF Watch
<1>5. Held' = Held
  BY <1>1 DEF Held, Versions
<1> QED
  BY <1>2, <1>3, <1>4, <1>5 DEF Promising, Edits

-----------------------------------------------------------------------------
(* The inductive invariant.                                                *)

LEMMA InitIInv == Init => IInv
<1> SUFFICES ASSUME Init PROVE IInv
  OBVIOUS
<1>1. \A r \in Requests : requests[r] = Blank /\ ~ IsRunning(r)
  BY DEF Init, IsRunning, Blank
<1>2. \A key \in Keys :
        /\ files[key] = <<>> /\ DOMAIN files[key] = {} /\ Len(files[key]) = 0
        /\ Versions(key) = {}
  <2>1. \A key \in Keys : files[key] = <<>>
    BY DEF Init
  <2>2. DOMAIN <<>> = {} /\ Len(<<>>) = 0 /\ ToSet(<<>>) = {}
    BY DEF ToSet
  <2> QED
    BY <2>1, <2>2 DEF Versions
<1>3. TypeOK
  <2>1. files \in [Keys -> Seq(Version)]
    BY DEF Init
  <2>2. requests \in [Requests -> Request]
    BY BlankType DEF Init
  <2>3. inFlight \in 0 .. MaxConcurrency
    BY SpeechResultsAssumption DEF Init
  <2> QED
    BY <1>2, <2>1, <2>2, <2>3 DEF Init, TypeOK
<1>4. RequestsSound
  BY <1>1 DEF RequestsSound, Sound
<1>5. UploadsAnswered
  BY <1>2 DEF UploadsAnswered
<1>6. PlacesCounted
  <2>1. Transcribing = {}
    BY <1>1 DEF Transcribing, Blank
  <2> QED
    BY <2>1, FS_EmptySet DEF PlacesCounted, Init
<1>7. CombinationsOnTrack
  BY <1>1 DEF CombinationsOnTrack, OnTrack
<1>8. CombinedVersions
  BY <1>2, Names DEF CombinedVersions
<1>9. Undisturbed
  BY <1>1, <1>2, Names DEF Undisturbed, InTurn, Alone, On
<1>10. DocumentKept
  <2>1. promised = Held
    BY <1>2, Names DEF Held, Init
  <2> QED
    BY <1>1, <2>1 DEF DocumentKept, Promising, Edits, On
<1> QED
  BY <1>3, <1>4, <1>5, <1>6, <1>7, <1>8, <1>9, <1>10 DEF IInv

LEMMA StepKeepsIInv ==
  ASSUME IInv, Watch, NEW r \in Requests,
         \/ (Arrival(r) \/ NextCall(r) \/ ReadFails(r) \/ Fail(r)) /\ UNCHANGED inFlight
         \/ Speech(r)
  PROVE  IInv'
<1>1. /\ TypeOK /\ RequestsSound /\ UploadsAnswered /\ PlacesCounted
      /\ CombinationsOnTrack /\ CombinedVersions /\ Undisturbed /\ DocumentKept
  BY DEF IInv
<1>2. Step(r) /\ Counts(r) /\ (inFlight' > inFlight => inFlight < MaxConcurrency)
  BY <1>1, PlacesStep
<1>3. RequestStep(r)
  BY <1>1, <1>2, StepIsOfOneRequest
<1>4. PlacesCounted' /\ inFlight' \in 0 .. MaxConcurrency
  BY <1>1, <1>2, <1>3, PlacesKept
<1>5. TypeOK'
  BY <1>1, <1>2, <1>4, StepTypeOK
<1>6. RequestsSound'
  BY <1>1, <1>3, RequestsStaySound
<1>7. UploadsAnswered'
  BY <1>1, <1>2, UploadsStayAnswered
<1>8. CombinationsOnTrack'
  <2> SUFFICES ASSUME NEW q \in Requests
               PROVE  OnTrack(q)'
    BY DEF CombinationsOnTrack
  <2>1. OnTrack(q) /\ OnTrack(r)
    BY <1>1 DEF CombinationsOnTrack
  <2>2. CASE q = r
    BY <1>1, <1>2, <1>5, <2>1, <2>2, StepOnTrack
  <2>3. CASE q # r
    BY <1>1, <1>3, <2>1, <2>3, OthersOnTrack
  <2> QED
    BY <2>2, <2>3
<1>9. CombinedVersions'
  BY <1>1, <1>2, CombinedStaysComplete
<1>10. Undisturbed'
  BY <1>1, <1>2, StaysUndisturbed
<1>11. DocumentKept'
  BY <1>1, <1>2, DocumentStaysKept
<1> QED
  BY <1>4, <1>5, <1>6, <1>7, <1>8, <1>9, <1>10, <1>11 DEF IInv

LEMMA NextIInv == IInv /\ [Next]_vars => IInv'
<1> SUFFICES ASSUME IInv, [Next]_vars PROVE IInv'
  OBVIOUS
<1>1. CASE Next
  <2>1. Watch
    BY <1>1 DEF Next
  <2>2. CASE \E r \in Requests :
               (Arrival(r) \/ NextCall(r) \/ ReadFails(r) \/ Fail(r)) /\ UNCHANGED inFlight
    BY <2>1, <2>2, StepKeepsIInv
  <2>3. CASE \E r \in Requests : Speech(r)
    BY <2>1, <2>3, StepKeepsIInv
  <2>4. CASE Restart
    <3>1. TypeOK'
      BY <2>1, <2>4, RestartTypeOK DEF IInv
    <3>2. RequestsSound' /\ UploadsAnswered' /\ PlacesCounted'
      BY <2>4, RestartKeeps DEF IInv
    <3>3. CombinationsOnTrack' /\ CombinedVersions'
      BY <2>1, <2>4, RestartStaysComplete DEF IInv
    <3>4. Undisturbed'
      BY <2>4, RestartStaysUndisturbed DEF IInv
    <3>5. DocumentKept'
      BY <2>1, <2>4, RestartStaysKept DEF IInv
    <3> QED
      BY <3>1, <3>2, <3>3, <3>4, <3>5 DEF IInv
  <2> QED
    BY <1>1, <2>2, <2>3, <2>4 DEF Next
<1>2. CASE UNCHANGED vars
  <2>1. /\ files' = files /\ requests' = requests /\ disturbed' = disturbed
        /\ inFlight' = inFlight /\ promised' = promised /\ current' = current
        /\ lasting' = lasting
    BY <1>2 DEF vars
  <2>2. \A r \in Requests :
          /\ IsRunning(r)' <=> IsRunning(r)
          /\ \A key \in Keys : On(r, key)' <=> On(r, key)
    BY <2>1 DEF IsRunning, On
  <2>3. \A key \in Keys : Versions(key)' = Versions(key)
    BY <2>1 DEF Versions
  <2>4. TypeOK'
    BY <2>1, <2>3 DEF IInv, TypeOK
  <2>5. RequestsSound' /\ UploadsAnswered' /\ PlacesCounted'
    BY <2>1 DEF IInv, RequestsSound, UploadsAnswered, PlacesCounted, Transcribing
  <2>6. CombinationsOnTrack' /\ CombinedVersions'
    BY <2>1, <2>2, <2>3, Names DEF IInv, CombinationsOnTrack, OnTrack, CombinedVersions
  <2>7. Undisturbed'
    BY <2>1, <2>2, Names DEF IInv, Undisturbed, InTurn, Alone
  <2>8. DocumentKept'
    <3>1. Held' = Held
      BY <2>3, Names DEF Held
    <3> QED
      BY <2>1, <2>2, <3>1, Names DEF IInv, DocumentKept, Promising, Edits, Edited
  <2> QED
    BY <2>4, <2>5, <2>6, <2>7, <2>8 DEF IInv
<1> QED
  BY <1>1, <1>2

LEMMA Invariant == Spec => []IInv
<1>1. Init => IInv
  BY InitIInv
<1>2. IInv /\ [Next]_vars => IInv'
  BY NextIInv
<1> QED
  BY <1>1, <1>2, PTL DEF Spec

-----------------------------------------------------------------------------

\* Whatever the requests do, and however often the server restarts, a stored
\* version holds what its name can hold, and the counter of transcriptions is
\* neither negative nor above the limit.
THEOREM FilesTypeCorrect == Spec => []TypeOK
<1>1. IInv => TypeOK
  BY DEF IInv
<1> QED
  BY <1>1, Invariant, PTL

\* For every limit and number of requests, a place is given back however the
\* transcription ends, a restart frees all of them, and there are never more
\* transcriptions than places (withConcurrencyLimit).
THEOREM PlacesAreCounted == Spec => []PlacesAreTranscriptions
<1>1. IInv => PlacesAreTranscriptions
  BY SpeechResultsAssumption DEF IInv, PlacesCounted, TypeOK, PlacesAreTranscriptions
<1> QED
  BY <1>1, Invariant, PTL

\* However many days a level has, and whatever is uploaded and deleted while
\* its recordings are fetched one after the other, the combined recording has
\* a part of every day that had a wav version all the time, and only wav
\* versions that were the latest of their day at some time of the request
\* (combineUserLevelAudios).
THEOREM EveryWavIsCombined == Spec => []CombinedHasEveryWav
<1>1. IInv => CombinedHasEveryWav
  <2> SUFFICES ASSUME IInv PROVE CombinedHasEveryWav
    OBVIOUS
  <2>1. \A v \in Versions(Combined) :
          /\ \A d \in lasting[v.by] : \E part \in v.content : part[1] = d
          /\ v.content \subseteq current[v.by]
    BY DEF IInv, CombinedVersions, HasPart
  <2>2. Combined \notin disturbed => Len(files[Combined]) <= 1
    BY DEF IInv, Undisturbed, InTurn
  <2> QED
    BY <2>1, <2>2 DEF CombinedHasEveryWav
<1> QED
  BY <1>1, Invariant, PTL
-----------------------------------------------------------------------------
(* What the readers and editors of a lesson document are told.             *)

LEMMA ReaderIsAnswered ==
  ASSUME TypeOK, RequestsSound, Undisturbed, DocumentKept, NEW r \in Requests, Step(r),
         Document \notin disturbed', Answers(r), requests[r].op = "read"
  PROVE  requests'[r].content = promised
<1>1. requests[r] # Blank /\ AtStep(requests[r]) /\ requests'[r].step = "ok"
  BY StepIsOfOneRequest DEF Answers, IsRunning, Blank
<1>2. requests[r].step \in {"find", "download"}
  BY <1>1 DEF AtStep, StepsOf
<1>3. Document \notin disturbed
  BY DisturbedGrows
<1>4. InTurn(Document) /\ Promising
  BY <1>3 DEF Undisturbed, DocumentKept
<1>5. FindDocument(r) \/ DownloadDocument(r)
  <2>1. ~ Arrival(r)
    BY <1>1, ArrivalStep DEF Arrives
  <2>2. ~ Fail(r)
    BY <1>1, FailStep
  <2>3. ~ ReadFails(r)
    BY DEF ReadFails
  <2>4. ~ Speech(r)
    BY <1>1, <1>2 DEF Speech, compareSpeakTranscript, LookAgain, FinishTranscription
  <2>5. ~ SearchDay(r) /\ ~ EndSearch(r) /\ ~ FetchDay(r) /\ ~ DownloadDay(r)
    BY <1>2 DEF SearchDay, EndSearch, FetchDay, DownloadDay
  <2>6. ~ FindExisting(r) /\ ~ Delete(r) /\ ~ Upload(r)
    BY <1>2 DEF FindExisting, Delete, Upload
  <2>7. ~ FindToDelete(r)
    BY DEF FindToDelete
  <2> QED
    BY <2>1, <2>2, <2>3, <2>4, <2>5, <2>6, <2>7 DEF Step, NextCall
<1>6. HasObjects(r, promised)
  BY <1>1, <1>4, <1>5, ObjectsArePromised
<1> QED
  BY <1>6 DEF HasObjects

\* As long as requests on a lesson do not overlap and no call fails, an edit
\* that was answered is in the document and stays there until it is deleted,
\* and readers are answered with exactly that; for any number of requests, of
\* objects and of restarts (getOrInitializeJsonData, saveJsonToGridFS).
THEOREM DocumentsAreAsPromised == Spec => DocumentAsPromised
<1>1. ASSUME IInv, IInv', [Next]_vars
      PROVE  [Document \notin disturbed' =>
                /\ (\A r \in Requests :
                      ~ (IsRunning(r)' /\ requests'[r].key = Document)) =>
                     /\ Len(files'[Document]) <= 1
                     /\ promised' = UNION {v.content : v \in Versions(Document)'}
                /\ \A r \in Requests :
                     (Answers(r) /\ requests[r].op = "read") =>
                       requests'[r].content = promised]_vars
  <2> SUFFICES ASSUME Next, Document \notin disturbed'
               PROVE  /\ (\A r \in Requests :
                            ~ (IsRunning(r)' /\ requests'[r].key = Document)) =>
                           /\ Len(files'[Document]) <= 1
                           /\ promised' = UNION {v.content : v \in Versions(Document)'}
                      /\ \A r \in Requests :
                           (Answers(r) /\ requests[r].op = "read") =>
                             requests'[r].content = promised
    BY <1>1
  <2>1. ASSUME \A r \in Requests : ~ (IsRunning(r)' /\ requests'[r].key = Document)
        PROVE  /\ Len(files'[Document]) <= 1
               /\ promised' = UNION {v.content : v \in Versions(Document)'}
    <3>1. InTurn(Document)' /\ Promising'
      BY <1>1 DEF IInv, Undisturbed, DocumentKept
    <3>2. \A r \in Requests : ~ On(r, Document)'
      BY <2>1 DEF On
    <3>3. promised' = Held'
      BY <3>1, <3>2 DEF Promising
    <3> QED
      BY <3>1, <3>3 DEF InTurn, Held
  <2>2. ASSUME NEW r \in Requests, Answers(r), requests[r].op = "read"
        PROVE  requests'[r].content = promised
    <3>1. /\ TypeOK /\ RequestsSound /\ UploadsAnswered /\ PlacesCounted
          /\ Undisturbed /\ DocumentKept
      BY <1>1 DEF IInv
    <3>2. requests'[r] # requests[r] /\ requests'[r].step = "ok"
      BY <2>2 DEF Answers, IsRunning
    <3>3. CASE Restart
      <4>1. requests'[r].step = "failed"
        BY <2>2, <3>1, <3>3, Restarted DEF RestartStep, Answers
      <4> QED
        BY <3>2, <4>1
    <3>4. ASSUME NEW q \in Requests, Step(q)
          PROVE  requests'[r].content = promised
      <4>1. q = r
        BY <3>1, <3>2, <3>4, StepIsOfOneRequest DEF RequestStep
      <4> QED
        BY <2>2, <3>1, <3>4, <4>1, ReaderIsAnswered
    <3> QED
      BY <3>3, <3>4 DEF Next, Step
  <2> QED
    BY <2>1, <2>2
<1> QED
  BY <1>1, Invariant, PTL DEF Spec, DocumentAsPromised
-----------------------------------------------------------------------------
(* The grade of a sentence.  With D for maxLen * words, the letters count  *)
(* for a = (maxLen - distance) * words and the words for                   *)
(* b = matches * maxLen, both at most D.                                   *)

LEMMA Quotient ==
  ASSUME NEW a \in Nat, NEW b \in Nat \ {0}
  PROVE  LET q == a \div b IN q \in Nat /\ q * b <= a /\ a < q * b + b
BY SMT

LEMMA Products ==
  ASSUME NEW m \in Nat, NEW n \in Nat, NEW b \in Nat, m <= n
  PROVE  m * b \in Nat /\ n * b \in Nat /\ m * b <= n * b
BY SMT

\* A fraction is rounded to at least k, or to more than k, only if it is that
\* large up to a half.
LEMMA Rounded ==
  ASSUME NEW n \in Nat, NEW d \in Nat \ {0}, NEW k \in Nat
  PROVE  /\ Round(n, d) \in Nat
         /\ Round(n, d) >= k => 2 * n + d >= k * (2 * d)
<1> DEFINE a == 2 * n + d
           b == 2 * d
           q == a \div b
<1>1. a \in Nat /\ b \in Nat \ {0}
  OBVIOUS
<1> HIDE DEF a, b
<1>2. q \in Nat /\ q * b <= a
  BY <1>1, Quotient
<1>3. q >= k => a >= k * b
  <2> SUFFICES ASSUME q >= k PROVE a >= k * b
    OBVIOUS
  <2> HIDE DEF q
  <2>1. k * b \in Nat /\ q * b \in Nat /\ k * b <= q * b
    BY <1>1, <1>2, Products
  <2> QED
    BY <1>1, <1>2, <2>1
<1>4. Round(n, d) = q
  BY DEF Round, a, b
<1> HIDE DEF q
<1> QED
  BY <1>2, <1>3, <1>4 DEF a, b

LEMMA Penalties ==
  ASSUME NEW words \in Nat, NEW spoken \in Nat
  PROVE  /\ LengthPenalty(words, spoken) \in 0 .. 10
         /\ spoken > words + 3 => LengthPenalty(words, spoken) <= 6
BY DEF LengthPenalty

LEMMA Shares ==
  ASSUME NEW words \in Nat \ {0}, NEW maxLen \in Nat \ {0},
         NEW matches \in 0 .. words, NEW distance \in 0 .. maxLen
  PROVE  /\ maxLen * words \in Nat \ {0}
         /\ (maxLen - distance) * words \in 0 .. maxLen * words
         /\ matches * maxLen \in 0 .. maxLen * words
         /\ 2 * matches < words => 2 * (matches * maxLen) + maxLen <= maxLen * words
<1>1. maxLen * words \in Nat \ {0}
  OBVIOUS
<1>2. (maxLen - distance) * words \in 0 .. maxLen * words
  <2> DEFINE m == maxLen - distance
  <2>1. m \in Nat /\ m <= maxLen
    OBVIOUS
  <2> HIDE DEF m
  <2>2. m * words \in Nat /\ m * words <= maxLen * words
    BY <2>1, Products
  <2> QED
    BY <1>1, <2>2 DEF m
<1>3. words * maxLen = maxLen * words
  OBVIOUS
<1>4. matches * maxLen \in 0 .. maxLen * words
  <2>1. matches * maxLen \in Nat /\ matches * maxLen <= words * maxLen
    BY Products
  <2> QED
    BY <1>1, <1>3, <2>1
<1>5. ASSUME 2 * matches < words
      PROVE  2 * (matches * maxLen) + maxLen <= maxLen * words
  <2> DEFINE m == 2 * matches + 1
  <2>1. m \in Nat /\ m <= words
    BY <1>5
  <2>2. m * maxLen = 2 * (matches * maxLen) + maxLen
    OBVIOUS
  <2> HIDE DEF m
  <2>3. m * maxLen <= words * maxLen
    BY <2>1, Products
  <2> QED
    BY <1>3, <2>2, <2>3
<1> QED
  BY <1>1, <1>2, <1>4, <1>5

\* For every text and sentence: the similarity is a percentage, and whoever
\* said more than three words too many does not pass.  The letters alone make
\* nobody pass a sentence of less than 60 words: half of its words have to be
\* there.  For longer ones the formula does not promise that, since 69.5
\* percent are rounded up (calculateSimilarity).
THEOREM GradesOfAnyText ==
  ASSUME NEW words \in Nat \ {0}, NEW spoken \in Nat, NEW maxLen \in Nat \ {0},
         NEW matches \in 0 .. words, NEW distance \in 0 .. maxLen
  PROVE  LET s == Similarity(distance, maxLen, matches, words, spoken)
         IN  /\ s \in 0 .. 100
             /\ IsPassed(s) => spoken <= words + 3
             /\ IsPassed(s) /\ words < 60 => 2 * matches >= words
<1> DEFINE D == maxLen * words
           a == (maxLen - distance) * words
           b == matches * maxLen
           penalty == LengthPenalty(words, spoken)
           n == (4 * a + 6 * b) * penalty
           s == Similarity(distance, maxLen, matches, words, spoken)
<1>1. /\ D \in Nat \ {0} /\ a \in 0 .. D /\ b \in 0 .. D
      /\ 2 * matches < words => 2 * b + maxLen <= D
  BY Shares
<1>2. penalty \in 0 .. 10 /\ (spoken > words + 3 => penalty <= 6)
  BY Penalties
<1>3. words < 60 => D <= 59 * maxLen
  <2> SUFFICES ASSUME words < 60 PROVE D <= 59 * maxLen
    OBVIOUS
  <2>1. words * maxLen <= 59 * maxLen
    BY Products
  <2> QED
    BY <2>1
<1>4. s = Round(n, D)
  <2>1. 4 * (maxLen - distance) * words = 4 * a /\ 6 * matches * maxLen = 6 * b
    OBVIOUS
  <2> QED
    BY <2>1 DEF Similarity
<1> HIDE DEF D, a, b, penalty, s
<1>5. n \in Nat /\ n <= (4 * a + 6 * b) * 10 /\ (penalty <= 6 => n <= (4 * a + 6 * b) * 6)
  <2> DEFINE x == 4 * a + 6 * b
  <2>1. x \in Nat
    BY <1>1
  <2> HIDE DEF x
  <2>2. x * penalty \in Nat /\ x * penalty <= x * 10 /\ (penalty <= 6 => x * penalty <= x * 6)
    BY <1>2, <2>1
  <2> QED
    BY <2>2 DEF x
<1> HIDE DEF n
<1>6. /\ s \in Nat
      /\ s >= 101 => 2 * n + D >= 101 * (2 * D)
      /\ s >= 70 => 2 * n + D >= 70 * (2 * D)
  BY <1>1, <1>4, <1>5, Rounded
<1>7. s \in 0 .. 100
  BY <1>1, <1>5, <1>6
<1>8. IsPassed(s) => spoken <= words + 3
  BY <1>1, <1>2, <1>5, <1>6 DEF IsPassed
<1>9. IsPassed(s) /\ words < 60 => 2 * matches >= words
  BY <1>1, <1>3, <1>5, <1>6 DEF IsPassed
<1> QED
  BY <1>7, <1>8, <1>9 DEF s

=============================================================================
