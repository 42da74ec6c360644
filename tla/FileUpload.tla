------------------------------ MODULE FileUpload -------------------------------
(***************************************************************************)
(* The file module of the server: lesson documents, recordings and speech  *)
(* results, handled by the same process at the same time.  A restart takes *)
(* all of its running requests, and the counter of transcriptions, with it.*)
(***************************************************************************)
EXTENDS LessonFiles, UserAudios, SpeechResults

\* All three are history.  promised is what the document holds according to
\* the answers.  Of a combination, current are the wav versions that were a
\* day's latest at some time since it began, and lasting the days that have
\* had a wav version all the time.
VARIABLES promised, current, lasting

vars == <<files, requests, disturbed, inFlight, promised, current, lasting>>

ASSUME FileUploadAssumption ==
  /\ TotalDays \in Nat \ {0}
  /\ None \notin Requests \cup Keys

TypeOK ==
  /\ files \in [Keys -> Seq(Version)]
  /\ \A key \in Keys : \A v \in Versions(key) :
       v.content \subseteq (IF key = Combined THEN Days \X Requests ELSE Requests)
  /\ requests \in [Requests -> Request]
  /\ disturbed \subseteq {Document, Combined}
  /\ inFlight \in 0 .. MaxConcurrency
  /\ promised \subseteq Requests
  /\ current \in [Requests -> SUBSET (Days \X Requests)]
  /\ lasting \in [Requests -> SUBSET Days]

Init ==
  /\ files = [key \in Keys |-> <<>>]
  /\ requests = [r \in Requests |-> Blank]
  /\ disturbed = {}
  /\ inFlight = 0
  /\ promised = {}
  /\ current = [r \in Requests |-> {}]
  /\ lasting = [r \in Requests |-> {}]

-----------------------------------------------------------------------------

DaysWithWav == {d \in Days : files[Recording(d)] # <<>>}

LatestWavs == {<<d, Last(files[Recording(d)]).by>> : d \in DaysWithWav}

Answers(r) == IsRunning(r) /\ requests'[r].step = "ok"

\* The history of a step of the handlers.
Watch ==
  /\ promised' =
       (promised \cup {r \in Requests : Answers(r) /\ requests[r].op = "insert"})
         \ UNION {CASE requests[r].op = "deleteObject" -> {requests[r].object}
                    [] requests[r].op = "deleteFile"   -> Requests
                    [] OTHER                           -> {} : r \in {q \in Requests : Answers(q)}}
  /\ LET begins(r)    == requests[r] = Blank /\ requests'[r].op = "combine"
         continues(r) == requests[r].op = "combine" /\ IsRunning(r)
     IN  /\ current' = [r \in Requests |->
              IF begins(r) THEN LatestWavs
              ELSE IF continues(r) THEN current[r] \cup LatestWavs' ELSE current[r]]
         /\ lasting' = [r \in Requests |->
              IF begins(r) THEN DaysWithWav
              ELSE IF continues(r) THEN lasting[r] \cap DaysWithWav' ELSE lasting[r]]

Arrival(r) ==
  \/ insertIntoJsonDataArray(r)
  \/ \E o \in Requests \ {r} : deleteFromJsonDataArray(r, o)
  \/ deleteFile(r)
  \/ getContentByName(r)
  \/ \E d \in Days, format \in {"wav", "mp3"} : uploadUserAudio(r, d, format)
  \/ \E key \in Keys \ {Document} : deleteUserAudio(r, key)
  \/ combineUserLevelAudios(r)

\* The next call of a request on files returns.
NextCall(r) ==
  \/ FindDocument(r) \/ DownloadDocument(r)
  \/ SearchDay(r) \/ EndSearch(r) \/ FetchDay(r) \/ DownloadDay(r)
  \/ FindExisting(r) \/ FindToDelete(r) \/ Delete(r) \/ Upload(r)

Speech(r) ==
  \/ compareSpeakTranscript(r)
  \/ LookAgain(r)
  \/ \E outcome \in {"ok", "refused", "failed"} : FinishTranscription(r, outcome)

\* Every running request is lost with its connection.
Restart ==
  LET lost == {r \in Requests : IsRunning(r)}
  IN  /\ lost # {}
      /\ requests' = [r \in Requests |->
           IF r \in lost THEN [Blank EXCEPT !.step = "failed"] ELSE requests[r]]
      /\ disturbed' = disturbed \cup {Document : r \in {q \in lost : requests[q].key = Document}}
      /\ inFlight' = 0
      /\ UNCHANGED files

Next ==
  /\ \/ \E r \in Requests : (Arrival(r) \/ NextCall(r) \/ ReadFails(r) \/ Fail(r)) /\ UNCHANGED inFlight
     \/ \E r \in Requests : Speech(r)
     \/ Restart
  /\ Watch

\* Calls return, and the timers of waiting requests fire.  That the speech
\* model comes back with a text is not assumed.
Spec ==
  /\ Init
  /\ [][Next]_vars
  /\ \A r \in Requests :
       /\ WF_vars(NextCall(r) /\ UNCHANGED inFlight /\ Watch)
       /\ WF_vars(LookAgain(r) /\ Watch)

-----------------------------------------------------------------------------

\* As long as no two requests on a lesson overlapped and no call failed, the
\* document is what the answers promised: there is one version at most, it
\* has the objects that were inserted and not deleted, and whoever reads it
\* is answered with them (getOrInitializeJsonData and saveJsonToGridFS, which
\* have no lock).
DocumentAsPromised ==
  [][Document \notin disturbed' =>
       /\ (\A r \in Requests : ~ (IsRunning(r)' /\ requests'[r].key = Document)) =>
            /\ Len(files'[Document]) <= 1
            /\ promised' = UNION {v.content : v \in Versions(Document)'}
       /\ \A r \in Requests :
            (Answers(r) /\ requests[r].op = "read") => requests'[r].content = promised]_vars

\* A combined recording leaves out no day that had a wav version all the time
\* it was made, and of each day it has a wav version that was the latest at
\* some time of the request.  (What was uploaded in another format is never
\* combined, and a version replaced before is the latest again once its
\* successor is deleted.)  There is one at most unless two requests for it ran
\* at the same time (the two loops of combineUserLevelAudios, findFileByName
\* and saveBufferToGridFS).
CombinedHasEveryWav ==
  /\ \A v \in Versions(Combined) :
       /\ \A d \in lasting[v.by] : \E part \in v.content : part[1] = d
       /\ v.content \subseteq current[v.by]
  /\ Combined \notin disturbed => Len(files[Combined]) <= 1

\* The counter is the number of transcriptions that run, however they end,
\* and no more of them run than allowed (withConcurrencyLimit).
PlacesAreTranscriptions ==
  inFlight = Cardinality(Transcribing) /\ inFlight <= MaxConcurrency

\* Every request on files is answered, and nobody waits for a place for
\* ever, even if no running transcription ever ends.
RequestsEnd ==
  \A r \in Requests :
    /\ (IsRunning(r) /\ requests[r].key # None) ~> ~ IsRunning(r)
    /\ (requests[r].step = "wait") ~> (requests[r].step # "wait")

=============================================================================
