------------------------------ MODULE UserAudios -------------------------------
(***************************************************************************)
(* The recordings of a user in a level: one a day, uploaded again as often *)
(* as the user likes, as wav or, whatever else it is, as mp3; and the one  *)
(* that combines the wav versions of all days once day 50 is open.         *)
(***************************************************************************)
EXTENDS GridFS

\* An upload adds a version and leaves the earlier ones where they are.
uploadUserAudio(r, d, format) == Arrive(r, "upload", <<format, d>>, "upload")

deleteUserAudio(r, key) == Arrive(r, "deleteAudio", key, "find")

combineUserLevelAudios(r) == Arrive(r, "combine", Combined, "search")

SearchIsOver(day) == day > TotalDays

\* The first loop, a query a day: which days have a wav version?
SearchDay(r) ==
  LET q == requests[r]
  IN  /\ q.step = "search"
      /\ ~ SearchIsOver(q.day)
      /\ requests' = [requests EXCEPT ![r].day = @ + 1,
           ![r].keys = IF Latest(Recording(q.day)) # None THEN @ \cup {q.day} ELSE @]
      /\ UNCHANGED <<files, disturbed>>

EndSearch(r) ==
  LET q == requests[r]
  IN  /\ q.step = "search"
      /\ SearchIsOver(q.day)
      /\ requests' = IF q.keys = {} THEN Answered(r, "refused")
                     ELSE [requests EXCEPT ![r].step = "fetch", ![r].day = 1]
      /\ UNCHANGED <<files, disturbed>>

NextDay(q) == CHOOSE d \in q.keys : \A e \in q.keys : d <= e

\* A slip, for comparison: a recording that vanished is waited for.
FetchAgain(r) ==
  LET q     == requests[r]
      found == Latest(Recording(NextDay(q)))
  IN  /\ q.step = "fetch"
      /\ requests' = IF found = None THEN requests
                     ELSE [requests EXCEPT ![r].found = found, ![r].step = "fetchDownload"]
      /\ UNCHANGED <<files, disturbed>>

\* The second loop finds the recording of every day once more ...
FetchDay(r) ==
  LET q     == requests[r]
      found == Latest(Recording(NextDay(q)))
  IN  /\ q.step = "fetch"
      /\ requests' = IF found = None THEN Answered(r, "failed")
                     ELSE [requests EXCEPT ![r].found = found, ![r].step = "fetchDownload"]
      /\ UNCHANGED <<files, disturbed>>

\* ... and downloads it.  After the last one ffmpeg joins them in the order
\* of the days and the result is saved.
DownloadDay(r) ==
  LET q    == requests[r]
      d    == NextDay(q)
      left == q.keys \ {d}
  IN  /\ q.step = "fetchDownload"
      /\ requests' =
           IF ~ IsStored(Recording(d), q.found) THEN Answered(r, "failed")
           ELSE [requests EXCEPT ![r].content = @ \cup {<<d, q.found>>}, ![r].found = None,
                   ![r].keys = left, ![r].step = IF left = {} THEN "save" ELSE "fetch"]
      /\ UNCHANGED <<files, disturbed>>

=============================================================================
