------------------------------ MODULE LessonFiles ------------------------------
(***************************************************************************)
(* The document of a lesson (a JSON file in GridFS) and the requests that  *)
(* read it and edit it.  An edit reads the whole document, changes it and  *)
(* replaces the file; nothing locks it in between.                         *)
(***************************************************************************)
EXTENDS GridFS

insertIntoJsonDataArray(r) == Arrive(r, "insert", Document, "find")

deleteFromJsonDataArray(r, o) ==
  /\ requests[r] = Blank
  /\ requests' = [requests EXCEPT ![r].op = "deleteObject", ![r].key = Document,
                                  ![r].step = "find", ![r].object = o]
  /\ disturbed' = IF Overlapping(r, "deleteObject", Document)
                  THEN disturbed \cup {Document} ELSE disturbed
  /\ UNCHANGED files

deleteFile(r) == Arrive(r, "deleteFile", Document, "find")

getContentByName(r) == Arrive(r, "read", Document, "find")

\* What a request does once it has the objects of the document: a deletion
\* of an object that is not there is refused, a reader is answered with them.
WithObjects(r, objects) ==
  LET q == requests[r]
  IN  CASE q.op = "insert" ->
             [requests EXCEPT ![r].content = objects \cup {r}, ![r].step = "save", ![r].found = None]
        [] q.op = "deleteObject" /\ q.object \in objects ->
             [requests EXCEPT ![r].content = objects \ {q.object}, ![r].step = "save", ![r].found = None]
        [] q.op = "deleteObject" /\ q.object \notin objects -> Answered(r, "refused")
        [] q.op = "read" ->
             [requests EXCEPT ![r] = [Blank EXCEPT !.step = "ok", !.op = "read", !.content = objects]]

\* getOrInitializeJsonData: without a file, a document without objects.
FindDocument(r) ==
  /\ requests[r].step = "find"
  /\ requests[r].op \in {"insert", "deleteObject", "read"}
  /\ LET found == Latest(Document)
     IN  requests' = IF found = None THEN WithObjects(r, {})
                     ELSE [requests EXCEPT ![r].found = found, ![r].step = "download"]
  /\ UNCHANGED <<files, disturbed>>

\* A slip, for comparison: the objects that were there are not kept.
DownloadNothing(r) ==
  /\ requests[r].step = "download"
  /\ requests' = WithObjects(r, {})
  /\ UNCHANGED <<files, disturbed>>

\* A version that was deleted meanwhile cannot be read: the error is caught
\* and the request goes on with a document without objects.
DownloadDocument(r) ==
  LET q == requests[r]
  IN  /\ q.step = "download"
      /\ requests' = WithObjects(r, IF IsStored(Document, q.found)
                                    THEN ContentOf(Document, q.found) ELSE {})
      /\ UNCHANGED <<files, disturbed>>

\* So is every other error of the find and the download.
ReadFails(r) ==
  /\ requests[r].step \in {"find", "download"}
  /\ requests[r].op \in {"insert", "deleteObject", "read"}
  /\ requests' = WithObjects(r, {})
  /\ disturbed' = disturbed \cup {Document}
  /\ UNCHANGED files

=============================================================================
