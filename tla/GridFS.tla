-------------------------------- MODULE GridFS --------------------------------
(***************************************************************************)
(* The files in GridFS and the requests on them (FileUploadService): what  *)
(* every handler of LessonFiles and UserAudios does with the bucket.       *)
(*                                                                         *)
(* A name may have several versions; the latest is the file.  To replace a *)
(* file is to find the latest version, delete it and upload a new one, in  *)
(* three calls.  A request handles one operation and uploads at most once, *)
(* so a version is named by the request that uploaded it (its _id).        *)
(***************************************************************************)
EXTENDS Naturals, Sequences, SequencesExt

CONSTANTS Requests,   \* requests, each of one operation
          TotalDays,  \* days of a level
          None        \* no request, operation or name

VARIABLES files,     \* the versions of every name, in the order of upload
          requests,  \* what every request is doing
          disturbed  \* history: names on which requests overlapped or,
                     \* for the lesson document, a call failed

Days == 1 .. TotalDays

\* The document of one lesson, and the recordings of one user and level:
\* one or two formats a day, and the combined one.
Document == <<"document", 0>>
Combined == <<"combined", 0>>
Recording(d) == <<"wav", d>>
Keys == {Document, Combined} \cup ({"wav", "mp3"} \X Days)

\* A document holds objects, a combined recording its parts.
Version == [by : Requests, content : (SUBSET Requests) \cup (SUBSET (Days \X Requests))]

\* Of the other operations, key is the name the request is about.  An object
\* of a lesson document has the id (a uuid) its request gave it, so objects
\* are requests; a combined recording is made of days and their versions.
Request ==
  [op      : {"insert", "deleteObject", "deleteFile", "read", "upload",
              "deleteAudio", "combine", "compare", None},
   step    : {"new", "find", "download", "save", "remove", "upload", "search",
              "fetch", "fetchDownload", "wait", "transcribe", "ok", "refused", "failed"},
   key     : Keys \cup {None},
   object  : Requests \cup {None},
   found   : Requests \cup {None},
   content : (SUBSET Requests) \cup (SUBSET (Days \X Requests)),
   day     : 1 .. TotalDays + 1,
   keys    : SUBSET Days,
   polls   : Nat]

Blank == [op |-> None, step |-> "new", key |-> None, object |-> None, found |-> None,
          content |-> {}, day |-> 1, keys |-> {}, polls |-> 0]

IsRunning(r) == requests[r].step \notin {"new", "ok", "refused", "failed"}

\* A slip, for comparison: without the order by uploadDate, the oldest version.
OldestVersion(key) == IF files[key] = <<>> THEN None ELSE files[key][1].by

\* findFileByName: the version uploaded last.
Latest(key) == IF files[key] = <<>> THEN None ELSE Last(files[key]).by

Versions(key) == ToSet(files[key])

IsStored(key, id) == \E v \in Versions(key) : v.by = id

ContentOf(key, id) == (CHOOSE v \in Versions(key) : v.by = id).content

-----------------------------------------------------------------------------

\* Two requests on a name disturb each other unless both only read it.
Overlapping(r, op, key) ==
  \E q \in Requests \ {r} :
    IsRunning(q) /\ requests[q].key = key /\ {op, requests[q].op} # {"read"}

Arrive(r, op, key, step) ==
  /\ requests[r] = Blank
  /\ requests' = [requests EXCEPT ![r].op = op, ![r].key = key, ![r].step = step]
  /\ disturbed' = IF key \in {Document, Combined} /\ Overlapping(r, op, key)
                  THEN disturbed \cup {key} ELSE disturbed
  /\ UNCHANGED files

\* The answer; the rest of what the request knew is gone.
Answered(r, outcome) == [requests EXCEPT ![r] = [Blank EXCEPT !.step = outcome]]

\* A slip, for comparison: the version found is left where it is.
KeepOld(r) ==
  /\ requests[r].step = "save"
  /\ requests' = [requests EXCEPT ![r].step = "upload"]
  /\ UNCHANGED <<files, disturbed>>

\* saveJsonToGridFS and saveBufferToGridFS: is there a version to replace?
FindExisting(r) ==
  /\ requests[r].step = "save"
  /\ LET found == Latest(requests[r].key)
     IN  requests' = [requests EXCEPT ![r].found = found,
                        ![r].step = IF found = None THEN "upload" ELSE "remove"]
  /\ UNCHANGED <<files, disturbed>>

\* bucket.delete throws if the version is gone by now (saveJsonToGridFS,
\* saveBufferToGridFS, deleteFile, deleteUserAudio).
Delete(r) ==
  LET q == requests[r]
  IN  /\ q.step = "remove"
      /\ \/ /\ ~ IsStored(q.key, q.found)
            /\ requests' = Answered(r, "failed")
            /\ UNCHANGED files
         \/ \E i \in DOMAIN files[q.key] :
              /\ files[q.key][i].by = q.found
              /\ files' = [files EXCEPT ![q.key] = RemoveAt(@, i)]
              /\ requests' = IF q.op \in {"deleteFile", "deleteAudio"} THEN Answered(r, "ok")
                             ELSE [requests EXCEPT ![r].step = "upload", ![r].found = None]
      /\ UNCHANGED disturbed

\* uploadToGridFS and the second half of a replacement.
Upload(r) ==
  LET q == requests[r]
  IN  /\ q.step = "upload"
      /\ files' = [files EXCEPT ![q.key] = Append(@, [by |-> r, content |-> q.content])]
      /\ requests' = Answered(r, "ok")
      /\ UNCHANGED disturbed

\* The two deletions of files: the latest version, if there is one.
FindToDelete(r) ==
  /\ requests[r].step = "find"
  /\ requests[r].op \in {"deleteFile", "deleteAudio"}
  /\ LET found == Latest(requests[r].key)
     IN  requests' = IF found = None THEN Answered(r, "refused")
                     ELSE [requests EXCEPT ![r].found = found, ![r].step = "remove"]
  /\ UNCHANGED <<files, disturbed>>

\* A call of a request on a file fails and the handler throws (500).
Fail(r) ==
  /\ IsRunning(r) /\ requests[r].key # None
  /\ requests' = Answered(r, "failed")
  /\ disturbed' = IF requests[r].key = Document THEN disturbed \cup {Document} ELSE disturbed
  /\ UNCHANGED files

=============================================================================
