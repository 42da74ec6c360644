----------------------------- MODULE SpeechResults -----------------------------
(***************************************************************************)
(* What a learner said is transcribed and compared with the sentence of    *)
(* the lesson (UserResultsService).  At most MaxConcurrency transcriptions *)
(* run at a time; the other requests look for a free place again and again *)
(* and give up after a while (TransformersAudioTranscribe).                *)
(***************************************************************************)
EXTENDS GridFS, Integers

CONSTANTS MaxConcurrency,  \* 20
          MaxPolls         \* how often a waiting request looks in ten seconds

VARIABLE inFlight  \* the counter of running transcriptions

ASSUME SpeechResultsAssumption ==
  /\ MaxConcurrency \in Nat \ {0}
  /\ MaxPolls \in Nat

Transcribing == {r \in Requests : requests[r].step = "transcribe"}

\* A slip, for comparison: one more than allowed.
OneMorePlace == inFlight <= MaxConcurrency

HasPlace == inFlight < MaxConcurrency

TakePlace(r) ==
  /\ inFlight' = inFlight + 1
  /\ requests' = [requests EXCEPT ![r].op = "compare", ![r].step = "transcribe", ![r].polls = 0]

\* The level is accessible and the file small enough.
compareSpeakTranscript(r) ==
  /\ requests[r] = Blank
  /\ IF HasPlace
     THEN TakePlace(r)
     ELSE /\ requests' = [requests EXCEPT ![r].op = "compare", ![r].step = "wait"]
          /\ UNCHANGED inFlight
  /\ UNCHANGED <<files, disturbed>>

\* A look at the counter: whoever looks first has the place, in no order.
LookAgain(r) ==
  /\ requests[r].step = "wait"
  /\ IF HasPlace
     THEN TakePlace(r)
     ELSE /\ requests' = IF requests[r].polls = MaxPolls THEN Answered(r, "refused")
                         ELSE [requests EXCEPT ![r].polls = @ + 1]
          /\ UNCHANGED inFlight
  /\ UNCHANGED <<files, disturbed>>

\* A slip, for comparison: only a transcription that succeeds gives its
\* place back.
FreedBySuccess(outcome) == IF outcome = "ok" THEN inFlight - 1 ELSE inFlight

\* The finally of withConcurrencyLimit.
Freed(outcome) == inFlight - 1

\* The text, an empty one (refused), or an error of the model.
FinishTranscription(r, outcome) ==
  /\ requests[r].step = "transcribe"
  /\ inFlight' = Freed(outcome)
  /\ requests' = Answered(r, outcome)
  /\ UNCHANGED <<files, disturbed>>

-----------------------------------------------------------------------------
(* calculateSimilarity, in the numbers it takes from the two texts: their  *)
(* distance and the length of the longer one, how many words of the        *)
(* sentence (of words) resemble a spoken one, and the words spoken.        *)

Round(n, d) == (2 * n + d) \div (2 * d)

\* 1 - 0.1 for every word too many, in tenths.
LengthPenalty(words, spoken) ==
  IF spoken <= words THEN 10
  ELSE IF spoken - words >= 10 THEN 0 ELSE 10 - (spoken - words)

\* (0.4 * overall + 0.6 * words) * penalty, in percent.
Similarity(distance, maxLen, matches, words, spoken) ==
  Round((4 * (maxLen - distance) * words + 6 * matches * maxLen) * LengthPenalty(words, spoken),
        maxLen * words)

IsPassed(similarity) == similarity >= 70

=============================================================================
