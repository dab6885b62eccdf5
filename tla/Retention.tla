----------------------------- MODULE Retention -----------------------------
(***************************************************************************)
(* workflows/src/retention.ts as the nightly cron runs it                  *)
(* (web/api/cron/retention over db/src/stores.ts and the carrier's archive *)
(* of compliance/src/archive.ts): recordings are deleted after one window, *)
(* the words of a call after a longer one.                                 *)
(*                                                                         *)
(* An invocation runs in ONE transaction: its tombstones are seen when it  *)
(* commits, while what it has the carrier delete is gone at once.  A row   *)
(* it has updated makes other invocations wait.  Time is in days.          *)
(***************************************************************************)
EXTENDS TurnMetrics

CONSTANTS
  Calls,           \* the calls of a tenant, with no two at the same instant
  StartedAt,       \* the day of each
  Recorded,        \* those with a recording
  Turns,           \* the turns they had: the rows of call_turns
  OutcomeOf,       \* how each ended, "none" in flight
  Refused,         \* recordings the carrier never agrees to delete
  Runs,            \* invocations of the cron that can be in flight at once
  RECORDING_RETENTION_DAYS, TRANSCRIPT_RETENTION_DAYS,
  RETENTION_BATCH_LIMIT,
  WritesMayFail,   \* whether the database may reject a tombstone
  RunsMayDie,      \* whether an invocation may be cut off by the platform
  MaxDay           \* bound on the days modelled

\* A row of call_turns, as far as it is read here: its text is words, or none.
TurnRow == [call : Calls, role : {"agent", "caller"}, text : {"words", ""},
            firstWordLatencyMs : Nat \cup {NoLatency}, turnLatencyMs : Nat \cup {NoLatency},
            bargeIn : BOOLEAN, turnTakeOk : BOOLEAN]

ASSUME RetentionAssumption ==
  /\ StartedAt \in [Calls -> Nat]
  /\ Recorded \subseteq Calls /\ Refused \subseteq Recorded
  /\ Turns \in Seq(TurnRow)
  /\ RECORDING_RETENTION_DAYS \in Nat /\ TRANSCRIPT_RETENTION_DAYS \in Nat
  /\ RETENTION_BATCH_LIMIT \in Nat \ {0}
  /\ WritesMayFail \in BOOLEAN /\ RunsMayDie \in BOOLEAN
  /\ MaxDay \in Nat

VARIABLES
  today,
  media,          \* the recordings the carrier holds
  recordingUrl,   \* the calls whose recording_url is set
  tombstoned,     \* the calls whose recording_deleted_at is set
  redacted,       \* the calls whose transcript_redacted_at is set
  turns,          \* call_turns
  run             \* the invocations

callRows == << recordingUrl, tombstoned, redacted, turns >>
vars == << today, media, callRows, run >>

Idle == [phase |-> "idle", now |-> 0, batch |-> {}, gone |-> {}, blanked |-> {},
         aborted |-> FALSE]

Init ==
  /\ today = 0
  /\ media = Recorded
  /\ recordingUrl = Recorded
  /\ tombstoned = {}
  /\ redacted = {}
  /\ turns = Turns
  /\ run = [r \in Runs |-> Idle]

\* ORDER BY started_at LIMIT: the oldest of a set of calls.
Oldest(calls) ==
  {c \in calls : Cardinality({d \in calls : StartedAt[d] < StartedAt[c]}) < RETENTION_BATCH_LIMIT}

\* Mutant of ExpireBefore: the two windows are swapped.
ExpireBeforeSwapped(kind, now) ==
  now - (IF kind = "recording" THEN TRANSCRIPT_RETENTION_DAYS ELSE RECORDING_RETENTION_DAYS)

\* recordingsExpireBefore(), transcriptsExpireBefore()
ExpireBefore(kind, now) ==
  now - (IF kind = "recording" THEN RECORDING_RETENTION_DAYS ELSE TRANSCRIPT_RETENTION_DAYS)

StartedBefore(day) == {c \in Calls : StartedAt[c] < day}

\* expiredRecordings()
ExpiredRecordings(now) ==
  Oldest((StartedBefore(ExpireBefore("recording", now)) \cap recordingUrl) \ tombstoned)

\* Mutant of ExpiredTranscripts: the words go once the voice is gone.
ExpiredOnceDeleted(now) ==
  Oldest((StartedBefore(ExpireBefore("transcript", now)) \ redacted) \ recordingUrl)

\* expiredTranscripts()
ExpiredTranscripts(now) == Oldest(StartedBefore(ExpireBefore("transcript", now)) \ redacted)

Update(r, record) == run' = [run EXCEPT ![r] = record]

\* What is left of a batch is taken in order of age.
Eldest(calls) == CHOOSE c \in calls : \A d \in calls : StartedAt[c] <= StartedAt[d]
Current(r) == Eldest(run[r].batch)
Onward(r) == [run[r] EXCEPT !.batch = @ \ {Current(r)}, !.phase = "delete"]

-----------------------------------------------------------------------------
Begin(r) ==
  /\ run[r].phase = "idle"
  /\ ExpiredRecordings(today) # {} \/ ExpiredTranscripts(today) # {}
  /\ Update(r, [Idle EXCEPT !.phase = "delete", !.now = today,
                            !.batch = ExpiredRecordings(today)])
  /\ UNCHANGED << today, media, callRows >>

Deleting(r) == run[r].phase = "delete" /\ run[r].batch # {}

\* archive.delete(): the carrier deletes the recording, or no longer has it (a 404), and
\* its answer arrives.
Deleted(r) ==
  /\ Deleting(r)
  /\ Current(r) \notin Refused \/ Current(r) \notin media
  /\ media' = media \ {Current(r)}
  /\ Update(r, [run[r] EXCEPT !.phase = "tombstone"])
  /\ UNCHANGED << today, callRows >>

\* Mutant of DeleteFailed: any answer lets the tombstone be written.
DeleteFailedShrugged(r) ==
  /\ Deleting(r)
  /\ media' \in {media} \cup (IF Current(r) \in Refused THEN {} ELSE {media \ {Current(r)}})
  /\ Update(r, [run[r] EXCEPT !.phase = "tombstone"])
  /\ UNCHANGED << today, callRows >>

\* Any other answer, or none: the deletion is still owed, though it may have been made.
DeleteFailed(r) ==
  /\ Deleting(r)
  /\ media' \in {media} \cup (IF Current(r) \in Refused THEN {} ELSE {media \ {Current(r)}})
  /\ Update(r, Onward(r))
  /\ UNCHANGED << today, callRows >>

\* markRecordingDeleted(): waits for whoever has updated the row and not committed.
Tombstone(r) ==
  /\ run[r].phase = "tombstone" /\ ~run[r].aborted
  /\ \A other \in Runs \ {r} : Current(r) \notin run[other].gone \cup run[other].blanked
  /\ Update(r, [Onward(r) EXCEPT !.gone = @ \cup {Current(r)}])
  /\ UNCHANGED << today, media, callRows >>

\* A rejected statement counts as a failed deletion, and the database rejects the rest.
TombstoneRejected(r) ==
  /\ run[r].phase = "tombstone"
  /\ WritesMayFail \/ run[r].aborted
  /\ Update(r, [Onward(r) EXCEPT !.aborted = TRUE])
  /\ UNCHANGED << today, media, callRows >>

\* The second pass, whatever became of the first.
RedactTranscripts(r) ==
  /\ run[r].phase = "delete" /\ run[r].batch = {} /\ ~run[r].aborted
  /\ LET stale == ExpiredTranscripts(run[r].now) IN
       /\ \A other \in Runs \ {r} : stale \cap (run[other].gone \cup run[other].blanked) = {}
       /\ Update(r, [run[r] EXCEPT !.phase = "commit", !.blanked = stale])
  /\ UNCHANGED << today, media, callRows >>

\* Mutant of Redacted: the turns of the call are deleted.
RedactedAway(calls) == SelectSeq(turns, LAMBDA turn : turn.call \notin calls)

\* redactTranscript(): the words, blanked.  The numbers, untouched.
Redacted(calls) ==
  [i \in DOMAIN turns |->
     IF turns[i].call \in calls THEN [turns[i] EXCEPT !.text = ""] ELSE turns[i]]

\* COMMIT, and the RetentionReport.
Return(r) ==
  /\ run[r].phase = "commit"
  /\ recordingUrl' = recordingUrl \ run[r].gone
  /\ tombstoned' = tombstoned \cup run[r].gone
  /\ redacted' = redacted \cup run[r].blanked
  /\ turns' = Redacted(run[r].blanked)
  /\ Update(r, Idle)
  /\ UNCHANGED << today, media >>

\* The query of the second pass is rejected too: the exception leaves runRetention() and
\* the transaction is rolled back.
Fails(r) ==
  /\ run[r].phase = "delete" /\ run[r].batch = {} /\ run[r].aborted
  /\ Update(r, Idle)
  /\ UNCHANGED << today, media, callRows >>

\* The platform ends the invocation: its transaction is rolled back, and what the carrier
\* has deleted stays deleted.
Dies(r) ==
  /\ RunsMayDie
  /\ run[r].phase # "idle"
  /\ Update(r, Idle)
  /\ UNCHANGED << today, media, callRows >>

Midnight ==
  /\ today < MaxDay
  /\ today' = today + 1
  /\ UNCHANGED << media, callRows, run >>

-----------------------------------------------------------------------------
Proceeds(r) ==
  \/ Deleted(r) \/ DeleteFailed(r) \/ Tombstone(r) \/ TombstoneRejected(r)
  \/ RedactTranscripts(r) \/ Return(r) \/ Fails(r)

Next == Midnight \/ \E r \in Runs : Begin(r) \/ Proceeds(r) \/ Dies(r)

Spec == Init /\ [][Next]_vars

\* The cron keeps being invoked and an invocation keeps going; in the end the database
\* accepts its writes and the platform no longer cuts it off; and a carrier that is asked
\* again and again deletes a recording it does not refuse.
FairSpec ==
  /\ Spec
  /\ WF_vars(Midnight)
  /\ <>[][\A r \in Runs : ~TombstoneRejected(r) /\ (Dies(r) => Return(r) \/ Fails(r))]_vars
  /\ \A r \in Runs :
       /\ WF_vars(Begin(r)) /\ WF_vars(Proceeds(r))
       /\ \A c \in Recorded : SF_vars(Deleted(r) /\ Current(r) = c)

-----------------------------------------------------------------------------
(* Properties. *)

\* "Media first, tombstone second": a call that says its recording was deleted never has
\* one the carrier still holds, whatever failed, died, or ran beside it.
TombstoneMeansGone == tombstoned \cap media = {}

\* Nothing is forgotten before its window is over: not a recording, and not a word of a
\* call whose recording alone has expired.
NothingForgottenEarly ==
  /\ \A c \in Recorded \ media : today - StartedAt[c] > RECORDING_RETENTION_DAYS
  /\ \A i \in DOMAIN Turns : turns[i] # Turns[i]
       => today - StartedAt[Turns[i].call] > TRANSCRIPT_RETENTION_DAYS

Figures == TurnFigures({[call |-> c, outcome |-> OutcomeOf[c]] : c \in Calls}, turns)

\* "Every number in computeMetrics() outlives every word the caller spoke": no step of the
\* sweep changes a figure, or what a build is told it has exceeded.
FiguresOutliveTheWords ==
  [][Figures' = Figures /\ CheckBudgets(Figures)' = CheckBudgets(Figures)]_vars

\* Every recording the carrier agrees to delete is deleted and tombstoned in the end, and
\* every call's words are forgotten, "a carrier outage" notwithstanding.
EveryPromiseIsKept ==
  <>(/\ Recorded \ Refused \subseteq tombstoned
     /\ redacted = Calls)

=============================================================================
