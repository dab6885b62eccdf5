--------------------------- MODULE OutcomePoller ---------------------------
(***************************************************************************)
(* workflows/src/poller.ts as the cron runs it (web/api/cron/poll-outcomes *)
(* over db/src/stores.ts): re-reading every committed booking 24 hours,    *)
(* 72 hours and 7 days later.                                              *)
(*                                                                         *)
(* An invocation polls its whole batch inside ONE database transaction at  *)
(* READ COMMITTED.  What it writes is seen by others when it commits; a    *)
(* row it has updated makes the other invocations wait; and once one of    *)
(* its statements is rejected the database rejects the rest, and commits   *)
(* nothing, without an error at the COMMIT.  Time is in days.              *)
(***************************************************************************)
EXTENDS Naturals, FiniteSets, Sequences

CONSTANTS
  Bookings,      \* committed bookings
  CommittedAt,   \* the day each was committed
  Runs,          \* invocations of the cron that can be in flight at once
  Limits,        \* the limits a batch may be given: POLL_BATCH_LIMIT by default
  Unstorable,    \* bookings whose snapshot the database may reject
  RunsMayDie,    \* whether an invocation may be cut off by the platform
  Days           \* bound: the days on which the cron is modelled

POLL_OFFSETS == << 1, 3, 7 >>
Polls == Len(POLL_OFFSETS)

ASSUME OutcomePollerAssumption ==
  /\ CommittedAt \in [Bookings -> Nat]
  /\ Limits \subseteq Nat \ {0}
  /\ Unstorable \subseteq Bookings
  /\ RunsMayDie \in BOOLEAN
  /\ Days \subseteq Nat /\ 0 \in Days

VARIABLES
  today,
  completedPolls,  \* bookings.completed_polls
  outcomes,        \* the rows of the outcomes table: when each booking was observed
  run,             \* the invocations
  overtaken        \* observer: increments of a counter that had moved since it was read

vars == << today, completedPolls, outcomes, run, overtaken >>
stored == << completedPolls, outcomes, overtaken >>

Idle == [phase |-> "idle", now |-> 0, batch |-> {}, polls |-> [b \in Bookings |-> 0],
         looks |-> [b \in Bookings |-> 0], polled |-> {}, aborted |-> FALSE]

Init ==
  /\ today = 0
  /\ completedPolls = [b \in Bookings |-> 0]
  /\ outcomes = [b \in Bookings |-> << >>]
  /\ run = [r \in Runs |-> Idle]
  /\ overtaken = [b \in Bookings |-> 0]

\* Mutant of Due: the coarse filter of the query taken for the schedule.
DueByTheQuery(b, polls, now) ==
  polls < Polls /\ CommittedAt[b] + POLL_OFFSETS[1] <= now

\* nextDuePoll()
Due(b, polls, now) ==
  polls < Polls /\ CommittedAt[b] + POLL_OFFSETS[polls + 1] <= now

\* Mutant of MayOwe: the last poll is not owed.
OwesTwoPolls ==
  {b \in Bookings : completedPolls[b] < Polls - 1 /\ CommittedAt[b] + POLL_OFFSETS[1] <= today}

\* The bookings that could owe a poll.
MayOwe ==
  {b \in Bookings : completedPolls[b] < Polls /\ CommittedAt[b] + POLL_OFFSETS[1] <= today}

\* unfinished(): the oldest of them up to the limit, whichever of the same day come first.
Unfinished(limit) ==
  {batch \in SUBSET MayOwe :
     /\ Cardinality(batch) = limit \/ (batch = MayOwe /\ Cardinality(MayOwe) < limit)
     /\ \A b \in batch, c \in MayOwe \ batch : CommittedAt[b] <= CommittedAt[c]}

Update(r, record) == run' = [run EXCEPT ![r] = record]

\* The booking it is at, the oldest of those left, and the rest of its batch.
Eldest(bookings) ==
  CHOOSE b \in bookings : \A c \in bookings : CommittedAt[b] <= CommittedAt[c]
Current(r) == Eldest(run[r].batch)
Onward(r) == [run[r] EXCEPT !.batch = @ \ {Current(r)}, !.phase = "poll"]

-----------------------------------------------------------------------------
\* What the invocation reads of its batch.
Read(batch) == [b \in Bookings |-> IF b \in batch THEN completedPolls[b] ELSE 0]

Begin(r) ==
  /\ run[r].phase = "idle"
  /\ \E limit \in Limits : \E batch \in Unfinished(limit) :
       /\ batch # {}
       /\ Update(r, [Idle EXCEPT !.phase = "poll", !.now = today, !.batch = batch,
                                 !.polls = Read(batch)])
  /\ UNCHANGED << today, stored >>

Polling(r) == run[r].phase = "poll" /\ run[r].batch # {}

CurrentIsDue(r) == Due(Current(r), run[r].polls[Current(r)], run[r].now)

NotYetDue(r) ==
  /\ Polling(r) /\ ~CurrentIsDue(r)
  /\ Update(r, Onward(r))
  /\ UNCHANGED << today, stored >>

\* Mutant of ReadFailed: a failure consumes the poll.
ReadFailedCounted(r) ==
  /\ Polling(r) /\ CurrentIsDue(r)
  /\ Update(r, [Onward(r) EXCEPT !.polled = @ \cup {Current(r)}])
  /\ UNCHANGED << today, stored >>

\* The CRM could not be read: the poll is still owed.
ReadFailed(r) ==
  /\ Polling(r) /\ CurrentIsDue(r)
  /\ Update(r, Onward(r))
  /\ UNCHANGED << today, stored >>

\* observeOutcome() and outcomes.record(): the job is read, and what was seen is
\* inserted in the transaction, once per booking and instant.
Observe(r) ==
  /\ Polling(r) /\ CurrentIsDue(r)
  /\ ~run[r].aborted
  /\ Update(r, [run[r] EXCEPT
       !.phase = "count",
       !.looks[Current(r)] = today])
  /\ UNCHANGED << today, stored >>

\* A rejected insert is swallowed with every other failure, and the batch goes on, though
\* the transaction is undone by then and its rows are free.
WriteRejected(r) ==
  /\ Polling(r) /\ CurrentIsDue(r)
  /\ run[r].aborted \/ Current(r) \in Unstorable
  /\ Update(r, [Onward(r) EXCEPT !.aborted = TRUE, !.looks = Idle.looks, !.polled = {}])
  /\ UNCHANGED << today, stored >>

\* recordPoll(): waits for whoever has updated the row and not committed.
RecordPoll(r) ==
  /\ run[r].phase = "count"
  /\ \A other \in Runs \ {r} : Current(r) \notin run[other].polled
  /\ Update(r, [Onward(r) EXCEPT !.polled = @ \cup {Current(r)}])
  /\ UNCHANGED << today, stored >>

\* Mutant of Increment: SET completed_polls = n + 1, from the value read a moment ago.
IncrementAbsolute(x) ==
  [b \in Bookings |-> IF b \in x.polled THEN x.polls[b] + 1 ELSE completedPolls[b]]

\* completed_polls = completed_polls + 1, on the row as it is by then.
Increment(x) ==
  [b \in Bookings |-> IF b \in x.polled THEN completedPolls[b] + 1 ELSE completedPolls[b]]

\* The batch is done: COMMIT, and the PollReport.
Return(r) ==
  /\ run[r].phase = "poll" /\ run[r].batch = {}
  /\ IF run[r].aborted THEN UNCHANGED stored
     ELSE LET x == run[r]
              Overtaken(b) == b \in x.polled /\ completedPolls[b] # x.polls[b]
          IN /\ completedPolls' = Increment(x)
             /\ outcomes' = [b \in Bookings |-> IF b \in x.polled
                               THEN Append(outcomes[b], x.looks[b]) ELSE outcomes[b]]
             /\ overtaken' = [b \in Bookings |-> IF Overtaken(b)
                                THEN overtaken[b] + 1 ELSE overtaken[b]]
  /\ Update(r, Idle)
  /\ UNCHANGED today

\* The platform ends the invocation: its transaction is rolled back.
Dies(r) ==
  /\ RunsMayDie
  /\ run[r].phase # "idle"
  /\ Update(r, Idle)
  /\ UNCHANGED << today, stored >>

Midnight ==
  /\ \E day \in Days : day > today
  /\ today' \in Days /\ today' > today
  /\ \A day \in Days : day > today => day >= today'
  /\ UNCHANGED << stored, run >>

-----------------------------------------------------------------------------
Proceeds(r) ==
  NotYetDue(r) \/ ReadFailed(r) \/ Observe(r) \/ WriteRejected(r) \/ RecordPoll(r) \/ Return(r)

Next == Midnight \/ \E r \in Runs : Begin(r) \/ Proceeds(r) \/ Dies(r)

Spec == Init /\ [][Next]_vars

\* The cron keeps being invoked and an invocation keeps going; a job that is read again
\* and again is read and stored in the end; and there comes a time when the platform cuts
\* no invocation off any more.
FairSpec ==
  /\ Spec
  /\ WF_vars(Midnight)
  /\ \A r \in Runs :
       /\ WF_vars(Begin(r)) /\ WF_vars(Proceeds(r))
       /\ \A b \in Bookings : SF_vars(Observe(r) /\ Current(r) = b)
  /\ <>[][\A r \in Runs : Dies(r) => Return(r)]_vars

-----------------------------------------------------------------------------
(* Properties. *)

\* What a booking's counter says, however invocations overlap, fail or die: one poll for
\* each look that was recorded, none lost and none made up; and the n-th poll stands for a
\* look made when the n-th was due.  An overlap takes one poll for a look already counted,
\* and no more: the n-th poll then stands for an earlier one.  So an invocation and its
\* retry, which the relative increment of recordPoll() is there for, can still leave a
\* booking looked at twice at 24 hours and not at 72.
ConsumedPollsWereMade ==
  \A b \in Bookings :
    LET due == completedPolls[b] - overtaken[b]
    IN /\ completedPolls[b] = Len(outcomes[b])
       /\ due > 0 =>
            /\ due <= Polls
            /\ \E look \in DOMAIN outcomes[b] :
                 outcomes[b][look] >= CommittedAt[b] + POLL_OFFSETS[due]

\* "Every failure mode of this file leaves a correction uncounted for now and counted
\* later": whatever fails on the way, every booking's polls are all consumed in the end,
\* each by a look that was recorded.
EveryPollIsMade == \A b \in Bookings : <>(Len(outcomes[b]) >= Polls)

=============================================================================
