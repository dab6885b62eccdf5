--------------------------- MODULE OutcomeProofs ---------------------------
(***************************************************************************)
(* Theorems about what is measured of a booking once it is committed.      *)
(*                                                                         *)
(* When looks are made (OutcomePoller): for every set of bookings, every   *)
(* limit of a batch, every calendar, any number of invocations in flight,  *)
(* and whatever fails or dies.                                             *)
(*                                                                         *)
(* What a look reports (CrmJobs): for any number of touches by the         *)
(* contractor and by the vendor, and whatever outages the vendor has.      *)
(***************************************************************************)
EXTENDS OutcomePoller, CrmJobs, WellFoundedInduction, TLAPS

RunRecord ==
  [phase : {"idle", "poll", "count"}, now : Nat, batch : SUBSET Bookings,
   polls : [Bookings -> Nat], looks : [Bookings -> Nat], polled : SUBSET Bookings,
   aborted : BOOLEAN]

Typed ==
  /\ today \in Nat
  /\ completedPolls \in [Bookings -> Nat]
  /\ outcomes \in [Bookings -> Seq(Nat)]
  /\ run \in [Runs -> RunRecord]
  /\ overtaken \in [Bookings -> Nat]

\* The invocation has looked at the booking when the poll it had read as owed was due.
Earned(x, b) ==
  /\ x.polls[b] < Polls
  /\ x.looks[b] >= CommittedAt[b] + POLL_OFFSETS[x.polls[b] + 1]

\* An invocation's clock is never ahead, and each poll it is about to consume is earned.
Owed(x) ==
  /\ x.now <= today
  /\ \A b \in x.polled : Earned(x, b)
  /\ x.phase = "count" => x.batch # {} /\ Earned(x, Eldest(x.batch))

\* A counter has been overtaken no more often than it has been incremented.
OvertakenAtMost == \A b \in Bookings : overtaken[b] <= completedPolls[b]

IInv ==
  Typed /\ (\A r \in Runs : Owed(run[r])) /\ OvertakenAtMost /\ ConsumedPollsWereMade

-----------------------------------------------------------------------------
LEMMA Offsets == Polls = 3 /\ \A n \in 1..3 : POLL_OFFSETS[n] \in Nat
BY DEF Polls, POLL_OFFSETS

LEMMA OffsetsGrow ==
  ASSUME NEW m \in 1..Polls, NEW n \in 1..Polls, m <= n
  PROVE  POLL_OFFSETS[m] <= POLL_OFFSETS[n]
BY DEF Polls, POLL_OFFSETS

\* A set of natural numbers has a least one: of the bookings of a batch one is the oldest.
LEMMA LeastNatural ==
  ASSUME NEW S \in SUBSET Nat, S # {}
  PROVE  \E x \in S : \A y \in S : x <= y
<1>1. PICK x \in S : \A y \in S : ~ (<<y, x>> \in OpToRel(<, Nat))
  BY NatLessThanWellFounded, WFMin
<1>2. \A a, b \in Nat : a < b => <<a, b>> \in OpToRel(<, Nat)
  <2>. DEFINE Below == {ss \in Nat \X Nat : ss[1] < ss[2]}
  <2>1. OpToRel(<, Nat) = Below
    BY Zenon DEF OpToRel
  <2>2. \A a, b \in Nat : a < b => <<a, b>> \in Below
    OBVIOUS
  <2>. HIDE DEF Below
  <2>. QED
    BY <2>1, <2>2, Zenon
<1>3. \A y \in S : ~(y < x)
  BY <1>1, <1>2, Zenon
<1>. QED
  BY <1>3

\* Of the bookings left in a batch there is an oldest, and it is the one an invocation
\* is at.
LEMMA EldestIs ==
  ASSUME NEW B \in SUBSET Bookings, B # {}
  PROVE  Eldest(B) \in B
<1> DEFINE When == {CommittedAt[b] : b \in B}
           First(b) == b \in B /\ \A c \in B : CommittedAt[b] <= CommittedAt[c]
<1>1. When \in SUBSET Nat /\ When # {}
  BY OutcomePollerAssumption
<1>2. \E day \in When : \A y \in When : day <= y
  <2>. HIDE DEF When
  <2>. QED
    BY <1>1, LeastNatural
<1>3. \E b : First(b)
  BY <1>2
<1>4. First(CHOOSE b : First(b))
  <2>. HIDE DEF First
  <2>. QED
    BY <1>3, Zenon
<1>5. Eldest(B) = CHOOSE b : First(b)
  BY Zenon DEF Eldest
<1>. QED
  BY <1>4, <1>5, Zenon

LEMMA IdleIs ==
  /\ Idle \in RunRecord /\ Idle.phase = "idle" /\ Idle.now = 0 /\ Idle.polled = {}
  /\ Idle.looks \in [Bookings -> Nat]
  /\ today \in Nat => Owed(Idle)
BY DEF Idle, RunRecord, Owed

LEMMA InitHolds == Init => IInv
<1> SUFFICES ASSUME Init PROVE IInv
  OBVIOUS
<1>1. Typed
  BY IdleIs DEF Init, Typed
<1>2. ASSUME NEW r \in Runs PROVE Owed(run[r])
  BY IdleIs DEF Init
<1>3. OvertakenAtMost /\ ConsumedPollsWereMade
  BY DEF Init, OvertakenAtMost, ConsumedPollsWereMade
<1>. QED
  BY <1>1, <1>2, <1>3 DEF IInv

\* A step of one invocation that commits nothing.
LEMMA StepKeeps ==
  ASSUME IInv, NEW r \in Runs, NEW record \in RunRecord,
         run' = [run EXCEPT ![r] = record],
         UNCHANGED << today, stored >>,
         Owed(record)
  PROVE  IInv'
<1>1. Typed'
  BY DEF IInv, Typed, stored
<1>2. ASSUME NEW s \in Runs PROVE Owed(run[s])'
  <2>1. run'[s] = IF s = r THEN record ELSE run[s]
    BY DEF IInv, Typed
  <2>. QED
    BY <2>1 DEF IInv, Owed, Earned
<1>3. OvertakenAtMost' /\ ConsumedPollsWereMade'
  BY DEF IInv, OvertakenAtMost, ConsumedPollsWereMade, stored
<1>. QED
  BY <1>1, <1>2, <1>3 DEF IInv

\* What an invocation begins with.
Begun(x, day, batch, polls) ==
  [x EXCEPT !.phase = "poll", !.now = day, !.batch = batch, !.polls = polls]

LEMMA BegunIs ==
  ASSUME NEW x \in RunRecord, NEW day \in Nat, NEW batch \in SUBSET Bookings,
         NEW polls \in [Bookings -> Nat]
  PROVE  /\ Begun(x, day, batch, polls) \in RunRecord
         /\ Begun(x, day, batch, polls).phase = "poll"
         /\ Begun(x, day, batch, polls).now = day
         /\ Begun(x, day, batch, polls).polled = x.polled
BY DEF RunRecord, Begun

LEMMA BeginKeeps ==
  ASSUME IInv, NEW r \in Runs, Begin(r)
  PROVE  IInv'
<1>1. PICK limit \in Limits :
        \E batch \in Unfinished(limit) :
          /\ run' = [run EXCEPT ![r] = Begun(Idle, today, batch, Read(batch))]
          /\ UNCHANGED << today, stored >>
  BY Zenon DEF Begin, Update, Begun
<1>2. PICK batch \in Unfinished(limit) :
        /\ run' = [run EXCEPT ![r] = Begun(Idle, today, batch, Read(batch))]
        /\ UNCHANGED << today, stored >>
  BY <1>1
<1> DEFINE record == Begun(Idle, today, batch, Read(batch))
<1>3. run' = [run EXCEPT ![r] = record] /\ UNCHANGED << today, stored >>
  BY <1>2
<1>4. today \in Nat /\ batch \in SUBSET Bookings /\ Read(batch) \in [Bookings -> Nat]
  BY DEF IInv, Typed, Unfinished, MayOwe, Read
<1>5. record \in RunRecord /\ record.phase = "poll" /\ record.now = today /\ record.polled = {}
  BY <1>4, IdleIs, BegunIs
<1>. HIDE DEF record
<1>6. Owed(record)
  BY <1>4, <1>5 DEF Owed
<1>. QED
  BY <1>3, <1>5, <1>6, StepKeeps

\* What an invocation is left with by the steps of its loop.
LEMMA OnIs ==
  ASSUME NEW x \in RunRecord, NEW b
  PROVE  LET y == [x EXCEPT !.batch = @ \ {b}, !.phase = "poll"]
         IN /\ y \in RunRecord /\ y.phase = "poll" /\ y.now = x.now
            /\ y.polls = x.polls /\ y.looks = x.looks /\ y.polled = x.polled
BY DEF RunRecord

LEMMA AbortedIs ==
  ASSUME NEW x \in RunRecord, NEW looks \in [Bookings -> Nat]
  PROVE  LET y == [x EXCEPT !.aborted = TRUE, !.looks = looks, !.polled = {}]
         IN y \in RunRecord /\ y.phase = x.phase /\ y.now = x.now /\ y.polled = {}
BY DEF RunRecord

LEMMA CountedIs ==
  ASSUME NEW x \in RunRecord, NEW b \in Bookings
  PROVE  LET y == [x EXCEPT !.polled = @ \cup {b}]
         IN /\ y \in RunRecord /\ y.phase = x.phase /\ y.now = x.now
            /\ y.polls = x.polls /\ y.looks = x.looks /\ y.polled = x.polled \cup {b}
BY DEF RunRecord

LookedAt(x, b, day) == [x EXCEPT !.phase = "count", !.looks[b] = day]

LEMMA LookedIs ==
  ASSUME NEW x \in RunRecord, NEW b \in Bookings, NEW day \in Nat
  PROVE  /\ LookedAt(x, b, day) \in RunRecord
         /\ LookedAt(x, b, day).phase = "count" /\ LookedAt(x, b, day).now = x.now
         /\ LookedAt(x, b, day).polls = x.polls /\ LookedAt(x, b, day).polled = x.polled
         /\ LookedAt(x, b, day).batch = x.batch
         /\ LookedAt(x, b, day).looks = [x.looks EXCEPT ![b] = day]
BY DEF RunRecord, LookedAt

\* What an invocation holds while it has a booking to look at.
LEMMA AtWork ==
  ASSUME IInv, NEW r \in Runs, run[r].batch # {}
  PROVE  /\ run[r] \in RunRecord /\ Owed(run[r])
         /\ Current(r) \in Bookings
         /\ today \in Nat /\ run[r].now \in Nat /\ run[r].now <= today
<1>1. run[r] \in RunRecord /\ Owed(run[r]) /\ today \in Nat
  BY DEF IInv, Typed
<1>2. run[r].batch \in SUBSET Bookings /\ run[r].now \in Nat
  BY <1>1 DEF RunRecord
<1>3. Current(r) \in Bookings
  BY <1>2, EldestIs DEF Current
<1>. QED
  BY <1>1, <1>2, <1>3 DEF Owed

LEMMA OnwardIs ==
  ASSUME IInv, NEW r \in Runs, run[r].batch # {}
  PROVE  /\ Onward(r) \in RunRecord /\ Onward(r).phase = "poll" /\ Onward(r).now = run[r].now
         /\ Onward(r).polls = run[r].polls /\ Onward(r).looks = run[r].looks
         /\ Onward(r).polled = run[r].polled
         /\ Owed(Onward(r))
<1>1. /\ Onward(r) \in RunRecord /\ Onward(r).phase = "poll" /\ Onward(r).now = run[r].now
      /\ Onward(r).polls = run[r].polls /\ Onward(r).looks = run[r].looks
      /\ Onward(r).polled = run[r].polled
  <2>1. run[r] \in RunRecord /\ Current(r) \in Bookings
    BY AtWork
  <2>. QED
    BY <2>1, OnIs, Zenon DEF Onward
<1>2. Owed(Onward(r))
  BY <1>1, AtWork DEF Owed, Earned
<1>. QED
  BY <1>1, <1>2

LEMMA LeaveKeeps ==
  ASSUME IInv, NEW r \in Runs, NotYetDue(r) \/ ReadFailed(r) \/ WriteRejected(r)
  PROVE  IInv'
<1>1. run[r].batch # {} /\ UNCHANGED << today, stored >>
  BY DEF NotYetDue, ReadFailed, WriteRejected, Polling
<1>2. CASE NotYetDue(r) \/ ReadFailed(r)
  <2>1. run' = [run EXCEPT ![r] = Onward(r)]
    BY <1>2 DEF NotYetDue, ReadFailed, Update
  <2>. QED
    BY <1>1, <2>1, OnwardIs, StepKeeps
<1>3. CASE WriteRejected(r)
  <2> DEFINE record == [Onward(r) EXCEPT !.aborted = TRUE, !.looks = Idle.looks,
                                         !.polled = {}]
  <2>1. run' = [run EXCEPT ![r] = record]
    BY <1>3 DEF WriteRejected, Update
  <2>2. /\ Onward(r) \in RunRecord /\ Onward(r).phase = "poll"
        /\ Onward(r).now = run[r].now /\ run[r].now <= today
    BY <1>1, OnwardIs, AtWork
  <2>3. record \in RunRecord /\ record.phase = "poll" /\ record.now <= today /\ record.polled = {}
    BY <2>2, IdleIs, AbortedIs, Zenon
  <2>. HIDE DEF record
  <2>4. Owed(record)
    BY <2>3 DEF Owed
  <2>. QED
    BY <1>1, <2>1, <2>3, <2>4, StepKeeps
<1>. QED
  BY <1>2, <1>3

\* A look is made on a day when the poll it answers is due.
LEMMA ObserveKeeps ==
  ASSUME IInv, NEW r \in Runs, Observe(r)
  PROVE  IInv'
<1> DEFINE record == LookedAt(run[r], Current(r), today)
<1>1. /\ run[r].batch # {} /\ CurrentIsDue(r)
      /\ run' = [run EXCEPT ![r] = record]
      /\ UNCHANGED << today, stored >>
  BY Zenon DEF Observe, Polling, Update, LookedAt
<1>2. /\ run[r] \in RunRecord /\ Owed(run[r]) /\ Current(r) \in Bookings
      /\ today \in Nat /\ run[r].now \in Nat /\ run[r].now <= today
  BY <1>1, AtWork
<1>3. /\ record \in RunRecord /\ record.phase = "count" /\ record.now = run[r].now
      /\ record.polls = run[r].polls /\ record.polled = run[r].polled
      /\ record.batch = run[r].batch
      /\ record.looks = [run[r].looks EXCEPT ![Current(r)] = today]
  <2>1. run[r] \in RunRecord /\ Current(r) \in Bookings /\ today \in Nat
    BY <1>2
  <2>. QED
    BY <2>1, LookedIs
<1>. HIDE DEF record
<1>4. Earned(record, Current(r))
  <2>1. run[r].polls[Current(r)] \in Nat
    BY <1>2 DEF RunRecord
  <2>2. /\ run[r].polls[Current(r)] < Polls
        /\ CommittedAt[Current(r)] + POLL_OFFSETS[run[r].polls[Current(r)] + 1] <= run[r].now
    BY <1>1 DEF CurrentIsDue, Due
  <2>3. CommittedAt[Current(r)] \in Nat /\ POLL_OFFSETS[run[r].polls[Current(r)] + 1] \in Nat
    BY <1>2, <2>1, <2>2, Offsets, OutcomePollerAssumption
  <2>4. today >= CommittedAt[Current(r)] + POLL_OFFSETS[run[r].polls[Current(r)] + 1]
    BY <1>2, <2>2, <2>3
  <2>5. record.looks[Current(r)] = today
    BY <1>2, <1>3 DEF RunRecord
  <2>. QED
    BY <1>3, <2>2, <2>4, <2>5 DEF Earned
<1>5. Owed(record)
  <2>1. ASSUME NEW b \in record.polled PROVE Earned(record, b)
    <3>1. b \in Bookings /\ Earned(run[r], b)
      BY <1>2, <1>3, <2>1 DEF Owed, RunRecord
    <3>2. b = Current(r) \/ record.looks[b] = run[r].looks[b]
      BY <1>2, <1>3, <3>1 DEF RunRecord
    <3>. QED
      BY <1>3, <1>4, <3>1, <3>2 DEF Earned
  <2>. QED
    BY <1>1, <1>2, <1>3, <1>4, <2>1 DEF Owed, Current
<1>. QED
  BY <1>1, <1>3, <1>5, StepKeeps

\* A poll is consumed only after its look.
LEMMA RecordPollKeeps ==
  ASSUME IInv, NEW r \in Runs, RecordPoll(r)
  PROVE  IInv'
<1> DEFINE record == [Onward(r) EXCEPT !.polled = @ \cup {Current(r)}]
<1>1. /\ run[r].phase = "count" /\ run' = [run EXCEPT ![r] = record]
      /\ UNCHANGED << today, stored >>
  BY DEF RecordPoll, Update
<1>2. run[r].batch # {} /\ Earned(run[r], Current(r))
  BY <1>1 DEF IInv, Owed, Current
<1>3. /\ Onward(r) \in RunRecord /\ Onward(r).phase = "poll" /\ Owed(Onward(r))
      /\ Onward(r).looks = run[r].looks /\ Onward(r).polls = run[r].polls
      /\ Current(r) \in Bookings
  BY <1>2, OnwardIs, AtWork
<1>4. /\ record \in RunRecord /\ record.phase = "poll" /\ record.now = Onward(r).now
      /\ record.polls = Onward(r).polls /\ record.looks = Onward(r).looks
      /\ record.polled = Onward(r).polled \cup {Current(r)}
  BY <1>3, CountedIs, Zenon
<1>. HIDE DEF record
<1>5. Owed(record)
  BY <1>2, <1>3, <1>4 DEF Owed, Earned
<1>. QED
  BY <1>1, <1>4, <1>5, StepKeeps

LEMMA DiesKeeps ==
  ASSUME IInv, NEW r \in Runs, Dies(r)
  PROVE  IInv'
<1>1. run' = [run EXCEPT ![r] = Idle] /\ UNCHANGED << today, stored >>
  BY DEF Dies, Update
<1>2. today \in Nat
  BY DEF IInv, Typed
<1>. QED
  BY <1>1, <1>2, IdleIs, StepKeeps

\* What a COMMIT does to the rows of one booking the invocation has polled.
LEMMA PolledIs ==
  ASSUME IInv, NEW r \in Runs, Return(r), ~run[r].aborted,
         NEW b \in Bookings, b \in run[r].polled
  PROVE  /\ completedPolls'[b] = completedPolls[b] + 1
         /\ outcomes'[b] = Append(outcomes[b], run[r].looks[b])
         /\ overtaken'[b] = IF completedPolls[b] # run[r].polls[b]
                              THEN overtaken[b] + 1 ELSE overtaken[b]
BY DEF Return, Increment

\* And what it leaves alone.
LEMMA UnpolledIs ==
  ASSUME IInv, NEW r \in Runs, Return(r), ~run[r].aborted,
         NEW b \in Bookings, b \notin run[r].polled
  PROVE  /\ completedPolls'[b] = completedPolls[b]
         /\ outcomes'[b] = outcomes[b]
         /\ overtaken'[b] = overtaken[b]
BY DEF Return, Increment

\* A counter n of a booking committed on a day, overtaken k times, and the days it was seen.
Counted(n, k, seen, day) ==
  /\ n = Len(seen)
  /\ n - k > 0 =>
       /\ n - k <= Polls
       /\ \E look \in DOMAIN seen : seen[look] >= day + POLL_OFFSETS[n - k]

\* Whoever has been overtaken adds a look, and a poll that stands for none.
LEMMA OvertakenCounts ==
  ASSUME NEW n \in Nat, NEW k \in Nat, NEW seen \in Seq(Nat), NEW day \in Nat, NEW look \in Nat,
         Counted(n, k, seen, day)
  PROVE  Counted(n + 1, k + 1, Append(seen, look), day)
<1>1. /\ Len(Append(seen, look)) = Len(seen) + 1
      /\ DOMAIN Append(seen, look) = 1..(Len(seen) + 1) /\ DOMAIN seen = 1..Len(seen)
      /\ \A i \in 1..Len(seen) : Append(seen, look)[i] = seen[i]
  OBVIOUS
<1>2. n = Len(seen) /\ (n + 1) - (k + 1) = n - k
  BY DEF Counted
<1>3. ASSUME n - k > 0
      PROVE  /\ n - k <= Polls
             /\ \E i \in 1..(n + 1) : Append(seen, look)[i] >= day + POLL_OFFSETS[n - k]
  <2>1. PICK i \in 1..n : seen[i] >= day + POLL_OFFSETS[n - k]
    BY <1>1, <1>2, <1>3 DEF Counted
  <2>2. i \in 1..(n + 1) /\ Append(seen, look)[i] = seen[i]
    BY <1>1, <1>2
  <2>3. Append(seen, look)[i] >= day + POLL_OFFSETS[n - k]
    BY <2>1, <2>2
  <2>. QED
    BY <1>3, <2>2, <2>3 DEF Counted
<1>4. n + 1 = Len(Append(seen, look)) /\ DOMAIN Append(seen, look) = 1..(n + 1)
  BY <1>1, <1>2
<1> DEFINE due == (n + 1) - (k + 1)
<1>5. /\ due = n - k
      /\ due > 0 =>
           /\ due <= Polls
           /\ \E i \in DOMAIN Append(seen, look) :
                Append(seen, look)[i] >= day + POLL_OFFSETS[due]
  BY <1>2, <1>3, <1>4
<1>. QED
  BY <1>4, <1>5 DEF Counted

\* Whoever increments a counter that has not moved since adds the look it was read for.
LEMMA EarnedCounts ==
  ASSUME NEW n \in Nat, NEW k \in Nat, k <= n, NEW seen \in Seq(Nat), NEW day \in Nat,
         NEW look \in Nat, Counted(n, k, seen, day),
         n < Polls, look >= day + POLL_OFFSETS[n + 1]
  PROVE  Counted(n + 1, k, Append(seen, look), day)
<1>1. /\ Len(Append(seen, look)) = Len(seen) + 1
      /\ DOMAIN Append(seen, look) = 1..(Len(seen) + 1)
      /\ Append(seen, look)[Len(seen) + 1] = look
  OBVIOUS
<1>2. n = Len(seen)
  BY DEF Counted
<1>3. n + 1 = Len(Append(seen, look)) /\ n + 1 \in DOMAIN Append(seen, look)
      /\ Append(seen, look)[n + 1] = look
  BY <1>1, <1>2
<1> DEFINE due == (n + 1) - k
<1>4. due \in 1..3 /\ n + 1 \in 1..3 /\ due <= n + 1 /\ due <= Polls
  BY Offsets
<1>. HIDE DEF due
<1>5. POLL_OFFSETS[due] <= POLL_OFFSETS[n + 1]
  BY <1>4, Offsets, OffsetsGrow
<1>6. POLL_OFFSETS[due] \in Nat /\ POLL_OFFSETS[n + 1] \in Nat
  BY <1>4, Offsets
<1>7. look >= day + POLL_OFFSETS[due]
  BY <1>5, <1>6
<1>8. /\ due <= Polls
      /\ \E i \in DOMAIN Append(seen, look) : Append(seen, look)[i] >= day + POLL_OFFSETS[due]
  BY <1>3, <1>4, <1>7
<1>. QED
  BY <1>3, <1>8 DEF Counted, due

\* The property, booking by booking.
CountedWell(b) == Counted(completedPolls[b], overtaken[b], outcomes[b], CommittedAt[b])

LEMMA PropertyIs == ConsumedPollsWereMade <=> \A b \in Bookings : CountedWell(b)
BY Zenon DEF ConsumedPollsWereMade, CountedWell, Counted

LEMMA CountedKeeps ==
  ASSUME IInv, NEW r \in Runs, Return(r), ~run[r].aborted, NEW b \in Bookings
  PROVE  /\ overtaken'[b] \in Nat /\ completedPolls'[b] \in Nat /\ outcomes'[b] \in Seq(Nat)
         /\ overtaken'[b] <= completedPolls'[b]
         /\ CountedWell(b)'
<1>1. /\ completedPolls[b] \in Nat /\ overtaken[b] \in Nat /\ outcomes[b] \in Seq(Nat)
      /\ overtaken[b] <= completedPolls[b]
      /\ run[r] \in RunRecord /\ Owed(run[r])
  BY DEF IInv, Typed, OvertakenAtMost
<1>2. CountedWell(b) /\ CommittedAt[b] \in Nat
  BY PropertyIs, OutcomePollerAssumption DEF IInv
<1>3. CASE b \notin run[r].polled
  <2>1. /\ completedPolls'[b] = completedPolls[b] /\ outcomes'[b] = outcomes[b]
        /\ overtaken'[b] = overtaken[b]
    BY <1>3, UnpolledIs
  <2>2. CountedWell(b)'
    BY <1>2, <2>1 DEF CountedWell
  <2>. QED
    BY <1>1, <2>1, <2>2
<1>4. CASE b \in run[r].polled
  <2> DEFINE look == run[r].looks[b]
  <2>1. /\ completedPolls'[b] = completedPolls[b] + 1
        /\ outcomes'[b] = Append(outcomes[b], look)
        /\ overtaken'[b] = IF completedPolls[b] # run[r].polls[b]
                             THEN overtaken[b] + 1 ELSE overtaken[b]
    BY <1>4, PolledIs
  <2>2. look \in Nat /\ Earned(run[r], b)
    BY <1>1, <1>4 DEF Owed, RunRecord
  <2>3. /\ run[r].polls[b] < Polls
        /\ look >= CommittedAt[b] + POLL_OFFSETS[run[r].polls[b] + 1]
    BY <2>2 DEF Earned
  <2>. HIDE DEF look
  <2>4. CASE completedPolls[b] # run[r].polls[b]
    <3>1. overtaken'[b] = overtaken[b] + 1
      BY <2>1, <2>4
    <3>2. CountedWell(b)'
      BY <1>1, <1>2, <2>1, <2>2, <3>1, OvertakenCounts DEF CountedWell
    <3>. QED
      BY <1>1, <2>1, <2>2, <3>1, <3>2
  <2>5. CASE completedPolls[b] = run[r].polls[b]
    <3>1. overtaken'[b] = overtaken[b]
      BY <2>1, <2>5
    <3>2. completedPolls[b] < Polls /\ look >= CommittedAt[b] + POLL_OFFSETS[completedPolls[b] + 1]
      BY <2>3, <2>5
    <3>3. CountedWell(b)'
      BY <1>1, <1>2, <2>1, <2>2, <3>1, <3>2, EarnedCounts DEF CountedWell
    <3>. QED
      BY <1>1, <2>1, <2>2, <3>1, <3>3
  <2>. QED
    BY <2>4, <2>5
<1>. QED
  BY <1>3, <1>4

LEMMA ReturnKeeps ==
  ASSUME IInv, NEW r \in Runs, Return(r)
  PROVE  IInv'
<1>1. run' = [run EXCEPT ![r] = Idle] /\ today' = today
  BY DEF Return, Update
<1>2. Typed /\ today \in Nat
  BY DEF IInv, Typed
<1>3. CASE run[r].aborted
  <2>1. UNCHANGED << today, stored >>
    BY <1>1, <1>3 DEF Return
  <2>. QED
    BY <1>1, <1>2, <2>1, IdleIs, StepKeeps
<1>4. CASE ~run[r].aborted
  <2>1. ASSUME NEW b \in Bookings
        PROVE  /\ overtaken'[b] \in Nat /\ completedPolls'[b] \in Nat
               /\ outcomes'[b] \in Seq(Nat)
               /\ overtaken'[b] <= completedPolls'[b]
               /\ CountedWell(b)'
    BY <1>4, CountedKeeps
  <2>2. Typed'
    <3>1. /\ completedPolls' = [b \in Bookings |-> completedPolls'[b]]
          /\ outcomes' = [b \in Bookings |-> outcomes'[b]]
          /\ overtaken' = [b \in Bookings |-> overtaken'[b]]
      BY <1>4 DEF Return, Increment
    <3>2. /\ completedPolls' \in [Bookings -> Nat] /\ outcomes' \in [Bookings -> Seq(Nat)]
          /\ overtaken' \in [Bookings -> Nat]
      BY <2>1, <3>1
    <3>3. run' \in [Runs -> RunRecord]
      BY <1>1, <1>2, IdleIs DEF Typed
    <3>. QED
      BY <1>1, <1>2, <3>2, <3>3 DEF Typed
  <2>3. ASSUME NEW s \in Runs PROVE Owed(run[s])'
    <3>1. run'[s] = IF s = r THEN Idle ELSE run[s]
      BY <1>1, <1>2 DEF Typed
    <3>2. Owed(Idle) /\ Owed(run[s])
      BY <1>2, IdleIs DEF IInv
    <3>. QED
      BY <1>1, <3>1, <3>2 DEF Owed, Earned
  <2>4. OvertakenAtMost'
    BY <2>1 DEF OvertakenAtMost
  <2>5. ConsumedPollsWereMade'
    BY <2>1, Zenon DEF ConsumedPollsWereMade, CountedWell, Counted
  <2>. QED
    BY <2>2, <2>3, <2>4, <2>5 DEF IInv
<1>. QED
  BY <1>3, <1>4

LEMMA MidnightKeeps ==
  ASSUME IInv, Midnight
  PROVE  IInv'
<1>1. /\ today \in Nat /\ today' \in Nat /\ today <= today'
      /\ UNCHANGED << stored, run >>
  BY OutcomePollerAssumption DEF IInv, Typed, Midnight
<1>2. Typed' /\ OvertakenAtMost' /\ ConsumedPollsWereMade'
  BY <1>1 DEF IInv, Typed, OvertakenAtMost, ConsumedPollsWereMade, stored
<1>3. ASSUME NEW r \in Runs PROVE Owed(run[r])'
  <2>1. Owed(run[r]) /\ run[r].now \in Nat
    BY DEF IInv, Typed, RunRecord
  <2>. QED
    BY <1>1, <2>1 DEF Owed, Earned
<1>. QED
  BY <1>2, <1>3 DEF IInv

LEMMA StepHolds == IInv /\ [Next]_vars => IInv'
<1> SUFFICES ASSUME IInv, [Next]_vars PROVE IInv'
  OBVIOUS
<1>1. CASE UNCHANGED vars
  BY <1>1 DEF vars, IInv, Typed, Owed, Earned, OvertakenAtMost, ConsumedPollsWereMade
<1>2. CASE Midnight
  BY <1>2, MidnightKeeps
<1>3. ASSUME NEW r \in Runs, Begin(r) \/ Proceeds(r) \/ Dies(r)
      PROVE  IInv'
  BY <1>3, BeginKeeps, LeaveKeeps, ObserveKeeps, RecordPollKeeps, ReturnKeeps, DiesKeeps
     DEF Proceeds
<1>. QED
  BY <1>1, <1>2, <1>3 DEF Next

\* The inductive invariant of the poller, for any number of invocations in flight.
THEOREM IInvHolds == Spec => []IInv
BY InitHolds, StepHolds, PTL DEF Spec

\* "The poll is still owed" (poller.ts): however invocations overlap, and whatever could not
\* be read, was rejected by the database or died on the way, the counter of a booking is
\* the number of looks recorded of it, and its n-th poll stands for a look made when the
\* n-th was due, up to one poll for each increment that was overtaken by another.
THEOREM PollsAreNotMadeUp == Spec => []ConsumedPollsWereMade
<1>1. IInv => ConsumedPollsWereMade
  BY DEF IInv
<1>. QED
  BY <1>1, IInvHolds, PTL

-----------------------------------------------------------------------------
(* What a look reports *)

JobEnds == {"open", "done", "cancelled", "deleted"}

JobTyped ==
  /\ blank \in SUBSET Optional
  /\ edited \in SUBSET Fields
  /\ omitted \in SUBSET (Fields \cup {"status"})
  /\ fate \in [CRM_PROVIDERS -> JobEnds]
  /\ DOMAIN outcome = CRM_PROVIDERS

\* What the two properties say of the last look at a job.
RightlyCorrected(seen) ==
  \A slot \in DIFFABLE_SLOTS :
    /\ slot \in seen.corrected =>
         \/ Parts[slot] \cap seen.edited # {}
         \/ Parts[slot] \cap seen.omitted \cap {"first", "last", "line2"} # {}
    /\ (Parts[slot] \cap seen.edited # {} /\ Parts[slot] \cap seen.omitted = {} /\ seen.fate # "deleted")
         => slot \in seen.corrected

RightlyEnded(seen) ==
  /\ seen.cancelled => seen.fate \in {"cancelled", "deleted"}
  /\ seen.fate = "deleted" => seen.cancelled
  /\ seen.fate = "cancelled" /\ "status" \notin seen.omitted => seen.cancelled

Rightly(seen) == seen.fate # "unread" => RightlyCorrected(seen) /\ RightlyEnded(seen)

JobInv == JobTyped /\ \A p \in CRM_PROVIDERS : Rightly(outcome[p])

-----------------------------------------------------------------------------
(* What comes back over the wire *)

\* An answer that is taken for the job, or for its absence, is the vendor's own: no outage
\* passes for either.
LEMMA OnlyTheAnswerCounts ==
  ASSUME JobInv, NEW p \in CRM_PROVIDERS, NEW reply \in {Answer(p)} \cup Outages[p],
         ReadVerdict(p, reply) \in {"answer", "gone"}
  PROVE  ReadVerdict(p, reply) = "gone" <=> fate[p] = "deleted"
<1>1. p \in {"housecall_pro", "jobber"}
  BY DEF CRM_PROVIDERS
<1>2. CASE reply \in Outages[p]
  <2>1. reply \in [status : Nat, errors : SUBSET {"THROTTLED", "OTHER"},
                   userErrors : BOOLEAN, data : BOOLEAN, id : BOOLEAN]
        /\ TellsNothing(p, reply)
    BY <1>2, CrmJobsAssumption
  <2>2. ReadVerdict(p, reply) \notin {"answer", "gone"}
    BY <1>1, <2>1 DEF TellsNothing, ReadVerdict, RequestVerdict, ExecuteVerdict, StatusVerdict,
                      IsRetryableStatus, NoStatus
  <2> QED
    BY <2>2
<1>3. CASE reply = Answer(p)
  <2>1. CASE fate[p] # "deleted"
    <3>1. reply = Ok
      BY <1>3, <2>1 DEF Answer
    <3>2. reply.status = 200 /\ reply.errors = {} /\ reply.data = TRUE /\ reply.id = TRUE
      BY <3>1 DEF Ok, Reply
    <3>3. ReadVerdict(p, reply) = "answer"
      BY <1>1, <3>2 DEF ReadVerdict, RequestVerdict, ExecuteVerdict, StatusVerdict, NoStatus
    <3> QED
      BY <2>1, <3>3
  <2>2. CASE fate[p] = "deleted" /\ p = "jobber"
    <3>1. reply = NoId
      BY <1>3, <2>2 DEF Answer
    <3>2. reply.status = 200 /\ reply.errors = {} /\ reply.data = TRUE /\ reply.id = FALSE
      BY <3>1 DEF NoId, Reply
    <3>3. ReadVerdict(p, reply) = "gone"
      BY <2>2, <3>2 DEF ReadVerdict, ExecuteVerdict, StatusVerdict, NoStatus
    <3> QED
      BY <2>2, <3>3
  <2>3. CASE fate[p] = "deleted" /\ p = "housecall_pro"
    <3>1. reply = Status(404)
      BY <1>3, <2>3 DEF Answer
    <3>2. reply.status = 404
      BY <3>1 DEF Status, Reply
    <3>3. ReadVerdict(p, reply) = "gone"
      BY <2>3, <3>2 DEF ReadVerdict
    <3> QED
      BY <2>3, <3>3
  <2> QED
    BY <1>1, <2>1, <2>2, <2>3
<1> QED
  BY <1>2, <1>3

\* Either vendor's words for the end of a job are understood.
LEMMA WordsAreUnderstood ==
  ASSUME NEW p \in CRM_PROVIDERS, NEW end \in Fates, NEW word \in Words[p][end]
  PROVE  JobStatus(p, word) = "CANCELLED" <=> end = "cancelled"
<1>1. CASE p = "jobber"
  <2>1. Words[p][end] = IF end = "open" THEN {"upcoming"}
                        ELSE IF end = "done" THEN {"completed", "requires_invoicing"}
                        ELSE {"archived"}
    BY <1>1 DEF Words, Fates
  <2> QED
    BY <1>1, <2>1 DEF JobStatus, Fates
<1>2. CASE p = "housecall_pro"
  <2>1. JobStatus(p, word) = "CANCELLED" <=> "cancel" \in word
    BY <1>2 DEF JobStatus
  <2>2. CASE end = "open"
    <3>1. Words[p][end] = {{"scheduled"}, {"in", "progress"}}
      BY <1>2, <2>2, Zenon DEF Words
    <3>2. word = {"scheduled"} \/ word = {"in", "progress"}
      BY <3>1
    <3> QED
      BY <2>1, <2>2, <3>2
  <2>3. CASE end = "done"
    <3>1. Words[p][end] = {{"complete", "d"}}
      BY <1>2, <2>3, Zenon DEF Words
    <3>2. word = {"complete", "d"}
      BY <3>1
    <3> QED
      BY <2>1, <2>3, <3>2
  <2>4. CASE end = "cancelled"
    <3>1. Words[p][end] = {{"cancel", "ed"}, {"pro", "cancel", "ed"}}
      BY <1>2, <2>4, Zenon DEF Words
    <3>2. word = {"cancel", "ed"} \/ word = {"pro", "cancel", "ed"}
      BY <3>1
    <3> QED
      BY <2>1, <2>4, <3>2
  <2> QED
    BY <2>2, <2>3, <2>4 DEF Fates
<1> QED
  BY <1>1, <1>2 DEF CRM_PROVIDERS

-----------------------------------------------------------------------------
(* What the diff makes of it *)

LEMMA TheSlots ==
  /\ DIFFABLE_SLOTS = {"caller_name", "callback_phone", "service_address",
                       "problem_description", "appointment_window"}
  /\ Parts["caller_name"] = {"first", "last"} /\ Parts["callback_phone"] = {"phone"}
  /\ Parts["service_address"] = {"street", "line2"}
  /\ Parts["problem_description"] = {"description"}
  /\ Parts["appointment_window"] = {"start", "end"}
BY DEF DIFFABLE_SLOTS, Parts

\* What the parts of a slot that are there mean: ours, unless the contractor changed them.
LEMMA PresentMeans ==
  ASSUME NEW fields
  PROVE  Norm(Present(fields)) =
           {[field |-> f, means |-> IF f \in edited THEN "theirs" ELSE "ours"] :
              f \in {g \in fields : ~Missing(g)}}
<1>1. \A f : Part(f).field = f /\ Part(f).means = IF f \in edited THEN "theirs" ELSE "ours"
  BY DEF Part, Piece
<1> QED
  BY <1>1 DEF Norm, Present

LEMMA PayloadMeans ==
  ASSUME NEW slot \in DIFFABLE_SLOTS
  PROVE  Norm(Payload[slot]) = {[field |-> f, means |-> "ours"] : f \in Parts[slot] \ blank}
<1>1. Payload[slot] = {Piece(f, "ours", "ours") : f \in Parts[slot] \ blank}
  BY DEF Payload
<1>2. \A f : Piece(f, "ours", "ours").field = f /\ Piece(f, "ours", "ours").means = "ours"
  BY DEF Piece
<1> QED
  BY <1>1, <1>2 DEF Norm

\* A slot whose parts are there exactly when they were sent, and none of them changed,
\* differs in nothing.
LEMMA Untouched ==
  ASSUME NEW slot \in DIFFABLE_SLOTS, Parts[slot] \cap edited = {}, Parts[slot] \cap omitted = {}
  PROVE  Norm(Present(Parts[slot])) = Norm(Payload[slot])
<1>1. {g \in Parts[slot] : ~Missing(g)} = Parts[slot] \ blank
  BY DEF Missing
<1>2. {[field |-> f, means |-> IF f \in edited THEN "theirs" ELSE "ours"] : f \in Parts[slot] \ blank}
        = {[field |-> f, means |-> "ours"] : f \in Parts[slot] \ blank}
  <2>1. \A f \in Parts[slot] \ blank : f \notin edited
    OBVIOUS
  <2>2. \A f \in Parts[slot] \ blank :
          [field |-> f, means |-> IF f \in edited THEN "theirs" ELSE "ours"]
            = [field |-> f, means |-> "ours"]
    BY <2>1
  <2> QED
    BY <2>2, Zenon
<1>3. Norm(Present(Parts[slot])) =
        {[field |-> f, means |-> IF f \in edited THEN "theirs" ELSE "ours"] :
           f \in Parts[slot] \ blank}
  BY <1>1, PresentMeans, Zenon
<1>4. Norm(Payload[slot]) = {[field |-> f, means |-> "ours"] : f \in Parts[slot] \ blank}
  BY PayloadMeans, Zenon
<1> QED
  BY <1>2, <1>3, <1>4, Zenon

\* A part that the contractor changed and the vendor returns tells.
LEMMA TouchedTells ==
  ASSUME NEW slot \in DIFFABLE_SLOTS, NEW f \in Parts[slot], f \in edited, f \notin omitted
  PROVE  /\ Present(Parts[slot]) # {}
         /\ Norm(Present(Parts[slot])) # Norm(Payload[slot])
<1>1. ~Missing(f)
  BY DEF Missing
<1>2. Part(f) \in Present(Parts[slot])
  BY <1>1 DEF Present
<1> DEFINE told == [field |-> f, means |-> "theirs"]
<1>3. told \in Norm(Present(Parts[slot]))
  BY <1>1, PresentMeans
<1>4. told \notin Norm(Payload[slot])
  <2>1. \A g : [field |-> g, means |-> "ours"].means = "ours"
    OBVIOUS
  <2>2. told.means = "theirs"
    OBVIOUS
  <2> HIDE DEF told
  <2> QED
    BY <2>1, <2>2, PayloadMeans
<1> HIDE DEF told
<1> QED
  BY <1>2, <1>3, <1>4

\* A slot read back says nothing, or all of its parts that are there.
LEMMA ASlotIsReadWholeOrNot ==
  ASSUME JobTyped, NEW p, NEW slot \in DIFFABLE_SLOTS
  PROVE  /\ ReadSlots(p)[slot] \in {{}, Present(Parts[slot])}
         /\ Parts[slot] \cap omitted = {} => ReadSlots(p)[slot] = Present(Parts[slot])
         /\ ReadSlots(p)[slot] # {} =>
              Parts[slot] \cap omitted \subseteq {"first", "last", "line2"}
<1>1. ReadSlots(p)[slot] = IF slot = "service_address" THEN Address(Parts[slot])
                           ELSE IF slot = "appointment_window" THEN TimeWindow(Parts[slot])
                           ELSE IF slot = "problem_description" THEN Description(p)
                           ELSE Present(Parts[slot])
  BY DEF ReadSlots
<1>2. blank \subseteq {"last", "line2"}
  BY DEF JobTyped, Optional
<1>3. \A f : f \in omitted => Missing(f)
  BY DEF Missing
<1>4. \A f : f \notin omitted /\ f \notin blank => ~Missing(f)
  BY DEF Missing
<1>5. ASSUME NEW f, Missing(f) PROVE Present({f}) = {}
  BY <1>5 DEF Present
<1>6. CASE slot = "service_address"
  BY <1>1, <1>2, <1>3, <1>4, <1>6, TheSlots DEF Address
<1>7. CASE slot = "appointment_window"
  BY <1>1, <1>2, <1>3, <1>4, <1>7, TheSlots DEF TimeWindow
<1>8. CASE slot = "problem_description"
  BY <1>1, <1>3, <1>5, <1>8, TheSlots DEF Description
<1>9. CASE slot = "callback_phone"
  BY <1>1, <1>3, <1>5, <1>9, TheSlots
<1>10. CASE slot = "caller_name"
  BY <1>1, <1>10, TheSlots
<1> QED
  BY <1>6, <1>7, <1>8, <1>9, <1>10, TheSlots

\* The diff finds the slots the contractor changed and the vendor returns whole, and no
\* slot he did not change, but for one half of which is no longer returned.
LEMMA TheDiffIsRight ==
  ASSUME JobTyped, NEW p, NEW slot \in DIFFABLE_SLOTS
  PROVE  /\ slot \in DiffBooking(Payload, ReadSlots(p)) =>
              \/ Parts[slot] \cap edited # {}
              \/ Parts[slot] \cap omitted \cap {"first", "last", "line2"} # {}
         /\ (Parts[slot] \cap edited # {} /\ Parts[slot] \cap omitted = {})
              => slot \in DiffBooking(Payload, ReadSlots(p))
<1> DEFINE read == ReadSlots(p)[slot]
<1>1. slot \in DiffBooking(Payload, ReadSlots(p)) <=>
        read # {} /\ Norm(Payload[slot]) # Norm(read)
  BY DEF DiffBooking
<1>2. /\ read \in {{}, Present(Parts[slot])}
      /\ Parts[slot] \cap omitted = {} => read = Present(Parts[slot])
      /\ read # {} => Parts[slot] \cap omitted \subseteq {"first", "last", "line2"}
  BY ASlotIsReadWholeOrNot
<1> HIDE DEF read
<1>3. ASSUME slot \in DiffBooking(Payload, ReadSlots(p)), Parts[slot] \cap edited = {},
             Parts[slot] \cap omitted \cap {"first", "last", "line2"} = {}
      PROVE  FALSE
  <2>1. Parts[slot] \cap omitted = {} /\ read = Present(Parts[slot])
    BY <1>1, <1>2, <1>3
  <2>2. Norm(read) = Norm(Payload[slot])
    BY <1>3, <2>1, Untouched
  <2> QED
    BY <1>1, <1>3, <2>2
<1>4. ASSUME Parts[slot] \cap edited # {}, Parts[slot] \cap omitted = {}
      PROVE  slot \in DiffBooking(Payload, ReadSlots(p))
  <2>1. PICK f \in Parts[slot] : f \in edited /\ f \notin omitted
    BY <1>4
  <2>2. read = Present(Parts[slot])
    BY <1>2, <1>4
  <2>3. read # {} /\ Norm(read) # Norm(Payload[slot])
    BY <2>1, <2>2, TouchedTells
  <2> QED
    BY <1>1, <2>3
<1> QED
  BY <1>3, <1>4

-----------------------------------------------------------------------------
(* The invariant *)

LEMMA JobInitGood == JobInit => JobInv
BY DEF JobInit, JobInv, JobTyped, JobEnds, Rightly, NeverRead

\* A touch leaves what was seen as it was.
LEMMA JobTouchGood ==
  ASSUME JobInv, JobTyped', outcome' = outcome
  PROVE  JobInv'
BY DEF JobInv

LEMMA JobReadGood ==
  ASSUME JobInv, NEW p \in CRM_PROVIDERS, ReadJob(p)
  PROVE  JobInv'
<1>1. PICK reply \in {Answer(p)} \cup Outages[p],
           word \in IF fate[p] = "deleted" THEN {"none"} ELSE Words[p][fate[p]] :
        /\ ReadVerdict(p, reply) \in {"answer", "gone"}
        /\ outcome' = [outcome EXCEPT ![p] =
             [cancelled |-> ObserveOutcome(IF ReadVerdict(p, reply) = "gone"
                              THEN DeletedSnapshot ELSE Snapshot(p, word)).cancelled,
              corrected |-> ObserveOutcome(IF ReadVerdict(p, reply) = "gone"
                              THEN DeletedSnapshot ELSE Snapshot(p, word)).corrected,
              fate |-> fate[p], edited |-> edited, omitted |-> omitted]]
  BY Zenon DEF ReadJob
<1> DEFINE snapshot == IF ReadVerdict(p, reply) = "gone" THEN DeletedSnapshot ELSE Snapshot(p, word)
           seen == [cancelled |-> ObserveOutcome(snapshot).cancelled,
                    corrected |-> ObserveOutcome(snapshot).corrected,
                    fate |-> fate[p], edited |-> edited, omitted |-> omitted]
<1>2. /\ seen.cancelled = ObserveOutcome(snapshot).cancelled
      /\ seen.corrected = ObserveOutcome(snapshot).corrected
      /\ seen.fate = fate[p] /\ seen.edited = edited /\ seen.omitted = omitted
  BY Zenon
<1>3. outcome' = [outcome EXCEPT ![p] = seen]
  BY <1>1, Zenon
<1>4. /\ ObserveOutcome(snapshot).cancelled = (snapshot.status \in {"CANCELLED", "DELETED"})
      /\ ObserveOutcome(snapshot).corrected = DiffBooking(Payload, snapshot.slots)
  BY Zenon DEF ObserveOutcome
<1>5. JobTyped /\ JobTyped'
  BY <1>3 DEF JobInv, JobTyped, ReadJob, job
<1>6. ReadVerdict(p, reply) = "gone" <=> fate[p] = "deleted"
  BY <1>1, OnlyTheAnswerCounts
<1>7. ASSUME fate[p] = "deleted" PROVE Rightly(seen)
  <2>1. snapshot = DeletedSnapshot
    BY <1>6, <1>7
  <2>2. snapshot.status = "DELETED" /\ \A slot \in DIFFABLE_SLOTS : snapshot.slots[slot] = {}
    BY <2>1 DEF DeletedSnapshot
  <2> HIDE DEF snapshot
  <2>3. DiffBooking(Payload, snapshot.slots) = {}
    BY <2>2 DEF DiffBooking
  <2> HIDE DEF seen
  <2>4. seen.cancelled /\ seen.corrected = {} /\ seen.fate = "deleted"
    BY <1>2, <1>4, <1>7, <2>2, <2>3
  <2> QED
    BY <2>4 DEF Rightly, RightlyCorrected, RightlyEnded
<1>8. ASSUME fate[p] # "deleted" PROVE Rightly(seen)
  <2>1. snapshot = Snapshot(p, word)
    BY <1>6, <1>8
  <2>2. snapshot.status = (IF "status" \in omitted THEN "SCHEDULED" ELSE JobStatus(p, word))
        /\ snapshot.slots = ReadSlots(p)
    BY <2>1 DEF Snapshot
  <2>3. fate[p] \in Fates /\ word \in Words[p][fate[p]]
    BY <1>1, <1>5, <1>8 DEF JobTyped, JobEnds, Fates
  <2>4. JobStatus(p, word) = "CANCELLED" <=> fate[p] = "cancelled"
    BY <2>3, WordsAreUnderstood
  <2>5. JobStatus(p, word) # "DELETED"
    BY DEF JobStatus
  <2> HIDE DEF snapshot, seen
  <2>6. seen.cancelled <=> ("status" \notin omitted /\ fate[p] = "cancelled")
    BY <1>2, <1>4, <2>2, <2>4, <2>5
  <2>7. RightlyEnded(seen)
    BY <1>2, <1>8, <2>6 DEF RightlyEnded
  <2>8. seen.corrected = DiffBooking(Payload, ReadSlots(p))
    BY <1>2, <1>4, <2>2
  <2>9. RightlyCorrected(seen)
    BY <1>2, <1>5, <2>8, TheDiffIsRight DEF RightlyCorrected
  <2> QED
    BY <2>7, <2>9 DEF Rightly
<1> HIDE DEF seen
<1>9. Rightly(seen)
  BY <1>7, <1>8
<1>10. \A q \in CRM_PROVIDERS : Rightly(outcome'[q])
  BY <1>3, <1>5, <1>9 DEF JobInv, JobTyped
<1> QED
  BY <1>5, <1>10 DEF JobInv

LEMMA JobStepGood == JobInv /\ [JobNext]_jobVars => JobInv'
<1> SUFFICES ASSUME JobInv, [JobNext]_jobVars PROVE JobInv'
  OBVIOUS
<1>1. ASSUME NEW field \in Fields, Edit(field) PROVE JobInv'
  BY <1>1, JobTouchGood DEF Edit, JobInv, JobTyped
<1>2. ASSUME NEW field \in Fields, Respell(field) PROVE JobInv'
  BY <1>2, JobTouchGood DEF Respell, JobInv, JobTyped
<1>3. ASSUME NEW field \in Fields \cup {"status"}, Omit(field) PROVE JobInv'
  BY <1>3, JobTouchGood DEF Omit, JobInv, JobTyped
<1>4. ASSUME NEW end \in {"done", "cancelled", "deleted"}, Close(end) PROVE JobInv'
  <2>1. fate' \in [CRM_PROVIDERS -> JobEnds]
    BY <1>4 DEF Close, JobEnds
  <2> QED
    BY <1>4, <2>1, JobTouchGood DEF Close, JobInv, JobTyped
<1>5. CASE RevokeJob
  <2>1. fate' \in [CRM_PROVIDERS -> JobEnds]
    BY <1>5 DEF RevokeJob, JobEnds
  <2> QED
    BY <1>5, <2>1, JobTouchGood DEF RevokeJob, JobInv, JobTyped
<1>6. ASSUME NEW p \in CRM_PROVIDERS, ReadJob(p) PROVE JobInv'
  BY <1>6, JobReadGood
<1>7. CASE UNCHANGED jobVars
  BY <1>7, JobTouchGood DEF jobVars, job, JobInv, JobTyped
<1> QED
  BY <1>1, <1>2, <1>3, <1>4, <1>5, <1>6, <1>7 DEF JobNext

\* Whatever was done to the job, and however often it was read, the last look at it was
\* right when it was taken.
THEOREM JobInvHolds == JobSpec => []JobInv
BY JobInitGood, JobStepGood, PTL DEF JobSpec

\* "Absence must never become a correction" (types.ts 107): what is reported as corrected
\* is what the contractor changed, in either CRM, but for half a name or a second address
\* line that is no longer returned; and a change that the vendor returns is reported.
THEOREM OnlyTheContractorCorrects == JobSpec => []CorrectionsAreTheContractors
<1>1. JobInv => CorrectionsAreTheContractors
  BY Zenon DEF JobInv, Rightly, RightlyCorrected, CorrectionsAreTheContractors, WasRead
<1> QED
  BY <1>1, JobInvHolds, PTL

\* A job that was cancelled, deleted or revoked is reported so, and no other is, whichever
\* vendor keeps it and whatever outage hides it.
THEOREM TheEndOfAJobIsTold == JobSpec => []SurvivalIsTold
<1>1. JobInv => SurvivalIsTold
  BY Zenon DEF JobInv, Rightly, RightlyEnded, SurvivalIsTold, WasRead
<1> QED
  BY <1>1, JobInvHolds, PTL

=============================================================================
