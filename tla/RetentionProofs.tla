-------------------------- MODULE RetentionProofs --------------------------
(***************************************************************************)
(* Theorems about Retention, for every set of calls, both windows, every   *)
(* limit of a batch and any number of sweeps that overlap, fail or die.    *)
(***************************************************************************)
EXTENDS Retention, WellFoundedInduction, TLAPS

RunRecord ==
  [phase : {"idle", "delete", "tombstone", "commit"}, now : Nat, batch : SUBSET Calls,
   gone : SUBSET Calls, blanked : SUBSET Calls, aborted : BOOLEAN]

Typed ==
  /\ today \in Nat
  /\ run \in [Runs -> RunRecord]
  /\ turns \in Seq(TurnRow)

Expired(kind, c, day) == StartedAt[c] < ExpireBefore(kind, day)

\* What a sweep holds was read with its own clock, which is never ahead; and what it has
\* deleted, or is about to say it has, is gone.
Sweeping(sweep, held) ==
  /\ sweep.now <= today
  /\ \A c \in sweep.batch : Expired("recording", c, sweep.now)
  /\ \A c \in sweep.blanked : Expired("transcript", c, sweep.now)
  /\ sweep.gone \cap held = {}
  /\ sweep.phase = "tombstone" => sweep.batch # {} /\ Eldest(sweep.batch) \notin held

\* A recording that is gone had expired, and a turn differs from what was said only in its
\* words, and only if they had expired.
Kept ==
  /\ \A c \in Recorded \ media : Expired("recording", c, today)
  /\ Len(turns) = Len(Turns)
  /\ \A i \in DOMAIN Turns :
       /\ turns[i].call = Turns[i].call
       /\ turns[i] # Turns[i] => Expired("transcript", Turns[i].call, today)

IInv == Typed /\ (\A r \in Runs : Sweeping(run[r], media)) /\ TombstoneMeansGone /\ Kept

-----------------------------------------------------------------------------
LEMMA RowsAre ==
  /\ DOMAIN Turns = 1..Len(Turns) /\ Len(Turns) \in Nat
  /\ \A i \in DOMAIN Turns : Turns[i] \in TurnRow /\ Turns[i].call \in Calls
<1>1. Turns \in Seq(TurnRow)
  BY RetentionAssumption
<1>2. \A i \in DOMAIN Turns : Turns[i] \in TurnRow
  BY <1>1
<1>3. \A row \in TurnRow : row.call \in Calls
  BY DEF TurnRow
<1>. QED
  BY <1>1, <1>2, <1>3

\* A set of natural numbers has a least one: of the calls of a batch one is the oldest.
LEMMA LeastNatural ==
  ASSUME NEW S \in SUBSET Nat, S # {}
  PROVE  \E x \in S : \A y \in S : x <= y
<1>1. PICK x \in S : \A y \in S : ~ (<<y, x>> \in OpToRel(<, Nat))
  BY NatLessThanWellFounded, WFMin
<1>2. \A a, b \in Nat : a < b => <<a, b>> \in OpToRel(<, Nat)
  <2>. DEFINE Below == {ss \in Nat \X Nat : ss[1] < ss[2]}
  <2>1. OpToRel(<, Nat) = Below
    BY Zenon DEF OpToRel
  <2>2. \A a, b \in Nat : a < b => <<a, b>> \in Below
    OBVIOUS
  <2>. HIDE DEF Below
  <2>. QED
    BY <2>1, <2>2, Zenon
<1>3. \A y \in S : ~(y < x)
  BY <1>1, <1>2, Zenon
<1>. QED
  BY <1>3

\* Of the calls left in a batch there is an oldest, and it is the one a sweep is at.
LEMMA EldestIs ==
  ASSUME NEW B \in SUBSET Calls, B # {}
  PROVE  Eldest(B) \in B
<1> DEFINE Days == {StartedAt[c] : c \in B}
           First(c) == c \in B /\ \A d \in B : StartedAt[c] <= StartedAt[d]
<1>1. Days \in SUBSET Nat /\ Days # {}
  BY RetentionAssumption
<1>2. \E day \in Days : \A y \in Days : day <= y
  <2>. HIDE DEF Days
  <2>. QED
    BY <1>1, LeastNatural
<1>3. \E c : First(c)
  BY <1>2
<1>4. First(CHOOSE c : First(c))
  <2>. HIDE DEF First
  <2>. QED
    BY <1>3, Zenon
<1>5. Eldest(B) = CHOOSE c : First(c)
  BY Zenon DEF Eldest
<1>. QED
  BY <1>4, <1>5, Zenon

\* What a query returns has expired.
LEMMA OldestExpired ==
  ASSUME NEW now \in Int
  PROVE  /\ ExpiredRecordings(now) \subseteq {c \in Calls : Expired("recording", c, now)}
         /\ ExpiredTranscripts(now) \subseteq {c \in Calls : Expired("transcript", c, now)}
BY DEF ExpiredRecordings, ExpiredTranscripts, Oldest, StartedBefore, Expired

\* What has expired stays so.
LEMMA ExpiryIsFinal ==
  ASSUME NEW kind, NEW c \in Calls, NEW day \in Int, NEW later \in Int, day <= later,
         Expired(kind, c, day)
  PROVE  Expired(kind, c, later)
BY RetentionAssumption DEF Expired, ExpireBefore

-----------------------------------------------------------------------------
LEMMA InitHolds == Init => IInv
<1> SUFFICES ASSUME Init PROVE IInv
  OBVIOUS
<1>1. Typed
  BY RetentionAssumption DEF Init, Typed, Idle, RunRecord
<1>2. ASSUME NEW r \in Runs PROVE Sweeping(run[r], media)
  BY DEF Init, Sweeping, Idle
<1>3. TombstoneMeansGone /\ Kept
  BY RetentionAssumption DEF Init, TombstoneMeansGone, Kept, TurnRow
<1>. QED
  BY <1>1, <1>2, <1>3 DEF IInv

\* A step of one sweep that leaves the rows alone, and takes nothing from the carrier but
\* the recording the sweep is at.
LEMMA SweepKeeps ==
  ASSUME IInv, NEW r \in Runs, NEW record \in RunRecord,
         run' = [run EXCEPT ![r] = record], UNCHANGED << today, callRows >>,
         \/ media' = media
         \/ run[r].batch # {} /\ media' = media \ {Current(r)},
         Sweeping(record, media')
  PROVE  IInv'
<1>1. Typed'
  BY DEF IInv, Typed, callRows
<1>2. media' \subseteq media /\ run'[r] = record /\ today' = today
  BY DEF IInv, Typed
<1>3. ASSUME NEW s \in Runs PROVE Sweeping(run[s], media)'
  <2>1. CASE s = r
    BY <1>2, <2>1 DEF Sweeping
  <2>2. CASE s # r
    <3>1. run'[s] = run[s] /\ Sweeping(run[s], media)
      BY <2>2 DEF IInv, Typed
    <3>. QED
      BY <1>2, <3>1 DEF Sweeping
  <2>. QED
    BY <2>1, <2>2
<1>4. TombstoneMeansGone'
  BY <1>2 DEF IInv, TombstoneMeansGone, callRows
<1>5. ASSUME NEW c \in Recorded \ media' PROVE Expired("recording", c, today)
  <2>1. CASE c \notin media
    BY <2>1 DEF IInv, Kept
  <2>2. CASE c \in media
    <3>1. run[r].batch # {} /\ c = Current(r)
      BY <2>2
    <3>2. run[r].batch \in SUBSET Calls /\ run[r].now \in Int /\ today \in Int
      BY DEF IInv, Typed, RunRecord
    <3>3. c \in run[r].batch
      BY <3>1, <3>2, EldestIs DEF Current
    <3>4. Expired("recording", c, run[r].now) /\ run[r].now <= today
      BY <3>3 DEF IInv, Sweeping
    <3>. QED
      BY <3>2, <3>3, <3>4, ExpiryIsFinal
  <2>. QED
    BY <2>1, <2>2
<1>6. Kept'
  BY <1>2, <1>5 DEF IInv, Kept, callRows, Expired, ExpireBefore
<1>. QED
  BY <1>1, <1>3, <1>4, <1>6 DEF IInv

\* What an update of one field of an invocation's state leaves of it.
LEMMA UpdateIs ==
  ASSUME NEW x \in RunRecord
  PROVE  /\ \A v \in {"delete", "tombstone", "commit"} :
              LET y == [x EXCEPT !.phase = v]
              IN /\ y \in RunRecord /\ y.phase = v /\ y.batch = x.batch /\ y.now = x.now
                 /\ y.gone = x.gone /\ y.blanked = x.blanked
         /\ \A v \in SUBSET Calls :
              LET y == [x EXCEPT !.gone = @ \cup v]
              IN /\ y \in RunRecord /\ y.phase = x.phase /\ y.batch = x.batch /\ y.now = x.now
                 /\ y.gone = x.gone \cup v /\ y.blanked = x.blanked
         /\ LET y == [x EXCEPT !.aborted = TRUE]
            IN /\ y \in RunRecord /\ y.phase = x.phase /\ y.batch = x.batch /\ y.now = x.now
               /\ y.gone = x.gone /\ y.blanked = x.blanked
<1>1. ASSUME NEW v \in {"delete", "tombstone", "commit"}
      PROVE  LET y == [x EXCEPT !.phase = v]
             IN /\ y \in RunRecord /\ y.phase = v /\ y.batch = x.batch /\ y.now = x.now
                /\ y.gone = x.gone /\ y.blanked = x.blanked
  BY DEF RunRecord
<1>2. ASSUME NEW v \in SUBSET Calls
      PROVE  LET y == [x EXCEPT !.gone = @ \cup v]
             IN /\ y \in RunRecord /\ y.phase = x.phase /\ y.batch = x.batch /\ y.now = x.now
                /\ y.gone = x.gone \cup v /\ y.blanked = x.blanked
  BY DEF RunRecord
<1>3. LET y == [x EXCEPT !.aborted = TRUE]
      IN /\ y \in RunRecord /\ y.phase = x.phase /\ y.batch = x.batch /\ y.now = x.now
         /\ y.gone = x.gone /\ y.blanked = x.blanked
  BY DEF RunRecord
<1>. QED
  BY <1>1, <1>2, <1>3

\* What an invocation begins with.
Begun(x, day, batch) == [x EXCEPT !.phase = "delete", !.now = day, !.batch = batch]

LEMMA BegunIs ==
  ASSUME NEW x \in RunRecord, NEW day \in Nat, NEW batch \in SUBSET Calls
  PROVE  /\ Begun(x, day, batch) \in RunRecord
         /\ Begun(x, day, batch).phase = "delete" /\ Begun(x, day, batch).now = day
         /\ Begun(x, day, batch).batch = batch
         /\ Begun(x, day, batch).gone = x.gone /\ Begun(x, day, batch).blanked = x.blanked
BY DEF RunRecord, Begun

LEMMA BeginKeeps ==
  ASSUME IInv, NEW r \in Runs, Begin(r)
  PROVE  IInv'
<1> DEFINE record == Begun(Idle, today, ExpiredRecordings(today))
<1>1. run' = [run EXCEPT ![r] = record] /\ media' = media /\ UNCHANGED << today, callRows >>
  BY Zenon DEF Begin, Update, Begun
<1>2. /\ today \in Nat /\ ExpiredRecordings(today) \in SUBSET Calls
      /\ \A c \in ExpiredRecordings(today) : Expired("recording", c, today)
  BY OldestExpired DEF IInv, Typed
<1>3. Idle \in RunRecord /\ Idle.gone = {} /\ Idle.blanked = {}
  BY DEF Idle, RunRecord
<1>4. /\ record \in RunRecord /\ record.phase = "delete" /\ record.now = today
      /\ record.batch = ExpiredRecordings(today) /\ record.gone = {} /\ record.blanked = {}
  BY <1>2, <1>3, BegunIs
<1>. HIDE DEF record
<1>5. Sweeping(record, media')
  BY <1>2, <1>4 DEF Sweeping
<1>. QED
  BY <1>1, <1>4, <1>5, SweepKeeps

\* What a sweep leaves the recording it was at with.
LEMMA OnwardIs ==
  ASSUME Typed, NEW r \in Runs
  PROVE  /\ Onward(r) \in RunRecord
         /\ Onward(r).phase = "delete" /\ Onward(r).batch = run[r].batch \ {Current(r)}
         /\ Onward(r).now = run[r].now
         /\ Onward(r).gone = run[r].gone /\ Onward(r).blanked = run[r].blanked
<1>1. run[r] \in RunRecord
  BY DEF Typed
<1>2. ASSUME NEW x \in RunRecord, NEW rest \in SUBSET Calls
      PROVE  LET y == [x EXCEPT !.batch = rest, !.phase = "delete"]
             IN /\ y \in RunRecord /\ y.phase = "delete" /\ y.batch = rest
                /\ y.now = x.now /\ y.gone = x.gone /\ y.blanked = x.blanked
  BY DEF RunRecord
<1>3. run[r].batch \ {Current(r)} \in SUBSET Calls
  BY <1>1 DEF RunRecord
<1>. QED
  BY <1>1, <1>2, <1>3 DEF Onward

LEMMA DeletedKeeps ==
  ASSUME IInv, NEW r \in Runs, Deleted(r) \/ DeleteFailed(r)
  PROVE  IInv'
<1>1. /\ Typed /\ Sweeping(run[r], media) /\ run[r].batch # {} /\ UNCHANGED << today, callRows >>
      /\ media' = media \/ media' = media \ {Current(r)}
  BY DEF IInv, Deleted, DeleteFailed, Deleting
<1>2. CASE Deleted(r)
  <2> DEFINE record == [run[r] EXCEPT !.phase = "tombstone"]
  <2>1. run' = [run EXCEPT ![r] = record] /\ Current(r) \notin media'
    BY <1>2 DEF Deleted, Update
  <2>2. /\ record \in RunRecord /\ record.batch = run[r].batch /\ record.now = run[r].now
        /\ record.gone = run[r].gone /\ record.blanked = run[r].blanked
    <3>1. run[r] \in RunRecord
      BY <1>1 DEF Typed
    <3>. QED
      BY <3>1, UpdateIs, Zenon
  <2>. HIDE DEF record
  <2>3. Sweeping(record, media')
    BY <1>1, <2>1, <2>2 DEF Sweeping, Current
  <2>. QED
    BY <1>1, <2>1, <2>2, <2>3, SweepKeeps
<1>3. CASE DeleteFailed(r)
  <2> DEFINE record == Onward(r)
  <2>1. run' = [run EXCEPT ![r] = record]
    BY <1>3 DEF DeleteFailed, Update
  <2>2. /\ record \in RunRecord /\ record.phase = "delete"
        /\ record.batch \subseteq run[r].batch /\ record.now = run[r].now
        /\ record.gone = run[r].gone /\ record.blanked = run[r].blanked
    BY <1>1, OnwardIs
  <2>3. Sweeping(record, media')
    BY <1>1, <2>2 DEF Sweeping
  <2>. HIDE DEF record
  <2>. QED
    BY <1>1, <2>1, <2>2, <2>3, SweepKeeps
<1>. QED
  BY <1>2, <1>3

LEMMA TombstoneKeeps ==
  ASSUME IInv, NEW r \in Runs, Tombstone(r) \/ TombstoneRejected(r)
  PROVE  IInv'
<1>1. /\ Typed /\ Sweeping(run[r], media) /\ UNCHANGED << today, callRows >> /\ media' = media
      /\ run[r].batch # {} /\ Current(r) \notin media
  BY DEF IInv, Tombstone, TombstoneRejected, Sweeping, Current
<1>2. Current(r) \in run[r].batch /\ run[r].batch \subseteq Calls
  BY <1>1, EldestIs DEF Current, Typed, RunRecord
<1>3. CASE Tombstone(r)
  <2> DEFINE record == [Onward(r) EXCEPT !.gone = @ \cup {Current(r)}]
  <2>1. run' = [run EXCEPT ![r] = record]
    BY <1>3 DEF Tombstone, Update
  <2>2. /\ record \in RunRecord /\ record.phase = Onward(r).phase
        /\ record.batch = Onward(r).batch /\ record.now = Onward(r).now
        /\ record.blanked = Onward(r).blanked
        /\ record.gone = Onward(r).gone \cup {Current(r)}
    <3>1. Onward(r) \in RunRecord /\ {Current(r)} \in SUBSET Calls
      BY <1>1, <1>2, OnwardIs
    <3>. QED
      BY <3>1, UpdateIs, Zenon
  <2>. HIDE DEF record
  <2>3. Sweeping(record, media')
    BY <1>1, <2>2, OnwardIs DEF Sweeping
  <2>. QED
    BY <1>1, <2>1, <2>2, <2>3, SweepKeeps
<1>4. CASE TombstoneRejected(r)
  <2> DEFINE record == [Onward(r) EXCEPT !.aborted = TRUE]
  <2>1. run' = [run EXCEPT ![r] = record]
    BY <1>4 DEF TombstoneRejected, Update
  <2>2. /\ record \in RunRecord /\ record.phase = Onward(r).phase
        /\ record.batch = Onward(r).batch /\ record.now = Onward(r).now
        /\ record.blanked = Onward(r).blanked /\ record.gone = Onward(r).gone
    <3>1. Onward(r) \in RunRecord
      BY <1>1, OnwardIs
    <3>. QED
      BY <3>1, UpdateIs, Zenon
  <2>. HIDE DEF record
  <2>3. Sweeping(record, media')
    BY <1>1, <2>2, OnwardIs DEF Sweeping
  <2>. QED
    BY <1>1, <2>1, <2>2, <2>3, SweepKeeps
<1>. QED
  BY <1>3, <1>4

\* What the second pass makes of an invocation.
Blanking(x, stale) == [x EXCEPT !.phase = "commit", !.blanked = stale]

LEMMA BlankingIs ==
  ASSUME NEW x \in RunRecord, NEW stale \in SUBSET Calls
  PROVE  /\ Blanking(x, stale) \in RunRecord
         /\ Blanking(x, stale).phase = "commit" /\ Blanking(x, stale).blanked = stale
         /\ Blanking(x, stale).now = x.now /\ Blanking(x, stale).batch = x.batch
         /\ Blanking(x, stale).gone = x.gone
BY DEF RunRecord, Blanking

LEMMA RedactKeeps ==
  ASSUME IInv, NEW r \in Runs, RedactTranscripts(r)
  PROVE  IInv'
<1> DEFINE stale == ExpiredTranscripts(run[r].now)
           record == Blanking(run[r], stale)
<1>1. run' = [run EXCEPT ![r] = record] /\ media' = media /\ UNCHANGED << today, callRows >>
  BY Zenon DEF RedactTranscripts, Update, Blanking
<1>2. run[r] \in RunRecord /\ run[r].now \in Int /\ Sweeping(run[r], media)
  BY DEF IInv, Typed, RunRecord
<1>3. stale \in SUBSET Calls /\ \A c \in stale : Expired("transcript", c, run[r].now)
  BY <1>2, OldestExpired
<1>. HIDE DEF stale
<1>4. /\ record \in RunRecord /\ record.phase = "commit" /\ record.blanked = stale
      /\ record.now = run[r].now /\ record.batch = run[r].batch /\ record.gone = run[r].gone
  BY <1>2, <1>3, BlankingIs
<1>. HIDE DEF record
<1>5. Sweeping(record, media')
  BY <1>1, <1>2, <1>3, <1>4 DEF Sweeping
<1>. QED
  BY <1>1, <1>4, <1>5, SweepKeeps

LEMMA IdleSweeps == IInv => Idle \in RunRecord /\ Sweeping(Idle, media)
BY DEF IInv, Typed, Idle, RunRecord, Sweeping

LEMMA DiesKeeps ==
  ASSUME IInv, NEW r \in Runs, Fails(r) \/ Dies(r)
  PROVE  IInv'
<1>1. run' = [run EXCEPT ![r] = Idle] /\ media' = media /\ UNCHANGED << today, callRows >>
  BY DEF Fails, Dies, Update
<1>. QED
  BY <1>1, IdleSweeps, SweepKeeps

\* Two rows tell of one turn: who spoke, how fast and over whom.
SameTurn(a, b) ==
  /\ a.role = b.role /\ a.bargeIn = b.bargeIn /\ a.turnTakeOk = b.turnTakeOk
  /\ a.firstWordLatencyMs = b.firstWordLatencyMs /\ a.turnLatencyMs = b.turnLatencyMs

\* Blanking the words of some calls leaves the rest of every turn as it is.
LEMMA RedactedIs ==
  ASSUME turns \in Seq(TurnRow), NEW calls
  PROVE  /\ Redacted(calls) \in Seq(TurnRow) /\ Len(Redacted(calls)) = Len(turns)
         /\ \A i \in DOMAIN turns :
              /\ Redacted(calls)[i].call = turns[i].call
              /\ SameTurn(Redacted(calls)[i], turns[i])
              /\ turns[i].call \notin calls => Redacted(calls)[i] = turns[i]
<1>1. ASSUME NEW row \in TurnRow
      PROVE  /\ [row EXCEPT !.text = ""] \in TurnRow /\ [row EXCEPT !.text = ""].call = row.call
             /\ SameTurn([row EXCEPT !.text = ""], row) /\ SameTurn(row, row)
  BY DEF TurnRow, SameTurn
<1> DEFINE Blank(row) == [row EXCEPT !.text = ""]
<1>2. \A row \in TurnRow : /\ Blank(row) \in TurnRow /\ Blank(row).call = row.call
                            /\ SameTurn(Blank(row), row) /\ SameTurn(row, row)
  BY <1>1
<1>3. Redacted(calls) = [i \in DOMAIN turns |->
                          IF turns[i].call \in calls THEN Blank(turns[i]) ELSE turns[i]]
  BY DEF Redacted
<1>. HIDE DEF Blank
<1>4. DOMAIN turns = 1..Len(turns) /\ Len(turns) \in Nat /\ \A i \in DOMAIN turns : turns[i] \in TurnRow
  OBVIOUS
<1>. QED
  BY <1>2, <1>3, <1>4

LEMMA ReturnKeeps ==
  ASSUME IInv, NEW r \in Runs, Return(r)
  PROVE  IInv'
<1>1. /\ run' = [run EXCEPT ![r] = Idle] /\ today' = today /\ media' = media
      /\ tombstoned' = tombstoned \cup run[r].gone
      /\ turns' = Redacted(run[r].blanked)
  BY DEF Return, Update
<1>2. /\ Typed /\ Sweeping(run[r], media) /\ run[r] \in RunRecord
      /\ run[r].now \in Int /\ today \in Int /\ run[r].blanked \subseteq Calls
  BY DEF IInv, Typed, RunRecord
<1>3. Typed'
  BY <1>1, <1>2, IdleSweeps, RedactedIs DEF IInv, Typed
<1>4. ASSUME NEW s \in Runs PROVE Sweeping(run[s], media)'
  <2>1. run'[s] = run[s] \/ run'[s] = Idle
    BY <1>1, <1>2 DEF Typed
  <2>2. Sweeping(run[s], media) /\ Sweeping(Idle, media)
    BY IdleSweeps DEF IInv
  <2>. QED
    BY <1>1, <2>1, <2>2 DEF Sweeping
<1>5. TombstoneMeansGone'
  BY <1>1, <1>2 DEF IInv, TombstoneMeansGone, Sweeping
<1>6. Kept'
  <2>1. \A c \in Recorded \ media' : Expired("recording", c, today')
    BY <1>1 DEF IInv, Kept
  <2>2. DOMAIN turns = DOMAIN Turns /\ Len(turns') = Len(Turns)
    BY <1>1, <1>2, RedactedIs, RetentionAssumption DEF IInv, Kept, Typed
  <2>3. ASSUME NEW i \in DOMAIN Turns
        PROVE  /\ turns'[i].call = Turns[i].call
               /\ turns'[i] # Turns[i] => Expired("transcript", Turns[i].call, today')
    <3>1. /\ turns[i].call = Turns[i].call
          /\ turns[i] # Turns[i] => Expired("transcript", Turns[i].call, today)
      BY DEF IInv, Kept
    <3>2. /\ turns'[i].call = turns[i].call
          /\ turns[i].call \notin run[r].blanked => turns'[i] = turns[i]
      BY <1>1, <1>2, <2>2, RedactedIs DEF Typed
    <3>3. turns[i].call \in run[r].blanked => Expired("transcript", turns[i].call, today)
      BY <1>2, ExpiryIsFinal DEF Sweeping
    <3>. QED
      BY <1>1, <3>1, <3>2, <3>3
  <2>. QED
    BY <2>1, <2>2, <2>3 DEF Kept, Expired, ExpireBefore
<1>. QED
  BY <1>3, <1>4, <1>5, <1>6 DEF IInv

LEMMA MidnightKeeps ==
  ASSUME IInv, Midnight
  PROVE  IInv'
<1>1. today' = today + 1 /\ UNCHANGED << media, callRows, run >> /\ today \in Nat
  BY DEF Midnight, IInv, Typed
<1>2. Typed' /\ TombstoneMeansGone'
  BY <1>1 DEF IInv, Typed, TombstoneMeansGone, callRows
<1>3. ASSUME NEW r \in Runs PROVE Sweeping(run[r], media)'
  <2>1. Sweeping(run[r], media) /\ run[r].now \in Nat
    BY DEF IInv, Typed, RunRecord
  <2>. QED
    BY <1>1, <2>1 DEF Sweeping
<1>4. Kept'
  <2>1. \A c \in Recorded \ media : Expired("recording", c, today')
    BY <1>1, ExpiryIsFinal, RetentionAssumption DEF IInv, Kept
  <2>2. \A i \in DOMAIN Turns : Turns[i].call \in Calls
    BY RowsAre
  <2>3. ASSUME NEW i \in DOMAIN Turns
        PROVE  /\ turns[i].call = Turns[i].call
               /\ turns[i] # Turns[i] => Expired("transcript", Turns[i].call, today')
    BY <1>1, <2>2, ExpiryIsFinal DEF IInv, Kept
  <2>. QED
    BY <1>1, <2>1, <2>3 DEF IInv, Kept, callRows, Expired, ExpireBefore
<1>. QED
  BY <1>2, <1>3, <1>4 DEF IInv

LEMMA StepHolds == IInv /\ [Next]_vars => IInv'
<1> SUFFICES ASSUME IInv, [Next]_vars PROVE IInv'
  OBVIOUS
<1>1. CASE UNCHANGED vars
  BY <1>1 DEF vars, callRows, IInv, Typed, Sweeping, TombstoneMeansGone, Kept, Expired, ExpireBefore
<1>2. CASE Midnight
  BY <1>2, MidnightKeeps
<1>3. ASSUME NEW r \in Runs, Begin(r) \/ Proceeds(r) \/ Dies(r)
      PROVE  IInv'
  BY <1>3, BeginKeeps, DeletedKeeps, TombstoneKeeps, RedactKeeps, ReturnKeeps, DiesKeeps DEF Proceeds
<1>. QED
  BY <1>1, <1>2, <1>3 DEF Next

THEOREM IInvHolds == Spec => []IInv
BY InitHolds, StepHolds, PTL DEF Spec

\* "Media first, tombstone second" (retention.ts): a call that says its recording was
\* deleted never has one the carrier still holds, whatever failed, died, or ran beside it.
THEOREM NoTombstoneLies == Spec => []TombstoneMeansGone
<1>1. IInv => TombstoneMeansGone
  BY DEF IInv
<1>. QED
  BY <1>1, IInvHolds, PTL

\* Nothing is forgotten before its window is over: not a recording, and not a word of a
\* call whose recording alone has expired.
THEOREM NothingGoesEarly == Spec => []NothingForgottenEarly
<1>1. ASSUME IInv PROVE NothingForgottenEarly
  <2>1. ASSUME NEW c \in Recorded \ media PROVE today - StartedAt[c] > RECORDING_RETENTION_DAYS
    <3>1. Expired("recording", c, today) /\ today \in Nat /\ c \in Calls
      BY <1>1, RetentionAssumption DEF IInv, Kept, Typed
    <3>2. StartedAt[c] < today - RECORDING_RETENTION_DAYS
      BY <3>1, RetentionAssumption DEF Expired, ExpireBefore
    <3>. QED
      BY <3>1, <3>2, RetentionAssumption
  <2>2. ASSUME NEW i \in DOMAIN Turns, turns[i] # Turns[i]
        PROVE  today - StartedAt[Turns[i].call] > TRANSCRIPT_RETENTION_DAYS
    <3>1. Expired("transcript", Turns[i].call, today) /\ today \in Nat /\ Turns[i].call \in Calls
      BY <1>1, <2>2, RowsAre DEF IInv, Kept, Typed
    <3>2. StartedAt[Turns[i].call] < today - TRANSCRIPT_RETENTION_DAYS
      BY <3>1, RetentionAssumption DEF Expired, ExpireBefore
    <3>. QED
      BY <3>1, <3>2, RetentionAssumption
  <2>. QED
    BY <2>1, <2>2 DEF NothingForgottenEarly
<1>. QED
  BY <1>1, IInvHolds, PTL

-----------------------------------------------------------------------------
(* The figures. *)

\* A figure is drawn from the turns, and not from what was said in them.
LEMMA FiguresIgnoreWords ==
  ASSUME NEW calls, NEW a, NEW b, DOMAIN a = DOMAIN b,
         \A i \in DOMAIN a : SameTurn(a[i], b[i])
  PROVE  TurnFigures(calls, a) = TurnFigures(calls, b)
<1>1. AgentTurns(a) = AgentTurns(b) /\ AgentTurns(a) \subseteq DOMAIN a
  BY DEF AgentTurns, SameTurn
<1>2. /\ {i \in AgentTurns(a) : a[i].bargeIn} = {i \in AgentTurns(b) : b[i].bargeIn}
      /\ {i \in AgentTurns(a) : a[i].turnTakeOk} = {i \in AgentTurns(b) : b[i].turnTakeOk}
  BY <1>1 DEF SameTurn
<1>3. FirstWordLatencies(a) = FirstWordLatencies(b)
  <2> DEFINE m == {j \in AgentTurns(a) : a[j].firstWordLatencyMs # NoLatency}
             n == {j \in AgentTurns(b) : b[j].firstWordLatencyMs # NoLatency}
  <2>1. m = n /\ \A i \in m : a[i].firstWordLatencyMs = b[i].firstWordLatencyMs
    BY <1>1 DEF SameTurn
  <2>2. /\ FirstWordLatencies(a) = [i \in m |-> a[i].firstWordLatencyMs]
        /\ FirstWordLatencies(b) = [i \in n |-> b[i].firstWordLatencyMs]
    BY DEF FirstWordLatencies
  <2> HIDE DEF m, n
  <2>. QED
    BY <2>1, <2>2
<1>4. TurnLatencies(a) = TurnLatencies(b)
  <2> DEFINE m == {j \in AgentTurns(a) : a[j].turnLatencyMs # NoLatency}
             n == {j \in AgentTurns(b) : b[j].turnLatencyMs # NoLatency}
  <2>1. m = n /\ \A i \in m : a[i].turnLatencyMs = b[i].turnLatencyMs
    BY <1>1 DEF SameTurn
  <2>2. /\ TurnLatencies(a) = [i \in m |-> a[i].turnLatencyMs]
        /\ TurnLatencies(b) = [i \in n |-> b[i].turnLatencyMs]
    BY DEF TurnLatencies
  <2> HIDE DEF m, n
  <2>. QED
    BY <2>1, <2>2
<1>. QED
  BY <1>1, <1>2, <1>3, <1>4, Zenon DEF TurnFigures

LEMMA FiguresKeep ==
  ASSUME IInv, [Next]_vars
  PROVE  Figures' = Figures
<1>1. CASE UNCHANGED turns
  BY <1>1 DEF Figures
<1>2. ASSUME NEW r \in Runs, Return(r)
      PROVE  Figures' = Figures
  <2> DEFINE calls == {[call |-> c, outcome |-> OutcomeOf[c]] : c \in Calls}
             blanked == run[r].blanked
  <2>1. turns' = Redacted(blanked) /\ turns \in Seq(TurnRow)
    BY <1>2 DEF Return, IInv, Typed
  <2> HIDE DEF blanked
  <2>2. /\ Redacted(blanked) \in Seq(TurnRow) /\ Len(Redacted(blanked)) = Len(turns)
        /\ \A i \in DOMAIN turns : SameTurn(Redacted(blanked)[i], turns[i])
    BY <2>1, RedactedIs
  <2>3. DOMAIN Redacted(blanked) = DOMAIN turns
    BY <2>1, <2>2
  <2> HIDE DEF calls
  <2>4. TurnFigures(calls, Redacted(blanked)) = TurnFigures(calls, turns)
    BY <2>2, <2>3, FiguresIgnoreWords
  <2>. QED
    BY <2>1, <2>4, Zenon DEF Figures, calls
<1>. QED
  BY <1>1, <1>2
  DEF Next, vars, callRows, Midnight, Begin, Proceeds, Deleted, DeleteFailed, Tombstone,
      TombstoneRejected, RedactTranscripts, Fails, Dies

\* "Every number in computeMetrics() outlives every word the caller spoke" (retention.ts):
\* no step of any sweep changes a figure, or what a build is told it has exceeded.
THEOREM NoFigureIsForgotten == Spec => FiguresOutliveTheWords
<1>1. IInv /\ [Next]_vars =>
        [Figures' = Figures /\ CheckBudgets(Figures)' = CheckBudgets(Figures)]_vars
  <2> SUFFICES ASSUME IInv, [Next]_vars
               PROVE  Figures' = Figures /\ CheckBudgets(Figures)' = CheckBudgets(Figures)
    OBVIOUS
  <2>1. Figures' = Figures
    BY FiguresKeep
  <2>2. CheckBudgets(Figures)' = CheckBudgets(Figures')
    BY DEF CheckBudgets, LATENCY_BUDGET
  <2>. QED
    BY <2>1, <2>2, Zenon
<1>. QED
  BY <1>1, InitHolds, StepHolds, PTL DEF Spec, FiguresOutliveTheWords

=============================================================================
