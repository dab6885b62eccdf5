-------------------------- MODULE BookingSagaProofs --------------------------
(***************************************************************************)
(* Theorems about BookingSaga, for every set of bookings under way, either *)
(* CRM, every set of deliveries and every number of attempts and runs.     *)
(***************************************************************************)
EXTENDS BookingSaga, TLAPS

Steps == CrmSteps \cup {"send_sms"}

\* What is journaled when a step is reached.
Before(step) ==
  CASE step = "create_customer" -> {}
    [] step = "ensure_location" -> {"create_customer"}
    [] step = "create_job"      -> {"create_customer", "ensure_location"}
    [] step = "send_sms"        -> CrmSteps

\* The journal is a prefix of the steps, and ends where the worker is.
Forward(b) ==
  /\ journal[b] \in {Before(s) : s \in Steps} \cup {Steps}
  /\ at[b].step \in Steps => journal[b] = Before(at[b].step)

\* A worker that undoes a booking knows of all that was journaled, or could not read it.
Remembered(b) ==
  /\ b \in unread => at[b].step = "rollback"
  /\ at[b].step = "rollback" /\ b \notin unread => "create_job" \notin journal[b]
  /\ at[b] = NoCompensation /\ b \notin unread => "create_customer" \notin journal[b]

\* A write was acted on if and only if the vendor has its key.
Written(b) ==
  /\ \A s \in CrmSteps : /\ writes[b][s] <= 1
                         /\ Key(b, s) \notin keys => writes[b][s] = 0
  /\ Key(b, "create_job") \in keys <=> job[b] # NoCustomer
  /\ at[b] = Place("create_job", "record") \/ "create_job" \in journal[b] => job[b] # NoCustomer

\* The customer a booking made cannot be made again, and is gone once it was undone.
Undone(b) ==
  /\ ref[b].created => ref[b].id = b /\ Key(b, "create_customer") \in keys
  /\ b \in compensated => "create_customer" \in journal[b]
  /\ at[b] \in {Undo, Place("rollback", "record")} => "create_customer" \in journal[b]
  /\ b \in compensated \/ at[b] = Place("rollback", "record")
     => (ref[b].created => b \notin customers)

\* What is told or reported is in the journal.
Reported(b) == result[b] = "COMMITTED" \/ texts[b] > 0 => "create_job" \in journal[b]

\* A run sends one text at most.
Counted(b) ==
  /\ texts[b] <= runs[b]
  /\ at[b] \notin {Place("send_sms", "record"), Returned} => texts[b] < runs[b]

Consistent(b) ==
  /\ Forward(b) /\ Remembered(b)
  /\ Written(b) /\ Undone(b)
  /\ Reported(b) /\ Counted(b)

IInv == TypeOK /\ \A b \in Bookings : Consistent(b)

-----------------------------------------------------------------------------
LEMMA MinIs ==
  ASSUME NEW S \in SUBSET Int, NEW x \in S, \A y \in S : x <= y
  PROVE  Min(S) = x
<1> DEFINE Least(m) == m \in S /\ \A y \in S : m <= y
<1>1. Min(S) = CHOOSE m : Least(m)
  BY Zenon DEF Min
<1>2. Least(CHOOSE m : Least(m))
  <2>1. Least(x)
    OBVIOUS
  <2>. HIDE DEF Least
  <2>. QED
    BY <2>1, Zenon
<1>3. Min(S) \in S /\ Min(S) <= x
  BY <1>1, <1>2, Zenon
<1>4. x \in Int /\ Min(S) \in Int /\ x <= Min(S)
  BY <1>3
<1>. QED
  BY <1>3, <1>4

\* What is left of a journal that was written up to the k-th step.
LEMMA LeftIs ==
  /\ \A k \in 1..4 : \A i \in 1..k : Left(Before(BOOKING_STEPS[k]), i) = k..4
  /\ \A i \in 1..4 : Left(Steps, i) = {}
<1>1. \A done, i : Left(done, i) = {j \in i..4 : BOOKING_STEPS[j] \notin done}
  BY DEF Left, BOOKING_STEPS
<1>2. \A j \in 1..4, k \in 1..4 : BOOKING_STEPS[j] \in Before(BOOKING_STEPS[k]) <=> j < k
  BY DEF BOOKING_STEPS, Before, CrmSteps
<1>3. \A j \in 1..4 : BOOKING_STEPS[j] \in Steps
  BY DEF BOOKING_STEPS, Steps, CrmSteps
<1>4. ASSUME NEW k \in 1..4, NEW i \in 1..k
      PROVE  {j \in i..4 : BOOKING_STEPS[j] \notin Before(BOOKING_STEPS[k])} = k..4
  BY <1>2
<1>5. ASSUME NEW i \in 1..4
      PROVE  {j \in i..4 : BOOKING_STEPS[j] \notin Steps} = {}
  BY <1>3
<1>. QED
  BY <1>1, <1>4, <1>5

\* Where the first of them is.
LEMMA NextIs ==
  /\ \A k \in 1..4 : Min((k..4) \cup {4}) = k
  /\ Min({} \cup {4}) = 4
<1>1. ASSUME NEW k \in 1..4
      PROVE  Min((k..4) \cup {4}) = k
  <2>1. (k..4) \cup {4} \in SUBSET Int /\ k \in (k..4) \cup {4} /\ \A y \in (k..4) \cup {4} : k <= y
    OBVIOUS
  <2>. QED
    BY <2>1, MinIs
<1>2. Min({} \cup {4}) = 4
  <2>1. {} \cup {4} \in SUBSET Int /\ 4 \in {} \cup {4} /\ \A y \in {} \cup {4} : 4 <= y
    OBVIOUS
  <2>. QED
    BY <2>1, MinIs
<1>. QED
  BY <1>1, <1>2

LEMMA PlaceTypes ==
  /\ \A s \in CrmSteps : Place(s, "request") \in Places /\ Place(s, "record") \in Places
  /\ Place("send_sms", "record") \in Places /\ Place("rollback", "record") \in Places
  /\ \A s \in Steps : Begin(s) \in Places /\ Begin(s).step = s
  /\ Returned \in Places /\ Undo \in Places /\ NoCompensation \in Places
  /\ Returned.step = "return" /\ Undo.step = "rollback" /\ NoCompensation.step = "rollback"
  /\ Undo # NoCompensation /\ Place("rollback", "record") \notin {Undo, NoCompensation}
BY DEF Places, Place, Begin, Returned, Undo, NoCompensation, CrmSteps, Steps

LEMMA PlaceIs == \A s, a : Place(s, a).step = s /\ Place(s, a).await = a
BY DEF Place

\* Two writes share a key only if they are the same write.
LEMMA KeysDiffer == \A b, c, s, t : Key(b, s) = Key(c, t) <=> b = c /\ s = t
BY DEF Key

\* Before() tells the steps apart.
LEMMA BeforeIs ==
  /\ Before("create_customer") = {} /\ Before("ensure_location") = {"create_customer"}
  /\ Before("create_job") = {"create_customer", "ensure_location"}
  /\ Before("send_sms") = CrmSteps
  /\ \A s \in Steps : Before(s) \in SUBSET Steps /\ s \notin Before(s)
BY DEF Before, Steps, CrmSteps

\* Where the reads of the journal from step i on may take a worker, if what is journaled is a
\* prefix that reaches as far.
LEMMA ProceedGoes ==
  ASSUME NEW b \in Bookings, NEW i \in 1..4, Proceed(b, i),
         \/ \E k \in i..4 : journal'[b] = Before(BOOKING_STEPS[k])
         \/ journal'[b] = Steps
  PROVE  /\ attempt' = [attempt EXCEPT ![b] = 1]
         /\ \/ \E s \in Steps : /\ journal'[b] = Before(s) /\ at' = [at EXCEPT ![b] = Begin(s)]
                                /\ unread' = unread \ {b} /\ UNCHANGED result
            \/ /\ CrmSteps \subseteq journal'[b] /\ at' = [at EXCEPT ![b] = Returned]
               /\ unread' = unread \ {b} /\ result' = [result EXCEPT ![b] = "COMMITTED"]
            \/ \E p \in {Undo, NoCompensation} :
                 /\ p = Undo => "create_customer" \in journal'[b]
                 /\ at' = [at EXCEPT ![b] = p]
                 /\ unread' = unread \cup {b} /\ UNCHANGED result
<1> DEFINE left == Left(journal'[b], i)
           next == Min(left \cup {Len(BOOKING_STEPS)})
<1>1. Len(BOOKING_STEPS) = 4
  BY DEF BOOKING_STEPS
<1>2. PICK k \in i..4 :
        /\ next = k
        /\ \/ left # {} /\ journal'[b] = Before(BOOKING_STEPS[k])
           \/ left = {} /\ journal'[b] = Steps /\ k = 4
  <2>1. CASE \E k \in i..4 : journal'[b] = Before(BOOKING_STEPS[k])
    <3>1. PICK k \in i..4 : journal'[b] = Before(BOOKING_STEPS[k])
      BY <2>1
    <3>2. k \in 1..4 /\ i \in 1..k /\ k..4 # {}
      OBVIOUS
    <3>3. left = k..4
      BY <3>1, <3>2, LeftIs
    <3>4. next = k
      BY <1>1, <3>2, <3>3, NextIs
    <3>. QED
      BY <3>1, <3>2, <3>3, <3>4
  <2>2. CASE journal'[b] = Steps
    <3>1. left = {}
      BY <2>2, LeftIs
    <3>2. next = 4 /\ 4 \in i..4
      BY <1>1, <3>1, NextIs
    <3>. QED
      BY <2>2, <3>1, <3>2
  <2>. QED
    BY <2>1, <2>2
<1>3. /\ attempt' = [attempt EXCEPT ![b] = 1]
      /\ \/ /\ left # {} /\ Goto(b, Begin(BOOKING_STEPS[next]))
            /\ unread' = unread \ {b} /\ UNCHANGED result
         \/ /\ left = {} \/ BOOKING_STEPS[next] = "send_sms"
            /\ Return(b, "COMMITTED")
         \/ /\ \E j \in i..next :
                 BOOKING_STEPS[j] \in CrmSteps /\ Goto(b, Rollback(BOOKING_STEPS[j]))
            /\ unread' = unread \cup {b} /\ UNCHANGED result
  BY Zenon DEF Proceed
<1>4. \A j \in 1..4 : /\ BOOKING_STEPS[j] \in Steps
                      /\ BOOKING_STEPS[j] = "send_sms" <=> j = 4
                      /\ BOOKING_STEPS[j] = "create_customer" <=> j = 1
  <2>1. /\ BOOKING_STEPS[1] = "create_customer" /\ BOOKING_STEPS[2] = "ensure_location"
        /\ BOOKING_STEPS[3] = "create_job" /\ BOOKING_STEPS[4] = "send_sms"
    BY DEF BOOKING_STEPS
  <2>2. \A j \in 1..4 : j = 1 \/ j = 2 \/ j = 3 \/ j = 4
    OBVIOUS
  <2>. QED
    BY <2>1, <2>2 DEF Steps, CrmSteps
<1>5. k \in 1..4 /\ (k = 4 => CrmSteps \subseteq journal'[b])
  <2>1. k \in 1..4 /\ Before(BOOKING_STEPS[4]) = CrmSteps /\ CrmSteps \subseteq Steps
    BY BeforeIs DEF BOOKING_STEPS, Steps
  <2>. QED
    BY <1>2, <2>1
<1> HIDE DEF left, next
<1>6. CASE /\ left # {} /\ Goto(b, Begin(BOOKING_STEPS[next]))
           /\ unread' = unread \ {b} /\ UNCHANGED result
  BY <1>2, <1>3, <1>4, <1>5, <1>6 DEF Goto
<1>7. CASE (left = {} \/ BOOKING_STEPS[next] = "send_sms") /\ Return(b, "COMMITTED")
  BY <1>2, <1>3, <1>4, <1>5, <1>7 DEF Return, Goto
<1>8. CASE /\ \E j \in i..next :
                BOOKING_STEPS[j] \in CrmSteps /\ Goto(b, Rollback(BOOKING_STEPS[j]))
           /\ unread' = unread \cup {b} /\ UNCHANGED result
  <2>1. PICK j \in i..next : at' = [at EXCEPT ![b] = Rollback(BOOKING_STEPS[j])]
    BY <1>8 DEF Goto
  <2>2. j \in 1..4 /\ j <= k
    BY <1>2, <2>1
  <2>3. j # 1 => "create_customer" \in journal'[b]
    <3>1. k \in 2..4 => "create_customer" \in Before(BOOKING_STEPS[k])
      BY DEF BOOKING_STEPS, Before, CrmSteps
    <3>. QED
      BY <1>2, <1>5, <2>2, <3>1 DEF Steps, CrmSteps
  <2>4. Rollback(BOOKING_STEPS[j]) = IF j = 1 THEN NoCompensation ELSE Undo
    BY <1>4, <2>2 DEF Rollback
  <2>5. Undo # NoCompensation
    BY PlaceTypes
  <2>. QED
    BY <1>3, <1>8, <2>1, <2>3, <2>4, <2>5
<1>. QED
  BY <1>3, <1>6, <1>7, <1>8

\* What a step of b's worker leaves as it was for every other booking.
Frame(b) ==
  \A c \in Bookings \ {b} :
    /\ at'[c] = at[c] /\ ref'[c] = ref[c] /\ runs'[c] = runs[c]
    /\ journal'[c] = journal[c] /\ result'[c] = result[c]
    /\ c \in compensated' <=> c \in compensated
    /\ c \in unread' <=> c \in unread
    /\ job'[c] = job[c] /\ writes'[c] = writes[c] /\ texts'[c] = texts[c]
    /\ \A s \in CrmSteps : Key(c, s) \in keys' <=> Key(c, s) \in keys
    /\ c \in customers' => c \in customers

\* A step preserves the invariant if it does so for its own booking.
LEMMA FrameKeeps ==
  ASSUME IInv, NEW b \in Bookings, TypeOK', Frame(b), Consistent(b)'
  PROVE  IInv'
<1>1. SUFFICES ASSUME NEW c \in Bookings \ {b} PROVE Consistent(c)'
  BY <1>1 DEF IInv
<1>2. Consistent(c)
  BY DEF IInv
<1>3. /\ at'[c] = at[c] /\ ref'[c] = ref[c] /\ runs'[c] = runs[c]
      /\ journal'[c] = journal[c] /\ result'[c] = result[c]
      /\ c \in compensated' <=> c \in compensated
      /\ c \in unread' <=> c \in unread
      /\ job'[c] = job[c] /\ writes'[c] = writes[c] /\ texts'[c] = texts[c]
      /\ \A s \in CrmSteps : Key(c, s) \in keys' <=> Key(c, s) \in keys
      /\ c \in customers' => c \in customers
  BY DEF Frame
<1>4. Forward(c)' /\ Remembered(c)'
  BY <1>2, <1>3 DEF Consistent, Forward, Remembered
<1>5. Written(c)'
  BY <1>2, <1>3 DEF Consistent, Written, CrmSteps, Key
<1>6. Undone(c)'
  BY <1>2, <1>3 DEF Consistent, Undone, Key, CrmSteps
<1>7. Reported(c)' /\ Counted(c)'
  BY <1>2, <1>3 DEF Consistent, Reported, Counted
<1>. QED
  BY <1>4, <1>5, <1>6, <1>7 DEF Consistent

LEMMA InitHolds == Init => IInv
<1> SUFFICES ASSUME Init PROVE IInv
  OBVIOUS
<1>1. /\ \A b \in Bookings : \/ at[b] = Begin("create_customer") /\ b \notin unread
                             \/ at[b] = NoCompensation /\ b \in unread
      /\ unread \subseteq Bookings /\ at \in [Bookings -> Places]
  <2>1. Begin("create_customer") # NoCompensation
    BY DEF Begin, NoCompensation, Place
  <2>2. Begin("create_customer") \in Places /\ NoCompensation \in Places
    BY PlaceTypes DEF Steps, CrmSteps
  <2>3. /\ at \in [Bookings -> {Begin("create_customer")} \cup {NoCompensation}]
        /\ unread = {b \in Bookings : at[b] = NoCompensation}
    BY DEF Init
  <2>4. at \in [Bookings -> Places] /\ \A b \in Bookings : at[b] \in {Begin("create_customer"), NoCompensation}
    BY <2>2, <2>3
  <2>. QED
    BY <2>1, <2>3, <2>4
<1>2. TypeOK
  BY <1>1, BookingSagaAssumption DEF Init, TypeOK, Customers, Steps, CrmSteps
<1>3. ASSUME NEW b \in Bookings PROVE Consistent(b)
  <2>1. at[b] \notin {Undo, Place("create_job", "record"), Place("rollback", "record")}
    BY <1>1 DEF Begin, NoCompensation, Undo, Place
  <2>2. at[b].step \in {"create_customer", "rollback"} /\ (b \in unread <=> at[b].step = "rollback")
    BY <1>1 DEF Begin, NoCompensation, Place
  <2>3. Forward(b) /\ Remembered(b)
    BY <2>2, BeforeIs DEF Init, Forward, Remembered, Steps, CrmSteps
  <2>4. Written(b)
    BY <2>1 DEF Init, Written, NoCustomer
  <2>5. Undone(b)
    BY <2>1 DEF Init, Undone
  <2>6. Reported(b) /\ Counted(b)
    BY DEF Init, Reported, Counted
  <2>. QED
    BY <2>3, <2>4, <2>5, <2>6 DEF Consistent
<1>. QED
  BY <1>2, <1>3 DEF IInv

-----------------------------------------------------------------------------
(* One lemma per action: it preserves the invariant. *)

\* Where an error takes a step of the transaction.
LEMMA ThrownGoes ==
  ASSUME TypeOK, NEW b \in Bookings, NEW step \in CrmSteps, NEW verdict,
         Thrown(b, step, verdict)
  PROVE  /\ attempt' \in [Bookings -> 1..MaxAttempts]
         /\ \E p \in {Begin(step), Rollback(step)} : at' = [at EXCEPT ![b] = p]
<1>1. MaxAttempts \in Nat \ {0} /\ attempt \in [Bookings -> 1..MaxAttempts]
  BY BookingSagaAssumption DEF TypeOK
<1>2. CASE Failed(b, step)
  BY <1>1, <1>2 DEF Failed, Answered, Goto
<1>3. CASE attempt[b] < MaxAttempts /\ Retry(b, step)
  BY <1>1, <1>3 DEF Retry, Goto
<1>. QED
  BY <1>2, <1>3 DEF Thrown, Retry

\* A step that fails is rolled back with what is journaled before it.
LEMMA RollbackIs ==
  ASSUME NEW step \in CrmSteps
  PROVE  /\ Rollback(step) \in {Undo, NoCompensation} /\ Rollback(step) \in Places
         /\ Rollback(step).step = "rollback"
         /\ Rollback(step) = Undo <=> "create_customer" \in Before(step)
         /\ Rollback(step) # Place("create_job", "record")
         /\ "create_job" \notin Before(step)
<1>1. Undo # NoCompensation /\ Undo \in Places /\ NoCompensation \in Places
      /\ Undo.step = "rollback" /\ NoCompensation.step = "rollback"
  BY PlaceTypes
<1>2. Place("create_job", "record").step = "create_job"
  BY PlaceIs
<1>. QED
  BY <1>1, <1>2, BeforeIs DEF Rollback, CrmSteps

\* Moving on within a step, or giving it up, keeps what the invariant says.
LEMMA MoveKeeps ==
  ASSUME IInv, NEW b \in Bookings, NEW step \in CrmSteps, at[b].step = step,
         attempt' \in [Bookings -> 1..MaxAttempts],
         NEW p \in Places, at' = [at EXCEPT ![b] = p],
         p.step = step \/ p = Rollback(step),
         p = Place("create_job", "record") => at[b] = p,
         ref' \in [Bookings -> [id : Customers \cup {NoCustomer}, created : BOOLEAN]],
         \A c \in Bookings \ {b} : ref'[c] = ref[c],
         ref'[b] = ref[b] \/ ~ref'[b].created,
         UNCHANGED << runs, records, crm, texts, unread >>
  PROVE  IInv'
<1>1. TypeOK'
  BY DEF IInv, TypeOK, records, crm
<1>2. Frame(b)
  BY DEF IInv, TypeOK, Frame, records, crm, Key
<1>3. /\ at'[b] = p /\ p # Returned /\ at[b] # Returned
      /\ at[b].step \in CrmSteps /\ p.step = "rollback" => p = Rollback(step)
      /\ {p, at[b]} \cap {Place("rollback", "record"), Place("send_sms", "record")} = {}
      /\ p \in {Undo, NoCompensation} => p = Rollback(step)
      /\ p.step \in Steps => p.step = step
  <2>1. step \notin {"rollback", "return", "send_sms"}
    BY DEF CrmSteps
  <2>2. \A x \in {Returned, Place("rollback", "record"), Place("send_sms", "record"), Undo, NoCompensation} :
          x.step \notin CrmSteps
    BY PlaceTypes, PlaceIs DEF CrmSteps
  <2>3. /\ Rollback(step) \in {Undo, NoCompensation} /\ Rollback(step).step = "rollback"
        /\ Rollback(step) \notin {Returned, Place("rollback", "record"), Place("send_sms", "record")}
    BY RollbackIs, PlaceTypes, PlaceIs
  <2>4. at'[b] = p
    BY DEF IInv, TypeOK
  <2>. QED
    BY <2>1, <2>2, <2>3, <2>4 DEF Steps, CrmSteps
<1>4. Consistent(b) /\ journal[b] = Before(step) /\ b \notin unread
  BY DEF IInv, Consistent, Forward, Remembered, Steps, CrmSteps
<1>5. Forward(b)' /\ Remembered(b)'
  BY <1>3, <1>4, BeforeIs, RollbackIs, PlaceTypes
     DEF Consistent, Forward, Remembered, records, Steps
<1>6. Written(b)'
  BY <1>3, <1>4, PlaceIs DEF Consistent, Written, records, crm, Key
<1>7. Undone(b)'
  BY <1>3, <1>4, RollbackIs, PlaceTypes DEF Consistent, Undone, records, crm, Key
<1>8. Reported(b)' /\ Counted(b)'
  BY <1>3, <1>4 DEF Consistent, Reported, Counted, records
<1>. QED
  BY <1>1, <1>2, <1>5, <1>6, <1>7, <1>8, FrameKeeps DEF Consistent

LEMMA FindCustomerKeeps ==
  ASSUME IInv, NEW b \in Bookings, FindCustomer(b)
  PROVE  IInv'
<1> DEFINE step == "create_customer"
<1>1. /\ step \in CrmSteps /\ step \in Steps /\ at[b].step = step /\ at[b] = Place(step, "find")
      /\ UNCHANGED << runs, records, crm, texts, unread >>
  BY PlaceIs DEF FindCustomer, Await, CrmSteps, Steps
<1>2. CASE \E c \in customers : /\ ref' = [ref EXCEPT ![b] = [id |-> c, created |-> FALSE]]
                                /\ Answered(b, Place(step, "record"))
  <2>1. PICK c \in customers : /\ ref' = [ref EXCEPT ![b] = [id |-> c, created |-> FALSE]]
                               /\ Answered(b, Place(step, "record"))
    BY <1>2
  <2>2. /\ ref' \in [Bookings -> [id : Customers \cup {NoCustomer}, created : BOOLEAN]]
        /\ \A x \in Bookings \ {b} : ref'[x] = ref[x]
        /\ ~ref'[b].created
    BY <2>1 DEF IInv, TypeOK
  <2>3. /\ at' = [at EXCEPT ![b] = Place(step, "record")]
        /\ attempt' \in [Bookings -> 1..MaxAttempts]
    BY <2>1, BookingSagaAssumption DEF Answered, Goto, IInv, TypeOK
  <2>4. Place(step, "record").step = step /\ Place(step, "record") # Place("create_job", "record")
    BY PlaceIs DEF Place
  <2>. HIDE DEF step
  <2>. QED
    BY <1>1, <2>2, <2>3, <2>4, PlaceTypes, MoveKeeps
<1>3. CASE /\ Goto(b, Place(step, "request")) /\ UNCHANGED << attempt, ref >>
  <2>1. /\ at' = [at EXCEPT ![b] = Place(step, "request")]
        /\ attempt' \in [Bookings -> 1..MaxAttempts]
        /\ ref' \in [Bookings -> [id : Customers \cup {NoCustomer}, created : BOOLEAN]]
        /\ ref' = ref
    BY <1>3 DEF Goto, IInv, TypeOK
  <2>2. Place(step, "request").step = step /\ Place(step, "request") # Place("create_job", "record")
    BY PlaceIs DEF Place
  <2>. HIDE DEF step
  <2>. QED
    BY <1>1, <2>1, <2>2, PlaceTypes, MoveKeeps
<1>4. CASE /\ \E d \in Deliveries : Thrown(b, step, RequestVerdict(Provider, d.reply))
           /\ UNCHANGED ref
  <2>1. /\ attempt' \in [Bookings -> 1..MaxAttempts]
        /\ \E p \in {Begin(step), Rollback(step)} : at' = [at EXCEPT ![b] = p]
    BY <1>1, <1>4, ThrownGoes DEF IInv
  <2>2. ref' = ref /\ ref' \in [Bookings -> [id : Customers \cup {NoCustomer}, created : BOOLEAN]]
    BY <1>4 DEF IInv, TypeOK
  <2>3. \A p \in {Begin(step), Rollback(step)} :
          /\ p \in Places /\ (p.step = step \/ p = Rollback(step))
          /\ p # Place("create_job", "record")
    BY <1>1, PlaceTypes, RollbackIs DEF Place, Begin
  <2>. HIDE DEF step
  <2>. QED
    BY <1>1, <2>1, <2>2, <2>3, MoveKeeps
<1>. QED
  BY <1>2, <1>3, <1>4 DEF FindCustomer

LEMMA WriteFailedKeeps ==
  ASSUME IInv, NEW b \in Bookings, NEW step \in CrmSteps,
         WriteFailed(b, step) \/ RecordFailed(b, step)
  PROVE  IInv'
<1>1. /\ at[b].step = step /\ UNCHANGED << runs, records, crm, texts, unread >> /\ ref' = ref
      /\ step \in Steps
  BY PlaceIs DEF WriteFailed, RecordFailed, Await, Steps
<1>2. /\ attempt' \in [Bookings -> 1..MaxAttempts]
      /\ \E p \in {Begin(step), Rollback(step)} : at' = [at EXCEPT ![b] = p]
  <2>1. CASE Failed(b, step)
    BY <2>1, BookingSagaAssumption DEF Failed, Answered, Goto, IInv, TypeOK
  <2>2. CASE \E d \in Deliveries : Thrown(b, step, WriteVerdict(Provider, d.reply))
    BY <2>2, ThrownGoes DEF IInv
  <2>. QED
    BY <2>1, <2>2 DEF WriteFailed, RecordFailed
<1>3. ref' \in [Bookings -> [id : Customers \cup {NoCustomer}, created : BOOLEAN]]
  BY <1>1 DEF IInv, TypeOK
<1>4. \A p \in {Begin(step), Rollback(step)} :
        /\ p \in Places /\ (p.step = step \/ p = Rollback(step))
        /\ p # Place("create_job", "record")
  BY <1>1, PlaceTypes, RollbackIs DEF Place, Begin
<1>. QED
  BY <1>1, <1>2, <1>3, <1>4, MoveKeeps

\* A write the vendor acts on, whatever the worker makes of the answer.
LEMMA ActKeeps ==
  ASSUME IInv, NEW b \in Bookings, NEW step \in CrmSteps,
         Await(b, step, "request"), Accepts(b, step), Act(b, step),
         attempt' \in [Bookings -> 1..MaxAttempts],
         NEW p \in {Place(step, "record"), Begin(step), Rollback(step)},
         at' = [at EXCEPT ![b] = p],
         \/ ref' = ref
         \/ /\ step = "create_customer"
            /\ ref' = [ref EXCEPT ![b] = [id |-> b, created |-> TRUE]],
         UNCHANGED << runs, records, texts, unread >>
  PROVE  IInv'
<1>1. /\ p \in Places /\ at'[b] = p /\ at[b] = Place(step, "request") /\ at[b].step = step
      /\ p \notin {Returned, Place("rollback", "record"), Place("send_sms", "record")}
      /\ at[b] \notin {Returned, Place("rollback", "record"), Place("send_sms", "record")}
      /\ p.step = step \/ (p = Rollback(step) /\ p.step = "rollback")
      /\ p \in {Undo, NoCompensation} => p = Rollback(step)
      /\ p = Place("create_job", "record") => step = "create_job"
  <2>1. step \notin {"rollback", "return", "send_sms"}
    BY DEF CrmSteps
  <2>2. /\ \A x \in {Returned, Place("rollback", "record"), Place("send_sms", "record"), Undo, NoCompensation} :
             x.step \notin CrmSteps
        /\ Place("create_job", "record").step = "create_job"
    BY PlaceTypes, PlaceIs DEF CrmSteps
  <2>3. /\ Rollback(step) \in {Undo, NoCompensation} /\ Rollback(step).step = "rollback"
        /\ Rollback(step) \notin {Returned, Place("rollback", "record"), Place("send_sms", "record")}
        /\ Rollback(step) \in Places
    BY RollbackIs, PlaceTypes, PlaceIs
  <2>4. /\ Place(step, "record").step = step /\ Begin(step).step = step
        /\ Place(step, "record") \in Places /\ Begin(step) \in Places
        /\ at[b] = Place(step, "request") /\ at[b].step = step
    BY PlaceTypes, PlaceIs DEF Steps, Await
  <2>5. at'[b] = p
    BY DEF IInv, TypeOK
  <2>. QED
    BY <2>1, <2>2, <2>3, <2>4, <2>5
<1>2. /\ UNCHANGED << runs, journal, compensated, result, texts, unread >>
      /\ journal[b] = Before(step) /\ Consistent(b) /\ b \notin unread
  BY <1>1 DEF records, IInv, Consistent, Forward, Remembered, Steps, CrmSteps
<1>3. /\ keys' = keys \cup {Key(b, step)}
      /\ \/ customers' = customers
         \/ step = "create_customer" /\ customers' = customers \cup {b}
      /\ \/ writes' = writes /\ Key(b, step) \in keys
         \/ /\ Key(b, step) \notin keys
            /\ writes' = [writes EXCEPT ![b] = [writes[b] EXCEPT ![step] = writes[b][step] + 1]]
      /\ \/ job' = job /\ (step = "create_job" => Key(b, step) \in keys)
         \/ /\ step = "create_job" /\ ref[b].id \in customers
            /\ job' = [job EXCEPT ![b] = ref[b].id]
  BY DEF Act, Seen, Accepts, crm
<1>4. b \in Customers /\ NoCustomer \notin Customers /\ customers \subseteq Customers
  BY BookingSagaAssumption DEF IInv, TypeOK, Customers, NoCustomer
<1>5. TypeOK'
  <2>1. keys' \subseteq [booking : Bookings, step : CrmSteps, try : Nat]
    BY <1>3 DEF IInv, TypeOK, Key
  <2>2. writes' \in [Bookings -> [CrmSteps -> Nat]]
    <3>1. writes \in [Bookings -> [CrmSteps -> Nat]]
      BY DEF IInv, TypeOK
    <3>2. [writes[b] EXCEPT ![step] = writes[b][step] + 1] \in [CrmSteps -> Nat]
      BY <3>1
    <3>. QED
      BY <1>3, <3>1, <3>2
  <2>3. ref' \in [Bookings -> [id : Customers \cup {NoCustomer}, created : BOOLEAN]]
    <3>1. ref \in [Bookings -> [id : Customers \cup {NoCustomer}, created : BOOLEAN]]
      BY DEF IInv, TypeOK
    <3>2. [id |-> b, created |-> TRUE] \in [id : Customers \cup {NoCustomer}, created : BOOLEAN]
      BY <1>4
    <3>. QED
      BY <3>1, <3>2
  <2>4. job' \in [Bookings -> Customers \cup {NoCustomer}] /\ customers' \subseteq Customers
    BY <1>3, <1>4 DEF IInv, TypeOK
  <2>. QED
    BY <1>1, <1>2, <2>1, <2>2, <2>3, <2>4 DEF IInv, TypeOK
<1>6. Frame(b)
  BY <1>1, <1>2, <1>3, KeysDiffer DEF IInv, TypeOK, Frame
<1>7. Forward(b)' /\ Remembered(b)'
  BY <1>1, <1>2, BeforeIs, RollbackIs, PlaceTypes
     DEF Consistent, Forward, Remembered, CrmSteps, Steps
<1>8. Written(b)'
  <2>1. ASSUME NEW s \in CrmSteps
        PROVE  writes'[b][s] <= 1 /\ (Key(b, s) \notin keys' => writes'[b][s] = 0)
    <3>1. writes[b][s] <= 1 /\ (Key(b, s) \notin keys => writes[b][s] = 0)
      BY <1>2 DEF Consistent, Written
    <3>2. CASE s = step
      BY <1>3, <3>1, <3>2 DEF IInv, TypeOK
    <3>3. CASE s # step
      BY <1>3, <3>1, <3>3, KeysDiffer DEF IInv, TypeOK
    <3>. QED
      BY <3>2, <3>3
  <2>2. Key(b, "create_job") \in keys' <=> job'[b] # NoCustomer
    BY <1>2, <1>3, <1>4, KeysDiffer DEF Consistent, Written, IInv, TypeOK
  <2>3. at'[b] = Place("create_job", "record") \/ "create_job" \in journal'[b] => job'[b] # NoCustomer
    BY <1>1, <1>2, <1>3, <2>2, BeforeIs DEF CrmSteps
  <2>. QED
    BY <2>1, <2>2, <2>3 DEF Written, Key
<1>9. Undone(b)'
  <2>1. ref'[b].created => ref'[b].id = b /\ Key(b, "create_customer") \in keys'
    BY <1>2, <1>3 DEF Consistent, Undone, IInv, TypeOK
  <2>2. b \in compensated => step # "create_customer"
    BY <1>2, BeforeIs DEF Consistent, Undone
  <2>3. step # "create_customer" => customers' = customers /\ ref' = ref
    BY <1>3
  <2>4. b \in compensated => (ref'[b].created => b \notin customers')
    BY <1>2, <2>2, <2>3 DEF Consistent, Undone
  <2>5. (b \in compensated)' => ("create_customer" \in journal[b])'
    BY <1>2 DEF Consistent, Undone
  <2>6. /\ at'[b] # Place("rollback", "record")
        /\ at'[b] = Undo => "create_customer" \in journal'[b]
    BY <1>1, <1>2, RollbackIs
  <2>. QED
    BY <1>2, <2>1, <2>4, <2>5, <2>6 DEF Undone, Key
<1>10. Reported(b)'
  BY <1>2 DEF Consistent, Reported
<1>11. Counted(b)'
  <2>1. at[b] \notin {Place("send_sms", "record"), Returned}
    BY <1>1
  <2>. QED
    BY <1>1, <1>2, <2>1 DEF Consistent, Counted
<1>. QED
  BY <1>5, <1>6, <1>7, <1>8, <1>9, <1>10, <1>11, FrameKeeps DEF Consistent

LEMMA WriteKeeps ==
  ASSUME IInv, NEW b \in Bookings, NEW step \in CrmSteps,
         WriteAnswered(b, step) \/ WriteLost(b, step)
  PROVE  IInv'
<1>1. CASE WriteAnswered(b, step)
  <2>1. /\ at' = [at EXCEPT ![b] = Place(step, "record")]
        /\ attempt' \in [Bookings -> 1..MaxAttempts]
    BY <1>1, BookingSagaAssumption DEF WriteAnswered, Answered, Goto, IInv, TypeOK
  <2>. QED
    BY <1>1, <2>1, ActKeeps DEF WriteAnswered
<1>2. CASE WriteLost(b, step)
  <2>1. /\ attempt' \in [Bookings -> 1..MaxAttempts]
        /\ \E p \in {Begin(step), Rollback(step)} : at' = [at EXCEPT ![b] = p]
    BY <1>2, ThrownGoes DEF IInv, WriteLost
  <2>. QED
    BY <1>2, <2>1, ActKeeps DEF WriteLost
<1>. QED
  BY <1>1, <1>2

\* The reads of a journal that has lost nothing, by a run that has sent no text yet.
LEMMA ProceedKeeps ==
  ASSUME IInv, NEW b \in Bookings, NEW i \in 1..4, Proceed(b, i),
         \/ \E k \in i..4 : journal'[b] = Before(BOOKING_STEPS[k])
         \/ journal'[b] = Steps,
         journal' \in [Bookings -> SUBSET Steps],
         journal[b] \subseteq journal'[b],
         \A c \in Bookings \ {b} : journal'[c] = journal[c],
         "create_job" \in journal'[b] => job[b] # NoCustomer,
         ref' \in [Bookings -> [id : Customers \cup {NoCustomer}, created : BOOLEAN]],
         \A c \in Bookings \ {b} : ref'[c] = ref[c],
         ref'[b] = ref[b] \/ ~ref'[b].created,
         runs' \in [Bookings -> 1..MaxRuns],
         \A c \in Bookings \ {b} : runs'[c] = runs[c],
         texts[b] < runs'[b],
         UNCHANGED << compensated, crm, texts >>
  PROVE  IInv'
<1>1. Consistent(b) /\ MaxAttempts \in Nat \ {0} /\ texts[b] \in Nat
  BY BookingSagaAssumption DEF IInv, TypeOK
<1>2. PICK p \in Places :
        /\ at' = [at EXCEPT ![b] = p] /\ attempt' = [attempt EXCEPT ![b] = 1]
        /\ \/ /\ p.step \in Steps /\ journal'[b] = Before(p.step)
              /\ p \notin {Returned, Undo, NoCompensation, Place("rollback", "record"),
                          Place("create_job", "record")}
              /\ unread' = unread \ {b} /\ result' = result
           \/ /\ p = Returned /\ CrmSteps \subseteq journal'[b]
              /\ unread' = unread \ {b} /\ result' = [result EXCEPT ![b] = "COMMITTED"]
           \/ /\ p \in {Undo, NoCompensation} /\ (p = Undo => "create_customer" \in journal'[b])
              /\ unread' = unread \cup {b} /\ result' = result
  <2>1. \A t \in Steps : /\ Begin(t) \in Places /\ Begin(t).step = t
                         /\ Begin(t) \notin {Returned, Undo, NoCompensation, Place("rollback", "record"),
                                           Place("create_job", "record")}
    BY PlaceTypes, PlaceIs DEF Steps, CrmSteps, Begin, Place
  <2>2. /\ Returned \in Places /\ Undo \in Places /\ NoCompensation \in Places
    BY PlaceTypes
  <2>3. /\ attempt' = [attempt EXCEPT ![b] = 1]
        /\ \/ \E t \in Steps : /\ journal'[b] = Before(t) /\ at' = [at EXCEPT ![b] = Begin(t)]
                               /\ unread' = unread \ {b} /\ UNCHANGED result
           \/ /\ CrmSteps \subseteq journal'[b] /\ at' = [at EXCEPT ![b] = Returned]
              /\ unread' = unread \ {b} /\ result' = [result EXCEPT ![b] = "COMMITTED"]
           \/ \E q \in {Undo, NoCompensation} :
                /\ q = Undo => "create_customer" \in journal'[b]
                /\ at' = [at EXCEPT ![b] = q]
                /\ unread' = unread \cup {b} /\ UNCHANGED result
    BY ProceedGoes
  <2>4. CASE \E t \in Steps : /\ journal'[b] = Before(t) /\ at' = [at EXCEPT ![b] = Begin(t)]
                              /\ unread' = unread \ {b} /\ UNCHANGED result
    <3>1. PICK t \in Steps : /\ journal'[b] = Before(t) /\ at' = [at EXCEPT ![b] = Begin(t)]
                             /\ unread' = unread \ {b} /\ UNCHANGED result
      BY <2>4
    <3>2. /\ Begin(t) \in Places /\ Begin(t).step = t
          /\ Begin(t) \notin {Returned, Undo, NoCompensation, Place("rollback", "record"),
                              Place("create_job", "record")}
      BY <2>1
    <3>. QED
      BY <2>3, <3>1, <3>2
  <2>5. CASE /\ CrmSteps \subseteq journal'[b] /\ at' = [at EXCEPT ![b] = Returned]
             /\ unread' = unread \ {b} /\ result' = [result EXCEPT ![b] = "COMMITTED"]
    BY <2>2, <2>3, <2>5, Zenon
  <2>6. CASE \E q \in {Undo, NoCompensation} :
                /\ q = Undo => "create_customer" \in journal'[b]
                /\ at' = [at EXCEPT ![b] = q]
                /\ unread' = unread \cup {b} /\ UNCHANGED result
    BY <2>2, <2>3, <2>6, Zenon
  <2>. QED
    BY <2>3, <2>4, <2>5, <2>6
<1>3. at'[b] = p /\ Returned.step = "return" /\ (p \in {Undo, NoCompensation} => p.step = "rollback")
      /\ Returned \notin {Undo, NoCompensation, Place("rollback", "record"), Place("create_job", "record")}
      /\ Place("rollback", "record") \notin {Undo, NoCompensation} /\ Undo # NoCompensation
      /\ Place("create_job", "record").step = "create_job"
  BY <1>2, PlaceTypes, PlaceIs DEF IInv, TypeOK
<1>4. TypeOK'
  <2>1. at' \in [Bookings -> Places] /\ attempt' \in [Bookings -> 1..MaxAttempts]
    BY <1>1, <1>2 DEF IInv, TypeOK
  <2>2. /\ unread' \subseteq Bookings
        /\ result' \in [Bookings -> {"none", "COMMITTED", "ROLLED_BACK", "FAILED"}]
    BY <1>2 DEF IInv, TypeOK
  <2>. QED
    BY <2>1, <2>2 DEF IInv, TypeOK, crm, Steps
<1>5. Frame(b)
  <2>1. ASSUME NEW c \in Bookings \ {b}
        PROVE  /\ at'[c] = at[c] /\ result'[c] = result[c]
               /\ c \in unread' <=> c \in unread
    BY <1>2 DEF IInv, TypeOK
  <2>. QED
    BY <2>1 DEF Frame, crm, Key
<1>6. Forward(b)' /\ Remembered(b)'
  <2>1. journal'[b] \in {Before(t) : t \in Steps} \cup {Steps}
    <3>1. \A k \in i..4 : BOOKING_STEPS[k] \in Steps
      BY DEF BOOKING_STEPS, Steps, CrmSteps
    <3>. QED
      BY <3>1
  <2>2. p.step \in Steps => journal'[b] = Before(p.step)
    BY <1>2, <1>3 DEF Steps, CrmSteps
  <2>3. b \in unread' <=> p \in {Undo, NoCompensation}
    BY <1>2, <1>3
  <2>4. p.step = "rollback" => p \in {Undo, NoCompensation}
    BY <1>2, <1>3 DEF Steps, CrmSteps
  <2>. QED
    BY <1>3, <2>1, <2>2, <2>3, <2>4 DEF Forward, Remembered
<1>7. Written(b)'
  <2>1. p # Place("create_job", "record")
    BY <1>2, <1>3
  <2>. QED
    BY <1>1, <1>3, <2>1 DEF Consistent, Written, crm, Key
<1>8. Undone(b)'
  <2>1. /\ p # Place("rollback", "record")
        /\ p = Undo => "create_customer" \in journal'[b]
    BY <1>2, <1>3
  <2>. QED
    BY <1>1, <1>3, <2>1 DEF Consistent, Undone, crm, Key
<1>9. Reported(b)'
  <2>1. result'[b] = "COMMITTED" => result[b] = "COMMITTED" \/ "create_job" \in journal'[b]
    BY <1>2 DEF CrmSteps
  <2>. QED
    BY <1>1, <2>1 DEF Consistent, Reported
<1>10. Counted(b)'
  BY <1>1 DEF Counted, IInv, TypeOK
<1>. QED
  BY <1>4, <1>5, <1>6, <1>7, <1>8, <1>9, <1>10, FrameKeeps DEF Consistent

LEMMA RecordKeeps ==
  ASSUME IInv, NEW b \in Bookings, NEW i \in 1..3, Record(b, i)
  PROVE  IInv'
<1> DEFINE step == BOOKING_STEPS[i]
<1>1. /\ step \in CrmSteps /\ step \in Steps
      /\ Before(step) \cup {step} = Before(BOOKING_STEPS[i + 1])
      /\ "create_job" \in Before(step) \cup {step} => step = "create_job"
  BY DEF BOOKING_STEPS, CrmSteps, Steps, Before
<1>2. /\ at[b] = Place(step, "record") /\ at[b].step = step
      /\ journal' = [journal EXCEPT ![b] = journal[b] \cup {step}]
      /\ Proceed(b, i + 1) /\ i + 1 \in 1..4 /\ i + 1 \in (i + 1)..4
      /\ UNCHANGED << ref, runs, compensated, crm, texts >>
  BY PlaceIs DEF Record, Await
<1>3. journal[b] = Before(step) /\ journal \in [Bookings -> SUBSET Steps] /\ Consistent(b)
  BY <1>1, <1>2 DEF IInv, TypeOK, Consistent, Forward, Steps
<1>4. "create_job" \in journal'[b] => job[b] # NoCustomer
  BY <1>1, <1>2, <1>3 DEF Consistent, Written
<1>5. texts[b] < runs'[b]
  <2>1. at[b] \notin {Place("send_sms", "record"), Returned}
    BY <1>1, <1>2, PlaceIs, PlaceTypes DEF CrmSteps
  <2>. QED
    BY <1>2, <1>3, <2>1 DEF Consistent, Counted
<1>6. /\ journal' \in [Bookings -> SUBSET Steps] /\ journal'[b] = Before(BOOKING_STEPS[i + 1])
      /\ journal[b] \subseteq journal'[b] /\ \A c \in Bookings \ {b} : journal'[c] = journal[c]
  BY <1>1, <1>2, <1>3
<1>7. /\ ref' \in [Bookings -> [id : Customers \cup {NoCustomer}, created : BOOLEAN]]
      /\ runs' \in [Bookings -> 1..MaxRuns]
  BY <1>2 DEF IInv, TypeOK
<1> HIDE DEF step
<1>. QED
  BY <1>2, <1>4, <1>5, <1>6, <1>7, ProceedKeeps

LEMMA SendTextKeeps ==
  ASSUME IInv, NEW b \in Bookings, SendText(b)
  PROVE  IInv'
<1>1. /\ at[b] = Place("send_sms", "request") /\ at[b].step = "send_sms"
      /\ UNCHANGED << attempt, ref, runs, journal, compensated, crm >>
  BY PlaceIs DEF SendText, Await
<1>2. journal[b] = CrmSteps /\ "send_sms" \notin journal[b] /\ "create_job" \in journal[b] /\ Consistent(b)
  BY <1>1, BeforeIs DEF IInv, TypeOK, Consistent, Forward, Steps, CrmSteps
<1>3. /\ \/ /\ at' = [at EXCEPT ![b] = Place("send_sms", "record")] /\ result' = result
            /\ unread' = unread
         \/ /\ unread' = unread \ {b} /\ at' = [at EXCEPT ![b] = Returned] /\ result' = [result EXCEPT ![b] = "COMMITTED"]
      /\ \/ texts' = texts
         \/ texts' = [texts EXCEPT ![b] = texts[b] + 1]
  BY DEF SendText, Goto, Return
<1>4. /\ texts[b] < runs[b] /\ runs[b] \in 1..MaxRuns /\ texts[b] \in 0..MaxRuns /\ MaxRuns \in Nat
      /\ texts \in [Bookings -> 0..MaxRuns]
  BY <1>1, <1>2, BookingSagaAssumption DEF Consistent, Counted, IInv, TypeOK, Place, Returned
<1>5. /\ at'[b] \in {Place("send_sms", "record"), Returned}
      /\ at'[b] = Returned => result'[b] = "COMMITTED"
      /\ result'[b] \in {result[b], "COMMITTED"}
      /\ texts'[b] <= runs'[b] /\ texts' \in [Bookings -> 0..MaxRuns]
      /\ at' \in [Bookings -> Places]
      /\ result' \in [Bookings -> {"none", "COMMITTED", "ROLLED_BACK", "FAILED"}]
      /\ unread' \subseteq Bookings /\ b \notin unread'
  <2>1. /\ at \in [Bookings -> Places]
        /\ result \in [Bookings -> {"none", "COMMITTED", "ROLLED_BACK", "FAILED"}]
        /\ Place("send_sms", "record") # Returned
        /\ unread \subseteq Bookings /\ b \notin unread
    BY <1>1, <1>2 DEF IInv, TypeOK, Place, Returned, Consistent, Remembered
  <2>2. texts'[b] <= runs'[b] /\ texts' \in [Bookings -> 0..MaxRuns]
    BY <1>1, <1>3, <1>4
  <2>. QED
    BY <1>3, <2>1, <2>2, PlaceTypes
<1>6. TypeOK'
  BY <1>1, <1>5 DEF IInv, TypeOK, crm
<1>7. Frame(b)
  BY <1>1, <1>3, <1>4 DEF IInv, TypeOK, Frame, crm, Key
<1>8. Forward(b)' /\ Remembered(b)'
  BY <1>1, <1>2, <1>5, BeforeIs, PlaceIs, PlaceTypes DEF Forward, Remembered, Steps, CrmSteps
<1>9. at'[b] \notin {Undo, Place("rollback", "record"), Place("create_job", "record")}
  BY <1>5 DEF Place, Returned, Undo
<1>10. Written(b)'
  BY <1>1, <1>2, <1>9 DEF Consistent, Written, crm, Key
<1>11. Undone(b)'
  BY <1>1, <1>2, <1>5, <1>9 DEF Consistent, Undone, crm, Key
<1>12. Reported(b)' /\ Counted(b)'
  BY <1>1, <1>2, <1>5 DEF Reported, Counted
<1>. QED
  BY <1>6, <1>7, <1>8, <1>10, <1>11, <1>12, FrameKeeps DEF Consistent

LEMMA RecordTextKeeps ==
  ASSUME IInv, NEW b \in Bookings, RecordText(b)
  PROVE  IInv'
<1>1. /\ at[b].step = "send_sms" /\ Consistent(b)
      /\ UNCHANGED << attempt, ref, runs, compensated, crm, texts >>
      /\ at' = [at EXCEPT ![b] = Returned] /\ result' = [result EXCEPT ![b] = "COMMITTED"]
      /\ unread' = unread \ {b}
      /\ \/ journal' = journal
         \/ journal' = [journal EXCEPT ![b] = journal[b] \cup {"send_sms"}]
  BY PlaceIs DEF RecordText, Await, Return, Goto, IInv
<1>2. journal[b] = CrmSteps /\ journal \in [Bookings -> SUBSET Steps]
  BY <1>1, BeforeIs DEF IInv, TypeOK, Consistent, Forward, Steps
<1>3. /\ at'[b] = Returned /\ result'[b] = "COMMITTED"
      /\ journal'[b] \in {CrmSteps, Steps} /\ journal' \in [Bookings -> SUBSET Steps]
  <2>1. at'[b] = Returned /\ result'[b] = "COMMITTED"
    BY <1>1 DEF IInv, TypeOK
  <2>2. journal[b] \cup {"send_sms"} = Steps /\ Steps \in SUBSET Steps
    BY <1>2 DEF Steps
  <2>. QED
    BY <1>1, <1>2, <2>1, <2>2
<1>4. Returned \notin {Undo, Place("rollback", "record"), Place("create_job", "record")}
      /\ Returned.step = "return"
  BY DEF Place, Returned, Undo
<1>5. TypeOK'
  BY <1>1, <1>3, PlaceTypes DEF IInv, TypeOK, crm, Steps
<1>6. Frame(b)
  BY <1>1, <1>2 DEF IInv, TypeOK, Frame, crm, Key
<1>7. Forward(b)' /\ Remembered(b)'
  <2>1. CrmSteps = Before("send_sms") /\ "send_sms" \in Steps /\ "return" \notin Steps \cup {"rollback"}
    BY BeforeIs DEF Steps, CrmSteps
  <2>2. b \notin unread'
    BY <1>1 DEF Consistent, Remembered
  <2>3. Returned # NoCompensation
    BY DEF Returned, NoCompensation, Place
  <2>. QED
    BY <1>1, <1>3, <1>4, <2>1, <2>2, <2>3 DEF Forward, Remembered
<1>8. Written(b)'
  BY <1>1, <1>2, <1>3, <1>4 DEF Consistent, Written, crm, Key, CrmSteps
<1>9. Undone(b)'
  BY <1>1, <1>2, <1>3, <1>4 DEF Consistent, Undone, crm, Key, CrmSteps, Steps
<1>10. Reported(b)'
  BY <1>3 DEF Reported, CrmSteps, Steps
<1>11. Counted(b)'
  BY <1>1, <1>3 DEF Consistent, Counted
<1>. QED
  BY <1>5, <1>6, <1>7, <1>8, <1>9, <1>10, <1>11, FrameKeeps DEF Consistent

\* A worker that rolls back has sent no text in this run; and unless the journal would not
\* be read it holds one that has no job, so that nobody was told.
LEMMA RollingBack ==
  ASSUME IInv, NEW b \in Bookings, at[b].step = "rollback"
  PROVE  /\ texts[b] < runs[b]
         /\ at[b] \notin {Place("send_sms", "record"), Returned}
         /\ b \notin unread => /\ "create_job" \notin journal[b]
                               /\ result[b] # "COMMITTED" /\ texts[b] = 0
<1>1. Consistent(b) /\ texts[b] \in Nat
  BY BookingSagaAssumption DEF IInv, TypeOK
<1>2. at[b] \notin {Place("send_sms", "record"), Returned}
  BY PlaceIs, PlaceTypes
<1>3. texts[b] < runs[b]
  BY <1>1, <1>2 DEF Consistent, Counted
<1>4. b \notin unread => "create_job" \notin journal[b]
  BY <1>1 DEF Consistent, Remembered
<1>5. b \notin unread => result[b] # "COMMITTED" /\ ~(texts[b] > 0)
  BY <1>1, <1>4 DEF Consistent, Reported
<1>. QED
  BY <1>1, <1>2, <1>3, <1>4, <1>5

\* A step of rollback(): the worker goes on to mark what it undid, or returns without
\* having committed; of the CRM at most the booking's own customer is gone.
LEMMA RollbackKeeps ==
  ASSUME IInv, NEW b \in Bookings, at[b].step = "rollback",
         NEW p \in {Place("rollback", "record"), Returned},
         at' = [at EXCEPT ![b] = p],
         p = Returned => unread' = unread \ {b},
         p # Returned => at[b] = Undo /\ unread' = unread,
         NEW r \in {result[b], "ROLLED_BACK", "FAILED"},
         result' = [result EXCEPT ![b] = r],
         compensated' \in {compensated, compensated \cup {b}},
         customers' \in SUBSET customers,
         UNCHANGED << attempt, ref, runs, journal, job, writes, keys, texts >>,
         b \in compensated' \/ p = Place("rollback", "record")
           => /\ "create_customer" \in journal[b]
              /\ ref[b].created => b \notin customers'
  PROVE  IInv'
<1>1. /\ Consistent(b) /\ at'[b] = p /\ result'[b] = r
      /\ r = "COMMITTED" => result[b] = "COMMITTED"
      /\ texts[b] < runs[b]
  BY RollingBack DEF IInv, TypeOK
<1>2. /\ p \in Places /\ p.step \in {"rollback", "return"}
      /\ p \notin {Place("create_job", "record"), NoCompensation, Undo}
      /\ Place("rollback", "record") # Returned /\ Returned.step = "return"
      /\ p # Returned => p.step = "rollback"
  BY PlaceTypes, PlaceIs DEF Place, Returned, NoCompensation, Undo
<1>3. TypeOK'
  BY <1>2 DEF IInv, TypeOK
<1>4. Frame(b)
  BY DEF IInv, TypeOK, Frame, Key
<1>5. Forward(b)'
  BY <1>1, <1>2 DEF Consistent, Forward, Steps, CrmSteps
<1>6. Remembered(b)'
  BY <1>1, <1>2 DEF Consistent, Remembered
<1>7. Written(b)'
  BY <1>1, <1>2 DEF Consistent, Written, Key
<1>8. Undone(b)'
  BY <1>1, <1>2 DEF Consistent, Undone, Key
<1>9. Reported(b)' /\ Counted(b)'
  BY <1>1, <1>2 DEF Consistent, Reported, Counted, IInv, TypeOK
<1>. QED
  BY <1>3, <1>4, <1>5, <1>6, <1>7, <1>8, <1>9, FrameKeeps DEF Consistent

LEMMA ReportIs ==
  ASSUME IInv, NEW b \in Bookings
  PROVE  result = [result EXCEPT ![b] = result[b]]
BY DEF IInv, TypeOK

LEMMA NothingToUndoKeeps ==
  ASSUME IInv, NEW b \in Bookings, NothingToUndo(b) \/ UndoUnknown(b) \/ KeepCustomer(b)
  PROVE  IInv'
<1>1. at[b].step = "rollback" /\ Consistent(b) /\ Returned # Place("rollback", "record")
  BY PlaceIs, PlaceTypes DEF NothingToUndo, UndoUnknown, KeepCustomer, IInv
<1>2. CASE NothingToUndo(b) \/ UndoUnknown(b)
  <2>1. /\ at' = [at EXCEPT ![b] = Returned] /\ unread' = unread \ {b}
        /\ \E r \in {"ROLLED_BACK", "FAILED"} : result' = [result EXCEPT ![b] = r]
        /\ UNCHANGED << attempt, ref, runs, journal, compensated, crm, texts >>
    BY <1>2 DEF NothingToUndo, UndoUnknown, Return, Goto
  <2>2. b \in compensated => /\ "create_customer" \in journal[b]
                             /\ ref[b].created => b \notin customers
    BY <1>1 DEF Consistent, Undone
  <2>3. PICK r \in {"ROLLED_BACK", "FAILED"} : result' = [result EXCEPT ![b] = r]
    BY <2>1
  <2>4. customers' = customers /\ UNCHANGED << attempt, ref, runs, journal, job, writes, keys, texts >>
    BY <2>1 DEF crm
  <2>. QED
    BY <1>1, <2>1, <2>2, <2>3, <2>4, RollbackKeeps
<1>3. CASE KeepCustomer(b)
  <2>1. /\ at' = [at EXCEPT ![b] = Place("rollback", "record")] /\ result' = result
        /\ UNCHANGED << attempt, ref, runs, journal, compensated, crm, texts, unread >>
        /\ at[b] = Undo /\ ~ref[b].created
    BY <1>3 DEF KeepCustomer, KeepsCustomer, Goto, records
  <2>2. "create_customer" \in journal[b]
    BY <1>1, <2>1 DEF Consistent, Undone
  <2>. QED
    BY <1>1, <2>1, <2>2, ReportIs, RollbackKeeps DEF crm
<1>. QED
  BY <1>2, <1>3

\* A vendor who declines to delete a customer is not taken to have deleted it.
LEMMA DeclinedIsNotRevoked ==
  ASSUME NEW d \in Deliveries, ~d.acted
  PROVE  RevokeVerdict(Provider, d.reply) # "answer"
<1>1. d.reply.status \in Nat /\ Declines(Provider, d.reply) /\ Provider \in CRM_PROVIDERS
  BY BookingSagaAssumption
<1>. QED
  BY <1>1 DEF Declines, RevokeVerdict, RequestVerdict, ExecuteVerdict, StatusVerdict,
              IsRetryableStatus, NoStatus, CRM_PROVIDERS

LEMMA RevokeKeeps ==
  ASSUME IInv, NEW b \in Bookings, RevokeCustomer(b) \/ RevokeFailed(b)
  PROVE  IInv'
<1>1. /\ at[b].step = "rollback" /\ "create_customer" \in journal[b] /\ b \notin compensated
      /\ ref[b].created /\ ref[b].id = b /\ at[b] = Undo
  BY PlaceTypes DEF RevokeCustomer, RevokeFailed, MustRevoke, KeepsCustomer, IInv, Consistent, Undone
<1>2. /\ UNCHANGED << attempt, ref, runs, journal, compensated, job, writes, keys, texts >>
      /\ \/ customers' = customers \ {b} /\ \E verdict : RevokeAnswered(b, verdict)
         \/ customers' = customers /\ \E verdict : verdict # "answer" /\ RevokeAnswered(b, verdict)
  BY <1>1, DeclinedIsNotRevoked DEF RevokeCustomer, RevokeFailed, crm
<1>3. CASE /\ at' = [at EXCEPT ![b] = Place("rollback", "record")]
           /\ result' = result /\ unread' = unread /\ customers' = customers \ {b}
  BY <1>1, <1>2, <1>3, ReportIs, PlaceTypes, RollbackKeeps DEF Returned, Place
<1>4. CASE /\ at' = [at EXCEPT ![b] = Returned] /\ result' = [result EXCEPT ![b] = "FAILED"]
           /\ unread' = unread \ {b} /\ customers' \in SUBSET customers
  BY <1>1, <1>2, <1>4, RollbackKeeps DEF Returned, Place
<1>. QED
  BY <1>2, <1>3, <1>4 DEF RevokeAnswered, Return, Goto

LEMMA MarkCompensatedKeeps ==
  ASSUME IInv, NEW b \in Bookings, MarkCompensated(b)
  PROVE  IInv'
<1>1. /\ at[b].step = "rollback" /\ "create_customer" \in journal[b]
      /\ ref[b].created => b \notin customers
  BY PlaceIs DEF MarkCompensated, Await, IInv, Consistent, Undone
<1>2. /\ UNCHANGED << attempt, ref, runs, journal, crm, texts >>
      /\ at' = [at EXCEPT ![b] = Returned] /\ unread' = unread \ {b} /\ Returned # Place("rollback", "record")
      /\ \/ result' = [result EXCEPT ![b] = "ROLLED_BACK"] /\ compensated' = compensated \cup {b}
         \/ result' = [result EXCEPT ![b] = "FAILED"] /\ compensated' = compensated
  BY DEF MarkCompensated, Return, Goto, Returned, Place
<1>. QED
  BY <1>1, <1>2, RollbackKeeps DEF crm

LEMMA RerunKeeps ==
  ASSUME IInv, NEW b \in Bookings, Rerun(b)
  PROVE  IInv'
<1>1. /\ runs[b] < MaxRuns /\ runs' = [runs EXCEPT ![b] = runs[b] + 1]
      /\ journal' = journal /\ Proceed(b, 1)
      /\ \/ ref' = ref
         \/ ref' = [ref EXCEPT ![b] = [id |-> NoCustomer, created |-> FALSE]]
      /\ UNCHANGED << compensated, crm, texts >>
  BY DEF Rerun
<1>2. Consistent(b) /\ MaxRuns \in Nat \ {0} /\ runs \in [Bookings -> 1..MaxRuns]
      /\ texts[b] \in Nat
  BY BookingSagaAssumption DEF IInv, TypeOK
<1>3. \/ \E k \in 1..4 : journal'[b] = Before(BOOKING_STEPS[k])
      \/ journal'[b] = Steps
  BY <1>1, <1>2 DEF Consistent, Forward, BOOKING_STEPS, Steps, CrmSteps
<1>4. /\ ref' \in [Bookings -> [id : Customers \cup {NoCustomer}, created : BOOLEAN]]
      /\ ref'[b] = ref[b] \/ ~ref'[b].created
      /\ \A c \in Bookings \ {b} : ref'[c] = ref[c]
  <2>1. ref \in [Bookings -> [id : Customers \cup {NoCustomer}, created : BOOLEAN]]
    BY DEF IInv, TypeOK
  <2>2. [id |-> NoCustomer, created |-> FALSE]
          \in [id : Customers \cup {NoCustomer}, created : BOOLEAN]
    OBVIOUS
  <2>. QED
    BY <1>1, <2>1, <2>2
<1>5. /\ runs' \in [Bookings -> 1..MaxRuns] /\ \A c \in Bookings \ {b} : runs'[c] = runs[c]
      /\ texts[b] < runs'[b]
  BY <1>1, <1>2 DEF Consistent, Counted
<1>6. /\ journal' \in [Bookings -> SUBSET Steps]
      /\ "create_job" \in journal'[b] => job[b] # NoCustomer
  BY <1>1, <1>2 DEF IInv, TypeOK, Consistent, Written, Steps
<1>. QED
  BY <1>1, <1>3, <1>4, <1>5, <1>6, ProceedKeeps

\* The actions of a worker, by name.
LEMMA WorksIs ==
  ASSUME NEW b \in Bookings, Works(b)
  PROVE  \/ \E step \in CrmSteps :
               \/ WriteAnswered(b, step) \/ WriteLost(b, step) \/ WriteFailed(b, step)
               \/ RecordFailed(b, step)
         \/ \E i \in 1..3 : Record(b, i)
         \/ FindCustomer(b) \/ SendText(b) \/ RecordText(b)
         \/ NothingToUndo(b) \/ UndoUnknown(b) \/ KeepCustomer(b)
         \/ RevokeCustomer(b) \/ RevokeFailed(b) \/ MarkCompensated(b)
<1>1. DOMAIN BOOKING_STEPS = 1..4 /\ \A i \in 1..4 : BOOKING_STEPS[i] \in CrmSteps => i \in 1..3
  BY DEF BOOKING_STEPS, CrmSteps
<1>. QED
  BY <1>1, Zenon DEF Works

LEMMA StepHolds == IInv /\ [Next]_vars => IInv'
<1> SUFFICES ASSUME IInv, [Next]_vars PROVE IInv'
  OBVIOUS
<1>1. CASE UNCHANGED vars
  <2>1. TypeOK'
    BY <1>1 DEF IInv, TypeOK, vars, worker, records, crm
  <2>2. ASSUME NEW b \in Bookings PROVE Consistent(b)'
    <3>1. Consistent(b)
      BY DEF IInv
    <3>2. Forward(b)' /\ Remembered(b)' /\ Written(b)'
      BY <1>1, <3>1 DEF Consistent, Forward, Remembered, Written, Key, vars, worker, records, crm
    <3>3. Undone(b)' /\ Reported(b)' /\ Counted(b)'
      BY <1>1, <3>1 DEF Consistent, Undone, Reported, Counted, Key, vars, worker, records, crm
    <3>. QED
      BY <3>2, <3>3 DEF Consistent
  <2>. QED
    BY <2>1, <2>2 DEF IInv
<1>2. ASSUME NEW b \in Bookings, Works(b) \/ Rerun(b) PROVE IInv'
  <2>1. CASE \E step \in CrmSteps :
               \/ WriteAnswered(b, step) \/ WriteLost(b, step) \/ WriteFailed(b, step)
               \/ RecordFailed(b, step)
    BY <2>1, WriteKeeps, WriteFailedKeeps
  <2>2. CASE \E i \in 1..3 : Record(b, i)
    BY <2>2, RecordKeeps
  <2>3. CASE FindCustomer(b) \/ SendText(b) \/ RecordText(b)
    BY <2>3, FindCustomerKeeps, SendTextKeeps, RecordTextKeeps
  <2>4. CASE \/ NothingToUndo(b) \/ UndoUnknown(b) \/ KeepCustomer(b)
             \/ RevokeCustomer(b) \/ RevokeFailed(b) \/ MarkCompensated(b) \/ Rerun(b)
    BY <2>4, NothingToUndoKeeps, RevokeKeeps, MarkCompensatedKeeps, RerunKeeps
  <2>. QED
    BY <1>2, WorksIs, <2>1, <2>2, <2>3, <2>4
<1>. QED
  BY <1>1, <1>2 DEF Next

\* The inductive invariant holds of every run: the journal is a prefix of the steps that
\* ends where the worker is, the vendor has a write's key if it acted on it, and a
\* customer that was revoked is gone (runSaga() and rollback(), saga.ts).
THEOREM IInvHolds == Spec => []IInv
BY InitHolds, StepHolds, PTL DEF Spec

\* Every variable keeps holding a value of its kind; in particular no step is attempted
\* more often than the policy allows (attempt(), saga.ts).
THEOREM TypeCorrect == Spec => []TypeOK
<1>1. IInv => TypeOK
  BY DEF IInv
<1>. QED
  BY <1>1, IInvHolds, PTL

\* The vendor acts at most once on each write of a booking, whatever is lost, retried,
\* rolled back and run again: the idempotency key is the same every time.
THEOREM NothingIsWrittenTwice == Spec => []WrittenOnce
<1>1. IInv => WrittenOnce
  BY DEF IInv, Consistent, Written, WrittenOnce
<1>. QED
  BY <1>1, IInvHolds, PTL

\* Who is told of an appointment, or is reported as committed, has a job in the CRM: the
\* text goes out only once the journal has the job (commitBooking(), booking.ts).
THEOREM NoConfirmationWithoutJob == Spec => []ConfirmedMeansJob
<1>1. IInv => ConfirmedMeansJob
  BY DEF IInv, Consistent, Written, Reported, ConfirmedMeansJob
<1>. QED
  BY <1>1, IInvHolds, PTL

\* No run sends two texts, and none sends one that the journal has: a failed text is not
\* retried and a journaled one is not sent again (send_sms, booking.ts).
THEOREM TextsAreNotRepeated == Spec => []OneTextPerRun
<1>1. ASSUME NEW b \in Bookings, Consistent(b), Await(b, "send_sms", "request")
      PROVE  texts[b] < runs[b] /\ "send_sms" \notin journal[b]
  <2>1. at[b] = Place("send_sms", "request") /\ at[b].step = "send_sms"
    BY <1>1, PlaceIs DEF Await
  <2>2. at[b] \notin {Place("send_sms", "record"), Returned}
    BY <2>1 DEF Place, Returned
  <2>. QED
    BY <1>1, <2>1, <2>2, BeforeIs DEF Consistent, Counted, Forward, Steps
<1>2. IInv => OneTextPerRun
  BY <1>1 DEF IInv, Consistent, Counted, OneTextPerRun
<1>. QED
  BY <1>2, IInvHolds, PTL

-----------------------------------------------------------------------------
(* The action properties. *)

LEMMA RevokesOwn ==
  ASSUME IInv, [Next]_vars
  PROVE  \A c \in customers \ customers' : c \in Bookings /\ at[c] = Undo
<1>1. CASE UNCHANGED vars
  BY <1>1 DEF vars, crm
<1>2. ASSUME NEW b \in Bookings, Works(b) \/ Rerun(b)
      PROVE  \A c \in customers \ customers' : c \in Bookings /\ at[c] = Undo
  <2>1. CASE RevokeCustomer(b)
    BY <2>1 DEF RevokeCustomer, KeepsCustomer, IInv, Consistent, Undone
  <2>2. CASE ~RevokeCustomer(b)
    <3>1. customers \subseteq customers'
      BY <1>2, <2>2, WorksIs
         DEF Rerun, FindCustomer, WriteAnswered, WriteLost, WriteFailed, Record, RecordFailed,
             SendText, RecordText, NothingToUndo, UndoUnknown, KeepCustomer, RevokeFailed,
             MarkCompensated, Act, crm
    <3>. QED
      BY <3>1
  <2>. QED
    BY <2>1, <2>2
<1>. QED
  BY <1>1, <1>2 DEF Next

\* A customer leaves the CRM only by the rollback of the booking that created it, never
\* one who was there before the call (revokeCustomer() and `created`).
THEOREM NoOldCustomerIsRevoked == Spec => RevokesOnlyItsOwn
<1>1. IInv /\ [Next]_vars => [\A c \in customers \ customers' : c \in Bookings /\ at[c] = Undo]_vars
  BY RevokesOwn
<1>. QED
  BY <1>1, IInvHolds, PTL DEF Spec, RevokesOnlyItsOwn

\* What a run undid when it returns ROLLED_BACK with the journal read.
LEMMA UndoneIsGone ==
  ASSUME IInv, [Next]_vars, NEW b \in Bookings,
         at[b] # Returned, at'[b] = Returned, result'[b] = "ROLLED_BACK",
         "create_customer" \in journal[b], ref[b].created, b \notin unread
  PROVE  b \notin customers'
<1>1. Consistent(b) /\ result \in [Bookings -> {"none", "COMMITTED", "ROLLED_BACK", "FAILED"}]
      /\ at \in [Bookings -> Places]
  BY DEF IInv, TypeOK
<1>2. at' # at
  OBVIOUS
<1>3. PICK c \in Bookings : Works(c) \/ Rerun(c)
  BY <1>2 DEF Next, vars, worker
<1>4. CASE NothingToUndo(c) \/ MarkCompensated(c)
  <2>1. c = b /\ customers' = customers
    BY <1>1, <1>4 DEF NothingToUndo, MarkCompensated, Return, Goto, crm
  <2>2. at[b] # NoCompensation
    BY <1>1 DEF Consistent, Remembered
  <2>3. b \in compensated \/ at[b] = Place("rollback", "record")
    BY <1>4, <2>1, <2>2 DEF NothingToUndo, MarkCompensated, MustRevoke, Await
  <2>. QED
    BY <1>1, <2>1, <2>3 DEF Consistent, Undone
<1>5. CASE \E i \in 1..4 : Proceed(c, i)
  <2>1. PICK p : at' = [at EXCEPT ![c] = p] /\ (p = Returned => result' = [result EXCEPT ![c] = "COMMITTED"])
    <3>1. PICK i \in 1..4 : Proceed(c, i)
      BY <1>5
    <3>2. \A s : Begin(s) # Returned /\ Rollback(s) # Returned
      BY DEF Begin, Rollback, Returned, NoCompensation, Undo, Place
    <3>. QED
      BY <3>1, <3>2, Zenon DEF Proceed, Return, Goto
  <2>. QED
    BY <1>1, <2>1
<1>6. CASE SendText(c) \/ RecordText(c) \/ UndoUnknown(c) \/ RevokeCustomer(c) \/ RevokeFailed(c)
  BY <1>1, <1>6 DEF SendText, RecordText, UndoUnknown, RevokeCustomer, RevokeFailed, RevokeAnswered,
                    Return, Goto, Place, Returned
<1>7. CASE KeepCustomer(c) \/ FindCustomer(c)
           \/ \E step \in CrmSteps : \/ WriteAnswered(c, step) \/ WriteLost(c, step)
                                     \/ WriteFailed(c, step) \/ RecordFailed(c, step)
  <2>1. \A s, a : Place(s, a) = Returned => s = "return"
    BY DEF Place, Returned
  <2>2. \A s \in CrmSteps : Begin(s) # Returned /\ Rollback(s) # Returned
    BY <2>1 DEF Begin, Rollback, NoCompensation, Undo, CrmSteps
  <2>3. "create_customer" \in CrmSteps
    BY DEF CrmSteps
  <2>4. \A s \in CrmSteps : \A v : Thrown(c, s, v) => at'[c] # Returned
    BY <1>1, <2>2 DEF Thrown, Retry, Failed, Answered, Goto
  <2>5. at'[c] # Returned
    BY <1>1, <1>7, <2>1, <2>2, <2>3, <2>4
       DEF KeepCustomer, FindCustomer, WriteAnswered, WriteLost, WriteFailed, RecordFailed,
           Failed, Answered, Goto, CrmSteps
  <2>6. \A d \in Bookings : d # c => at'[d] = at[d]
    BY <1>1, <1>7
       DEF KeepCustomer, FindCustomer, WriteAnswered, WriteLost, WriteFailed, RecordFailed,
           Thrown, Retry, Failed, Answered, Goto
  <2>. QED
    BY <2>5, <2>6
<1>8. (\E i \in 1..3 : Record(c, i)) \/ Rerun(c) => \E i \in 1..4 : Proceed(c, i)
  BY DEF Record, Rerun
<1>. QED
  BY <1>3, <1>4, <1>5, <1>6, <1>7, <1>8, WorksIs

\* A run that returns ROLLED_BACK leaves no customer behind that it created and recorded,
\* however its earlier runs were cut off, if the journal could be read (rollback(), saga.ts).
THEOREM RollbackIsComplete == Spec => RecordedWorkIsUndone
<1>1. IInv /\ [Next]_vars =>
        [\A b \in Bookings :
           (/\ at[b] # Returned /\ at'[b] = Returned /\ result'[b] = "ROLLED_BACK"
            /\ "create_customer" \in journal[b] /\ ref[b].created /\ b \notin unread)
             => b \notin customers']_vars
  BY UndoneIsGone
<1>. QED
  BY <1>1, IInvHolds, PTL DEF Spec, RecordedWorkIsUndone

-----------------------------------------------------------------------------
(* BookingSaga implements BookingPromise. *)

Scheduled == {b \in Bookings : job[b] # NoCustomer}
Told == {b \in Bookings : texts[b] > 0}

LEMMA PromiseInit == Init => Promise!Init
BY BookingSagaAssumption DEF Init, Promise!Init, NoCustomer

LEMMA PromiseStutters ==
  ASSUME UNCHANGED << job, texts, result >>
  PROVE  UNCHANGED Promise!promiseVars
BY DEF Promise!promiseVars

\* Acting on a write schedules the booking if it is its job, and nothing otherwise.
LEMMA ActSchedules ==
  ASSUME IInv, NEW b \in Bookings, NEW step \in CrmSteps,
         Await(b, step, "request"), Accepts(b, step), Act(b, step),
         UNCHANGED << texts, result >>
  PROVE  Promise!Schedule(b) \/ UNCHANGED Promise!promiseVars
<1>1. CASE job' = job
  BY <1>1, PromiseStutters
<1>2. CASE /\ step = "create_job" /\ Key(b, step) \notin keys /\ ref[b].id \in customers
           /\ job' = [job EXCEPT ![b] = ref[b].id]
  <2>1. at[b].step = "create_job" /\ Consistent(b)
    BY <1>2, PlaceIs DEF Await, IInv
  <2>2. "create_job" \notin journal[b] /\ job[b] = NoCustomer
    BY <1>2, <2>1, BeforeIs DEF Consistent, Forward, Written, Steps, CrmSteps
  <2>3. result[b] # "COMMITTED"
    BY <2>1, <2>2 DEF Consistent, Reported
  <2>4. ref[b].id # NoCustomer
    BY <1>2, BookingSagaAssumption DEF IInv, TypeOK, Customers, NoCustomer
  <2>5. Scheduled' = Scheduled \cup {b} /\ b \notin Scheduled
    BY <1>2, <2>2, <2>4 DEF IInv, TypeOK, Scheduled
  <2>. QED
    BY <2>3, <2>5 DEF Promise!Schedule, Scheduled
<1>. QED
  BY <1>1, <1>2 DEF Act, Seen, Accepts, crm

LEMMA TextPromised ==
  ASSUME IInv, NEW b \in Bookings, SendText(b) \/ RecordText(b)
  PROVE  Promise!Tell(b) \/ Promise!Commit(b)
<1>1. at[b].step = "send_sms" /\ Consistent(b) /\ job' = job
  BY PlaceIs DEF SendText, RecordText, Await, IInv, crm
<1>2. b \in Scheduled /\ Scheduled' = Scheduled
  BY <1>1, BeforeIs DEF Consistent, Forward, Written, Steps, CrmSteps, Scheduled
<1>3. CASE texts' = [texts EXCEPT ![b] = texts[b] + 1]
  <2>1. Told' = Told \cup {b}
    BY <1>3 DEF IInv, TypeOK, Told
  <2>2. result' = result \/ result' = [result EXCEPT ![b] = "COMMITTED"]
    BY DEF SendText, RecordText, Return
  <2>. QED
    BY <1>2, <2>1, <2>2 DEF Promise!Tell, Promise!Commit, Scheduled, Told
<1>4. CASE texts' = texts /\ result' = [result EXCEPT ![b] = "COMMITTED"]
  BY <1>2, <1>4 DEF Promise!Commit, Scheduled, Told
<1>. QED
  BY <1>3, <1>4 DEF SendText, RecordText, Return

LEMMA RollbackPromised ==
  ASSUME IInv, NEW b \in Bookings,
         \/ NothingToUndo(b) \/ UndoUnknown(b) \/ KeepCustomer(b)
         \/ RevokeCustomer(b) \/ RevokeFailed(b) \/ MarkCompensated(b)
  PROVE  Promise!GiveUp(b) \/ UNCHANGED Promise!promiseVars
<1>1. at[b].step = "rollback" /\ job' = job /\ texts' = texts
  BY PlaceIs, PlaceTypes
     DEF NothingToUndo, UndoUnknown, KeepCustomer, RevokeCustomer, RevokeFailed, MarkCompensated, Await, crm
<1>2. b \in unread \/ (result[b] # "COMMITTED" /\ texts[b] = 0)
  BY <1>1, RollingBack
<1>3. CASE result' = result
  BY <1>1, <1>3, PromiseStutters
<1>4. CASE \E report \in {"ROLLED_BACK", "FAILED"} : result' = [result EXCEPT ![b] = report]
  <2>1. b \in unread \/ (b \notin Told /\ result[b] # "COMMITTED")
    BY <1>2 DEF Told
  <2>2. Told' = Told /\ Scheduled' = Scheduled
    BY <1>1 DEF Told, Scheduled
  <2>. QED
    BY <1>4, <2>1, <2>2 DEF Promise!GiveUp, Promise!GivenUp, Told, Scheduled
<1>. QED
  BY <1>3, <1>4 DEF NothingToUndo, UndoUnknown, KeepCustomer, RevokeCustomer, RevokeFailed,
                    MarkCompensated, RevokeAnswered, Return, records

\* Reading the journal commits a booking that has its job, or says nothing.
LEMMA ProceedPromised ==
  ASSUME IInv, NEW b \in Bookings, NEW i \in 1..4, Proceed(b, i),
         \/ \E k \in i..4 : journal'[b] = Before(BOOKING_STEPS[k])
         \/ journal'[b] = Steps,
         "create_job" \in journal'[b] => job[b] # NoCustomer,
         UNCHANGED << job, texts >>
  PROVE  Promise!Commit(b) \/ UNCHANGED Promise!promiseVars
<1>1. CASE result' = result
  BY <1>1, PromiseStutters
<1>2. CASE CrmSteps \subseteq journal'[b] /\ result' = [result EXCEPT ![b] = "COMMITTED"]
  <2>1. b \in Scheduled /\ Scheduled' = Scheduled /\ Told' = Told
    BY <1>2 DEF Scheduled, Told, CrmSteps
  <2>. QED
    BY <1>2, <2>1 DEF Promise!Commit, Scheduled, Told
<1>. QED
  BY <1>1, <1>2, ProceedGoes

LEMMA ReadsPromised ==
  ASSUME IInv, NEW b \in Bookings, Rerun(b) \/ \E i \in 1..3 : Record(b, i)
  PROVE  Promise!Commit(b) \/ UNCHANGED Promise!promiseVars
<1>1. Consistent(b) /\ journal \in [Bookings -> SUBSET Steps]
  BY DEF IInv, TypeOK, Steps
<1>2. CASE Rerun(b)
  <2>1. Proceed(b, 1) /\ journal' = journal /\ UNCHANGED << job, texts >>
    BY <1>2 DEF Rerun, crm
  <2>2. /\ \/ \E k \in 1..4 : journal[b] = Before(BOOKING_STEPS[k])
           \/ journal[b] = Steps
        /\ "create_job" \in journal[b] => job[b] # NoCustomer
    BY <1>1 DEF Consistent, Forward, Written, BOOKING_STEPS, Steps, CrmSteps
  <2>. QED
    BY <2>1, <2>2, ProceedPromised
<1>3. CASE \E i \in 1..3 : Record(b, i)
  <2>1. PICK i \in 1..3 : Record(b, i)
    BY <1>3
  <2> DEFINE step == BOOKING_STEPS[i]
  <2>2. /\ at[b] = Place(step, "record") /\ at[b].step = step
        /\ journal' = [journal EXCEPT ![b] = journal[b] \cup {step}]
        /\ Proceed(b, i + 1) /\ i + 1 \in 1..4 /\ i + 1 \in (i + 1)..4
        /\ UNCHANGED << job, texts >>
    BY <2>1, PlaceIs DEF Record, Await, crm
  <2>3. /\ step \in Steps /\ Before(step) \cup {step} = Before(BOOKING_STEPS[i + 1])
        /\ "create_job" \in Before(step) \cup {step} => step = "create_job"
    BY DEF BOOKING_STEPS, CrmSteps, Steps, Before
  <2>4. journal[b] = Before(step) /\ (step = "create_job" => job[b] # NoCustomer)
    BY <1>1, <2>2, <2>3 DEF Consistent, Forward, Written
  <2>5. journal'[b] = Before(BOOKING_STEPS[i + 1]) /\ ("create_job" \in journal'[b] => job[b] # NoCustomer)
    BY <1>1, <2>2, <2>3, <2>4
  <2> HIDE DEF step
  <2>. QED
    BY <2>2, <2>5, ProceedPromised
<1>. QED
  BY <1>2, <1>3

LEMMA PromiseStep == IInv /\ [Next]_vars => [Promise!Next]_(Promise!promiseVars)
<1> SUFFICES ASSUME IInv, [Next]_vars PROVE Promise!Next \/ UNCHANGED Promise!promiseVars
  OBVIOUS
<1>1. CASE UNCHANGED vars
  BY <1>1, PromiseStutters DEF vars, records, crm
<1>2. ASSUME NEW b \in Bookings, Works(b) \/ Rerun(b)
      PROVE  Promise!Next \/ UNCHANGED Promise!promiseVars
  <2>1. CASE \E step \in CrmSteps : WriteAnswered(b, step) \/ WriteLost(b, step)
    <3>1. PICK step \in CrmSteps : WriteAnswered(b, step) \/ WriteLost(b, step)
      BY <2>1
    <3>2. /\ Await(b, step, "request") /\ Accepts(b, step) /\ Act(b, step)
          /\ UNCHANGED << texts, result >>
      BY <3>1 DEF WriteAnswered, WriteLost, records
    <3>. QED
      BY <3>2, ActSchedules DEF Promise!Next
  <2>2. CASE SendText(b) \/ RecordText(b)
    BY <2>2, TextPromised DEF Promise!Next
  <2>3. CASE \/ NothingToUndo(b) \/ UndoUnknown(b) \/ KeepCustomer(b)
             \/ RevokeCustomer(b) \/ RevokeFailed(b) \/ MarkCompensated(b)
    BY <2>3, RollbackPromised DEF Promise!Next
  <2>4. CASE Rerun(b) \/ \E i \in 1..3 : Record(b, i)
    BY <2>4, ReadsPromised DEF Promise!Next
  <2>5. CASE FindCustomer(b) \/ \E step \in CrmSteps : WriteFailed(b, step) \/ RecordFailed(b, step)
    BY <2>5, PromiseStutters DEF FindCustomer, WriteFailed, RecordFailed, records, crm
  <2>. QED
    BY <1>2, WorksIs, <2>1, <2>2, <2>3, <2>4, <2>5
<1>. QED
  BY <1>1, <1>2 DEF Next

\* The saga implements BookingPromise: nobody is told before there is a job, and neither what
\* was told nor a commit is taken back, but by a run that cannot read the journal of it
\* (commitBooking(), booking.ts).
THEOREM SagaKeepsThePromise == Spec => KeepsThePromise
BY PromiseInit, PromiseStep, IInvHolds, PTL DEF Spec, KeepsThePromise, Promise!Spec

=============================================================================
