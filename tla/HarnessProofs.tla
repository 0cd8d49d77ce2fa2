---------------------------- MODULE HarnessProofs ----------------------------
\* Theorems about the measuring harness: about EvalArms, for every table of
\* drivers and every number of failing arms and kills, and about Ladder, for
\* every script that arranges its lanes as the repository's scripts do, every
\* old file and every number of failures, hangs and reboots.
EXTENDS EvalArms, Ladder, CommonLemmas

-----------------------------------------------------------------------------
\* EvalArms

Keys == {D.arms[i].key : i \in DOMAIN D.arms}
Row == [point : Nat, key : Keys, ok : BOOLEAN, delta : BOOLEAN, read : BOOLEAN]

\* A table holds rows of the first jobs, in their order.
InOrder(table) ==
  /\ table \in Seq(Row) /\ Len(table) <= NumJobs
  /\ \A i \in 1 .. Len(table) : JobOf(table[i]) = Job(i)

Live == pc \notin {"start", "dead"}

\* The position of a driver that runs: fresh rows are at the end, and where there
\* is one the next row is for the next arm.
OrderInv ==
  /\ driver \in DOMAIN Drivers
  /\ pc \in {"start", "next", "measure", "truncate", "fill", "done", "dead"}
  /\ pos \in 1 .. NumJobs + 1 /\ point \in 1 .. D.points + 1
  /\ InOrder(rows) /\ InOrder(file)
  /\ ~D.resume => \A i \in DOMAIN rows : ~rows[i].read
  /\ Live => /\ (point - 1) * NumArms < pos /\ pos <= point * NumArms + 1
             /\ pos <= Len(rows) + 1
             /\ (\E i \in DOMAIN rows : ~rows[i].read) => pos = Len(rows) + 1
  /\ pc = "measure" => pos <= NumJobs /\ PointOf(pos) = point /\ pos = Len(rows) + 1
  /\ pc = "done" => point = D.points + 1

\* What the CSV is worth beside the rows in memory.
Same(t, u) == Len(t) = Len(u) /\ \A i \in 1 .. Len(t) : t[i].ok = u[i].ok
Unsaved == Len(file) <= Len(rows) /\ \A i \in 1 .. Len(file) : file[i].ok = rows[i].ok
UnsavedFailed == Unsaved /\ \A i \in Len(file) + 1 .. Len(rows) : ~rows[i].ok
SyncInv ==
  /\ pc \in {"next", "measure", "done"} /\ D.save = "each" =>
       (rows = <<>> /\ ~D.resume) \/ Same(file, rows)
  /\ pc \in {"next", "measure", "done"} /\ D.save = "measured" =>
       (\A i \in DOMAIN rows : ~rows[i].ok) \/ UnsavedFailed
  /\ pc = "done" /\ D.save \notin {"each", "measured"} => Same(file, rows)

\* A driver that resumes and saves each arm has all rows but one on disk, and no
\* more measurements than rows, kills and errors account for.
CountInv ==
  /\ measured \in Nat /\ crashes \in Nat /\ errors \in Nat
  /\ D.resume /\ D.save = "each" /\ ~torn =>
       /\ Live => measured <= Len(rows) + crashes + errors
       /\ ~Live => measured <= Len(file) + crashes + errors
       /\ pc = "truncate" => Len(rows) <= Len(file) + 1

\* Rows in memory and on disk cover what was ever in a complete CSV.
Covers(table) == \A j \in written : \E i \in DOMAIN table : JobOf(table[i]) = j /\ table[i].ok
SavedInv ==
  D.resume /\ ~torn => (pc # "fill" => Covers(file)) /\ (Live => Covers(rows))

\* The points that are over have their deltas.
DeltaInv ==
  /\ D.keys = "text" /\ Live =>
       \A i, j \in DOMAIN rows :
         rows[i].point < point /\ rows[i].ok /\ rows[j].ok /\ rows[j].point = rows[i].point
           /\ rows[j].key \in D.refs => rows[i].delta
  /\ pc = "done" => file = rows \/ D.refs = {}
-----------------------------------------------------------------------------
\* Points and arms.

LEMMA DriverFacts ==
  ASSUME driver \in DOMAIN Drivers
  PROVE  /\ D.points \in Nat \ {0} /\ NumArms \in Nat \ {0} /\ DOMAIN D.arms = 1 .. NumArms
         /\ NumJobs \in Nat \ {0} /\ NumJobs = D.points * NumArms
         /\ \A i, j \in 1 .. NumArms : D.arms[i].key = D.arms[j].key => i = j
         /\ D.resume => D.header = "union"
         /\ D.save = "measured" => D.refs = {}
         /\ D.save \in {"each", "measured", "point", "end"}
<1>1. D \in {Drivers[n] : n \in DOMAIN Drivers}
  BY DEF D, Table
<1>2. /\ D.points \in Nat \ {0} /\ NumArms \in Nat \ {0} /\ DOMAIN D.arms = 1 .. NumArms
      /\ \A i, j \in 1 .. NumArms : D.arms[i].key = D.arms[j].key => i = j
      /\ D.resume => D.header = "union"
      /\ D.save = "measured" => D.refs = {}
      /\ D.save \in {"each", "measured", "point", "end"}
  BY <1>1, DriversAssumption DEF NumArms
<1>3. \A m, n \in Nat \ {0} : m * n \in Nat \ {0}
  OBVIOUS
<1> QED
  BY <1>2, <1>3 DEF NumJobs

LEMMA DriverStays ==
  ASSUME driver' = driver
  PROVE  /\ D' = D /\ NumArms' = NumArms /\ NumJobs' = NumJobs /\ Row' = Row
         /\ \A p : PointOf(p)' = PointOf(p) /\ ArmOf(p)' = ArmOf(p) /\ Job(p)' = Job(p)
<1>1. D' = D
  BY DEF D, Table
<1>2. NumArms' = NumArms /\ NumJobs' = NumJobs
  BY <1>1 DEF NumArms, NumJobs
<1>3. \A p : PointOf(p)' = PointOf(p) /\ ArmOf(p)' = ArmOf(p)
  BY <1>1, <1>2 DEF PointOf, ArmOf
<1> QED
  BY <1>1, <1>2, <1>3 DEF Row, Keys, Job

LEMMA Positions ==
  ASSUME driver \in DOMAIN Drivers, NEW p \in 1 .. NumJobs
  PROVE  /\ PointOf(p) \in 1 .. D.points /\ p <= PointOf(p) * NumArms
         /\ ArmOf(p).key \in Keys
<1> DEFINE q == (p - 1) \div NumArms
           r == (p - 1) % NumArms
<1>1. /\ D.points \in Nat /\ NumArms \in Nat \ {0} /\ NumJobs = D.points * NumArms
      /\ DOMAIN D.arms = 1 .. NumArms /\ p - 1 \in Nat /\ p \in Nat /\ p <= D.points * NumArms
  BY DriverFacts
<1>2. q \in Nat /\ r \in 0 .. NumArms - 1 /\ p - 1 = NumArms * q + r
  BY <1>1, DivBounds
<1>3. PointOf(p) = 1 + q /\ ArmOf(p) = D.arms[1 + r]
  BY DEF PointOf, ArmOf
<1> HIDE DEF q, r
<1>4. NumArms * q \in Nat /\ (1 + q) * NumArms = NumArms * q + NumArms
  BY <1>1, <1>2
<1>5. p <= (1 + q) * NumArms
  BY <1>1, <1>2, <1>4
<1>6. q < D.points
  <2> SUFFICES ASSUME q >= D.points PROVE FALSE
    BY <1>1, <1>2
  <2>1. NumArms * q >= NumArms * D.points /\ NumArms * D.points = D.points * NumArms
    BY <1>1, <1>2
  <2>2. p - 1 < D.points * NumArms
    BY <1>1
  <2>3. NumArms * q <= p - 1
    BY <1>1, <1>2, <1>4
  <2>4. D.points * NumArms \in Int
    BY <1>1
  <2> QED
    BY <1>1, <1>4, <2>1, <2>2, <2>3, <2>4
<1>7. 1 + q \in 1 .. D.points /\ 1 + r \in 1 .. NumArms
  BY <1>1, <1>2, <1>6
<1> QED
  BY <1>1, <1>3, <1>5, <1>7 DEF Keys

\* Each position of a driver has an arm and point of its own.
LEMMA JobsDiffer ==
  ASSUME driver \in DOMAIN Drivers, NEW p \in 1 .. NumJobs, NEW q \in 1 .. NumJobs, Job(p) = Job(q)
  PROVE  p = q
<1> DEFINE a == (p - 1) \div NumArms
           b == (p - 1) % NumArms
           c == (q - 1) \div NumArms
           d == (q - 1) % NumArms
<1>1. NumArms \in Nat \ {0} /\ p - 1 \in Nat /\ q - 1 \in Nat /\ p \in Nat /\ q \in Nat
  BY DriverFacts
<1>2. /\ a \in Nat /\ b \in 0 .. NumArms - 1 /\ p - 1 = NumArms * a + b
      /\ c \in Nat /\ d \in 0 .. NumArms - 1 /\ q - 1 = NumArms * c + d
  BY <1>1, DivBounds
<1>3. 1 + a = 1 + c /\ D.arms[1 + b].key = D.arms[1 + d].key
  BY DEF Job, PointOf, ArmOf
<1> HIDE DEF a, b, c, d
<1>4. a = c
  BY <1>2, <1>3
<1>5. 1 + b = 1 + d
  <2>1. 1 + b \in 1 .. NumArms /\ 1 + d \in 1 .. NumArms
    BY <1>1, <1>2
  <2> QED
    BY <1>3, <2>1, DriverFacts
<1>6. b = d
  BY <1>2, <1>5
<1> QED
  BY <1>1, <1>2, <1>4, <1>6

LEMMA FunctionIsSeq ==
  ASSUME NEW S, NEW n \in Nat, NEW f \in [1 .. n -> S]
  PROVE  f \in Seq(S) /\ Len(f) = n /\ DOMAIN f = 1 .. n
OBVIOUS

\* An arm that is not in the table comes right after its rows.
LEMMA NextArm ==
  ASSUME OrderInv, pc = "next", AtArm, ~Done(pos)
  PROVE  pos \in 1 .. NumJobs /\ PointOf(pos) = point /\ pos = Len(rows) + 1
<1>1. /\ driver \in DOMAIN Drivers /\ pos \in 1 .. NumJobs + 1 /\ pos <= NumJobs /\ PointOf(pos) = point
      /\ NumJobs \in Nat
  BY DriverFacts DEF OrderInv, AtArm
<1>2. /\ rows \in Seq(Row) /\ Len(rows) \in Nat /\ DOMAIN rows = 1 .. Len(rows)
      /\ pos <= Len(rows) + 1
      /\ (\E i \in DOMAIN rows : ~rows[i].read) => pos = Len(rows) + 1
      /\ \A i \in 1 .. Len(rows) : JobOf(rows[i]) = Job(i)
      /\ ~D.resume => \A i \in DOMAIN rows : ~rows[i].read
  BY DEF OrderInv, InOrder, Live
<1>3. pos = Len(rows) + 1
  <2> SUFFICES ASSUME pos # Len(rows) + 1 PROVE FALSE
    OBVIOUS
  <2>1. pos \in 1 .. Len(rows)
    <3>1. pos \in Nat /\ pos >= 1 /\ pos <= Len(rows) + 1 /\ Len(rows) \in Nat
      BY <1>1, <1>2
    <3> QED
      BY <3>1
  <2>2. rows[pos].read /\ D.resume
    BY <1>2, <2>1
  <2>3. JobOf(rows[pos]) = Job(pos)
    BY <1>2, <2>1
  <2> QED
    BY <1>2, <2>1, <2>2, <2>3 DEF Done
<1> QED
  BY <1>1, <1>3

LEMMA LoadedInOrder ==
  ASSUME OrderInv
  PROVE  /\ InOrder(Loaded)
         /\ D.resume => /\ Len(Loaded) = Len(file)
                        /\ \A i \in 1 .. Len(file) : /\ JobOf(Loaded[i]) = JobOf(file[i])
                                                     /\ Loaded[i].ok = file[i].ok /\ Loaded[i].read
         /\ ~D.resume => Loaded = <<>>
<1>1. file \in Seq(Row) /\ Len(file) \in Nat /\ DOMAIN file = 1 .. Len(file) /\ NumJobs \in Nat
  BY DriverFacts DEF OrderInv, InOrder
<1>2. CASE D.resume
  <2>1. Loaded = [i \in 1 .. Len(file) |-> [file[i] EXCEPT !.read = TRUE]]
    BY <1>1, <1>2 DEF Loaded
  <2>2. \A i \in 1 .. Len(file) :
          /\ Loaded[i] \in Row /\ JobOf(Loaded[i]) = JobOf(file[i])
          /\ Loaded[i].ok = file[i].ok /\ Loaded[i].read
    <3>1. \A i \in 1 .. Len(file) : file[i] \in Row /\ Loaded[i] = [file[i] EXCEPT !.read = TRUE]
      BY <1>1, <2>1
    <3> QED
      BY <3>1 DEF Row, JobOf
  <2>3. Loaded \in Seq(Row) /\ Len(Loaded) = Len(file)
    BY <1>1, <2>1, <2>2
  <2> QED
    BY <1>2, <2>2, <2>3 DEF OrderInv, InOrder
<1>3. CASE ~D.resume
  BY <1>1, <1>3 DEF Loaded, InOrder
<1> QED
  BY <1>2, <1>3

\* Recording adds the row of the arm at hand.
Grown(table, ok) ==
  /\ Len(table) = Len(rows) + 1
  /\ \A i \in 1 .. Len(rows) : table[i] = rows[i]
  /\ table[Len(rows) + 1].ok = ok /\ ~table[Len(rows) + 1].read
  /\ table[Len(rows) + 1].point = point

LEMMA RecordedInOrder ==
  ASSUME OrderInv, pos \in 1 .. NumJobs, PointOf(pos) = point, pos = Len(rows) + 1, NEW ok \in BOOLEAN
  PROVE  InOrder(Recorded(ok)) /\ Grown(Recorded(ok), ok)
<1> DEFINE new == [point |-> point, key |-> ArmOf(pos).key, ok |-> ok, delta |-> FALSE, read |-> FALSE]
<1>1. /\ rows \in Seq(Row) /\ Len(rows) \in Nat
      /\ \A i \in 1 .. Len(rows) : JobOf(rows[i]) = Job(i)
      /\ driver \in DOMAIN Drivers /\ NumJobs \in Nat /\ D.points \in Nat
  BY DriverFacts DEF OrderInv, InOrder
<1>2. new \in Row
  <2>1. ArmOf(pos).key \in Keys /\ point \in Nat
    BY <1>1, Positions
  <2> QED
    BY <2>1 DEF Row
<1>3. JobOf(new) = Job(pos) /\ new.ok = ok /\ ~new.read /\ new.point = point
  BY DEF JobOf, Job
<1>4. Recorded(ok) = Append(rows, new)
  BY DEF Recorded
<1> HIDE DEF new
<1>5. /\ Recorded(ok) \in Seq(Row) /\ Len(Recorded(ok)) = Len(rows) + 1
      /\ \A i \in 1 .. Len(rows) : Recorded(ok)[i] = rows[i]
      /\ Recorded(ok)[Len(rows) + 1] = new
  BY <1>1, <1>2, <1>4
<1>6. \A i \in 1 .. Len(rows) + 1 : i \in 1 .. Len(rows) \/ i = Len(rows) + 1
  BY <1>1
<1>7. \A i \in 1 .. Len(rows) + 1 : JobOf(Recorded(ok)[i]) = Job(i)
  BY <1>1, <1>3, <1>5, <1>6
<1> QED
  BY <1>1, <1>3, <1>5, <1>7 DEF InOrder, Grown

\* The deltas change nothing else of a row.
LEMMA DeltasInOrder ==
  ASSUME OrderInv
  PROVE  /\ InOrder(WithDeltas) /\ Len(WithDeltas) = Len(rows) /\ DOMAIN WithDeltas = DOMAIN rows
         /\ \A i \in DOMAIN rows :
              /\ JobOf(WithDeltas[i]) = JobOf(rows[i]) /\ WithDeltas[i].ok = rows[i].ok
              /\ WithDeltas[i].read = rows[i].read
              /\ WithDeltas[i].point = rows[i].point /\ WithDeltas[i].key = rows[i].key
              /\ WithDeltas[i].delta <=>
                   rows[i].delta \/ (IsTarget(rows[i]) /\ \E j \in DOMAIN rows : IsReference(rows[j]))
<1> DEFINE dl(i) == rows[i].delta \/ (IsTarget(rows[i]) /\ \E j \in DOMAIN rows : IsReference(rows[j]))
<1>1. rows \in Seq(Row) /\ Len(rows) \in Nat /\ DOMAIN rows = 1 .. Len(rows)
  BY DEF OrderInv, InOrder
<1>2. WithDeltas = [i \in DOMAIN rows |-> [rows[i] EXCEPT !.delta = dl(i)]]
  BY DEF WithDeltas
<1>3. \A i \in DOMAIN rows : dl(i) \in BOOLEAN
  OBVIOUS
<1>4. \A i \in DOMAIN rows : rows[i] \in Row
  BY <1>1
<1> HIDE DEF dl
<1>5. ASSUME NEW i \in DOMAIN rows
      PROVE  /\ WithDeltas[i] \in Row /\ JobOf(WithDeltas[i]) = JobOf(rows[i])
             /\ WithDeltas[i].ok = rows[i].ok /\ WithDeltas[i].read = rows[i].read
             /\ WithDeltas[i].point = rows[i].point /\ WithDeltas[i].key = rows[i].key
             /\ WithDeltas[i].delta = dl(i)
  <2>1. WithDeltas[i] = [rows[i] EXCEPT !.delta = dl(i)]
    BY <1>2
  <2>2. dl(i) \in BOOLEAN /\ rows[i] \in Row
    BY <1>3, <1>4
  <2> QED
    BY <2>1, <2>2 DEF Row, JobOf
<1>6. WithDeltas \in Seq(Row) /\ Len(WithDeltas) = Len(rows) /\ DOMAIN WithDeltas = DOMAIN rows
  <2>1. WithDeltas \in [1 .. Len(rows) -> Row]
    BY <1>1, <1>2, <1>5
  <2> QED
    BY <1>1, <2>1, FunctionIsSeq
<1>7. InOrder(WithDeltas)
  BY <1>1, <1>5, <1>6 DEF OrderInv, InOrder
<1> QED
  BY <1>5, <1>6, <1>7 DEF dl

\* A row that does not fit comes after the rows before it.
LEMMA FirstMisfit ==
  ASSUME OrderInv, Misfits # {}
  PROVE  InOrder(SubSeq(rows, 1, Min(Misfits) - 1))
<1>1. rows \in Seq(Row) /\ Len(rows) \in Nat /\ DOMAIN rows = 1 .. Len(rows) /\ NumJobs \in Nat
      /\ Len(rows) <= NumJobs
  BY DriverFacts DEF OrderInv, InOrder
<1>2. Misfits \subseteq 1 .. Len(rows)
  BY <1>1 DEF Misfits
<1>3. PICK m \in Misfits : \A k \in Misfits : m <= k
  <2>1. Misfits \subseteq Nat
    BY <1>1, <1>2
  <2> QED
    BY <2>1, LeastMember
<1>4. Min(Misfits) \in Misfits
  BY <1>3 DEF Min
<1>5. PICK n \in Nat : n = Min(Misfits) - 1 /\ n <= Len(rows)
  <2>1. Min(Misfits) \in 1 .. Len(rows)
    BY <1>2, <1>4
  <2>2. \A x \in 1 .. Len(rows) : x - 1 \in Nat /\ x - 1 <= Len(rows)
    BY <1>1
  <2> QED
    BY <2>1, <2>2
<1>6. SubSeq(rows, 1, n) \in Seq(Row) /\ Len(SubSeq(rows, 1, n)) = n
      /\ \A i \in 1 .. n : SubSeq(rows, 1, n)[i] = rows[i]
  BY <1>1, <1>5
<1>7. \A i \in 1 .. n : JobOf(rows[i]) = Job(i)
  BY <1>1, <1>5 DEF OrderInv, InOrder
<1> QED
  BY <1>1, <1>5, <1>6, <1>7 DEF InOrder

-----------------------------------------------------------------------------
\* What the steps of an arm do: it gets a row, or the process ends, or nothing
\* of what the invariants are about changes.

Records ==
  /\ pc \in {"next", "measure"}
  /\ pos \in 1 .. NumJobs /\ PointOf(pos) = point /\ pos = Len(rows) + 1
  /\ \E ok \in BOOLEAN :
       /\ rows' = Recorded(ok) /\ pos' = pos + 1
       /\ pc' \in {"next", "truncate"} /\ (D.save = "each" => pc' = "truncate")
       /\ D.save = "measured" /\ pc' = "next" => ~ok
  /\ UNCHANGED <<driver, point, file, written, torn, crashes>>
  /\ measured' \in {measured, measured + 1} /\ errors' \in {errors, errors + 1}
Dies ==
  /\ Live /\ pc # "done" /\ pc' = "dead"
  /\ UNCHANGED <<driver, pos, point, rows, file, written>>
  /\ \/ /\ pc \in {"next", "measure"} /\ UNCHANGED <<torn, crashes>>
        /\ errors' = errors + 1 /\ measured' \in {measured, measured + 1}
     \/ /\ crashes' = crashes + 1 /\ UNCHANGED <<errors, measured>>
        /\ torn' = (torn \/ pc = "fill")
Turns ==
  /\ \/ pc = "measure" /\ pc' = "next"
     \/ /\ pc = "next" /\ pc' = "measure"
        /\ pos \in 1 .. NumJobs /\ PointOf(pos) = point /\ pos = Len(rows) + 1
  /\ UNCHANGED <<driver, pos, point, rows, file, written, torn, crashes, measured>>
  /\ errors' \in {errors, errors + 1}

LEMMA ArmSteps ==
  ASSUME OrderInv,
         Stub \/ Setup \/ SetupFails \/ (\E ok \in BOOLEAN : Measure(ok)) \/ OutOfMemory \/ Crash
  PROVE  Records \/ Dies \/ Turns
<1>1. ASSUME NEW ok \in BOOLEAN, NEW stage \in {"setup", "measure"}, Record(ok, stage),
             stage = "setup" => ~ok
      PROVE  /\ rows' = Recorded(ok) /\ pos' = pos + 1
             /\ pc' \in {"next", "truncate"} /\ (D.save = "each" => pc' = "truncate")
             /\ D.save = "measured" /\ pc' = "next" => ~ok
  BY <1>1 DEF Record
<1>2. CASE Stub
  <2>1. /\ pc = "next" /\ AtArm /\ ~Done(pos) /\ Record(FALSE, "setup")
        /\ UNCHANGED <<driver, point, file, written, torn, crashes, measured, errors>>
    BY <1>2 DEF Stub, AtArm
  <2> QED
    BY <1>1, <2>1, NextArm DEF Records
<1>3. CASE Setup
  <2>1. /\ pc = "next" /\ AtArm /\ ~Done(pos) /\ pc' = "measure"
        /\ UNCHANGED <<driver, pos, point, rows, file, written, torn, crashes, measured, errors>>
    BY <1>3 DEF Setup, AtArm
  <2> QED
    BY <2>1, NextArm DEF Turns
<1>4. CASE SetupFails
  <2>1. /\ pc = "next" /\ AtArm /\ ~Done(pos) /\ errors' = errors + 1
        /\ Record(FALSE, "setup") \/ Raise
        /\ UNCHANGED <<driver, point, file, written, torn, crashes, measured>>
    BY <1>4 DEF SetupFails, AtArm
  <2>2. CASE Record(FALSE, "setup")
    BY <1>1, <2>1, <2>2, NextArm DEF Records
  <2>3. CASE Raise
    BY <2>1, <2>3 DEF Raise, Dies, Live
  <2> QED
    BY <2>1, <2>2, <2>3
<1>5. ASSUME NEW ok \in BOOLEAN, Measure(ok) PROVE Records \/ Dies
  <2>1. /\ pc = "measure" /\ errors' = (IF ok THEN errors ELSE errors + 1)
        /\ measured' \in {measured, measured + 1}
        /\ Record(ok, "measure") \/ (~ok /\ Raise)
        /\ UNCHANGED <<driver, point, file, written, torn, crashes>>
    BY <1>5 DEF Measure
  <2>2. CASE Record(ok, "measure")
    <3>1. pos \in 1 .. NumJobs /\ PointOf(pos) = point /\ pos = Len(rows) + 1
      <4>1. NumJobs \in Nat
        BY DriverFacts DEF OrderInv
      <4> QED
        BY <2>1, <4>1 DEF OrderInv
    <3> QED
      BY <1>1, <2>1, <2>2, <3>1 DEF Records
  <2>3. CASE ~ok /\ Raise
    BY <2>1, <2>3 DEF Raise, Dies, Live
  <2> QED
    BY <2>1, <2>2, <2>3
<1>6. CASE OutOfMemory
  BY <1>6 DEF OutOfMemory, Turns
<1>7. CASE Crash
  BY <1>7 DEF Crash, Dies, Live
<1> QED
  BY <1>2, <1>3, <1>4, <1>5, <1>6, <1>7

-----------------------------------------------------------------------------

LEMMA OrderInit == Init => OrderInv
<1> SUFFICES ASSUME Init PROVE OrderInv
  OBVIOUS
<1>1. driver \in DOMAIN Drivers /\ NumJobs \in Nat /\ D.points \in Nat
  BY DriverFacts DEF Init
<1>2. InOrder(<<>>)
  BY <1>1 DEF InOrder
<1> QED
  BY <1>1, <1>2 DEF Init, OrderInv, Live

LEMMA OrderStep == OrderInv /\ [Next]_vars => OrderInv'
<1> SUFFICES ASSUME OrderInv, [Next]_vars PROVE OrderInv'
  OBVIOUS
<1>0. /\ driver' = driver /\ driver \in DOMAIN Drivers
      /\ D' = D /\ NumArms' = NumArms /\ NumJobs' = NumJobs /\ Row' = Row
      /\ \A p : PointOf(p)' = PointOf(p) /\ Job(p)' = Job(p)
      /\ NumArms \in Nat \ {0} /\ NumJobs \in Nat /\ D.points \in Nat /\ NumJobs = D.points * NumArms
      /\ pos \in Nat /\ pos \in 1 .. NumJobs + 1 /\ point \in Nat /\ point \in 1 .. D.points + 1
      /\ Len(rows) \in Nat /\ DOMAIN rows = 1 .. Len(rows) /\ Len(rows) <= NumJobs
  <2>1. driver' = driver
    BY DEF Next, vars, Begin, Skip, Stub, Setup, SetupFails, Measure, OutOfMemory, EndPoint, Truncate,
           Fill, FillRaises, Crash, Restart
  <2>2. /\ driver \in DOMAIN Drivers /\ pos \in 1 .. NumJobs + 1 /\ point \in 1 .. D.points + 1
        /\ rows \in Seq(Row) /\ Len(rows) <= NumJobs
    BY DEF OrderInv, InOrder
  <2> QED
    BY <2>1, <2>2, DriverStays, DriverFacts
<1>1. ASSUME UNCHANGED <<rows, file>>
      PROVE  /\ InOrder(rows)' /\ InOrder(file)'
             /\ (~D.resume => \A i \in DOMAIN rows : ~rows[i].read)'
  BY <1>0, <1>1 DEF OrderInv, InOrder
<1>2. ASSUME UNCHANGED <<pos, point, rows>>, Live
      PROVE  (/\ (point - 1) * NumArms < pos /\ pos <= point * NumArms + 1
              /\ pos <= Len(rows) + 1
              /\ (\E i \in DOMAIN rows : ~rows[i].read) => pos = Len(rows) + 1)'
  BY <1>0, <1>2 DEF OrderInv
<1>3. CASE Begin
  <2>1. pos' = 1 /\ point' = 1 /\ rows' = Loaded /\ pc' = "next" /\ UNCHANGED file
    BY <1>3 DEF Begin
  <2>2. InOrder(rows)' /\ InOrder(file)'
    BY <1>0, <2>1, LoadedInOrder DEF OrderInv, InOrder
  <2>3. ~D.resume => rows' = <<>>
    BY <2>1, LoadedInOrder
  <2>4. Len(rows') \in Nat /\ DOMAIN rows' = 1 .. Len(rows')
    BY <2>2 DEF InOrder
  <2>5. (\E i \in DOMAIN rows' : ~rows'[i].read) => pos' = Len(rows') + 1
    <3>1. CASE D.resume
      <4>1. \A i \in DOMAIN rows' : rows'[i].read
        BY <2>1, <2>4, <3>1, LoadedInOrder
      <4> QED
        BY <4>1
    <3>2. CASE ~D.resume
      BY <2>1, <2>3, <3>2
    <3> QED
      BY <3>1, <3>2
  <2>6. (1 - 1) * NumArms < 1 /\ 1 <= 1 * NumArms + 1
    BY <1>0
  <2>7. pos' \in 1 .. NumJobs + 1 /\ point' \in 1 .. D.points + 1
    BY <1>0, <2>1
  <2>8. ~D.resume => \A i \in DOMAIN rows' : ~rows'[i].read
    BY <2>3
  <2> QED
    BY <1>0, <2>1, <2>2, <2>4, <2>5, <2>6, <2>7, <2>8 DEF OrderInv, Live
<1>4. CASE Skip
  <2>1. /\ pc = "next" /\ pc' = "next" /\ pos' = pos + 1 /\ pos <= NumJobs /\ PointOf(pos) = point
        /\ UNCHANGED <<rows, file, point>>
    BY <1>4 DEF Skip, AtArm
  <2>2. PICK i \in DOMAIN rows : JobOf(rows[i]) = Job(pos) /\ rows[i].read
    BY <1>4 DEF Skip, Done
  <2>3. i \in 1 .. NumJobs /\ Job(i) = Job(pos) /\ pos \in 1 .. NumJobs
    BY <1>0, <2>1, <2>2 DEF OrderInv, InOrder
  <2>4. i = pos
    BY <1>0, <2>3, JobsDiffer
  <2>5. pos <= Len(rows)
    BY <1>0, <2>2, <2>4
  <2>6. pos <= point * NumArms
    BY <1>0, <2>1, <2>3, Positions
  <2>7. (point - 1) * NumArms < pos /\ ((\E k \in DOMAIN rows : ~rows[k].read) => pos = Len(rows) + 1)
    BY <2>1 DEF OrderInv, Live
  <2>8. ~ \E k \in DOMAIN rows : ~rows[k].read
    BY <1>0, <2>5, <2>7
  <2>9. /\ pos' \in 1 .. NumJobs + 1 /\ pos' <= Len(rows) + 1
        /\ (point - 1) * NumArms < pos' /\ pos' <= point * NumArms + 1
    <3>1. (point - 1) * NumArms \in Int /\ point * NumArms \in Int
      BY <1>0
    <3> QED
      BY <1>0, <2>1, <2>5, <2>6, <2>7, <3>1
  <2> QED
    BY <1>0, <1>1, <2>1, <2>8, <2>9 DEF OrderInv, Live
<1>5. CASE Records
  <2>1. /\ pc \in {"next", "measure"} /\ pos \in 1 .. NumJobs /\ PointOf(pos) = point
        /\ pos = Len(rows) + 1 /\ pc' \in {"next", "truncate"} /\ pos' = pos + 1
        /\ UNCHANGED <<file, point>>
    BY <1>5 DEF Records
  <2>2. PICK ok \in BOOLEAN : rows' = Recorded(ok)
    BY <1>5 DEF Records
  <2>3. InOrder(rows') /\ Grown(rows', ok)
    BY <2>1, <2>2, RecordedInOrder
  <2>4. InOrder(rows)' /\ InOrder(file)'
    BY <1>0, <2>1, <2>3 DEF OrderInv, InOrder
  <2>5. Len(rows') = Len(rows) + 1 /\ DOMAIN rows' = 1 .. Len(rows) + 1
    BY <2>3 DEF Grown, InOrder
  <2>6. ~D.resume => \A i \in DOMAIN rows' : ~rows'[i].read
    <3>1. \A i \in 1 .. Len(rows) + 1 : i \in 1 .. Len(rows) \/ i = Len(rows) + 1
      BY <1>0
    <3> QED
      BY <1>0, <2>3, <2>5, <3>1 DEF Grown, OrderInv
  <2>7. pos <= point * NumArms
    BY <1>0, <2>1, Positions
  <2>8. (point - 1) * NumArms < pos
    BY <2>1 DEF OrderInv, Live
  <2>9. /\ pos' \in 1 .. NumJobs + 1 /\ pos' = Len(rows') + 1
        /\ (point - 1) * NumArms < pos' /\ pos' <= point * NumArms + 1
    <3>1. (point - 1) * NumArms \in Int /\ point * NumArms \in Int
      BY <1>0
    <3>2. PICK a \in Int : a = (point - 1) * NumArms
      BY <3>1
    <3>3. PICK b \in Int : b = point * NumArms
      BY <3>1
    <3>4. /\ pos \in 1 .. NumJobs /\ pos = Len(rows) + 1 /\ pos' = pos + 1
          /\ Len(rows') = Len(rows) + 1 /\ Len(rows) \in Nat /\ NumJobs \in Nat
          /\ pos <= b /\ a < pos
      BY <1>0, <2>1, <2>5, <2>7, <2>8, <3>2, <3>3
    <3>5. pos' \in 1 .. NumJobs + 1 /\ pos' = Len(rows') + 1 /\ a < pos' /\ pos' <= b + 1
      BY <3>4
    <3> QED
      BY <3>2, <3>3, <3>5
  <2>10. pos' <= Len(rows') + 1
    BY <1>0, <2>1, <2>5, <2>9
  <2> QED
    BY <1>0, <2>1, <2>4, <2>6, <2>9, <2>10 DEF OrderInv, Live
<1>6. CASE Dies
  BY <1>0, <1>1, <1>6 DEF Dies, OrderInv, Live
<1>7. CASE Turns
  <2>1. /\ Live /\ pc' \in {"next", "measure"} /\ UNCHANGED <<pos, point, rows, file>>
        /\ pc' = "measure" => pos <= NumJobs /\ PointOf(pos) = point /\ pos = Len(rows) + 1
    BY <1>0, <1>7 DEF Turns, Live
  <2> QED
    BY <1>0, <1>1, <1>2, <2>1 DEF OrderInv, Live
<1>8. CASE EndPoint
  <2>1. /\ pc = "next" /\ pos > point * NumArms /\ rows' = WithDeltas /\ point' = point + 1
        /\ UNCHANGED <<pos, file>>
        /\ pc' \in {"truncate", "done", "next"} /\ (pc' = "done" => point = D.points)
    BY <1>8 DEF EndPoint
  <2>2. InOrder(rows)' /\ InOrder(file)'
    BY <1>0, <2>1, DeltasInOrder DEF OrderInv, InOrder
  <2>3. point <= D.points
    <3> SUFFICES ASSUME point = D.points + 1 PROVE FALSE
      BY <1>0
    <3>1. point * NumArms = NumJobs + NumArms /\ NumJobs \in Nat
      <4>1. PICK n \in Nat : n = NumArms
        BY <1>0
      <4>2. PICK p \in Nat : p = D.points
        BY <1>0
      <4>3. (p + 1) * n = p * n + n
        OBVIOUS
      <4> QED
        BY <1>0, <4>1, <4>2, <4>3
    <3>2. pos > NumJobs + NumArms /\ NumArms \in Nat \ {0}
      BY <1>0, <2>1, <3>1
    <3>3. pos \in 1 .. NumJobs + 1
      BY <1>0
    <3> QED
      BY <3>1, <3>2, <3>3
  <2>4. /\ Len(rows') = Len(rows) /\ DOMAIN rows' = DOMAIN rows
        /\ \A i \in DOMAIN rows : rows'[i].read = rows[i].read
    BY <2>1, DeltasInOrder
  <2>5. /\ pos <= Len(rows) + 1 /\ pos <= point * NumArms + 1
        /\ (\E i \in DOMAIN rows : ~rows[i].read) => pos = Len(rows) + 1
    BY <2>1 DEF OrderInv, Live
  <2>6. /\ (point' - 1) * NumArms < pos /\ pos <= point' * NumArms + 1
    <3>1. point' - 1 = point /\ point' * NumArms = point * NumArms + NumArms /\ point * NumArms \in Int
      BY <1>0, <2>1
    <3> QED
      BY <1>0, <2>1, <2>5, <3>1
  <2>7. point' \in 1 .. D.points + 1 /\ (pc' = "done" => point' = D.points + 1)
    BY <1>0, <2>1, <2>3
  <2>8. ~D.resume => \A i \in DOMAIN rows' : ~rows'[i].read
    BY <2>4 DEF OrderInv
  <2> QED
    BY <1>0, <2>1, <2>2, <2>4, <2>5, <2>6, <2>7, <2>8 DEF OrderInv, Live
<1>9. CASE Truncate
  <2>1. pc = "truncate" /\ pc' = "fill" /\ file' = <<>> /\ UNCHANGED <<pos, point, rows>>
    BY <1>9 DEF Truncate
  <2>2. InOrder(rows)' /\ InOrder(file)'
    BY <1>0, <2>1 DEF OrderInv, InOrder
  <2>3. Live /\ (~D.resume => \A i \in DOMAIN rows' : ~rows'[i].read)
    BY <2>1 DEF OrderInv, Live
  <2> QED
    BY <1>0, <1>2, <2>1, <2>2, <2>3 DEF OrderInv, Live
<1>10. CASE Fill
  <2>1. /\ pc = "fill" /\ pc' = (IF point > D.points THEN "done" ELSE "next") /\ file' = rows
        /\ UNCHANGED <<pos, point, rows>>
    BY <1>10 DEF Fill
  <2>2. InOrder(rows)' /\ InOrder(file)'
    BY <1>0, <2>1 DEF OrderInv, InOrder
  <2>3. Live /\ (~D.resume => \A i \in DOMAIN rows' : ~rows'[i].read)
    BY <2>1 DEF OrderInv, Live
  <2>4. pc' \in {"next", "done"} /\ (pc' = "done" => point = D.points + 1)
    BY <1>0, <2>1
  <2> QED
    BY <1>0, <1>2, <2>1, <2>2, <2>3, <2>4 DEF OrderInv, Live
<1>11. CASE FillRaises
  <2>1. /\ Misfits # {} /\ file' = SubSeq(rows, 1, Min(Misfits) - 1) /\ pc' = "dead"
        /\ UNCHANGED <<pos, point, rows>>
    BY <1>11 DEF FillRaises
  <2>2. InOrder(rows) /\ InOrder(SubSeq(rows, 1, Min(Misfits) - 1))
    BY <1>0, <2>1, FirstMisfit DEF OrderInv
  <2>3. InOrder(rows)' /\ InOrder(file)'
    BY <1>0, <2>1, <2>2 DEF InOrder
  <2>4. ~D.resume => \A i \in DOMAIN rows' : ~rows'[i].read
    BY <2>1 DEF OrderInv
  <2> QED
    BY <1>0, <2>1, <2>3, <2>4 DEF OrderInv, Live
<1>12. CASE Restart
  <2>1. pc' = "start" /\ rows' = <<>> /\ UNCHANGED <<pos, point, file>>
    BY <1>12 DEF Restart
  <2>2. InOrder(rows)' /\ InOrder(file)'
    BY <1>0, <2>1 DEF OrderInv, InOrder
  <2> QED
    BY <1>0, <2>1, <2>2 DEF OrderInv, Live
<1>13. CASE UNCHANGED vars
  <2>1. UNCHANGED <<pc, pos, point, rows, file>>
    BY <1>13 DEF vars
  <2> QED
    BY <1>0, <1>1, <1>2, <2>1 DEF OrderInv, Live
<1> QED
  BY <1>3, <1>4, <1>5, <1>6, <1>7, <1>8, <1>9, <1>10, <1>11, <1>12, <1>13, ArmSteps DEF Next

-----------------------------------------------------------------------------
\* What the CSV holds.

LEMMA NoMisfits ==
  ASSUME OrderInv, D.resume
  PROVE  Misfits = {}
BY DriverFacts DEF OrderInv, Misfits

LEMMA LastPoint ==
  ASSUME OrderInv, pc' = "done", EndPoint
  PROVE  D.save \in {"each", "measured"} /\ D.refs = {}
<1>1. driver \in DOMAIN Drivers
  BY DEF OrderInv
<1>2. D.save \in {"each", "measured", "point", "end"} /\ (D.save = "measured" => D.refs = {})
  BY <1>1, DriverFacts
<1>3. /\ D.save # "point" /\ ~(D.save = "each" /\ D.refs # {})
      /\ ~(D.save = "end" /\ point = D.points) /\ point = D.points
  BY DEF EndPoint
<1> QED
  BY <1>2, <1>3

LEMMA SyncStep == OrderInv /\ SyncInv /\ [Next]_vars => SyncInv'
<1> SUFFICES ASSUME OrderInv, SyncInv, [Next]_vars PROVE SyncInv'
  OBVIOUS
<1>0. /\ driver' = driver /\ D' = D
      /\ rows \in Seq(Row) /\ file \in Seq(Row)
      /\ Len(rows) \in Nat /\ DOMAIN rows = 1 .. Len(rows)
      /\ Len(file) \in Nat /\ DOMAIN file = 1 .. Len(file)
  <2>1. driver' = driver
    BY DEF Next, vars, Begin, Skip, Stub, Setup, SetupFails, Measure, OutOfMemory, EndPoint, Truncate,
           Fill, FillRaises, Crash, Restart
  <2> QED
    BY <2>1, DriverStays DEF OrderInv, InOrder
<1>1. ASSUME pc' \notin {"next", "measure", "done"} PROVE SyncInv'
  BY <1>1 DEF SyncInv
<1>2. ASSUME pc \in {"next", "measure"}, pc' \in {"next", "measure"}, UNCHANGED <<rows, file>>
      PROVE  SyncInv'
  BY <1>0, <1>2 DEF SyncInv, Same, Unsaved, UnsavedFailed
<1>3. CASE Begin
  <2>1. rows' = Loaded /\ pc' = "next" /\ UNCHANGED file
    BY <1>3 DEF Begin
  <2>2. ~D.resume => rows' = <<>>
    BY <2>1, LoadedInOrder
  <2>3. D.resume => Len(rows') = Len(file) /\ \A i \in 1 .. Len(file) : rows'[i].ok = file[i].ok
    BY <2>1, LoadedInOrder
  <2>4. D.resume => Same(file, rows)' /\ UnsavedFailed'
    BY <1>0, <2>1, <2>3 DEF Same, Unsaved, UnsavedFailed
  <2> QED
    BY <1>0, <2>1, <2>2, <2>4 DEF SyncInv
<1>4. CASE Records
  <2>1. /\ pc \in {"next", "measure"} /\ pos \in 1 .. NumJobs /\ PointOf(pos) = point
        /\ pos = Len(rows) + 1 /\ pc' \in {"next", "truncate"}
        /\ D.save = "each" => pc' = "truncate"
        /\ UNCHANGED file
    BY <1>4 DEF Records
  <2>2. PICK ok \in BOOLEAN :
          rows' = Recorded(ok) /\ (D.save = "measured" /\ pc' = "next" => ~ok)
    BY <1>4 DEF Records
  <2>3. Grown(rows', ok) /\ DOMAIN rows' = 1 .. Len(rows) + 1
    BY <2>1, <2>2, RecordedInOrder DEF Grown, InOrder
  <2>4. \A i \in 1 .. Len(rows) + 1 : i \in 1 .. Len(rows) \/ i = Len(rows) + 1
    BY <1>0
  <2>5. ASSUME D.save = "measured", pc' = "next"
        PROVE  (\A i \in DOMAIN rows' : ~rows'[i].ok) \/ UnsavedFailed'
    <3>1. ~rows'[Len(rows) + 1].ok /\ \A i \in 1 .. Len(rows) : rows'[i].ok = rows[i].ok
      BY <2>2, <2>3, <2>5 DEF Grown
    <3>2. CASE \A i \in DOMAIN rows : ~rows[i].ok
      BY <1>0, <2>3, <2>4, <3>1, <3>2
    <3>3. CASE UnsavedFailed
      <4>1. Len(rows') = Len(rows) + 1
        BY <2>3 DEF Grown
      <4>2. Len(file) <= Len(rows') /\ \A i \in 1 .. Len(file) : file[i].ok = rows'[i].ok
        BY <1>0, <3>1, <3>3, <4>1 DEF UnsavedFailed, Unsaved
      <4>3. ASSUME NEW i \in Len(file) + 1 .. Len(rows) + 1 PROVE ~rows'[i].ok
        <5>1. CASE i = Len(rows) + 1
          BY <3>1, <5>1
        <5>2. CASE i # Len(rows) + 1
          <6>1. i \in Len(file) + 1 .. Len(rows) /\ i \in 1 .. Len(rows)
            BY <1>0, <4>3, <5>2
          <6> QED
            BY <3>1, <3>3, <6>1 DEF UnsavedFailed
        <5> QED
          BY <5>1, <5>2
      <4> QED
        BY <2>1, <4>1, <4>2, <4>3 DEF UnsavedFailed, Unsaved
    <3> QED
      BY <2>1, <2>5, <3>2, <3>3 DEF SyncInv
  <2> QED
    BY <1>0, <2>1, <2>5 DEF SyncInv
<1>5. CASE Dies
  BY <1>1, <1>5 DEF Dies
<1>6. CASE Turns
  BY <1>2, <1>6 DEF Turns
<1>7. CASE EndPoint
  <2>1. /\ pc = "next" /\ rows' = WithDeltas /\ UNCHANGED file
        /\ pc' \in {"truncate", "done", "next"}
    BY <1>7 DEF EndPoint
  <2>2. /\ Len(rows') = Len(rows) /\ DOMAIN rows' = 1 .. Len(rows)
        /\ \A i \in 1 .. Len(rows) : rows'[i].ok = rows[i].ok
    BY <1>0, <2>1, DeltasInOrder
  <2>3. rows = <<>> => rows' = <<>>
    BY <1>0, <2>2, DeltasInOrder, <2>1 DEF InOrder
  <2>4. Same(file, rows) => Same(file, rows)'
    BY <1>0, <2>1, <2>2 DEF Same
  <2>5. UnsavedFailed => UnsavedFailed'
    <3> SUFFICES ASSUME UnsavedFailed PROVE UnsavedFailed'
      OBVIOUS
    <3>1. \A i \in Len(file) + 1 .. Len(rows) : i \in 1 .. Len(rows)
      BY <1>0
    <3>2. \A i \in 1 .. Len(file) : i \in 1 .. Len(rows)
      BY <1>0 DEF UnsavedFailed, Unsaved
    <3> QED
      BY <2>1, <2>2, <3>1, <3>2 DEF UnsavedFailed, Unsaved
  <2>6. pc' = "done" => D.save \in {"each", "measured"}
    BY <1>7, LastPoint
  <2> QED
    BY <1>0, <2>1, <2>2, <2>3, <2>4, <2>5, <2>6 DEF SyncInv
<1>8. CASE Fill
  <2>1. file' = rows /\ UNCHANGED rows
    BY <1>8 DEF Fill
  <2>2. Same(file, rows)' /\ UnsavedFailed'
    <3>1. \A i : i \notin Len(rows) + 1 .. Len(rows)
      BY <1>0
    <3> QED
      BY <1>0, <2>1, <3>1 DEF Same, Unsaved, UnsavedFailed
  <2> QED
    BY <2>2 DEF SyncInv
<1>9. CASE Skip
  BY <1>2, <1>9 DEF Skip, AtArm
<1>10. CASE Truncate \/ FillRaises \/ Restart
  BY <1>1, <1>10 DEF Truncate, FillRaises, Restart
<1>11. CASE UNCHANGED vars
  BY <1>0, <1>11 DEF vars, SyncInv, Same, Unsaved, UnsavedFailed
<1> QED
  BY <1>3, <1>4, <1>5, <1>6, <1>7, <1>8, <1>9, <1>10, <1>11, ArmSteps DEF Next

LEMMA CountStep == OrderInv /\ SyncInv /\ CountInv /\ [Next]_vars => CountInv'
<1> SUFFICES ASSUME OrderInv, SyncInv, CountInv, [Next]_vars PROVE CountInv'
  OBVIOUS
<1>0. /\ driver' = driver /\ D' = D
      /\ Len(rows) \in Nat /\ Len(file) \in Nat
      /\ measured \in Nat /\ crashes \in Nat /\ errors \in Nat
  <2>1. driver' = driver
    BY DEF Next, vars, Begin, Skip, Stub, Setup, SetupFails, Measure, OutOfMemory, EndPoint, Truncate,
           Fill, FillRaises, Crash, Restart
  <2> QED
    BY <2>1, DriverStays DEF OrderInv, InOrder, CountInv
\* The driver is one that resumes and saves each arm, and was not torn.
<1> DEFINE each == D.resume /\ D.save = "each" /\ ~torn
<1>1. each /\ pc \in {"next", "measure", "done"} => Len(file) = Len(rows)
  BY DEF SyncInv, Same
<1>2. ASSUME UNCHANGED <<measured, crashes, errors, torn>>, Len(rows') = Len(rows), UNCHANGED file,
             Live' <=> Live, pc' = "truncate" => pc \in {"next", "measure", "truncate"}
      PROVE  CountInv'
  BY <1>0, <1>1, <1>2 DEF CountInv
<1>3. CASE Begin
  <2>1. /\ pc = "start" /\ pc' = "next" /\ rows' = Loaded
        /\ UNCHANGED <<file, measured, torn, errors, crashes>>
    BY <1>3 DEF Begin
  <2>2. D.resume => Len(rows') = Len(file)
    BY <2>1, LoadedInOrder
  <2> QED
    BY <1>0, <2>1, <2>2 DEF CountInv, Live
<1>4. CASE Records
  <2>1. /\ pc \in {"next", "measure"} /\ pos \in 1 .. NumJobs /\ PointOf(pos) = point
        /\ pos = Len(rows) + 1 /\ pc' \in {"next", "truncate"}
        /\ UNCHANGED <<file, torn, crashes>>
        /\ measured' \in {measured, measured + 1} /\ errors' \in {errors, errors + 1}
    BY <1>4 DEF Records
  <2>2. PICK ok \in BOOLEAN : rows' = Recorded(ok)
    BY <1>4 DEF Records
  <2>3. Len(rows') = Len(rows) + 1
    BY <2>1, <2>2, RecordedInOrder DEF Grown
  <2>4. Live /\ Live'
    BY <2>1 DEF Live
  <2>5. measured' \in Nat /\ errors' \in Nat
    BY <1>0, <2>1
  <2>6. each => measured' <= Len(rows') + crashes' + errors' /\ Len(rows') <= Len(file') + 1
    <3> SUFFICES ASSUME each PROVE measured' <= Len(rows') + crashes' + errors' /\ Len(rows') <= Len(file') + 1
      OBVIOUS
    <3>1. measured <= Len(rows) + crashes + errors
      BY <2>4 DEF CountInv
    <3> QED
      BY <1>0, <1>1, <2>1, <2>3, <3>1
  <2> QED
    BY <1>0, <2>1, <2>4, <2>5, <2>6 DEF CountInv
<1>5. CASE Dies
  <2>1. /\ Live /\ ~Live' /\ pc' = "dead" /\ UNCHANGED <<rows, file>>
    BY <1>5 DEF Dies, Live
  <2>2. CASE /\ pc \in {"next", "measure"} /\ UNCHANGED <<torn, crashes>>
             /\ errors' = errors + 1 /\ measured' \in {measured, measured + 1}
    <3>1. each => measured <= Len(file) + crashes + errors
      BY <1>1, <2>1, <2>2 DEF CountInv
    <3> QED
      BY <1>0, <2>1, <2>2, <3>1 DEF CountInv
  <2>3. CASE /\ crashes' = crashes + 1 /\ UNCHANGED <<errors, measured>>
             /\ torn' = (torn \/ pc = "fill")
    <3>1. ~torn' => ~torn /\ pc # "fill"
      BY <2>3
    <3>2. pc \in {"next", "measure", "done", "truncate", "fill"}
      BY <2>1 DEF OrderInv, Live
    <3>3. each /\ pc # "fill" => Len(rows) <= Len(file) + 1
      BY <1>0, <1>1, <3>2 DEF CountInv
    <3>4. each => measured <= Len(rows) + crashes + errors
      BY <2>1 DEF CountInv
    <3>5. ~torn' /\ D.resume /\ D.save = "each" => measured' <= Len(file') + crashes' + errors'
      <4> SUFFICES ASSUME ~torn', D.resume, D.save = "each" PROVE measured' <= Len(file') + crashes' + errors'
        OBVIOUS
      <4>1. Len(rows) <= Len(file) + 1 /\ measured <= Len(rows) + crashes + errors
        BY <3>1, <3>3, <3>4
      <4> QED
        BY <1>0, <2>1, <2>3, <4>1
    <3>6. measured' \in Nat /\ crashes' \in Nat /\ errors' \in Nat
      BY <1>0, <2>3
    <3> QED
      BY <1>0, <2>1, <3>5, <3>6 DEF CountInv
  <2> QED
    BY <1>5, <2>2, <2>3 DEF Dies
<1>6. CASE Turns
  <2>1. /\ Live /\ Live' /\ pc' # "truncate" /\ UNCHANGED <<rows, file, torn, crashes, measured>>
        /\ errors' \in {errors, errors + 1}
    BY <1>6 DEF Turns, Live
  <2> QED
    BY <1>0, <2>1 DEF CountInv
<1>7. CASE EndPoint
  <2>1. /\ pc = "next" /\ rows' = WithDeltas /\ UNCHANGED <<file, measured, torn, errors, crashes>>
        /\ pc' \in {"truncate", "done", "next"}
    BY <1>7 DEF EndPoint
  <2>2. Len(rows') = Len(rows)
    BY <2>1, DeltasInOrder
  <2> QED
    BY <1>2, <2>1, <2>2 DEF Live
<1>8. CASE Truncate \/ Fill
  <2>1. /\ Live /\ Live' /\ pc' # "truncate" /\ UNCHANGED <<rows, measured, torn, errors, crashes>>
    BY <1>8 DEF Truncate, Fill, Live
  <2> QED
    BY <1>0, <2>1 DEF CountInv
<1>9. CASE FillRaises
  <2>1. ~D.resume /\ UNCHANGED <<measured, torn, errors, crashes>>
    BY <1>9, NoMisfits DEF FillRaises
  <2> QED
    BY <1>0, <2>1 DEF CountInv
<1>10. CASE Restart
  <2>1. ~Live /\ ~Live' /\ pc' = "start" /\ UNCHANGED <<file, measured, torn, errors, crashes>>
    BY <1>10 DEF Restart, Live
  <2> QED
    BY <1>0, <2>1 DEF CountInv
<1>11. CASE Skip \/ UNCHANGED vars
  <2>1. UNCHANGED <<pc, rows, file, measured, torn, errors, crashes>>
    BY <1>11 DEF Skip, AtArm, vars
  <2> QED
    BY <1>0, <2>1 DEF CountInv, Live
<1> QED
  BY <1>3, <1>4, <1>5, <1>6, <1>7, <1>8, <1>9, <1>10, <1>11, ArmSteps DEF Next

LEMMA SavedStep == OrderInv /\ SavedInv /\ [Next]_vars => SavedInv'
<1> SUFFICES ASSUME OrderInv, SavedInv, [Next]_vars, D.resume', ~torn'
             PROVE  (pc' # "fill" => Covers(file)') /\ (Live' => Covers(rows)')
  BY DEF SavedInv
<1>0. /\ D' = D /\ D.resume /\ ~torn
      /\ rows \in Seq(Row) /\ Len(rows) \in Nat /\ DOMAIN rows = 1 .. Len(rows)
      /\ file \in Seq(Row) /\ Len(file) \in Nat /\ DOMAIN file = 1 .. Len(file)
  <2>1. driver' = driver
    BY DEF Next, vars, Begin, Skip, Stub, Setup, SetupFails, Measure, OutOfMemory, EndPoint, Truncate,
           Fill, FillRaises, Crash, Restart
  <2>2. UNCHANGED torn \/ torn' = (torn \/ pc = "fill")
    BY DEF Next, vars, Begin, Skip, Stub, Setup, SetupFails, Measure, OutOfMemory, EndPoint, Truncate,
           Fill, FillRaises, Crash, Restart
  <2>3. ~torn
    BY <2>2
  <2> QED
    BY <2>1, <2>3, DriverStays DEF OrderInv, InOrder
<1>1. (pc # "fill" => Covers(file)) /\ (Live => Covers(rows))
  BY <1>0 DEF SavedInv
<1>2. ASSUME UNCHANGED written,
             \A i \in DOMAIN rows : i \in DOMAIN rows' /\ JobOf(rows'[i]) = JobOf(rows[i]) /\ rows'[i].ok = rows[i].ok,
             Covers(rows)
      PROVE  Covers(rows)'
  BY <1>2 DEF Covers
<1>3. CASE Begin
  <2>1. pc = "start" /\ rows' = Loaded /\ UNCHANGED <<file, written>>
    BY <1>3 DEF Begin
  <2>2. /\ DOMAIN rows' = 1 .. Len(file)
        /\ \A i \in 1 .. Len(file) : JobOf(rows'[i]) = JobOf(file[i]) /\ rows'[i].ok = file[i].ok
    BY <1>0, <2>1, LoadedInOrder DEF InOrder
  <2>3. Covers(file)
    BY <1>1, <2>1
  <2> QED
    BY <1>0, <2>1, <2>2, <2>3 DEF Covers
<1>4. CASE Records
  <2>1. /\ pc \in {"next", "measure"} /\ pos \in 1 .. NumJobs /\ PointOf(pos) = point
        /\ pos = Len(rows) + 1 /\ UNCHANGED <<file, written>>
    BY <1>4 DEF Records
  <2>2. PICK ok \in BOOLEAN : rows' = Recorded(ok)
    BY <1>4 DEF Records
  <2>3. Grown(rows', ok) /\ DOMAIN rows' = 1 .. Len(rows) + 1
    BY <2>1, <2>2, RecordedInOrder DEF Grown, InOrder
  <2>4. \A i \in DOMAIN rows : i \in DOMAIN rows' /\ rows'[i] = rows[i]
    BY <1>0, <2>3 DEF Grown
  <2>5. Covers(file) /\ Covers(rows)
    BY <1>1, <2>1 DEF Live
  <2> QED
    BY <1>2, <2>1, <2>4, <2>5 DEF Covers
<1>5. CASE Dies
  <2>1. /\ ~Live' /\ UNCHANGED <<file, written>> /\ pc # "fill"
    BY <1>0, <1>5 DEF Dies, Live
  <2> QED
    BY <1>1, <2>1 DEF Covers
<1>6. CASE Turns
  <2>1. Live /\ pc # "fill" /\ UNCHANGED <<rows, file, written>>
    BY <1>6 DEF Turns, Live
  <2> QED
    BY <1>1, <2>1 DEF Covers
<1>7. CASE EndPoint
  <2>1. pc = "next" /\ rows' = WithDeltas /\ UNCHANGED <<file, written>>
    BY <1>7 DEF EndPoint
  <2>2. \A i \in DOMAIN rows :
          i \in DOMAIN rows' /\ JobOf(rows'[i]) = JobOf(rows[i]) /\ rows'[i].ok = rows[i].ok
    BY <2>1, DeltasInOrder
  <2>3. Covers(file) /\ Covers(rows)
    BY <1>1, <2>1 DEF Live
  <2> QED
    BY <1>2, <2>1, <2>2, <2>3 DEF Covers
<1>8. CASE Truncate
  <2>1. Live /\ pc' = "fill" /\ UNCHANGED <<rows, written>>
    BY <1>8 DEF Truncate, Live
  <2> QED
    BY <1>1, <2>1 DEF Covers
<1>9. CASE Fill
  <2>1. /\ Live /\ file' = rows /\ UNCHANGED rows
        /\ written' = written \cup {JobOf(rows[i]) : i \in {j \in DOMAIN rows : rows[j].ok}}
    BY <1>9 DEF Fill, Live
  <2>2. \A j \in written' : \E i \in DOMAIN rows : JobOf(rows[i]) = j /\ rows[i].ok
    BY <1>1, <2>1 DEF Covers
  <2> QED
    BY <2>1, <2>2 DEF Covers
<1>10. CASE FillRaises
  BY <1>0, <1>10, NoMisfits DEF FillRaises
<1>11. CASE Restart
  <2>1. pc = "dead" /\ ~Live' /\ UNCHANGED <<file, written>>
    BY <1>11 DEF Restart, Live
  <2> QED
    BY <1>1, <2>1 DEF Covers
<1>12. CASE Skip \/ UNCHANGED vars
  <2>1. UNCHANGED <<pc, rows, file, written>>
    BY <1>12 DEF Skip, AtArm, vars
  <2> QED
    BY <1>1, <2>1 DEF Covers, Live
<1> QED
  BY <1>3, <1>4, <1>5, <1>6, <1>7, <1>8, <1>9, <1>10, <1>11, <1>12, ArmSteps DEF Next

\* A table names points of the driver.
LEMMA RowPoints ==
  ASSUME driver \in DOMAIN Drivers, NEW table, InOrder(table)
  PROVE  \A i \in DOMAIN table : table[i].point \in 1 .. D.points
<1>1. /\ DOMAIN table = 1 .. Len(table) /\ Len(table) \in Nat /\ Len(table) <= NumJobs /\ NumJobs \in Nat
  BY DriverFacts DEF InOrder
<1>2. ASSUME NEW i \in 1 .. Len(table) PROVE table[i].point \in 1 .. D.points
  <2>1. i \in 1 .. NumJobs
    BY <1>1
  <2>2. table[i].point = PointOf(i)
    BY DEF InOrder, JobOf, Job
  <2> QED
    BY <2>1, <2>2, Positions
<1> QED
  BY <1>1, <1>2

LEMMA DeltaStep == OrderInv /\ DeltaInv /\ [Next]_vars => DeltaInv'
<1> SUFFICES ASSUME OrderInv, DeltaInv, [Next]_vars PROVE DeltaInv'
  OBVIOUS
<1>0. /\ driver \in DOMAIN Drivers /\ D' = D /\ D.points \in Nat /\ point \in Nat
      /\ rows \in Seq(Row) /\ Len(rows) \in Nat /\ DOMAIN rows = 1 .. Len(rows)
      /\ \A i \in DOMAIN rows : rows[i].point \in Nat
  <2>1. driver' = driver
    BY DEF Next, vars, Begin, Skip, Stub, Setup, SetupFails, Measure, OutOfMemory, EndPoint, Truncate,
           Fill, FillRaises, Crash, Restart
  <2>2. driver \in DOMAIN Drivers /\ D.points \in Nat /\ point \in Nat
    BY DriverFacts DEF OrderInv
  <2>3. \A i \in DOMAIN rows : rows[i].point \in Nat
    BY <2>2, RowPoints DEF OrderInv
  <2> QED
    BY <2>1, <2>2, <2>3, DriverStays DEF OrderInv, InOrder
<1>1. ASSUME ~Live', pc' # "done" PROVE DeltaInv'
  BY <1>1 DEF DeltaInv
<1>2. ASSUME UNCHANGED <<rows, point>>, Live, pc' = "done" => file' = rows PROVE DeltaInv'
  BY <1>0, <1>2 DEF DeltaInv
<1>3. CASE Begin
  <2>1. rows' = Loaded /\ point' = 1 /\ pc' = "next"
    BY <1>3 DEF Begin
  <2>2. \A i \in DOMAIN rows' : rows'[i].point \in 1 .. D.points
    BY <1>0, <2>1, LoadedInOrder, RowPoints
  <2>3. \A i \in DOMAIN rows' : ~(rows'[i].point < point')
    BY <1>0, <2>1, <2>2
  <2> QED
    BY <2>1, <2>3 DEF DeltaInv
<1>4. CASE Records
  <2>1. /\ pc \in {"next", "measure"} /\ pos \in 1 .. NumJobs /\ PointOf(pos) = point
        /\ pos = Len(rows) + 1 /\ pc' \in {"next", "truncate"} /\ UNCHANGED point
    BY <1>4 DEF Records
  <2>2. PICK ok \in BOOLEAN : rows' = Recorded(ok)
    BY <1>4 DEF Records
  <2>3. Grown(rows', ok) /\ DOMAIN rows' = 1 .. Len(rows) + 1
    BY <2>1, <2>2, RecordedInOrder DEF Grown, InOrder
  <2>4. \A i \in DOMAIN rows' : rows'[i].point < point => i \in DOMAIN rows /\ rows'[i] = rows[i]
    <3>1. \A i \in 1 .. Len(rows) + 1 : i \in 1 .. Len(rows) \/ i = Len(rows) + 1
      BY <1>0
    <3>2. ~(rows'[Len(rows) + 1].point < point)
      BY <1>0, <2>3 DEF Grown
    <3> QED
      BY <1>0, <2>3, <3>1, <3>2 DEF Grown
  <2>5. Live
    BY <2>1 DEF Live
  <2> QED
    BY <1>0, <2>1, <2>4, <2>5 DEF DeltaInv
<1>5. CASE Dies
  BY <1>1, <1>5 DEF Dies, Live
<1>6. CASE Turns
  BY <1>2, <1>6 DEF Turns, Live
<1>7. CASE EndPoint
  <2>1. /\ pc = "next" /\ rows' = WithDeltas /\ point' = point + 1
    BY <1>7 DEF EndPoint
  <2>2. /\ DOMAIN rows' = DOMAIN rows
        /\ \A i \in DOMAIN rows :
             /\ rows'[i].ok = rows[i].ok /\ rows'[i].point = rows[i].point /\ rows'[i].key = rows[i].key
             /\ rows'[i].delta <=>
                  rows[i].delta \/ (IsTarget(rows[i]) /\ \E j \in DOMAIN rows : IsReference(rows[j]))
    BY <2>1, DeltasInOrder
  <2>3. ASSUME D.keys = "text", NEW i \in DOMAIN rows, NEW j \in DOMAIN rows,
               rows[i].point < point + 1, rows[i].ok, rows[j].ok, rows[j].point = rows[i].point,
               rows[j].key \in D.refs
        PROVE  rows'[i].delta
    <3>1. CASE rows[i].point = point
      BY <2>2, <2>3, <3>1 DEF IsTarget, IsReference
    <3>2. CASE rows[i].point # point
      <4>1. rows[i].point < point /\ Live
        BY <1>0, <2>1, <2>3, <3>2 DEF Live
      <4>2. rows[i].delta
        BY <2>3, <4>1 DEF DeltaInv
      <4> QED
        BY <2>2, <4>2
    <3> QED
      BY <3>1, <3>2
  <2>4. pc' = "done" => D.refs = {}
    BY <1>7, LastPoint
  <2> QED
    BY <1>0, <2>1, <2>2, <2>3, <2>4 DEF DeltaInv
<1>8. CASE Truncate
  BY <1>2, <1>8 DEF Truncate, Live
<1>9. CASE Fill
  BY <1>2, <1>9 DEF Fill, Live
<1>10. CASE FillRaises \/ Restart
  BY <1>1, <1>10 DEF FillRaises, Restart, Live
<1>11. CASE Skip
  BY <1>2, <1>11 DEF Skip, AtArm, Live
<1>12. CASE UNCHANGED vars
  BY <1>0, <1>12 DEF vars, DeltaInv, Live
<1> QED
  BY <1>3, <1>4, <1>5, <1>6, <1>7, <1>8, <1>9, <1>10, <1>11, <1>12, ArmSteps DEF Next

-----------------------------------------------------------------------------

LEMMA ArmsInit == Init => SyncInv /\ CountInv /\ SavedInv /\ DeltaInv
BY DEF Init, SyncInv, CountInv, SavedInv, DeltaInv, Covers, Live

\* Whatever fails and however often the process is killed and started again, a
\* driver that ends has one row for every arm of every point, and its CSV holds
\* them all unless it saves after measured arms alone.
THEOREM ArmsComplete == Spec => []NoArmLost
<1>1. OrderInv /\ SyncInv => NoArmLost
  <2> SUFFICES ASSUME OrderInv, SyncInv, pc = "done"
               PROVE  /\ \A j \in Jobs : Cardinality({i \in DOMAIN rows : JobOf(rows[i]) = j}) = 1
                      /\ \/ Held(file) = Held(rows)
                         \/ /\ D.save = "measured"
                            /\ \/ \A i \in DOMAIN rows : ~rows[i].ok
                               \/ /\ IsPrefix(Held(file), Held(rows))
                                  /\ \A i \in Len(file) + 1 .. Len(rows) : ~rows[i].ok
    BY DEF NoArmLost
  <2>1. /\ driver \in DOMAIN Drivers /\ NumJobs \in Nat \ {0} /\ D.points \in Nat /\ NumArms \in Nat
        /\ NumJobs = D.points * NumArms
        /\ rows \in Seq(Row) /\ Len(rows) \in Nat /\ DOMAIN rows = 1 .. Len(rows) /\ Len(rows) <= NumJobs
        /\ file \in Seq(Row) /\ Len(file) \in Nat /\ DOMAIN file = 1 .. Len(file)
        /\ \A i \in 1 .. Len(rows) : JobOf(rows[i]) = Job(i)
        /\ \A i \in 1 .. Len(file) : JobOf(file[i]) = Job(i)
    BY DriverFacts DEF OrderInv, InOrder
  <2>2. Len(rows) = NumJobs
    <3>1. /\ point - 1 = D.points /\ (point - 1) * NumArms < pos /\ pos <= Len(rows) + 1 /\ pos \in Int
      <4>1. /\ point \in 1 .. D.points + 1 /\ pos \in 1 .. NumJobs + 1
            /\ pc = "done" => point = D.points + 1
        BY DEF OrderInv
      <4>2. (point - 1) * NumArms < pos /\ pos <= Len(rows) + 1
        BY DEF OrderInv, Live
      <4>3. point - 1 = D.points
        <5>1. point = D.points + 1 /\ D.points \in Nat
          BY <2>1, <4>1
        <5> QED
          BY ONLY <5>1
      <4> QED
        BY <2>1, <4>1, <4>2, <4>3
    <3>2. NumJobs < pos
      BY <2>1, <3>1
    <3> QED
      BY <2>1, <3>1, <3>2
  <2>3. ASSUME NEW j \in Jobs PROVE Cardinality({i \in DOMAIN rows : JobOf(rows[i]) = j}) = 1
    <3>1. PICK p \in 1 .. NumJobs : j = Job(p)
      BY DEF Jobs
    <3>2. {i \in DOMAIN rows : JobOf(rows[i]) = j} = {p}
      BY <2>1, <2>2, <3>1, JobsDiffer
    <3> QED
      BY <3>2, FS_Singleton
  <2>4. /\ DOMAIN Held(file) = 1 .. Len(file) /\ DOMAIN Held(rows) = 1 .. Len(rows)
        /\ \A i \in 1 .. Len(file) : Held(file)[i] = <<Job(i), file[i].ok>>
        /\ \A i \in 1 .. Len(rows) : Held(rows)[i] = <<Job(i), rows[i].ok>>
    BY <2>1 DEF Held
  <2>5. ASSUME Same(file, rows) PROVE Held(file) = Held(rows)
    <3>1. \A i \in 1 .. Len(rows) : Held(file)[i] = Held(rows)[i]
      BY <2>4, <2>5 DEF Same
    <3>2. DOMAIN Held(file) = DOMAIN Held(rows)
      BY <2>4, <2>5 DEF Same
    <3> QED
      BY <2>1, <3>1, <3>2 DEF Held
  <2>6. ASSUME Unsaved PROVE IsPrefix(Held(file), Held(rows))
    <3> DEFINE S == {<<Job(i), b>> : i \in 1 .. NumJobs, b \in BOOLEAN}
               s == Held(file)
               u == Held(rows)
    <3>0. \A row \in Row : row.ok \in BOOLEAN
      BY DEF Row
    <3>1. \A i \in 1 .. Len(file) : file[i].ok \in BOOLEAN
      <4>1. \A i \in 1 .. Len(file) : file[i] \in Row
        BY <2>1
      <4> QED
        BY <3>0, <4>1
    <3>2. \A i \in 1 .. Len(rows) : rows[i].ok \in BOOLEAN
      <4>1. \A i \in 1 .. Len(rows) : rows[i] \in Row
        BY <2>1
      <4> QED
        BY <3>0, <4>1
    <3>3. s \in [1 .. Len(file) -> S] /\ u \in [1 .. Len(rows) -> S]
      <4>1. s = [i \in 1 .. Len(file) |-> <<JobOf(file[i]), file[i].ok>>]
        BY <2>1 DEF Held
      <4>2. u = [i \in 1 .. Len(rows) |-> <<JobOf(rows[i]), rows[i].ok>>]
        BY <2>1 DEF Held
      <4>3. \A i \in 1 .. Len(file) : i \in 1 .. NumJobs
        BY <2>1, <2>2, <2>6 DEF Unsaved
      <4>4. \A i \in 1 .. Len(file) : <<JobOf(file[i]), file[i].ok>> \in S
        BY <2>1, <3>1, <4>3
      <4>5. \A i \in 1 .. Len(rows) : <<JobOf(rows[i]), rows[i].ok>> \in S
        BY <2>1, <2>2, <3>2
      <4>6. s \in [1 .. Len(file) -> S]
        BY <4>1, <4>4
      <4>7. u \in [1 .. Len(rows) -> S]
        BY <4>2, <4>5
      <4> QED
        BY <4>6, <4>7
    <3> HIDE DEF S, s, u
    <3>4. s \in Seq(S) /\ u \in Seq(S) /\ Len(s) = Len(file) /\ Len(u) = Len(rows)
      BY <2>1, <3>3, FunctionIsSeq
    <3>5. \A i \in 1 .. Len(s) : s[i] = u[i]
      <4>1. \A i \in 1 .. Len(file) : i \in 1 .. Len(rows) /\ file[i].ok = rows[i].ok
        <5>1. Len(file) \in Nat /\ Len(rows) \in Nat
          BY <2>1
        <5>2. Len(file) <= Len(rows)
          BY <2>6 DEF Unsaved
        <5>3. \A i \in 1 .. Len(file) : file[i].ok = rows[i].ok
          BY <2>6 DEF Unsaved
        <5>4. \A i \in 1 .. Len(file) : i \in 1 .. Len(rows)
          BY <5>1, <5>2
        <5> QED
          BY <5>3, <5>4
      <4>2. \A i \in 1 .. Len(file) : s[i] = u[i]
        BY <2>4, <4>1 DEF s, u
      <4> QED
        BY <3>4, <4>2
    <3>6. Len(s) <= Len(u) /\ Len(s) \in Nat /\ Len(u) \in Nat
      BY <2>1, <2>6, <3>4 DEF Unsaved
    <3>7. SubSeq(s, 1, Len(s)) = SubSeq(u, 1, Len(s))
      BY <3>4, <3>5, <3>6
    <3>8. IsPrefix(s, u)
      BY <3>6, <3>7 DEF IsPrefix
    <3> QED
      BY <3>8 DEF s, u
  <2>7. CASE D.save = "each"
    <3>1. rows # <<>>
      BY <2>1, <2>2
    <3> QED
      BY <2>3, <2>5, <2>7, <3>1 DEF SyncInv
  <2>8. CASE D.save = "measured"
    BY <2>3, <2>6, <2>8 DEF SyncInv, UnsavedFailed
  <2>9. CASE D.save \notin {"each", "measured"}
    BY <2>3, <2>5, <2>9 DEF SyncInv
  <2> QED
    BY <2>7, <2>8, <2>9
<1> QED
  BY <1>1, OrderInit, OrderStep, ArmsInit, SyncStep, PTL DEF Spec

\* A driver that resumes finds on disk every measurement that ever was there, as
\* long as no kill fell between opening the CSV and closing it.
THEOREM MeasurementsStay == Spec => []WrittenRowsStay
<1>1. SavedInv => WrittenRowsStay
  BY DEF SavedInv, WrittenRowsStay, Covers
<1> QED
  BY <1>1, OrderInit, OrderStep, ArmsInit, SavedStep, PTL DEF Spec

\* A driver that resumes and saves each arm measures none a second time but for
\* the one a kill or an error took.
THEOREM OneArmPerCrash == Spec => []CrashCostsOneArm
<1>1. OrderInv /\ CountInv => CrashCostsOneArm
  <2> SUFFICES ASSUME OrderInv, CountInv, D.resume, D.save = "each", ~torn
               PROVE  measured <= NumJobs + crashes + errors
    BY DEF CrashCostsOneArm
  <2>1. /\ Len(rows) \in Nat /\ Len(rows) <= NumJobs /\ Len(file) \in Nat /\ Len(file) <= NumJobs
        /\ NumJobs \in Nat /\ measured \in Nat /\ crashes \in Nat /\ errors \in Nat
    <3>1. NumJobs \in Nat
      BY DriverFacts DEF OrderInv
    <3>2. rows \in Seq(Row) /\ Len(rows) <= NumJobs /\ file \in Seq(Row) /\ Len(file) <= NumJobs
      BY DEF OrderInv, InOrder
    <3>3. Len(rows) \in Nat /\ Len(file) \in Nat
      BY ONLY <3>2
    <3> QED
      BY <3>1, <3>2, <3>3 DEF CountInv
  <2>2. measured <= Len(rows) + crashes + errors \/ measured <= Len(file) + crashes + errors
    BY DEF CountInv
  <2> QED
    BY <2>1, <2>2
<1> QED
  BY <1>1, OrderInit, OrderStep, ArmsInit, SyncStep, CountStep, PTL DEF Spec

\* A driver that ends has the deltas of every measured row whose reference was
\* measured, in this start or an earlier one.
THEOREM AllDeltas == Spec => []DeltasComplete
<1>1. OrderInv /\ DeltaInv => DeltasComplete
  <2> SUFFICES ASSUME OrderInv, DeltaInv, pc = "done", D.keys = "text",
                      NEW i \in DOMAIN file, NEW j \in DOMAIN file, file[i].ok, file[j].ok,
                      file[j].point = file[i].point, file[j].key \in D.refs
               PROVE  file[i].delta
    BY DEF DeltasComplete
  <2>1. file = rows /\ Live
    BY DEF DeltaInv, Live
  <2>2. rows[i].point < point
    <3>1. driver \in DOMAIN Drivers /\ D.points \in Nat /\ point = D.points + 1
      BY DriverFacts DEF OrderInv
    <3>2. rows[i].point \in 1 .. D.points
      BY <2>1, <3>1, RowPoints DEF OrderInv
    <3> QED
      BY <3>1, <3>2
  <2> QED
    BY <2>1, <2>2 DEF DeltaInv
<1> QED
  BY <1>1, OrderInit, OrderStep, ArmsInit, DeltaStep, PTL DEF Spec

-----------------------------------------------------------------------------
\* What the environment holds beside what an arm and its driver write.

Knobs == ConfigKnobs \union LiveKnobs

\* In environment e, before the arm at position n, a variable means what the driver
\* started with, or was popped, or was last written by an arm before and is not popped.
LeftBy(e, n, k) ==
  \/ Value(e, k) = Value(D.start, k)
  \/ k \in D.before \union D.after /\ Value(e, k) = Value(NoEnv, k)
  \/ /\ k \notin D.after
     /\ \E p \in 1 .. n - 1 :
          k \in DOMAIN Writes(ArmOf(p)) /\ Value(e, k) = Value(Writes(ArmOf(p)), k)

\* The arm at hand ran out of memory and is about to be set up again.
Unfinished(k) ==
  /\ pos <= NumJobs /\ ~Done(pos) /\ ArmOf(pos).adapter.how # "stub"
  /\ k \in DOMAIN Writes(ArmOf(pos))

SetUp(arm, k) ==
  IF k \in DOMAIN Writes(arm) THEN Value(env, k) = Value(Writes(arm), k)
  ELSE IF k \in D.before THEN Value(env, k) = Value(NoEnv, k)
  ELSE LeftBy(env, pos, k)

EnvInv ==
  /\ pc \in {"start", "next", "truncate", "fill"} => rope = <<>>
  /\ pc \in {"next", "truncate", "fill"} => \A k \in Knobs : LeftBy(env, pos, k) \/ Unfinished(k)
  /\ pc = "measure" =>
       /\ ~Done(pos) /\ ArmOf(pos).adapter.how # "stub"
       /\ rope = Patched(<<>>, ArmOf(pos)) /\ config = Frozen(ArmOf(pos).adapter, env)
       /\ \A k \in Knobs : SetUp(ArmOf(pos), k)

LEMMA UpdatedValue ==
  ASSUME NEW e, NEW w, NEW k
  PROVE  Value(Updated(e, w), k) = IF k \in DOMAIN w THEN Value(w, k) ELSE Value(e, k)
BY DEF Value, Updated

LEMMA WithoutValue ==
  ASSUME NEW e, NEW ks, NEW k
  PROVE  Value(Without(e, ks), k) = IF k \in ks THEN Value(NoEnv, k) ELSE Value(e, k)
<1>1. k \notin DOMAIN NoEnv
  BY DEF NoEnv
<1> QED
  BY <1>1 DEF Value, Without

LEMMA ConfiguredValue ==
  ASSUME NEW e, NEW arm, NEW k
  PROVE  Value(Configured(e, arm), k) =
           IF k \in DOMAIN Writes(arm) THEN Value(Writes(arm), k)
           ELSE IF k \in D.before THEN Value(NoEnv, k) ELSE Value(e, k)
<1>1. DOMAIN Writes(arm) = DOMAIN arm.sets \union DOMAIN arm.adapter.writes
  BY DEF Writes, Updated
<1>2. Value(Writes(arm), k) =
        IF k \in DOMAIN arm.adapter.writes THEN Value(arm.adapter.writes, k) ELSE Value(arm.sets, k)
  BY UpdatedValue DEF Writes
<1>3. Value(Configured(e, arm), k) =
        IF k \in DOMAIN arm.adapter.writes THEN Value(arm.adapter.writes, k)
        ELSE IF k \in DOMAIN arm.sets THEN Value(arm.sets, k)
        ELSE Value(Without(e, D.before), k)
  BY UpdatedValue DEF Configured
<1> QED
  BY <1>1, <1>2, <1>3, WithoutValue

\* What Reads asks about is the environment of an arm on its own.
LEMMA ConfiguredAlone ==
  ASSUME NEW arm
  PROVE  Configured(D.start, arm) = Updated(Without(D.start, D.before), Writes(arm))
<1> DEFINE w == Without(D.start, D.before)
           s == arm.sets
           a == arm.adapter.writes
<1>1. Configured(D.start, arm) = Updated(Updated(w, s), a) /\ Writes(arm) = Updated(s, a)
  BY DEF Configured, Writes
<1> HIDE DEF w, s, a
<1>2. Updated(Updated(w, s), a) = Updated(w, Updated(s, a))
  <2> DEFINE f == Updated(Updated(w, s), a)
             g == Updated(w, Updated(s, a))
             dom == (DOMAIN w \union DOMAIN s) \union DOMAIN a
  <2>1. /\ f = [k \in dom |-> IF k \in DOMAIN a THEN a[k] ELSE Updated(w, s)[k]]
        /\ g = [k \in dom |-> IF k \in DOMAIN s \union DOMAIN a THEN Updated(s, a)[k] ELSE w[k]]
    BY DEF Updated
  <2>2. \A k \in dom : (IF k \in DOMAIN a THEN a[k] ELSE Updated(w, s)[k])
                       = (IF k \in DOMAIN s \union DOMAIN a THEN Updated(s, a)[k] ELSE w[k])
    BY DEF Updated
  <2> HIDE DEF f, g, dom
  <2> QED
    BY <2>1, <2>2 DEF f, g
<1> QED
  BY <1>1, <1>2 DEF w

\* Only knobs are read.
LEMMA ReadsKnown ==
  ASSUME NEW d, NEW arm
  PROVE  Reads(d, arm) \subseteq Knobs
<1> DEFINE e == Updated(Without(d.start, d.before), Writes(arm))
           c == Frozen(arm.adapter, e)
           r == Relevant(c, e)
<1>1. BaseLive(e) \subseteq LiveKnobs
  BY DEF BaseLive, Group, LiveKnobs
<1>2. BaseConfig(c) \subseteq ConfigKnobs
  BY DEF BaseConfig, ConfigKnobs
<1> HIDE DEF e, c
<1>3. r.live \union r.config \subseteq Knobs
  BY <1>1, <1>2 DEF Relevant, Knobs
<1> QED
  BY <1>3 DEF Reads, e, c

\* A number below the divisor is its own remainder.
LEMMA SmallRemainder ==
  ASSUME NEW d \in Nat \ {0}, NEW r \in 0 .. d - 1
  PROVE  r % d = r
<1>1. PICK q \in Int : q = 0
  OBVIOUS
<1>2. (q * d + r) % d = r
  BY DivUnique
<1>3. q * d + r = r
  BY <1>1
<1> QED
  BY <1>2, <1>3

\* The arm at a position has a number, and the arms at the positions before may run
\* before it.
LEMMA ArmsBefore ==
  ASSUME driver \in DOMAIN Drivers, NEW n \in 1 .. NumJobs
  PROVE  \E i \in DOMAIN D.arms :
           /\ ArmOf(n) = D.arms[i]
           /\ \A p \in 1 .. n - 1 : ArmOf(p) \in Earlier(D, i)
<1>1. /\ D.points \in Nat \ {0} /\ NumArms \in Nat \ {0} /\ DOMAIN D.arms = 1 .. NumArms
      /\ NumJobs = D.points * NumArms /\ NumJobs \in Nat
  BY DriverFacts
<1> DEFINE idx(p) == 1 + ((p - 1) % NumArms)
<1>2. \A p \in 1 .. NumJobs : ArmOf(p) = D.arms[idx(p)] /\ idx(p) \in 1 .. NumArms
  <2> SUFFICES ASSUME NEW p \in 1 .. NumJobs
               PROVE  ArmOf(p) = D.arms[idx(p)] /\ idx(p) \in 1 .. NumArms
    OBVIOUS
  <2>1. p - 1 \in Nat
    BY <1>1
  <2>2. (p - 1) % NumArms \in 0 .. NumArms - 1
    BY <1>1, <2>1, DivBounds
  <2> QED
    BY <1>1, <2>2 DEF ArmOf
<1>3. ASSUME D.points = 1, NEW p \in 1 .. NumJobs PROVE idx(p) = p
  <2>1. NumJobs = NumArms
    BY <1>1, <1>3
  <2>2. p - 1 \in 0 .. NumArms - 1
    BY <1>1, <1>3, <2>1
  <2>3. (p - 1) % NumArms = p - 1
    BY <1>1, <2>2, SmallRemainder
  <2> QED
    BY <2>3
<1> HIDE DEF idx
<1>4. ASSUME NEW p \in 1 .. n - 1 PROVE ArmOf(p) \in Earlier(D, idx(n))
  <2>1. p \in 1 .. NumJobs /\ p < n
    BY <1>1
  <2>2. idx(p) \in DOMAIN D.arms /\ (idx(p) < idx(n) \/ D.points > 1)
    <3>1. CASE D.points = 1
      BY <1>1, <1>2, <1>3, <2>1, <3>1
    <3>2. CASE D.points > 1
      BY <1>1, <1>2, <2>1, <3>2
    <3> QED
      BY <1>1, <3>1, <3>2
  <2> QED
    BY <1>2, <2>1, <2>2 DEF Earlier
<1> QED
  BY <1>1, <1>2, <1>4

\* A measurement depends on nothing but the variables that Relevant names, the
\* switches among them.
LEMMA EffectiveSame ==
  ASSUME NEW adapter, NEW e, NEW f, NEW patches,
         adapter.how # "hf" =>
           LET r == Relevant(Frozen(adapter, e), e)
           IN \A k \in r.live \union r.config : Value(e, k) = Value(f, k)
  PROVE  Effective(adapter, Frozen(adapter, e), e, patches) = Effective(adapter, Frozen(adapter, f), f, patches)
<1>1. CASE adapter.how = "hf"
  BY <1>1 DEF Effective
<1>2. CASE adapter.how # "hf"
  <2> DEFINE ce == Frozen(adapter, e)
             cf == Frozen(adapter, f)
             r == Relevant(ce, e)
  <2>1. /\ {"PREFILL_MODE", "LOWRANK_RANK", "MIXEDPREC_HI_FRAC", "EVICT_KEEP_RATIO"} \subseteq BaseLive(e)
        /\ BaseLive(e) \subseteq r.live
    BY DEF BaseLive, Group, Relevant
  <2>2. \A k \in r.live \union r.config : Value(e, k) = Value(f, k)
    BY <1>2
  <2>3. BaseLive(e) = BaseLive(f) /\ Value(e, "PREFILL_MODE") = Value(f, "PREFILL_MODE")
    BY <2>1, <2>2 DEF BaseLive, Group
  <2>4. CASE adapter.how = "care"
    <3>1. /\ ce = [k \in ConfigKnobs |-> Value(e, k)]
          /\ cf = [k \in ConfigKnobs |-> Value(f, k)]
      BY <2>4 DEF Frozen
    <3>2. "BASE_QUANTIZER" \in ConfigKnobs
      BY DEF ConfigKnobs
    <3>3. DOMAIN ce # {} /\ DOMAIN cf # {}
      BY <3>1, <3>2
    <3>4. BaseConfig(ce) \subseteq r.config /\ "BASE_QUANTIZER" \in BaseConfig(ce)
      BY <3>3 DEF Relevant, BaseConfig
    <3>5. ce["BASE_QUANTIZER"] = cf["BASE_QUANTIZER"]
      BY <2>2, <3>1, <3>2, <3>4
    <3>6. BaseConfig(ce) = BaseConfig(cf)
      BY <3>5 DEF BaseConfig
    <3>7. Relevant(cf, f) = r
      BY <2>3, <3>3, <3>6 DEF Relevant
    <3>8. r.config \subseteq ConfigKnobs
      <4>1. BaseConfig(ce) \subseteq ConfigKnobs
        BY DEF BaseConfig, ConfigKnobs
      <4> QED
        BY <3>3, <4>1 DEF Relevant
    <3> HIDE DEF ce, cf, r
    <3>9. /\ [k \in r.live |-> Value(e, k)] = [k \in r.live |-> Value(f, k)]
          /\ [k \in r.config |-> ce[k]] = [k \in r.config |-> cf[k]]
      BY <2>2, <3>1, <3>8
    <3> QED
      BY <1>2, <3>7, <3>9 DEF Effective, r, ce, cf
  <2>5. CASE adapter.how # "care"
    <3>1. ce = NoEnv /\ cf = NoEnv
      BY <2>5 DEF Frozen
    <3>2. DOMAIN NoEnv = {}
      BY DEF NoEnv
    <3>3. Relevant(cf, f) = r
      BY <2>3, <3>1, <3>2 DEF Relevant
    <3> HIDE DEF r
    <3>4. [k \in r.live |-> Value(e, k)] = [k \in r.live |-> Value(f, k)]
      BY <2>2
    <3> QED
      BY <1>2, <3>1, <3>3, <3>4 DEF Effective, r, ce, cf
  <2> QED
    BY <2>4, <2>5
<1> QED
  BY <1>1, <1>2

LEMMA ValueSame ==
  ASSUME NEW e, NEW f, NEW k, Value(f, k) = Value(e, k), NEW n \in Nat, NEW m \in Nat, n <= m, LeftBy(e, n, k)
  PROVE  LeftBy(f, m, k)
<1>1. \A p \in 1 .. n - 1 : p \in 1 .. m - 1
  OBVIOUS
<1> QED
  BY <1>1 DEF LeftBy

LEMMA LeftLater ==
  ASSUME OrderInv, NEW k, LeftBy(env, pos, k)
  PROVE  LeftBy(env, pos + 1, k)
<1>1. NumJobs \in Nat /\ pos \in 1 .. NumJobs + 1
  BY DriverFacts DEF OrderInv
<1>2. pos \in Nat /\ pos + 1 \in Nat /\ pos <= pos + 1
  BY <1>1
<1> QED
  BY <1>2, ValueSame

\* When the arm at n has run, what it wrote and the driver does not pop is left.
LEMMA LeftByArm ==
  ASSUME NEW n \in Nat, n >= 1, NEW e, NEW f, NEW k,
         \/ k \in DOMAIN Writes(ArmOf(n)) /\ Value(e, k) = Value(Writes(ArmOf(n)), k)
         \/ k \in D.before /\ Value(e, k) = Value(NoEnv, k)
         \/ LeftBy(e, n, k),
         f = Without(e, D.after)
  PROVE  LeftBy(f, n + 1, k)
<1>1. CASE k \in D.after
  BY <1>1, WithoutValue DEF LeftBy
<1>2. CASE k \notin D.after
  <2>1. Value(f, k) = Value(e, k)
    BY <1>2, WithoutValue
  <2>2. n \in 1 .. (n + 1) - 1
    OBVIOUS
  <2>3. CASE k \in DOMAIN Writes(ArmOf(n)) /\ Value(e, k) = Value(Writes(ArmOf(n)), k)
    BY <1>2, <2>1, <2>2, <2>3 DEF LeftBy
  <2>4. CASE k \in D.before /\ Value(e, k) = Value(NoEnv, k)
    BY <2>1, <2>4 DEF LeftBy
  <2>5. CASE LeftBy(e, n, k)
    BY <2>1, <2>5, ValueSame
  <2> QED
    BY <2>3, <2>4, <2>5
<1> QED
  BY <1>1, <1>2

LEMMA RopeTaken ==
  ASSUME NEW arm
  PROVE  Unpatched(Patched(<<>>, arm), arm) = <<>>
<1>1. CASE arm.adapter.rope = Empty
  BY <1>1 DEF Patched, Unpatched
<1>2. CASE arm.adapter.rope # Empty
  <2> DEFINE x == arm.adapter.rope
             s == Append(<<>>, x)
  <2>1. Patched(<<>>, arm) = s /\ Unpatched(s, arm) = SubSeq(s, 1, Len(s) - 1)
    BY <1>2 DEF Patched, Unpatched, Front
  <2>2. s \in Seq({x}) /\ Len(s) = 1
    OBVIOUS
  <2> HIDE DEF s
  <2>3. Len(s) - 1 = 0 /\ SubSeq(s, 1, 0) = <<>>
    BY <2>2
  <2> QED
    BY <2>1, <2>3
<1> QED
  BY <1>1, <1>2

LEMMA EnvStep == OrderInv /\ EnvInv /\ [Next]_vars => EnvInv'
<1> SUFFICES ASSUME OrderInv, EnvInv, [Next]_vars PROVE EnvInv'
  OBVIOUS
<1>0. /\ driver' = driver /\ D' = D /\ NumJobs' = NumJobs /\ NumJobs \in Nat
      /\ \A p : ArmOf(p)' = ArmOf(p) /\ Job(p)' = Job(p)
      /\ pos \in Nat /\ pos >= 1
  <2>1. driver' = driver
    BY DEF Next, vars, Begin, Skip, Stub, Setup, SetupFails, Measure, OutOfMemory, EndPoint, Truncate,
           Fill, FillRaises, Crash, Restart
  <2>2. NumJobs \in Nat /\ pos \in 1 .. NumJobs + 1
    BY DriverFacts DEF OrderInv
  <2> QED
    BY <2>1, <2>2, DriverStays
<1>1. ASSUME NEW k, LeftBy(env', pos', k) PROVE LeftBy(env, pos, k)'
  BY <1>0, <1>1 DEF LeftBy
<1>2. ASSUME pc' = "dead" \/ pc' = "done" PROVE EnvInv'
  BY <1>2 DEF EnvInv
<1>3. ASSUME pc' \in {"next", "truncate", "fill"}, rope' = <<>>,
             \A k \in Knobs : LeftBy(env', pos', k) \/ Unfinished(k)'
      PROVE  EnvInv'
  BY <1>1, <1>3 DEF EnvInv
<1>4. ASSUME UNCHANGED <<env, pos, rows>>, NEW k, LeftBy(env, pos, k) \/ Unfinished(k)
      PROVE  LeftBy(env', pos', k) \/ Unfinished(k)'
  BY <1>0, <1>4 DEF Unfinished, Done
<1>5. ASSUME NEW ok, NEW stage, Record(ok, stage)
      PROVE  pos' = pos + 1 /\ pc' \in {"next", "truncate"}
  BY <1>5 DEF Record
<1>6. CASE Begin
  <2>1. pc' = "next" /\ rope' = <<>> /\ env' = D.start
    BY <1>6 DEF Begin, EnvInv
  <2> QED
    BY <1>3, <2>1 DEF LeftBy
<1>7. CASE Skip
  <2>1. pc = "next" /\ pc' = "next" /\ Done(pos) /\ pos' = pos + 1 /\ UNCHANGED <<env, rope>>
    BY <1>7 DEF Skip, AtArm
  <2>2. ASSUME NEW k \in Knobs PROVE LeftBy(env', pos', k)
    <3>1. LeftBy(env, pos, k)
      BY <2>1 DEF EnvInv, Unfinished
    <3> QED
      BY <2>1, <3>1, LeftLater
  <2> QED
    BY <1>3, <2>1, <2>2 DEF EnvInv
<1>8. CASE Stub
  <2>1. /\ pc = "next" /\ ArmOf(pos).adapter.how = "stub" /\ UNCHANGED <<env, rope>>
        /\ Record(FALSE, "setup")
    BY <1>8 DEF Stub, AtArm
  <2>2. pos' = pos + 1 /\ pc' \in {"next", "truncate"}
    BY <1>5, <2>1
  <2>3. ASSUME NEW k \in Knobs PROVE LeftBy(env', pos', k)
    <3>1. LeftBy(env, pos, k)
      BY <2>1 DEF EnvInv, Unfinished
    <3> QED
      BY <2>1, <2>2, <3>1, LeftLater
  <2> QED
    BY <1>3, <2>1, <2>2, <2>3 DEF EnvInv
<1>9. ASSUME pc = "next", NEW k \in Knobs
      PROVE  LET e == Configured(env, ArmOf(pos)) IN
             \/ k \in DOMAIN Writes(ArmOf(pos)) /\ Value(e, k) = Value(Writes(ArmOf(pos)), k)
             \/ k \notin DOMAIN Writes(ArmOf(pos)) /\ k \in D.before /\ Value(e, k) = Value(NoEnv, k)
             \/ /\ k \notin DOMAIN Writes(ArmOf(pos)) /\ k \notin D.before
                /\ LeftBy(e, pos, k)
  <2> DEFINE e == Configured(env, ArmOf(pos))
  <2>1. Value(e, k) = IF k \in DOMAIN Writes(ArmOf(pos)) THEN Value(Writes(ArmOf(pos)), k)
                      ELSE IF k \in D.before THEN Value(NoEnv, k) ELSE Value(env, k)
    BY ConfiguredValue
  <2>2. LeftBy(env, pos, k) \/ k \in DOMAIN Writes(ArmOf(pos))
    BY <1>9 DEF EnvInv, Unfinished
  <2> HIDE DEF e
  <2>3. LeftBy(env, pos, k) /\ Value(e, k) = Value(env, k) => LeftBy(e, pos, k)
    BY <1>0, ValueSame
  <2> QED
    BY <2>1, <2>2, <2>3 DEF e
<1>10. CASE Setup
  <2>1. /\ pc = "next" /\ pc' = "measure" /\ ~Done(pos) /\ ArmOf(pos).adapter.how # "stub"
        /\ env' = Configured(env, ArmOf(pos)) /\ config' = Frozen(ArmOf(pos).adapter, env')
        /\ rope' = Patched(rope, ArmOf(pos)) /\ rope = <<>>
        /\ UNCHANGED <<pos, rows>>
    BY <1>10 DEF Setup, AtArm, EnvInv
  <2>2. ~Done(pos)'
    BY <1>0, <2>1 DEF Done
  <2>3. ASSUME NEW k \in Knobs PROVE SetUp(ArmOf(pos), k)'
    <3>1. LET e == env' IN
          \/ k \in DOMAIN Writes(ArmOf(pos)) /\ Value(e, k) = Value(Writes(ArmOf(pos)), k)
          \/ k \notin DOMAIN Writes(ArmOf(pos)) /\ k \in D.before /\ Value(e, k) = Value(NoEnv, k)
          \/ /\ k \notin DOMAIN Writes(ArmOf(pos)) /\ k \notin D.before
             /\ LeftBy(e, pos', k)
      BY <1>9, <2>1
    <3>2. ArmOf(pos)' = ArmOf(pos)
      BY <1>0, <2>1
    <3> QED
      BY <1>0, <1>1, <3>1, <3>2 DEF SetUp
  <2>4. ArmOf(pos)' = ArmOf(pos)
    BY <1>0, <2>1
  <2>5. rope' = Patched(<<>>, ArmOf(pos)')
    BY <2>1, <2>4
  <2> QED
    BY <2>1, <2>2, <2>3, <2>4, <2>5 DEF EnvInv, Patched
<1>11. CASE SetupFails
  <2>1. /\ pc = "next" /\ env' = Without(Configured(env, ArmOf(pos)), D.after)
        /\ Record(FALSE, "setup") \/ Raise
        /\ rope' = <<>>
    BY <1>11 DEF SetupFails, AtArm, EnvInv
  <2>2. CASE Record(FALSE, "setup")
    <3>1. \A k \in Knobs : LeftBy(env', pos + 1, k)
      BY <1>0, <1>9, <2>1, LeftByArm
    <3> QED
      BY <1>3, <1>5, <2>1, <2>2, <3>1
  <2>3. CASE Raise
    BY <1>2, <2>3 DEF Raise
  <2> QED
    BY <2>1, <2>2, <2>3
<1>12. ASSUME NEW ok \in BOOLEAN, Measure(ok) PROVE EnvInv'
  <2>1. /\ pc = "measure" /\ env' = Without(env, D.after)
        /\ Record(ok, "measure") \/ Raise
        /\ rope' = Unpatched(rope, ArmOf(pos)) /\ rope = Patched(<<>>, ArmOf(pos))
        /\ \A k \in Knobs : SetUp(ArmOf(pos), k)
    BY <1>12 DEF Measure, EnvInv
  <2>2. CASE Record(ok, "measure")
    <3>1. \A k \in Knobs : LeftBy(env', pos + 1, k)
      BY <1>0, <2>1, LeftByArm DEF SetUp
    <3>2. rope' = <<>>
      BY <2>1, RopeTaken
    <3> QED
      BY <1>3, <1>5, <2>2, <3>1, <3>2
  <2>3. CASE Raise
    BY <1>2, <2>3 DEF Raise
  <2> QED
    BY <2>1, <2>2, <2>3
<1>13. CASE OutOfMemory
  <2>1. /\ pc = "measure" /\ pc' = "next" /\ UNCHANGED <<env, pos, rows>>
        /\ rope' = Unpatched(rope, ArmOf(pos)) /\ rope = Patched(<<>>, ArmOf(pos))
        /\ ~Done(pos) /\ ArmOf(pos).adapter.how # "stub" /\ pos <= NumJobs
        /\ \A k \in Knobs : SetUp(ArmOf(pos), k)
    BY <1>13 DEF OutOfMemory, EnvInv, OrderInv
  <2>2. rope' = <<>>
    BY <2>1, RopeTaken
  <2>3. ASSUME NEW k \in Knobs PROVE LeftBy(env', pos', k) \/ Unfinished(k)'
    <3>1. LeftBy(env, pos, k) \/ Unfinished(k)
      BY <2>1 DEF SetUp, Unfinished, LeftBy
    <3> QED
      BY <1>4, <2>1, <3>1
  <2> QED
    BY <1>3, <2>1, <2>2, <2>3
<1>14. CASE EndPoint
  <2>1. /\ pc = "next" /\ pc' \in {"truncate", "done", "next"} /\ rows' = WithDeltas
        /\ UNCHANGED <<env, pos, rope>>
    BY <1>14 DEF EndPoint
  <2>2. ASSUME NEW k \in Knobs, Unfinished(k) PROVE Unfinished(k)'
    <3>1. /\ DOMAIN rows' = DOMAIN rows
          /\ \A i \in DOMAIN rows : JobOf(rows'[i]) = JobOf(rows[i]) /\ rows'[i].read = rows[i].read
      BY <2>1, DeltasInOrder
    <3>2. \A row : JobOf(row)' = <<row'.point, row'.key>>
      BY DEF JobOf
    <3>3. ~Done(pos)'
      BY <1>0, <2>1, <2>2, <3>1 DEF Unfinished, Done, JobOf
    <3> QED
      BY <1>0, <2>1, <2>2, <3>3 DEF Unfinished
  <2>3. \A k \in Knobs : LeftBy(env', pos', k) \/ Unfinished(k)'
    BY <2>1, <2>2 DEF EnvInv
  <2> QED
    BY <1>2, <1>3, <2>1, <2>3 DEF EnvInv
<1>15. CASE Truncate \/ Fill
  <2>1. /\ pc \in {"truncate", "fill"} /\ pc' \in {"fill", "done", "next"}
        /\ UNCHANGED <<env, pos, rope, rows>>
    BY <1>15 DEF Truncate, Fill
  <2>2. \A k \in Knobs : LeftBy(env', pos', k) \/ Unfinished(k)'
    BY <1>4, <2>1 DEF EnvInv
  <2> QED
    BY <1>2, <1>3, <2>1, <2>2 DEF EnvInv
<1>16. CASE FillRaises \/ Crash
  BY <1>2, <1>16 DEF FillRaises, Crash
<1>17. CASE Restart
  BY <1>17 DEF Restart, EnvInv
<1>18. CASE UNCHANGED vars
  <2>1. UNCHANGED <<pc, env, rope, config, pos, rows>>
    BY <1>18 DEF vars
  <2>2. CASE pc \in {"next", "truncate", "fill"}
    <3>1. \A k \in Knobs : LeftBy(env', pos', k) \/ Unfinished(k)'
      BY <1>4, <2>1, <2>2 DEF EnvInv
    <3> QED
      BY <1>3, <2>1, <2>2, <3>1 DEF EnvInv
  <2>3. CASE pc = "measure"
    <3>1. ArmOf(pos)' = ArmOf(pos)
      BY <1>0, <2>1
    <3>2. ~Done(pos)'
      BY <1>0, <2>1, <2>3 DEF EnvInv, Done
    <3>3. \A k \in Knobs : SetUp(ArmOf(pos), k)'
      BY <1>0, <1>1, <2>1, <2>3, <3>1 DEF EnvInv, SetUp
    <3> QED
      BY <2>1, <2>3, <3>1, <3>2, <3>3 DEF EnvInv, Patched
  <2>4. CASE pc \notin {"next", "truncate", "fill", "measure"}
    BY <2>1, <2>4 DEF EnvInv
  <2> QED
    BY <2>2, <2>3, <2>4
<1> QED
  BY <1>6, <1>7, <1>8, <1>10, <1>11, <1>12, <1>13, <1>14, <1>15, <1>16, <1>17, <1>18 DEF Next

\* Arms are independent of each other whenever the table says so: a driver none of
\* whose arms depends on a variable that an earlier arm may leave behind measures each
\* arm as a process of its own would, whichever arms were skipped, failed, ran out of
\* memory or were cut short by a kill before it.
THEOREM ArmsIndependent ==
  ASSUME \A n \in DOMAIN Drivers : Isolated(Drivers[n])
  PROVE  Spec => []MeasuredAlone
<1>1. Init => OrderInv /\ EnvInv
  BY OrderInit DEF Init, EnvInv
<1>2. OrderInv /\ EnvInv /\ [Next]_vars => OrderInv' /\ EnvInv'
  BY OrderStep, EnvStep
<1>3. OrderInv /\ EnvInv => MeasuredAlone
  <2> SUFFICES ASSUME OrderInv, EnvInv, pc = "measure"
               PROVE  LET arm == ArmOf(pos) IN Effective(arm.adapter, config, env, rope) = Alone(arm)
    BY DEF MeasuredAlone
  <2> DEFINE arm == ArmOf(pos)
             alone == Configured(D.start, arm)
  <2>1. /\ driver \in DOMAIN Drivers /\ D = Drivers[driver] /\ pos \in 1 .. NumJobs
        /\ arm.adapter.how # "stub" /\ rope = Patched(<<>>, arm) /\ config = Frozen(arm.adapter, env)
        /\ \A k \in Knobs : SetUp(arm, k)
    <3>1. NumJobs \in Nat
      BY DriverFacts DEF OrderInv
    <3> QED
      BY <3>1 DEF OrderInv, EnvInv, D, Table
  <2>2. PICK i \in DOMAIN D.arms :
          /\ arm = D.arms[i]
          /\ \A p \in 1 .. pos - 1 : ArmOf(p) \in Earlier(D, i)
    BY <2>1, ArmsBefore
  <2>3. \A k \in Reads(D, arm) : Unaffected(D, i, k)
    BY <2>1, <2>2 DEF Isolated
  <2>4. alone = Updated(Without(D.start, D.before), Writes(arm))
    BY ConfiguredAlone
  <2>5. ASSUME arm.adapter.how # "hf"
        PROVE  LET r == Relevant(Frozen(arm.adapter, alone), alone)
               IN Reads(D, arm) = r.live \union r.config
    BY <2>1, <2>4, <2>5 DEF Reads
  <2> HIDE DEF arm, alone
  <2>6. ASSUME NEW k \in Reads(D, arm), k \in Knobs PROVE Value(alone, k) = Value(env, k)
    <3>1. Value(alone, k) = IF k \in DOMAIN Writes(arm) THEN Value(Writes(arm), k)
                            ELSE IF k \in D.before THEN Value(NoEnv, k) ELSE Value(D.start, k)
      BY ConfiguredValue DEF alone
    <3>2. SetUp(arm, k)
      BY <2>1, <2>6
    <3>3. ASSUME k \notin DOMAIN Writes(arm), k \notin D.before
          PROVE  Value(env, k) = Value(D.start, k)
      <4>1. LeftBy(env, pos, k)
        BY <3>2, <3>3 DEF SetUp
      <4>2. \/ k \in D.after /\ Value(D.start, k) = Value(NoEnv, k)
            \/ k \notin D.after
               /\ \A a \in Earlier(D, i) : k \in DOMAIN Writes(a) => Value(Writes(a), k) = Value(D.start, k)
        BY <2>2, <2>3, <2>6, <3>3 DEF Unaffected
      <4> QED
        BY <2>2, <3>3, <4>1, <4>2 DEF LeftBy
    <3> QED
      BY <3>1, <3>2, <3>3 DEF SetUp
  <2>7. Reads(D, arm) \subseteq Knobs
    BY ReadsKnown
  <2>8. Effective(arm.adapter, Frozen(arm.adapter, alone), alone, rope)
        = Effective(arm.adapter, Frozen(arm.adapter, env), env, rope)
    BY <2>5, <2>6, <2>7, EffectiveSame
  <2> QED
    BY <2>1, <2>8 DEF Alone, alone, arm
<1> QED
  BY <1>1, <1>2, <1>3, PTL DEF Spec

-----------------------------------------------------------------------------
\* Ladder

LaneState == [pc : {"idle", "gone", "check", "measure", "open", "write"}, next : Nat,
              ok : BOOLEAN, header : BOOLEAN]

IsLines(table) == \E S : table \in Seq(S)

\* What a lane has seen of the file still holds when it writes: a lane that adds
\* no header found one of its own layout, a lane that adds one found no file,
\* and whoever has created it since wrote the same header.
SeenHolds(l) ==
  lane[l].pc = "write" =>
    IF csv = <<>> THEN lane[l].header ELSE csv[1].fields = "current"

HeaderInv ==
  /\ lane \in [Lanes -> LaneState]
  /\ IsLines(csv)
  /\ SameFields
  /\ \A l \in Lanes : SeenHolds(l)

\* Where the script and its lanes are: a lane that runs is an orphan or was forked
\* before, and a lane that has been waited for, and is not forked again, has ended.
PlaceInv ==
  /\ script \in Scripts
  /\ main \in 0 .. Len(script.steps) + 1
  /\ main = 0 => \A l \in Lanes : lane[l].pc = "idle"
  /\ \A l \in Lanes : Alive(l) =>
       /\ lane[l].next \in DOMAIN script.queue[l]
       /\ l \in script.orphans \/ \E f \in Forks(script, l) : f < main
       /\ \A i \in DOMAIN script.steps : LastWait(script, l, i) => main <= i

\* A lane that measures, or is about to write, found no row of its model; nobody
\* else writes that row.
Unwritten(l) ==
  /\ lane[l].pc \in {"measure", "open"} => Refuses \/ ~ HasRow(ModelOf(l))
  /\ lane[l].pc = "write" => ~ HasRow(ModelOf(l))
RowsInv == OneRowPerModel /\ \A l \in Lanes : Unwritten(l)

\* A lane that is about to add a header runs beside the lanes that added one.
AddsHeader(l) == lane[l].pc = "write" /\ lane[l].header
RanBeside(l, m) ==
  \E k \in Lanes \ {l} : \E a \in Queued(script, k) : a.model = m /\ a.gpus \intersect JobAt(l).gpus = {}
BesideHeaders(l) ==
  \A i \in DOMAIN csv : csv[i].kind = "header" => FollowedByRow(i) /\ RanBeside(l, csv[i + 1].model)
HeadersInv == HeadersSideBySide /\ \A l \in Lanes : AddsHeader(l) => BesideHeaders(l)

\* A forked lane leaves the models of its queue settled one after the other.
Settled(m) == HasRow(m) \/ m \in lost
SettledBefore(l, n) == \A i \in DOMAIN script.queue[l] : i < n => Settled(script.queue[l][i].model)
SettledInv ==
  \A l \in Lanes : Forks(script, l) # {} =>
    /\ Alive(l) => SettledBefore(l, lane[l].next)
    /\ lane[l].pc = "gone" => SettledBefore(l, Len(script.queue[l]) + 1)
    /\ (\E f \in Forks(script, l) : f < main) => lane[l].pc # "idle"

LEMMA HeaderInit == LadderInit => HeaderInv
<1> SUFFICES ASSUME LadderInit PROVE HeaderInv
  OBVIOUS
<1>1. lane \in [Lanes -> LaneState] /\ \A l \in Lanes : SeenHolds(l)
  BY DEF LadderInit, Idle, LaneState, SeenHolds
<1>2. IsLines(csv) /\ SameFields
  BY FilesAssumption DEF LadderInit, IsLines, SameFields
<1> QED
  BY <1>1, <1>2 DEF HeaderInv

\* After a job its lane checks the next model, or is over.
Advances(l) ==
  /\ lane[l].next < Len(script.queue[l]) /\ l \notin script.orphans
  /\ lane'[l].pc = "check" /\ lane'[l].next = lane[l].next + 1
Retires(l) ==
  /\ ~ (lane[l].next < Len(script.queue[l])) \/ l \in script.orphans
  /\ lane'[l].pc = "gone"

\* A job that ends leaves its lane with nothing to write.
LEMMA NextJobLane ==
  ASSUME NEW l \in Lanes, lane \in [Lanes -> LaneState], NextJob(l)
  PROVE  /\ lane' \in [Lanes -> LaneState]
         /\ lane'[l].pc # "write"
         /\ Advances(l) \/ Retires(l)
         /\ \A k \in Lanes \ {l} : lane'[k] = lane[k]
<1>1. lane[l].next \in Nat
  BY DEF LaneState
<1> DEFINE n    == lane[l].next + 1
           next == [Idle EXCEPT !.pc = "check", !.next = n]
           last == [Idle EXCEPT !.pc = "gone"]
           more == lane[l].next < Len(script.queue[l]) /\ l \notin script.orphans
<1>2. next \in LaneState /\ next.pc = "check" /\ next.next = n
  <2>1. n \in Nat
    BY <1>1
  <2> HIDE DEF n
  <2> QED
    BY <2>1 DEF Idle, LaneState
<1>3. last \in LaneState /\ last.pc = "gone"
  BY DEF Idle, LaneState
<1>4. lane' = [lane EXCEPT ![l] = IF more THEN next ELSE last]
  BY DEF NextJob
<1> HIDE DEF next, last, more
<1>5. CASE more
  <2>1. lane' \in [Lanes -> LaneState] /\ lane'[l] = next /\ \A k \in Lanes \ {l} : lane'[k] = lane[k]
    BY <1>2, <1>4, <1>5
  <2>2. Advances(l)
    BY <1>2, <1>5, <2>1 DEF more, n, Advances
  <2> QED
    BY <1>2, <2>1, <2>2
<1>6. CASE ~ more
  <2>1. lane' \in [Lanes -> LaneState] /\ lane'[l] = last /\ \A k \in Lanes \ {l} : lane'[k] = lane[k]
    BY <1>3, <1>4, <1>6
  <2>2. Retires(l)
    BY <1>3, <1>6, <2>1 DEF more, Retires
  <2> QED
    BY <1>3, <2>1, <2>2
<1> QED
  BY <1>5, <1>6

\* A file of one layer, with what a lane appends to it.
LEMMA AppendedLines ==
  ASSUME NEW l \in Lanes, IsLines(csv), SameFields,
         IF csv = <<>> THEN lane[l].header ELSE csv[1].fields = "current"
  PROVE  /\ IsLines(Appended(l))
         /\ Appended(l) # <<>> /\ Appended(l)[1].fields = "current"
         /\ \A i \in DOMAIN Appended(l) :
              Appended(l)[1].kind = "header" /\ Appended(l)[i].fields = Appended(l)[1].fields
<1> DEFINE new == IF lane[l].header THEN <<Header, RowOf(l)>> ELSE <<RowOf(l)>>
           T   == {Header, RowOf(l)}
<1>1. PICK S : csv \in Seq(S)
  BY DEF IsLines
<1>2. /\ new \in Seq(T) /\ new # <<>>
      /\ lane[l].header => new[1] = Header
      /\ \A i \in 1 .. Len(new) : new[i].fields = "current"
  <2>1. Header.fields = "current" /\ RowOf(l).fields = "current"
    BY DEF Header, RowOf
  <2>2. CASE lane[l].header
    <3>1. new = <<Header, RowOf(l)>>
      BY <2>2
    <3>2. Header \in T /\ RowOf(l) \in T
      OBVIOUS
    <3> HIDE DEF new, T
    <3>3. new \in Seq(T) /\ Len(new) = 2 /\ new[1] = Header /\ new[2] = RowOf(l)
      BY <3>1, <3>2
    <3>4. \A i \in 1 .. Len(new) : i = 1 \/ i = 2
      BY <3>3
    <3>5. \A i \in 1 .. Len(new) : new[i].fields = "current"
      BY <2>1, <3>3, <3>4
    <3>6. new # <<>>
      <4>1. Len(<<>>) # 2
        OBVIOUS
      <4> QED
        BY <3>3, <4>1
    <3> QED
      BY <3>3, <3>5, <3>6
  <2>3. CASE ~ lane[l].header
    <3>1. new = <<RowOf(l)>>
      BY <2>3
    <3> QED
      BY <2>1, <2>3, <3>1
  <2> QED
    BY <2>2, <2>3
<1>3. Header.kind = "header" /\ Header.fields = "current"
  BY DEF Header
<1>4. csv \in Seq(S \cup T) /\ new \in Seq(S \cup T)
  BY <1>1, <1>2
<1> HIDE DEF new, T
<1>5. /\ Appended(l) = csv \o new
      /\ Appended(l) \in Seq(S \cup T)
      /\ Len(Appended(l)) = Len(csv) + Len(new)
  BY <1>4 DEF Appended, new
<1>6. /\ \A i \in 1 .. Len(csv) : Appended(l)[i] = csv[i]
      /\ \A i \in Len(csv) + 1 .. Len(csv) + Len(new) : Appended(l)[i] = new[i - Len(csv)]
  BY <1>4, <1>5
<1>7. CASE csv = <<>>
  <2>1. Appended(l)[1] = Header
    BY <1>2, <1>4, <1>6, <1>7
  <2>2. \A i \in DOMAIN Appended(l) : Appended(l)[i].fields = "current"
    BY <1>2, <1>4, <1>5, <1>6, <1>7
  <2> QED
    BY <1>2, <1>3, <1>4, <1>5, <1>7, <2>1, <2>2 DEF IsLines
<1>8. CASE csv # <<>>
  <2>1. Len(csv) >= 1 /\ Appended(l)[1] = csv[1]
    BY <1>1, <1>6, <1>8
  <2>2. csv[1].kind = "header" /\ \A i \in 1 .. Len(csv) : csv[i].fields = "current"
    BY <1>1, <1>8, <2>1 DEF SameFields
  <2>3. ASSUME NEW i \in DOMAIN Appended(l) PROVE Appended(l)[i].fields = "current"
    <3>1. i \in 1 .. Len(csv) + Len(new)
      BY <1>5
    <3>2. CASE i <= Len(csv)
      BY <1>4, <1>6, <2>2, <3>1, <3>2
    <3>3. CASE i > Len(csv)
      <4>1. Len(csv) \in Nat /\ Len(new) \in Nat
        BY <1>4
      <4>2. /\ i - Len(csv) \in 1 .. Len(new)
            /\ i \in Len(csv) + 1 .. Len(csv) + Len(new)
        BY <3>1, <3>3, <4>1
      <4>3. Appended(l)[i] = new[i - Len(csv)]
        BY <1>6, <4>2
      <4>4. new[i - Len(csv)].fields = "current"
        BY <1>2, <4>2
      <4> QED
        BY <4>3, <4>4
    <3> QED
      BY <1>4, <3>1, <3>2, <3>3
  <2> QED
    BY <1>4, <1>5, <1>8, <2>1, <2>2, <2>3 DEF IsLines
<1> QED
  BY <1>7, <1>8

\* A step that leaves the file alone and gives no lane anything to write.
LEMMA NothingToWrite ==
  ASSUME HeaderInv, UNCHANGED csv, lane' \in [Lanes -> LaneState],
         \A k \in Lanes : lane'[k] = lane[k] \/ lane'[k].pc # "write"
  PROVE  HeaderInv'
BY DEF HeaderInv, SeenHolds, SameFields, IsLines

LEMMA HeaderStep == HeaderInv /\ [LadderNext]_ladderVars => HeaderInv'
<1> SUFFICES ASSUME HeaderInv, [LadderNext]_ladderVars PROVE HeaderInv'
  OBVIOUS
<1>0. lane \in [Lanes -> LaneState]
  BY DEF HeaderInv
<1>1. CASE Fork
  <2>1. UNCHANGED csv /\ lane' \in [Lanes -> LaneState]
    BY <1>0, <1>1 DEF Fork, Idle, LaneState
  <2>2. \A k \in Lanes : lane'[k] = lane[k] \/ lane'[k].pc # "write"
    BY <1>0, <1>1 DEF Fork, Idle
  <2> QED
    BY <2>1, <2>2, NothingToWrite
<1>2. ASSUME NEW l \in Lanes, Check(l) PROVE HeaderInv'
  <2>1. CASE Skips(l)
    BY <1>0, <1>2, <2>1, NextJobLane, NothingToWrite DEF Check
  <2>2. CASE ~ Skips(l)
    <3>1. UNCHANGED csv /\ lane' = [lane EXCEPT ![l].pc = "measure"]
      BY <1>2, <2>2 DEF Check
    <3> QED
      BY <1>0, <3>1, NothingToWrite DEF LaneState
  <2> QED
    BY <2>1, <2>2
<1>3. ASSUME NEW l \in Lanes, NEW ok \in BOOLEAN, RunArms(l, ok) PROVE HeaderInv'
  <2>1. UNCHANGED csv /\ lane' = [lane EXCEPT ![l].pc = "open", ![l].ok = ok]
    BY <1>3 DEF RunArms
  <2> QED
    BY <1>0, <2>1, NothingToWrite DEF LaneState
<1>4. ASSUME NEW l \in Lanes, Die(l) PROVE HeaderInv'
  BY <1>0, <1>4, NextJobLane, NothingToWrite DEF Die
<1>5. ASSUME NEW l \in Lanes, Open(l) PROVE HeaderInv'
  <2>1. CASE Refuses
    BY <1>0, <1>5, <2>1, NextJobLane, NothingToWrite DEF Open
  <2>2. CASE ~ Refuses
    <3>1. /\ UNCHANGED csv
          /\ lane' = [lane EXCEPT ![l].pc = "write", ![l].header = Missing]
      BY <1>5, <2>2 DEF Open
    <3>2. lane' \in [Lanes -> LaneState]
      <4>1. Missing \in BOOLEAN
        BY DEF Missing
      <4> QED
        BY <1>0, <3>1, <4>1 DEF LaneState
    <3>3. SeenHolds(l)'
      BY <1>0, <2>2, <3>1 DEF SeenHolds, Refuses, Missing, LaneState
    <3>4. \A k \in Lanes \ {l} : SeenHolds(k)'
      BY <1>0, <3>1 DEF HeaderInv, SeenHolds
    <3> QED
      BY <3>1, <3>2, <3>3, <3>4 DEF HeaderInv, SameFields, IsLines
  <2> QED
    BY <2>1, <2>2
<1>6. ASSUME NEW l \in Lanes, Write(l) PROVE HeaderInv'
  <2>1. csv' = Appended(l) /\ NextJob(l) /\ lane[l].pc = "write"
    BY <1>6 DEF Write
  <2>2. /\ IsLines(csv') /\ csv' # <<>> /\ csv'[1].fields = "current"
        /\ \A i \in DOMAIN csv' : csv'[1].kind = "header" /\ csv'[i].fields = csv'[1].fields
    BY <2>1, AppendedLines DEF HeaderInv, SeenHolds
  <2>3. lane' \in [Lanes -> LaneState]
    BY <1>0, <2>1, NextJobLane
  <2> QED
    BY <2>2, <2>3 DEF HeaderInv, SeenHolds, SameFields, IsLines
<1>7. CASE Reboot
  <2>1. UNCHANGED csv /\ lane' = [l \in Lanes |-> Idle]
    BY <1>7 DEF Reboot
  <2> QED
    BY <2>1, NothingToWrite DEF Idle, LaneState
<1>8. CASE Wait \/ Rerun \/ (\E l \in Lanes : Hang(l) \/ ForeignExits(l)) \/ UNCHANGED ladderVars
  <2>1. UNCHANGED <<csv, lane>>
    BY <1>8 DEF Wait, Rerun, Hang, ForeignExits, ladderVars
  <2> QED
    BY <1>0, <2>1, NothingToWrite
<1> QED
  BY <1>1, <1>2, <1>3, <1>4, <1>5, <1>6, <1>7, <1>8 DEF LadderNext, LaneStep, Ends

\* What a lane appends leaves the lines before it alone and adds one row.
LEMMA AppendedRows ==
  ASSUME NEW l \in Lanes, IsLines(csv)
  PROVE  /\ \A i \in DOMAIN csv : i \in DOMAIN Appended(l) /\ Appended(l)[i] = csv[i]
         /\ \E r \in DOMAIN Appended(l) :
              /\ Appended(l)[r] = RowOf(l)
              /\ \A i \in DOMAIN Appended(l) : Appended(l)[i].kind = "row" => i \in DOMAIN csv \/ i = r
<1>1. PICK S : csv \in Seq(S)
  BY DEF IsLines
<1> DEFINE T == S \cup {Header, RowOf(l)}
           n == Len(csv)
<1>2. csv \in Seq(T) /\ Header \in T /\ RowOf(l) \in T /\ n \in Nat /\ DOMAIN csv = 1 .. n
  BY <1>1
<1>3. Header.kind # "row"
  BY DEF Header
<1>4. CASE lane[l].header
  <2>1. Appended(l) = csv \o <<Header, RowOf(l)>>
    BY <1>4 DEF Appended
  <2> HIDE DEF T
  <2>2. /\ DOMAIN Appended(l) = 1 .. n + 2
        /\ Appended(l)[n + 1] = Header /\ Appended(l)[n + 2] = RowOf(l)
        /\ \A i \in 1 .. n : Appended(l)[i] = csv[i]
    BY <1>2, <2>1
  <2>3. \A i \in 1 .. n + 2 : i \in 1 .. n \/ i = n + 1 \/ i = n + 2
    BY <1>2
  <2>4. n + 2 \in 1 .. n + 2 /\ \A i \in 1 .. n : i \in 1 .. n + 2
    BY <1>2
  <2> HIDE DEF n
  <2> QED
    BY <1>2, <1>3, <2>2, <2>3, <2>4
<1>5. CASE ~ lane[l].header
  <2>1. Appended(l) = csv \o <<RowOf(l)>>
    BY <1>5 DEF Appended
  <2> HIDE DEF T
  <2>2. /\ DOMAIN Appended(l) = 1 .. n + 1
        /\ Appended(l)[n + 1] = RowOf(l)
        /\ \A i \in 1 .. n : Appended(l)[i] = csv[i]
    BY <1>2, <2>1
  <2>3. \A i \in 1 .. n + 1 : i \in 1 .. n \/ i = n + 1
    BY <1>2
  <2>4. n + 1 \in 1 .. n + 1 /\ \A i \in 1 .. n : i \in 1 .. n + 1
    BY <1>2
  <2> HIDE DEF n
  <2> QED
    BY <1>2, <2>2, <2>3, <2>4
<1> QED
  BY <1>4, <1>5

\* The lines of the file are only ever added to.
LEMMA LinesStay ==
  ASSUME HeaderInv, [LadderNext]_ladderVars
  PROVE  \A i \in DOMAIN csv : i \in DOMAIN csv' /\ csv'[i] = csv[i]
<1>1. CASE \E l \in Lanes : Write(l)
  BY <1>1, AppendedRows DEF HeaderInv, Write
<1>2. CASE ~ \E l \in Lanes : Write(l)
  <2>1. UNCHANGED csv
    BY <1>2 DEF LadderNext, ladderVars, Fork, Wait, LaneStep, Ends, Check, RunArms, Die, Open, Hang,
                ForeignExits, Reboot, Rerun
  <2> QED
    BY <2>1
<1> QED
  BY <1>1, <1>2

LEMMA RowsStay ==
  ASSUME HeaderInv, [LadderNext]_ladderVars
  PROVE  /\ \A m : HasRow(m) => HasRow(m)'
         /\ Refuses => Refuses'
<1>1. \A m : HasRow(m) => HasRow(m)'
  BY LinesStay DEF HasRow
<1>2. Refuses => Refuses'
  <2>1. ASSUME csv # <<>> PROVE csv' # <<>> /\ csv'[1] = csv[1]
    <3>1. 1 \in DOMAIN csv
      BY <2>1 DEF HeaderInv, IsLines
    <3>2. 1 \in DOMAIN csv' /\ csv'[1] = csv[1]
      BY <3>1, LinesStay
    <3> QED
      BY <3>2
  <2> QED
    BY <2>1 DEF Refuses
<1> QED
  BY <1>1, <1>2

\* What a step of a lane does to its place in the queue.
Stays(l) == lane'[l].pc \in {"measure", "open", "write"} /\ lane'[l].next = lane[l].next

LEMMA LaneSteps ==
  ASSUME HeaderInv, NEW l \in Lanes, LaneStep(l)
  PROVE  /\ Alive(l) /\ UNCHANGED <<script, main>>
         /\ \A k \in Lanes \ {l} : lane'[k] = lane[k]
         /\ lost \subseteq lost'
         /\ Stays(l) \/ ((Advances(l) \/ Retires(l)) /\ \E m : m = ModelOf(l) /\ Settled(m)')
<1> DEFINE Moved == Advances(l) \/ Retires(l)
<1>0. lane \in [Lanes -> LaneState]
  BY DEF HeaderInv
<1>1. ASSUME NextJob(l) PROVE Moved /\ \A k \in Lanes \ {l} : lane'[k] = lane[k]
  BY <1>0, <1>1, NextJobLane
<1>2. CASE Check(l)
  <2>1. Alive(l) /\ UNCHANGED <<script, main, csv, lost>>
    BY <1>2 DEF Check, Alive
  <2>2. CASE Skips(l)
    <3>1. NextJob(l) /\ HasRow(ModelOf(l))
      BY <1>2, <2>2 DEF Check, Skips
    <3>2. \A m : HasRow(m) => Settled(m)'
      BY <2>1 DEF HasRow, Settled
    <3> QED
      BY <1>1, <2>1, <3>1, <3>2
  <2>3. CASE ~ Skips(l)
    <3>1. lane' = [lane EXCEPT ![l].pc = "measure"]
      BY <1>2, <2>3 DEF Check
    <3> QED
      BY <1>0, <2>1, <3>1 DEF Stays, LaneState
  <2> QED
    BY <2>2, <2>3
<1>3. ASSUME NEW ok \in BOOLEAN, RunArms(l, ok)
      PROVE  /\ Alive(l) /\ UNCHANGED <<script, main>> /\ lost \subseteq lost'
             /\ \A k \in Lanes \ {l} : lane'[k] = lane[k]
             /\ Stays(l)
  BY <1>0, <1>3 DEF RunArms, Alive, Stays, LaneState
<1>4. CASE Die(l)
  <2>1. Alive(l) /\ UNCHANGED <<script, main>> /\ lost \subseteq lost' /\ ModelOf(l) \in lost' /\ NextJob(l)
    BY <1>4 DEF Die, Alive
  <2>2. \A m : m \in lost' => Settled(m)'
    BY DEF Settled
  <2> QED
    BY <1>1, <2>1, <2>2
<1>5. CASE Open(l)
  <2>1. Alive(l) /\ UNCHANGED <<script, main>> /\ lost \subseteq lost'
    BY <1>5 DEF Open, Alive
  <2>2. CASE Refuses
    <3>1. ModelOf(l) \in lost' /\ NextJob(l)
      BY <1>5, <2>2 DEF Open
    <3>2. \A m : m \in lost' => Settled(m)'
      BY DEF Settled
    <3> QED
      BY <1>1, <2>1, <3>1, <3>2
  <2>3. CASE ~ Refuses
    <3>1. lane' = [lane EXCEPT ![l].pc = "write", ![l].header = Missing]
      BY <1>5, <2>3 DEF Open
    <3> QED
      BY <1>0, <2>1, <3>1 DEF Stays, LaneState
  <2> QED
    BY <2>2, <2>3
<1>6. CASE Write(l)
  <2>1. Alive(l) /\ UNCHANGED <<script, main, lost>> /\ csv' = Appended(l) /\ NextJob(l)
    BY <1>6 DEF Write, Alive
  <2>2. PICK r \in DOMAIN csv' : csv'[r] = RowOf(l)
    BY <2>1, AppendedRows DEF HeaderInv
  <2>3. RowOf(l).kind = "row" /\ RowOf(l).model = ModelOf(l)
    BY DEF RowOf
  <2>4. \A m : m = ModelOf(l) => Settled(m)'
    BY <2>2, <2>3 DEF Settled, HasRow
  <2> QED
    BY <1>1, <2>1, <2>4
<1> QED
  BY <1>2, <1>3, <1>4, <1>5, <1>6 DEF LaneStep, Ends

\* The steps that are no lane's leave file and lanes alone, or stop the lanes.
LEMMA OtherSteps ==
  ASSUME HeaderInv, [LadderNext]_ladderVars, ~ \E l \in Lanes : LaneStep(l)
  PROVE  /\ UNCHANGED <<script, csv>>
         /\ \/ Fork
            \/ Wait
            \/ Reboot /\ UNCHANGED lost
            \/ Rerun /\ UNCHANGED lane
            \/ UNCHANGED <<main, lane, lost>>
BY DEF LadderNext, ladderVars, Fork, Wait, Hang, ForeignExits, Reboot, Rerun

LEMMA PlaceInit == LadderInit => PlaceInv
<1> SUFFICES ASSUME LadderInit PROVE PlaceInv
  OBVIOUS
<1>1. script \in Scripts /\ script.steps \in Seq(Step) /\ script.queue \in [Lanes -> Seq(GpuJob)]
  BY ScriptsAssumption DEF LadderInit
<1>2. main = 1 /\ main \in 0 .. Len(script.steps) + 1
  <2>1. Len(script.steps) \in Nat
    BY <1>1
  <2> QED
    BY <2>1 DEF LadderInit
<1>3. ASSUME NEW l \in Lanes, Alive(l)
      PROVE  /\ lane[l].next \in DOMAIN script.queue[l]
             /\ l \in script.orphans
             /\ \A i \in DOMAIN script.steps : main <= i
  <2>1. l \in script.orphans /\ lane[l].next = 1
    BY <1>3 DEF LadderInit, Alive, Idle
  <2>2. script.queue[l] \in Seq(GpuJob) /\ script.queue[l] # <<>>
    BY <1>1, <2>1, ArrangedAssumption
  <2>3. 1 \in DOMAIN script.queue[l]
    BY <2>2
  <2>4. \A i \in DOMAIN script.steps : main <= i
    BY <1>1, <1>2
  <2> QED
    BY <2>1, <2>3, <2>4
<1> QED
  BY <1>1, <1>2, <1>3 DEF PlaceInv

LEMMA PlaceStep == HeaderInv /\ PlaceInv /\ [LadderNext]_ladderVars => PlaceInv'
<1> SUFFICES ASSUME HeaderInv, PlaceInv, [LadderNext]_ladderVars PROVE PlaceInv'
  OBVIOUS
<1>0. /\ lane \in [Lanes -> LaneState]
      /\ script \in Scripts /\ script.steps \in Seq(Step) /\ script.queue \in [Lanes -> Seq(GpuJob)]
      /\ Len(script.steps) \in Nat /\ DOMAIN script.steps = 1 .. Len(script.steps)
      /\ main \in 0 .. Len(script.steps) + 1
  BY ScriptsAssumption DEF HeaderInv, PlaceInv
<1>1. ASSUME NEW l \in Lanes, LaneStep(l) PROVE PlaceInv'
  <2>1. /\ Alive(l) /\ UNCHANGED <<script, main>>
        /\ \A k \in Lanes \ {l} : lane'[k] = lane[k]
        /\ Stays(l) \/ Advances(l) \/ Retires(l)
    BY <1>1, LaneSteps
  <2>2. Alive(l)' => lane'[l].next \in DOMAIN script.queue[l]
    <3>1. lane[l].next \in DOMAIN script.queue[l] /\ script.queue[l] \in Seq(GpuJob)
      BY <1>0, <2>1 DEF PlaceInv
    <3>2. CASE Stays(l)
      BY <3>1, <3>2 DEF Stays
    <3>3. CASE Advances(l)
      <4>1. /\ lane[l].next \in 1 .. Len(script.queue[l]) /\ Len(script.queue[l]) \in Nat
            /\ DOMAIN script.queue[l] = 1 .. Len(script.queue[l])
        BY <3>1
      <4>2. lane'[l].next = lane[l].next + 1 /\ lane[l].next < Len(script.queue[l])
        BY <3>3 DEF Advances
      <4> QED
        BY <4>1, <4>2
    <3>4. CASE Retires(l)
      BY <3>4 DEF Retires, Alive
    <3> QED
      BY <2>1, <3>2, <3>3, <3>4
  <2>3. \A k \in Lanes : Alive(k)' => Alive(k) /\ lane'[k].next \in DOMAIN script.queue[k]
    BY <2>1, <2>2 DEF Alive, PlaceInv
  <2>4. main' # 0
    BY <2>1 DEF PlaceInv, Alive
  <2> QED
    BY <2>1, <2>3, <2>4 DEF PlaceInv
<1>2. CASE Fork
  <2>1. /\ UNCHANGED script /\ main \in DOMAIN script.steps /\ script.steps[main].op = "fork"
        /\ main' = main + 1
    BY <1>2 DEF Fork, AtStep
  <2>2. main' \in 0 .. Len(script.steps) + 1 /\ main' # 0
    BY <1>0, <2>1
  <2>3. ASSUME NEW l \in Lanes, Alive(l)', NEW i \in DOMAIN script.steps, LastWait(script, l, i)
        PROVE  main' <= i
    <3>1. i # main
      BY <2>1, <2>3 DEF LastWait, Waits
    <3>2. CASE l \in script.steps[main].lanes
      <4>1. main \in Forks(script, l)
        BY <2>1, <3>2 DEF Forks
      <4>2. main < i
        BY <2>3, <4>1 DEF LastWait
      <4> QED
        BY <1>0, <2>1, <4>2
    <3>3. CASE l \notin script.steps[main].lanes
      <4>1. Alive(l)
        BY <1>2, <2>3, <3>3 DEF Fork, Alive
      <4>2. main <= i
        BY <2>3, <4>1 DEF PlaceInv
      <4> QED
        BY <1>0, <2>1, <3>1, <4>2
    <3> QED
      BY <3>2, <3>3
  <2>4. ASSUME NEW l \in Lanes, Alive(l)'
        PROVE  /\ lane'[l].next \in DOMAIN script.queue[l]
               /\ l \in script.orphans \/ \E f \in Forks(script, l) : f < main'
    <3>1. CASE l \in script.steps[main].lanes
      <4>1. lane'[l].next = 1
        BY <1>2, <3>1 DEF Fork, Idle
      <4>2. main \in Forks(script, l)
        BY <2>1, <3>1 DEF Forks
      <4>3. script.queue[l] \in Seq(GpuJob) /\ script.queue[l] # <<>>
        BY <1>0, <4>2, ArrangedAssumption
      <4>4. main < main'
        BY <1>0, <2>1
      <4> QED
        BY <4>1, <4>2, <4>3, <4>4
    <3>2. CASE l \notin script.steps[main].lanes
      <4>1. Alive(l) /\ lane'[l] = lane[l]
        BY <1>2, <2>4, <3>2 DEF Fork, Alive
      <4>2. \A f \in Forks(script, l) : f < main => f < main'
        BY <1>0, <2>1 DEF Forks
      <4> QED
        BY <4>1, <4>2 DEF PlaceInv
    <3> QED
      BY <3>1, <3>2
  <2> QED
    BY <1>0, <2>1, <2>2, <2>3, <2>4 DEF PlaceInv
<1>3. CASE Wait
  <2>1. /\ UNCHANGED <<script, lane>> /\ main \in DOMAIN script.steps
        /\ \A l \in script.steps[main].lanes : ~ Alive(l)
        /\ main' = main + 1
    BY <1>3 DEF Wait, AtStep, HasEnded
  <2>2. main' \in 0 .. Len(script.steps) + 1 /\ main' # 0
    BY <1>0, <2>1
  <2>3. ASSUME NEW l \in Lanes, Alive(l), NEW i \in DOMAIN script.steps, LastWait(script, l, i)
        PROVE  main' <= i
    <3>1. i # main
      BY <2>1, <2>3 DEF LastWait, Waits
    <3>2. main <= i
      BY <2>3 DEF PlaceInv
    <3> QED
      BY <1>0, <2>1, <3>1, <3>2
  <2>4. \A l \in Lanes : \A f \in Forks(script, l) : f < main => f < main'
    BY <1>0, <2>1 DEF Forks
  <2> QED
    BY <1>0, <2>1, <2>2, <2>3, <2>4 DEF PlaceInv, Alive
<1>4. CASE Reboot
  <2>1. UNCHANGED script /\ main' = 0 /\ \A l \in Lanes : lane'[l].pc = "idle"
    BY <1>4 DEF Reboot, Idle
  <2> QED
    BY <1>0, <2>1 DEF PlaceInv, Alive
<1>5. CASE Rerun
  <2>1. UNCHANGED <<script, lane>> /\ main' = 1 /\ main = 0
    BY <1>5 DEF Rerun
  <2>2. \A l \in Lanes : lane'[l].pc = "idle"
    BY <2>1 DEF PlaceInv
  <2> QED
    BY <1>0, <2>1, <2>2 DEF PlaceInv, Alive
<1>6. CASE UNCHANGED <<script, main, lane>>
  BY <1>6 DEF PlaceInv, Alive
<1> QED
  BY <1>1, <1>2, <1>3, <1>4, <1>5, <1>6, OtherSteps

LEMMA RowsInit == LadderInit => RowsInv
<1> SUFFICES ASSUME LadderInit PROVE RowsInv
  OBVIOUS
<1>1. script \in Scripts /\ csv \in OldFiles /\ csv \in Seq(Line)
  BY FilesAssumption DEF LadderInit
<1>2. OneRowPerModel
  BY <1>1, FilesAssumption DEF OneRowPerModel
<1>3. ASSUME NEW l \in Lanes PROVE Unwritten(l)
  <2>1. lane[l].pc # "write" /\ (lane[l].pc \in {"measure", "open"} => l \in script.orphans /\ lane[l].next = 1)
    BY DEF LadderInit, Idle
  <2>2. ASSUME l \in script.orphans, lane[l].next = 1, HasRow(ModelOf(l)) PROVE Refuses
    <3>1. script.queue[l] \in Seq(GpuJob) /\ script.queue[l] # <<>>
      BY <1>1, <2>2, ArrangedAssumption, ScriptsAssumption
    <3>2. JobAt(l) \in Queued(script, l)
      BY <2>2, <3>1 DEF JobAt, Queued
    <3>3. PICK i \in DOMAIN csv : csv[i].kind = "row" /\ csv[i].model = ModelOf(l)
      BY <2>2 DEF HasRow
    <3>4. csv[i].fields # "current"
      BY <1>1, <2>2, <3>2, <3>3, FilesAssumption DEF ModelOf
    <3>5. csv # <<>> /\ csv[i].fields = csv[1].fields
      BY <1>1, <3>3, FilesAssumption
    <3> QED
      BY <3>4, <3>5 DEF Refuses
  <2> QED
    BY <2>1, <2>2 DEF Unwritten
<1> QED
  BY <1>2, <1>3 DEF RowsInv

\* Models of two lanes differ: one lane's row is never another's.
LEMMA OwnModels ==
  ASSUME PlaceInv, NEW k \in Lanes, NEW l \in Lanes, k # l, Alive(k), Alive(l)
  PROVE  ModelOf(k) # ModelOf(l)
<1>1. JobAt(k) \in Queued(script, k) /\ JobAt(l) \in Queued(script, l)
  BY DEF PlaceInv, JobAt, Queued
<1> QED
  BY <1>1, ArrangedAssumption DEF PlaceInv, ModelOf

LEMMA RowsStep == HeaderInv /\ PlaceInv /\ RowsInv /\ [LadderNext]_ladderVars => RowsInv'
<1> SUFFICES ASSUME HeaderInv, PlaceInv, RowsInv, [LadderNext]_ladderVars PROVE RowsInv'
  OBVIOUS
<1>0. lane \in [Lanes -> LaneState] /\ script \in Scripts
  BY DEF HeaderInv, PlaceInv
<1>1. ASSUME NEW l \in Lanes, LaneStep(l), UNCHANGED csv PROVE RowsInv'
  <2>1. Alive(l) /\ UNCHANGED <<script, main>> /\ \A k \in Lanes \ {l} : lane'[k] = lane[k]
    BY <1>1, LaneSteps
  <2>2. OneRowPerModel'
    BY <1>1 DEF RowsInv, OneRowPerModel
  <2>3. \A k \in Lanes \ {l} : Unwritten(k)'
    BY <1>1, <2>1 DEF RowsInv, Unwritten, Refuses, HasRow, ModelOf, JobAt
  <2>4. Unwritten(l)'
    <3>1. ASSUME NextJob(l) PROVE Unwritten(l)'
      BY <1>0, <3>1, NextJobLane DEF Unwritten, Advances, Retires
    <3>2. ASSUME Check(l), ~ Skips(l) PROVE Unwritten(l)'
      <4>1. lane' = [lane EXCEPT ![l].pc = "measure"]
        BY <3>2 DEF Check
      <4>2. lane'[l].pc = "measure" /\ lane'[l].next = lane[l].next
        BY <1>0, <4>1 DEF LaneState
      <4> QED
        BY <1>1, <2>1, <3>2, <4>2 DEF Unwritten, Skips, HasRow, ModelOf, JobAt
    <3>3. ASSUME NEW ok \in BOOLEAN, RunArms(l, ok) PROVE Unwritten(l)'
      <4>1. lane[l].pc = "measure" /\ lane' = [lane EXCEPT ![l].pc = "open", ![l].ok = ok]
        BY <3>3 DEF RunArms
      <4>2. lane'[l].pc = "open" /\ lane'[l].next = lane[l].next
        BY <1>0, <4>1 DEF LaneState
      <4> QED
        BY <1>1, <2>1, <4>1, <4>2 DEF RowsInv, Unwritten, Refuses, HasRow, ModelOf, JobAt
    <3>4. ASSUME Open(l), ~ Refuses PROVE Unwritten(l)'
      <4>1. lane[l].pc = "open" /\ lane' = [lane EXCEPT ![l].pc = "write", ![l].header = Missing]
        BY <3>4 DEF Open
      <4>2. lane'[l].pc = "write" /\ lane'[l].next = lane[l].next
        BY <1>0, <4>1 DEF LaneState
      <4> QED
        BY <1>1, <2>1, <3>4, <4>1, <4>2 DEF RowsInv, Unwritten, HasRow, ModelOf, JobAt
    <3>5. Check(l) => (Skips(l) /\ NextJob(l)) \/ ~ Skips(l)
      BY DEF Check
    <3>6. Open(l) => (Refuses /\ NextJob(l)) \/ ~ Refuses
      BY DEF Open
    <3>7. Die(l) \/ Write(l) => NextJob(l)
      BY DEF Die, Write
    <3> QED
      BY <1>1, <3>1, <3>2, <3>3, <3>4, <3>5, <3>6, <3>7 DEF LaneStep, Ends
  <2> QED
    BY <2>2, <2>3, <2>4 DEF RowsInv
<1>2. ASSUME NEW l \in Lanes, Write(l) PROVE RowsInv'
  <2>1. /\ lane[l].pc = "write" /\ Alive(l) /\ NextJob(l) /\ csv' = Appended(l)
        /\ UNCHANGED <<script, main>>
    BY <1>2 DEF Write, Alive
  <2>2. /\ \A i \in DOMAIN csv : i \in DOMAIN csv' /\ csv'[i] = csv[i]
        /\ \E r \in DOMAIN csv' :
             /\ csv'[r] = RowOf(l)
             /\ \A i \in DOMAIN csv' : csv'[i].kind = "row" => i \in DOMAIN csv \/ i = r
    BY <2>1, AppendedRows DEF HeaderInv
  <2>3. PICK r \in DOMAIN csv' :
             /\ csv'[r] = RowOf(l)
             /\ \A i \in DOMAIN csv' : csv'[i].kind = "row" => i \in DOMAIN csv \/ i = r
    BY <2>2
  <2>4. csv'[r].model = ModelOf(l)
    BY <2>3 DEF RowOf
  <2>5. ~ HasRow(ModelOf(l))
    BY <2>1 DEF RowsInv, Unwritten
  <2>6. \A i \in DOMAIN csv' : csv'[i].kind = "row" =>
          i = r \/ (i \in DOMAIN csv /\ csv[i].kind = "row" /\ csv'[i].model = csv[i].model
                       /\ csv[i].model # ModelOf(l))
    BY <2>2, <2>3, <2>5 DEF HasRow
  <2>7. OneRowPerModel'
    BY <2>4, <2>6 DEF RowsInv, OneRowPerModel
  <2>8. ASSUME NEW k \in Lanes, k # l PROVE Unwritten(k)'
    <3>1. lane'[k] = lane[k]
      BY <1>0, <2>1, <2>8, NextJobLane
    <3>2. CASE Alive(k)
      <4>1. ModelOf(k) # ModelOf(l)
        BY <2>1, <2>8, <3>2, OwnModels
      <4>2. HasRow(ModelOf(k))' => HasRow(ModelOf(k))
        BY <2>1, <2>4, <2>6, <3>1, <4>1 DEF HasRow, ModelOf, JobAt
      <4>3. Refuses => Refuses'
        BY RowsStay
      <4> QED
        BY <3>1, <4>2, <4>3 DEF RowsInv, Unwritten
    <3>3. CASE ~ Alive(k)
      BY <3>1, <3>3 DEF Unwritten, Alive
    <3> QED
      BY <3>2, <3>3
  <2>9. Unwritten(l)'
    BY <1>0, <2>1, NextJobLane DEF Unwritten, Advances, Retires
  <2> QED
    BY <2>7, <2>8, <2>9 DEF RowsInv
<1>3. ASSUME NEW l \in Lanes, LaneStep(l) PROVE RowsInv'
  <2>1. Write(l) \/ UNCHANGED csv
    BY <1>3 DEF LaneStep, Ends, Check, RunArms, Die, Open
  <2> QED
    BY <1>1, <1>2, <1>3, <2>1
<1>4. CASE ~ \E l \in Lanes : LaneStep(l)
  <2>1. /\ UNCHANGED <<script, csv>>
        /\ \A k \in Lanes : lane'[k] = lane[k] \/ lane'[k].pc \in {"idle", "check"}
    <3>1. Fork \/ Reboot \/ UNCHANGED lane
      BY <1>4, OtherSteps DEF Wait
    <3>2. CASE Fork
      BY <1>0, <3>2 DEF Fork, Idle
    <3>3. CASE Reboot
      BY <3>3 DEF Reboot, Idle
    <3> QED
      BY <1>4, <3>1, <3>2, <3>3, OtherSteps
  <2>2. OneRowPerModel'
    BY <2>1 DEF RowsInv, OneRowPerModel
  <2>3. \A k \in Lanes : Unwritten(k)'
    BY <2>1 DEF RowsInv, Unwritten, Refuses, HasRow, ModelOf, JobAt
  <2> QED
    BY <2>2, <2>3 DEF RowsInv
<1> QED
  BY <1>3, <1>4

\* Of two lanes that need the same card one runs when the other has ended.
LEMMA CardsApart == PlaceInv => GPUsExclusive
<1> SUFFICES ASSUME PlaceInv, NEW k \in Lanes, NEW l \in Lanes, k # l, Running(k), Running(l)
             PROVE  JobAt(k).gpus \intersect JobAt(l).gpus = {}
  BY DEF GPUsExclusive
<1>1. Alive(k) /\ Alive(l)
  BY DEF Running, Alive
<1>2. script \in Scripts /\ script.steps \in Seq(Step) /\ main \in 0 .. Len(script.steps) + 1
  BY ScriptsAssumption DEF PlaceInv
<1>3. JobAt(k) \in Queued(script, k) /\ JobAt(l) \in Queued(script, l)
  BY <1>1 DEF PlaceInv, JobAt, Queued
<1>4. ASSUME NEW x \in Lanes, NEW y \in Lanes, Alive(x), Alive(y), Ordered(script, x, y)
      PROVE  FALSE
  <2>1. PICK f \in Forks(script, y) : f < main
    BY <1>4 DEF PlaceInv, Ordered
  <2>2. PICK i \in 1 .. f - 1 : LastWait(script, x, i)
    BY <1>4, <2>1 DEF Ordered
  <2>3. main <= i
    BY <1>4, <2>2 DEF PlaceInv, LastWait, Waits
  <2>4. f \in Int /\ main \in Int
    BY <1>2, <2>1 DEF Forks
  <2> QED
    BY <2>1, <2>2, <2>3, <2>4
<1> QED
  BY <1>1, <1>2, <1>3, <1>4, ArrangedAssumption

LEMMA HeadersInit == LadderInit => HeadersInv
<1> SUFFICES ASSUME LadderInit PROVE HeadersInv
  OBVIOUS
<1>1. csv \in Seq(Line) /\ \A i \in DOMAIN csv : csv[i].kind = "header" => i = 1
  BY FilesAssumption DEF LadderInit
<1>2. \A l \in Lanes : ~ AddsHeader(l)
  BY DEF LadderInit, Idle, AddsHeader
<1> QED
  BY <1>1, <1>2 DEF HeadersInv, HeadersSideBySide

\* The header a lane appends has its row below it; no other header is new.
LEMMA AppendedHeader ==
  ASSUME NEW l \in Lanes, IsLines(csv)
  PROVE  /\ Len(csv) \in Nat /\ DOMAIN csv = 1 .. Len(csv)
         /\ Len(Appended(l)) \in Nat /\ Len(csv) < Len(Appended(l))
         /\ \A i \in DOMAIN Appended(l) : Appended(l)[i].kind = "header" =>
              \/ i \in DOMAIN csv
              \/ /\ lane[l].header /\ i = Len(csv) + 1
                 /\ i < Len(Appended(l)) /\ Appended(l)[i + 1] = RowOf(l)
<1>1. PICK S : csv \in Seq(S)
  BY DEF IsLines
<1> DEFINE T == S \cup {Header, RowOf(l)}
           n == Len(csv)
<1>2. csv \in Seq(T) /\ Header \in T /\ RowOf(l) \in T /\ n \in Nat /\ DOMAIN csv = 1 .. n
  BY <1>1
<1>3. RowOf(l).kind # "header"
  BY DEF RowOf
<1>4. CASE lane[l].header
  <2>1. Appended(l) = csv \o <<Header, RowOf(l)>>
    BY <1>4 DEF Appended
  <2> HIDE DEF T
  <2>2. /\ DOMAIN Appended(l) = 1 .. n + 2 /\ Len(Appended(l)) = n + 2
        /\ Appended(l)[n + 2] = RowOf(l)
    BY <1>2, <2>1
  <2>3. \A i \in 1 .. n + 2 : i \in 1 .. n \/ i = n + 1 \/ i = n + 2
    BY <1>2
  <2>4. n + 1 < n + 2 /\ n < n + 2 /\ n + 2 \in Nat /\ (n + 1) + 1 = n + 2
    BY <1>2
  <2> QED
    BY <1>2, <1>3, <1>4, <2>2, <2>3, <2>4
<1>5. CASE ~ lane[l].header
  <2>1. Appended(l) = csv \o <<RowOf(l)>>
    BY <1>5 DEF Appended
  <2> HIDE DEF T
  <2>2. /\ DOMAIN Appended(l) = 1 .. n + 1 /\ Len(Appended(l)) = n + 1
        /\ Appended(l)[n + 1] = RowOf(l)
    BY <1>2, <2>1
  <2>3. \A i \in 1 .. n + 1 : i \in 1 .. n \/ i = n + 1
    BY <1>2
  <2>4. n < n + 1 /\ n + 1 \in Nat
    BY <1>2
  <2> QED
    BY <1>2, <1>3, <2>2, <2>3, <2>4
<1> QED
  BY <1>4, <1>5

\* A step that leaves file and script alone leaves the headers as they are.
LEMMA SameHeaders ==
  ASSUME UNCHANGED <<script, csv>>
  PROVE  HeadersSideBySide' = HeadersSideBySide
<1>1. script' = script /\ csv' = csv
  OBVIOUS
<1>2. \A m, n : SideBySide(m, n)' <=> SideBySide(m, n)
  BY <1>1 DEF SideBySide
<1>3. \A i : FollowedByRow(i)' <=> FollowedByRow(i)
  BY <1>1 DEF FollowedByRow
<1>4. HeadersSideBySide' <=> HeadersSideBySide
  BY <1>1, <1>2, <1>3, Zenon DEF HeadersSideBySide
<1> QED
  BY <1>4 DEF HeadersSideBySide

LEMMA HeadersStep == HeaderInv /\ PlaceInv /\ HeadersInv /\ [LadderNext]_ladderVars => HeadersInv'
<1> SUFFICES ASSUME HeaderInv, PlaceInv, HeadersInv, [LadderNext]_ladderVars PROVE HeadersInv'
  OBVIOUS
<1>0. lane \in [Lanes -> LaneState] /\ IsLines(csv)
  BY DEF HeaderInv
<1>1. ASSUME UNCHANGED <<script, csv>>,
             \A k \in Lanes : \/ lane'[k] = lane[k]
                             \/ lane'[k].pc # "write"
                             \/ csv = <<>>
      PROVE  HeadersInv'
  <2>1. HeadersSideBySide'
    BY <1>1, SameHeaders DEF HeadersInv
  <2>2. ASSUME NEW k \in Lanes, AddsHeader(k)' PROVE BesideHeaders(k)'
    <3>1. CASE csv = <<>>
      BY <1>1, <3>1 DEF BesideHeaders
    <3>2. CASE csv # <<>>
      <4>1. lane'[k] = lane[k]
        BY <1>1, <2>2, <3>2 DEF AddsHeader
      <4>2. BesideHeaders(k)
        BY <2>2, <4>1 DEF AddsHeader, HeadersInv
      <4> QED
        BY <1>1, <4>1, <4>2 DEF BesideHeaders, FollowedByRow, RanBeside, JobAt
    <3> QED
      BY <3>1, <3>2
  <2> QED
    BY <2>1, <2>2 DEF HeadersInv
<1>2. ASSUME NEW l \in Lanes, LaneStep(l), UNCHANGED csv PROVE HeadersInv'
  <2>1. UNCHANGED script /\ \A k \in Lanes \ {l} : lane'[k] = lane[k]
    BY <1>2, LaneSteps
  <2>2. lane'[l].pc # "write" \/ lane'[l].header = Missing
    <3>1. ASSUME NextJob(l) PROVE lane'[l].pc # "write"
      BY <1>0, <3>1, NextJobLane
    <3>2. ASSUME Check(l), ~ Skips(l) PROVE lane'[l].pc # "write"
      BY <1>0, <3>2 DEF Check, LaneState
    <3>3. ASSUME NEW ok \in BOOLEAN, RunArms(l, ok) PROVE lane'[l].pc # "write"
      BY <1>0, <3>3 DEF RunArms, LaneState
    <3>4. ASSUME Open(l), ~ Refuses PROVE lane'[l].header = Missing
      BY <1>0, <3>4 DEF Open, LaneState
    <3>5. /\ Check(l) => (Skips(l) /\ NextJob(l)) \/ ~ Skips(l)
          /\ Open(l) => (Refuses /\ NextJob(l)) \/ ~ Refuses
          /\ Die(l) \/ Write(l) => NextJob(l)
      BY DEF Check, Open, Die, Write
    <3> QED
      BY <1>2, <3>1, <3>2, <3>3, <3>4, <3>5 DEF LaneStep, Ends
  <2>3. CASE lane'[l].pc # "write" \/ csv = <<>>
    BY <1>1, <1>2, <2>1, <2>3
  <2>4. CASE lane'[l].pc = "write" /\ csv # <<>>
    <3>1. ~ lane'[l].header
      BY <2>2, <2>4 DEF Missing
    <3>2. HeadersSideBySide'
      BY <1>2, <2>1, SameHeaders DEF HeadersInv
    <3>3. ASSUME NEW k \in Lanes, AddsHeader(k)' PROVE BesideHeaders(k)'
      <4>1. k # l /\ lane'[k] = lane[k]
        BY <2>1, <3>1, <3>3 DEF AddsHeader
      <4>2. BesideHeaders(k)
        BY <3>3, <4>1 DEF AddsHeader, HeadersInv
      <4> QED
        BY <1>2, <2>1, <4>1, <4>2 DEF BesideHeaders, FollowedByRow, RanBeside, JobAt
    <3> QED
      BY <3>2, <3>3 DEF HeadersInv
  <2> QED
    BY <2>3, <2>4
<1>3. ASSUME NEW l \in Lanes, Write(l) PROVE HeadersInv'
  <2>1. /\ lane[l].pc = "write" /\ Running(l) /\ NextJob(l) /\ csv' = Appended(l)
        /\ UNCHANGED script
    BY <1>3 DEF Write, Running
  <2>2. /\ \A i \in DOMAIN csv : i \in DOMAIN csv' /\ csv'[i] = csv[i]
        /\ Len(csv) \in Nat /\ DOMAIN csv = 1 .. Len(csv) /\ Len(csv') \in Nat /\ Len(csv) < Len(csv')
    BY <1>0, <2>1, AppendedRows, AppendedHeader
  <2>3. \A i \in DOMAIN csv' : csv'[i].kind = "header" =>
          \/ i \in DOMAIN csv /\ csv[i].kind = "header"
          \/ /\ AddsHeader(l) /\ i = Len(csv) + 1
             /\ FollowedByRow(i)' /\ csv'[i + 1].model = ModelOf(l)
    <3>1. RowOf(l).kind = "row" /\ RowOf(l).model = ModelOf(l)
      BY DEF RowOf
    <3>2. \A i \in DOMAIN csv' : csv'[i].kind = "header" =>
              \/ i \in DOMAIN csv
              \/ /\ lane[l].header /\ i = Len(csv) + 1
                 /\ i < Len(csv') /\ csv'[i + 1] = RowOf(l)
      BY <1>0, <2>1, AppendedHeader
    <3> QED
      BY <2>1, <2>2, <3>1, <3>2 DEF AddsHeader, FollowedByRow
  <2>4. \A i \in DOMAIN csv : FollowedByRow(i) => FollowedByRow(i)' /\ csv'[i + 1] = csv[i + 1]
    <3> SUFFICES ASSUME NEW i \in DOMAIN csv, FollowedByRow(i)
                 PROVE  FollowedByRow(i)' /\ csv'[i + 1] = csv[i + 1]
      OBVIOUS
    <3>1. i + 1 \in DOMAIN csv /\ i < Len(csv')
      BY <2>2 DEF FollowedByRow
    <3> QED
      BY <2>2, <3>1 DEF FollowedByRow
  <2>5. JobAt(l) \in Queued(script, l) /\ ModelOf(l) = JobAt(l).model
    BY <2>1 DEF PlaceInv, Alive, JobAt, Queued, ModelOf
  <2>6. HeadersSideBySide'
    <3> SUFFICES ASSUME NEW i \in DOMAIN csv', NEW j \in DOMAIN csv', i < j,
                        csv'[i].kind = "header", csv'[j].kind = "header"
                 PROVE  /\ FollowedByRow(i)' /\ FollowedByRow(j)'
                        /\ SideBySide(csv[i + 1].model, csv[j + 1].model)'
      BY DEF HeadersSideBySide
    <3>1. i \in DOMAIN csv /\ csv[i].kind = "header"
      <4>1. CASE i = Len(csv) + 1
        <5>1. j = Len(csv) + 1 \/ j <= Len(csv)
          BY <2>2, <2>3
        <5> QED
          BY <2>2, <4>1, <5>1
      <4> QED
        BY <2>3, <4>1
    <3>2. CASE j \in DOMAIN csv /\ csv[j].kind = "header"
      BY <2>1, <2>4, <3>1, <3>2 DEF HeadersInv, HeadersSideBySide, SideBySide
    <3>3. CASE AddsHeader(l) /\ FollowedByRow(j)' /\ csv'[j + 1].model = ModelOf(l)
      <4>1. FollowedByRow(i) /\ RanBeside(l, csv[i + 1].model)
        BY <3>1, <3>3 DEF HeadersInv, BesideHeaders
      <4>2. SideBySide(csv[i + 1].model, ModelOf(l))
        BY <2>5, <4>1 DEF RanBeside, SideBySide
      <4> QED
        BY <2>1, <2>4, <3>1, <3>3, <4>1, <4>2 DEF SideBySide
    <3> QED
      BY <2>3, <3>2, <3>3
  <2>7. ASSUME NEW k \in Lanes, AddsHeader(k)' PROVE BesideHeaders(k)'
    <3>1. k # l /\ lane'[k] = lane[k]
      BY <1>0, <2>1, <2>7, NextJobLane DEF AddsHeader
    <3>2. AddsHeader(k) /\ BesideHeaders(k) /\ Running(k)
      BY <2>7, <3>1 DEF HeadersInv, AddsHeader, Running
    <3>3. JobAt(k)' = JobAt(k)
      BY <2>1, <3>1 DEF JobAt
    <3>4. JobAt(l).gpus \intersect JobAt(k).gpus = {}
      BY <2>1, <3>1, <3>2, CardsApart DEF GPUsExclusive
    <3>5. RanBeside(k, ModelOf(l))
      BY <2>5, <3>1, <3>4 DEF RanBeside
    <3> SUFFICES ASSUME NEW i \in DOMAIN csv', csv'[i].kind = "header"
                 PROVE  FollowedByRow(i)' /\ RanBeside(k, csv[i + 1].model)'
      BY DEF BesideHeaders
    <3>6. \A m : RanBeside(k, m)' = RanBeside(k, m)
      BY <2>1, <3>3 DEF RanBeside
    <3>7. CASE i \in DOMAIN csv /\ csv[i].kind = "header"
      <4>1. FollowedByRow(i) /\ RanBeside(k, csv[i + 1].model)
        BY <3>2, <3>7 DEF BesideHeaders
      <4> QED
        BY <2>1, <2>4, <3>3, <3>7, <4>1 DEF RanBeside
    <3>8. CASE FollowedByRow(i)' /\ csv'[i + 1].model = ModelOf(l)
      BY <2>1, <3>3, <3>5, <3>8 DEF RanBeside
    <3> QED
      BY <2>3, <3>7, <3>8
  <2> QED
    BY <2>6, <2>7 DEF HeadersInv
<1>4. CASE \E l \in Lanes : LaneStep(l)
  <2>1. PICK l \in Lanes : LaneStep(l)
    BY <1>4
  <2>2. Write(l) \/ UNCHANGED csv
    BY <2>1 DEF LaneStep, Ends, Check, RunArms, Die, Open
  <2> QED
    BY <1>2, <1>3, <2>1, <2>2
<1>5. CASE ~ \E l \in Lanes : LaneStep(l)
  <2>1. Fork \/ Reboot \/ UNCHANGED lane
    BY <1>5, OtherSteps DEF Wait
  <2>2. \A k \in Lanes : lane'[k] = lane[k] \/ lane'[k].pc # "write"
    <3>1. CASE Fork
      BY <1>0, <3>1 DEF Fork, Idle
    <3>2. CASE Reboot
      BY <3>2 DEF Reboot, Idle
    <3> QED
      BY <2>1, <3>1, <3>2
  <2> QED
    BY <1>1, <1>5, <2>2, OtherSteps
<1> QED
  BY <1>4, <1>5

LEMMA SettledInit == LadderInit => SettledInv
<1> SUFFICES ASSUME LadderInit, NEW l \in Lanes, Forks(script, l) # {}
             PROVE  /\ Alive(l) => SettledBefore(l, lane[l].next)
                    /\ lane[l].pc = "gone" => SettledBefore(l, Len(script.queue[l]) + 1)
                    /\ (\E f \in Forks(script, l) : f < main) => lane[l].pc # "idle"
  BY DEF SettledInv
<1>1. script \in Scripts /\ script.steps \in Seq(Step) /\ l \notin script.orphans
  BY ScriptsAssumption, ArrangedAssumption DEF LadderInit
<1>2. lane[l].pc = "idle"
  BY <1>1 DEF LadderInit, Idle
<1>3. \A f \in Forks(script, l) : ~ (f < main)
  BY <1>1 DEF LadderInit, Forks
<1> QED
  BY <1>2, <1>3 DEF Alive

LEMMA SettledStep == HeaderInv /\ PlaceInv /\ SettledInv /\ [LadderNext]_ladderVars => SettledInv'
<1> SUFFICES ASSUME HeaderInv, PlaceInv, SettledInv, [LadderNext]_ladderVars PROVE SettledInv'
  OBVIOUS
<1>0. /\ lane \in [Lanes -> LaneState]
      /\ script \in Scripts /\ script.steps \in Seq(Step) /\ script.queue \in [Lanes -> Seq(GpuJob)]
      /\ Len(script.steps) \in Nat /\ main \in Int
      /\ \A l \in Lanes : Forks(script, l) # {} => l \notin script.orphans
  BY ScriptsAssumption, ArrangedAssumption DEF HeaderInv, PlaceInv
<1>1. ASSUME UNCHANGED script, lost \subseteq lost',
             NEW l \in Lanes, NEW n, SettledBefore(l, n)
      PROVE  \A i \in DOMAIN script.queue[l] : i < n => Settled(script.queue[l][i].model)'
  <2>1. \A m : Settled(m) => Settled(m)'
    BY <1>1, RowsStay DEF Settled
  <2> QED
    BY <1>1, <2>1 DEF SettledBefore
<1>2. ASSUME NEW l \in Lanes, LaneStep(l) PROVE SettledInv'
  <2>1. /\ Alive(l) /\ UNCHANGED <<script, main>> /\ lost \subseteq lost'
        /\ \A k \in Lanes \ {l} : lane'[k] = lane[k]
        /\ Stays(l) \/ ((Advances(l) \/ Retires(l)) /\ \E m : m = ModelOf(l) /\ Settled(m)')
    BY <1>2, LaneSteps
  <2>2. ASSUME NEW k \in Lanes, NEW n, SettledBefore(k, n)
        PROVE  \A i \in DOMAIN script.queue[k] : i < n => Settled(script.queue[k][i].model)'
    BY <1>1, <2>1, <2>2
  <2>3. ASSUME NEW k \in Lanes, k # l, Forks(script, k) # {}
        PROVE  /\ Alive(k)' => SettledBefore(k, lane[k].next)'
               /\ lane'[k].pc = "gone" => SettledBefore(k, Len(script.queue[k]) + 1)'
               /\ (\E f \in Forks(script, k) : f < main') => lane'[k].pc # "idle"
    <3>1. lane'[k] = lane[k]
      BY <2>1, <2>3
    <3>2. Alive(k)' => SettledBefore(k, lane[k].next)'
      BY <2>1, <2>2, <2>3, <3>1 DEF SettledInv, Alive, SettledBefore
    <3>3. lane'[k].pc = "gone" => SettledBefore(k, Len(script.queue[k]) + 1)'
      BY <2>1, <2>2, <2>3, <3>1 DEF SettledInv, SettledBefore
    <3> QED
      BY <2>1, <2>3, <3>1, <3>2, <3>3 DEF SettledInv
  <2>4. ASSUME Forks(script, l) # {}
        PROVE  /\ Alive(l)' => SettledBefore(l, lane[l].next)'
               /\ lane'[l].pc = "gone" => SettledBefore(l, Len(script.queue[l]) + 1)'
               /\ lane'[l].pc # "idle"
    <3>1. /\ \A i \in DOMAIN script.queue[l] : i < lane[l].next => Settled(script.queue[l][i].model)'
          /\ lane[l].next \in DOMAIN script.queue[l]
          /\ l \notin script.orphans
      BY <1>0, <2>1, <2>2, <2>4 DEF SettledInv, PlaceInv
    <3>2. /\ script.queue[l] \in Seq(GpuJob) /\ Len(script.queue[l]) \in Nat
          /\ DOMAIN script.queue[l] = 1 .. Len(script.queue[l])
      BY <1>0
    <3>3. CASE Stays(l)
      BY <2>1, <3>1, <3>3 DEF Stays, SettledBefore, Alive
    <3>4. CASE ~ Stays(l)
      <4>1. Advances(l) \/ Retires(l)
        BY <2>1, <3>4
      <4>2. \A i \in DOMAIN script.queue[l] :
              i = lane[l].next => Settled(script.queue[l][i].model)'
        BY <2>1, <3>4 DEF ModelOf, JobAt
      <4>3. \A i \in DOMAIN script.queue[l] :
              i < lane[l].next + 1 => Settled(script.queue[l][i].model)'
        BY <3>1, <3>2, <4>2
      <4>4. CASE Advances(l)
        BY <2>1, <4>3, <4>4 DEF Advances, SettledBefore
      <4>5. CASE Retires(l)
        <5>1. lane'[l].pc = "gone" /\ ~ (lane[l].next < Len(script.queue[l]))
          BY <3>1, <4>5 DEF Retires
        <5>2. \A i \in DOMAIN script.queue[l] : i < lane[l].next + 1
          BY <3>1, <3>2, <5>1
        <5>3. SettledBefore(l, Len(script.queue[l]) + 1)'
          BY <2>1, <4>3, <5>2 DEF SettledBefore
        <5> QED
          BY <5>1, <5>3 DEF Alive
      <4> QED
        BY <4>1, <4>4, <4>5
    <3> QED
      BY <3>3, <3>4
  <2> QED
    BY <2>1, <2>3, <2>4 DEF SettledInv
<1>3. CASE Fork
  <2>1. /\ UNCHANGED <<script, csv, lost>> /\ main \in DOMAIN script.steps
        /\ script.steps[main].op = "fork" /\ main' = main + 1
    BY <1>3 DEF Fork, AtStep
  <2>2. SUFFICES ASSUME NEW l \in Lanes, Forks(script, l) # {}
                 PROVE  /\ Alive(l)' => SettledBefore(l, lane[l].next)'
                        /\ lane'[l].pc = "gone" => SettledBefore(l, Len(script.queue[l]) + 1)'
                        /\ (\E f \in Forks(script, l) : f < main') => lane'[l].pc # "idle"
    BY <2>1 DEF SettledInv
  <2>3. CASE l \in script.steps[main].lanes
    <3>1. lane'[l].pc = "check" /\ lane'[l].next = 1
      BY <1>3, <2>3 DEF Fork, Idle
    <3>2. script.queue[l] \in Seq(GpuJob)
      BY <1>0
    <3>3. \A i \in DOMAIN script.queue[l] : ~ (i < 1)
      BY <3>2
    <3> QED
      BY <2>1, <3>1, <3>3 DEF SettledBefore
  <2>4. CASE l \notin script.steps[main].lanes
    <3>1. lane'[l] = lane[l]
      BY <1>3, <2>4 DEF Fork
    <3>2. main \notin Forks(script, l)
      BY <2>4 DEF Forks
    <3>3. \A f \in Forks(script, l) : f < main' => f < main
      BY <1>0, <2>1, <3>2 DEF Forks
    <3> QED
      BY <2>1, <2>2, <3>1, <3>3 DEF SettledInv, SettledBefore, Settled, HasRow, Alive
  <2> QED
    BY <2>3, <2>4
<1>4. CASE Wait
  <2>1. /\ UNCHANGED <<script, csv, lost, lane>> /\ main \in DOMAIN script.steps
        /\ script.steps[main].op = "wait" /\ main' = main + 1
    BY <1>4 DEF Wait, AtStep
  <2>2. \A l \in Lanes : \A f \in Forks(script, l) : f < main' => f < main
    <3>1. \A l \in Lanes : main \notin Forks(script, l)
      BY <2>1 DEF Forks
    <3> QED
      BY <1>0, <2>1, <3>1 DEF Forks
  <2> QED
    BY <2>1, <2>2 DEF SettledInv, SettledBefore, Settled, HasRow, Alive
<1>5. CASE (Reboot \/ Rerun) /\ UNCHANGED script
  <2>1. /\ main' \in {0, 1} /\ \A l \in Lanes : lane'[l].pc = "idle"
    BY <1>5 DEF Reboot, Rerun, Idle, PlaceInv
  <2>2. \A l \in Lanes : \A f \in Forks(script, l) : ~ (f < main')
    BY <1>0, <2>1 DEF Forks
  <2> QED
    BY <1>5, <2>1, <2>2 DEF SettledInv, Alive
<1>6. CASE UNCHANGED <<script, csv, main, lane, lost>>
  BY <1>6 DEF SettledInv, SettledBefore, Settled, HasRow, Alive
<1> QED
  BY <1>2, <1>3, <1>4, <1>5, <1>6, OtherSteps

\* Rows of the shared CSV always stand under a header with their own fields, and a
\* second header comes only from a lane that ran beside the one that wrote the first:
\* however many lanes find the file missing at once and whenever they are killed.
THEOREM OneLayout == LadderSpec => []RowsUnderTheirHeader
<1>1. HeaderInv /\ HeadersInv => RowsUnderTheirHeader
  BY DEF HeaderInv, HeadersInv, RowsUnderTheirHeader
<1> QED
  BY <1>1, HeaderInit, HeaderStep, PlaceInit, PlaceStep, HeadersInit, HeadersStep, PTL DEF LadderSpec

\* A model has one row at most, however often the machine reboots, whatever a
\* script that is started again finds, and beside the orphans of an earlier one.
THEOREM OneRowEach == LadderSpec => []OneRowPerModel
<1>1. RowsInv => OneRowPerModel
  BY DEF RowsInv
<1> QED
  BY <1>1, HeaderInit, HeaderStep, PlaceInit, PlaceStep, RowsInit, RowsStep, PTL DEF LadderSpec

\* Two jobs that need the same card never run together: what a script waits for,
\* and polls, really ends the one before the other starts, after a reboot too.
THEOREM CardsNotShared == LadderSpec => []GPUsExclusive
<1>1. PlaceInv => GPUsExclusive
  BY CardsApart
<1> QED
  BY <1>1, HeaderInit, HeaderStep, PlaceInit, PlaceStep, PTL DEF LadderSpec

\* A script that has come to its end leaves no model of its lanes unsettled: each
\* has a row, or a job of it ended without one since the script was started.
THEOREM EveryModelSettled == LadderSpec => []DoneMeansSettled
<1>1. PlaceInv /\ SettledInv => DoneMeansSettled
  <2> SUFFICES ASSUME PlaceInv, SettledInv, AllDone, NEW l \in Forked, NEW m \in ModelsOf(l)
               PROVE  HasRow(m) \/ m \in lost
    BY DEF DoneMeansSettled
  <2>1. /\ script \in Scripts /\ script.steps \in Seq(Step) /\ script.queue \in [Lanes -> Seq(GpuJob)]
        /\ main = Len(script.steps) + 1 /\ Len(script.steps) \in Nat
        /\ DOMAIN script.steps = 1 .. Len(script.steps)
    BY ScriptsAssumption DEF PlaceInv, AllDone
  <2>2. PICK f \in DOMAIN script.steps : script.steps[f].op = "fork" /\ l \in script.steps[f].lanes
    BY DEF Forked
  <2>3. l \in Lanes /\ f \in Forks(script, l) /\ f < main
    <3>1. script.steps[f] \in Step
      BY <2>1, <2>2
    <3>2. f \in 1 .. Len(script.steps)
      BY <2>1, <2>2
    <3> QED
      BY <2>1, <2>2, <3>1, <3>2 DEF Step, Forks
  <2>4. PICK i \in DOMAIN script.steps : LastWait(script, l, i)
    BY <2>1, <2>3, ArrangedAssumption
  <2>5. ~ Alive(l)
    BY <2>1, <2>3, <2>4 DEF PlaceInv
  <2>6. SettledBefore(l, Len(script.queue[l]) + 1)
    BY <2>3, <2>5 DEF SettledInv, Alive
  <2>7. PICK j \in DOMAIN script.queue[l] : m = script.queue[l][j].model
    BY DEF ModelsOf
  <2>8. script.queue[l] \in Seq(GpuJob)
    BY <2>1, <2>3
  <2>9. j < Len(script.queue[l]) + 1
    BY <2>7, <2>8
  <2> QED
    BY <2>6, <2>7, <2>9 DEF SettledBefore, Settled
<1> QED
  BY <1>1, HeaderInit, HeaderStep, PlaceInit, PlaceStep, SettledInit, SettledStep, PTL DEF LadderSpec
=============================================================================
