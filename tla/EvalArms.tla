------------------------------ MODULE EvalArms ------------------------------
\* An evaluation driver (tools/eval_*.py): one process measures a list of arms
\* for each point (a model, a sequence length), one after the other, and collects
\* a row per arm in a CSV.  All arms share os.environ and the imported modules.
\* Some drivers read the CSV back when they start and skip what it holds; some
\* rewrite it after every arm.  The process may be killed at any step and is
\* then started again.
EXTENDS Adapters, Integers, FiniteSets, SequencesExt

CONSTANTS
  Drivers,     \* the drivers by name, see Driver
  MaxErrors,   \* bound on arms that fail
  MaxCrashes   \* bound on kills

\* An arm of a driver: its name in the CSV, what the driver writes to the
\* environment before setup_model, the adapter.
Arm(key, sets, adapter) == [key |-> key, sets |-> sets, adapter |-> adapter]
Plain(key, adapter) == Arm(key, NoEnv, adapter)

\* The rest of a driver; opts holds what differs from these values.
\*   start   written to the environment when the driver starts
\*   points  models, sequence lengths or tasks, each with all the arms
\*   before, after  variables popped before and after each arm
\*   resume  the CSV is read at the start and its arms are skipped
\*   save    the CSV is rewritten after "each" arm, after each "measured" arm (a model
\*           that does not load waits for the next one), each "point", or at the "end"
\*   catch   a failing arm gives a "row", or the exception ends the process ("raise"),
\*           or ends it unless the model had loaded ("eval")
\*   catches the arms that are caught differently
\*   again   an arm that runs out of memory is torn down and set up again
\*   header  columns: the "union" of all rows', or the "first" row's, and a row with others
\*           raises; when failed rows have others than measured ones, "exact"
\*   refs    arms the deltas of a point are taken against
\*   keys    deltas compare point names as "text", as read or computed ("raw"), or
\*           take the references from a table of their own ("cell")
Driver(arms, opts) ==
  opts @@ [arms |-> arms, start |-> NoEnv, points |-> 1, before |-> {}, after |-> {},
           resume |-> FALSE, save |-> "end", catch |-> "row",
           catches |-> NoEnv, again |-> FALSE, header |-> "union", refs |-> {}, keys |-> "text"]

ASSUME BoundsAssumption == MaxErrors \in Nat /\ MaxCrashes \in Nat
ASSUME DriversAssumption ==
  \A d \in {Drivers[n] : n \in DOMAIN Drivers} :
    /\ d.points \in Nat \ {0}
    /\ Len(d.arms) \in Nat \ {0} /\ DOMAIN d.arms = 1 .. Len(d.arms)
    /\ d.save \in {"each", "measured", "point", "end"}
    /\ {d.catch} \union {d.catches[k] : k \in DOMAIN d.catches} \subseteq {"row", "eval", "raise"}
    /\ d.header \in {"union", "first", "exact"} /\ d.keys \in {"text", "raw", "cell"}
    /\ \A i, j \in DOMAIN d.arms : d.arms[i].key = d.arms[j].key => i = j
    /\ \A i \in DOMAIN d.arms :
         DOMAIN d.arms[i].sets \union DOMAIN d.arms[i].adapter.writes \subseteq ConfigKnobs \union LiveKnobs
    /\ d.before \union d.after \union DOMAIN d.start \subseteq ConfigKnobs \union LiveKnobs
    \* the drivers that resume write a fixed list of columns; those that save after
    \* measured arms compute no deltas
    /\ d.resume => d.header = "union"
    /\ d.save = "measured" => d.refs = {}

VARIABLES
  driver,   \* name of the driver that runs
  pc,       \* what the process does next
  env,      \* os.environ
  rope,     \* replacements of apply_rotary_pos_emb in force
  config,   \* CacheConfig of the model under measurement
  pos,      \* next (point, arm), counted through all points
  point,    \* the point whose arms are being measured
  rows,     \* rows in memory
  file,     \* rows on disk
  measured, \* history: measurements of a resuming driver, over all starts
  written,  \* history: arms with an ok row in some complete CSV
  torn,     \* history: the process was killed inside a rewrite of the CSV
  errors, crashes
vars == <<driver, pc, env, rope, config, pos, point, rows, file, measured, written, torn, errors, crashes>>

\* The table under a name of its own, which TLC evaluates once.
Table == Drivers
D == Table[driver]
NumArms == Len(D.arms)
NumJobs == D.points * NumArms
PointOf(p) == 1 + ((p - 1) \div NumArms)
ArmOf(p) == D.arms[1 + ((p - 1) % NumArms)]
JobOf(row) == <<row.point, row.key>>
Job(p) == <<PointOf(p), ArmOf(p).key>>
Jobs == {Job(p) : p \in 1..NumJobs}

Init ==
  /\ driver \in DOMAIN Drivers
  /\ pc = "start"
  /\ env = NoEnv /\ rope = <<>> /\ config = NoEnv
  /\ pos = 1 /\ point = 1
  /\ rows = <<>> /\ file = <<>>
  /\ measured = 0 /\ written = {} /\ torn = FALSE /\ errors = 0 /\ crashes = 0

-----------------------------------------------------------------------------
\* Mutant: the CSV is read for the arms to skip, its rows are not kept.
Loaded_empty == <<>>

\* rows = list(csv.DictReader(...))
Loaded ==
  IF D.resume THEN [i \in DOMAIN file |-> [file[i] EXCEPT !.read = TRUE]] ELSE <<>>

Begin ==
  /\ pc = "start"
  /\ env' = D.start
  /\ rows' = Loaded
  /\ pos' = 1 /\ point' = 1
  /\ pc' = "next"
  /\ UNCHANGED <<driver, rope, config, file, measured, written, torn, errors, crashes>>

\* Mutant: the rows read from the CSV are not looked up.
Done_never(p) == FALSE
\* Mutant: an arm measured at one point counts for every point.
Done_any_point(p) == D.resume /\ \E i \in DOMAIN rows : rows[i].key = ArmOf(p).key /\ rows[i].read

\* The skip test compares texts on both sides.
Done(p) == D.resume /\ \E i \in DOMAIN rows : JobOf(rows[i]) = Job(p) /\ rows[i].read

AtArm == pc = "next" /\ pos <= NumJobs /\ PointOf(pos) = point

Skip ==
  /\ AtArm /\ Done(pos)
  /\ pos' = pos + 1
  /\ UNCHANGED <<driver, pc, env, rope, config, point, rows, file, measured, written, torn, errors, crashes>>

\* pops, the driver's own writes, then setup_model's.
Configured(e, arm) == Updated(Updated(Without(e, D.before), arm.sets), arm.adapter.writes)
Patched(r, arm) == IF arm.adapter.rope = Empty THEN r ELSE Append(r, arm.adapter.rope)

\* Mutant: the replaced rotary function stays in place.
Unpatched_never(r, arm) == r

\* teardown puts back the function it found.
Unpatched(r, arm) == IF arm.adapter.rope = Empty THEN r ELSE Front(r)

\* Mutant: only measured arms give a row.
Recorded_ok_only(ok) ==
  IF ok THEN Append(rows, [point |-> point, key |-> ArmOf(pos).key, ok |-> ok, delta |-> FALSE, read |-> FALSE])
  ELSE rows

Recorded(ok) ==
  Append(rows, [point |-> point, key |-> ArmOf(pos).key, ok |-> ok, delta |-> FALSE, read |-> FALSE])

\* A row is recorded; the driver goes on, or rewrites the CSV first.
Record(ok, stage) ==
  /\ rows' = Recorded(ok)
  /\ pos' = pos + 1
  /\ pc' = IF D.save = "each" \/ (D.save = "measured" /\ stage = "measure") THEN "truncate" ELSE "next"

Catch(arm) == IF arm.key \in DOMAIN D.catches THEN D.catches[arm.key] ELSE D.catch
Catches(stage) == Catch(ArmOf(pos)) \in IF stage = "measure" THEN {"row", "eval"} ELSE {"row"}

\* The exception leaves main: what was not saved is lost.
Raise == pc' = "dead" /\ UNCHANGED <<rows, pos>>

Stub ==
  /\ AtArm /\ ~Done(pos)
  /\ ArmOf(pos).adapter.how = "stub"
  /\ Record(FALSE, "setup")
  /\ UNCHANGED <<driver, env, rope, config, point, file, measured, written, torn, errors, crashes>>

Setup ==
  /\ AtArm /\ ~Done(pos)
  /\ ArmOf(pos).adapter.how # "stub"
  /\ env' = Configured(env, ArmOf(pos))
  /\ config' = Frozen(ArmOf(pos).adapter, env')
  /\ rope' = Patched(rope, ArmOf(pos))
  /\ pc' = "measure"
  /\ UNCHANGED <<driver, pos, point, rows, file, measured, written, torn, errors, crashes>>

\* The model does not load: the variables are written, nothing is patched.
SetupFails ==
  /\ AtArm /\ ~Done(pos)
  /\ ArmOf(pos).adapter.how # "stub"
  /\ errors < MaxErrors /\ errors' = errors + 1
  /\ IF Catches("setup") THEN Record(FALSE, "setup") ELSE Raise
  /\ env' = Without(Configured(env, ArmOf(pos)), D.after)
  /\ UNCHANGED <<driver, rope, config, point, file, measured, written, torn, crashes>>

\* The evaluation, then teardown and the driver's pops, whatever came of it.
Measure(ok) ==
  /\ pc = "measure"
  /\ ok \/ errors < MaxErrors
  /\ errors' = IF ok THEN errors ELSE errors + 1
  /\ measured' = IF D.resume THEN measured + 1 ELSE measured
  /\ IF ok \/ Catches("measure") THEN Record(ok, "measure") ELSE Raise
  /\ env' = Without(env, D.after)
  /\ rope' = Unpatched(rope, ArmOf(pos))
  /\ config' = NoEnv
  /\ UNCHANGED <<driver, point, file, written, torn, crashes>>

\* One of the attempts before the last; the last one is Measure(FALSE).
OutOfMemory ==
  /\ pc = "measure"
  /\ D.again
  /\ errors < MaxErrors /\ errors' = errors + 1
  /\ rope' = Unpatched(rope, ArmOf(pos))
  /\ config' = NoEnv
  /\ pc' = "next"
  /\ UNCHANGED <<driver, env, pos, point, rows, file, measured, written, torn, crashes>>

-----------------------------------------------------------------------------
\* Point names read from the CSV are texts, those of fresh rows may be numbers,
\* which a look-up by text does not find.
IsTarget(row) == row.point = point /\ row.ok /\ (D.keys = "text" \/ row.read)
IsReference(row) ==
  row.point = point /\ row.ok /\ row.key \in D.refs /\ (D.keys # "raw" \/ row.read)

\* Mutant: the deltas go to the rows of this start only.
WithDeltas_fresh ==
  [i \in DOMAIN rows |->
     [rows[i] EXCEPT !.delta = @ \/ /\ IsTarget(rows[i]) /\ ~rows[i].read
                                    /\ \E j \in DOMAIN rows : IsReference(rows[j])]]

WithDeltas ==
  [i \in DOMAIN rows |->
     [rows[i] EXCEPT !.delta = @ \/ /\ IsTarget(rows[i])
                                    /\ \E j \in DOMAIN rows : IsReference(rows[j])]]

EndPoint ==
  /\ pc = "next"
  /\ pos > point * NumArms
  /\ rows' = WithDeltas
  /\ point' = point + 1
  /\ pc' = IF D.save = "point" \/ (D.save = "each" /\ D.refs # {})
                \/ (D.save = "end" /\ point = D.points)
             THEN "truncate"
             ELSE IF point = D.points THEN "done" ELSE "next"
  /\ UNCHANGED <<driver, env, rope, config, pos, file, measured, written, torn, errors, crashes>>

\* open(path, "w")
Truncate ==
  /\ pc = "truncate"
  /\ file' = <<>>
  /\ pc' = "fill"
  /\ UNCHANGED <<driver, env, rope, config, pos, point, rows, measured, written, torn, errors, crashes>>

\* DictWriter raises on a row with columns the first row lacks.
Misfits == {i \in DOMAIN rows :
              \/ D.header = "first" /\ ~rows[1].ok /\ rows[i].ok
              \/ D.header = "exact" /\ rows[1].ok # rows[i].ok}

\* the rows before that one are in the file
FillRaises ==
  /\ pc = "fill" /\ Misfits # {}
  /\ file' = SubSeq(rows, 1, Min(Misfits) - 1)
  /\ pc' = "dead"
  /\ UNCHANGED <<driver, env, rope, config, pos, point, rows, measured, written, torn, errors, crashes>>

\* the rows are written and the file closed
Fill ==
  /\ pc = "fill" /\ Misfits = {}
  /\ file' = rows
  /\ written' = written \union {JobOf(rows[i]) : i \in {j \in DOMAIN rows : rows[j].ok}}
  /\ pc' = IF point > D.points THEN "done" ELSE "next"
  /\ UNCHANGED <<driver, env, rope, config, pos, point, rows, measured, torn, errors, crashes>>

-----------------------------------------------------------------------------
Crash ==
  /\ pc \notin {"start", "done", "dead"}
  /\ crashes < MaxCrashes
  /\ crashes' = crashes + 1
  /\ torn' = (torn \/ pc = "fill")
  /\ pc' = "dead"
  /\ UNCHANGED <<driver, env, rope, config, pos, point, rows, file, measured, written, errors>>

\* A new process.
Restart ==
  /\ pc = "dead"
  /\ pc' = "start"
  /\ env' = NoEnv /\ rope' = <<>> /\ config' = NoEnv /\ rows' = <<>>
  /\ UNCHANGED <<driver, pos, point, file, measured, written, torn, errors, crashes>>

Next ==
  \/ Begin \/ Skip \/ Stub \/ Setup \/ SetupFails
  \/ \E ok \in BOOLEAN : Measure(ok)
  \/ OutOfMemory
  \/ EndPoint \/ Truncate \/ Fill \/ FillRaises
  \/ Crash \/ Restart

Spec == Init /\ [][Next]_vars

-----------------------------------------------------------------------------

\* An arm is measured under the settings it would have alone in a fresh process:
\* nothing an earlier arm wrote to the environment or patched in the imported
\* modules reaches it, whichever arms were skipped or failed before it.
Alone(arm) ==
  LET e == Configured(D.start, arm) IN
  Effective(arm.adapter, Frozen(arm.adapter, e), e, Patched(<<>>, arm))
MeasuredAlone ==
  pc = "measure" =>
    LET arm == ArmOf(pos) IN Effective(arm.adapter, config, env, rope) = Alone(arm)

\* The condition on a driver's table under which its arms do not reach each other:
\* each variable a measured arm depends on is written by the arm itself or popped
\* before it; or the driver pops it after each arm, where that gives what it started
\* with, or each arm that may have run before writes what it started with.
Writes(arm) == Updated(arm.sets, arm.adapter.writes)
Reads(d, arm) ==
  LET e == Updated(Without(d.start, d.before), Writes(arm))
      r == Relevant(Frozen(arm.adapter, e), e) IN
  IF arm.adapter.how \in {"hf", "stub"} THEN {} ELSE r.live \union r.config
Earlier(d, i) == {d.arms[j] : j \in {n \in DOMAIN d.arms : n < i \/ d.points > 1}}
Unaffected(d, i, k) ==
  \/ k \in DOMAIN Writes(d.arms[i]) \union d.before
  \/ k \in d.after /\ Value(d.start, k) = Value(NoEnv, k)
  \/ /\ k \notin d.after
     /\ \A arm \in Earlier(d, i) : k \in DOMAIN Writes(arm) => Value(Writes(arm), k) = Value(d.start, k)
Isolated(d) == \A i \in DOMAIN d.arms : \A k \in Reads(d, d.arms[i]) : Unaffected(d, i, k)

\* A driver that ends leaves exactly one row for every arm of every point, after
\* any failures, kills and restarts, and on disk what it has in memory.  (A driver
\* that saves after measured arms alone loses models that did not load when no
\* measured arm follows them; when it measured none, the CSV of an earlier start
\* stays, which may show a measurement this start did not get.)
Held(table) == [i \in DOMAIN table |-> <<JobOf(table[i]), table[i].ok>>]
NoArmLost ==
  pc = "done" =>
    /\ \A j \in Jobs : Cardinality({i \in DOMAIN rows : JobOf(rows[i]) = j}) = 1
    /\ \/ Held(file) = Held(rows)
       \/ /\ D.save = "measured"
          /\ \/ \A i \in DOMAIN rows : ~rows[i].ok
             \/ /\ IsPrefix(Held(file), Held(rows))
                /\ \A i \in Len(file) + 1 .. Len(rows) : ~rows[i].ok

\* A resuming driver never loses a measurement that was once on disk, except when
\* it is killed between truncating the CSV and closing it.
WrittenRowsStay ==
  D.resume /\ ~torn /\ pc # "fill" =>
    \A j \in written : \E i \in DOMAIN file : JobOf(file[i]) = j /\ file[i].ok

\* With a rewrite after each arm a kill costs one measurement, not the run.
CrashCostsOneArm ==
  D.resume /\ D.save = "each" /\ ~torn => measured <= NumJobs + crashes + errors

\* At the end each measured row has its deltas when the point's reference was
\* measured, also when row and reference come from different starts.
DeltasComplete ==
  pc = "done" /\ D.keys = "text" =>
    \A i, j \in DOMAIN file :
      file[i].ok /\ file[j].ok /\ file[j].point = file[i].point /\ file[j].key \in D.refs => file[i].delta
=============================================================================
