------------------------------- MODULE Ladder -------------------------------
\* The "ladder": shell scripts that measure one model after another, several at
\* a time on disjoint GPUs, and append one row per model to a shared CSV
\* (scripts/*ladder*.sh and run_bgtq_adapter.py).  A script forks lanes (a
\* subshell with a queue of models), waits for children and polls the pids of
\* jobs an earlier, killed script left running.  The machine may reboot; the
\* script is then started again and skips the models that have a row.
EXTENDS Integers, Sequences, FiniteSets, SequencesExt

CONSTANTS
  Lanes,       \* subshells and orphan jobs
  Models,
  GPUs,
  Scripts,     \* the scripts, see ScriptsAssumption
  OldFiles,    \* contents the CSV may have before the first start
  MaxReboots,  \* bound on reboots
  MaxFailures, \* bound on jobs that die and on arms that raise
  MaxHangs     \* bound on jobs that never end

GpuJob == [model : Models, gpus : SUBSET GPUs]
Step == [op : {"fork", "wait"}, lanes : SUBSET Lanes]
\* A line of the CSV: a header names the fields, a row follows the fields its
\* writer knows.  `ok` is FALSE when an arm raised and its perplexity is 0.
Fields == {"current", "older"}
Line == [kind : {"header"}, fields : Fields]
          \union [kind : {"row"}, fields : Fields, model : Models, ok : BOOLEAN]

ASSUME ScriptsAssumption ==
  Scripts \subseteq [steps : Seq(Step), queue : [Lanes -> Seq(GpuJob)],
                     orphans : SUBSET Lanes]

\* The steps of script s that fork lane l, and those that wait for it.
Forks(s, l) == {i \in DOMAIN s.steps : s.steps[i].op = "fork" /\ l \in s.steps[i].lanes}
Waits(s, l) == {i \in DOMAIN s.steps : s.steps[i].op = "wait" /\ l \in s.steps[i].lanes}
Queued(s, l) == {s.queue[l][i] : i \in DOMAIN s.queue[l]}

\* Step i waits for lane l, which is not forked again from there on.
LastWait(s, l, i) == i \in Waits(s, l) /\ \A f \in Forks(s, l) : f < i
\* Lane l is forked after the script has waited for lane k.
Ordered(s, k, l) ==
  l \notin s.orphans /\ \A f \in Forks(s, l) : \E i \in 1 .. f - 1 : LastWait(s, k, i)

\* How the scripts arrange their lanes: a lane that is started has work and is not
\* a job of an earlier script, the script waits for it, each model is in one lane,
\* and of two lanes that need the same card one is started after the other.
ASSUME ArrangedAssumption ==
  \A s \in Scripts : \A l \in Lanes :
    /\ l \in s.orphans \/ Forks(s, l) # {} => s.queue[l] # <<>>
    /\ Forks(s, l) # {} => l \notin s.orphans /\ \E i \in DOMAIN s.steps : LastWait(s, l, i)
    /\ \A k \in Lanes \ {l} : \A a \in Queued(s, k), b \in Queued(s, l) :
         /\ a.model # b.model
         /\ a.gpus \intersect b.gpus # {} => Ordered(s, k, l) \/ Ordered(s, l, k)
\* An old file was written by one layout of the writer, one header first, and has
\* a row for each model at most; none, in the layout of today, for a model that a
\* job of an earlier script is still measuring.
ASSUME FilesAssumption ==
  \A f \in OldFiles :
    /\ f \in Seq(Line)
    /\ \A i \in DOMAIN f : (f[i].kind = "header" <=> i = 1) /\ f[i].fields = f[1].fields
    /\ \A i, j \in DOMAIN f :
         f[i].kind = "row" /\ f[j].kind = "row" /\ f[i].model = f[j].model => i = j
    /\ \A i \in DOMAIN f, s \in Scripts : \A l \in s.orphans :
         f[i].kind = "row" /\ f[i].fields = "current" =>
           \A a \in Queued(s, l) : a.model # f[i].model
ASSUME LadderBounds ==
  MaxReboots \in Nat /\ MaxFailures \in Nat /\ MaxHangs \in Nat

VARIABLES
  script,   \* the script that is run
  csv,      \* lines of the shared file
  main,     \* next step of the main shell, 0 when it is not running
  lane,     \* process of each lane
  hung,     \* lanes whose job never ends
  reused,   \* orphan pids that a process of someone else got after a reboot
  lost,     \* models whose job ended without a row since the last start
  reboots, failures
ladderVars == <<script, csv, main, lane, hung, reused, lost, reboots, failures>>

Idle == [pc |-> "idle", next |-> 1, ok |-> TRUE, header |-> FALSE]
Alive(l) == lane[l].pc \notin {"idle", "gone"}
Running(l) == lane[l].pc \in {"measure", "open", "write"}
JobAt(l) == script.queue[l][lane[l].next]
ModelOf(l) == JobAt(l).model
ModelsOf(l) == {script.queue[l][i].model : i \in DOMAIN script.queue[l]}
Forked == UNION {script.steps[i].lanes : i \in {j \in DOMAIN script.steps : script.steps[j].op = "fork"}}
AllDone == main = Len(script.steps) + 1

\* grep -q "^model,"
HasRow(m) == \E i \in DOMAIN csv : csv[i].kind = "row" /\ csv[i].model = m

LadderInit ==
  /\ script \in Scripts
  /\ csv \in OldFiles
  /\ main = 1
  /\ lane = [l \in Lanes |-> IF l \in script.orphans
                               THEN [Idle EXCEPT !.pc = "measure"] ELSE Idle]
  /\ hung = {} /\ reused = {} /\ lost = {}
  /\ reboots = 0 /\ failures = 0

-----------------------------------------------------------------------------
\* The main shell.

AtStep(op) == main \in DOMAIN script.steps /\ script.steps[main].op = op

\* ( run1 ... ) &
Fork ==
  /\ AtStep("fork")
  /\ lane' = [l \in Lanes |-> IF l \in script.steps[main].lanes
                                THEN [Idle EXCEPT !.pc = "check"] ELSE lane[l]]
  /\ main' = main + 1
  /\ UNCHANGED <<script, csv, hung, reused, lost, reboots, failures>>

\* Mutant: a job has ended when its models have rows.
HasEnded_row(l) == ModelsOf(l) \subseteq {m \in Models : HasRow(m)}
\* Mutant: the script does not wait.
HasEnded_always(l) == TRUE

\* `wait` returns when the child has ended, whatever its status; `kill -0`
\* fails when no process has the pid.
HasEnded(l) == ~Alive(l) /\ l \notin reused

Wait ==
  /\ AtStep("wait")
  /\ \A l \in script.steps[main].lanes : HasEnded(l)
  /\ main' = main + 1
  /\ UNCHANGED <<script, csv, lane, hung, reused, lost, reboots, failures>>

-----------------------------------------------------------------------------
\* A lane: _run / run1 for each model of the queue.

NextJob(l) ==
  lane' = [lane EXCEPT ![l] = IF lane[l].next < Len(script.queue[l]) /\ l \notin script.orphans
                                THEN [Idle EXCEPT !.pc = "check", !.next = lane[l].next + 1]
                                ELSE [Idle EXCEPT !.pc = "gone"]]

\* Mutant: every run measures its model.
Skips_never(l) == FALSE

Skips(l) == HasRow(ModelOf(l))

Check(l) ==
  /\ lane[l].pc = "check"
  /\ IF Skips(l) THEN NextJob(l) ELSE lane' = [lane EXCEPT ![l].pc = "measure"]
  /\ UNCHANGED <<script, csv, main, hung, reused, lost, reboots, failures>>

\* calibrate and the two arms; an arm that raises still gives a row.
RunArms(l, ok) ==
  /\ lane[l].pc = "measure"
  /\ l \notin hung
  /\ ok \/ failures < MaxFailures
  /\ lane' = [lane EXCEPT ![l].pc = "open", ![l].ok = ok]
  /\ failures' = IF ok THEN failures ELSE failures + 1
  /\ UNCHANGED <<script, csv, main, hung, reused, lost, reboots>>

\* The process dies before it has a row (calibration raises, out of memory);
\* the script has no `set -e` and goes on.
Die(l) ==
  /\ lane[l].pc = "measure"
  /\ l \notin hung
  /\ failures < MaxFailures
  /\ failures' = failures + 1
  /\ lost' = lost \union {ModelOf(l)}
  /\ NextJob(l)
  /\ UNCHANGED <<script, csv, main, hung, reused, reboots>>

\* Mutant: a file without rows counts as missing.
Missing_rows == \A i \in DOMAIN csv : csv[i].kind # "row"

\* wh: the file is missing or empty.
Missing == csv = <<>>

\* A file under another header is refused.
Refuses == csv # <<>> /\ (csv[1].kind # "header" \/ csv[1].fields # "current")

Open(l) ==
  /\ lane[l].pc = "open"
  /\ IF Refuses
       THEN /\ lost' = lost \union {ModelOf(l)}
            /\ NextJob(l)
       ELSE /\ lane' = [lane EXCEPT ![l].pc = "write", ![l].header = Missing]
            /\ UNCHANGED lost
  /\ UNCHANGED <<script, csv, main, hung, reused, reboots, failures>>

Header == [kind |-> "header", fields |-> "current"]
RowOf(l) == [kind |-> "row", fields |-> "current", model |-> ModelOf(l), ok |-> lane[l].ok]

\* Mode "a": both lines leave the buffer in one write when the file is closed.
Appended(l) == csv \o (IF lane[l].header THEN <<Header, RowOf(l)>> ELSE <<RowOf(l)>>)

Write(l) ==
  /\ lane[l].pc = "write"
  /\ csv' = Appended(l)
  /\ NextJob(l)
  /\ UNCHANGED <<script, main, hung, reused, lost, reboots, failures>>

-----------------------------------------------------------------------------
\* Faults.

\* The C arm spins on the CPU for ever.
Hang(l) ==
  /\ lane[l].pc = "measure"
  /\ Cardinality(hung) < MaxHangs
  /\ hung' = hung \union {l}
  /\ UNCHANGED <<script, csv, main, lane, reused, lost, reboots, failures>>

\* Every process is gone, the file stays; a pid the script still polls may be
\* given to another process.
Reboot ==
  /\ reboots < MaxReboots
  /\ main # 0
  /\ reboots' = reboots + 1
  /\ main' = 0
  /\ lane' = [l \in Lanes |-> Idle]
  /\ hung' = {}
  /\ reused' \in SUBSET script.orphans
  /\ UNCHANGED <<script, csv, lost, failures>>

Rerun ==
  /\ main = 0
  /\ main' = 1
  /\ lost' = {}
  /\ UNCHANGED <<script, csv, lane, hung, reused, reboots, failures>>

ForeignExits(l) ==
  /\ l \in reused
  /\ reused' = reused \ {l}
  /\ UNCHANGED <<script, csv, main, lane, hung, lost, reboots, failures>>

-----------------------------------------------------------------------------
Ends(l) == (\E ok \in BOOLEAN : RunArms(l, ok)) \/ Die(l)
LaneStep(l) == Check(l) \/ Ends(l) \/ Open(l) \/ Write(l)

LadderNext ==
  \/ Fork \/ Wait
  \/ \E l \in Lanes : LaneStep(l) \/ Hang(l) \/ ForeignExits(l)
  \/ Reboot \/ Rerun

\* The shells and the jobs are processes the operating system keeps scheduling;
\* a job that does not hang ends; the operator starts the script again after a
\* reboot; a process that was given a polled pid ends some day.
Fairness ==
  /\ WF_ladderVars(Fork \/ Wait)
  /\ WF_ladderVars(Rerun)
  /\ \A l \in Lanes : WF_ladderVars(LaneStep(l)) /\ WF_ladderVars(ForeignExits(l))

LadderSpec == LadderInit /\ [][LadderNext]_ladderVars
FairSpec == LadderSpec /\ Fairness

-----------------------------------------------------------------------------

\* No two running jobs share a GPU, orphans of an earlier script included: the
\* waits and polls of each script really order the jobs that need the same card.
GPUsExclusive ==
  \A k, l \in Lanes : k # l /\ Running(k) /\ Running(l) => JobAt(k).gpus \intersect JobAt(l).gpus = {}

\* A model has at most one row, however often the machine reboots and the
\* script is started again, and while orphans of an earlier script write too.
OneRowPerModel ==
  \A i, j \in DOMAIN csv :
    csv[i].kind = "row" /\ csv[j].kind = "row" /\ csv[i].model = csv[j].model => i = j

\* Rows stand under a header with their own fields, with a file of an older
\* layout too.  Jobs that find the file missing at once each write a header: a row
\* follows it, and any two such rows are of lanes that run side by side, so no
\* lane, and no job that had to wait for another, ever adds a second header.
SameFields ==
  csv # <<>> => \A i \in DOMAIN csv : csv[1].kind = "header" /\ csv[i].fields = csv[1].fields

FollowedByRow(i) == i < Len(csv) /\ csv[i + 1].kind = "row"

SideBySide(m, n) ==
  \E k, l \in Lanes : k # l /\ \E a \in Queued(script, k), b \in Queued(script, l) :
    a.model = m /\ b.model = n /\ a.gpus \intersect b.gpus = {}

HeadersSideBySide ==
  \A i, j \in DOMAIN csv : i < j /\ csv[i].kind = "header" /\ csv[j].kind = "header" =>
    /\ FollowedByRow(i) /\ FollowedByRow(j)
    /\ SideBySide(csv[i + 1].model, csv[j + 1].model)

RowsUnderTheirHeader == SameFields /\ HeadersSideBySide

\* When the script says ALL DONE each of its models has a row, or its job ended
\* without one since the last start: a reboot costs no model of the queue.
DoneMeansSettled ==
  AllDone => \A l \in Forked : \A m \in ModelsOf(l) : HasRow(m) \/ m \in lost

\* Unless a job hangs for ever, the script reaches ALL DONE.
Finishes == <>[](hung = {}) => <>AllDone

=============================================================================
