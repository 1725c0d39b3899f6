---- MODULE RawSync ----
(***************************************************************************)
(* The raw BI5 store and its worker: jobs that walk days, a lock file,     *)
(* counters that are saved after every day, files that are renamed into    *)
(* place.                                                                  *)
(*                                                                         *)
(* A task gives the event loop away only while it downloads, so everything *)
(* between two downloads is one section of the loop.  But the process may  *)
(* die, and the disk may refuse, between any two file operations of a      *)
(* section: each of them is a step, and `loop' says whose section runs.    *)
(***************************************************************************)
EXTENDS Integers, Sequences, FiniteSets

CONSTANTS
  Jobs,       \* job_id of the jobs that are created
  Symbols,    \* the symbols of a job, in order
  Orders,     \* what jobs are created for: [from, to, force], `to' excluded
  None,       \* no file, no task, nobody
  MaxFaults   \* bound: crashes, shutdowns and disk errors

SymbolSet == {Symbols[k] : k \in DOMAIN Symbols}
Statuses == {"queued", "running", "done", "failed"}

\* A job as its JSON file holds it, and the task that runs one.
SavedJob ==
  [order : Orders, status : Statuses, done : Nat, skipped : Nat, failed : Nat]
JobTask ==
  [pc : {"running", "day", "fetch", "write", "manifest", "watermark", "persist", "end", "release"},
   at : Nat, status : Statuses \ {"queued"}, done : Nat, skipped : Nat, failed : Nat]

ASSUME OrderAssumption ==
  /\ Orders \subseteq [from : Nat, to : Nat, force : BOOLEAN]
  /\ Symbols \in Seq(SymbolSet)
  /\ None \notin Jobs \cup SavedJob \cup JobTask /\ MaxFaults \in Nat

VARIABLES
  file,        \* <<symbol, day>> -> the job that wrote the .bi5 file, or None
  manifest,    \* <<symbol, day>> -> the job that wrote manifest.json, or None
  watermark,   \* symbol -> last_complete_day, or None
  saved,       \* job -> its JSON file, or None
  lock,        \* raw_sync.lock exists
  task,        \* job -> its run_job task, or None
  loop,        \* whose section runs on the event loop, or None
  faults,      \* crashes, shutdowns and disk errors so far
  interrupted  \* jobs that did not run from start to end at once (history)

disk == <<file, manifest, watermark>>
vars == <<disk, saved, lock, task, loop, faults, interrupted>>

-----------------------------------------------------------------------------
(* Days and files *)

AllDays == UNION {o.from .. o.to - 1 : o \in Orders}
Keys == SymbolSet \X AllDays

\* A range that is empty or reversed has no days.
Span(o) == IF o.from < o.to THEN o.to - o.from ELSE 0
Total(o) == Len(Symbols) * Span(o)

\* The k-th day of the walk: all days of a symbol, then the next symbol.
Stop(o, k) == <<Symbols[((k - 1) \div Span(o)) + 1], o.from + ((k - 1) % Span(o))>>

\* Mutant of OnDisk: it asks for the manifest instead of the file.
ManifestOnDisk(key) == manifest[key] # None

OnDisk(key) == file[key] # None

Running(j) == task[j] # None
Here(j) == Stop(saved[j].order, task[j].at)
Turn(j, pc) == Running(j) /\ task[j].pc = pc /\ loop \in {j, None}

-----------------------------------------------------------------------------
(* Jobs *)

\* The section goes on at pc, or the loop is given away.
Goto(j, pc) == task' = [task EXCEPT ![j].pc = pc] /\ loop' = j

Persist(j) ==
  saved' = [saved EXCEPT ![j].status = task[j].status, ![j].done = task[j].done,
                         ![j].skipped = task[j].skipped, ![j].failed = task[j].failed]

Create(j) ==
  /\ loop = None /\ saved[j] = None
  /\ \E o \in Orders :
       saved' = [saved EXCEPT ![j] = [order |-> o, status |-> "queued",
                                      done |-> 0, skipped |-> 0, failed |-> 0]]
  /\ UNCHANGED <<disk, lock, task, loop, faults, interrupted>>

\* Mutant of MayLock: the lock file is written without a look.
MayLockAlways == TRUE

\* A lock file that is there refuses the job; the file is assumed readable, as
\* one that is not would be taken over (raw_sync_worker.py:145-148).
MayLock == ~lock

\* Mutant of Loaded: the status stays as it was saved.
LoadedAsSaved(j) ==
  [pc |-> "running", at |-> 1, status |-> saved[j].status, done |-> saved[j].done,
   skipped |-> saved[j].skipped, failed |-> saved[j].failed]

\* The days are walked from the first again, the counters go on.
Loaded(j) ==
  [pc |-> "running", at |-> 1, status |-> "running", done |-> saved[j].done,
   skipped |-> saved[j].skipped, failed |-> saved[j].failed]

\* run_job, called for a new job or for one that was interrupted.
RunJob(j) ==
  /\ loop = None /\ saved[j] # None
  /\ saved[j].status \in {"queued", "running"} /\ ~Running(j)
  /\ \/ /\ ~MayLock
        /\ saved' = [saved EXCEPT ![j].status = "failed"]
        /\ UNCHANGED <<lock, task, loop>>
     \/ /\ MayLock
        /\ lock' = TRUE
        /\ task' = [task EXCEPT ![j] = Loaded(j)]
        /\ loop' = j
        /\ UNCHANGED saved
  /\ UNCHANGED <<disk, faults, interrupted>>

\* The call for a job that is running finds its lock: on disk the job is
\* failed until the task that runs it saves it again.
RunJobTwice(j) ==
  /\ loop = None /\ Running(j) /\ saved[j].status = "running"
  /\ ~MayLock
  /\ saved' = [saved EXCEPT ![j].status = "failed"]
  /\ UNCHANGED <<disk, lock, task, loop, faults, interrupted>>

SaveRunning(j) ==
  /\ Turn(j, "running") /\ loop = j
  /\ Persist(j) /\ Goto(j, "day")
  /\ UNCHANGED <<disk, lock, faults, interrupted>>

Day(j) ==
  /\ Turn(j, "day") /\ loop = j /\ task[j].at <= Total(saved[j].order)
  /\ IF OnDisk(Here(j)) /\ ~saved[j].order.force
     THEN /\ task' = [task EXCEPT ![j].pc = "persist", ![j].skipped = @ + 1]
          /\ UNCHANGED loop
     ELSE /\ task' = [task EXCEPT ![j].pc = "fetch"]
          /\ loop' = None
  /\ UNCHANGED <<disk, saved, lock, faults, interrupted>>

\* Mutant of NoData: a day without data is passed over.
NoDataPassed(j) == task' = [task EXCEPT ![j].pc = "persist", ![j].skipped = @ + 1]

\* Mutant of NoData: it is asked for again without end.
NoDataRetried(j) == task' = task

\* A day without data is a failed day, be it a weekend or an error.
NoData(j) == task' = [task EXCEPT ![j].pc = "persist", ![j].failed = @ + 1]

Downloaded(j) ==
  /\ Turn(j, "fetch") /\ loop = None
  /\ loop' = j
  /\ \/ NoData(j)
     \/ task' = [task EXCEPT ![j].pc = "write"]
  /\ UNCHANGED <<disk, saved, lock, faults, interrupted>>

Write(j) ==
  /\ Turn(j, "write") /\ loop = j
  /\ IF OnDisk(Here(j)) /\ ~saved[j].order.force
     THEN /\ task' = [task EXCEPT ![j].pc = "persist", ![j].skipped = @ + 1]
          /\ UNCHANGED file
     ELSE /\ task' = [task EXCEPT ![j].pc = "manifest"]
          /\ file' = [file EXCEPT ![Here(j)] = j]
  /\ UNCHANGED <<manifest, watermark, saved, lock, loop, faults, interrupted>>

WriteManifest(j) ==
  /\ Turn(j, "manifest") /\ loop = j
  /\ manifest' = [manifest EXCEPT ![Here(j)] = j]
  /\ task' = [task EXCEPT ![j].pc = "watermark"]
  /\ UNCHANGED <<file, watermark, saved, lock, loop, faults, interrupted>>

WriteWatermark(j) ==
  /\ Turn(j, "watermark") /\ loop = j
  /\ watermark' = [watermark EXCEPT ![Here(j)[1]] = Here(j)[2]]
  /\ task' = [task EXCEPT ![j].pc = "persist", ![j].done = @ + 1]
  /\ UNCHANGED <<file, manifest, saved, lock, loop, faults, interrupted>>

SaveDay(j) ==
  /\ Turn(j, "persist") /\ loop = j
  /\ Persist(j)
  /\ task' = [task EXCEPT ![j].pc = "day", ![j].at = @ + 1]
  /\ UNCHANGED <<disk, lock, loop, faults, interrupted>>

Done(j) ==
  /\ Turn(j, "day") /\ loop = j /\ task[j].at > Total(saved[j].order)
  /\ task' = [task EXCEPT ![j].pc = "end", ![j].status = "done"]
  /\ UNCHANGED <<disk, saved, lock, loop, faults, interrupted>>

SaveEnd(j) ==
  /\ Turn(j, "end") /\ loop = j
  /\ Persist(j) /\ Goto(j, "release")
  /\ UNCHANGED <<disk, lock, faults, interrupted>>

Release(j) ==
  /\ Turn(j, "release") /\ loop = j
  /\ lock' = FALSE /\ loop' = None
  /\ task' = [task EXCEPT ![j] = None]
  /\ UNCHANGED <<disk, saved, faults, interrupted>>

Step(j) ==
  \/ SaveRunning(j) \/ Day(j) \/ Downloaded(j) \/ Write(j) \/ WriteManifest(j)
  \/ WriteWatermark(j) \/ SaveDay(j) \/ Done(j) \/ SaveEnd(j) \/ Release(j)

-----------------------------------------------------------------------------
(* What goes wrong *)

Fault(J) ==
  /\ faults < MaxFaults /\ faults' = faults + 1
  /\ interrupted' = interrupted \cup J

\* A write is refused: the job ends as failed.
DiskError(j) ==
  /\ \E pc \in {"write", "manifest", "watermark", "persist"} : Turn(j, pc) /\ loop = j
  /\ task' = [task EXCEPT ![j].pc = "end", ![j].status = "failed"]
  /\ Fault({j})
  /\ UNCHANGED <<disk, saved, lock, loop>>

\* Before the try, and in its finally clause, the task dies of it, and the
\* lock file stays.
DiskErrorLeavesLock(j) ==
  /\ \E pc \in {"running", "end"} : Turn(j, pc) /\ loop = j
  /\ task' = [task EXCEPT ![j] = None] /\ loop' = None
  /\ Fault({j})
  /\ UNCHANGED <<disk, saved, lock>>

\* A shutdown cancels the task at its await; the finally clause saves the job
\* as it is, still running, and releases the lock.
Cancel(j) ==
  /\ Turn(j, "fetch") /\ loop = None
  /\ Goto(j, "end")
  /\ Fault({j})
  /\ UNCHANGED <<disk, saved, lock>>

Crash ==
  /\ Fault({j \in Jobs : Running(j)})
  /\ task' = [j \in Jobs |-> None] /\ loop' = None
  /\ UNCHANGED <<disk, saved, lock>>

\* The operator removes the lock that a dead task left.
Unlock ==
  /\ lock /\ \A j \in Jobs : ~Running(j)
  /\ lock' = FALSE
  /\ UNCHANGED <<disk, saved, task, loop, faults, interrupted>>

Init ==
  /\ file = [k \in Keys |-> None] /\ manifest = [k \in Keys |-> None]
  /\ watermark = [s \in SymbolSet |-> None]
  /\ saved = [j \in Jobs |-> None] /\ lock = FALSE
  /\ task = [j \in Jobs |-> None] /\ loop = None
  /\ faults = 0 /\ interrupted = {}

Next ==
  \/ \E j \in Jobs : Create(j) \/ RunJob(j) \/ RunJobTwice(j) \/ Step(j)
  \/ \E j \in Jobs : DiskError(j) \/ DiskErrorLeavesLock(j) \/ Cancel(j)
  \/ Crash
  \/ Unlock

Spec == Init /\ [][Next]_vars

\* The event loop runs what is ready; a download ends, by its time-out.
FairSpec == Spec /\ \A j \in Jobs : WF_vars(Step(j))

-----------------------------------------------------------------------------
(* Properties *)

\* Type invariant.  The loop is given to a task that exists, and what a task
\* works on has been created.
TypeOK ==
  /\ file \in [Keys -> Jobs \cup {None}] /\ manifest \in [Keys -> Jobs \cup {None}]
  /\ watermark \in [SymbolSet -> AllDays \cup {None}]
  /\ lock \in BOOLEAN /\ loop \in Jobs \cup {None} /\ faults \in 0 .. MaxFaults
  /\ interrupted \subseteq Jobs
  /\ loop # None => Running(loop)
  /\ saved \in [Jobs -> SavedJob \cup {None}] /\ task \in [Jobs -> JobTask \cup {None}]
  /\ \A j \in Jobs : Running(j) =>
       /\ saved[j] # None
       /\ task[j].at \in 1 .. Total(saved[j].order) + 1
       /\ task[j].pc \in {"fetch", "write", "manifest", "watermark", "persist"} =>
            task[j].at <= Total(saved[j].order)
       /\ loop # j => task[j].pc = "fetch"

\* One job runs at a time, and as long as it runs the lock file is there, so
\* that no other call gets through, whatever died before
\* (raw_sync_worker.py:137-152, 243-248).
OneJobAtATime ==
  /\ \A j, k \in Jobs : Running(j) /\ Running(k) => j = k
  /\ (\E j \in Jobs : Running(j)) => lock

Missing(o) == {k \in 1 .. Total(o) : ~OnDisk(Stop(o, k))}

\* A job that is saved as done has the file of every day of its range but of
\* those it counts as failed; unless it was interrupted it has counted every
\* day once (raw_sync_worker.py:257-306).
DoneIsComplete ==
  \A j \in Jobs :
    saved[j] # None /\ saved[j].status = "done" =>
      /\ Cardinality(Missing(saved[j].order)) <= saved[j].failed
      /\ j \notin interrupted =>
           saved[j].done + saved[j].skipped + saved[j].failed = Total(saved[j].order)

\* A file that is there is never replaced, unless by a job that was told to,
\* not even to repair what a crash left half done (raw_bi5_store.py:86-88).
Immutable ==
  [][\A key \in Keys : file[key] # None /\ file'[key] # file[key]
       => file'[key] # None /\ saved[file'[key]].order.force]_vars

\* A task that got the lock comes to an end, whatever is refused on the way.
TasksEnd == \A j \in Jobs : Running(j) ~> ~Running(j)
====
