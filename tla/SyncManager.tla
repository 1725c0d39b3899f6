---------------------------- MODULE SyncManager ----------------------------
(***************************************************************************)
(* The historical sync jobs (SyncManager): POST /data/sync creates a job   *)
(* for a range of months, whose workers fetch every month that is not on   *)
(* disk and write one Parquet file per month.                              *)
(*                                                                         *)
(* Jobs share an event loop, a global lock over the job table, one lock    *)
(* per month, the Parquet files and the coverage index, a JSON file.  The  *)
(* index is rewritten as a whole: by the loop, one month at a time, and by *)
(* rebuild_coverage_index, which scans the disk in a thread at the start   *)
(* and at the end of every job.                                            *)
(*                                                                         *)
(* One symbol and timeframe; a job key is the range of months asked for.   *)
(***************************************************************************)
EXTENDS Naturals, FiniteSets

CONSTANTS
    Jobs,       \* job ids (uuid4 prefixes: never reused)
    NoJob,      \* a key no job is registered for
    Months,     \* the months of the symbol
    Ranges,     \* the ranges clients may ask for: sets of months
    Workers,    \* SYNC_WORKERS
    Retries,    \* DEFAULT_RETRIES
    IndexFaults,\* BOOLEAN: reading or writing the coverage index may fail
    MaxLives    \* bound: how many times the process is started

ASSUME JobsAssumption  == NoJob \notin Jobs
ASSUME RangeAssumption == IsFiniteSet(Months) /\ Ranges \subseteq SUBSET Months
ASSUME SyncAssumption  ==
    /\ Workers \in Nat \ {0} /\ Retries \in Nat /\ MaxLives \in Nat
    /\ IndexFaults \in BOOLEAN

Status   == {"none", "RUNNING", "DONE", "FAILED", "INTERRUPTED"}
Outcomes == {"done", "skipped", "empty", "failed"}

\* Where a month of a job is.  From "fetch" on the month lock is held, except
\* by "raised"; the last stages wait for the global lock to count the month.
Holding  == {"fetch", "skipping", "emptied", "written", "marked", "failing"}
Stages   == {"out", "queued", "lock", "raised", "over"} \cup Holding

\* Mutant of Counted: an exception in _process_month ends the worker.
CountedUnlessRaised ==
    [skipping |-> "skipped", emptied |-> "empty", marked |-> "done",
     failing |-> "failed"]

\* How a worker counts a month that reached its last stage.
Counted  == [skipping |-> "skipped", emptied |-> "empty", marked |-> "done",
             failing |-> "failed", raised |-> "failed"]

VARIABLES
    disk,     \* months whose Parquet file has rows
    spoiled,  \* months whose Parquet file has none that can be read
    index,    \* Months -> "absent", "done" or "empty": the coverage index
    range,    \* Jobs -> months asked for
    status,   \* Jobs -> Status, job.status
    tally,    \* Jobs -> Outcomes -> the counters of the job
    byKey,    \* Ranges -> _jobs_by_key
    saved,    \* Jobs -> Status, sync_jobs.json
    phase,    \* Jobs -> what start_job, then _run_job, is doing
    scan,     \* Jobs -> the files there were when its rebuild began to scan
    stage,    \* Jobs -> Months -> Stages
    attempt,  \* Jobs -> Months -> failed attempts of _process_month
    lives,    \* number of starts of the process
    noData    \* history: months the source answered without candles

job   == <<range, status, tally, byKey, saved>>
month == <<stage, attempt>>
files == <<disk, spoiled>>
vars  == <<files, index, job, phase, scan, month, lives, noData>>

(***************************************************************************)
(* Locks and the coverage index                                            *)
(***************************************************************************)

\* start_job holds the global lock while its rebuild runs in the executor.
GlobalFree == \A j \in Jobs : phase[j] # "starting"

MonthFree(m) == \A j \in Jobs : stage[j][m] \notin Holding

\* What a scan sees of the files now.
Scanned == [good |-> disk, bad |-> spoiled]

\* What a scan may have found: a file written while it ran is seen as it was
\* before (or not at all) or as it is now; no file ever goes away.
Found(j) ==
    {f \in [good : SUBSET (scan[j].good \cup disk),
            bad : SUBSET (scan[j].bad \cup spoiled)] :
        /\ f.good \cap f.bad = {}
        /\ scan[j].good \cup scan[j].bad \subseteq f.good \cup f.bad}

\* rebuild_coverage_index regenerates the index from the files alone: a file
\* without rows that can be read is marked as if the source had no candles.
Rebuilt(found) ==
    [m \in Months |-> CASE m \in found.good -> "done"
                       [] m \in found.bad -> "empty"
                       [] OTHER -> "absent"]

\* The rename of the rebuild, unless it fails or a mark_done or mark_empty
\* that read the old index puts that back.
WriteIndex(found) == index' = Rebuilt(found) \/ UNCHANGED index

\* mark_done, mark_empty: an exception is only logged.
Mark(m, mark) ==
    \/ index' = [index EXCEPT ![m] = mark]
    \/ IndexFaults /\ UNCHANGED index

(***************************************************************************)
(* A job                                                                   *)
(***************************************************************************)

\* Mutant of StartJob: the table is looked up without the global lock.
StartJobUnlocked(j, r) ==
    /\ phase[j] = "none"
    /\ byKey[r] # NoJob => status[byKey[r]] # "RUNNING"
    /\ phase' = [phase EXCEPT ![j] = "starting"]
    /\ range' = [range EXCEPT ![j] = r]
    /\ scan' = [scan EXCEPT ![j] = Scanned]
    /\ UNCHANGED <<files, index, status, tally, byKey, saved, month, lives, noData>>

\* start_job takes the global lock, finds no running job for the key (it would
\* answer with that one) and hands the rebuild to the executor.
StartJob(j, r) ==
    /\ phase[j] = "none"
    /\ GlobalFree
    /\ byKey[r] # NoJob => status[byKey[r]] # "RUNNING"
    /\ phase' = [phase EXCEPT ![j] = "starting"]
    /\ range' = [range EXCEPT ![j] = r]
    /\ scan' = [scan EXCEPT ![j] = Scanned]
    /\ UNCHANGED <<files, index, status, tally, byKey, saved, month, lives,
                   noData>>

\* The rebuild returned: the job is registered and persisted, its missing
\* months are queued, and _run_job starts.
JobCreated(j) ==
    /\ phase[j] = "starting"
    /\ \E found \in Found(j) :
         /\ WriteIndex(found)
         /\ tally' = [tally EXCEPT ![j]["skipped"] = Cardinality(range[j] \cap found.good)]
         /\ stage' = [stage EXCEPT ![j] =
                [m \in Months |-> IF m \in range[j] \ found.good THEN "queued"
                                                                 ELSE "out"]]
    /\ status' = [status EXCEPT ![j] = "RUNNING"]
    /\ saved' = [saved EXCEPT ![j] = "RUNNING"]
    /\ byKey' = [byKey EXCEPT ![range[j]] = j]
    /\ phase' = [phase EXCEPT ![j] = "working"]
    /\ UNCHANGED <<files, range, scan, attempt, lives, noData>>

\* The rebuild raised: the request fails and no job exists.
StartFails(j) ==
    /\ phase[j] = "starting"
    /\ IndexFaults
    /\ phase' = [phase EXCEPT ![j] = "none"]
    /\ UNCHANGED <<files, index, job, scan, month, lives, noData>>

InWork(j) == {m \in Months : stage[j][m] \notin {"out", "queued", "over"}}
Pending(j) == {m \in Months : stage[j][m] \notin {"out", "over"}}

\* Nothing to do: the job ends without the final rebuild.
NothingToDo(j) ==
    /\ phase[j] = "working"
    /\ \A m \in Months : stage[j][m] = "out"
    /\ status' = [status EXCEPT ![j] = "DONE"]
    /\ saved' = [saved EXCEPT ![j] = "DONE"]
    /\ phase' = [phase EXCEPT ![j] = "ended"]
    /\ UNCHANGED <<files, index, range, tally, byKey, scan, month, lives, noData>>

\* The workers are through: gather returns and the final rebuild starts.
WorkersDone(j) ==
    /\ phase[j] = "working"
    /\ Pending(j) = {} /\ \E m \in Months : stage[j][m] = "over"
    /\ phase' = [phase EXCEPT ![j] = "rebuilding"]
    /\ scan' = [scan EXCEPT ![j] = Scanned]
    /\ UNCHANGED <<files, index, job, month, lives, noData>>

\* Mutant of JobEnds: a job with failed months is done too.
JobEndsDone(j) ==
    /\ phase[j] = "rebuilding"
    /\ \E found \in Found(j) : WriteIndex(found)
    /\ status' = [status EXCEPT ![j] = "DONE"]
    /\ saved' = [saved EXCEPT ![j] = "DONE"]
    /\ phase' = [phase EXCEPT ![j] = "ended"]
    /\ UNCHANGED <<files, range, tally, byKey, scan, month, lives, noData>>

\* The rebuild returned or raised (logged): the job is DONE or FAILED.
JobEnds(j) ==
    /\ phase[j] = "rebuilding"
    /\ \E found \in Found(j) : WriteIndex(found)
    /\ LET end == IF tally[j]["failed"] = 0 THEN "DONE" ELSE "FAILED" IN
       /\ status' = [status EXCEPT ![j] = end]
       /\ saved' = [saved EXCEPT ![j] = end]
    /\ phase' = [phase EXCEPT ![j] = "ended"]
    /\ UNCHANGED <<files, range, tally, byKey, scan, month, lives, noData>>

(***************************************************************************)
(* A month of a job                                                        *)
(***************************************************************************)

Move(j, m, to) == stage' = [stage EXCEPT ![j][m] = to]

\* A free worker takes the month from the queue and waits for its lock.
TakeMonth(j, m) ==
    /\ phase[j] = "working" /\ stage[j][m] = "queued"
    /\ Cardinality(InWork(j)) < Workers
    /\ Move(j, m, "lock")
    /\ UNCHANGED <<files, index, job, phase, scan, attempt, lives, noData>>

\* Mutant of CheckMonth: another job may be at work on the month.
CheckMonthUnlocked(j, m) ==
    /\ stage[j][m] = "lock"
    /\ IF m \in disk \/ index[m] = "empty" THEN Move(j, m, "skipping")
                                           ELSE Move(j, m, "fetch")
    /\ UNCHANGED <<files, index, job, phase, scan, attempt, lives, noData>>

\* With the month lock: a month on disk, or one the index knows to be empty,
\* is skipped; an index that cannot be read does not count.
CheckMonth(j, m) ==
    /\ stage[j][m] = "lock" /\ MonthFree(m)
    /\ \/ /\ m \in disk \/ index[m] = "empty"
          /\ Move(j, m, "skipping")
       \/ /\ m \notin disk /\ (index[m] # "empty" \/ IndexFaults)
          /\ Move(j, m, "fetch")
    /\ UNCHANGED <<files, index, job, phase, scan, attempt, lives, noData>>

\* A failed attempt: another one after a pause, or the month fails.
Retry(j, m) ==
    IF attempt[j][m] < Retries
    THEN attempt' = [attempt EXCEPT ![j][m] = @ + 1] /\ UNCHANGED stage
    ELSE Move(j, m, "failing") /\ UNCHANGED attempt

FetchFails(j, m) ==
    /\ stage[j][m] = "fetch"
    /\ Retry(j, m)
    /\ UNCHANGED <<files, index, job, phase, scan, lives, noData>>

\* The source has no candles: nothing is written, the index says "empty".
FetchEmpty(j, m) ==
    /\ stage[j][m] = "fetch"
    /\ Mark(m, "empty")
    /\ noData' = noData \cup {m}
    /\ Move(j, m, "emptied")
    /\ UNCHANGED <<files, job, phase, scan, attempt, lives>>

\* write_month puts a file in place that can be read, or one that cannot.
Readable(m) == disk' = disk \cup {m} /\ spoiled' = spoiled \ {m}
Spoilt(m)   == disk' = disk \ {m} /\ spoiled' = spoiled \cup {m}

\* Mutant of FetchWrites: the index is updated although the file is not there.
FetchWritesIndexFirst(j, m) ==
    /\ stage[j][m] = "fetch"
    /\ \/ Readable(m) /\ Move(j, m, "written") /\ UNCHANGED <<index, attempt>>
       \/ /\ index' = [index EXCEPT ![m] = "done"]
          /\ Move(j, m, "failing") /\ UNCHANGED <<files, attempt>>
    /\ UNCHANGED <<job, phase, scan, lives, noData>>

\* The month is fetched and written, and its file passes the quality gate; or
\* the write raises; or the gate rejects the file, which stays where it is, for
\* its contents or because it cannot be read back: the attempt has failed.
FetchWrites(j, m) ==
    /\ stage[j][m] = "fetch"
    /\ \/ Readable(m) /\ Move(j, m, "written") /\ UNCHANGED attempt
       \/ Move(j, m, "failing") /\ UNCHANGED <<files, attempt>>
       \/ (Readable(m) \/ Spoilt(m)) /\ Retry(j, m)
    /\ UNCHANGED <<index, job, phase, scan, lives, noData>>

\* Anything else in _process_month raises: the month lock is released and the
\* worker counts the month as failed.
MonthRaises(j, m) ==
    /\ stage[j][m] = "fetch"
    /\ Move(j, m, "raised")
    /\ UNCHANGED <<files, index, job, phase, scan, attempt, lives, noData>>

\* The retries are counted under the global lock, then the index is updated.
MarkDone(j, m) ==
    /\ stage[j][m] = "written" /\ GlobalFree
    /\ Mark(m, "done")
    /\ Move(j, m, "marked")
    /\ UNCHANGED <<files, job, phase, scan, attempt, lives, noData>>

\* Mutant of CountMonth: a month that failed is left out of the counters.
CountMonthNotFailed(j, m) ==
    /\ stage[j][m] \in DOMAIN Counted /\ GlobalFree
    /\ tally' = [tally EXCEPT ![j][Counted[stage[j][m]]] =
                    IF stage[j][m] = "failing" THEN @ ELSE @ + 1]
    /\ Move(j, m, "over")
    /\ UNCHANGED <<files, index, range, status, byKey, saved, phase, scan,
                   attempt, lives, noData>>

\* The month is counted under the global lock and its lock released.
CountMonth(j, m) ==
    /\ stage[j][m] \in DOMAIN Counted /\ GlobalFree
    /\ tally' = [tally EXCEPT ![j][Counted[stage[j][m]]] = @ + 1]
    /\ Move(j, m, "over")
    /\ UNCHANGED <<files, index, range, status, byKey, saved, phase, scan,
                   attempt, lives, noData>>

(***************************************************************************)
(* The process                                                             *)
(***************************************************************************)

\* Mutant of Loaded: the table is loaded as it was saved.
LoadedAsSaved(s) == s

\* _load_jobs: whatever was running is interrupted.
Loaded(s) == IF s = "RUNNING" THEN "INTERRUPTED" ELSE s

\* The process dies and starts again: files survive, tasks and locks do not,
\* and no loaded job is registered under its key.
Restart ==
    /\ lives < MaxLives
    /\ lives' = lives + 1
    /\ status' = [j \in Jobs |-> Loaded(saved[j])]
    /\ byKey' = [r \in Ranges |-> NoJob]
    /\ phase' = [j \in Jobs |-> IF saved[j] = "none" THEN "none" ELSE "ended"]
    /\ stage' = [j \in Jobs |-> [m \in Months |-> "out"]]
    /\ attempt' = [j \in Jobs |-> [m \in Months |-> 0]]
    /\ UNCHANGED <<files, index, range, tally, saved, scan, noData>>

Init ==
    /\ disk = {} /\ spoiled = {}
    /\ index = [m \in Months |-> "absent"]
    /\ range = [j \in Jobs |-> {}]
    /\ status = [j \in Jobs |-> "none"]
    /\ tally = [j \in Jobs |-> [o \in Outcomes |-> 0]]
    /\ byKey = [r \in Ranges |-> NoJob]
    /\ saved = [j \in Jobs |-> "none"]
    /\ phase = [j \in Jobs |-> "none"]
    /\ scan = [j \in Jobs |-> Scanned]
    /\ stage = [j \in Jobs |-> [m \in Months |-> "out"]]
    /\ attempt = [j \in Jobs |-> [m \in Months |-> 0]]
    /\ lives = 1
    /\ noData = {}

\* What _run_job does for a job once it is created.
RunJob(j) == NothingToDo(j) \/ WorkersDone(j) \/ JobEnds(j)

RunMonth(j, m) ==
    \/ TakeMonth(j, m) \/ CheckMonth(j, m)
    \/ FetchFails(j, m) \/ FetchEmpty(j, m) \/ FetchWrites(j, m)
    \/ MonthRaises(j, m)
    \/ MarkDone(j, m) \/ CountMonth(j, m)

Next ==
    \/ \E j \in Jobs :
         \/ \E r \in Ranges : StartJob(j, r)
         \/ JobCreated(j) \/ StartFails(j)
         \/ RunJob(j)
         \/ \E m \in Months : RunMonth(j, m)
    \/ Restart

Spec == Init /\ [][Next]_vars

\* Executor calls, fetches and pauses end, and the asyncio locks are fair
\* (waiters are served in order); clients and restarts owe nothing.  A job
\* takes finitely many steps, so fairness to the job is fairness to each.
Fairness ==
    \A j \in Jobs :
      /\ WF_vars(JobCreated(j) \/ StartFails(j))
      /\ SF_vars(RunJob(j) \/ \E m \in Months : RunMonth(j, m))

FairSpec == Spec /\ Fairness

(***************************************************************************)
(* Properties                                                              *)
(***************************************************************************)

\* Every variable holds what the dataclass and the files can hold, and the
\* counters of a finished job account for every month of its range once.
TypeOK ==
    /\ disk \subseteq Months /\ noData \subseteq Months
    /\ spoiled \subseteq Months \ disk
    /\ index \in [Months -> {"absent", "done", "empty"}]
    /\ range \in [Jobs -> SUBSET Months]
    /\ status \in [Jobs -> Status] /\ saved \in [Jobs -> Status]
    /\ tally \in [Jobs -> [Outcomes -> 0 .. Cardinality(Months)]]
    /\ \A j \in Jobs :
         status[j] \in {"DONE", "FAILED"} =>
             tally[j]["done"] + tally[j]["skipped"] + tally[j]["empty"]
                 + tally[j]["failed"] = Cardinality(range[j])
    /\ byKey \in [Ranges -> Jobs \cup {NoJob}]
    /\ phase \in [Jobs -> {"none", "starting", "working", "rebuilding", "ended"}]
    /\ scan \in [Jobs -> [good : SUBSET Months, bad : SUBSET Months]]
    /\ stage \in [Jobs -> [Months -> Stages]]
    /\ attempt \in [Jobs -> [Months -> 0 .. Retries]]
    /\ lives \in 0 .. MaxLives \cup {1}

\* One job at most is running for a range (the second POST gets the first
\* job), however the requests interleave with the rebuild start_job awaits.
OneRunningJobPerRange ==
    \A j, k \in Jobs :
      status[j] = "RUNNING" /\ status[k] = "RUNNING" /\ range[j] = range[k] => j = k

\* A job shown as RUNNING is being run: a restart leaves none behind that
\* nobody works on and that would be handed to every later request.
RunningJobIsRun ==
    \A j \in Jobs : status[j] = "RUNNING" <=> phase[j] \in {"working", "rebuilding"}

\* A month whose file is on disk is not fetched again, by no overlapping job
\* and after no restart; only a retry of the very attempt that wrote it is.
NoRefetch ==
    \A j \in Jobs, m \in Months :
      stage[j][m] = "fetch" /\ attempt[j][m] = 0 => m \notin disk

\* A job that is DONE leaves no month of its range without a file unless the
\* source said that it has no data, whichever job asked.  A file is all that can
\* be said: a later job takes the "empty" a rebuild gave to an unreadable file
\* for the source's answer, and is DONE without having fetched the month.
DoneMeansSynced ==
    \A j \in Jobs : status[j] = "DONE" => range[j] \subseteq disk \cup spoiled \cup noData

\* The coverage index never claims a month that has no file, in whatever order
\* rebuilds and marks overwrite each other.
IndexClaimsOnlyFiles ==
    \A m \in Months : index[m] = "done" => m \in disk \cup spoiled

\* Every job that is created ends, unless the process does: month locks and
\* the global lock, held across awaits, never leave a worker waiting forever.
EveryJobEnds ==
    \A j \in Jobs : status[j] = "RUNNING" ~> status[j] # "RUNNING"
=============================================================================
