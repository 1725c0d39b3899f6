------------------------- MODULE SyncManager_proofs -------------------------
(***************************************************************************)
(* Proofs about SyncManager for every set of jobs, months and ranges, any   *)
(* number of workers, retries and restarts, with or without index faults.   *)
(***************************************************************************)
EXTENDS SyncManager, FiniteSetTheorems, TLAPS

USE DEF Holding, Stages, Status, Outcomes

-----------------------------------------------------------------------------
(* The inductive invariant *)

\* The types, but for the bounds on the counters, which TallyInv adds.
Types ==
    /\ disk \subseteq Months /\ noData \subseteq Months
    /\ spoiled \subseteq Months \ disk
    /\ index \in [Months -> {"absent", "done", "empty"}]
    /\ range \in [Jobs -> SUBSET Months]
    /\ status \in [Jobs -> Status] /\ saved \in [Jobs -> Status]
    /\ tally \in [Jobs -> [Outcomes -> Nat]]
    /\ byKey \in [Ranges -> Jobs \cup {NoJob}]
    /\ phase \in [Jobs -> {"none", "starting", "working", "rebuilding", "ended"}]
    /\ stage \in [Jobs -> [Months -> Stages]]
    /\ attempt \in [Jobs -> [Months -> 0 .. Retries]]

\* The months that have a file, which no step takes away, and those the loop or
\* a rebuild may have marked empty.
Filed   == disk \cup spoiled
Settled == Filed \cup noData

\* What a scan under way has seen of the files.
ScanTruth ==
    /\ scan \in [Jobs -> [good : SUBSET Months, bad : SUBSET Months]]
    /\ \A j \in Jobs : scan[j].good \cup scan[j].bad \subseteq Filed

\* What each phase of a job says about the job.
Phases ==
    \A j \in Jobs :
        /\ phase[j] \in {"none", "starting"} =>
             status[j] = "none" /\ saved[j] = "none"
        /\ phase[j] # "none" => range[j] \in Ranges
        /\ phase[j] # "working" => \A m \in Months : stage[j][m] \in {"out", "over"}

\* A running job is the one registered for its range, and while start_job is
\* in its rebuild nobody else is and no running job has the range.
Registered ==
    /\ \A j \in Jobs : status[j] = "RUNNING" => byKey[range[j]] = j
    /\ \A j, k \in Jobs :
         /\ phase[j] = "starting" /\ phase[k] = "starting" => j = k
         /\ phase[j] = "starting" /\ status[k] = "RUNNING" => range[k] # range[j]

\* The month lock: one job at most is at work on a month.
MonthMutex ==
    \A j, k \in Jobs, m \in Months :
      stage[j][m] \in Holding /\ stage[k][m] \in Holding => j = k

\* What the stage of a month says about the disk and the source.
StageTruth ==
    /\ \A j \in Jobs, m \in Months :
         /\ stage[j][m] \in {"written", "marked"} => m \in Filed
         /\ stage[j][m] = "emptied" => m \in noData
         /\ stage[j][m] = "skipping" => m \in Settled
    /\ \A m \in Months : index[m] = "empty" => m \in Settled

\* A month of a job under way that is not pending is synced or counted as failed.
Accounted ==
    \A j \in Jobs : phase[j] \in {"working", "rebuilding"} =>
      \A m \in range[j] :
        /\ stage[j][m] = "out" => m \in Filed
        /\ stage[j][m] = "over" =>
             m \in Settled \/ tally[j]["failed"] > 0

\* What is on file as DONE is synced.
SavedTruth ==
    \A j \in Jobs : saved[j] = "DONE" => range[j] \subseteq Settled

SyncInv ==
    /\ Types /\ ScanTruth /\ Phases /\ Registered /\ MonthMutex /\ StageTruth /\ Accounted
    /\ SavedTruth
    /\ RunningJobIsRun /\ NoRefetch /\ IndexClaimsOnlyFiles /\ DoneMeansSynced

-----------------------------------------------------------------------------
(* The initial state and the steps *)

LEMMA SyncInvInit == Init => SyncInv
<1> SUFFICES ASSUME Init PROVE SyncInv
  OBVIOUS
<1>1. Types
  BY SyncAssumption DEF Init, Scanned, Types
<1>2. ScanTruth
  BY DEF Init, Scanned, ScanTruth, Filed
<1>3. Phases /\ Registered /\ MonthMutex /\ StageTruth /\ Accounted /\ SavedTruth
  BY DEF Init, Phases, Registered, MonthMutex, StageTruth, Accounted, SavedTruth
<1>4. RunningJobIsRun /\ NoRefetch /\ IndexClaimsOnlyFiles /\ DoneMeansSynced
  BY DEF Init, RunningJobIsRun, NoRefetch, IndexClaimsOnlyFiles, DoneMeansSynced
<1> QED BY <1>1, <1>2, <1>3, <1>4 DEF SyncInv

\* The number of months a scan found is a number: there are finitely many.
LEMMA FoundIsCounted ==
  ASSUME NEW r \in SUBSET Months, NEW found
  PROVE  Cardinality(r \cap found) \in Nat
<1>1. IsFiniteSet(r \cap found)
  BY RangeAssumption, FS_Subset
<1> QED BY <1>1, FS_CardinalityType

\* A scan finds files, though they may be rewritten while it runs, and the index
\* a rebuild writes claims, as done or as empty, months that have a file.
LEMMA ScanFinds ==
  ASSUME Types, ScanTruth, NEW j \in Jobs, NEW found \in Found(j)
  PROVE  /\ found.good \subseteq Filed /\ found.bad \subseteq Filed
         /\ found.good \subseteq Months
         /\ \A m \in Months : /\ Rebuilt(found)[m] = "done" => m \in Filed
                              /\ Rebuilt(found)[m] = "empty" => m \in Filed
         /\ Rebuilt(found) \in [Months -> {"absent", "done", "empty"}]
<1>1. /\ found.good \subseteq scan[j].good \cup disk
      /\ found.bad \subseteq scan[j].bad \cup spoiled
  BY DEF Found
<1>2. found.good \subseteq Filed /\ found.bad \subseteq Filed /\ Filed \subseteq Months
  BY <1>1 DEF ScanTruth, Filed, Types
<1> QED BY <1>2 DEF Rebuilt

\* The steps of start_job and of _run_job.
LEMMA JobStep ==
  ASSUME SyncInv, NEW j \in Jobs,
         \/ \E r \in Ranges : StartJob(j, r)
         \/ JobCreated(j) \/ StartFails(j) \/ RunJob(j)
  PROVE  SyncInv'
<1> USE DEF SyncInv, files, job, month, Filed, Settled
<1>1. ASSUME NEW r \in Ranges, StartJob(j, r) PROVE SyncInv'
  <2>1. Types' /\ ScanTruth'
    BY <1>1, RangeAssumption DEF StartJob, Scanned, ScanTruth, Types
  <2>2. Phases' /\ RunningJobIsRun'
    BY <1>1 DEF StartJob, Types, Phases, RunningJobIsRun
  <2>3. Registered'
    BY <1>1, JobsAssumption DEF StartJob, GlobalFree, Types, Phases, Registered, RunningJobIsRun
  <2>4. MonthMutex'
    BY <1>1 DEF StartJob, Types, Phases, MonthMutex
  <2>5. StageTruth'
    BY <1>1 DEF StartJob, Types, Phases, StageTruth, IndexClaimsOnlyFiles
  <2>6. Accounted'
    BY <1>1 DEF StartJob, Types, Phases, StageTruth, Accounted
  <2>7. SavedTruth' /\ DoneMeansSynced'
    BY <1>1 DEF StartJob, Types, Phases, Accounted, SavedTruth,
         DoneMeansSynced
  <2>8. NoRefetch'
    BY <1>1 DEF StartJob, Types, MonthMutex, NoRefetch
  <2>9. IndexClaimsOnlyFiles'
    BY <1>1 DEF StartJob, Types, StageTruth, IndexClaimsOnlyFiles
  <2> QED BY <2>1, <2>2, <2>3, <2>4, <2>5, <2>6, <2>7, <2>8, <2>9
<1>2. CASE JobCreated(j)
  <2>0. PICK found \in Found(j) :
          /\ WriteIndex(found)
          /\ tally' = [tally EXCEPT ![j]["skipped"] =
                          Cardinality(range[j] \cap found.good)]
          /\ stage' = [stage EXCEPT ![j] =
                [m \in Months |-> IF m \in range[j] \ found.good THEN "queued"
                                                                 ELSE "out"]]
    BY <1>2 DEF JobCreated
  <2>1. Types' /\ ScanTruth'
    <3>1. tally' \in [Jobs -> [Outcomes -> Nat]]
      BY <2>0, FoundIsCounted DEF Types
    <3>2. index' \in [Months -> {"absent", "done", "empty"}]
      BY <2>0, ScanFinds DEF WriteIndex, Types
    <3>3. stage' \in [Jobs -> [Months -> Stages]]
      BY <2>0 DEF Types
    <3> QED BY <1>2, <3>1, <3>2, <3>3 DEF JobCreated, ScanTruth, Types
  <2>2. Phases' /\ RunningJobIsRun'
    BY <1>2 DEF JobCreated, Types, Phases, RunningJobIsRun
  <2>3. Registered'
    BY <1>2 DEF JobCreated, Types, Phases, Registered, RunningJobIsRun
  <2>4. MonthMutex'
    BY <1>2 DEF JobCreated, Types, Phases, MonthMutex
  <2>5. StageTruth'
    <3>1. \A k \in Jobs, n \in Months :
            stage'[k][n] = stage[k][n] \/ stage'[k][n] \in {"queued", "out"}
      BY <2>0 DEF Types
    <3>2. \A n \in Months : index'[n] = "empty" => n \in Settled
      BY <2>0, ScanFinds DEF WriteIndex, StageTruth
    <3> QED BY <1>2, <3>1, <3>2 DEF JobCreated, StageTruth
  <2>6. Accounted'
    <3>1. \A n \in range[j] : stage'[j][n] = "out" => n \in Filed
      BY <2>0, ScanFinds DEF Types
    <3>2. \A n \in range[j] : stage'[j][n] # "over"
      BY <2>0 DEF Types
    <3>3. \A k \in Jobs \ {j} : stage'[k] = stage[k] /\ tally'[k] = tally[k] /\ phase'[k] = phase[k]
      BY <1>2, <2>0 DEF JobCreated, Types
    <3> QED BY <1>2, <3>1, <3>2, <3>3 DEF JobCreated, Accounted
  <2>7. SavedTruth' /\ DoneMeansSynced'
    BY <1>2 DEF JobCreated, Types, Phases, Accounted, SavedTruth,
         DoneMeansSynced
  <2>8. NoRefetch'
    BY <1>2 DEF JobCreated, Types, MonthMutex, NoRefetch
  <2>9. IndexClaimsOnlyFiles'
    BY <1>2, <2>0, ScanFinds DEF JobCreated, WriteIndex, IndexClaimsOnlyFiles
  <2> QED BY <2>1, <2>2, <2>3, <2>4, <2>5, <2>6, <2>7, <2>8, <2>9
<1>3. CASE StartFails(j)
  <2>1. Types' /\ ScanTruth'
    BY <1>3 DEF StartFails, ScanTruth, Types
  <2>2. Phases' /\ RunningJobIsRun'
    BY <1>3 DEF StartFails, Types, Phases, RunningJobIsRun
  <2>3. Registered'
    BY <1>3 DEF StartFails, Types, Phases, Registered, RunningJobIsRun
  <2>4. MonthMutex'
    BY <1>3 DEF StartFails, Types, Phases, MonthMutex
  <2>5. StageTruth'
    BY <1>3 DEF StartFails, Types, Phases, StageTruth, IndexClaimsOnlyFiles
  <2>6. Accounted'
    BY <1>3 DEF StartFails, Types, Phases, StageTruth, Accounted
  <2>7. SavedTruth' /\ DoneMeansSynced'
    BY <1>3 DEF StartFails, Types, Phases, Accounted, SavedTruth,
         DoneMeansSynced
  <2>8. NoRefetch'
    BY <1>3 DEF StartFails, Types, MonthMutex, NoRefetch
  <2>9. IndexClaimsOnlyFiles'
    BY <1>3 DEF StartFails, Types, StageTruth, IndexClaimsOnlyFiles
  <2> QED BY <2>1, <2>2, <2>3, <2>4, <2>5, <2>6, <2>7, <2>8, <2>9
<1>4. CASE NothingToDo(j)
  <2>1. Types' /\ ScanTruth'
    BY <1>4 DEF NothingToDo, ScanTruth, Types
  <2>2. Phases' /\ RunningJobIsRun'
    BY <1>4 DEF NothingToDo, Types, Phases, RunningJobIsRun
  <2>3. Registered'
    BY <1>4 DEF NothingToDo, Types, Phases, Registered, RunningJobIsRun
  <2>4. MonthMutex'
    BY <1>4 DEF NothingToDo, Types, Phases, MonthMutex
  <2>5. StageTruth'
    BY <1>4 DEF NothingToDo, Types, Phases, StageTruth, IndexClaimsOnlyFiles
  <2>6. Accounted'
    BY <1>4 DEF NothingToDo, Types, Phases, StageTruth, Accounted
  <2>7. SavedTruth' /\ DoneMeansSynced'
    BY <1>4 DEF NothingToDo, Types, Phases, Accounted, SavedTruth,
         DoneMeansSynced
  <2>8. NoRefetch'
    BY <1>4 DEF NothingToDo, Types, MonthMutex, NoRefetch
  <2>9. IndexClaimsOnlyFiles'
    BY <1>4 DEF NothingToDo, Types, StageTruth, IndexClaimsOnlyFiles
  <2> QED BY <2>1, <2>2, <2>3, <2>4, <2>5, <2>6, <2>7, <2>8, <2>9
<1>5. CASE WorkersDone(j)
  <2>1. Types' /\ ScanTruth'
    BY <1>5 DEF WorkersDone, Pending, Scanned, ScanTruth, Types
  <2>2. Phases' /\ RunningJobIsRun'
    BY <1>5 DEF WorkersDone, Pending, Types, Phases, RunningJobIsRun
  <2>3. Registered'
    BY <1>5 DEF WorkersDone, Pending, Types, Phases, Registered, RunningJobIsRun
  <2>4. MonthMutex'
    BY <1>5 DEF WorkersDone, Pending, Types, Phases, MonthMutex
  <2>5. StageTruth'
    BY <1>5 DEF WorkersDone, Pending, Types, Phases, StageTruth, IndexClaimsOnlyFiles
  <2>6. Accounted'
    BY <1>5 DEF WorkersDone, Pending, Types, Phases, StageTruth, Accounted
  <2>7. SavedTruth' /\ DoneMeansSynced'
    BY <1>5 DEF WorkersDone, Pending, Types, Phases, Accounted, SavedTruth,
         DoneMeansSynced
  <2>8. NoRefetch'
    BY <1>5 DEF WorkersDone, Pending, Types, MonthMutex, NoRefetch
  <2>9. IndexClaimsOnlyFiles'
    BY <1>5 DEF WorkersDone, Pending, Types, StageTruth, IndexClaimsOnlyFiles
  <2> QED BY <2>1, <2>2, <2>3, <2>4, <2>5, <2>6, <2>7, <2>8, <2>9
<1>6. CASE JobEnds(j)
  <2>0. PICK found \in Found(j) : WriteIndex(found)
    BY <1>6 DEF JobEnds
  <2>1. Types' /\ ScanTruth'
    BY <1>6, <2>0, ScanFinds DEF JobEnds, WriteIndex, ScanTruth, Types
  <2>2. Phases' /\ RunningJobIsRun'
    BY <1>6 DEF JobEnds, Types, Phases, RunningJobIsRun
  <2>3. Registered'
    BY <1>6 DEF JobEnds, Types, Phases, Registered, RunningJobIsRun
  <2>4. MonthMutex'
    BY <1>6 DEF JobEnds, Types, Phases, MonthMutex
  <2>5. StageTruth'
    BY <1>6, <2>0, ScanFinds DEF JobEnds, WriteIndex, Types, Phases, StageTruth
  <2>6. Accounted'
    BY <1>6 DEF JobEnds, Types, Phases, StageTruth, Accounted
  <2>7. SavedTruth' /\ DoneMeansSynced'
    <3>1. ASSUME tally[j]["failed"] = 0, NEW m \in range[j]
          PROVE  m \in Settled
      <4>1. phase[j] = "rebuilding" /\ ~(tally[j]["failed"] > 0)
        BY <1>6, <3>1 DEF JobEnds
      <4>2. m \in Months
        BY <3>1 DEF Types
      <4>3. stage[j][m] \in {"out", "over"}
        BY <4>1, <4>2 DEF Phases
      <4> QED BY <4>1, <4>2, <4>3 DEF Accounted
    <3> QED BY <1>6, <3>1 DEF JobEnds, Types, SavedTruth, DoneMeansSynced
  <2>8. NoRefetch'
    BY <1>6 DEF JobEnds, Types, MonthMutex, NoRefetch
  <2>9. IndexClaimsOnlyFiles'
    BY <1>6, <2>0, ScanFinds DEF JobEnds, WriteIndex, IndexClaimsOnlyFiles
  <2> QED BY <2>1, <2>2, <2>3, <2>4, <2>5, <2>6, <2>7, <2>8, <2>9
<1> QED BY <1>1, <1>2, <1>3, <1>4, <1>5, <1>6 DEF RunJob

\* The file of a month is written, well or badly.
Rewritten(m) == Readable(m) \/ Spoilt(m)

LEMMA FilesAreKept ==
  ASSUME Types, NEW m \in Months, UNCHANGED files \/ Rewritten(m)
  PROVE  /\ Filed \subseteq Filed' /\ disk' \subseteq disk \cup {m}
         /\ disk' \subseteq Months /\ spoiled' \subseteq Months \ disk'
         /\ Rewritten(m) => m \in Filed'
BY DEF files, Types, Rewritten, Readable, Spoilt, Filed

\* A month m of a job j under way moves to the stage "to", with what it does to
\* the disk, the index, the source's answers and the counters on the way.
LEMMA MonthMoves ==
  ASSUME SyncInv, NEW j \in Jobs, NEW m \in Months,
         NEW to \in Stages \ {"out", "queued"},
         stage[j][m] \notin {"out", "over"}, Move(j, m, to),
         UNCHANGED files \/ (Rewritten(m) /\ stage[j][m] = "fetch" /\ to # "fetch"),
         noData' \in {noData, noData \cup {m}},
         index' \in [Months -> {"absent", "done", "empty"}],
         \A n \in Months : /\ index'[n] = "done" => n \in Filed'
                           /\ index'[n] = "empty" => n \in Settled',
         tally' \in [Jobs -> [Outcomes -> Nat]],
         \A k \in Jobs : tally[k]["failed"] > 0 => tally'[k]["failed"] > 0,
         to \in Holding =>
           stage[j][m] \in Holding \/ \A k \in Jobs : stage[k][m] \notin Holding,
         to = "fetch" => m \notin disk,
         to \in {"written", "marked"} => m \in Filed',
         to = "emptied" => m \in noData',
         to = "skipping" => m \in Settled,
         to = "over" => m \in Settled \/ tally'[j]["failed"] > 0,
         UNCHANGED <<range, status, byKey, saved, phase, attempt, scan>>
  PROVE  SyncInv'
<1> USE DEF SyncInv
<1>1. stage' = [stage EXCEPT ![j][m] = to] /\ phase[j] = "working"
  BY DEF Move, Phases, Types
<1>2. Filed \subseteq Filed' /\ Settled \subseteq Settled' /\ noData \subseteq noData'
  BY FilesAreKept DEF Settled
<1>3. Types' /\ ScanTruth'
  BY <1>1, <1>2, FilesAreKept DEF Types, ScanTruth
<1>4. Phases' /\ RunningJobIsRun'
  BY <1>1 DEF Types, Phases, RunningJobIsRun
<1>5. Registered'
  BY DEF Registered
<1>6. MonthMutex'
  BY <1>1 DEF Types, MonthMutex
<1>7. StageTruth'
  BY <1>1, <1>2 DEF Types, StageTruth
<1>8. Accounted'
  BY <1>1, <1>2 DEF Types, Accounted
<1>9. SavedTruth' /\ DoneMeansSynced'
  BY <1>2 DEF SavedTruth, DoneMeansSynced, Settled, Filed
<1>10. NoRefetch'
  <2> SUFFICES ASSUME NEW k \in Jobs, NEW n \in Months,
                      stage'[k][n] = "fetch", attempt[k][n] = 0
               PROVE  n \notin disk'
    BY DEF NoRefetch
  <2>1. CASE k = j /\ n = m
    BY <2>1, <1>1 DEF Types, files
  <2>2. CASE ~(k = j /\ n = m)
    <3>1. stage[k][n] = "fetch" /\ n \notin disk
      BY <2>2, <1>1 DEF Types, NoRefetch
    <3>2. CASE UNCHANGED files
      BY <3>1, <3>2 DEF files
    <3>3. CASE stage[j][m] = "fetch" /\ disk' \subseteq disk \cup {m}
      BY <3>1, <3>3, <2>2 DEF MonthMutex
    <3> QED BY <3>2, <3>3, FilesAreKept
  <2> QED BY <2>1, <2>2
<1>11. IndexClaimsOnlyFiles'
  BY DEF IndexClaimsOnlyFiles, Filed
<1> QED BY <1>3, <1>4, <1>5, <1>6, <1>7, <1>8, <1>9, <1>10, <1>11

\* A failed attempt, of which a file may be left on disk.
LEMMA MonthRetried ==
  ASSUME SyncInv, NEW j \in Jobs, NEW m \in Months, stage[j][m] = "fetch",
         Retry(j, m), UNCHANGED files \/ Rewritten(m),
         UNCHANGED <<index, job, phase, scan, noData>>
  PROVE  SyncInv'
<1> USE DEF SyncInv, job
<1>0. Filed \subseteq Filed' /\ Settled \subseteq Settled'
  BY FilesAreKept DEF Settled
<1>1. CASE attempt[j][m] < Retries
  <2>1. /\ attempt' = [attempt EXCEPT ![j][m] = @ + 1] /\ stage' = stage
        /\ attempt'[j][m] # 0
    BY <1>1 DEF Retry, Types
  <2>2. Types' /\ ScanTruth'
    BY <1>0, <1>1, <2>1, SyncAssumption, FilesAreKept DEF Types, ScanTruth
  <2>3. NoRefetch'
    <3> SUFFICES ASSUME NEW k \in Jobs, NEW n \in Months,
                        stage[k][n] = "fetch", attempt'[k][n] = 0
                 PROVE  n \notin disk'
      BY <2>1 DEF NoRefetch
    <3>1. ~(k = j /\ n = m) /\ attempt[k][n] = 0
      BY <2>1 DEF Types
    <3>2. n # m
      BY <3>1 DEF MonthMutex
    <3> QED BY <3>1, <3>2, FilesAreKept DEF NoRefetch
  <2>4. /\ Phases' /\ Registered' /\ MonthMutex' /\ StageTruth' /\ Accounted'
        /\ SavedTruth' /\ DoneMeansSynced' /\ RunningJobIsRun'
        /\ IndexClaimsOnlyFiles'
    BY <1>0, <2>1 DEF Phases, Registered, MonthMutex, StageTruth, Accounted,
         SavedTruth, DoneMeansSynced, RunningJobIsRun, IndexClaimsOnlyFiles, Filed, Settled
  <2> QED BY <2>2, <2>3, <2>4
<1>2. CASE ~(attempt[j][m] < Retries)
  <2>1. Move(j, m, "failing") /\ attempt' = attempt
    BY <1>2 DEF Retry
  <2>2. /\ index' \in [Months -> {"absent", "done", "empty"}]
        /\ tally' \in [Jobs -> [Outcomes -> Nat]] /\ noData' = noData
        /\ \A n \in Months : /\ index'[n] = "done" => n \in Filed'
                             /\ index'[n] = "empty" => n \in Settled'
    BY <1>0 DEF Types, StageTruth, IndexClaimsOnlyFiles, Filed
  <2> QED BY <2>1, <2>2, MonthMoves
<1> QED BY <1>1, <1>2

\* The steps of a worker in _process_month.
LEMMA MonthStep ==
  ASSUME SyncInv, NEW j \in Jobs, NEW m \in Months, RunMonth(j, m)
  PROVE  SyncInv'
<1> USE DEF SyncInv, job, month
<1>0. /\ index \in [Months -> {"absent", "done", "empty"}]
      /\ tally \in [Jobs -> [Outcomes -> Nat]]
      /\ \A n \in Months : /\ index[n] = "done" => n \in Filed
                           /\ index[n] = "empty" => n \in Settled
  BY DEF Types, StageTruth, IndexClaimsOnlyFiles, Filed
<1>a. /\ m \in disk => m \in Settled
      /\ Filed \subseteq Settled /\ noData \subseteq Settled
      /\ UNCHANGED files => Filed' = Filed
      /\ UNCHANGED files /\ UNCHANGED noData => Settled' = Settled
      /\ UNCHANGED files /\ noData' = noData \cup {m} => Settled' = Settled \cup {m}
      /\ Rewritten(m) /\ noData' = noData =>
           m \in Filed' /\ Filed \subseteq Filed' /\ Settled \subseteq Settled'
  BY FilesAreKept DEF Filed, Settled, files
<1>1. CASE TakeMonth(j, m)
  BY <1>0, <1>a, <1>1, MonthMoves DEF TakeMonth
<1>2. CASE CheckMonth(j, m)
  <2>1. CASE Move(j, m, "skipping") /\ (m \in disk \/ index[m] = "empty")
    BY <1>0, <1>a, <1>2, <2>1, MonthMoves DEF CheckMonth, MonthFree
  <2>2. CASE Move(j, m, "fetch") /\ m \notin disk
    BY <1>0, <1>a, <1>2, <2>2, MonthMoves DEF CheckMonth, MonthFree
  <2> QED BY <1>2, <2>1, <2>2 DEF CheckMonth
<1>3. CASE FetchFails(j, m)
  BY <1>3, MonthRetried DEF FetchFails
<1>4. CASE FetchEmpty(j, m)
  BY <1>0, <1>a, <1>4, MonthMoves DEF FetchEmpty, Mark
<1>5. CASE FetchWrites(j, m)
  <2>1. CASE Readable(m) /\ Move(j, m, "written") /\ UNCHANGED attempt
    BY <1>0, <1>a, <1>5, <2>1, MonthMoves DEF FetchWrites, Rewritten
  <2>2. CASE Move(j, m, "failing") /\ UNCHANGED <<files, attempt>>
    BY <1>0, <1>a, <1>5, <2>2, MonthMoves DEF FetchWrites
  <2>3. CASE Rewritten(m) /\ Retry(j, m)
    BY <1>5, <2>3, MonthRetried DEF FetchWrites
  <2> QED BY <1>5, <2>1, <2>2, <2>3 DEF FetchWrites, Rewritten
<1>6. CASE MonthRaises(j, m)
  BY <1>0, <1>a, <1>6, MonthMoves DEF MonthRaises
<1>7. CASE MarkDone(j, m)
  <2>1. m \in Filed
    BY <1>7 DEF MarkDone, StageTruth
  <2> QED BY <1>0, <1>a, <1>7, <2>1, MonthMoves, SMTT(30) DEF MarkDone, Mark
<1>8. CASE CountMonth(j, m)
  <2>1. /\ tally' \in [Jobs -> [Outcomes -> Nat]]
        /\ \A k \in Jobs : tally[k]["failed"] > 0 => tally'[k]["failed"] > 0
    BY <1>0, <1>a, <1>8 DEF CountMonth, Counted
  <2>2. m \in Settled \/ tally'[j]["failed"] > 0
    BY <1>0, <1>a, <1>8 DEF CountMonth, Counted, StageTruth
  <2>3. stage[j][m] \notin {"out", "over"}
    BY <1>8 DEF CountMonth, Counted
  <2> QED BY <1>0, <1>a, <1>8, <2>1, <2>2, <2>3, MonthMoves DEF CountMonth
<1> QED BY <1>1, <1>2, <1>3, <1>4, <1>5, <1>6, <1>7, <1>8 DEF RunMonth

LEMMA SyncInvStep == SyncInv /\ [Next]_vars => SyncInv'
<1> SUFFICES ASSUME SyncInv, [Next]_vars PROVE SyncInv'
  OBVIOUS
<1> USE DEF SyncInv, files, job, month, Filed, Settled
<1>1. CASE Restart
  <2>1. Types' /\ ScanTruth'
    BY <1>1, SyncAssumption DEF Restart, Loaded, ScanTruth, Types
  <2>2. Phases' /\ RunningJobIsRun'
    BY <1>1 DEF Restart, Loaded, Types, Phases, RunningJobIsRun
  <2>3. Registered'
    BY <1>1 DEF Restart, Loaded, Types, Phases, Registered, RunningJobIsRun
  <2>4. MonthMutex'
    BY <1>1 DEF Restart, Loaded, Types, Phases, MonthMutex
  <2>5. StageTruth'
    BY <1>1 DEF Restart, Loaded, Types, Phases, StageTruth, IndexClaimsOnlyFiles
  <2>6. Accounted'
    BY <1>1 DEF Restart, Loaded, Types, Phases, StageTruth, Accounted
  <2>7. SavedTruth' /\ DoneMeansSynced'
    BY <1>1 DEF Restart, Loaded, Types, Phases, Accounted, SavedTruth,
         DoneMeansSynced
  <2>8. NoRefetch'
    BY <1>1 DEF Restart, Loaded, Types, MonthMutex, NoRefetch
  <2>9. IndexClaimsOnlyFiles'
    BY <1>1 DEF Restart, Loaded, Types, StageTruth, IndexClaimsOnlyFiles
  <2> QED BY <2>1, <2>2, <2>3, <2>4, <2>5, <2>6, <2>7, <2>8, <2>9
<1>2. CASE UNCHANGED vars
  BY <1>2 DEF vars, Types, ScanTruth, Phases, Registered, MonthMutex, StageTruth,
              Accounted, SavedTruth, RunningJobIsRun, NoRefetch,
              IndexClaimsOnlyFiles, DoneMeansSynced
<1> QED BY <1>1, <1>2, JobStep, MonthStep DEF Next

-----------------------------------------------------------------------------
(* The theorems *)

\* SyncInv is an invariant of every run of the program.
THEOREM SyncInvariant == Spec => []SyncInv
<1> QED BY SyncInvInit, SyncInvStep, PTL DEF Spec

\* start_job, which awaits its rebuild between the look-up and the registration
\* of a job, never has two jobs running for a range.
THEOREM OneRunningJob == Spec => []OneRunningJobPerRange
<1>1. SyncInv => OneRunningJobPerRange
  BY DEF SyncInv, Registered, OneRunningJobPerRange
<1> QED BY <1>1, SyncInvariant, PTL

\* After any number of restarts a job that _load_jobs shows as RUNNING is one
\* that _run_job is running.
THEOREM NoStaleRunningJob == Spec => []RunningJobIsRun
<1>1. SyncInv => RunningJobIsRun
  BY DEF SyncInv
<1> QED BY <1>1, SyncInvariant, PTL

\* With any number of overlapping jobs and workers, _process_month does not
\* fetch a month whose file is on disk, unless it retries its own attempt.
THEOREM FetchedOnce == Spec => []NoRefetch
<1>1. SyncInv => NoRefetch
  BY DEF SyncInv
<1> QED BY <1>1, SyncInvariant, PTL

\* The status DONE that _run_job sets means that the range is synced, also
\* when it is read from sync_jobs.json by a later process.
THEOREM DoneIsSynced == Spec => []DoneMeansSynced
<1>1. SyncInv => DoneMeansSynced
  BY DEF SyncInv
<1> QED BY <1>1, SyncInvariant, PTL

\* rebuild_coverage_index, mark_done and mark_empty never leave the index
\* claiming a file that is not there, in whatever order they write it.
THEOREM IndexIsBacked == Spec => []IndexClaimsOnlyFiles
<1>1. SyncInv => IndexClaimsOnlyFiles
  BY DEF SyncInv
<1> QED BY <1>1, SyncInvariant, PTL

-----------------------------------------------------------------------------
(* The counters of a job *)

Sum(t) == t["done"] + t["skipped"] + t["empty"] + t["failed"]

\* The counters and the months still pending make up the range of a job under
\* way; those of a finished job, in memory or on file, make it up alone.
TallyOf(j) ==
    /\ tally[j] \in [Outcomes -> 0 .. Cardinality(Months)]
    /\ phase[j] \in {"none", "starting"} => \A o \in Outcomes : tally[j][o] = 0
    /\ phase[j] = "ended" => saved[j] # "none"
    /\ phase[j] \in {"working", "rebuilding"} =>
         /\ status[j] = "RUNNING" /\ saved[j] = "RUNNING"
         /\ Pending(j) \subseteq range[j]
         /\ Sum(tally[j]) + Cardinality(Pending(j)) = Cardinality(range[j])
    /\ status[j] \in {"DONE", "FAILED"} \/ saved[j] \in {"DONE", "FAILED"} =>
         Sum(tally[j]) = Cardinality(range[j])

TallyInv ==
    /\ lives \in 0 .. MaxLives \cup {1}
    /\ \A j \in Jobs : TallyOf(j)

LEMMA SubsetsOfMonths ==
  ASSUME NEW S \in SUBSET Months
  PROVE  /\ IsFiniteSet(S) /\ Cardinality(S) \in Nat
         /\ Cardinality(S) <= Cardinality(Months)
         /\ Cardinality(Months) \in Nat
BY RangeAssumption, FS_Subset, FS_CardinalityType

LEMMA SumIsNat ==
  ASSUME NEW t \in [Outcomes -> Nat]
  PROVE  Sum(t) \in Nat /\ \A o \in Outcomes : t[o] \in Nat /\ t[o] <= Sum(t)
BY DEF Sum

\* A job of which only the stages of pending months change.
LEMMA TallyStays ==
  ASSUME NEW j \in Jobs, TallyOf(j), Pending(j)' = Pending(j),
         tally'[j] = tally[j], phase'[j] = phase[j], range'[j] = range[j],
         status'[j] = status[j], saved'[j] = saved[j]
  PROVE  TallyOf(j)'
BY DEF TallyOf

\* A job none of whose months moves.
LEMMA JobUntouched ==
  ASSUME NEW j \in Jobs, TallyOf(j), stage'[j] = stage[j],
         tally'[j] = tally[j], phase'[j] = phase[j], range'[j] = range[j],
         status'[j] = status[j], saved'[j] = saved[j]
  PROVE  TallyOf(j)'
<1>1. Pending(j)' = Pending(j)
  BY DEF Pending
<1> QED BY <1>1, TallyStays

\* What the months of a range that are found and those that are not add up to.
LEMMA FoundAndQueued ==
  ASSUME NEW r \in SUBSET Months, NEW found
  PROVE  /\ Cardinality(r \cap found) \in 0 .. Cardinality(Months)
         /\ Cardinality(r \cap found) + Cardinality(r \ found) = Cardinality(r)
<1>1. IsFiniteSet(r)
  BY SubsetsOfMonths
<1>2. Cardinality(r \ found) = Cardinality(r) - Cardinality(r \cap found)
  BY <1>1, FS_Difference
<1>3. /\ Cardinality(r) \in Nat /\ Cardinality(r \cap found) \in Nat
      /\ Cardinality(r \cap found) <= Cardinality(Months) /\ Cardinality(Months) \in Nat
  BY SubsetsOfMonths
<1> QED BY <1>2, <1>3

LEMMA JobTally ==
  ASSUME Types, Phases, RunningJobIsRun, TallyInv, NEW j \in Jobs,
         \/ \E r \in Ranges : StartJob(j, r)
         \/ JobCreated(j) \/ StartFails(j) \/ RunJob(j)
  PROVE  TallyInv'
<1>0. \A k \in Jobs : TallyOf(k)
  BY DEF TallyInv
<1>1. lives' \in 0 .. MaxLives \cup {1}
  BY ZenonT(30) DEF TallyInv, Types, StartJob, JobCreated, StartFails, RunJob, NothingToDo,
         WorkersDone, JobEnds
<1>2. ASSUME NEW k \in Jobs, k # j PROVE TallyOf(k)'
  <2>1. /\ stage'[k] = stage[k] /\ tally'[k] = tally[k] /\ phase'[k] = phase[k]
        /\ range'[k] = range[k] /\ status'[k] = status[k] /\ saved'[k] = saved[k]
    <3>1. CASE \E r \in Ranges : StartJob(j, r)
      BY <1>2, <3>1 DEF StartJob, Types, month
    <3>2. CASE JobCreated(j)
      BY <1>2, <3>2 DEF JobCreated, Types, month
    <3>3. CASE StartFails(j)
      BY <1>2, <3>3 DEF StartFails, Types, job, month
    <3>4. CASE NothingToDo(j)
      BY <1>2, <3>4 DEF NothingToDo, Types, month
    <3>5. CASE WorkersDone(j)
      BY <1>2, <3>5 DEF WorkersDone, Types, job, month
    <3>6. CASE JobEnds(j)
      <4>1. UNCHANGED <<range, tally, stage>>
        BY <3>6 DEF JobEnds, month
      <4>2. phase'[k] = phase[k] /\ status'[k] = status[k] /\ saved'[k] = saved[k]
        BY <1>2, <3>6 DEF JobEnds, Types
      <4> QED BY <4>1, <4>2
    <3> QED BY <3>1, <3>2, <3>3, <3>4, <3>5, <3>6 DEF RunJob
  <2> QED BY <1>0, <2>1, JobUntouched
<1>3. TallyOf(j)'
  <2>0. /\ TallyOf(j) /\ range[j] \in SUBSET Months
        /\ phase[j] \in {"none", "starting"} => status[j] = "none" /\ saved[j] = "none"
    BY <1>0 DEF Types, Phases
  <2>1. CASE (\E r \in Ranges : StartJob(j, r)) \/ StartFails(j)
    <3>1. /\ phase[j] \in {"none", "starting"} /\ phase'[j] \in {"none", "starting"}
          /\ tally'[j] = tally[j] /\ status'[j] = status[j] /\ saved'[j] = saved[j]
      BY <2>1 DEF StartJob, StartFails, Types, job
    <3> QED BY <2>0, <3>1 DEF TallyOf
  <2>2. CASE JobCreated(j)
    <3>1. PICK found \in Found(j) :
            /\ tally' = [tally EXCEPT ![j]["skipped"] = Cardinality(range[j] \cap found.good)]
            /\ stage' = [stage EXCEPT ![j] =
                  [m \in Months |-> IF m \in range[j] \ found.good THEN "queued" ELSE "out"]]
      BY <2>2 DEF JobCreated
    <3>2. phase[j] = "starting" /\ \A o \in Outcomes : tally[j][o] = 0
      BY <2>0, <2>2 DEF JobCreated, TallyOf
    <3> DEFINE c == Cardinality(range[j] \cap found.good)
               r == range[j]
    <3>3. c \in 0 .. Cardinality(Months) /\ c \in Nat
          /\ c + Cardinality(r \ found.good) = Cardinality(r)
      BY <2>0, FoundAndQueued, SubsetsOfMonths
    <3>4. tally' = [tally EXCEPT ![j]["skipped"] = c]
      BY <3>1
    <3> HIDE DEF c
    <3>5. /\ tally'[j]["skipped"] = c
          /\ \A o \in Outcomes : o # "skipped" => tally'[j][o] = 0
          /\ tally'[j] = [tally[j] EXCEPT !["skipped"] = c]
      BY <3>2, <3>4 DEF Types
    <3>6. Sum(tally'[j]) = c
      BY <3>3, <3>5 DEF Sum
    <3>7. tally'[j] \in [Outcomes -> 0 .. Cardinality(Months)]
      BY <2>0, <3>3, <3>5 DEF TallyOf
    <3>8. Pending(j)' = r \ found.good
      <4>1. \A m \in Months : stage'[j][m] = IF m \in r \ found.good THEN "queued" ELSE "out"
        BY <3>1 DEF Types
      <4>2. r \subseteq Months
        BY <2>0
      <4> HIDE DEF r
      <4> QED BY <4>1, <4>2 DEF Pending
    <3>9. /\ range' = range /\ phase'[j] = "working"
          /\ status'[j] = "RUNNING" /\ saved'[j] = "RUNNING"
      BY <2>2 DEF JobCreated, Types
    <3>10. range'[j] = r /\ Sum(tally'[j]) + Cardinality(Pending(j)') = Cardinality(r)
      BY <3>3, <3>6, <3>8, <3>9
    <3> HIDE DEF r
    <3> QED BY <3>7, <3>8, <3>9, <3>10 DEF TallyOf
  <2>3. CASE RunJob(j)
    <3>1. /\ UNCHANGED <<range, tally, stage>> /\ phase[j] \in {"working", "rebuilding"}
          /\ phase'[j] \in {"rebuilding", "ended"}
      BY <2>3 DEF RunJob, NothingToDo, WorkersDone, JobEnds, Types, job, month
    <3>2. Pending(j) = {}
      <4>1. CASE NothingToDo(j)
        BY <4>1 DEF NothingToDo, Pending
      <4>2. CASE WorkersDone(j)
        BY <4>2 DEF WorkersDone
      <4>3. CASE JobEnds(j)
        BY <4>3 DEF JobEnds, Phases, Pending
      <4> QED BY <2>3, <4>1, <4>2, <4>3 DEF RunJob
    <3>3. Cardinality({}) = 0
      BY FS_EmptySet
    <3>4. Sum(tally[j]) \in Nat
      BY <2>0, SubsetsOfMonths, SumIsNat DEF TallyOf, Types
    <3>5. Sum(tally[j]) + 0 = Cardinality(range[j])
      BY <2>0, <3>1, <3>2, <3>3 DEF TallyOf
    <3>6. Sum(tally[j]) = Cardinality(range[j])
      BY <3>4, <3>5
    <3>7. Pending(j)' = {}
      BY <3>1, <3>2 DEF Pending
    <3>8. phase'[j] = "rebuilding" => status'[j] = status[j] /\ saved'[j] = saved[j]
      BY <2>3 DEF RunJob, NothingToDo, WorkersDone, JobEnds, Types, job
    <3>9. phase'[j] = "ended" => saved'[j] # "none"
      BY <2>3 DEF RunJob, NothingToDo, WorkersDone, JobEnds, Types, job
    <3>10. /\ tally'[j] = tally[j] /\ range'[j] = range[j]
           /\ Sum(tally'[j]) + Cardinality(Pending(j)') = Cardinality(range'[j])
           /\ Sum(tally'[j]) = Cardinality(range'[j])
      BY <3>1, <3>3, <3>5, <3>6, <3>7
    <3>11. status[j] = "RUNNING" /\ saved[j] = "RUNNING"
      BY <2>0, <3>1 DEF TallyOf
    <3> QED BY <2>0, <3>1, <3>7, <3>8, <3>9, <3>10, <3>11 DEF TallyOf
  <2> QED BY <2>1, <2>2, <2>3
<1> QED BY <1>1, <1>2, <1>3 DEF TallyInv

\* A month that is counted is pending no longer, and every other step of a
\* worker leaves the month pending and the counters alone.
LEMMA MonthTally ==
  ASSUME Types, Phases, TallyInv, NEW j \in Jobs, NEW m \in Months, RunMonth(j, m)
  PROVE  TallyInv'
<1>0. \A k \in Jobs : TallyOf(k)
  BY DEF TallyInv
<1>1. lives' = lives /\ UNCHANGED <<range, status, saved, phase>>
  BY DEF RunMonth, TakeMonth, CheckMonth, FetchFails, FetchEmpty, FetchWrites, MonthRaises,
         MarkDone, CountMonth, job
<1>2. CASE CountMonth(j, m)
  <2> DEFINE o == Counted[stage[j][m]]
  <2>1. /\ stage[j][m] \notin {"out", "over"} /\ o \in Outcomes
        /\ tally' = [tally EXCEPT ![j][o] = @ + 1]
        /\ stage' = [stage EXCEPT ![j][m] = "over"]
    BY <1>2 DEF CountMonth, Counted, Move
  <2> HIDE DEF o
  <2>2. ASSUME NEW k \in Jobs, k # j PROVE TallyOf(k)'
    <3>1. tally'[k] = tally[k] /\ stage'[k] = stage[k]
      BY <2>1, <2>2 DEF Types
    <3> QED BY <1>0, <1>1, <3>1, JobUntouched
  <2>3. TallyOf(j)'
    <3>1. /\ tally[j] \in [Outcomes -> Nat] /\ range[j] \in SUBSET Months
          /\ tally'[j] = [tally[j] EXCEPT ![o] = @ + 1]
      BY <2>1 DEF Types
    <3>2. phase[j] = "working" /\ phase'[j] = "working" /\ range'[j] = range[j]
          /\ status'[j] = status[j] /\ saved'[j] = saved[j]
      BY <1>1, <2>1 DEF Phases
    <3>3. /\ status[j] = "RUNNING" /\ saved[j] = "RUNNING" /\ Pending(j) \subseteq range[j]
          /\ Sum(tally[j]) + Cardinality(Pending(j)) = Cardinality(range[j])
          /\ tally[j] \in [Outcomes -> 0 .. Cardinality(Months)]
      BY <1>0, <3>2 DEF TallyOf
    <3>4. m \in Pending(j) /\ Pending(j)' = Pending(j) \ {m}
      <4>1. \A n \in Months : stage'[j][n] = IF n = m THEN "over" ELSE stage[j][n]
        BY <2>1 DEF Types
      <4> QED BY <2>1, <4>1 DEF Pending
    <3>5. Cardinality(Pending(j) \ {m}) = Cardinality(Pending(j)) - 1
      BY <3>1, <3>3, <3>4, SubsetsOfMonths, FS_RemoveElement
    <3>6. Cardinality(Pending(j)) \in Nat /\ Cardinality(Pending(j) \ {m}) \in Nat
          /\ Cardinality(range[j]) \in Nat /\ Cardinality(range[j]) <= Cardinality(Months)
          /\ Cardinality(Months) \in Nat
      BY <3>1, <3>3, SubsetsOfMonths
    <3>7. Sum(tally'[j]) = Sum(tally[j]) + 1
      BY <2>1, <3>1 DEF Sum
    <3>8. Sum(tally[j]) \in Nat /\ tally'[j] \in [Outcomes -> Nat]
      BY <2>1, <3>1, SumIsNat
    <3>9. Sum(tally'[j]) + Cardinality(Pending(j) \ {m}) = Cardinality(range[j])
      BY <3>3, <3>5, <3>6, <3>7, <3>8
    <3>10. \A x \in Outcomes : tally'[j][x] <= Cardinality(Months)
      <4>1. Sum(tally'[j]) \in Nat /\ Sum(tally'[j]) <= Cardinality(Months)
        BY <3>6, <3>7, <3>8, <3>9
      <4>2. \A x \in Outcomes : tally'[j][x] \in Nat /\ tally'[j][x] <= Sum(tally'[j])
        BY <3>8, SumIsNat
      <4> QED BY <3>6, <4>1, <4>2
    <3>11. tally'[j] \in [Outcomes -> 0 .. Cardinality(Months)]
      BY <3>6, <3>8, <3>10
    <3> QED BY <3>2, <3>3, <3>4, <3>9, <3>11 DEF TallyOf
  <2> QED BY <1>1, <2>2, <2>3 DEF TallyInv
<1>3. CASE ~CountMonth(j, m)
  <2>1. tally' = tally /\ stage[j][m] \notin {"out", "over"}
        /\ \/ stage' = stage
           \/ \E to \in Stages \ {"out", "over"} : stage' = [stage EXCEPT ![j][m] = to]
    BY <1>3 DEF RunMonth, TakeMonth, CheckMonth, FetchFails, FetchEmpty, FetchWrites,
                MonthRaises, MarkDone, Move, Retry, job
  <2>2. \A k \in Jobs : k # j => stage'[k] = stage[k]
    BY <2>1 DEF Types
  <2>3. \A n \in Months : stage'[j][n] \in {"out", "over"} <=> stage[j][n] \in {"out", "over"}
    BY <2>1 DEF Types
  <2>4. Pending(j)' = Pending(j)
    BY <2>3 DEF Pending
  <2>5. TallyOf(j)'
    BY <1>0, <1>1, <2>1, <2>4, TallyStays
  <2>6. \A k \in Jobs : k # j => TallyOf(k)'
    BY <1>0, <1>1, <2>1, <2>2, JobUntouched
  <2> QED BY <1>1, <2>5, <2>6 DEF TallyInv
<1> QED BY <1>2, <1>3

LEMMA TallyInvariant == Spec => []TallyInv
<1>1. Init => TallyInv
  <2> SUFFICES ASSUME Init PROVE TallyInv
    OBVIOUS
  <2>1. 0 \in 0 .. Cardinality(Months)
    BY SubsetsOfMonths
  <2>2. ASSUME NEW j \in Jobs PROVE TallyOf(j)
    BY <2>1 DEF Init, TallyOf
  <2> QED BY <2>2 DEF Init, TallyInv
<1>2. SyncInv /\ TallyInv /\ [Next]_vars => TallyInv'
  <2> SUFFICES ASSUME SyncInv, TallyInv, [Next]_vars PROVE TallyInv'
    OBVIOUS
  <2>0. Types /\ Phases /\ RunningJobIsRun /\ \A j \in Jobs : TallyOf(j)
    BY DEF SyncInv, TallyInv
  <2>1. CASE Restart
    <3>1. lives' \in 0 .. MaxLives \cup {1}
      BY <2>1, SyncAssumption DEF Restart, TallyInv
    <3>2. ASSUME NEW j \in Jobs PROVE TallyOf(j)'
      <4>1. /\ tally'[j] = tally[j] /\ range'[j] = range[j] /\ saved'[j] = saved[j]
            /\ status'[j] = Loaded(saved[j])
            /\ phase'[j] = IF saved[j] = "none" THEN "none" ELSE "ended"
        BY <2>1 DEF Restart
      <4>2. TallyOf(j)
        BY <2>0
      <4>3. saved[j] = "none" => phase[j] \in {"none", "starting"}
        BY <4>2, <2>0 DEF TallyOf, Types
      <4> QED BY <4>1, <4>2, <4>3 DEF TallyOf, Loaded
    <3> QED BY <3>1, <3>2 DEF TallyInv
  <2>2. CASE UNCHANGED vars
    <3>1. UNCHANGED <<lives, stage, tally, phase, range, status, saved>>
      BY <2>2 DEF vars, job, month
    <3>2. \A j \in Jobs : TallyOf(j)'
      BY <2>0, <3>1, JobUntouched
    <3> QED BY <3>1, <3>2 DEF TallyInv
  <2> QED BY <2>0, <2>1, <2>2, JobTally, MonthTally DEF Next
<1> QED BY <1>1, <1>2, SyncInvariant, PTL DEF Spec

\* The variables keep their types and the counters of a job that is DONE or
\* FAILED account for every month of its range exactly once, whichever way
\* each of its months ended (start_job, _process_month and the worker's except).
THEOREM TypeCorrect == Spec => []TypeOK
<1>1. SyncInv /\ TallyInv => TypeOK
  <2> SUFFICES ASSUME SyncInv, TallyInv PROVE TypeOK
    OBVIOUS
  <2>1. Types /\ tally \in [Jobs -> [Outcomes -> 0 .. Cardinality(Months)]]
    BY DEF SyncInv, Types, TallyInv, TallyOf
  <2>3. scan \in [Jobs -> [good : SUBSET Months, bad : SUBSET Months]]
    BY DEF SyncInv, ScanTruth
  <2>2. ASSUME NEW j \in Jobs, status[j] \in {"DONE", "FAILED"}
        PROVE  Sum(tally[j]) = Cardinality(range[j])
    BY <2>2 DEF TallyInv, TallyOf
  <2> QED BY <2>1, <2>2, <2>3 DEF TypeOK, Types, TallyInv, Sum
<1> QED BY <1>1, SyncInvariant, TallyInvariant, PTL

=============================================================================
