--------------------------- MODULE RawSync_proofs ---------------------------
(***************************************************************************)
(* Proofs about the raw sync worker for any jobs, symbols, ranges of days  *)
(* and number of crashes, shutdowns and disk errors.                       *)
(***************************************************************************)
EXTENDS RawSync, FiniteSetTheorems, SequenceTheorems, TLAPS

-----------------------------------------------------------------------------
(* Types *)

LEMMA NoneIsNothing == None \notin Jobs /\ None \notin SavedJob /\ None \notin JobTask
BY OrderAssumption

LEMMA TotalIsNat ==
  ASSUME NEW o \in Orders
  PROVE  Total(o) \in Nat /\ Span(o) \in Nat /\ (Total(o) > 0 => o.from < o.to)
<1>1. Len(Symbols) \in Nat
  BY OrderAssumption, LenProperties
<1>2. o.from \in Nat /\ o.to \in Nat
  BY OrderAssumption
<1>3. CASE o.from < o.to
  <2>1. Span(o) \in Nat
    BY <1>2, <1>3 DEF Span
  <2> QED BY <1>1, <1>3, <2>1 DEF Total
<1>4. CASE ~(o.from < o.to)
  BY <1>1, <1>4 DEF Span, Total
<1> QED BY <1>3, <1>4

LEMMA StopHasDay ==
  ASSUME NEW o \in Orders, NEW k \in 1 .. Total(o)
  PROVE  Stop(o, k)[2] \in AllDays
<1>1. o.from < o.to /\ o.from \in Nat /\ o.to \in Nat /\ k \in Nat \ {0}
  BY TotalIsNat, OrderAssumption
<1>2. Span(o) \in Nat \ {0} /\ Span(o) = o.to - o.from
  BY <1>1 DEF Span
<1>3. (k - 1) % Span(o) \in 0 .. Span(o) - 1
  BY <1>1, <1>2
<1>4. o.from + ((k - 1) % Span(o)) \in o.from .. o.to - 1
  BY <1>1, <1>2, <1>3
<1> QED BY <1>4 DEF Stop, AllDays

\* A quotient, multiplied again.
LEMMA QuotientBelow ==
  ASSUME NEW a \in Nat, NEW n \in Nat \ {0}
  PROVE  a \div n \in Nat /\ n * (a \div n) <= a
OBVIOUS

LEMMA StopIsKey ==
  ASSUME NEW o \in Orders, NEW k \in 1 .. Total(o)
  PROVE  Stop(o, k) \in Keys
<1> DEFINE q == (k - 1) \div Span(o)
<1>1. o.from < o.to /\ o.from \in Nat /\ o.to \in Nat /\ Len(Symbols) \in Nat /\ k \in Nat \ {0}
      /\ k <= Len(Symbols) * Span(o)
  BY TotalIsNat, OrderAssumption, LenProperties DEF Total
<1>2. Span(o) \in Nat \ {0}
  BY <1>1 DEF Span
<1>3. q \in Nat /\ Span(o) * q <= k - 1
  <2>1. k - 1 \in Nat
    BY <1>1
  <2> QED BY <1>2, <2>1, QuotientBelow
<1>4. q + 1 \in 1 .. Len(Symbols)
  <2> HIDE DEF q
  <2>1. ~(q >= Len(Symbols))
    <3> DEFINE n == Len(Symbols)
               w == Span(o)
    <3>1. n \in Nat /\ w \in Nat /\ k \in Nat /\ q \in Nat
      BY <1>1, <1>2, <1>3
    <3>2. k <= n * w /\ w * q <= k - 1
      BY <1>1, <1>3
    <3> HIDE DEF n, w
    <3>3. n * w = w * n /\ n * w \in Nat /\ w * q \in Nat
      BY <3>1
    <3>4. ASSUME q >= n PROVE w * n <= w * q
      <4>1. q - n \in Nat
        BY <3>1, <3>4
      <4>2. w * (q - n) \in Nat /\ w * q = w * n + w * (q - n)
        BY <3>1, <4>1
      <4> QED BY <3>3, <4>2
    <3>5. ~(q >= n)
      BY <3>1, <3>2, <3>3, <3>4
    <3> QED BY <3>5 DEF n
  <2> QED BY <1>1, <1>3, <2>1
<1>5. Symbols[q + 1] \in SymbolSet
  BY <1>4, OrderAssumption, ElementOfSeq
<1> HIDE DEF q
<1>6. Stop(o, k)[1] = Symbols[q + 1] /\ Stop(o, k) = <<Stop(o, k)[1], Stop(o, k)[2]>>
  BY DEF Stop, q
<1> QED BY <1>5, <1>6, StopHasDay DEF Keys

\* What a task says of itself.
TaskOK(j) ==
  Running(j) =>
    /\ saved[j] # None
    /\ task[j].at \in 1 .. Total(saved[j].order) + 1
    /\ task[j].pc \in {"fetch", "write", "manifest", "watermark", "persist"} =>
         task[j].at <= Total(saved[j].order)
    /\ loop # j => task[j].pc = "fetch"

\* A step of the task of j leaves the others where they are: they wait for
\* their downloads.
LEMMA TaskMoves ==
  ASSUME TypeOK, NEW j \in Jobs, loop \in {j, None}, loop' \in {j, None},
         \A k \in Jobs \ {j} : task'[k] = task[k],
         \A k \in Jobs : saved[k] # None => saved'[k] # None /\ saved'[k].order = saved[k].order,
         task'[j] = None => loop' = None,
         TaskOK(j)'
  PROVE  (loop' \in Jobs \cup {None}) /\ (loop' # None => Running(loop)') /\ \A k \in Jobs : TaskOK(k)'
<1>1. loop' \in Jobs \cup {None} /\ (loop' # None => Running(loop)')
  BY DEF Running
<1>2. ASSUME NEW k \in Jobs, k # j PROVE TaskOK(k)'
  BY <1>2, NoneIsNothing DEF TypeOK, TaskOK, Running
<1> QED BY <1>1, <1>2

DiskOK ==
  /\ file \in [Keys -> Jobs \cup {None}] /\ manifest \in [Keys -> Jobs \cup {None}]
  /\ watermark \in [SymbolSet -> AllDays \cup {None}]
  /\ lock \in BOOLEAN /\ faults \in 0 .. MaxFaults /\ interrupted \subseteq Jobs

JobsOK == saved \in [Jobs -> SavedJob \cup {None}] /\ task \in [Jobs -> JobTask \cup {None}]

TurnsOK == loop \in Jobs \cup {None} /\ (loop # None => Running(loop)) /\ \A j \in Jobs : TaskOK(j)

LEMMA TypeParts == TypeOK <=> DiskOK /\ JobsOK /\ TurnsOK
BY DEF TypeOK, DiskOK, JobsOK, TurnsOK, TaskOK

LEMMA InitTyped == ASSUME Init PROVE TypeOK
<1>1. DiskOK
  <2>1. MaxFaults \in Nat
    BY OrderAssumption
  <2>2. file \in [Keys -> Jobs \cup {None}] /\ manifest \in [Keys -> Jobs \cup {None}]
    BY DEF Init
  <2>3. watermark \in [SymbolSet -> AllDays \cup {None}]
    BY DEF Init
  <2>4. lock = FALSE /\ faults = 0 /\ interrupted = {}
    BY DEF Init
  <2>5. lock \in BOOLEAN
    BY <2>4, Zenon
  <2>6. faults \in 0 .. MaxFaults /\ interrupted \subseteq Jobs
    BY <2>1, <2>4
  <2> QED BY <2>2, <2>3, <2>5, <2>6 DEF DiskOK
<1>2. JobsOK /\ TurnsOK
  BY DEF Init, JobsOK, TurnsOK, TaskOK, Running
<1> QED BY <1>1, <1>2, TypeParts

\* What holds of the task and the job of j in every state where j runs.
LEMMA RunningTyped ==
  ASSUME TypeOK, NEW j \in Jobs, Running(j)
  PROVE  /\ task[j] \in JobTask /\ saved[j] \in SavedJob /\ saved[j] # None
         /\ saved[j].order \in Orders /\ Total(saved[j].order) \in Nat
         /\ task[j].at \in 1 .. Total(saved[j].order) + 1 /\ TaskOK(j)
         /\ Total(saved[j].order) + 1 \in Nat
<1>1. JobsOK /\ TaskOK(j)
  BY TypeParts DEF TurnsOK
<1>2. task[j] \in JobTask /\ saved[j] # None /\ saved[j] \in SavedJob
  BY <1>1 DEF JobsOK, TaskOK, Running
<1>3. saved[j].order \in Orders
  BY <1>2 DEF SavedJob
<1> QED BY <1>1, <1>2, <1>3, TotalIsNat DEF TaskOK

\* Saving a job changes its counters and its status, not what it was created for.
LEMMA PersistKeeps ==
  ASSUME TypeOK, NEW j \in Jobs, Running(j), Persist(j)
  PROVE  /\ saved' \in [Jobs -> SavedJob \cup {None}] /\ \A k \in Jobs \ {j} : saved'[k] = saved[k]
         /\ saved'[j] = [order |-> saved[j].order, status |-> task[j].status, done |-> task[j].done,
                         skipped |-> task[j].skipped, failed |-> task[j].failed]
         /\ \A k \in Jobs : saved[k] # None => saved'[k] # None /\ saved'[k].order = saved[k].order
<1> DEFINE r == [order |-> saved[j].order, status |-> task[j].status, done |-> task[j].done,
                 skipped |-> task[j].skipped, failed |-> task[j].failed]
<1>1. task[j] \in JobTask /\ saved[j] \in SavedJob /\ saved \in [Jobs -> SavedJob \cup {None}]
  BY RunningTyped, TypeParts DEF JobsOK
<1>2. r \in SavedJob /\ r # None
  <2>1. r \in SavedJob
    BY <1>1 DEF SavedJob, JobTask
  <2> QED BY <2>1, NoneIsNothing
<1>3. saved'[j] = r /\ saved' = [saved EXCEPT ![j] = saved'[j]]
  BY <1>1 DEF Persist, SavedJob
<1> QED BY <1>1, <1>2, <1>3

LEMMA StepTyped ==
  ASSUME TypeOK, NEW j \in Jobs, Step(j)
  PROVE  TypeOK'
<1>0. DiskOK /\ JobsOK /\ TurnsOK
  BY TypeParts
<1>1. Running(j) /\ loop \in {j, None}
  BY DEF Step, SaveRunning, Day, Downloaded, Write, WriteManifest, WriteWatermark, SaveDay, Done,
         SaveEnd, Release, Turn
<1> DEFINE o == saved[j].order
<1>2. /\ task[j] \in JobTask /\ saved[j] \in SavedJob /\ saved[j] # None /\ o \in Orders /\ Total(o) \in Nat
      /\ task[j].at \in 1 .. Total(o) + 1
      /\ task[j].pc \in {"fetch", "write", "manifest", "watermark", "persist"} => task[j].at <= Total(o)
      /\ task \in [Jobs -> JobTask \cup {None}] /\ saved \in [Jobs -> SavedJob \cup {None}]
  BY <1>0, <1>1, RunningTyped DEF TaskOK, JobsOK
<1> HIDE DEF o
\* It is enough to follow the task of j.
<1>3. ASSUME DiskOK', saved' \in [Jobs -> SavedJob \cup {None}],
             \A k \in Jobs : saved[k] # None => saved'[k] # None /\ saved'[k].order = saved[k].order,
             loop' \in {j, None},
             \/ task' = [task EXCEPT ![j] = None] /\ loop' = None
             \/ /\ task' = [task EXCEPT ![j] = task'[j]] /\ task'[j] \in JobTask
                /\ task'[j].at \in 1 .. Total(o) + 1
                /\ task'[j].pc \in {"fetch", "write", "manifest", "watermark", "persist"} =>
                     task'[j].at <= Total(o)
                /\ loop' = None => task'[j].pc = "fetch"
      PROVE  TypeOK'
  <2>1. JobsOK' /\ \A k \in Jobs \ {j} : task'[k] = task[k]
    BY <1>2, <1>3 DEF JobsOK
  <2>2. saved'[j] # None /\ saved'[j].order = o
    BY <1>2, <1>3 DEF o
  <2>3. task'[j] = None => loop' = None
    BY <1>3, NoneIsNothing
  <2>4. TaskOK(j)'
    BY <1>2, <1>3, <2>2, NoneIsNothing DEF TaskOK, Running
  <2>5. TurnsOK'
    BY <1>1, <1>3, <2>1, <2>3, <2>4, TaskMoves DEF TurnsOK
  <2> QED BY <1>3, <2>1, <2>5 DEF TypeOK, DiskOK, JobsOK, TurnsOK, TaskOK
<1>4. ASSUME UNCHANGED saved
      PROVE  /\ saved' \in [Jobs -> SavedJob \cup {None}]
             /\ \A k \in Jobs : saved[k] # None => saved'[k] # None /\ saved'[k].order = saved[k].order
  BY <1>2, <1>4
<1>5. ASSUME UNCHANGED <<disk, lock, faults, interrupted>> PROVE DiskOK'
  BY <1>0, <1>5 DEF DiskOK, disk
<1>6. CASE SaveRunning(j)
  <2>1. Persist(j) /\ task' = [task EXCEPT ![j].pc = "day"] /\ loop' = j
        /\ UNCHANGED <<disk, lock, faults, interrupted>>
    BY <1>6 DEF SaveRunning, Goto
  <2>2. /\ task' = [task EXCEPT ![j] = task'[j]] /\ task'[j] \in JobTask
        /\ task'[j].at = task[j].at /\ task'[j].pc = "day"
    BY <1>2, <2>1 DEF JobTask
  <2> QED BY <1>1, <1>2, <1>3, <1>5, <2>1, <2>2, PersistKeeps, NoneIsNothing
<1>7. CASE Day(j)
  <2>1. UNCHANGED <<disk, saved, lock, faults, interrupted>> /\ task[j].at <= Total(o) /\ loop = j
    BY <1>7 DEF Day, o
  <2>2. CASE task' = [task EXCEPT ![j].pc = "persist", ![j].skipped = @ + 1] /\ UNCHANGED loop
    <3>1. /\ task' = [task EXCEPT ![j] = task'[j]] /\ task'[j] \in JobTask /\ task'[j].at = task[j].at
      BY <1>2, <2>2 DEF JobTask
    <3> QED BY <1>2, <1>3, <1>4, <1>5, <2>1, <2>2, <3>1, NoneIsNothing
  <2>3. CASE task' = [task EXCEPT ![j].pc = "fetch"] /\ loop' = None
    <3>1. /\ task' = [task EXCEPT ![j] = task'[j]] /\ task'[j] \in JobTask /\ task'[j].at = task[j].at
          /\ task'[j].pc = "fetch"
      BY <1>2, <2>3 DEF JobTask
    <3> QED BY <1>2, <1>3, <1>4, <1>5, <2>1, <2>3, <3>1
  <2> QED BY <1>7, <2>2, <2>3 DEF Day
<1>8. CASE Downloaded(j)
  <2>1. UNCHANGED <<disk, saved, lock, faults, interrupted>> /\ loop' = j /\ task[j].pc = "fetch"
        /\ \/ task' = [task EXCEPT ![j].pc = "persist", ![j].failed = @ + 1]
           \/ task' = [task EXCEPT ![j].pc = "write"]
    BY <1>8 DEF Downloaded, Turn, NoData
  <2>2. task' = [task EXCEPT ![j] = task'[j]] /\ task'[j] \in JobTask /\ task'[j].at = task[j].at
    <3>1. CASE task' = [task EXCEPT ![j].pc = "persist", ![j].failed = @ + 1]
      BY <1>2, <3>1 DEF JobTask
    <3>2. CASE task' = [task EXCEPT ![j].pc = "write"]
      BY <1>2, <3>2 DEF JobTask
    <3> QED BY <2>1, <3>1, <3>2
  <2> QED BY <1>2, <1>3, <1>4, <1>5, <2>1, <2>2, NoneIsNothing
<1>9. CASE Write(j)
  <2>1. UNCHANGED <<manifest, watermark, saved, lock, loop, faults, interrupted>> /\ task[j].pc = "write" /\ loop = j
    BY <1>9 DEF Write, Turn
  <2>2. /\ \/ task' = [task EXCEPT ![j].pc = "persist", ![j].skipped = @ + 1]
           \/ task' = [task EXCEPT ![j].pc = "manifest"]
        /\ file' = file \/ file' = [file EXCEPT ![Here(j)] = j]
    BY <1>9 DEF Write
  <2>3. DiskOK'
    BY <1>0, <2>1, <2>2 DEF DiskOK
  <2>4. task' = [task EXCEPT ![j] = task'[j]] /\ task'[j] \in JobTask /\ task'[j].at = task[j].at
    BY <1>2, <2>2 DEF JobTask
  <2> QED BY <1>2, <1>3, <1>4, <2>1, <2>3, <2>4, NoneIsNothing
<1>10. CASE WriteManifest(j)
  <2>1. UNCHANGED <<file, watermark, saved, lock, loop, faults, interrupted>> /\ task[j].pc = "manifest" /\ loop = j
        /\ manifest' = [manifest EXCEPT ![Here(j)] = j] /\ task' = [task EXCEPT ![j].pc = "watermark"]
    BY <1>10 DEF WriteManifest, Turn
  <2>2. DiskOK'
    BY <1>0, <2>1 DEF DiskOK
  <2>3. task' = [task EXCEPT ![j] = task'[j]] /\ task'[j] \in JobTask /\ task'[j].at = task[j].at
    BY <1>2, <2>1 DEF JobTask
  <2> QED BY <1>2, <1>3, <1>4, <2>1, <2>2, <2>3, NoneIsNothing
<1>11. CASE WriteWatermark(j)
  <2>1. UNCHANGED <<file, manifest, saved, lock, loop, faults, interrupted>> /\ task[j].pc = "watermark" /\ loop = j
        /\ watermark' = [watermark EXCEPT ![Here(j)[1]] = Here(j)[2]]
        /\ task' = [task EXCEPT ![j].pc = "persist", ![j].done = @ + 1]
    BY <1>11 DEF WriteWatermark, Turn
  <2>2. Here(j)[2] \in AllDays
    <3>1. task[j].at \in 1 .. Total(o)
      BY <1>2, <2>1
    <3> QED BY <1>2, <3>1, StopHasDay DEF Here, o
  <2>3. DiskOK'
    BY <1>0, <2>1, <2>2 DEF DiskOK
  <2>4. task' = [task EXCEPT ![j] = task'[j]] /\ task'[j] \in JobTask /\ task'[j].at = task[j].at
    BY <1>2, <2>1 DEF JobTask
  <2> QED BY <1>2, <1>3, <1>4, <2>1, <2>3, <2>4, NoneIsNothing
<1>12. CASE SaveDay(j)
  <2>1. Persist(j) /\ task' = [task EXCEPT ![j].pc = "day", ![j].at = @ + 1] /\ loop = j /\ task[j].pc = "persist"
        /\ UNCHANGED <<disk, lock, loop, faults, interrupted>>
    BY <1>12 DEF SaveDay, Turn
  <2>2. /\ task' = [task EXCEPT ![j] = task'[j]] /\ task'[j] \in JobTask
        /\ task'[j].at = task[j].at + 1 /\ task'[j].pc = "day"
    BY <1>2, <2>1 DEF JobTask
  <2>3. task'[j].at \in 1 .. Total(o) + 1
    BY <1>2, <2>1, <2>2
  <2> QED BY <1>1, <1>3, <1>5, <2>1, <2>2, <2>3, PersistKeeps, NoneIsNothing
<1>13. CASE Done(j)
  <2>1. UNCHANGED <<disk, saved, lock, loop, faults, interrupted>> /\ loop = j
        /\ task' = [task EXCEPT ![j].pc = "end", ![j].status = "done"]
    BY <1>13 DEF Done
  <2>2. task' = [task EXCEPT ![j] = task'[j]] /\ task'[j] \in JobTask /\ task'[j].at = task[j].at /\ task'[j].pc = "end"
    BY <1>2, <2>1 DEF JobTask, Statuses
  <2> QED BY <1>2, <1>3, <1>4, <1>5, <2>1, <2>2, NoneIsNothing
<1>14. CASE SaveEnd(j)
  <2>1. Persist(j) /\ task' = [task EXCEPT ![j].pc = "release"] /\ loop' = j
        /\ UNCHANGED <<disk, lock, faults, interrupted>>
    BY <1>14 DEF SaveEnd, Goto
  <2>2. /\ task' = [task EXCEPT ![j] = task'[j]] /\ task'[j] \in JobTask
        /\ task'[j].at = task[j].at /\ task'[j].pc = "release"
    BY <1>2, <2>1 DEF JobTask
  <2> QED BY <1>1, <1>2, <1>3, <1>5, <2>1, <2>2, PersistKeeps, NoneIsNothing
<1>15. CASE Release(j)
  <2>1. UNCHANGED <<disk, saved, faults, interrupted>> /\ lock' = FALSE /\ loop' = None
        /\ task' = [task EXCEPT ![j] = None]
    BY <1>15 DEF Release
  <2>2. DiskOK'
    BY <1>0, <2>1 DEF DiskOK, disk
  <2> QED BY <1>3, <1>4, <2>1, <2>2
<1> QED BY <1>6, <1>7, <1>8, <1>9, <1>10, <1>11, <1>12, <1>13, <1>14, <1>15 DEF Step

LEMMA NextTyped == ASSUME TypeOK, [Next]_vars PROVE TypeOK'
<1>0. DiskOK /\ JobsOK /\ TurnsOK
  BY TypeParts
<1>1. ASSUME DiskOK', JobsOK', TurnsOK' PROVE TypeOK'
  BY <1>1 DEF TypeOK, DiskOK, JobsOK, TurnsOK, TaskOK
<1>2. saved \in [Jobs -> SavedJob \cup {None}] /\ task \in [Jobs -> JobTask \cup {None}]
  BY <1>0 DEF JobsOK
<1>3. ASSUME UNCHANGED <<disk, lock, faults, interrupted>> PROVE DiskOK'
  BY <1>0, <1>3 DEF DiskOK, disk
\* Steps that leave every task and the loop as they are.
<1>4. ASSUME UNCHANGED <<task, loop>>,
             \A k \in Jobs : saved[k] # None => saved'[k] # None /\ saved'[k].order = saved[k].order
      PROVE  TurnsOK'
  BY <1>0, <1>4 DEF TurnsOK, TaskOK, Running
<1>5. ASSUME NEW j \in Jobs, Create(j) PROVE TypeOK'
  <2>1. UNCHANGED <<disk, lock, task, loop, faults, interrupted>> /\ saved[j] = None
    BY <1>5 DEF Create
  <2>2. PICK o \in Orders :
          saved' = [saved EXCEPT ![j] = [order |-> o, status |-> "queued", done |-> 0, skipped |-> 0, failed |-> 0]]
    BY <1>5 DEF Create
  <2>3. [order |-> o, status |-> "queued", done |-> 0, skipped |-> 0, failed |-> 0] \in SavedJob
    BY DEF SavedJob, Statuses
  <2>4. JobsOK' /\ \A k \in Jobs : saved[k] # None => saved'[k] = saved[k]
    BY <1>2, <2>1, <2>2, <2>3 DEF JobsOK
  <2> QED BY <1>1, <1>3, <1>4, <2>1, <2>4
<1>6. ASSUME NEW j \in Jobs, RunJob(j) PROVE TypeOK'
  <2>1. UNCHANGED <<disk, faults, interrupted>> /\ loop = None /\ saved[j] # None /\ ~Running(j)
    BY <1>6 DEF RunJob
  <2>2. saved[j] \in SavedJob
    BY <1>2, <2>1
  <2>3. CASE saved' = [saved EXCEPT ![j].status = "failed"] /\ UNCHANGED <<lock, task, loop>>
    <3>1. saved' = [saved EXCEPT ![j] = saved'[j]] /\ saved'[j] \in SavedJob /\ saved'[j].order = saved[j].order
      BY <1>2, <2>2, <2>3 DEF SavedJob, Statuses
    <3>2. JobsOK' /\ \A k \in Jobs : saved[k] # None => saved'[k] # None /\ saved'[k].order = saved[k].order
      BY <1>2, <2>3, <3>1, NoneIsNothing DEF JobsOK
    <3> QED BY <1>1, <1>3, <1>4, <2>1, <2>3, <3>2
  <2>4. CASE lock' = TRUE /\ task' = [task EXCEPT ![j] = Loaded(j)] /\ loop' = j /\ UNCHANGED saved
    <3>1. Loaded(j) \in JobTask /\ Loaded(j).at = 1 /\ Loaded(j).pc = "running"
      BY <2>2 DEF Loaded, JobTask, SavedJob, Statuses
    <3>2. 1 \in 1 .. Total(saved[j].order) + 1
      <4>1. saved[j].order \in Orders
        BY <2>2 DEF SavedJob
      <4> QED BY <4>1, TotalIsNat
    <3>3. JobsOK' /\ task'[j] = Loaded(j) /\ \A k \in Jobs \ {j} : task'[k] = task[k]
      BY <1>2, <2>4, <3>1 DEF JobsOK
    <3>4. TaskOK(j)'
      BY <2>1, <2>4, <3>1, <3>2, <3>3 DEF TaskOK
    <3>5. TurnsOK'
      BY <2>1, <2>4, <3>1, <3>3, <3>4, TaskMoves, NoneIsNothing DEF TurnsOK
    <3>6. lock' \in BOOLEAN
      BY <2>4, Zenon
    <3>7. DiskOK'
      BY <1>0, <2>1, <3>6 DEF DiskOK, disk
    <3> QED BY <1>1, <3>3, <3>5, <3>7
  <2> QED BY <1>6, <2>3, <2>4 DEF RunJob
<1>7. ASSUME NEW j \in Jobs, RunJobTwice(j) PROVE TypeOK'
  <2>1. UNCHANGED <<disk, lock, task, loop, faults, interrupted>> /\ Running(j)
        /\ saved' = [saved EXCEPT ![j].status = "failed"]
    BY <1>7 DEF RunJobTwice
  <2>2. saved[j] \in SavedJob
    BY <2>1, RunningTyped
  <2>3. saved' = [saved EXCEPT ![j] = saved'[j]] /\ saved'[j] \in SavedJob /\ saved'[j].order = saved[j].order
    BY <1>2, <2>1, <2>2 DEF SavedJob, Statuses
  <2>4. JobsOK' /\ \A k \in Jobs : saved[k] # None => saved'[k] # None /\ saved'[k].order = saved[k].order
    BY <1>2, <2>1, <2>3, NoneIsNothing DEF JobsOK
  <2> QED BY <1>1, <1>3, <1>4, <2>1, <2>4
<1>8. ASSUME NEW J \in SUBSET Jobs, Fault(J), UNCHANGED <<disk, lock>> PROVE DiskOK'
  <2>1. faults' \in 0 .. MaxFaults /\ interrupted' \subseteq Jobs
    BY <1>0, <1>8, OrderAssumption DEF Fault, DiskOK
  <2> QED BY <1>0, <1>8, <2>1 DEF DiskOK, disk
<1>9. ASSUME NEW j \in Jobs, DiskError(j) \/ Cancel(j) PROVE TypeOK'
  <2>1. Running(j) /\ loop \in {j, None} /\ loop' = j /\ UNCHANGED <<disk, saved, lock>> /\ Fault({j})
    BY <1>9 DEF DiskError, Cancel, Turn, Goto
  <2>2. task[j] \in JobTask /\ TaskOK(j) /\ saved[j] # None
    BY <2>1, RunningTyped
  <2>3. /\ task' = [task EXCEPT ![j] = task'[j]] /\ task'[j] \in JobTask
        /\ task'[j].at = task[j].at /\ task'[j].pc = "end"
    <3>1. CASE task' = [task EXCEPT ![j].pc = "end", ![j].status = "failed"]
      BY <1>2, <2>2, <3>1 DEF JobTask, Statuses
    <3>2. CASE task' = [task EXCEPT ![j].pc = "end"]
      BY <1>2, <2>2, <3>2 DEF JobTask, Statuses
    <3> QED BY <1>9, <3>1, <3>2 DEF DiskError, Cancel, Goto
  <2>4. TaskOK(j)'
    BY <2>1, <2>2, <2>3 DEF TaskOK, Running
  <2>5. JobsOK' /\ \A k \in Jobs \ {j} : task'[k] = task[k]
    BY <1>2, <2>1, <2>3 DEF JobsOK
  <2>6. TurnsOK'
    BY <2>1, <2>3, <2>4, <2>5, TaskMoves, NoneIsNothing DEF TurnsOK
  <2> QED BY <1>1, <1>8, <2>1, <2>5, <2>6
<1>10. ASSUME NEW j \in Jobs, DiskErrorLeavesLock(j) PROVE TypeOK'
  <2>1. loop = j /\ loop' = None /\ task' = [task EXCEPT ![j] = None] /\ UNCHANGED <<disk, saved, lock>> /\ Fault({j})
    BY <1>10 DEF DiskErrorLeavesLock
  <2>2. JobsOK' /\ task'[j] = None /\ \A k \in Jobs \ {j} : task'[k] = task[k]
    BY <1>2, <2>1 DEF JobsOK
  <2>3. TurnsOK'
    BY <2>1, <2>2, TaskMoves DEF TurnsOK, TaskOK, Running
  <2> QED BY <1>1, <1>8, <2>1, <2>2, <2>3
<1>11. CASE Crash
  <2>1. task' = [j \in Jobs |-> None] /\ loop' = None /\ UNCHANGED <<disk, saved, lock>>
        /\ Fault({j \in Jobs : Running(j)})
    BY <1>11 DEF Crash
  <2>2. DiskOK' /\ JobsOK'
    BY <1>2, <1>8, <2>1 DEF JobsOK
  <2> QED BY <1>1, <2>1, <2>2 DEF TurnsOK, TaskOK, Running
<1>12. CASE Unlock
  <2>1. lock' = FALSE /\ UNCHANGED <<disk, saved, task, loop, faults, interrupted>>
    BY <1>12 DEF Unlock
  <2>2. lock' \in BOOLEAN
    BY <2>1, Zenon
  <2>3. DiskOK' /\ JobsOK'
    BY <1>0, <2>1, <2>2 DEF DiskOK, JobsOK, disk
  <2> QED BY <1>1, <1>4, <2>1, <2>3
<1>13. CASE UNCHANGED vars
  BY <1>0, <1>1, <1>3, <1>4, <1>13 DEF vars, JobsOK
<1> QED BY <1>5, <1>6, <1>7, <1>9, <1>10, <1>11, <1>12, <1>13, StepTyped DEF Next

\* Every reachable state of the worker and its disk is well typed, and a job
\* that has the loop exists (raw_sync_worker.py:122-135, 224-306).
THEOREM TypeCorrect == Spec => []TypeOK
<1>1. Init => TypeOK
  BY InitTyped
<1>2. TypeOK /\ [Next]_vars => TypeOK'
  BY NextTyped
<1> QED BY <1>1, <1>2, PTL DEF Spec

-----------------------------------------------------------------------------
(* The lock *)

\* No two jobs run, and the lock file is there while one does: only a call
\* that found no lock starts a job, and only the job, or an operator who sees
\* none running, removes it (raw_sync_worker.py:137-152, 243-248).
THEOREM LockedWhileRunning == Spec => []OneJobAtATime
<1>1. Init => OneJobAtATime
  BY DEF Init, OneJobAtATime, Running
<1>2. TypeOK /\ OneJobAtATime /\ [Next]_vars => OneJobAtATime'
  <2> SUFFICES ASSUME TypeOK, OneJobAtATime, [Next]_vars PROVE OneJobAtATime'
    OBVIOUS
  <2>1. task \in [Jobs -> JobTask \cup {None}]
    BY TypeParts DEF JobsOK
  \* Steps that start no job and leave the lock alone.
  <2>2. ASSUME UNCHANGED lock, \A j \in Jobs : Running(j)' => Running(j) PROVE OneJobAtATime'
    BY <2>2 DEF OneJobAtATime
  <2>3. ASSUME NEW j \in Jobs, RunJob(j) PROVE OneJobAtATime'
    <3>1. CASE UNCHANGED <<lock, task>>
      BY <2>2, <3>1 DEF Running
    <3>2. CASE ~lock /\ lock' = TRUE /\ task' = [task EXCEPT ![j] = Loaded(j)]
      <4>1. \A k \in Jobs : ~Running(k)
        BY <3>2 DEF OneJobAtATime
      <4>2. \A k \in Jobs \ {j} : task'[k] = task[k]
        BY <2>1, <3>2
      <4> QED BY <3>2, <4>1, <4>2 DEF OneJobAtATime, Running
    <3> QED BY <2>3, <3>1, <3>2 DEF RunJob, MayLock
  <2>4. ASSUME NEW j \in Jobs, Release(j) PROVE OneJobAtATime'
    <3>1. Running(j) /\ task' = [task EXCEPT ![j] = None]
      BY <2>4 DEF Release, Turn
    <3>2. \A k \in Jobs \ {j} : ~Running(k)
      BY <3>1 DEF OneJobAtATime
    <3>3. \A k \in Jobs : ~Running(k)'
      BY <2>1, <3>1, <3>2 DEF Running
    <3> QED BY <3>3 DEF OneJobAtATime
  <2>5. ASSUME NEW j \in Jobs, Step(j) PROVE OneJobAtATime'
    <3>1. CASE Release(j)
      BY <2>4, <3>1
    <3>2. CASE ~Release(j)
      <4>1. UNCHANGED lock /\ Running(j)
        BY <2>5, <3>2 DEF Step, SaveRunning, Day, Downloaded, Write, WriteManifest, WriteWatermark, SaveDay,
                          Done, SaveEnd, Turn
      <4>2. \A k \in Jobs \ {j} : task'[k] = task[k]
        BY <2>1, <2>5, <3>2 DEF Step, SaveRunning, Day, Downloaded, NoData, Write, WriteManifest,
                                WriteWatermark, SaveDay, Done, SaveEnd, Goto
      <4> QED BY <2>2, <4>1, <4>2 DEF Running
    <3> QED BY <3>1, <3>2
  <2>6. ASSUME NEW j \in Jobs, DiskError(j) \/ DiskErrorLeavesLock(j) \/ Cancel(j) PROVE OneJobAtATime'
    <3>1. UNCHANGED lock /\ Running(j)
      BY <2>6 DEF DiskError, DiskErrorLeavesLock, Cancel, Turn
    <3>2. \A k \in Jobs \ {j} : task'[k] = task[k]
      BY <2>1, <2>6 DEF DiskError, DiskErrorLeavesLock, Cancel, Goto
    <3> QED BY <2>2, <3>1, <3>2 DEF Running
  <2>7. CASE \E j \in Jobs : Create(j) \/ RunJobTwice(j)
    BY <2>2, <2>7 DEF Create, RunJobTwice, Running
  <2>8. CASE Crash
    BY <2>2, <2>8 DEF Crash, Running
  <2>9. CASE Unlock
    BY <2>9 DEF Unlock, OneJobAtATime, Running
  <2>10. CASE UNCHANGED vars
    BY <2>2, <2>10 DEF vars, Running
  <2> QED BY <2>3, <2>5, <2>6, <2>7, <2>8, <2>9, <2>10 DEF Next
<1> QED BY <1>1, <1>2, TypeCorrect, PTL DEF Spec

-----------------------------------------------------------------------------
(* The files *)

\* Only Write touches the .bi5 files, and it fills a place that was empty or
\* belongs to a job that was told to replace what it finds.
LEMMA OnlyWriteWrites ==
  ASSUME TypeOK, [Next]_vars
  PROVE  \/ file' = file
         \/ \E j \in Jobs :
              /\ Write(j) /\ file' = [file EXCEPT ![Here(j)] = j] /\ UNCHANGED saved
              /\ ~OnDisk(Here(j)) \/ saved[j].order.force
<1>1. CASE \E j \in Jobs : Write(j)
  <2>1. PICK j \in Jobs : Write(j)
    BY <1>1
  <2>2. CASE OnDisk(Here(j)) /\ ~saved[j].order.force
    BY <2>1, <2>2 DEF Write
  <2>3. CASE ~(OnDisk(Here(j)) /\ ~saved[j].order.force)
    <3>1. file' = [file EXCEPT ![Here(j)] = j] /\ UNCHANGED saved
      BY <2>1, <2>3 DEF Write
    <3> QED BY <2>1, <2>3, <3>1
  <2> QED BY <2>2, <2>3
<1>2. CASE ~\E j \in Jobs : Write(j)
  <2>1. ASSUME NEW j \in Jobs, Step(j) PROVE file' = file
    BY <1>2, <2>1 DEF Step, SaveRunning, Day, Downloaded, WriteManifest, WriteWatermark, SaveDay, Done,
                      SaveEnd, Release, disk
  <2>2. ASSUME NEW j \in Jobs, Create(j) \/ RunJob(j) \/ RunJobTwice(j) PROVE file' = file
    BY <2>2 DEF Create, RunJob, RunJobTwice, disk
  <2>3. ASSUME NEW j \in Jobs, DiskError(j) \/ DiskErrorLeavesLock(j) \/ Cancel(j) PROVE file' = file
    BY <2>3 DEF DiskError, DiskErrorLeavesLock, Cancel, disk
  <2>4. CASE Crash \/ Unlock \/ UNCHANGED vars
    BY <2>4 DEF Crash, Unlock, vars, disk
  <2> QED BY <2>1, <2>2, <2>3, <2>4 DEF Next
<1> QED BY <1>1, <1>2

LEMMA FilesStay ==
  ASSUME TypeOK, [Next]_vars, NEW key, OnDisk(key), key \in Keys
  PROVE  OnDisk(key)' /\ (file'[key] = file[key] \/ saved[file'[key]].order.force)
<1>1. file \in [Keys -> Jobs \cup {None}]
  BY TypeParts DEF DiskOK
<1>2. CASE file' = file
  BY <1>2 DEF OnDisk
<1>3. CASE \E j \in Jobs :
              /\ Write(j) /\ file' = [file EXCEPT ![Here(j)] = j] /\ UNCHANGED saved
              /\ ~OnDisk(Here(j)) \/ saved[j].order.force
  <2>1. PICK j \in Jobs : /\ file' = [file EXCEPT ![Here(j)] = j] /\ UNCHANGED saved
                          /\ ~OnDisk(Here(j)) \/ saved[j].order.force
    BY <1>3
  <2>2. CASE key = Here(j)
    BY <1>1, <2>1, <2>2, NoneIsNothing DEF OnDisk
  <2>3. CASE key # Here(j)
    BY <1>1, <2>1, <2>3 DEF OnDisk
  <2> QED BY <2>2, <2>3
<1> QED BY <1>2, <1>3, OnlyWriteWrites

\* A .bi5 file that is there stays, or is replaced by a job that was forced
\* (raw_bi5_store.py:86-88, raw_sync_worker.py:276-283).
THEOREM FilesAreImmutable == Spec => Immutable
<1> DEFINE A == \A key \in Keys : file[key] # None /\ file'[key] # file[key]
                  => file'[key] # None /\ saved[file'[key]].order.force
<1>1. TypeOK /\ [Next]_vars => [A]_vars
  <2> SUFFICES ASSUME TypeOK, [Next]_vars, NEW key \in Keys, file[key] # None, file'[key] # file[key]
               PROVE  file'[key] # None /\ saved[file'[key]].order.force
    OBVIOUS
  <2> QED BY FilesStay DEF OnDisk
<1> HIDE DEF A
<1>2. Spec => [][A]_vars
  BY <1>1, TypeCorrect, PTL DEF Spec
<1> QED BY <1>2 DEF Immutable, A

-----------------------------------------------------------------------------
(* The days of a walk *)

\* The first n stops of an order that have no file in f.
Absent(f, o, n) == {k \in 1 .. n : f[Stop(o, k)] = None}

\* How many stops the task has dealt with.
Walked(t) == IF t.pc = "persist" THEN t.at ELSE t.at - 1

Counted(r) == r.done + r.skipped + r.failed

\* A task that has not failed misses no more files than it counts as failed,
\* and counts each day it has dealt with, unless it was interrupted.
WalkIsCounted(j) ==
  Running(j) =>
    LET t == task[j] IN
    /\ t.status # "failed" => Cardinality(Absent(file, saved[j].order, Walked(t))) <= t.failed
    /\ t.status # "failed" /\ j \notin interrupted => Counted(t) = Walked(t)
    /\ t.pc \in {"manifest", "watermark"} => OnDisk(Here(j))
    /\ t.pc \notin {"end", "release"} => t.status = "running"
    /\ t.pc \in {"end", "release"} /\ t.status = "running" => j \in interrupted
    /\ t.status = "done" => t.at = Total(saved[j].order) + 1
    /\ t.pc = "release" => saved[j].status = t.status

\* A job that waits to be run has counted nothing, and one that is saved as
\* running with no task was interrupted.
SavedIsHonest(j) ==
  saved[j] # None =>
    /\ saved[j].status = "queued" => Counted(saved[j]) = 0
    /\ saved[j].status = "running" /\ ~Running(j) => j \in interrupted

DoneIsCounted(j) ==
  saved[j] # None /\ saved[j].status = "done" =>
    /\ Cardinality(Absent(file, saved[j].order, Total(saved[j].order))) <= saved[j].failed
    /\ j \notin interrupted => Counted(saved[j]) = Total(saved[j].order)

WalkInv == \A j \in Jobs : WalkIsCounted(j) /\ SavedIsHonest(j) /\ DoneIsCounted(j)

LEMMA WalkInvSuffices == WalkInv => DoneIsComplete
BY DEF WalkInv, DoneIsCounted, DoneIsComplete, Missing, Absent, OnDisk, Counted

LEMMA AbsentIsFinite ==
  ASSUME NEW f, NEW o, NEW n \in Nat
  PROVE  /\ IsFiniteSet(Absent(f, o, n)) /\ Cardinality(Absent(f, o, n)) \in Nat
         /\ Cardinality(Absent(f, o, 0)) = 0
<1>1. IsFiniteSet(1 .. n)
  BY FS_Interval
<1>2. IsFiniteSet(Absent(f, o, n))
  BY <1>1, FS_Subset DEF Absent
<1>3. Absent(f, o, 0) = {}
  BY DEF Absent
<1> QED BY <1>2, <1>3, FS_CardinalityType, FS_EmptySet

\* One stop more adds at most one absent file, and none when the file is there.
LEMMA AbsentGrows ==
  ASSUME NEW f, NEW o, NEW n \in Nat
  PROVE  /\ Cardinality(Absent(f, o, n + 1)) <= Cardinality(Absent(f, o, n)) + 1
         /\ f[Stop(o, n + 1)] # None => Absent(f, o, n + 1) = Absent(f, o, n)
<1>1. Absent(f, o, n + 1) \subseteq Absent(f, o, n) \cup {n + 1}
  BY DEF Absent
<1>2. IsFiniteSet(Absent(f, o, n)) /\ Cardinality(Absent(f, o, n)) \in Nat
  BY AbsentIsFinite
<1>3. IsFiniteSet(Absent(f, o, n) \cup {n + 1})
      /\ Cardinality(Absent(f, o, n) \cup {n + 1}) <= Cardinality(Absent(f, o, n)) + 1
  BY <1>2, FS_AddElement
<1>4. Cardinality(Absent(f, o, n + 1)) <= Cardinality(Absent(f, o, n) \cup {n + 1})
  BY <1>1, <1>3, FS_Subset
<1>5. Cardinality(Absent(f, o, n + 1)) \in Nat /\ Cardinality(Absent(f, o, n) \cup {n + 1}) \in Nat
  BY <1>3, AbsentIsFinite, FS_CardinalityType
<1>6. ASSUME f[Stop(o, n + 1)] # None PROVE Absent(f, o, n + 1) = Absent(f, o, n)
  BY <1>6 DEF Absent
<1> QED BY <1>2, <1>3, <1>4, <1>5, <1>6

\* Files are never taken away, so no step makes one absent.
LEMMA AbsentShrinks ==
  ASSUME TypeOK, [Next]_vars, NEW o \in Orders, NEW n \in 0 .. Total(o)
  PROVE  /\ Cardinality(Absent(file', o, n)) \in Nat /\ Cardinality(Absent(file, o, n)) \in Nat
         /\ Cardinality(Absent(file', o, n)) <= Cardinality(Absent(file, o, n))
<1>1. Total(o) \in Nat
  BY TotalIsNat
<1>2. Absent(file', o, n) \subseteq Absent(file, o, n)
  <2> SUFFICES ASSUME NEW k \in 1 .. n, file[Stop(o, k)] # None PROVE file'[Stop(o, k)] # None
    BY DEF Absent
  <2>1. k \in 1 .. Total(o)
    BY <1>1
  <2>2. Stop(o, k) \in Keys
    BY <2>1, StopIsKey
  <2> QED BY <2>2, FilesStay DEF OnDisk
<1>3. IsFiniteSet(Absent(file, o, n)) /\ Cardinality(Absent(file, o, n)) \in Nat
  BY <1>1, AbsentIsFinite
<1> QED BY <1>2, <1>3, FS_Subset, FS_CardinalityType

\* Who was interrupted stays so.
LEMMA InterruptedGrows ==
  ASSUME [Next]_vars
  PROVE  interrupted \subseteq interrupted'
<1>1. ASSUME NEW j \in Jobs, Step(j) PROVE interrupted' = interrupted
  BY <1>1 DEF Step, SaveRunning, Day, Downloaded, Write, WriteManifest, WriteWatermark, SaveDay, Done,
              SaveEnd, Release
<1>2. ASSUME NEW j \in Jobs, Create(j) \/ RunJob(j) \/ RunJobTwice(j) PROVE interrupted' = interrupted
  BY <1>2 DEF Create, RunJob, RunJobTwice
<1>3. ASSUME NEW j \in Jobs, DiskError(j) \/ DiskErrorLeavesLock(j) \/ Cancel(j)
      PROVE  interrupted' = interrupted \cup {j}
  BY <1>3 DEF DiskError, DiskErrorLeavesLock, Cancel, Fault
<1>4. CASE Crash \/ Unlock \/ UNCHANGED vars
  BY <1>4 DEF Crash, Unlock, vars, Fault
<1> QED BY <1>1, <1>2, <1>3, <1>4 DEF Next

\* A job that a step does not move stays counted.
LEMMA WalkStays ==
  ASSUME TypeOK, WalkInv, [Next]_vars, NEW j \in Jobs, saved'[j] = saved[j], task'[j] = task[j]
  PROVE  WalkIsCounted(j)' /\ SavedIsHonest(j)'
<1>1. WalkIsCounted(j) /\ SavedIsHonest(j)
  BY DEF WalkInv
<1>2. SavedIsHonest(j)'
  BY <1>1, InterruptedGrows DEF SavedIsHonest, Running
<1>3. ASSUME Running(j) PROVE WalkIsCounted(j)'
  <2> DEFINE o == saved[j].order
             t == task[j]
             n == Walked(t)
  <2>1. /\ t \in JobTask /\ o \in Orders /\ Total(o) \in Nat /\ t.at \in 1 .. Total(o) + 1
        /\ t.pc \in {"fetch", "write", "manifest", "watermark", "persist"} => t.at <= Total(o)
    BY <1>3, RunningTyped DEF TaskOK
  <2>2. n \in 0 .. Total(o) /\ t.failed \in Nat
    BY <2>1 DEF Walked, JobTask
  <2> HIDE DEF n
  <2>3. t.status # "failed" => Cardinality(Absent(file', o, n)) <= t.failed
    <3>1. t.status # "failed" => Cardinality(Absent(file, o, n)) <= t.failed
      BY <1>1, <1>3 DEF WalkIsCounted, n
    <3> QED BY <2>1, <2>2, <3>1, AbsentShrinks
  <2>4. t.pc \in {"manifest", "watermark"} => file'[Stop(o, t.at)] # None
    <3> SUFFICES ASSUME t.pc \in {"manifest", "watermark"} PROVE file'[Stop(o, t.at)] # None
      OBVIOUS
    <3>1. OnDisk(Stop(o, t.at))
      BY <1>1, <1>3 DEF WalkIsCounted, Here
    <3>2. Stop(o, t.at) \in Keys
      BY <2>1, StopIsKey
    <3> QED BY <3>1, <3>2, FilesStay DEF OnDisk
  <2> QED BY <1>1, <1>3, <2>3, <2>4, InterruptedGrows DEF WalkIsCounted, Running, OnDisk, Here, n
<1> QED BY <1>2, <1>3 DEF WalkIsCounted, Running

LEMMA DoneStays ==
  ASSUME TypeOK, WalkInv, [Next]_vars, NEW j \in Jobs, saved'[j] = saved[j]
  PROVE  DoneIsCounted(j)'
<1> SUFFICES ASSUME saved[j] # None, saved[j].status = "done" PROVE DoneIsCounted(j)'
  BY DEF DoneIsCounted
<1> DEFINE o == saved[j].order
<1>1. o \in Orders /\ Total(o) \in Nat /\ saved[j].failed \in Nat
  <2>1. saved[j] \in SavedJob
    BY TypeParts DEF JobsOK
  <2> QED BY <2>1, TotalIsNat DEF SavedJob
<1>2. /\ Cardinality(Absent(file, o, Total(o))) <= saved[j].failed
      /\ j \notin interrupted => Counted(saved[j]) = Total(o)
  BY DEF WalkInv, DoneIsCounted
<1>3. Cardinality(Absent(file', o, Total(o))) <= saved[j].failed
  <2>1. Total(o) \in 0 .. Total(o)
    BY <1>1
  <2> QED BY <1>1, <1>2, <2>1, AbsentShrinks
<1> QED BY <1>2, <1>3, InterruptedGrows DEF DoneIsCounted

\* What a step of a task that neither saves nor ends has to keep: the counters
\* go with the days.
LEMMA TaskWalks ==
  ASSUME TypeOK, WalkInv, [Next]_vars, NEW j \in Jobs, Running(j), saved'[j] = saved[j],
         NEW u \in JobTask, task'[j] = u, u.pc \notin {"end", "release"}, u.status = "running",
         u.pc = "persist" => u.at \in 1 .. Total(saved[j].order),
         u.at \in 1 .. Total(saved[j].order) + 1,
         Cardinality(Absent(file, saved[j].order, Walked(u))) <= u.failed
           \/ Cardinality(Absent(file', saved[j].order, Walked(u))) <= u.failed,
         j \notin interrupted => Counted(u) = Walked(u),
         u.pc \in {"manifest", "watermark"} => file'[Stop(saved[j].order, u.at)] # None
  PROVE  WalkIsCounted(j)' /\ SavedIsHonest(j)'
<1> DEFINE o == saved[j].order
<1>1. o \in Orders /\ Total(o) \in Nat /\ Running(j)'
  BY RunningTyped, NoneIsNothing DEF Running
<1>2. Walked(u) \in 0 .. Total(o) /\ u.failed \in Nat
  BY <1>1 DEF Walked, JobTask
<1>3. Cardinality(Absent(file', o, Walked(u))) <= u.failed
  BY <1>1, <1>2, AbsentShrinks
<1>4. WalkIsCounted(j)'
  BY <1>3, InterruptedGrows DEF WalkIsCounted, OnDisk, Here
<1>5. SavedIsHonest(j)'
  BY <1>1 DEF SavedIsHonest, WalkInv
<1> QED BY <1>4, <1>5

\* A day that is dealt with is counted, in whichever of the counters.
LEMMA OneDone ==
  ASSUME NEW t \in JobTask, NEW u, u = [t EXCEPT !.pc = "persist", !.done = @ + 1]
  PROVE  /\ u \in JobTask /\ u.at = t.at /\ u.status = t.status /\ u.pc = "persist"
         /\ Counted(u) = Counted(t) + 1
         /\ u.failed = t.failed
<1> DEFINE n == t.done + 1
<1>1. n \in Nat /\ t.done \in Nat /\ t.skipped \in Nat /\ t.failed \in Nat
  BY DEF JobTask
<1>2. u.done = t.done + 1 /\ u.skipped = t.skipped /\ u.failed = t.failed
  BY DEF JobTask
<1>3. Counted(u) = Counted(t) + 1
  BY <1>1, <1>2 DEF Counted
<1> HIDE DEF n
<1>4. [t EXCEPT !.pc = "persist", !.done = n] \in JobTask
  BY <1>1 DEF JobTask
<1>5. u.at = t.at /\ u.status = t.status /\ u.pc = "persist"
  BY DEF JobTask
<1>6. u \in JobTask
  BY <1>4 DEF n
<1> QED BY <1>2, <1>3, <1>5, <1>6

LEMMA OneSkipped ==
  ASSUME NEW t \in JobTask, NEW u, u = [t EXCEPT !.pc = "persist", !.skipped = @ + 1]
  PROVE  /\ u \in JobTask /\ u.at = t.at /\ u.status = t.status /\ u.pc = "persist"
         /\ Counted(u) = Counted(t) + 1
         /\ u.failed = t.failed
<1> DEFINE n == t.skipped + 1
<1>1. n \in Nat /\ t.done \in Nat /\ t.skipped \in Nat /\ t.failed \in Nat
  BY DEF JobTask
<1>2. u.done = t.done /\ u.skipped = t.skipped + 1 /\ u.failed = t.failed
  BY DEF JobTask
<1>3. Counted(u) = Counted(t) + 1
  BY <1>1, <1>2 DEF Counted
<1> HIDE DEF n
<1>4. [t EXCEPT !.pc = "persist", !.skipped = n] \in JobTask
  BY <1>1 DEF JobTask
<1>5. u.at = t.at /\ u.status = t.status /\ u.pc = "persist"
  BY DEF JobTask
<1>6. u \in JobTask
  BY <1>4 DEF n
<1> QED BY <1>2, <1>3, <1>5, <1>6

LEMMA OneFailed ==
  ASSUME NEW t \in JobTask, NEW u, u = [t EXCEPT !.pc = "persist", !.failed = @ + 1]
  PROVE  /\ u \in JobTask /\ u.at = t.at /\ u.status = t.status /\ u.pc = "persist"
         /\ Counted(u) = Counted(t) + 1
         /\ u.failed = t.failed + 1
<1> DEFINE n == t.failed + 1
<1>1. n \in Nat /\ t.done \in Nat /\ t.skipped \in Nat /\ t.failed \in Nat
  BY DEF JobTask
<1>2. u.done = t.done /\ u.skipped = t.skipped /\ u.failed = t.failed + 1
  BY DEF JobTask
<1>3. Counted(u) = Counted(t) + 1
  BY <1>1, <1>2 DEF Counted
<1> HIDE DEF n
<1>4. [t EXCEPT !.pc = "persist", !.failed = n] \in JobTask
  BY <1>1 DEF JobTask
<1>5. u.at = t.at /\ u.status = t.status /\ u.pc = "persist"
  BY DEF JobTask
<1>6. u \in JobTask
  BY <1>4 DEF n
<1> QED BY <1>2, <1>3, <1>5, <1>6

\* The days that a step of the task of j deals with are counted.
LEMMA StepWalks ==
  ASSUME TypeOK, WalkInv, [Next]_vars, NEW j \in Jobs, Step(j)
  PROVE  WalkIsCounted(j)' /\ SavedIsHonest(j)' /\ DoneIsCounted(j)'
<1> DEFINE o == saved[j].order
           t == task[j]
           Gaps(n) == Cardinality(Absent(file, o, n))
<1>1. Running(j)
  BY DEF Step, SaveRunning, Day, Downloaded, Write, WriteManifest, WriteWatermark, SaveDay, Done,
         SaveEnd, Release, Turn
<1>2. /\ t \in JobTask /\ saved[j] \in SavedJob /\ saved[j] # None /\ o \in Orders /\ Total(o) \in Nat
      /\ t.at \in 1 .. Total(o) + 1
      /\ t.pc \in {"fetch", "write", "manifest", "watermark", "persist"} => t.at \in 1 .. Total(o)
      /\ task \in [Jobs -> JobTask \cup {None}]
  BY <1>1, RunningTyped, TypeParts DEF TaskOK, JobsOK
<1>3. /\ t.status # "failed" => Gaps(Walked(t)) <= t.failed
      /\ t.status # "failed" /\ j \notin interrupted => Counted(t) = Walked(t)
      /\ t.pc \in {"manifest", "watermark"} => OnDisk(Stop(o, t.at))
      /\ t.pc \notin {"end", "release"} => t.status = "running"
      /\ t.pc \in {"end", "release"} /\ t.status = "running" => j \in interrupted
      /\ t.status = "done" => t.at = Total(o) + 1
      /\ t.pc = "release" => saved[j].status = t.status
  BY <1>1 DEF WalkInv, WalkIsCounted, Here
<1>4. t.at \in Nat \ {0} /\ t.done \in Nat /\ t.skipped \in Nat /\ t.failed \in Nat
      /\ Gaps(t.at) \in Nat /\ Gaps(t.at - 1) \in Nat
      /\ Gaps(t.at) <= Gaps(t.at - 1) + 1
      /\ (OnDisk(Stop(o, t.at)) => Gaps(t.at) = Gaps(t.at - 1))
  <2>1. t.at \in Nat \ {0} /\ t.done \in Nat /\ t.skipped \in Nat /\ t.failed \in Nat
    BY <1>2 DEF JobTask
  <2>2. t.at - 1 \in Nat /\ (t.at - 1) + 1 = t.at
    BY <2>1
  <2> QED BY <2>1, <2>2, AbsentIsFinite, AbsentGrows DEF OnDisk
<1> HIDE DEF Gaps, o
\* Steps that do not save.
<1>5. ASSUME NEW u \in JobTask, task'[j] = u, saved' = saved, u.pc \notin {"end", "release"},
             u.status = "running", u.at = t.at, u.pc \in {"fetch", "write", "manifest", "watermark", "persist"},
             t.at \in 1 .. Total(o),
             Gaps(Walked(u)) <= u.failed, j \notin interrupted => Counted(u) = Walked(u),
             u.pc \in {"manifest", "watermark"} => file'[Stop(o, u.at)] # None
      PROVE  WalkIsCounted(j)' /\ SavedIsHonest(j)' /\ DoneIsCounted(j)'
  <2>1. DoneIsCounted(j)'
    BY <1>5, DoneStays
  <2>2. saved'[j] = saved[j] /\ u.at \in 1 .. Total(o) + 1
    BY <1>2, <1>5
  <2> QED BY <1>1, <1>5, <2>1, <2>2, TaskWalks DEF Gaps, o
<1>6. ASSUME t.pc \notin {"end", "release", "persist"}
      PROVE  Gaps(t.at - 1) <= t.failed /\ (j \notin interrupted => Counted(t) = t.at - 1)
  BY <1>3, <1>6 DEF Walked
\* Steps that save: the task goes on or ends with what it has saved.
<1>7. ASSUME Persist(j)
      PROVE  /\ saved'[j].order = o /\ saved'[j] # None /\ saved'[j].status = t.status
             /\ saved'[j].failed = t.failed /\ Counted(saved'[j]) = Counted(t)
  <2>1. saved'[j] = [order |-> o, status |-> t.status, done |-> t.done,
                     skipped |-> t.skipped, failed |-> t.failed]
    BY <1>1, <1>7, PersistKeeps DEF o
  <2>2. saved'[j] # None
    BY <1>1, <1>2, <1>7, PersistKeeps
  <2> QED BY <2>1, <2>2 DEF Counted
<1>8. CASE SaveRunning(j)
  <2>1. Persist(j) /\ task' = [task EXCEPT ![j].pc = "day"] /\ file' = file /\ t.pc = "running"
    BY <1>8 DEF SaveRunning, Goto, Turn, disk
  <2>2. task'[j] = [t EXCEPT !.pc = "day"] /\ t.status = "running"
    BY <1>2, <1>3, <2>1
  <2>3. task'[j].pc = "day" /\ Walked(task'[j]) = t.at - 1 /\ Counted(task'[j]) = Counted(t)
        /\ task'[j].status = "running" /\ task'[j].failed = t.failed
    BY <1>2, <2>2 DEF JobTask, Walked, Counted
  <2>4. WalkIsCounted(j)'
    BY <1>6, <1>7, <2>1, <2>3, InterruptedGrows DEF WalkIsCounted, Gaps
  <2>5. Running(j)'
    <3>1. task'[j] \in JobTask
      BY <1>2, <2>2 DEF JobTask
    <3> QED BY <3>1, NoneIsNothing DEF Running
  <2> QED BY <1>7, <2>1, <2>2, <2>4, <2>5 DEF SavedIsHonest, DoneIsCounted
<1>9. CASE Day(j)
  <2>1. UNCHANGED <<disk, saved>> /\ t.at \in 1 .. Total(o) /\ t.pc = "day" /\ t.status = "running"
    BY <1>2, <1>3, <1>9 DEF Day, Turn, o
  <2>2. CASE OnDisk(Stop(o, t.at)) /\ task' = [task EXCEPT ![j].pc = "persist", ![j].skipped = @ + 1]
    <3> DEFINE u == [t EXCEPT !.pc = "persist", !.skipped = @ + 1]
    <3>1. task'[j] = u
      BY <1>2, <2>2
    <3>2. u \in JobTask /\ u.at = t.at /\ u.status = t.status /\ u.pc = "persist" /\ u.failed = t.failed
          /\ Counted(u) = Counted(t) + 1
      BY <1>2, OneSkipped
    <3>3. u.status = "running"
      BY <2>1, <3>2
    <3> HIDE DEF u
    <3>4. Gaps(Walked(u)) <= u.failed /\ (j \notin interrupted => Counted(u) = Walked(u))
      BY <1>4, <1>6, <2>1, <2>2, <3>2, <3>3 DEF Walked
    <3> QED BY <1>5, <2>1, <3>1, <3>2, <3>4
  <2>3. CASE task' = [task EXCEPT ![j].pc = "fetch"]
    <3> DEFINE u == [t EXCEPT !.pc = "fetch"]
    <3>1. task'[j] = u
      BY <1>2, <2>3
    <3>2. u \in JobTask /\ u.at = t.at /\ u.status = "running" /\ u.pc = "fetch" /\ u.failed = t.failed
          /\ Counted(u) = Counted(t)
      BY <1>2, <2>1 DEF JobTask, Counted
    <3> HIDE DEF u
    <3>3. Gaps(Walked(u)) <= u.failed /\ (j \notin interrupted => Counted(u) = Walked(u))
      BY <1>6, <2>1, <3>2 DEF Walked
    <3> QED BY <1>5, <2>1, <3>1, <3>2, <3>3
  <2> QED BY <1>9, <2>2, <2>3 DEF Day, Here, o
<1>10. CASE Downloaded(j)
  <2>1. UNCHANGED <<disk, saved>> /\ t.at \in 1 .. Total(o) /\ t.pc = "fetch" /\ t.status = "running"
    BY <1>2, <1>3, <1>10 DEF Downloaded, Turn
  <2>2. CASE task' = [task EXCEPT ![j].pc = "persist", ![j].failed = @ + 1]
    <3> DEFINE u == [t EXCEPT !.pc = "persist", !.failed = @ + 1]
    <3>1. task'[j] = u
      BY <1>2, <2>2
    <3>2. u \in JobTask /\ u.at = t.at /\ u.status = t.status /\ u.pc = "persist" /\ u.failed = t.failed + 1
          /\ Counted(u) = Counted(t) + 1
      BY <1>2, OneFailed
    <3>3. u.status = "running"
      BY <2>1, <3>2
    <3> HIDE DEF u
    <3>4. Gaps(Walked(u)) <= u.failed /\ (j \notin interrupted => Counted(u) = Walked(u))
      BY <1>4, <1>6, <2>1, <3>2, <3>3 DEF Walked
    <3> QED BY <1>5, <2>1, <3>1, <3>2, <3>4
  <2>3. CASE task' = [task EXCEPT ![j].pc = "write"]
    <3> DEFINE u == [t EXCEPT !.pc = "write"]
    <3>1. task'[j] = u
      BY <1>2, <2>3
    <3>2. u \in JobTask /\ u.at = t.at /\ u.status = "running" /\ u.pc = "write" /\ u.failed = t.failed
          /\ Counted(u) = Counted(t)
      BY <1>2, <2>1 DEF JobTask, Counted
    <3> HIDE DEF u
    <3>3. Gaps(Walked(u)) <= u.failed /\ (j \notin interrupted => Counted(u) = Walked(u))
      BY <1>6, <2>1, <3>2 DEF Walked
    <3> QED BY <1>5, <2>1, <3>1, <3>2, <3>3
  <2> QED BY <1>10, <2>2, <2>3 DEF Downloaded, NoData
<1>11. CASE Write(j)
  <2>1. saved' = saved /\ t.at \in 1 .. Total(o) /\ t.pc = "write" /\ t.status = "running"
    BY <1>2, <1>3, <1>11 DEF Write, Turn
  <2>2. CASE OnDisk(Stop(o, t.at)) /\ task' = [task EXCEPT ![j].pc = "persist", ![j].skipped = @ + 1]
    <3> DEFINE u == [t EXCEPT !.pc = "persist", !.skipped = @ + 1]
    <3>1. task'[j] = u
      BY <1>2, <2>2
    <3>2. u \in JobTask /\ u.at = t.at /\ u.status = t.status /\ u.pc = "persist" /\ u.failed = t.failed
          /\ Counted(u) = Counted(t) + 1
      BY <1>2, OneSkipped
    <3>3. u.status = "running"
      BY <2>1, <3>2
    <3> HIDE DEF u
    <3>4. Gaps(Walked(u)) <= u.failed /\ (j \notin interrupted => Counted(u) = Walked(u))
      BY <1>4, <1>6, <2>1, <2>2, <3>2, <3>3 DEF Walked
    <3> QED BY <1>5, <2>1, <3>1, <3>2, <3>4
  <2>3. CASE task' = [task EXCEPT ![j].pc = "manifest"] /\ file' = [file EXCEPT ![Stop(o, t.at)] = j]
    <3> DEFINE u == [t EXCEPT !.pc = "manifest"]
    <3>1. task'[j] = u
      BY <1>2, <2>3
    <3>2. u \in JobTask /\ u.at = t.at /\ u.status = "running" /\ u.pc = "manifest" /\ u.failed = t.failed
          /\ Counted(u) = Counted(t)
      BY <1>2, <2>1 DEF JobTask, Counted
    <3>3. file'[Stop(o, t.at)] # None
      <4>1. file \in [Keys -> Jobs \cup {None}] /\ Stop(o, t.at) \in Keys
        BY <1>2, <2>1, TypeParts, StopIsKey DEF DiskOK
      <4> QED BY <2>3, <4>1, NoneIsNothing
    <3> HIDE DEF u
    <3>4. Gaps(Walked(u)) <= u.failed /\ (j \notin interrupted => Counted(u) = Walked(u))
      BY <1>6, <2>1, <3>2 DEF Walked
    <3> QED BY <1>5, <2>1, <3>1, <3>2, <3>3, <3>4
  <2> QED BY <1>11, <2>2, <2>3 DEF Write, Here, o
<1>12. CASE WriteManifest(j)
  <2>1. saved' = saved /\ file' = file /\ t.at \in 1 .. Total(o) /\ t.pc = "manifest" /\ t.status = "running"
        /\ task' = [task EXCEPT ![j].pc = "watermark"]
    BY <1>2, <1>3, <1>12 DEF WriteManifest, Turn
  <2> DEFINE u == [t EXCEPT !.pc = "watermark"]
  <2>2. task'[j] = u
    BY <1>2, <2>1
  <2>3. u \in JobTask /\ u.at = t.at /\ u.status = "running" /\ u.pc = "watermark" /\ u.failed = t.failed
        /\ Counted(u) = Counted(t)
    BY <1>2, <2>1 DEF JobTask, Counted
  <2>4. file'[Stop(o, t.at)] # None
    BY <1>3, <2>1 DEF OnDisk
  <2> HIDE DEF u
  <2>5. Gaps(Walked(u)) <= u.failed /\ (j \notin interrupted => Counted(u) = Walked(u))
    BY <1>6, <2>1, <2>3 DEF Walked
  <2> QED BY <1>5, <2>1, <2>2, <2>3, <2>4, <2>5
<1>13. CASE WriteWatermark(j)
  <2>1. saved' = saved /\ t.at \in 1 .. Total(o) /\ t.pc = "watermark" /\ t.status = "running"
        /\ task' = [task EXCEPT ![j].pc = "persist", ![j].done = @ + 1]
    BY <1>2, <1>3, <1>13 DEF WriteWatermark, Turn
  <2> DEFINE u == [t EXCEPT !.pc = "persist", !.done = @ + 1]
  <2>2. task'[j] = u
    BY <1>2, <2>1
  <2>3. u \in JobTask /\ u.at = t.at /\ u.status = t.status /\ u.pc = "persist" /\ u.failed = t.failed
        /\ Counted(u) = Counted(t) + 1
    BY <1>2, OneDone
  <2>4. u.status = "running"
    BY <2>1, <2>3
  <2> HIDE DEF u
  <2>5. Gaps(Walked(u)) <= u.failed /\ (j \notin interrupted => Counted(u) = Walked(u))
    BY <1>3, <1>4, <1>6, <2>1, <2>3, <2>4 DEF Walked
  <2> QED BY <1>5, <2>1, <2>2, <2>3, <2>5
<1>14. CASE SaveDay(j)
  <2>1. Persist(j) /\ task' = [task EXCEPT ![j].pc = "day", ![j].at = @ + 1] /\ file' = file /\ t.pc = "persist"
    BY <1>14 DEF SaveDay, Turn, disk
  <2>2. task'[j] = [t EXCEPT !.pc = "day", !.at = @ + 1] /\ t.status = "running"
    BY <1>2, <1>3, <2>1
  <2>3. /\ task'[j].pc = "day" /\ Walked(task'[j]) = t.at /\ Counted(task'[j]) = Counted(t)
        /\ task'[j].status = "running" /\ task'[j].failed = t.failed /\ task'[j] \in JobTask
    <3> DEFINE n == t.at + 1
    <3>1. n \in Nat
      BY <1>4
    <3>2. task'[j].pc = "day" /\ task'[j].at = t.at + 1 /\ Counted(task'[j]) = Counted(t)
          /\ task'[j].status = "running" /\ task'[j].failed = t.failed
      BY <1>2, <2>2 DEF JobTask, Counted
    <3>3. Walked(task'[j]) = t.at
      BY <1>4, <3>2 DEF Walked
    <3> HIDE DEF n
    <3>4. [t EXCEPT !.pc = "day", !.at = n] \in JobTask
      BY <1>2, <3>1 DEF JobTask
    <3> QED BY <2>2, <3>2, <3>3, <3>4 DEF n
  <2>4. Gaps(t.at) <= t.failed /\ (j \notin interrupted => Counted(t) = t.at)
    BY <1>3, <2>1, <2>2 DEF Walked
  <2>5. WalkIsCounted(j)'
    BY <1>7, <2>1, <2>3, <2>4, InterruptedGrows DEF WalkIsCounted, Gaps
  <2>6. Running(j)'
    BY <2>3, NoneIsNothing DEF Running
  <2> QED BY <1>7, <2>1, <2>2, <2>5, <2>6 DEF SavedIsHonest, DoneIsCounted
<1>15. CASE Done(j)
  <2>1. saved' = saved /\ file' = file /\ t.pc = "day" /\ t.status = "running" /\ t.at = Total(o) + 1
        /\ task' = [task EXCEPT ![j].pc = "end", ![j].status = "done"]
    BY <1>2, <1>3, <1>15 DEF Done, Turn, disk, o
  <2>2. task'[j] = [t EXCEPT !.pc = "end", !.status = "done"]
    BY <1>2, <2>1
  <2>3. /\ task'[j].pc = "end" /\ task'[j].status = "done" /\ task'[j].at = t.at /\ task'[j].failed = t.failed
        /\ Walked(task'[j]) = t.at - 1 /\ Counted(task'[j]) = Counted(t) /\ task'[j] \in JobTask
    BY <1>2, <2>2 DEF JobTask, Walked, Counted, Statuses
  <2>4. WalkIsCounted(j)'
    BY <1>6, <2>1, <2>3, InterruptedGrows DEF WalkIsCounted, Gaps, o
  <2>5. SavedIsHonest(j)'
    BY <2>1, <2>3, NoneIsNothing DEF SavedIsHonest, WalkInv, Running
  <2> QED BY <2>1, <2>4, <2>5, DoneStays
<1>16. CASE SaveEnd(j)
  <2>1. Persist(j) /\ task' = [task EXCEPT ![j].pc = "release"] /\ file' = file /\ t.pc = "end"
    BY <1>16 DEF SaveEnd, Goto, Turn, disk
  <2>2. task'[j] = [t EXCEPT !.pc = "release"]
    BY <1>2, <2>1
  <2>3. /\ task'[j].pc = "release" /\ task'[j].status = t.status /\ task'[j].at = t.at /\ task'[j].failed = t.failed
        /\ Walked(task'[j]) = t.at - 1 /\ Counted(task'[j]) = Counted(t) /\ task'[j] \in JobTask
    BY <1>2, <2>2 DEF JobTask, Walked, Counted
  <2>4. Walked(t) = t.at - 1
    BY <2>1 DEF Walked
  <2>5. WalkIsCounted(j)'
    BY <1>3, <1>7, <2>1, <2>3, <2>4, InterruptedGrows DEF WalkIsCounted, Gaps
  <2>6. SavedIsHonest(j)'
    <3>1. t.status # "queued"
      BY <1>2 DEF JobTask
    <3> QED BY <1>7, <2>1, <2>3, <3>1, NoneIsNothing DEF SavedIsHonest, Running
  <2>7. DoneIsCounted(j)'
    <3>1. t.status = "done" => t.at - 1 = Total(o)
      BY <1>2, <1>3
    <3> QED BY <1>3, <1>7, <2>1, <2>4, <3>1, InterruptedGrows DEF DoneIsCounted, Gaps
  <2> QED BY <2>5, <2>6, <2>7
<1>17. CASE Release(j)
  <2>1. saved' = saved /\ t.pc = "release" /\ task' = [task EXCEPT ![j] = None] /\ interrupted' = interrupted
    BY <1>17 DEF Release, Turn
  <2>2. ~Running(j)'
    BY <1>2, <2>1 DEF Running
  <2>3. SavedIsHonest(j)'
    BY <1>3, <2>1, <2>2 DEF SavedIsHonest, WalkInv
  <2> QED BY <2>1, <2>2, <2>3, DoneStays DEF WalkIsCounted
<1> QED BY <1>8, <1>9, <1>10, <1>11, <1>12, <1>13, <1>14, <1>15, <1>16, <1>17 DEF Step

\* The jobs and the tasks of others are not touched.
LEMMA OthersWalk ==
  ASSUME TypeOK, WalkInv, [Next]_vars, NEW j \in Jobs,
         \A k \in Jobs \ {j} : saved'[k] = saved[k] /\ task'[k] = task[k],
         WalkIsCounted(j)', SavedIsHonest(j)', DoneIsCounted(j)'
  PROVE  WalkInv'
<1>1. ASSUME NEW k \in Jobs, k # j PROVE WalkIsCounted(k)' /\ SavedIsHonest(k)' /\ DoneIsCounted(k)'
  BY <1>1, WalkStays, DoneStays
<1> QED BY <1>1 DEF WalkInv

LEMMA StepIsOwn ==
  ASSUME TypeOK, NEW j \in Jobs, Step(j)
  PROVE  \A k \in Jobs \ {j} : saved'[k] = saved[k] /\ task'[k] = task[k]
<1>1. saved \in [Jobs -> SavedJob \cup {None}] /\ task \in [Jobs -> JobTask \cup {None}]
  BY DEF TypeOK
<1>2. CASE SaveRunning(j) \/ SaveDay(j) \/ SaveEnd(j)
  BY <1>1, <1>2 DEF SaveRunning, SaveDay, SaveEnd, Persist, Goto
<1>3. CASE Day(j) \/ Downloaded(j) \/ Write(j)
  BY <1>1, <1>3 DEF Day, Downloaded, Write, NoData
<1>4. CASE WriteManifest(j) \/ WriteWatermark(j) \/ Done(j) \/ Release(j)
  BY <1>1, <1>4 DEF WriteManifest, WriteWatermark, Done, Release
<1> QED BY <1>2, <1>3, <1>4 DEF Step

\* A job that is created has counted nothing.
LEMMA CreateWalks ==
  ASSUME TypeOK, WalkInv, [Next]_vars, NEW j \in Jobs, Create(j)
  PROVE  WalkInv'
<1>1. saved \in [Jobs -> SavedJob \cup {None}] /\ task' = task /\ saved[j] = None
  BY DEF Create, TypeOK
<1>2. ~Running(j) /\ ~Running(j)'
  BY <1>1, RunningTyped DEF Running
<1>3. PICK o \in Orders : saved' = [saved EXCEPT ![j] = [order |-> o, status |-> "queued",
                                                    done |-> 0, skipped |-> 0, failed |-> 0]]
  BY DEF Create
<1>4. saved'[j].status = "queued" /\ Counted(saved'[j]) = 0
  BY <1>1, <1>3 DEF Counted
<1>5. \A k \in Jobs \ {j} : saved'[k] = saved[k] /\ task'[k] = task[k]
  BY <1>1, <1>3
<1> QED BY <1>2, <1>4, <1>5, OthersWalk DEF WalkIsCounted, SavedIsHonest, DoneIsCounted

\* A task starts with the counters that its job was saved with: none, unless
\* the job was interrupted.
LEMMA RunWalks ==
  ASSUME TypeOK, WalkInv, [Next]_vars, NEW j \in Jobs, RunJob(j)
  PROVE  WalkInv'
<1>1. /\ saved \in [Jobs -> SavedJob \cup {None}] /\ task \in [Jobs -> JobTask \cup {None}]
      /\ saved[j] # None /\ saved[j].status \in {"queued", "running"} /\ ~Running(j)
      /\ file' = file /\ interrupted' = interrupted
  BY DEF RunJob, TypeOK, disk
<1>2. saved[j] \in SavedJob /\ saved[j].order \in Orders /\ saved[j].done \in Nat
      /\ saved[j].skipped \in Nat /\ saved[j].failed \in Nat
  BY <1>1 DEF SavedJob
<1>3. CASE saved' = [saved EXCEPT ![j].status = "failed"] /\ task' = task
  <2>1. saved'[j].status = "failed" /\ \A k \in Jobs \ {j} : saved'[k] = saved[k] /\ task'[k] = task[k]
    BY <1>1, <1>2, <1>3 DEF SavedJob
  <2> QED BY <1>1, <1>3, <2>1, OthersWalk DEF WalkIsCounted, SavedIsHonest, DoneIsCounted, Running
<1>4. CASE saved' = saved /\ task' = [task EXCEPT ![j] = Loaded(j)]
  <2>1. task'[j] = Loaded(j) /\ \A k \in Jobs \ {j} : saved'[k] = saved[k] /\ task'[k] = task[k]
    BY <1>1, <1>4
  <2>2. task'[j] \in JobTask
    BY <1>2, <2>1 DEF Loaded, JobTask, Statuses
  <2>3. Walked(task'[j]) = 0 /\ Counted(task'[j]) = Counted(saved[j]) /\ task'[j].failed = saved[j].failed
        /\ task'[j].pc = "running" /\ task'[j].status = "running"
    BY <2>1 DEF Loaded, Walked, Counted
  <2>4. Cardinality(Absent(file', saved'[j].order, Walked(task'[j]))) <= task'[j].failed
    BY <1>2, <1>4, <2>3, AbsentIsFinite
  <2>5. j \notin interrupted' => Counted(task'[j]) = Walked(task'[j])
    BY <1>1, <2>3 DEF WalkInv, SavedIsHonest
  <2>6. WalkIsCounted(j)'
    BY <2>3, <2>4, <2>5 DEF WalkIsCounted
  <2>7. SavedIsHonest(j)' /\ DoneIsCounted(j)'
    <3>1. Running(j)'
      BY <2>2, NoneIsNothing DEF Running
    <3> QED BY <1>1, <1>4, <3>1 DEF SavedIsHonest, DoneIsCounted, WalkInv
  <2> QED BY <2>1, <2>6, <2>7, OthersWalk
<1> QED BY <1>3, <1>4 DEF RunJob

\* A second call makes the job failed on disk only; the task waits for its
\* download.
LEMMA RunTwiceWalks ==
  ASSUME TypeOK, WalkInv, [Next]_vars, NEW j \in Jobs, RunJobTwice(j)
  PROVE  WalkInv'
<1>1. /\ saved \in [Jobs -> SavedJob \cup {None}] /\ loop = None /\ Running(j) /\ task' = task
      /\ saved' = [saved EXCEPT ![j].status = "failed"]
      /\ file' = file /\ interrupted' = interrupted
  BY DEF RunJobTwice, TypeOK, disk
<1>2. saved[j] \in SavedJob /\ task[j].pc = "fetch" /\ j # None
  BY <1>1, RunningTyped, NoneIsNothing DEF TaskOK
<1>3. saved'[j].status = "failed" /\ saved'[j].order = saved[j].order
      /\ \A k \in Jobs \ {j} : saved'[k] = saved[k] /\ task'[k] = task[k]
  BY <1>1, <1>2 DEF SavedJob
<1>4. WalkIsCounted(j)'
  BY <1>1, <1>2, <1>3 DEF WalkInv, WalkIsCounted, Running, Here, OnDisk
<1> QED BY <1>3, <1>4, OthersWalk DEF SavedIsHonest, DoneIsCounted

\* What goes wrong with the task of j leaves its files and what was saved.
LEMMA FaultWalks ==
  ASSUME TypeOK, WalkInv, [Next]_vars, NEW j \in Jobs,
         DiskError(j) \/ DiskErrorLeavesLock(j) \/ Cancel(j)
  PROVE  WalkInv'
<1>1. /\ task \in [Jobs -> JobTask \cup {None}] /\ file' = file /\ saved' = saved
      /\ j \in interrupted' /\ Running(j)
  BY DEF DiskError, DiskErrorLeavesLock, Cancel, Fault, TypeOK, disk, Turn
<1>2. DoneIsCounted(j)' /\ SavedIsHonest(j)'
  BY <1>1, DoneStays DEF SavedIsHonest, WalkInv
<1>3. task[j] \in JobTask /\ WalkIsCounted(j)
  BY <1>1, RunningTyped DEF WalkInv
<1>4. CASE task' = [task EXCEPT ![j].pc = "end", ![j].status = "failed"]
  <2>1. task'[j].pc = "end" /\ task'[j].status = "failed"
        /\ \A k \in Jobs \ {j} : saved'[k] = saved[k] /\ task'[k] = task[k]
    BY <1>1, <1>3, <1>4 DEF JobTask
  <2> QED BY <1>1, <1>2, <2>1, OthersWalk DEF WalkIsCounted
<1>5. CASE task' = [task EXCEPT ![j] = None]
  <2>1. task'[j] = None /\ \A k \in Jobs \ {j} : saved'[k] = saved[k] /\ task'[k] = task[k]
    BY <1>1, <1>5
  <2> QED BY <1>2, <2>1, OthersWalk DEF WalkIsCounted, Running
<1>6. CASE task' = [task EXCEPT ![j].pc = "end"] /\ task[j].pc = "fetch"
  <2>1. task'[j].pc = "end" /\ task'[j].status = task[j].status /\ task'[j].failed = task[j].failed
        /\ task'[j].at = task[j].at /\ task[j].status = "running"
        /\ \A k \in Jobs \ {j} : saved'[k] = saved[k] /\ task'[k] = task[k]
    BY <1>1, <1>3, <1>6 DEF JobTask, WalkIsCounted
  <2>2. Walked(task'[j]) = Walked(task[j])
    BY <1>6, <2>1 DEF Walked
  <2>3. WalkIsCounted(j)'
    BY <1>1, <1>3, <2>1, <2>2 DEF WalkIsCounted
  <2> QED BY <1>2, <2>1, <2>3, OthersWalk
<1> QED BY <1>4, <1>5, <1>6 DEF DiskError, DiskErrorLeavesLock, Cancel, Goto, Turn

LEMMA NextWalks ==
  ASSUME TypeOK, WalkInv, [Next]_vars
  PROVE  WalkInv'
<1>1. ASSUME NEW j \in Jobs, Step(j) PROVE WalkInv'
  BY <1>1, StepWalks, StepIsOwn, OthersWalk
<1>2. CASE Crash
  <2>1. saved' = saved /\ task' = [j \in Jobs |-> None] /\ \A j \in Jobs : Running(j) => j \in interrupted'
    BY <1>2 DEF Crash, Fault
  <2>2. ASSUME NEW j \in Jobs PROVE WalkIsCounted(j)' /\ SavedIsHonest(j)' /\ DoneIsCounted(j)'
    <3>1. ~Running(j)'
      BY <2>1 DEF Running
    <3>2. SavedIsHonest(j)'
      BY <2>1, <3>1, InterruptedGrows DEF SavedIsHonest, WalkInv
    <3> QED BY <2>1, <3>1, <3>2, DoneStays DEF WalkIsCounted
  <2> QED BY <2>2 DEF WalkInv
<1>3. CASE Unlock \/ UNCHANGED vars
  <2>1. saved' = saved /\ task' = task
    BY <1>3 DEF Unlock, vars
  <2> QED BY <2>1, WalkStays, DoneStays DEF WalkInv
<1> QED BY <1>1, <1>2, <1>3, CreateWalks, RunWalks, RunTwiceWalks, FaultWalks DEF Next

\* A job that is saved as done has the file of every day of its range but of
\* those it counts as failed, and unless it was interrupted it has counted
\* every day once: for any jobs, ranges and faults (raw_sync_worker.py:257-306).
THEOREM DoneJobsAreComplete == Spec => []DoneIsComplete
<1>1. Init => WalkInv
  BY DEF Init, WalkInv, WalkIsCounted, SavedIsHonest, DoneIsCounted, Running
<1>2. TypeOK /\ WalkInv /\ [Next]_vars => WalkInv'
  BY NextWalks
<1> QED BY <1>1, <1>2, TypeCorrect, WalkInvSuffices, PTL DEF Spec

=============================================================================
