------------------------ MODULE OrderLifecycle_proofs ------------------------
(***************************************************************************)
(* Proofs about OrderLifecycle for every set of operations, keys, symbols  *)
(* and indexes, with or without faults.                                    *)
(***************************************************************************)
EXTENDS OrderLifecycle, TLAPS

USE DEF Running, OpenSteps, CloseSteps, Step, Status, Settled, Unsettled

-----------------------------------------------------------------------------
(* Type correctness *)

\* The fields of a request a client may send.
LEMMA RequestFields ==
  ASSUME NEW r \in Requests
  PROVE  /\ r.cid \in Keys /\ r.sym \in Symbols
         /\ r.kind = "open" \/ (r.kind = "close" /\ r.pid \in Pids)
BY RequestsAssumption DEF OpenRequests, CloseRequests

\* What one write of an operation record does to the store and the journal.
LEMMA RecordEffect ==
  ASSUME TypeOK, NEW op \in Ops, NEW status \in Status, Record(op, status)
  PROVE  /\ store' = [store EXCEPT ![op] = status]
         /\ journal' \in [Ops -> Status]
         /\ journal'[op] \in {status, journal[op]}
         /\ ~DiskFaults => journal'[op] = status
         /\ \A o \in Ops : o # op => journal'[o] = journal[o]
BY DEF Record, TypeOK

\* update() changes nothing or writes one record.
LEMMA UpdateType ==
  ASSUME TypeOK, NEW op \in Ops, NEW status \in Status, Update(op, status)
  PROVE  store' \in [Ops -> Status] /\ journal' \in [Ops -> Status]
<1>1. CASE store[op] = "absent"
  BY <1>1 DEF Update, TypeOK, registry
<1>2. CASE store[op] # "absent"
  <2>1. Record(op, status)
    BY <1>2 DEF Update
  <2>2. store' = [store EXCEPT ![op] = status] /\ journal' \in [Ops -> Status]
    BY <2>1, RecordEffect
  <2>3. store \in [Ops -> Status]
    BY DEF TypeOK
  <2> QED BY <2>2, <2>3
<1> QED BY <1>1, <1>2

\* The variables keep their types: in particular every result is a position
\* id of the venue or empty, and every cached id names an operation.
THEOREM TypeCorrect == Spec => []TypeOK
<1>1. Init => TypeOK
  BY LivesAssumption DEF Init, TypeOK
<1>2. TypeOK /\ [Next]_vars => TypeOK'
  <2> SUFFICES ASSUME TypeOK, [Next]_vars PROVE TypeOK'
    OBVIOUS
  <2> USE DEF registry, caches, venue, history
  <2>1. ASSUME NEW op \in Ops, NEW r \in Requests, SubmitOpen(op, r)
        PROVE TypeOK'
    <3>1. r.cid \in Keys
      BY RequestFields
    <3>2. store' \in [Ops -> Status] /\ journal' \in [Ops -> Status]
      BY <2>1 DEF SubmitOpen, Record, TypeOK
    <3>3. openCache' \in [ClientIds -> Ops \cup {NoTrade}]
      BY <2>1, <3>1 DEF SubmitOpen, TypeOK, Keys
    <3> QED BY <2>1, <3>2, <3>3 DEF SubmitOpen, TypeOK
  <2>2. ASSUME NEW op \in Ops, NEW r \in Requests, SubmitClose(op, r)
        PROVE TypeOK'
    BY <2>2 DEF SubmitClose, Record, TypeOK
  <2>3. ASSUME NEW op \in Ops, StartOpen(op)
        PROVE /\ task' \in [Ops -> Step]
              /\ result' \in [Ops -> Pids \cup {NoPid}]
              /\ success' \in [Ops -> BOOLEAN]
    <3>1. req[op].cid # NoId => req[op].cid \in ClientIds
      BY RequestFields DEF TypeOK, NoRequest, Keys
    <3>2. /\ task \in [Ops -> Step] /\ idem \in [ClientIds -> Pids \cup {NoPid}]
          /\ result \in [Ops -> Pids \cup {NoPid}] /\ success \in [Ops -> BOOLEAN]
      BY DEF TypeOK
    <3>3. CASE req[op].cid # NoId /\ idem[req[op].cid] # NoPid
      <4>1. /\ result' = [result EXCEPT ![op] = idem[req[op].cid]]
            /\ success' = [success EXCEPT ![op] = TRUE]
            /\ task' = [task EXCEPT ![op] = "reconcile"]
        BY <2>3, <3>3 DEF StartOpen
      <4> QED BY <3>1, <3>2, <3>3, <4>1
    <3>4. CASE ~(req[op].cid # NoId /\ idem[req[op].cid] # NoPid)
      <4>1. task' = [task EXCEPT ![op] = "price"] /\ UNCHANGED <<result, success>>
        BY <2>3, <3>4 DEF StartOpen
      <4> QED BY <3>2, <4>1
    <3> QED BY <3>3, <3>4
  <2>4. ASSUME NEW op \in Ops, Fail(op)
        PROVE /\ store' \in [Ops -> Status] /\ journal' \in [Ops -> Status]
              /\ task' \in [Ops -> Step]
    BY <2>4, UpdateType DEF Fail, TypeOK
  <2>5. ASSUME NEW op \in Ops, TaskStep(op) PROVE TypeOK'
    <3>1. CASE OpenGate(op)
      BY <3>1, <2>4 DEF OpenGate, TypeOK
    <3>2. CASE OpenGuard(op)
      BY <3>2, <2>3, <2>4 DEF OpenGuard, TypeOK
    <3>3. CASE OpenGuardBlind(op)
      BY <3>3, <2>3 DEF OpenGuardBlind, TypeOK
    <3>4. CASE OpenPrice(op)
      BY <3>4, <2>4 DEF OpenPrice, TypeOK
    <3>5. CASE SendOrder(op)
      BY <3>5, SMTT(30) DEF SendOrder, TypeOK
    <3>6. CASE OpenReceipt(op)
      BY <3>6, ZenonT(30) DEF OpenReceipt, TypeOK
    <3>7. CASE FindTrade(op)
      <4>1. PICK pid \in Pids :
              /\ result' = [result EXCEPT ![op] = pid]
              /\ success' = [success EXCEPT ![op] = TRUE]
              /\ idem' = IF req[op].cid = NoId THEN idem
                         ELSE [idem EXCEPT ![req[op].cid] = pid]
        BY <3>7 DEF FindTrade, OpenAt
      <4>2. /\ result' \in [Ops -> Pids \cup {NoPid}]
            /\ success' \in [Ops -> BOOLEAN]
            /\ idem' \in [ClientIds -> Pids \cup {NoPid}]
        BY <4>1 DEF TypeOK
      <4> QED BY <3>7, <4>2 DEF FindTrade, TypeOK
    <3>8. CASE FindTradeUnsaved(op)
      <4>1. /\ store' \in [Ops -> Status] /\ journal' \in [Ops -> Status] /\ task' \in [Ops -> Step]
        BY <3>8, <2>4 DEF FindTradeUnsaved
      <4>2. UNCHANGED <<req, caches, idem, result, success, waiting, venue, lives, sent, sentNow>>
        BY <3>8 DEF FindTradeUnsaved
      <4>3. unsaved' \subseteq Ops
        BY <3>8 DEF FindTradeUnsaved, TypeOK
      <4> QED BY <4>1, <4>2, <4>3 DEF TypeOK
    <3>9. CASE FindGivesUp(op)
      BY <3>9 DEF FindGivesUp, TypeOK
    <3>10. CASE OpenConfirm(op)
      BY <3>10, UpdateType DEF OpenConfirm, TypeOK
    <3>11. CASE CloseCheck(op)
      <4>1. /\ store' \in [Ops -> Status] /\ journal' \in [Ops -> Status]
            /\ task' \in [Ops -> Step] /\ success' \in [Ops -> BOOLEAN]
        <5>1. CASE Fail(op) /\ UNCHANGED success
          BY <2>4, <5>1 DEF TypeOK
        <5>2. CASE /\ task' = [task EXCEPT ![op] = "reconcile"]
                   /\ success' = [success EXCEPT ![op] = TRUE] /\ UNCHANGED registry
          BY <5>2 DEF TypeOK
        <5>3. CASE task' = [task EXCEPT ![op] = "quote"] /\ UNCHANGED <<registry, success>>
          BY <5>3 DEF TypeOK
        <5> QED BY <3>11, <5>1, <5>2, <5>3, Zenon DEF CloseCheck
      <4>2. UNCHANGED <<req, caches, idem, result, waiting, venue, lives, history>>
        BY <3>11 DEF CloseCheck
      <4> QED BY <4>1, <4>2 DEF TypeOK
    <3>12. CASE ClosePrice(op)
      BY <3>12, <2>4 DEF ClosePrice, TypeOK
    <3>13. CASE CloseReceipt(op)
      BY <3>13 DEF CloseReceipt, TypeOK
    <3>14. CASE CloseConfirm(op)
      BY <3>14, UpdateType DEF CloseConfirm, TypeOK
    <3> QED BY <2>5, <3>1, <3>2, <3>3, <3>4, <3>5, <3>6, <3>7, <3>8, <3>9,
               <3>10, <3>11, <3>12, <3>13, <3>14 DEF TaskStep
  <2>6. ASSUME NEW op \in Ops, HandlerResumes(op) PROVE TypeOK'
    BY <2>6, UpdateType DEF HandlerResumes, TypeOK
  <2>7. ASSUME NEW op \in Ops, VenueStep(op) PROVE TypeOK'
    BY <2>7 DEF VenueStep, VenueFills, VenueDrops, TypeOK
  <2>8. CASE Restart
    BY <2>8 DEF Restart, TypeOK
  <2>9. CASE UNCHANGED vars
    BY <2>9, SMTT(30) DEF vars, TypeOK
  <2> QED BY <2>1, <2>2, <2>5, <2>6, <2>7, <2>8, <2>9 DEF Next, Submit
<1>3. QED BY <1>1, <1>2, PTL DEF Spec

-----------------------------------------------------------------------------
(* The registry of operations *)

\* The steps of a task before it hands a transaction to the chain.
Unsent == {"gate", "guard", "price", "check", "quote", "send"}
Alive  == Running \cup {"done"}

\* Where a task can be when its operation sent a transaction or is waited for.
Control ==
    \A op \in Ops :
        /\ task[op] = "idle" => /\ store[op] = "absent"
                                /\ journal[op] = "absent"
                                /\ op \notin sent /\ op \notin waiting
        /\ task[op] \in Unsent => op \notin sent
        /\ op \in waiting => task[op] \in Alive

\* The inductive invariant: the three promises of the registry hold because of
\* where a task can be.
RegistryInv ==
    /\ TypeOK
    /\ Control
    /\ StatusFollowsTask
    /\ JournalFollowsStore
    /\ ErrorMeansNothingSent

\* A step of a task either moves it to its next await ...
Advance(op) ==
    \E q \in Running :
        /\ task[op] \in Running
        /\ task' = [task EXCEPT ![op] = q]
        /\ UNCHANGED registry
        /\ q \in Unsent => task[op] \in Unsent
        /\ q = "receipt" => task[op] \in Unsent
        /\ sent' = IF q = "receipt" THEN sent \cup {op} ELSE sent
        /\ sentNow' = IF q = "receipt" THEN sentNow \cup {op} ELSE sentNow

\* ... or settles its operation; with "error" only before the transaction, or
\* when the idempotency entry could not be written.
Settle(op) ==
    \E status \in Settled :
        /\ task[op] \in Running
        /\ task' = [task EXCEPT ![op] = "done"]
        /\ Update(op, status)
        /\ sent' = sent /\ sentNow' = sentNow
        /\ status = "error" =>
             task[op] \in Unsent \/ (DiskFaults /\ op \in unsaved')

LEMMA TaskStepEffect ==
  ASSUME NEW op \in Ops, TaskStep(op)
  PROVE  /\ Advance(op) \/ Settle(op)
         /\ UNCHANGED <<req, openCache, waiting, lives>>
         /\ unsaved \subseteq unsaved'
<1> USE DEF Advance, Settle, Unsent, Fail, registry, caches, venue, history
<1>1. CASE OpenGate(op)
  BY <1>1 DEF OpenGate
<1>2. CASE OpenGuard(op)
  BY <1>2 DEF OpenGuard, StartOpen
<1>3. CASE OpenGuardBlind(op)
  BY <1>3 DEF OpenGuardBlind, StartOpen
<1>4. CASE OpenPrice(op)
  BY <1>4 DEF OpenPrice
<1>5. CASE SendOrder(op)
  BY <1>5 DEF SendOrder
<1>6. CASE OpenReceipt(op)
  BY <1>6 DEF OpenReceipt
<1>7. CASE FindTrade(op)
  BY <1>7 DEF FindTrade
<1>8. CASE FindTradeUnsaved(op)
  BY <1>8 DEF FindTradeUnsaved
<1>9. CASE FindGivesUp(op)
  BY <1>9 DEF FindGivesUp
<1>10. CASE OpenConfirm(op)
  BY <1>10 DEF OpenConfirm
<1>11. CASE CloseCheck(op)
  BY <1>11 DEF CloseCheck
<1>12. CASE ClosePrice(op)
  BY <1>12 DEF ClosePrice
<1>13. CASE CloseReceipt(op)
  BY <1>13 DEF CloseReceipt
<1>14. CASE CloseConfirm(op)
  BY <1>14 DEF CloseConfirm
<1> QED BY <1>1, <1>2, <1>3, <1>4, <1>5, <1>6, <1>7, <1>8, <1>9, <1>10, <1>11,
           <1>12, <1>13, <1>14 DEF TaskStep

\* Writing one record keeps the invariant when the new status fits the task.
LEMMA RecordKeepsInv ==
  ASSUME RegistryInv, TypeOK', NEW op \in Ops, NEW status \in Status,
         Record(op, status),
         \A o \in Ops : o # op => task'[o] = task[o],
         sent' = sent, unsaved \subseteq unsaved',
         waiting' \subseteq waiting \cup {op},
         journal[op] \notin Settled,
         status # "absent",
         task'[op] \in Alive,
         task'[op] \in Running => status \in Unsettled,
         task'[op] = "done" => status \in Settled,
         task'[op] \in Unsent => op \notin sent,
         status = "error" => op \notin sent \/ op \in unsaved'
  PROVE  RegistryInv'
<1>0. TypeOK
  BY DEF RegistryInv
<1>1. /\ store' = [store EXCEPT ![op] = status]
      /\ journal'[op] \in {status, journal[op]}
      /\ ~DiskFaults => journal'[op] = status
      /\ \A o \in Ops : o # op => journal'[o] = journal[o]
  BY <1>0, RecordEffect
<1>2. store'[op] = status /\ \A o \in Ops : o # op => store'[o] = store[o]
  BY <1>0, <1>1 DEF TypeOK
<1>3. Control'
  BY <1>1, <1>2 DEF RegistryInv, Control, Alive, Unsent
<1>4. StatusFollowsTask'
  BY <1>2 DEF RegistryInv, StatusFollowsTask, Alive
<1>5. JournalFollowsStore'
  BY <1>1, <1>2 DEF RegistryInv, JournalFollowsStore
<1>6. ErrorMeansNothingSent'
  BY <1>0, <1>1, <1>2 DEF RegistryInv, ErrorMeansNothingSent, TypeOK
<1> QED BY <1>3, <1>4, <1>5, <1>6 DEF RegistryInv

LEMMA RegistryInvariant == Spec => []RegistryInv
<1> USE DEF Control, StatusFollowsTask, JournalFollowsStore,
            ErrorMeansNothingSent, Unsent, Alive
<1>1. Init => RegistryInv
  BY TypeCorrect, LivesAssumption DEF Init, RegistryInv, TypeOK
<1>2. TypeOK' /\ RegistryInv /\ [Next]_vars => RegistryInv'
  <2> SUFFICES ASSUME TypeOK', RegistryInv, [Next]_vars PROVE RegistryInv'
    OBVIOUS
  <2>0. TypeOK
    BY DEF RegistryInv
  <2>1. ASSUME NEW op \in Ops, NEW r \in Requests,
               SubmitOpen(op, r) \/ SubmitClose(op, r)
        PROVE RegistryInv'
    <3>1. /\ task[op] = "idle" /\ task'[op] \in {"gate", "check"}
          /\ \A o \in Ops : o # op => task'[o] = task[o]
          /\ waiting' \subseteq waiting \cup {op}
          /\ sent' = sent /\ unsaved' = unsaved
          /\ Record(op, "in_progress")
      BY <2>1, <2>0 DEF SubmitOpen, SubmitClose, TypeOK, history
    <3>2. op \notin sent /\ journal[op] = "absent"
      BY <3>1 DEF RegistryInv
    <3> QED BY <3>1, <3>2, RecordKeepsInv
  <2>2. ASSUME NEW op \in Ops, TaskStep(op) PROVE RegistryInv'
    <3>0. UNCHANGED waiting /\ unsaved \subseteq unsaved'
      BY <2>2, TaskStepEffect
    <3>1. CASE Advance(op)
      BY <3>1, <3>0, <2>0 DEF Advance, RegistryInv, TypeOK, registry
    <3>2. CASE Settle(op)
      <4>1. PICK status \in Settled :
              /\ Record(op, status)
              /\ status = "error" => op \notin sent \/ op \in unsaved'
        BY <3>2, <2>0 DEF Settle, Update, RegistryInv
      <4>2. journal[op] \notin Settled
        BY <3>2 DEF Settle, RegistryInv
      <4>3. /\ task'[op] = "done" /\ sent' = sent
            /\ \A o \in Ops : o # op => task'[o] = task[o]
        BY <3>2, <2>0 DEF Settle, TypeOK
      <4> QED BY <3>0, <4>1, <4>2, <4>3, RecordKeepsInv
    <3> QED BY <2>2, <3>1, <3>2, TaskStepEffect
  <2>3. ASSUME NEW op \in Ops, HandlerResumes(op) PROVE RegistryInv'
    <3>1. CASE task[op] = "done"
      BY <2>3, <3>1, <2>0 DEF HandlerResumes, RegistryInv, TypeOK, registry, history
    <3>2. CASE task[op] # "done"
      <4>1. Record(op, "pending") /\ task[op] \in Running
        BY <2>3, <3>2, <2>0 DEF HandlerResumes, Update, RegistryInv
      <4>2. /\ task' = task /\ sent' = sent /\ unsaved' = unsaved
            /\ waiting' \subseteq waiting
        BY <2>3 DEF HandlerResumes, history
      <4>3. journal[op] \notin Settled /\ (task[op] \in Unsent => op \notin sent)
        BY <4>1 DEF RegistryInv
      <4> QED BY <4>1, <4>2, <4>3, RecordKeepsInv
    <3> QED BY <3>1, <3>2
  <2>4. ASSUME NEW op \in Ops, VenueStep(op) PROVE RegistryInv'
    BY <2>4, <2>0 DEF VenueStep, VenueFills, VenueDrops, RegistryInv, TypeOK,
                      registry, history
  <2>5. CASE Restart
    BY <2>5, <2>0 DEF Restart, RegistryInv, TypeOK
  <2>6. CASE UNCHANGED vars
    BY <2>6 DEF vars, registry, history, RegistryInv, TypeOK
  <2> QED BY <2>1, <2>2, <2>3, <2>4, <2>5, <2>6 DEF Next, Submit
<1>3. QED BY <1>1, <1>2, TypeCorrect, PTL DEF Spec

\* In every state of every run: the status of an operation follows its task,
\* the journal does not contradict the store, and an operation that ends in
\* error sent no transaction unless its idempotency entry could not be written.
THEOREM RegistryCorrect ==
  Spec => [](RegistryIsTruthful /\ ErrorMeansNothingSent)
<1>1. RegistryInv => RegistryIsTruthful /\ ErrorMeansNothingSent
  BY DEF RegistryInv, RegistryIsTruthful
<1>2. QED BY <1>1, RegistryInvariant, PTL

\* An operation may end in error after its transaction was sent only when its
\* idempotency entry could not be written: the adapter turns every other
\* failure behind the transaction into an answer without success.
THEOREM ErrorsAreBeforeTheOrder == Spec => []ErrorMeansNothingSent
<1>1. RegistryInv => ErrorMeansNothingSent
  BY DEF RegistryInv
<1>2. QED BY <1>1, RegistryInvariant, PTL

\* A settled status is final while the process lives: neither the handler that
\* gives up waiting nor another task changes it (operation_service.py:99-118
\* itself accepts any update).
SettledIsFinal ==
    [][\A op \in Ops : lives' = lives /\ store[op] \in Settled
                         => store'[op] = store[op]]_vars

\* No step of a task, a handler or the venue changes a settled status.
THEOREM SettledStatusIsFinal == Spec => SettledIsFinal
<1>1. RegistryInv /\ [Next]_vars =>
        \A op \in Ops : lives' = lives /\ store[op] \in Settled
                          => store'[op] = store[op]
  <2> SUFFICES ASSUME RegistryInv, [Next]_vars, NEW o \in Ops,
                      lives' = lives, store[o] \in Settled
               PROVE  store'[o] = store[o]
    OBVIOUS
  <2>0. TypeOK /\ task[o] \notin Running /\ task[o] # "idle"
    BY DEF RegistryInv, StatusFollowsTask, Control
  <2>1. ASSUME NEW op \in Ops, NEW r \in Requests,
               SubmitOpen(op, r) \/ SubmitClose(op, r)
        PROVE store'[o] = store[o]
    BY <2>0, <2>1 DEF SubmitOpen, SubmitClose, Record, TypeOK
  <2>2. ASSUME NEW op \in Ops, TaskStep(op) PROVE store'[o] = store[o]
    <3>1. CASE Advance(op)
      BY <3>1 DEF Advance, registry
    <3>2. CASE Settle(op)
      BY <3>2, <2>0 DEF Settle, Update, Record, registry, TypeOK
    <3> QED BY <2>2, <3>1, <3>2, TaskStepEffect
  <2>3. ASSUME NEW op \in Ops, HandlerResumes(op) PROVE store'[o] = store[o]
    <3>1. op \in waiting => task[op] \in Alive
      BY DEF RegistryInv, Control
    <3> QED BY <2>0, <2>3, <3>1
            DEF HandlerResumes, Update, Record, registry, Alive, TypeOK
  <2>4. ASSUME NEW op \in Ops, VenueStep(op) PROVE store'[o] = store[o]
    BY <2>4 DEF VenueStep, VenueFills, VenueDrops, registry
  <2>5. CASE Restart
    BY <2>0, <2>5, LivesAssumption DEF Restart, TypeOK
  <2>6. CASE UNCHANGED vars
    BY <2>6 DEF vars, registry
  <2> QED BY <2>1, <2>2, <2>3, <2>4, <2>5, <2>6 DEF Next, Submit
<1>2. QED BY <1>1, RegistryInvariant, PTL DEF Spec, SettledIsFinal

-----------------------------------------------------------------------------
(* Idempotency of openings within one life of the process *)

\* The cache of client order ids points at the one operation this process runs
\* or ran for the id, and whatever sent a transaction in this life is alive.
KeyInv ==
    /\ \A op \in Ops :
         req[op].kind = "open" /\ req[op].cid # NoId /\ task[op] \in Alive
           => openCache[req[op].cid] = op
    /\ \A op \in sentNow : task[op] \in Alive
    /\ sentNow \subseteq sent

LEMMA KeyInvariant == Spec => []KeyInv
<1> USE DEF Alive
<1>1. Init => KeyInv
  BY DEF Init, KeyInv
<1>2. RegistryInv /\ KeyInv /\ [Next]_vars => KeyInv'
  <2> SUFFICES ASSUME RegistryInv, KeyInv, [Next]_vars PROVE KeyInv'
    OBVIOUS
  <2>0. TypeOK
    BY DEF RegistryInv
  <2>1. ASSUME NEW op \in Ops, NEW r \in Requests, SubmitOpen(op, r)
        PROVE KeyInv'
    <3>1. r.cid \in Keys
      BY RequestFields
    <3>2. /\ task[op] = "idle" /\ sentNow' = sentNow /\ sent' = sent
          /\ req'[op] = r
          /\ \A o \in Ops : o # op => /\ task'[o] = task[o]
                                      /\ req'[o] = req[o]
      BY <2>0, <2>1 DEF SubmitOpen, TypeOK, history
    <3>3. r.cid # NoId => openCache' = [openCache EXCEPT ![r.cid] = op]
      BY <2>1 DEF SubmitOpen
    <3>4. r.cid = NoId => openCache' = openCache
      BY <2>1 DEF SubmitOpen
    <3>5. ASSUME NEW o \in Ops, o # op, task[o] \in Alive,
                 req[o].kind = "open", req[o].cid # NoId
          PROVE  openCache'[req[o].cid] = o
      <4>1. openCache[req[o].cid] = o
        BY <3>5 DEF KeyInv
      <4>2. store[o] # "absent"
        BY <3>5 DEF RegistryInv, StatusFollowsTask
      <4>3. o # NoTrade
        BY NoTradeAssumption
      <4>4. req[o].cid # r.cid
        BY <2>1, <3>5, <4>1, <4>2, <4>3 DEF SubmitOpen, OpenCached
      <4>5. req[o].cid \in ClientIds
        BY <2>0, <3>5, RequestFields DEF TypeOK, NoRequest, Keys
      <4> QED BY <2>0, <3>3, <3>4, <4>1, <4>4, <4>5 DEF TypeOK
    <3>6. r.cid # NoId => openCache'[r.cid] = op
      BY <2>0, <3>1, <3>3 DEF TypeOK, Keys
    <3>7. op \notin sentNow
      BY <3>2 DEF KeyInv
    <3>8. \A o \in Ops : req'[o].kind = "open" /\ req'[o].cid # NoId /\ task'[o] \in Alive
                           => openCache'[req'[o].cid] = o
      BY <3>2, <3>5, <3>6
    <3>9. \A o \in sentNow' : task'[o] \in Alive
      <4>1. \A o \in sentNow : o \in Ops /\ o # op /\ task[o] \in Alive
        BY <2>0, <3>7 DEF KeyInv, TypeOK
      <4> QED BY <3>2, <4>1
    <3>10. sentNow' \subseteq sent'
      BY <3>2 DEF KeyInv
    <3> QED BY <3>8, <3>9, <3>10 DEF KeyInv
  <2>2. ASSUME NEW op \in Ops, NEW r \in Requests, SubmitClose(op, r)
        PROVE KeyInv'
    BY <2>0, <2>2 DEF SubmitClose, KeyInv, TypeOK, caches, history
  <2>3. ASSUME NEW op \in Ops, TaskStep(op) PROVE KeyInv'
    <3>1. /\ task[op] \in Running /\ task'[op] \in Alive
          /\ \A o \in Ops : o # op => task'[o] = task[o]
      BY <2>0, <2>3, TaskStepEffect DEF Advance, Settle, TypeOK
    <3>2. UNCHANGED <<req, openCache>>
      BY <2>3, TaskStepEffect
    <3>3. /\ sentNow' \subseteq sentNow \cup {op}
          /\ sentNow \subseteq sent => sentNow' \subseteq sent'
      BY <2>3, TaskStepEffect DEF Advance, Settle
    <3> QED BY <3>3, <2>0, <3>1, <3>2 DEF KeyInv, TypeOK
  <2>4. ASSUME NEW op \in Ops, HandlerResumes(op) \/ VenueStep(op) PROVE KeyInv'
    BY <2>4 DEF HandlerResumes, VenueStep, VenueFills, VenueDrops, KeyInv,
                caches, history
  <2>5. CASE Restart
    BY <2>5, <2>0 DEF Restart, KeyInv, TypeOK
  <2>6. CASE UNCHANGED vars
    BY <2>6 DEF vars, caches, history, KeyInv
  <2> QED BY <2>1, <2>2, <2>3, <2>4, <2>5, <2>6 DEF Next, Submit
<1>3. QED BY <1>1, <1>2, RegistryInvariant, PTL DEF Spec

\* However the retries of a client interleave with the background task, one
\* client_order_id sends at most one opening transaction per life.
THEOREM KeySendsOneOrder == Spec => []OneOrderPerKey
<1>1. TypeOK /\ KeyInv => OneOrderPerKey
  BY SMTT(30) DEF TypeOK, KeyInv, OneOrderPerKey
<1>2. QED BY <1>1, TypeCorrect, KeyInvariant, PTL

-----------------------------------------------------------------------------
(* OrderLifecycle implements OperationLedger *)

\* A step that moves no task between idle, running and over moves no phase.
LEMMA SamePhases ==
  ASSUME \A o \in Ops : /\ task'[o] = "idle" <=> task[o] = "idle"
                        /\ task'[o] \in Running <=> task[o] \in Running
  PROVE  PhaseOf' = PhaseOf
BY Zenon DEF PhaseOf

\* A step of one task moves the phase of its operation only.
LEMMA OnePhase ==
  ASSUME TypeOK, NEW op \in Ops, NEW q \in Step,
         task' = [task EXCEPT ![op] = q]
  PROVE  PhaseOf' = [PhaseOf EXCEPT ![op] = IF q = "idle" THEN "new"
                                            ELSE IF q \in Running THEN "working"
                                            ELSE "over"]
<1>1. task'[op] = q /\ \A o \in Ops : o # op => task'[o] = task[o]
  BY DEF TypeOK
<1> QED BY <1>1, ZenonT(30) DEF PhaseOf

\* One record is written as the ledger says.
LEMMA AnswerGiven ==
  ASSUME NEW op, NEW status, Record(op, status)
  PROVE  Ledger!Answer(op, status)
BY DEF Record, Ledger!Answer

LEMMA LedgerStarts == Init => Ledger!Init
<1> SUFFICES ASSUME Init PROVE Ledger!Init
  OBVIOUS
<1>1. PhaseOf = [op \in Ops |-> "new"]
  BY DEF Init, PhaseOf
<1> QED BY <1>1 DEF Init, Ledger!Init

LEMMA LedgerAccepts ==
  ASSUME TypeOK, NEW op \in Ops, NEW r \in Requests,
         SubmitOpen(op, r) \/ SubmitClose(op, r)
  PROVE  Ledger!Operation(op)
<1>1. /\ task[op] = "idle" /\ req' = [req EXCEPT ![op] = r]
      /\ Record(op, "in_progress") /\ UNCHANGED <<sent, sentNow>>
      /\ task' = [task EXCEPT ![op] = "gate"] \/ task' = [task EXCEPT ![op] = "check"]
  BY DEF SubmitOpen, SubmitClose, history
<1>2. PhaseOf' = [PhaseOf EXCEPT ![op] = "working"]
  BY <1>1, OnePhase
<1>3. PhaseOf[op] = "new"
  BY <1>1 DEF PhaseOf
<1>4. Ledger!Accept(op, r)
  BY <1>1, <1>2, AnswerGiven DEF Ledger!Accept
<1> QED BY <1>3, <1>4 DEF Ledger!Operation

\* A transaction is the first of its operation, and of its key in this life.
LEMMA LedgerSends ==
  ASSUME TypeOK, RegistryInv, KeyInv, NEW op \in Ops, Advance(op), req' = req
  PROVE  Ledger!Send(op) \/ UNCHANGED Ledger!ledgerVars
<1>1. PICK q \in Running :
        /\ task[op] \in Running
        /\ task' = [task EXCEPT ![op] = q]
        /\ UNCHANGED registry
        /\ q = "receipt" => task[op] \in Unsent
        /\ sent' = IF q = "receipt" THEN sent \cup {op} ELSE sent
        /\ sentNow' = IF q = "receipt" THEN sentNow \cup {op} ELSE sentNow
  BY DEF Advance
<1>2. PhaseOf' = PhaseOf
  <2>1. \A o \in Ops : o # op => task'[o] = task[o]
    BY <1>1 DEF TypeOK
  <2>2. task'[op] \in Running /\ task'[op] # "idle" /\ task[op] # "idle"
    BY <1>1 DEF TypeOK
  <2> QED BY <1>1, <2>1, <2>2, SamePhases
<1>3. UNCHANGED <<req, store, journal>>
  BY <1>1 DEF registry
<1>4. CASE q = "receipt"
  <2>1. op \notin sent
    BY <1>1, <1>4 DEF RegistryInv, Control
  <2>2. \A other \in sentNow : ~Ledger!SameKey(op, other)
    <3> SUFFICES ASSUME NEW other \in sentNow, Ledger!SameKey(op, other) PROVE FALSE
      OBVIOUS
    <3>1. other \in Ops /\ other \in sent /\ task[other] \in Alive
      BY DEF KeyInv, TypeOK
    <3>2. openCache[req[other].cid] = other /\ openCache[req[op].cid] = op
      BY <1>1, <3>1 DEF KeyInv, Alive, Ledger!SameKey
    <3> QED BY <2>1, <3>1, <3>2 DEF Ledger!SameKey
  <2> QED BY <1>1, <1>2, <1>3, <1>4, <2>1, <2>2 DEF Ledger!Send
<1>5. CASE q # "receipt"
  BY <1>1, <1>2, <1>3, <1>5 DEF Ledger!ledgerVars
<1> QED BY <1>4, <1>5

LEMMA LedgerSettles ==
  ASSUME TypeOK, RegistryInv, NEW op \in Ops, Settle(op), req' = req
  PROVE  Ledger!Operation(op)
<1>1. PICK status \in Settled :
        /\ task[op] \in Running
        /\ task' = [task EXCEPT ![op] = "done"]
        /\ Update(op, status)
        /\ sent' = sent /\ sentNow' = sentNow
        /\ status = "error" =>
             task[op] \in Unsent \/ (DiskFaults /\ op \in unsaved')
  BY DEF Settle
<1>2. PhaseOf' = [PhaseOf EXCEPT ![op] = "over"]
  BY <1>1, OnePhase
<1>3. PhaseOf[op] = "working"
  BY <1>1 DEF PhaseOf
<1>4. Record(op, status)
  BY <1>1 DEF Update, RegistryInv, StatusFollowsTask
<1>5. status = "error" => op \notin sent \/ DiskFaults
  BY <1>1 DEF RegistryInv, Control
<1>6. Ledger!Settle(op, status)
  BY <1>1, <1>2, <1>4, <1>5, AnswerGiven DEF Ledger!Settle
<1> QED BY <1>3, <1>6 DEF Ledger!Operation

\* A handler that gives up waiting answers for a task that still runs.
LEMMA LedgerPends ==
  ASSUME TypeOK, RegistryInv, NEW op \in Ops, HandlerResumes(op)
  PROVE  Ledger!Operation(op) \/ UNCHANGED Ledger!ledgerVars
<1>1. UNCHANGED <<req, task, sent, sentNow>>
  BY DEF HandlerResumes, history
<1>2. PhaseOf' = PhaseOf
  BY <1>1, SamePhases
<1>3. CASE task[op] = "done"
  BY <1>1, <1>2, <1>3 DEF HandlerResumes, registry, Ledger!ledgerVars
<1>4. CASE task[op] # "done"
  <2>1. task[op] \in Running
    BY <1>4 DEF HandlerResumes, RegistryInv, Control, Alive
  <2>2. Record(op, "pending")
    BY <1>4, <2>1 DEF HandlerResumes, Update, RegistryInv, StatusFollowsTask
  <2>3. PhaseOf[op] = "working"
    BY <2>1 DEF PhaseOf
  <2>4. Ledger!Pend(op)
    BY <1>1, <1>2, <2>2, AnswerGiven DEF Ledger!Pend
  <2> QED BY <2>3, <2>4 DEF Ledger!Operation
<1> QED BY <1>3, <1>4

LEMMA LedgerCrashes ==
  ASSUME TypeOK, Restart
  PROVE  Ledger!Crash
<1>1. \A o \in Ops : task'[o] = IF task[o] = "idle" THEN "idle" ELSE "dead"
  BY DEF Restart
<1>2. PhaseOf' = [o \in Ops |-> IF PhaseOf[o] = "new" THEN "new" ELSE "over"]
  BY <1>1, Zenon DEF PhaseOf
<1> QED BY <1>2 DEF Restart, Ledger!Crash

\* The order services implement the ledger of operations: whatever the order
\* of awaits, retries, timers, faults of the venue and the disk, and restarts,
\* an operation is accepted once, sends at most one transaction, the only one of
\* its opening key in that life, and is settled once, with "error" only if
\* nothing was sent or the disk failed (order_open_service.py:41-124,
\* order_close_service.py:61-122).
THEOREM OperationsAreOneShot == Spec => LedgerKept
<1>1. RegistryInv /\ KeyInv /\ [Next]_vars => [Ledger!Next]_(Ledger!ledgerVars)
  <2> SUFFICES ASSUME RegistryInv, KeyInv, [Next]_vars
               PROVE  [Ledger!Next]_(Ledger!ledgerVars)
    OBVIOUS
  <2>0. TypeOK
    BY DEF RegistryInv
  <2>1. ASSUME NEW op \in Ops, Submit(op) PROVE Ledger!Next
    BY <2>0, <2>1, LedgerAccepts DEF Submit, Ledger!Next
  <2>2. ASSUME NEW op \in Ops, TaskStep(op)
        PROVE  [Ledger!Next]_(Ledger!ledgerVars)
    <3>1. req' = req
      BY <2>2, TaskStepEffect
    <3>2. CASE Advance(op)
      <4>1. CASE Ledger!Send(op)
        <5>1. PhaseOf[op] = "working"
          BY <3>2 DEF Advance, PhaseOf
        <5> QED BY <4>1, <5>1 DEF Ledger!Next, Ledger!Operation
      <4> QED BY <2>0, <3>1, <3>2, <4>1, LedgerSends
    <3>3. CASE Settle(op)
      BY <2>0, <3>1, <3>3, LedgerSettles DEF Ledger!Next
    <3> QED BY <2>2, <3>2, <3>3, TaskStepEffect
  <2>3. ASSUME NEW op \in Ops, HandlerResumes(op)
        PROVE  [Ledger!Next]_(Ledger!ledgerVars)
    BY <2>0, <2>3, LedgerPends DEF Ledger!Next
  <2>4. ASSUME UNCHANGED <<req, registry, task, sent, sentNow>>
        PROVE  UNCHANGED Ledger!ledgerVars
    BY <2>4, SamePhases DEF registry, Ledger!ledgerVars
  <2>5. ASSUME NEW op \in Ops, VenueStep(op)
        PROVE  UNCHANGED <<req, registry, task, sent, sentNow>>
    BY <2>5 DEF VenueStep, VenueFills, VenueDrops, history
  <2>6. CASE Restart
    BY <2>0, <2>6, LedgerCrashes DEF Ledger!Next
  <2>7. CASE UNCHANGED vars
    BY <2>4, <2>7, SMTT(30) DEF vars, history
  <2> QED BY <2>1, <2>2, <2>3, <2>4, <2>5, <2>6, <2>7 DEF Next
<1>2. QED BY <1>1, LedgerStarts, RegistryInvariant, KeyInvariant, PTL
          DEF Spec, LedgerKept, Ledger!Spec

-----------------------------------------------------------------------------
(* Replays across restarts *)

\* The awaits between the lookup in the idempotency file and its entry.
Seeking == {"price", "send", "receipt", "find"}

\* The file names the position of every opening that has one, and nothing is
\* filed under the key of an opening that is still looking for its own.
Filed(op) ==
    /\ task[op] \in OpenSteps => req[op].kind = "open"
    /\ task[op] \in CloseSteps => req[op].kind = "close"
    /\ task[op] = "idle" => result[op] = NoPid
    /\ req[op].kind = "open" /\ req[op].cid # NoId =>
         /\ task[op] \in Seeking => idem[req[op].cid] = NoPid
         /\ result[op] # NoPid => idem[req[op].cid] = result[op]

ReplayInv == \A op \in Ops : Filed(op)

\* A step of a task moves on without touching the file, ...
Moves(op) ==
    \E q \in Step :
        /\ task' = [task EXCEPT ![op] = q] /\ q # "idle"
        /\ UNCHANGED <<result, idem>>
        /\ q \in OpenSteps => task[op] \in OpenSteps \/ req[op].kind = "open"
        /\ q \in CloseSteps => task[op] \in CloseSteps
        /\ q \in Seeking => \/ task[op] \in Seeking \/ task[op] = "quote"
                            \/ req[op].cid = NoId \/ idem[req[op].cid] = NoPid

\* ... takes its position from the file, or is the one to write it.
Replays(op) ==
    /\ task' = [task EXCEPT ![op] = "reconcile"]
    /\ req[op].cid # NoId /\ idem' = idem
    /\ result' = [result EXCEPT ![op] = idem[req[op].cid]]

Files(op) ==
    \E pid \in Pids :
        /\ task[op] = "find"
        /\ task' = [task EXCEPT ![op] = "reconcile"]
        /\ result' = [result EXCEPT ![op] = pid]
        /\ idem' = IF req[op].cid = NoId THEN idem
                   ELSE [idem EXCEPT ![req[op].cid] = pid]

LEMMA FilingEffect ==
  ASSUME NEW op \in Ops, TaskStep(op)
  PROVE  (Moves(op) \/ Replays(op) \/ Files(op)) /\ req' = req
<1> USE DEF Moves, Replays, Files, Seeking, Fail
<1>1. CASE OpenGate(op)
  BY <1>1 DEF OpenGate
<1>2. CASE OpenGuard(op)
  BY <1>2 DEF OpenGuard, StartOpen
<1>3. CASE OpenGuardBlind(op)
  BY <1>3 DEF OpenGuardBlind, StartOpen
<1>4. CASE OpenPrice(op)
  BY <1>4 DEF OpenPrice
<1>5. CASE SendOrder(op)
  BY <1>5 DEF SendOrder
<1>6. CASE OpenReceipt(op)
  BY <1>6 DEF OpenReceipt
<1>7. CASE FindTrade(op)
  BY <1>7 DEF FindTrade, OpenAt
<1>8. CASE FindTradeUnsaved(op)
  BY <1>8 DEF FindTradeUnsaved
<1>9. CASE FindGivesUp(op)
  BY <1>9 DEF FindGivesUp
<1>10. CASE OpenConfirm(op)
  BY <1>10 DEF OpenConfirm
<1>11. CASE CloseCheck(op)
  BY <1>11 DEF CloseCheck
<1>12. CASE ClosePrice(op)
  BY <1>12 DEF ClosePrice
<1>13. CASE CloseReceipt(op)
  BY <1>13 DEF CloseReceipt
<1>14. CASE CloseConfirm(op)
  BY <1>14 DEF CloseConfirm
<1> QED BY <1>1, <1>2, <1>3, <1>4, <1>5, <1>6, <1>7, <1>8, <1>9, <1>10, <1>11,
           <1>12, <1>13, <1>14 DEF TaskStep

\* The task that files a position is the only one with its key.
LEMMA OneFilesPerKey ==
  ASSUME TypeOK, KeyInv, ReplayInv, NEW op \in Ops, Files(op), req' = req
  PROVE  ReplayInv'
<1>1. PICK pid \in Pids :
        /\ task[op] = "find"
        /\ task' = [task EXCEPT ![op] = "reconcile"]
        /\ result' = [result EXCEPT ![op] = pid]
        /\ idem' = IF req[op].cid = NoId THEN idem
                   ELSE [idem EXCEPT ![req[op].cid] = pid]
  BY DEF Files
<1>2. /\ task'[op] = "reconcile" /\ result'[op] = pid
      /\ \A o \in Ops : o # op => task'[o] = task[o] /\ result'[o] = result[o]
  BY <1>1 DEF TypeOK
<1>3. Filed(op) /\ req[op].kind = "open"
  BY <1>1 DEF ReplayInv, Filed
<1>4. req[op].cid # NoId => req[op].cid \in ClientIds
  BY RequestFields DEF TypeOK, NoRequest, Keys
<1>5. Filed(op)'
  BY <1>1, <1>2, <1>3, <1>4 DEF Filed, TypeOK, Seeking
<1>6. ASSUME NEW o \in Ops, o # op PROVE Filed(o)'
  <2>0. Filed(o)
    BY DEF ReplayInv
  <2>1. CASE req[op].cid = NoId \/ req[o].cid # req[op].cid
    <3>1. req[o].cid # NoId => req[o].cid \in ClientIds
      BY RequestFields DEF TypeOK, NoRequest, Keys
    <3>2. req[o].cid # NoId => idem'[req[o].cid] = idem[req[o].cid]
      BY <1>1, <1>4, <2>1, <3>1 DEF TypeOK
    <3> QED BY <1>2, <1>6, <2>0, <3>2 DEF Filed
  <2>2. CASE req[op].cid # NoId /\ req[o].cid = req[op].cid /\ req[o].kind = "open"
    <3>1. task[o] \notin Seeking
      <4>1. openCache[req[op].cid] = op
        BY <1>1, <1>3, <2>2 DEF KeyInv, Alive
      <4>2. task[o] \in Seeking => openCache[req[o].cid] = o
        BY <2>2 DEF KeyInv, Alive, Seeking
      <4> QED BY <1>6, <2>2, <4>1, <4>2
    <3>2. result[o] = NoPid
      BY <1>1, <1>3, <2>0, <2>2 DEF Filed, Seeking
    <3> QED BY <1>2, <1>6, <2>0, <3>1, <3>2 DEF Filed
  <2>3. CASE req[o].kind # "open"
    BY <1>2, <1>6, <2>0, <2>3 DEF Filed
  <2> QED BY <2>1, <2>2, <2>3
<1> QED BY <1>5, <1>6 DEF ReplayInv

LEMMA ReplayInvariant == Spec => []ReplayInv
<1>1. Init => ReplayInv
  BY DEF Init, ReplayInv, Filed, NoRequest, Seeking
<1>2. TypeOK /\ KeyInv /\ ReplayInv /\ [Next]_vars => ReplayInv'
  <2> SUFFICES ASSUME TypeOK, KeyInv, ReplayInv, [Next]_vars PROVE ReplayInv'
    OBVIOUS
  <2>1. ASSUME NEW op \in Ops, NEW r \in Requests,
               SubmitOpen(op, r) \/ SubmitClose(op, r)
        PROVE  ReplayInv'
    <3>1. /\ task[op] = "idle" /\ UNCHANGED <<result, idem>>
          /\ \A o \in Ops : o # op => task'[o] = task[o] /\ req'[o] = req[o]
          /\ req'[op] = r
          /\ \/ r.kind = "open" /\ task'[op] = "gate"
             \/ r.kind = "close" /\ task'[op] = "check"
      BY <2>1 DEF SubmitOpen, SubmitClose, TypeOK
    <3>2. result[op] = NoPid
      BY <3>1 DEF ReplayInv, Filed
    <3>3. Filed(op)'
      BY <3>1, <3>2 DEF Filed, Seeking
    <3>4. ASSUME NEW o \in Ops, o # op PROVE Filed(o)'
      BY <3>1, <3>4 DEF ReplayInv, Filed
    <3> QED BY <3>3, <3>4 DEF ReplayInv
  <2>2. ASSUME NEW op \in Ops, TaskStep(op) PROVE ReplayInv'
    <3>0. req' = req
      BY <2>2, FilingEffect
    <3>1. CASE Moves(op)
      <4>1. /\ UNCHANGED <<result, idem>> /\ task'[op] # "idle"
            /\ \A o \in Ops : o # op => task'[o] = task[o]
            /\ task'[op] \in OpenSteps => task[op] \in OpenSteps \/ req[op].kind = "open"
            /\ task'[op] \in CloseSteps => task[op] \in CloseSteps
            /\ task'[op] \in Seeking => \/ task[op] \in Seeking \/ task[op] = "quote"
                                        \/ req[op].cid = NoId \/ idem[req[op].cid] = NoPid
        BY <3>1 DEF Moves, TypeOK
      <4>2. Filed(op)
        BY DEF ReplayInv
      <4>3. Filed(op)'
        BY <3>0, <4>1, <4>2 DEF Filed
      <4>4. ASSUME NEW o \in Ops, o # op PROVE Filed(o)'
        BY <3>0, <4>1, <4>4 DEF ReplayInv, Filed
      <4> QED BY <4>3, <4>4 DEF ReplayInv
    <3>2. CASE Replays(op)
      <4>1. /\ idem' = idem /\ task'[op] = "reconcile" /\ result'[op] = idem[req[op].cid]
            /\ \A o \in Ops : o # op => task'[o] = task[o] /\ result'[o] = result[o]
        BY <3>2 DEF Replays, TypeOK
      <4>2. Filed(op)'
        BY <3>0, <4>1 DEF Filed, Seeking
      <4>3. ASSUME NEW o \in Ops, o # op PROVE Filed(o)'
        BY <3>0, <4>1, <4>3 DEF ReplayInv, Filed
      <4> QED BY <4>2, <4>3 DEF ReplayInv
    <3>3. CASE Files(op)
      BY <3>0, <3>3, OneFilesPerKey
    <3> QED BY <2>2, <3>1, <3>2, <3>3, FilingEffect
  <2>3. CASE UNCHANGED <<req, task, result, idem>>
    BY <2>3 DEF ReplayInv, Filed
  <2>4. ASSUME NEW op \in Ops, HandlerResumes(op) \/ VenueStep(op)
        PROVE  UNCHANGED <<req, task, result, idem>>
    BY <2>4 DEF HandlerResumes, VenueStep, VenueFills, VenueDrops
  <2>5. CASE Restart
    <3>1. /\ UNCHANGED <<req, result, idem>>
          /\ \A o \in Ops : task'[o] = IF task[o] = "idle" THEN "idle" ELSE "dead"
      BY <2>5 DEF Restart
    <3> QED BY <3>1 DEF ReplayInv, Filed, Seeking
  <2>6. UNCHANGED vars => UNCHANGED <<req, task, result, idem>>
    BY DEF vars
  <2> QED BY <2>1, <2>2, <2>3, <2>4, <2>5, <2>6 DEF Next, Submit
<1>3. QED BY <1>1, <1>2, TypeCorrect, KeyInvariant, PTL DEF Spec

\* Confirmed openings of one client_order_id name one position, however often
\* the process dies between a transaction and the answer to a retry.
THEOREM ReplaysAgree == Spec => []ReplayNamesSamePosition
<1>1. ReplayInv => ReplayNamesSamePosition
  BY DEF ReplayInv, Filed, ReplayNamesSamePosition
<1>2. QED BY <1>1, ReplayInvariant, PTL
=============================================================================
