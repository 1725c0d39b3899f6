--------------------------- MODULE OrderLifecycle ---------------------------
(***************************************************************************)
(* The life of an order in the trading service: POST /orders/open and      *)
(* POST /orders/close answer with an operation id and leave the slow part  *)
(* (quality gate, position guard, price, transaction, search of the trade, *)
(* reconciliation) to an asyncio task, whose outcome the client polls.     *)
(*                                                                         *)
(* One event loop runs everything, so the code between two awaits is one   *)
(* action; every await is a point where any other task, the venue or a     *)
(* crash of the process may come in between.                               *)
(*                                                                         *)
(* Durable:  journal (operations.jsonl), idem (the idempotency JSONL file) *)
(* Volatile: store, the two idempotency caches, every task.                *)
(* Venue:    the chain, which fills or drops what was sent when it likes.  *)
(***************************************************************************)
EXTENDS Naturals, FiniteSets

CONSTANTS
    Ops,             \* operation ids (uuid4 prefixes: never reused)
    ClientIds,       \* client_order_id / client_close_id values
    NoId,            \* the client sent no idempotency key
    Symbols,         \* trading pairs
    Slots,           \* trade indexes of one pair at the venue
    NoPid,           \* the empty position id
    NoTrade,         \* an unused trade index
    Requests,        \* the requests clients may send, see OpenRequests
    MaxLives,        \* bound: how many times the process is started
    FlakyReads,      \* BOOLEAN: chain reads may fail, wholly or per slot
    DiskFaults       \* BOOLEAN: an append to either JSONL file may fail

ASSUME SlotsAssumption   == Slots \subseteq Nat
ASSUME NoIdAssumption    == NoId \notin ClientIds
ASSUME NoPidAssumption   == NoPid \notin (Symbols \X Slots)
ASSUME NoTradeAssumption == NoTrade \notin Ops
ASSUME LivesAssumption   == MaxLives \in Nat
ASSUME FaultsAssumption  == FlakyReads \in BOOLEAN /\ DiskFaults \in BOOLEAN

Pids == Symbols \X Slots          \* "ostium:<pair_id>:<trade_index>"
Keys == ClientIds \cup {NoId}

\* Status of an operation record; "absent" is an id the store does not know.
Unsettled == {"in_progress", "pending"}
Settled   == {"confirmed", "error"}
Status    == {"absent"} \cup Unsettled \cup Settled

OpenSteps  == {"gate", "guard", "price", "find"}
CloseSteps == {"check", "quote"}
Running    == OpenSteps \cup CloseSteps \cup {"send", "receipt", "reconcile"}
Step       == Running \cup {"idle", "done", "dead"}

OpenRequests  == [kind : {"open"}, cid : Keys, sym : Symbols, pid : {NoPid}]
CloseRequests == {r \in [kind : {"close"}, cid : Keys, sym : Symbols, pid : Pids] :
                    r.sym = r.pid[1]}
NoRequest     == [kind |-> "none", cid |-> NoId, sym |-> NoId, pid |-> NoPid]

ASSUME RequestsAssumption == Requests \subseteq OpenRequests \cup CloseRequests

VARIABLES
    req,        \* Ops -> the request an operation was created for
    store,      \* Ops -> Status, OperationService._store
    journal,    \* Ops -> Status, last line of operations.jsonl per id
    openCache,  \* ClientIds -> Ops or NoTrade, _open_idempotency_cache
    closeCache, \* Pids \X ClientIds -> result, _close_idempotency_cache
    idem,       \* ClientIds -> position id saved in the idempotency file
    task,       \* Ops -> the await the background task is suspended at
    result,     \* Ops -> position id (open) the task will report
    success,    \* Ops -> the success flag the adapter returned
    waiting,    \* close operations whose HTTP handler is in asyncio.wait
    orders,     \* operations whose transaction the venue has yet to execute
    trades,     \* Pids -> the open operation that owns the trade, or NoTrade
    lives,      \* number of starts of the process
    \* history, read by the properties only
    sent,       \* operations that sent a transaction, ever
    sentNow,    \* the same, in this life of the process
    unsaved     \* operations whose idempotency entry could not be written

registry == <<store, journal>>
caches   == <<openCache, closeCache>>
venue    == <<orders, trades>>
history  == <<sent, sentNow, unsaved>>
vars == <<req, registry, caches, idem, task, result, success, waiting, venue,
          lives, history>>

(***************************************************************************)
(* The operation registry                                                  *)
(***************************************************************************)

\* Mutant of Record: the line is written first, and a failed write of the
\* record in memory goes unnoticed.
RecordJournalFirst(op, status) ==
    /\ journal' = [journal EXCEPT ![op] = status]
    /\ \/ store' = [store EXCEPT ![op] = status]
       \/ DiskFaults /\ UNCHANGED store

\* OperationService.create / update: the record in memory, then a best-effort
\* append; a failed append is only logged.
Record(op, status) ==
    /\ store' = [store EXCEPT ![op] = status]
    /\ \/ journal' = [journal EXCEPT ![op] = status]
       \/ DiskFaults /\ UNCHANGED journal

\* update() ignores an id the store does not know.
Update(op, status) ==
    IF store[op] = "absent" THEN UNCHANGED registry ELSE Record(op, status)

\* The exception handlers of both background tasks.
Fail(op) ==
    /\ Update(op, "error")
    /\ task' = [task EXCEPT ![op] = "done"]

(***************************************************************************)
(* What a read of the chain reports                                        *)
(***************************************************************************)

OpenAt(sym) == {p \in Pids : p[1] = sym /\ trades[p] # NoTrade}

\* get_open_trades and _find_trade_index skip every slot whose read raises.
Seen(sym) == IF FlakyReads THEN SUBSET OpenAt(sym) ELSE {OpenAt(sym)}

(***************************************************************************)
(* Opening a position                                                      *)
(***************************************************************************)

OpenCached(cid) ==
    cid # NoId /\ openCache[cid] # NoTrade /\ store[openCache[cid]] # "absent"

\* Mutant of SubmitOpen: the client order id is not remembered.
SubmitOpenForgets(op, r) ==
    /\ task[op] = "idle" /\ r.kind = "open"
    /\ ~OpenCached(r.cid)
    /\ req' = [req EXCEPT ![op] = r]
    /\ Record(op, "in_progress")
    /\ task' = [task EXCEPT ![op] = "gate"]
    /\ UNCHANGED <<caches, idem, result, success, waiting, venue, lives, history>>

\* fast_ack_open: a known client_order_id answers with the operation it has.
SubmitOpen(op, r) ==
    /\ task[op] = "idle" /\ r.kind = "open"
    /\ ~OpenCached(r.cid)
    /\ req' = [req EXCEPT ![op] = r]
    /\ Record(op, "in_progress")
    /\ openCache' = IF r.cid = NoId THEN openCache
                                    ELSE [openCache EXCEPT ![r.cid] = op]
    /\ task' = [task EXCEPT ![op] = "gate"]
    /\ UNCHANGED <<closeCache, idem, result, success, waiting, venue, lives,
                   history>>

\* Quality gate, canary routing, live guards, adapter lookup: whichever says
\* no raises; otherwise the position guard starts its scan.
OpenGate(op) ==
    /\ task[op] = "gate"
    /\ \/ task' = [task EXCEPT ![op] = "guard"] /\ UNCHANGED registry
       \/ Fail(op)
    /\ UNCHANGED <<req, caches, idem, result, success, waiting, venue, lives,
                   history>>

\* Mutant of StartOpen: the idempotency file is not consulted.
StartOpenAnew(op) ==
    /\ task' = [task EXCEPT ![op] = "price"]
    /\ UNCHANGED <<result, success>>

\* What follows the guard without an await: the lookup in the idempotency
\* file and, for a new client_order_id, the call for the price.
StartOpen(op) ==
    LET cid == req[op].cid IN
    IF cid # NoId /\ idem[cid] # NoPid
    THEN /\ result' = [result EXCEPT ![op] = idem[cid]]
         /\ success' = [success EXCEPT ![op] = TRUE]
         /\ task' = [task EXCEPT ![op] = "reconcile"]
    ELSE /\ task' = [task EXCEPT ![op] = "price"]
         /\ UNCHANGED <<result, success>>

\* The scan returned: a position of the symbol raises PositionAlreadyOpen, and
\* so does an idempotency file that cannot be read.
OpenGuard(op) ==
    /\ task[op] = "guard"
    /\ \/ /\ \/ \E seen \in Seen(req[op].sym) : seen # {}
             \/ DiskFaults /\ req[op].cid # NoId
          /\ Fail(op)
          /\ UNCHANGED <<result, success>>
       \/ /\ {} \in Seen(req[op].sym)
          /\ StartOpen(op)
          /\ UNCHANGED registry
    /\ UNCHANGED <<req, caches, idem, waiting, venue, lives, history>>

\* The adapter turns a failed scan into an empty list of positions.
OpenGuardBlind(op) ==
    /\ task[op] = "guard"
    /\ FlakyReads
    /\ StartOpen(op)
    /\ UNCHANGED <<req, registry, caches, idem, waiting, venue, lives, history>>

\* get_price raises, or the transaction is handed to the executor.
OpenPrice(op) ==
    /\ task[op] = "price"
    /\ \/ task' = [task EXCEPT ![op] = "send"] /\ UNCHANGED registry
       \/ Fail(op)
    /\ UNCHANGED <<req, caches, idem, result, success, waiting, venue, lives,
                   history>>

\* perform_trade / close_trade in the executor: the transaction reaches the
\* chain, or raises before it does (the adapter then reports no success).
SendOrder(op) ==
    /\ task[op] = "send"
    /\ \/ /\ orders' = orders \cup {op}
          /\ sent' = sent \cup {op}
          /\ sentNow' = sentNow \cup {op}
          /\ task' = [task EXCEPT ![op] = "receipt"]
       \/ /\ task' = [task EXCEPT ![op] = "reconcile"]
          /\ UNCHANGED <<orders, sent, sentNow>>
    /\ UNCHANGED <<req, registry, caches, idem, result, success, waiting,
                   trades, lives, unsaved>>

\* Mutant of OpenReceipt: a failure after the transaction propagates.
OpenReceiptRaises(op) ==
    /\ task[op] = "receipt" /\ req[op].kind = "open"
    /\ \/ task' = [task EXCEPT ![op] = "find"] /\ UNCHANGED registry
       \/ Fail(op)
    /\ UNCHANGED <<req, caches, idem, result, success, waiting, venue, lives,
                   history>>

\* The receipt comes back and the search for the trade starts, or waiting
\* for the receipt raises although the transaction was sent.
OpenReceipt(op) ==
    /\ task[op] = "receipt" /\ req[op].kind = "open"
    /\ \/ task' = [task EXCEPT ![op] = "find"]
       \/ task' = [task EXCEPT ![op] = "reconcile"]
    /\ UNCHANGED <<req, registry, caches, idem, result, success, waiting,
                   venue, lives, history>>

\* A poll finds an active trade of the pair, whoever opened it; the entry
\* {client_order_id, position_id} is appended to the idempotency file.
FindTrade(op) ==
    /\ task[op] = "find"
    /\ \E seen \in Seen(req[op].sym), pid \in OpenAt(req[op].sym) :
         /\ pid \in seen
         /\ \A other \in seen : pid[2] <= other[2]
         /\ result' = [result EXCEPT ![op] = pid]
         /\ success' = [success EXCEPT ![op] = TRUE]
         /\ idem' = IF req[op].cid = NoId THEN idem
                    ELSE [idem EXCEPT ![req[op].cid] = pid]
    /\ task' = [task EXCEPT ![op] = "reconcile"]
    /\ UNCHANGED <<req, registry, caches, waiting, venue, lives, history>>

\* The append raises: the adapter does not catch it, so the operation ends
\* in error with a position open at the venue.
FindTradeUnsaved(op) ==
    /\ task[op] = "find"
    /\ DiskFaults /\ req[op].cid # NoId
    /\ \E seen \in Seen(req[op].sym) : seen # {}
    /\ Fail(op)
    /\ unsaved' = unsaved \cup {op}
    /\ UNCHANGED <<req, caches, idem, result, success, waiting, venue, lives,
                   sent, sentNow>>

\* Mutants of FindGivesUp: the polls have no limit; the last poll makes up an
\* index.
FindPollsForever(op) ==
    task[op] = "find" /\ {} \in Seen(req[op].sym) /\ UNCHANGED vars

FindInventsIndex(op) ==
    /\ task[op] = "find"
    /\ {} \in Seen(req[op].sym)
    /\ task' = [task EXCEPT ![op] = "reconcile"]
    /\ result' = [result EXCEPT ![op] = <<req[op].sym, Cardinality(Slots)>>]
    /\ UNCHANGED <<req, registry, caches, idem, success, waiting, venue, lives,
                   history>>

\* Seven polls, thirty seconds, no active trade: RuntimeError, which the
\* adapter reports as success = False with an empty position id.
FindGivesUp(op) ==
    /\ task[op] = "find"
    /\ {} \in Seen(req[op].sym)
    /\ task' = [task EXCEPT ![op] = "reconcile"]
    /\ UNCHANGED <<req, registry, caches, idem, result, success, waiting,
                   venue, lives, history>>

\* reconcile_open only logs; the operation is confirmed whatever success says.
OpenConfirm(op) ==
    /\ task[op] = "reconcile" /\ req[op].kind = "open"
    /\ Update(op, "confirmed")
    /\ task' = [task EXCEPT ![op] = "done"]
    /\ UNCHANGED <<req, caches, idem, result, success, waiting, venue, lives,
                   history>>

(***************************************************************************)
(* Closing a position                                                      *)
(***************************************************************************)

\* close_with_timeout: a cached response ends the request at once.
SubmitClose(op, r) ==
    /\ task[op] = "idle" /\ r.kind = "close"
    /\ r.cid # NoId => closeCache[<<r.pid, r.cid>>] = "none"
    /\ req' = [req EXCEPT ![op] = r]
    /\ Record(op, "in_progress")
    /\ task' = [task EXCEPT ![op] = "check"]
    /\ waiting' = waiting \cup {op}
    /\ UNCHANGED <<caches, idem, result, success, venue, lives, history>>

\* Live guard and adapter lookup may raise; get_trade_info says the trade is
\* gone (success, nothing to send), says it is there, or fails and is ignored.
CloseCheck(op) ==
    /\ task[op] = "check"
    /\ \/ Fail(op) /\ UNCHANGED success
       \/ /\ trades[req[op].pid] = NoTrade
          /\ task' = [task EXCEPT ![op] = "reconcile"]
          /\ success' = [success EXCEPT ![op] = TRUE]
          /\ UNCHANGED registry
       \/ /\ trades[req[op].pid] # NoTrade \/ FlakyReads
          /\ task' = [task EXCEPT ![op] = "quote"]
          /\ UNCHANGED <<registry, success>>
    /\ UNCHANGED <<req, caches, idem, result, waiting, venue, lives, history>>

\* The closing price, then close_trade.
ClosePrice(op) ==
    /\ task[op] = "quote"
    /\ \/ task' = [task EXCEPT ![op] = "send"] /\ UNCHANGED registry
       \/ Fail(op)
    /\ UNCHANGED <<req, caches, idem, result, success, waiting, venue, lives,
                   history>>

\* close_trade returned, or raised after the transaction was sent.
CloseReceipt(op) ==
    /\ task[op] = "receipt" /\ req[op].kind = "close"
    /\ \E ok \in BOOLEAN : success' = [success EXCEPT ![op] = ok]
    /\ task' = [task EXCEPT ![op] = "reconcile"]
    /\ UNCHANGED <<req, registry, caches, idem, result, waiting, venue, lives,
                   history>>

\* reconcile_close only logs; the response is cached under the client's key.
CloseConfirm(op) ==
    /\ task[op] = "reconcile" /\ req[op].kind = "close"
    /\ Update(op, "confirmed")
    /\ closeCache' =
         IF req[op].cid = NoId THEN closeCache
         ELSE [closeCache EXCEPT ![<<req[op].pid, req[op].cid>>] =
                 IF success[op] THEN "closed" ELSE "failed"]
    /\ task' = [task EXCEPT ![op] = "done"]
    /\ UNCHANGED <<req, openCache, idem, result, success, waiting, venue,
                   lives, history>>

\* Mutant of HandlerResumes: the timer alone decides.
HandlerAlwaysPending(op) ==
    /\ op \in waiting
    /\ waiting' = waiting \ {op}
    /\ Update(op, "pending")
    /\ UNCHANGED <<req, caches, idem, task, result, success, venue, lives,
                   history>>

\* asyncio.wait ends, by completion of the task or by the timer: what the
\* handler does depends on whether the task is done when it resumes.
HandlerResumes(op) ==
    /\ op \in waiting
    /\ waiting' = waiting \ {op}
    /\ IF task[op] = "done" THEN UNCHANGED registry ELSE Update(op, "pending")
    /\ UNCHANGED <<req, caches, idem, task, result, success, venue, lives,
                   history>>

(***************************************************************************)
(* The venue and the process                                               *)
(***************************************************************************)

\* A pending transaction takes effect: an opening takes a free index of the
\* pair, a closing frees the index it names.
VenueFills(op) ==
    /\ op \in orders
    /\ orders' = orders \ {op}
    /\ \/ /\ req[op].kind = "open"
          /\ \E p \in Pids : /\ p[1] = req[op].sym /\ trades[p] = NoTrade
                             /\ trades' = [trades EXCEPT ![p] = op]
       \/ /\ req[op].kind = "close"
          /\ trades' = [trades EXCEPT ![req[op].pid] = NoTrade]
    /\ UNCHANGED <<req, registry, caches, idem, task, result, success, waiting,
                   lives, history>>

\* ... or none (price moved, reverted).
VenueDrops(op) ==
    /\ op \in orders
    /\ orders' = orders \ {op}
    /\ UNCHANGED <<req, registry, caches, idem, task, result, success, waiting,
                   trades, lives, history>>

\* The process dies and starts again: tasks, handlers and caches are gone,
\* wire_order_services rehydrates the store from the journal. "dead" marks the
\* operations of earlier lives.
Restart ==
    /\ lives < MaxLives
    /\ lives' = lives + 1
    /\ store' = journal
    /\ openCache' = [c \in ClientIds |-> NoTrade]
    /\ closeCache' = [k \in Pids \X ClientIds |-> "none"]
    /\ task' = [op \in Ops |-> IF task[op] = "idle" THEN "idle" ELSE "dead"]
    /\ waiting' = {}
    /\ sentNow' = {}
    /\ UNCHANGED <<req, journal, idem, result, success, venue, sent, unsaved>>

Init ==
    /\ req = [op \in Ops |-> NoRequest]
    /\ store = [op \in Ops |-> "absent"]
    /\ journal = [op \in Ops |-> "absent"]
    /\ openCache = [c \in ClientIds |-> NoTrade]
    /\ closeCache = [k \in Pids \X ClientIds |-> "none"]
    /\ idem = [c \in ClientIds |-> NoPid]
    /\ task = [op \in Ops |-> "idle"]
    /\ result = [op \in Ops |-> NoPid]
    /\ success = [op \in Ops |-> FALSE]
    /\ waiting = {}
    /\ orders = {}
    /\ trades = [p \in Pids |-> NoTrade]
    /\ lives = 1
    /\ sent = {} /\ sentNow = {} /\ unsaved = {}

Submit(op) == \E r \in Requests : SubmitOpen(op, r) \/ SubmitClose(op, r)

\* The steps of the background task of an operation.
TaskStep(op) ==
    \/ OpenGate(op) \/ OpenGuard(op) \/ OpenGuardBlind(op) \/ OpenPrice(op)
    \/ SendOrder(op) \/ OpenReceipt(op)
    \/ FindTrade(op) \/ FindTradeUnsaved(op) \/ FindGivesUp(op)
    \/ OpenConfirm(op)
    \/ CloseCheck(op) \/ ClosePrice(op) \/ CloseReceipt(op) \/ CloseConfirm(op)

VenueStep(op) == VenueFills(op) \/ VenueDrops(op)

Next ==
    \/ \E op \in Ops : \/ Submit(op) \/ TaskStep(op)
                       \/ HandlerResumes(op) \/ VenueStep(op)
    \/ Restart

Spec == Init /\ [][Next]_vars

\* Every RPC call returns or raises and the event loop runs what is ready.
\* Nothing is assumed of clients, of handlers, of the venue or of restarts.
FairSpec == Spec /\ \A op \in Ops : WF_vars(TaskStep(op))

-----------------------------------------------------------------------------
(***************************************************************************)
(* Properties                                                              *)
(***************************************************************************)

\* The type of the state.
TypeOK ==
    /\ req \in [Ops -> Requests \cup {NoRequest}]
    /\ store \in [Ops -> Status]
    /\ journal \in [Ops -> Status]
    /\ openCache \in [ClientIds -> Ops \cup {NoTrade}]
    /\ closeCache \in [Pids \X ClientIds -> {"none", "closed", "failed"}]
    /\ idem \in [ClientIds -> Pids \cup {NoPid}]
    /\ task \in [Ops -> Step]
    /\ result \in [Ops -> Pids \cup {NoPid}]
    /\ success \in [Ops -> BOOLEAN]
    /\ waiting \subseteq Ops
    /\ orders \subseteq Ops
    /\ trades \in [Pids -> Ops \cup {NoTrade}]
    /\ lives \in Nat
    /\ sent \subseteq Ops /\ sentNow \subseteq Ops
    /\ unsaved \subseteq Ops

\* The answer to a poll tells the truth about the task: while the process that
\* accepted an operation lives, its status is unsettled exactly as long as its
\* background task runs, whatever the order of the timeout of the HTTP handler
\* and the end of the task (order_close_service.py:101-108).
StatusFollowsTask ==
    \A op \in Ops : /\ task[op] \in Running => store[op] \in Unsettled
                    /\ task[op] = "done" => store[op] \in Settled

\* The journal never runs ahead of the store: what it says of a settled
\* operation is what the store says, and without write errors it misses
\* nothing, so a restart forgets no acknowledged outcome
\* (operation_service.py, _append and rehydrate).
JournalFollowsStore ==
    \A op \in Ops : /\ journal[op] \in Settled => store[op] = journal[op]
                    /\ store[op] = "absent" => journal[op] = "absent"
                    /\ ~DiskFaults => journal[op] = store[op]

\* What a poll answers is true, now and after a restart: the two together.
RegistryIsTruthful == StatusFollowsTask /\ JournalFollowsStore

\* An operation that ends in error sent no transaction, so the client may try
\* again, with one exception: the idempotency entry could not be written.
\* Every failure after the transaction is turned into success = False by the
\* adapter (ostium_execution_adapter.py:293-309, 366-370).
ErrorMeansNothingSent ==
    \A op \in sent : store[op] = "error" \/ journal[op] = "error" =>
                       op \in unsaved

\* Within one life of the process a client_order_id sends at most one opening
\* transaction, however its retries interleave with the task
\* (order_open_service.py:98-113).
OneOrderPerKey ==
    \A a, b \in sentNow :
        /\ req[a].kind = "open" /\ req[b].kind = "open"
        /\ req[a].cid = req[b].cid /\ req[a].cid # NoId
        => a = b

\* Confirmed openings of one client_order_id that name a position name the
\* same one, across restarts (ostium_execution_adapter.py:259-274, 329-331).
ReplayNamesSamePosition ==
    \A a, b \in Ops :
        /\ req[a].kind = "open" /\ req[b].kind = "open"
        /\ req[a].cid = req[b].cid /\ req[a].cid # NoId
        /\ store[a] = "confirmed" /\ store[b] = "confirmed"
        /\ result[a] # NoPid /\ result[b] # NoPid
        => result[a] = result[b]

\* The ledger of operations a client sees: an operation is working while its
\* background task runs.
PhaseOf == [op \in Ops |-> IF task[op] = "idle" THEN "new"
                          ELSE IF task[op] \in Running THEN "working" ELSE "over"]

Ledger == INSTANCE OperationLedger WITH
    request <- req, answer <- store, kept <- journal, phase <- PhaseOf,
    acted <- sentNow, LossyDisk <- DiskFaults

\* The order services keep the promises of OperationLedger: with all their
\* awaits, retries, timers and restarts an operation is a record that is
\* accepted once, sends at most once and is settled once, whose error means
\* that nothing was sent, and whose opening key sends once in a life
\* (order_open_service.py:41-124, order_close_service.py:61-122).
LedgerKept == Ledger!Spec

\* Every accepted operation is eventually settled, unless the process dies: the
\* search of the trade is bounded (ostium_client.py:376-389), whatever the venue
\* does and whenever the handler resumes.
EveryOperationSettles ==
    \A op \in Ops : task[op] \in Running ~>
                      store[op] \in Settled \/ task[op] = "dead"

\* What the repository says and the code does not do; see the README.

\* "Si s'envia, retries retornen el mateix resultat sense segona TX."
CloseRetrySendsOnce ==
    \A a, b \in sentNow :
        /\ req[a].kind = "close" /\ req[b].kind = "close"
        /\ req[a].pid = req[b].pid
        /\ req[a].cid = req[b].cid /\ req[a].cid # NoId
        => a = b
=============================================================================
