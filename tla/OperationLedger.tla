--------------------------- MODULE OperationLedger ---------------------------
(***************************************************************************)
(* What a client is promised about an operation it was given an id for,    *)
(* without awaits, caches or a venue.  An operation is accepted once, may  *)
(* send one transaction and is settled once; until then every answer says  *)
(* that it is under way.  "error" says that nothing was sent, unless the   *)
(* disk fails.  One opening key sends once in a life of the service, and   *)
(* after a crash the answer is what was kept of it on disk.                *)
(***************************************************************************)
EXTENDS Naturals

CONSTANTS
    Ops, Requests, NoRequest, NoId,
    LossyDisk        \* BOOLEAN: what is written may fail to be kept

VARIABLES
    request,  \* operation -> what the client asked for
    answer,   \* operation -> what a poll is told
    kept,     \* operation -> what is on disk
    phase,    \* operation -> "new", "working" or "over"
    sent,     \* the operations that sent a transaction, ever
    acted     \* the same, in this life of the service

ledgerVars == <<request, answer, kept, phase, sent, acted>>

Init ==
    /\ request = [op \in Ops |-> NoRequest]
    /\ answer = [op \in Ops |-> "absent"]
    /\ kept = [op \in Ops |-> "absent"]
    /\ phase = [op \in Ops |-> "new"]
    /\ sent = {} /\ acted = {}

\* The answer changes, and with it what is kept, unless the disk fails.
Answer(op, status) ==
    /\ answer' = [answer EXCEPT ![op] = status]
    /\ \/ kept' = [kept EXCEPT ![op] = status]
       \/ LossyDisk /\ kept' = kept

Accept(op, r) ==
    /\ phase' = [phase EXCEPT ![op] = "working"]
    /\ request' = [request EXCEPT ![op] = r]
    /\ Answer(op, "in_progress")
    /\ UNCHANGED <<sent, acted>>

Pend(op) ==
    /\ Answer(op, "pending")
    /\ UNCHANGED <<request, phase, sent, acted>>

SameKey(a, b) ==
    /\ request[a].kind = "open" /\ request[b].kind = "open"
    /\ request[a].cid = request[b].cid /\ request[a].cid # NoId

Send(op) ==
    /\ op \notin sent
    /\ sent' = sent \cup {op}
    /\ \A other \in acted : ~SameKey(op, other)
    /\ acted' = acted \cup {op}
    /\ UNCHANGED <<request, answer, kept, phase>>

Settle(op, status) ==
    /\ Answer(op, status)
    /\ status = "error" => op \notin sent \/ LossyDisk
    /\ phase' = [phase EXCEPT ![op] = "over"]
    /\ UNCHANGED <<request, sent, acted>>

Operation(op) ==
    \/ /\ phase[op] = "new"
       /\ \E r \in Requests : Accept(op, r)
    \/ /\ phase[op] = "working"
       /\ \/ Pend(op) \/ Send(op)
          \/ \E status \in {"confirmed", "error"} : Settle(op, status)

\* Nobody goes on with what was under way.
Crash ==
    /\ acted' = {}
    /\ answer' = kept
    /\ UNCHANGED <<request, kept, sent>>
    /\ phase' = [op \in Ops |-> IF phase[op] = "new" THEN "new" ELSE "over"]

Next == Crash \/ \E op \in Ops : Operation(op)

Spec == Init /\ [][Next]_ledgerVars
=============================================================================
