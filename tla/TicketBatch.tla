----------------------------- MODULE TicketBatch -----------------------------
(***************************************************************************)
(* The batch tools ticket_batch_create, ticket_batch_update and            *)
(* ticket_batch_delete (mcp/tools/ticket_batch.py) over the helpers that   *)
(* run a blocking client call in a thread (core/async_utils.py).           *)
(*                                                                         *)
(* A batch runs a coroutine per item, all at once.  Each passes the link   *)
(* gate, waits for a slot of the one semaphore all batches share, and      *)
(* holds it while a thread makes the item's requests.  A coroutine that is *)
(* cancelled, because its caller cancelled the tool call, gives its slot   *)
(* back at once; the thread it started goes on.                            *)
(*                                                                         *)
(* A ticket is its change token; 0 when it does not exist.                 *)
(***************************************************************************)
EXTENDS Naturals, FiniteSets

CONSTANTS
    Batches,      \* calls of a batch tool, each made at most once
    Items,        \* their items, each a batch and a place in it
    Tickets,      \* the tickets the items may be of, twice the same included
    Kinds,        \* which batch tools are called
    MaxParallel,  \* max_parallel_requests
    MaxOthers,    \* bound: changes by anybody else
    Cancels       \* whether a call may be cancelled

ASSUME TicketBatchAssumption ==
    /\ Items \subseteq Batches \X Nat
    /\ IsFiniteSet(Items)
    /\ MaxParallel \in Nat \ {0}
    /\ Kinds \subseteq {"create", "update", "delete"}
    /\ MaxOthers \in Nat
    /\ Cancels \in BOOLEAN

VARIABLES
    token,    \* each ticket's change token
    others,   \* how many changes others made (bounded)
    slots,    \* the semaphore's value
    \* Per batch.
    kind,
    answer,   \* "none", "answered" or "cancelled"
    \* Per item.
    target,   \* its ticket
    pc,       \* where its coroutine is
    thread,   \* where its thread is
    minted,   \* the token its update sends
    srv,      \* where the server is with its write
    reply,
    result,   \* its entry in the answer
    effect    \* history: how often the server carried it out

serverVars == <<srv, reply, effect>>
vars == <<token, others, slots, kind, answer, target, pc, thread, minted,
          serverVars, result>>

TypeOK ==
    /\ token \in [Tickets -> Nat]
    /\ others \in Nat
    /\ slots \in 0 .. MaxParallel
    /\ kind \in [Batches -> Kinds \cup {"none"}]
    /\ answer \in [Batches -> {"none", "answered", "cancelled"}]
    /\ target \in [Items -> Tickets]
    /\ pc \in [Items -> {"idle", "gate", "wait", "running", "done",
                         "cancelled"}]
    /\ thread \in [Items -> {"none", "get", "sent", "ended"}]
    /\ minted \in [Items -> Nat]
    /\ srv \in [Items -> {"idle", "queued"}]
    /\ reply \in [Items -> {"none", "ok", "fault", "collision"}]
    /\ result \in [Items -> {"none", "ok", "refused", "error", "timeout"}]
    /\ effect \in [Items -> Nat]

Init ==
    /\ token = [t \in Tickets |-> 1]
    /\ others = 0
    /\ slots = MaxParallel
    /\ kind = [b \in Batches |-> "none"]
    /\ answer = [b \in Batches |-> "none"]
    /\ target \in [Items -> Tickets]
    /\ pc = [x \in Items |-> "idle"]
    /\ thread = [x \in Items |-> "none"]
    /\ minted = [x \in Items |-> 0]
    /\ srv = [x \in Items |-> "idle"]
    /\ reply = [x \in Items |-> "none"]
    /\ result = [x \in Items |-> "none"]
    /\ effect = [x \in Items |-> 0]

Kind(x)   == kind[x[1]]
ItemsOf(b) == {x \in Items : x[1] = b}

OtherUpdate(t) ==
    /\ others < MaxOthers
    /\ token[t] # 0
    /\ token' = [token EXCEPT ![t] = @ + 1]
    /\ others' = others + 1
    /\ UNCHANGED <<slots, kind, answer, target, pc, thread, minted, serverVars,
                   result>>

(***************************************************************************)
(* A call.                                                                 *)
(***************************************************************************)

\* gather_limited starts every item's coroutine; a delete has no gate.
Begin(b) ==
    /\ kind[b] = "none"
    /\ \E k \in Kinds :
        /\ kind' = [kind EXCEPT ![b] = k]
        /\ pc' = [x \in Items |->
                     IF x[1] # b THEN pc[x]
                     ELSE IF k = "delete" THEN "wait" ELSE "gate"]
    /\ UNCHANGED <<token, others, slots, answer, target, thread, minted,
                   serverVars, result>>

\* The answer has an entry for every item, once every coroutine has ended.
Respond(b) ==
    /\ kind[b] # "none"
    /\ answer[b] = "none"
    /\ \A x \in ItemsOf(b) : pc[x] = "done"
    /\ answer' = [answer EXCEPT ![b] = "answered"]
    /\ UNCHANGED <<token, others, slots, kind, target, pc, thread, minted,
                   serverVars, result>>

\* The slots a cancelled or finished coroutine held, n of them.
LeakSlots(n) == UNCHANGED slots                               \* faulty
Free(n) == slots' = slots + n

Cancel(b) ==
    /\ Cancels
    /\ kind[b] # "none"
    /\ answer[b] = "none"
    /\ answer' = [answer EXCEPT ![b] = "cancelled"]
    /\ pc' = [x \in Items |-> IF x[1] = b /\ pc[x] # "done"
                              THEN "cancelled" ELSE pc[x]]
    /\ Free(Cardinality({x \in ItemsOf(b) : pc[x] = "running"}))
    /\ UNCHANGED <<token, others, kind, target, thread, minted, serverVars,
                   result>>

(***************************************************************************)
(* An item's coroutine.                                                    *)
(***************************************************************************)

\* check_write, in a thread that takes no slot: a refused item is that
\* item's error and no other's.
Gate(x) ==
    /\ pc[x] = "gate"
    /\ \/ /\ pc' = [pc EXCEPT ![x] = "done"]
          /\ result' = [result EXCEPT ![x] = "refused"]
       \/ /\ pc' = [pc EXCEPT ![x] = "wait"]
          /\ UNCHANGED result
    /\ UNCHANGED <<token, others, slots, kind, answer, target, thread, minted,
                   serverVars>>

\* run_sync_limited: a slot, then the thread, which sends a create or a
\* delete at once and reads the ticket first for an update.
Acquire(x) ==
    /\ pc[x] = "wait"
    /\ slots > 0
    /\ slots' = slots - 1
    /\ pc' = [pc EXCEPT ![x] = "running"]
    /\ IF Kind(x) = "update"
       THEN /\ thread' = [thread EXCEPT ![x] = "get"]
            /\ UNCHANGED srv
       ELSE /\ thread' = [thread EXCEPT ![x] = "sent"]
            /\ srv' = [srv EXCEPT ![x] = "queued"]
    /\ UNCHANGED <<token, others, kind, answer, target, minted, reply, effect,
                   result>>

\* The thread ends; a coroutine that still waits for it is done.
End(x, outcome) ==
    /\ thread' = [thread EXCEPT ![x] = "ended"]
    /\ IF pc[x] = "running"
       THEN /\ pc' = [pc EXCEPT ![x] = "done"]
            /\ result' = [result EXCEPT ![x] = outcome]
            /\ Free(1)
       ELSE UNCHANGED <<pc, result, slots>>

(***************************************************************************)
(* An item's thread: update_ticket, delete_ticket, create_ticket.          *)
(***************************************************************************)

\* No base_ts: ticket.get mints the token the update will send, unless the
\* ticket is gone or the request fails.
NoToken(x) == 0                                               \* faulty
FreshToken(x) == token[target[x]]

Mint(x) ==
    /\ thread[x] = "get"
    /\ \/ /\ token[target[x]] # 0
          /\ minted' = [minted EXCEPT ![x] = FreshToken(x)]
          /\ thread' = [thread EXCEPT ![x] = "sent"]
          /\ srv' = [srv EXCEPT ![x] = "queued"]
          /\ UNCHANGED <<pc, result, slots>>
       \/ End(x, "error") /\ UNCHANGED <<minted, srv>>
    /\ UNCHANGED <<token, others, kind, answer, target, reply, effect>>

\* The server refuses, or carries the write out.
Answer(x, status) ==
    /\ srv' = [srv EXCEPT ![x] = "idle"]
    /\ reply' = [reply EXCEPT ![x] = status]

CarryOut(x) ==
    /\ effect' = [effect EXCEPT ![x] = @ + 1]
    /\ Answer(x, "ok")

Refuse(x, status) ==
    /\ Answer(x, status)
    /\ UNCHANGED <<token, effect>>

NeverCollides(x) == FALSE                                     \* faulty
Collides(x) == minted[x] # token[target[x]]

ServeUpdate(x) ==
    /\ srv[x] = "queued"
    /\ Kind(x) = "update"
    /\ \/ /\ token[target[x]] # 0
          /\ ~Collides(x)
          /\ token' = [token EXCEPT ![target[x]] = @ + 1]
          /\ CarryOut(x)
       \/ token[target[x]] # 0 /\ Collides(x) /\ Refuse(x, "collision")
       \/ Refuse(x, "fault")
    /\ UNCHANGED <<others, slots, kind, answer, target, pc, thread, minted,
                   result>>

ServeDelete(x) ==
    /\ srv[x] = "queued"
    /\ Kind(x) = "delete"
    /\ \/ /\ token[target[x]] # 0
          /\ token' = [token EXCEPT ![target[x]] = 0]
          /\ CarryOut(x)
       \/ Refuse(x, "fault")
    /\ UNCHANGED <<others, slots, kind, answer, target, pc, thread, minted,
                   result>>

ServeCreate(x) ==
    /\ srv[x] = "queued"
    /\ Kind(x) = "create"
    /\ \/ CarryOut(x) /\ UNCHANGED token
       \/ Refuse(x, "fault")
    /\ UNCHANGED <<others, slots, kind, answer, target, pc, thread, minted,
                   result>>

\* Any answer but a fault is a success, and a fault is the item's error.
RawOutcome(status) == status                                  \* faulty
TakesAnswerAsOk(status) == "ok"                               \* faulty
Outcome(status) == IF status = "ok" THEN "ok" ELSE "error"

Receive(x) ==
    /\ thread[x] = "sent"
    /\ reply[x] # "none"
    /\ End(x, Outcome(reply[x]))
    /\ UNCHANGED <<token, others, kind, answer, target, minted, serverVars>>

\* The read timeout.  (create_ticket then looks for the ticket it may have
\* made, TicketCreate: reads only, and an error either way.)
TimeOut(x) ==
    /\ thread[x] = "sent"
    /\ End(x, "timeout")
    /\ UNCHANGED <<token, others, kind, answer, target, minted, serverVars>>

-----------------------------------------------------------------------------

Coroutine(x) == Gate(x) \/ Acquire(x)
Thread(x)    == Mint(x) \/ Receive(x) \/ TimeOut(x)
Server(x)    == ServeUpdate(x) \/ ServeDelete(x) \/ ServeCreate(x)

Next ==
    \/ \E b \in Batches : Begin(b) \/ Respond(b) \/ Cancel(b)
    \/ \E x \in Items : Coroutine(x) \/ Thread(x) \/ Server(x)
    \/ \E t \in Tickets : OtherUpdate(t)

\* Threads run and their requests have read timeouts; the event loop runs
\* what is ready, and the semaphore wakes a waiter when a slot is free.
Fairness ==
    /\ \A b \in Batches : WF_vars(Respond(b))
    /\ \A x \in Items : WF_vars(Coroutine(x)) /\ WF_vars(Thread(x))

Spec == Init /\ [][Next]_vars /\ Fairness

-----------------------------------------------------------------------------

\* However coroutines end, by an answer, an error or a cancellation, every
\* slot is either free or held by a coroutine that runs.
SlotsAreConserved ==
    slots + Cardinality({x \in Items : pc[x] = "running"}) = MaxParallel

\* An answer is true item by item: what it counts as succeeded was carried
\* out, what it counts as failed was not, unless the item's request timed
\* out; and nothing is carried out twice, cancelled calls included.
AnswersAreTrue ==
    \A x \in Items :
        /\ effect[x] <= 1
        /\ result[x] = "ok" => effect[x] = 1
        /\ result[x] \in {"refused", "error"} => effect[x] = 0

\* Items of one ticket, in one batch or in several, do not overwrite each
\* other unseen: of the updates that were carried out, no two were based on
\* the same state of the ticket.
UpdatesAreBasedApart ==
    \A x, y \in Items :
        /\ x # y /\ target[x] = target[y]
        /\ Kind(x) = "update" /\ effect[x] = 1
        /\ Kind(y) = "update" /\ effect[y] = 1
        => minted[x] # minted[y]

\* An update fails as a collision only if another update of the ticket was
\* carried out on the state it had read or a later one, so after it read it,
\* or if anybody else changed a ticket: colliding items never all lose.
CollisionsHaveWinners ==
    \A x \in Items :
        reply[x] = "collision" =>
            \/ others > 0
            \/ \E y \in Items \ {x} :
                  /\ target[y] = target[x] /\ Kind(y) = "update"
                  /\ effect[y] = 1 /\ minted[y] >= minted[x]

\* Every batch is answered unless it is cancelled: no item that fails, and
\* no cancelled call of another batch, leaves a slot behind.
EveryBatchIsAnswered ==
    \A b \in Batches : kind[b] # "none" ~> answer[b] # "none"

=============================================================================
