-------------------------- MODULE TicketBatchProofs --------------------------
(***************************************************************************)
(* Proofs about TicketBatch, for any number of batches, items, tickets and *)
(* slots, whichever calls are cancelled.                                   *)
(***************************************************************************)
EXTENDS TicketBatch, FiniteSetTheorems, TLAPS

Running == {x \in Items : pc[x] = "running"}

(***************************************************************************)
(* What a coroutine, its thread and the server know of one item: the       *)
(* strengthening of AnswersAreTrue.  A thread comes after the slot, a      *)
(* request after the thread, an effect after the request, an answer after  *)
(* the effect, and nothing is left behind an error.                        *)
(***************************************************************************)
ItemAgrees(x) ==
    /\ kind[x[1]] = "none" => pc[x] = "idle"
    /\ pc[x] \in {"idle", "gate", "wait"}
            => thread[x] = "none" /\ result[x] = "none"
    /\ thread[x] \in {"none", "get"}
            => srv[x] = "idle" /\ reply[x] = "none" /\ effect[x] = 0
    /\ srv[x] = "queued" => reply[x] = "none" /\ effect[x] = 0
    /\ effect[x] = IF reply[x] = "ok" THEN 1 ELSE 0
    /\ result[x] # "none" => pc[x] = "done" /\ thread[x] \in {"none", "ended"}
    /\ result[x] = "ok" => reply[x] = "ok"
    /\ result[x] \in {"refused", "error"}
            => srv[x] = "idle" /\ effect[x] = 0

ItemsAgree == \A x \in Items : ItemAgrees(x)

Batched == TypeOK /\ SlotsAreConserved /\ ItemsAgree

\* What the assumptions on the constants give.
LEMMA ItemFacts ==
    /\ \A x \in Items : x[1] \in Batches
    /\ IsFiniteSet(Running)
    /\ MaxParallel \in Nat \ {0}
    /\ "none" \notin Kinds
<1>1. \A x \in Items : x[1] \in Batches
  BY TicketBatchAssumption
<1>2. IsFiniteSet(Running)
  <2>1. Running \in SUBSET Items
    BY DEF Running
  <2> QED BY <2>1, FS_Subset, TicketBatchAssumption
<1> QED BY <1>1, <1>2, TicketBatchAssumption

\* A coroutine that stops running gives its slot back.
LEMMA OneStops ==
    ASSUME NEW x \in Running, Running' = Running \ {x}, slots \in Nat,
           SlotsAreConserved, slots' = slots + 1
    PROVE  SlotsAreConserved' /\ slots' \in 0 .. MaxParallel
<1>1. Cardinality(Running') = Cardinality(Running) - 1
  BY ItemFacts, FS_RemoveElement
<1>2. /\ Cardinality(Running) \in Nat
      /\ Cardinality(Running) # 0
  BY ItemFacts, FS_CardinalityType, FS_EmptySet
<1> QED BY <1>1, <1>2, ItemFacts DEF SlotsAreConserved, Running

\* A coroutine that starts to run takes one.
LEMMA OneStarts ==
    ASSUME NEW x, x \notin Running, Running' = Running \cup {x},
           slots \in Nat, slots > 0,
           SlotsAreConserved, slots' = slots - 1
    PROVE  SlotsAreConserved' /\ slots' \in 0 .. MaxParallel
<1>1. Cardinality(Running') = Cardinality(Running) + 1
  BY ItemFacts, FS_AddElement
<1>2. Cardinality(Running) \in Nat
  BY ItemFacts, FS_CardinalityType
<1> QED BY <1>1, <1>2, ItemFacts DEF SlotsAreConserved, Running

\* A cancelled batch gives back the slots of all its coroutines that run.
LEMMA SomeStop ==
    ASSUME NEW S, S \subseteq Running, Running' = Running \ S,
           slots \in Nat, SlotsAreConserved, slots' = slots + Cardinality(S)
    PROVE  SlotsAreConserved' /\ slots' \in 0 .. MaxParallel
<1>1. Running \cap S = S
  OBVIOUS
<1>2. Cardinality(Running') = Cardinality(Running) - Cardinality(S)
  BY <1>1, ItemFacts, FS_Difference
<1>3. /\ Cardinality(Running) \in Nat
      /\ Cardinality(S) \in Nat
      /\ Cardinality(S) <= Cardinality(Running)
  BY ItemFacts, FS_CardinalityType, FS_Subset
<1> QED BY <1>2, <1>3, ItemFacts DEF SlotsAreConserved, Running

\* The end of a thread stops its coroutine, or nothing does.
LEMMA EndConserves ==
    ASSUME Batched, NEW x \in Items, NEW outcome, End(x, outcome)
    PROVE  SlotsAreConserved' /\ slots' \in 0 .. MaxParallel
<1>1. CASE pc[x] = "running"
  <2>1. Running' = Running \ {x} /\ x \in Running /\ slots' = slots + 1
    BY <1>1 DEF End, Free, Running, Batched, TypeOK
  <2> QED BY <2>1, OneStops DEF Batched, TypeOK
<1>2. CASE pc[x] # "running"
  BY <1>2 DEF End, Batched, TypeOK, SlotsAreConserved
<1> QED BY <1>1, <1>2

\* No step loses a slot or makes one up.
LEMMA StepConserves ==
    ASSUME Batched, [Next]_vars
    PROVE  SlotsAreConserved' /\ slots' \in 0 .. MaxParallel
<1> USE DEF Batched, TypeOK
<1>0. CASE slots' = slots /\ Running' = Running
  BY <1>0 DEF SlotsAreConserved, Running
<1>1. ASSUME NEW b \in Batches, Begin(b)
      PROVE  slots' = slots /\ Running' = Running
  <2>1. \A x \in Items : pc'[x] = "running" <=> pc[x] = "running"
    BY <1>1 DEF Begin, ItemsAgree, ItemAgrees
  <2> QED BY <1>1, <2>1 DEF Begin, Running
<1>2. ASSUME NEW b \in Batches, Cancel(b)
      PROVE  SlotsAreConserved' /\ slots' \in 0 .. MaxParallel
  <2> DEFINE S == {x \in ItemsOf(b) : pc[x] = "running"}
  <2>1. Running' = Running \ S /\ S \subseteq Running
    BY <1>2 DEF Cancel, Running, ItemsOf
  <2>2. slots' = slots + Cardinality(S)
    BY <1>2 DEF Cancel, Free
  <2> QED BY <2>1, <2>2, SomeStop
<1>3. ASSUME NEW x \in Items, Acquire(x)
      PROVE  SlotsAreConserved' /\ slots' \in 0 .. MaxParallel
  <2>1. Running' = Running \cup {x} /\ x \notin Running
    BY <1>3 DEF Acquire, Running
  <2>2. slots > 0 /\ slots' = slots - 1
    BY <1>3 DEF Acquire
  <2> QED BY <2>1, <2>2, OneStarts
<1>4. ASSUME NEW x \in Items, Gate(x)
      PROVE  slots' = slots /\ Running' = Running
  BY <1>4 DEF Gate, Running
<1>5. ASSUME NEW x \in Items, Thread(x)
      PROVE  \/ SlotsAreConserved' /\ slots' \in 0 .. MaxParallel
             \/ UNCHANGED <<slots, pc>>
  BY <1>5, EndConserves DEF Thread, Mint, Receive, TimeOut
<1>6. ASSUME NEW x \in Items, Server(x) PROVE UNCHANGED <<slots, pc>>
  BY <1>6 DEF Server, ServeUpdate, ServeDelete, ServeCreate
<1>7. ASSUME UNCHANGED <<slots, pc>>
      PROVE  slots' = slots /\ Running' = Running
  BY <1>7 DEF Running
<1>8. CASE \E b \in Batches : Respond(b)
  BY <1>0, <1>7, <1>8 DEF Respond
<1>9. CASE \E t \in Tickets : OtherUpdate(t)
  BY <1>0, <1>7, <1>9 DEF OtherUpdate
<1>10. CASE UNCHANGED vars
  BY <1>0, <1>7, <1>10 DEF vars
<1> QED BY <1>0, <1>1, <1>2, <1>3, <1>4, <1>5, <1>6, <1>7, <1>8, <1>9, <1>10
        DEF Next, Coroutine

\* The variables keep their types, the semaphore within 0 .. MaxParallel.
LEMMA StepKeepsTypes ==
    ASSUME Batched, [Next]_vars, slots' \in 0 .. MaxParallel
    PROVE  TypeOK'
<1> USE TicketBatchAssumption
    DEF Batched, TypeOK, serverVars
<1>1. ASSUME NEW b \in Batches, Begin(b) \/ Respond(b) \/ Cancel(b)
      PROVE  TypeOK'
  <2>1. CASE Begin(b)
    <3>1. kind' \in [Batches -> Kinds \cup {"none"}]
      BY <2>1 DEF Begin
    <3>2. pc' \in [Items -> {"idle", "gate", "wait", "running", "done",
                             "cancelled"}]
      BY <2>1 DEF Begin
    <3> QED BY <2>1, <3>1, <3>2 DEF Begin
  <2>2. CASE Respond(b)  BY <2>2 DEF Respond
  <2>3. CASE Cancel(b)
    <3>1. pc' \in [Items -> {"idle", "gate", "wait", "running", "done",
                             "cancelled"}]
      BY <2>3 DEF Cancel
    <3> QED BY <2>3, <3>1 DEF Cancel
  <2> QED BY <1>1, <2>1, <2>2, <2>3
<1>2. ASSUME NEW x \in Items, Coroutine(x) PROVE TypeOK'
  <2>1. CASE Gate(x)     BY <2>1 DEF Gate
  <2>2. CASE Acquire(x)  BY <2>2 DEF Acquire
  <2> QED BY <1>2, <2>1, <2>2 DEF Coroutine
<1>3. ASSUME NEW x \in Items, Thread(x) PROVE TypeOK'
  <2>1. CASE Mint(x)
    <3>1. minted' \in [Items -> Nat]
      BY <2>1 DEF Mint, FreshToken
    <3>2. /\ pc' \in [Items -> {"idle", "gate", "wait", "running", "done",
                               "cancelled"}]
          /\ thread' \in [Items -> {"none", "get", "sent", "ended"}]
          /\ srv' \in [Items -> {"idle", "queued"}]
          /\ result' \in [Items -> {"none", "ok", "refused", "error",
                                    "timeout"}]
      <4>1. CASE End(x, "error") /\ UNCHANGED srv
        BY <4>1 DEF End
      <4>2. CASE /\ thread' = [thread EXCEPT ![x] = "sent"]
                 /\ srv' = [srv EXCEPT ![x] = "queued"]
                 /\ UNCHANGED <<pc, result>>
        BY <4>2
      <4> QED BY <2>1, <4>1, <4>2 DEF Mint
    <3> QED BY <2>1, <3>1, <3>2 DEF Mint
  <2>2. CASE Receive(x)
    BY <2>2 DEF Receive, End, Outcome
  <2>3. CASE TimeOut(x)
    BY <2>3 DEF TimeOut, End
  <2> QED BY <1>3, <2>1, <2>2, <2>3 DEF Thread
<1>4. ASSUME NEW x \in Items, Server(x) PROVE TypeOK'
  <2>1. \/ UNCHANGED token
        \/ token' = [token EXCEPT ![target[x]] = @ + 1]
        \/ token' = [token EXCEPT ![target[x]] = 0]
    BY <1>4 DEF Server, ServeUpdate, ServeDelete, ServeCreate, Refuse
  <2>2. \/ UNCHANGED effect
        \/ effect' = [effect EXCEPT ![x] = @ + 1]
    BY <1>4 DEF Server, ServeUpdate, ServeDelete, ServeCreate, CarryOut,
                Refuse
  <2>3. token' \in [Tickets -> Nat] /\ effect' \in [Items -> Nat]
    BY <2>1, <2>2
  <2>4. \E status \in {"ok", "fault", "collision"} : Answer(x, status)
    BY <1>4 DEF Server, ServeUpdate, ServeDelete, ServeCreate, CarryOut,
                Refuse
  <2>5. UNCHANGED <<others, slots, kind, answer, target, pc, thread, minted,
                    result>>
    BY <1>4 DEF Server, ServeUpdate, ServeDelete, ServeCreate
  <2> QED BY <2>3, <2>4, <2>5 DEF Answer
<1>5. ASSUME NEW t \in Tickets, OtherUpdate(t) PROVE TypeOK'
  BY <1>5 DEF OtherUpdate
<1>6. CASE UNCHANGED vars
  BY <1>6 DEF vars
<1> QED BY <1>1, <1>2, <1>3, <1>4, <1>5, <1>6 DEF Next

\* No step leaves an item's coroutine, thread and request at odds.
LEMMA StepKeepsAgreement ==
    ASSUME Batched, [Next]_vars
    PROVE  ItemsAgree'
<1> USE ItemFacts DEF Batched, TypeOK, serverVars, ItemsAgree, ItemAgrees
<1>1. ASSUME NEW b \in Batches, Begin(b) PROVE ItemsAgree'
  BY <1>1 DEF Begin
<1>2. ASSUME NEW b \in Batches, Respond(b) \/ Cancel(b) PROVE ItemsAgree'
  BY <1>2 DEF Respond, Cancel
<1>3. ASSUME NEW x \in Items, Coroutine(x) PROVE ItemsAgree'
  BY <1>3 DEF Coroutine, Gate, Acquire
<1>4. ASSUME NEW x \in Items, Thread(x) PROVE ItemsAgree'
  <2>1. CASE Mint(x)     BY <2>1 DEF Mint, End
  <2>2. CASE Receive(x)  BY <2>2 DEF Receive, End, Outcome
  <2>3. CASE TimeOut(x)  BY <2>3 DEF TimeOut, End
  <2> QED BY <1>4, <2>1, <2>2, <2>3 DEF Thread
<1>5. ASSUME NEW x \in Items, Server(x) PROVE ItemsAgree'
  BY <1>5 DEF Server, ServeUpdate, ServeDelete, ServeCreate, CarryOut, Refuse,
              Answer
<1>6. ASSUME NEW t \in Tickets, OtherUpdate(t) PROVE ItemsAgree'
  BY <1>6 DEF OtherUpdate
<1>7. CASE UNCHANGED vars
  BY <1>7 DEF vars
<1> QED BY <1>1, <1>2, <1>3, <1>4, <1>5, <1>6, <1>7 DEF Next

\* Types, slots and the agreement of every item's coroutine, thread and
\* request hold together.
THEOREM BatchesHold == Spec => []Batched
<1>1. Init => Batched
  <2> SUFFICES ASSUME Init PROVE Batched
    OBVIOUS
  <2>1. Running = {}
    BY DEF Init, Running
  <2>2. SlotsAreConserved
    BY <2>1, FS_EmptySet, ItemFacts DEF Init, SlotsAreConserved, Running
  <2>3. TypeOK
    BY ItemFacts DEF Init, TypeOK
  <2>4. ItemsAgree
    BY ItemFacts DEF Init, ItemsAgree, ItemAgrees
  <2> QED BY <2>2, <2>3, <2>4 DEF Batched
<1>2. Batched /\ [Next]_vars => Batched'
  BY StepConserves, StepKeepsTypes, StepKeepsAgreement DEF Batched
<1> QED BY <1>1, <1>2, PTL DEF Spec

\* The types, the semaphore's bounds among them.
THEOREM TypeCorrect == Spec => []TypeOK
BY BatchesHold, PTL DEF Batched

\* No slot is lost or made up, however items end and calls are cancelled.
THEOREM SlotsConserved == Spec => []SlotsAreConserved
BY BatchesHold, PTL DEF Batched

\* Every entry of every answer is true.
THEOREM AnswersTrue == Spec => []AnswersAreTrue
<1>1. Batched => AnswersAreTrue
  BY DEF Batched, TypeOK, ItemsAgree, ItemAgrees, AnswersAreTrue
<1> QED BY <1>1, BatchesHold, PTL

-----------------------------------------------------------------------------

\* A write other than x's own has moved x's ticket on from where x read it.
Moved(x) ==
    \/ others > 0
    \/ \E y \in Items \ {x} :
          /\ target[y] = target[x] /\ Kind(y) = "update"
          /\ effect[y] = 1 /\ minted[y] >= minted[x]

(***************************************************************************)
(* A ticket's token only goes up, until the ticket is gone for good: it is *)
(* above the token of every update that was carried out, and at the token  *)
(* of an update still on its way unless some other write came first.       *)
(***************************************************************************)
TokenAgrees(x) ==
    /\ Kind(x) = "update" =>
        /\ effect[x] = 1 => \/ token[target[x]] = 0
                            \/ minted[x] < token[target[x]]
        /\ srv[x] = "queued" =>
              Moved(x) \/ minted[x] = token[target[x]] \/ token[target[x]] = 0
    /\ reply[x] = "collision" => Moved(x)

TokensAgree == \A x \in Items : TokenAgrees(x)

\* What has moved a ticket stays so.
LEMMA MovedStays ==
    ASSUME Batched, NEW x \in Items, Moved(x), UNCHANGED <<target, kind, minted>>,
           others > 0 => others' > 0,
           \A y \in Items : effect[y] = 1 => effect'[y] = 1
    PROVE  Moved(x)'
BY DEF Moved, Kind

\* No step breaks the order of a ticket's tokens.
LEMMA StepKeepsTokens ==
    ASSUME Batched, Batched', TokensAgree, [Next]_vars
    PROVE  TokensAgree'
<1> USE DEF Batched, TypeOK
<1>1. ASSUME NEW b \in Batches, Begin(b) PROVE TokensAgree'
  <2>1. UNCHANGED <<token, others, target, minted, serverVars>>
    BY <1>1 DEF Begin
  <2>2. ASSUME NEW x \in Items, x[1] # b PROVE TokenAgrees(x)'
    <3>1. Kind(x)' = Kind(x)
      BY <1>1, <2>2, ItemFacts DEF Begin, Kind
    <3>2. \A y \in Items : effect[y] = 1 => Kind(y)' = Kind(y)
      BY <1>1, ItemFacts DEF Begin, Kind, ItemsAgree, ItemAgrees
    <3>3. Moved(x) => Moved(x)'
      BY <2>1, <3>2 DEF Moved, serverVars
    <3> QED BY <2>1, <3>1, <3>3 DEF TokensAgree, TokenAgrees, serverVars
  <2>3. ASSUME NEW x \in Items, x[1] = b PROVE TokenAgrees(x)'
    <3>1. srv[x] = "idle" /\ reply[x] = "none" /\ effect[x] = 0
      BY <1>1, <2>3 DEF Begin, ItemsAgree, ItemAgrees
    <3> QED BY <2>1, <3>1 DEF TokenAgrees, serverVars
  <2> QED BY <2>2, <2>3 DEF TokensAgree
<1>2. ASSUME NEW t \in Tickets, OtherUpdate(t) PROVE TokensAgree'
  <2>1. /\ token' = [token EXCEPT ![t] = @ + 1]
        /\ token[t] # 0
        /\ others' = others + 1
        /\ UNCHANGED <<kind, target, minted, serverVars>>
    BY <1>2 DEF OtherUpdate
  <2> SUFFICES ASSUME NEW x \in Items PROVE TokenAgrees(x)'
    BY DEF TokensAgree
  <2>2. Moved(x)'
    BY <2>1 DEF Moved
  <2>3. /\ token'[target[x]] = 0 <=> token[target[x]] = 0
        /\ token'[target[x]] >= token[target[x]]
    BY <2>1
  <2>4. TokenAgrees(x)
    BY DEF TokensAgree
  <2>5. minted[x] \in Nat /\ token[target[x]] \in Nat /\ token'[target[x]] \in Nat
    OBVIOUS
  <2> QED BY <2>1, <2>2, <2>3, <2>4, <2>5 DEF TokenAgrees, Kind, serverVars
<1>3. ASSUME NEW x \in Items, Mint(x) PROVE TokensAgree'
  <2>1. UNCHANGED <<token, others, kind, target, reply, effect>>
    BY <1>3 DEF Mint
  <2>2. effect[x] = 0 /\ reply[x] = "none"
    BY <1>3 DEF Mint, ItemsAgree, ItemAgrees
  <2>3. srv'[x] = "queued" => minted'[x] = token[target[x]]
    BY <1>3 DEF Mint, FreshToken, ItemsAgree, ItemAgrees
  <2>4. \A y \in Items \ {x} : srv'[y] = srv[y] /\ minted'[y] = minted[y]
    BY <1>3 DEF Mint, FreshToken
  <2> QED BY <2>1, <2>2, <2>3, <2>4
          DEF TokensAgree, TokenAgrees, Moved, Kind
<1>4. ASSUME NEW x \in Items, Acquire(x) PROVE TokensAgree'
  <2>1. UNCHANGED <<token, others, kind, target, minted, reply, effect>>
    BY <1>4 DEF Acquire
  <2>2. Kind(x) = "update" => srv' = srv
    BY <1>4 DEF Acquire
  <2>3. \A y \in Items \ {x} : srv'[y] = srv[y]
    BY <1>4 DEF Acquire
  <2> QED BY <2>1, <2>2, <2>3 DEF TokensAgree, TokenAgrees, Moved, Kind
<1>5. ASSUME NEW x \in Items, Server(x) PROVE TokensAgree'
  <2>1. /\ UNCHANGED <<others, kind, target, minted>>
        /\ srv[x] = "queued" /\ srv' = [srv EXCEPT ![x] = "idle"]
    BY <1>5 DEF Server, ServeUpdate, ServeDelete, ServeCreate, CarryOut,
                Refuse, Answer
  <2>2. CASE UNCHANGED <<token, effect>>
    <3>1. \A y \in Items : reply'[y] = "collision" =>
             \/ reply[y] = "collision"
             \/ /\ y = x /\ Kind(x) = "update" /\ token[target[x]] # 0
                /\ minted[x] # token[target[x]]
      BY <1>5 DEF Server, ServeUpdate, ServeDelete, ServeCreate, CarryOut,
                  Refuse, Answer, Collides
    <3>2. \A y \in Items : srv'[y] = "queued" => srv[y] = "queued"
      BY <2>1
    <3> QED BY <2>1, <2>2, <3>1, <3>2
            DEF TokensAgree, TokenAgrees, Moved, Kind
  <2>3. CASE effect' = [effect EXCEPT ![x] = @ + 1]
    <3>1. reply' = [reply EXCEPT ![x] = "ok"]
      BY <1>5, <2>3 DEF Server, ServeUpdate, ServeDelete, ServeCreate,
                        CarryOut, Refuse, Answer
    <3>2. \/ /\ token' = [token EXCEPT ![target[x]] = @ + 1]
             /\ token[target[x]] # 0
             /\ minted[x] = token[target[x]] /\ Kind(x) = "update"
          \/ token' = [token EXCEPT ![target[x]] = 0] /\ Kind(x) # "update"
          \/ token' = token /\ Kind(x) # "update"
      BY <1>5, <2>3 DEF Server, ServeUpdate, ServeDelete, ServeCreate,
                        CarryOut, Refuse, Answer, Collides
    <3>3. effect[x] = 0 /\ effect'[x] = 1
      BY <2>1, <2>3 DEF ItemsAgree, ItemAgrees
    <3>4. TokenAgrees(x)'
      <4>1. srv'[x] = "idle" /\ reply'[x] = "ok"
        BY <2>1, <3>1
      <4>2. Kind(x)' = "update" => minted'[x] < token'[target'[x]]
        <5>1. Kind(x)' = Kind(x) /\ target' = target /\ minted' = minted
          BY <2>1 DEF Kind
        <5>2. token[target[x]] \in Nat
          OBVIOUS
        <5> QED BY <3>2, <5>1, <5>2
      <4> QED BY <4>1, <4>2 DEF TokenAgrees
    <3>5. ASSUME NEW y \in Items, y # x PROVE TokenAgrees(y)'
      <4>1. /\ srv'[y] = srv[y] /\ reply'[y] = reply[y]
            /\ effect'[y] = effect[y]
            /\ Kind(y)' = Kind(y) /\ target' = target /\ minted' = minted
        BY <2>1, <2>3, <3>1, <3>5 DEF Kind
      <4>2. TokenAgrees(y)
        BY DEF TokensAgree
      <4>3. Moved(y) => Moved(y)'
        <5>1. \A z \in Items : effect[z] = 1 => effect'[z] = 1
          BY <2>3, <3>3
        <5>2. others > 0 => others' > 0
          BY <2>1
        <5> QED BY <2>1, <5>1, <5>2, MovedStays
      <4>4. CASE target[y] = target[x]
        <5>1. minted[y] = token[target[y]] =>
                 \/ Moved(y)' \/ token'[target[y]] = 0
                 \/ minted[y] = token'[target[y]]
          <6>1. CASE Kind(x) = "update" /\ minted[x] = token[target[x]]
            <7>1. token[target[y]] \in Nat /\ Kind(x)' = "update"
              BY <2>1, <6>1 DEF Kind
            <7> QED BY <2>1, <3>3, <3>5, <4>4, <6>1, <7>1 DEF Moved
          <6>2. CASE token' = [token EXCEPT ![target[x]] = 0] \/ token' = token
            BY <4>4, <6>2
          <6> QED BY <3>2, <6>1, <6>2
        <5>2. \/ token'[target[y]] = 0 \/ token[target[y]] = token'[target[y]]
              \/ /\ token'[target[y]] = token[target[y]] + 1
                 /\ token[target[y]] # 0
          BY <3>2, <4>4
        <5>3. minted[y] \in Nat /\ token[target[y]] \in Nat
          OBVIOUS
        <5> QED BY <4>1, <4>2, <4>3, <5>1, <5>2, <5>3 DEF TokenAgrees
      <4>5. CASE target[y] # target[x]
        <5>1. token'[target[y]] = token[target[y]]
          BY <3>2, <4>5
        <5> QED BY <4>1, <4>2, <4>3, <5>1 DEF TokenAgrees
      <4> QED BY <4>4, <4>5
    <3> QED BY <3>4, <3>5 DEF TokensAgree
  <2> QED BY <1>5, <2>2, <2>3 DEF Server, ServeUpdate, ServeDelete,
                                  ServeCreate, CarryOut, Refuse
<1>6. ASSUME UNCHANGED <<token, others, kind, target, minted, serverVars>>
      PROVE  TokensAgree'
  BY <1>6 DEF TokensAgree, TokenAgrees, Moved, Kind, serverVars
<1>7. ASSUME NEW b \in Batches, Respond(b) \/ Cancel(b) PROVE TokensAgree'
  BY <1>6, <1>7 DEF Respond, Cancel
<1>8. ASSUME NEW x \in Items, Gate(x) \/ Receive(x) \/ TimeOut(x)
      PROVE  TokensAgree'
  BY <1>6, <1>8 DEF Gate, Receive, TimeOut
<1>9. CASE UNCHANGED vars
  BY <1>6, <1>9 DEF vars
<1> QED BY <1>1, <1>2, <1>3, <1>4, <1>5, <1>7, <1>8, <1>9
        DEF Next, Coroutine, Thread

\* Every ticket's token orders the updates of it.
THEOREM TokensHold == Spec => []TokensAgree
<1>1. Init => TokensAgree
  BY DEF Init, TokensAgree, TokenAgrees
<1>2. Batched /\ Batched' /\ TokensAgree /\ [Next]_vars => TokensAgree'
  BY StepKeepsTokens
<1> QED BY <1>1, <1>2, BatchesHold, PTL DEF Spec

\* Two updates of one ticket that were both carried out were based on
\* different states of it, in one batch or in two.
LEMMA StepKeepsApart ==
    ASSUME Batched, Batched', TokensAgree, UpdatesAreBasedApart, [Next]_vars
    PROVE  UpdatesAreBasedApart'
<1> USE DEF Batched, TypeOK
<1>1. ASSUME NEW b \in Batches, Begin(b) PROVE UpdatesAreBasedApart'
  <2>1. \A x \in Items : effect[x] = 1 => Kind(x)' = Kind(x)
    <3>1. \A x \in Items : effect[x] = 1 => x[1] # b
      BY <1>1 DEF Begin, ItemsAgree, ItemAgrees
    <3> QED BY <1>1, <3>1, ItemFacts DEF Begin, Kind
  <2> QED BY <1>1, <2>1 DEF Begin, serverVars, UpdatesAreBasedApart
<1>2. ASSUME NEW x \in Items, Mint(x) PROVE UpdatesAreBasedApart'
  <2>1. effect[x] = 0 /\ UNCHANGED <<effect, kind, target>>
    BY <1>2 DEF Mint, ItemsAgree, ItemAgrees
  <2>2. \A y \in Items \ {x} : minted'[y] = minted[y]
    BY <1>2 DEF Mint
  <2> QED BY <2>1, <2>2 DEF UpdatesAreBasedApart, Kind
<1>3. ASSUME NEW x \in Items, Server(x) PROVE UpdatesAreBasedApart'
  <2>1. UNCHANGED <<kind, target, minted>> /\ srv[x] = "queued"
    BY <1>3 DEF Server, ServeUpdate, ServeDelete, ServeCreate
  <2>2. CASE UNCHANGED effect
    BY <2>1, <2>2 DEF UpdatesAreBasedApart, Kind
  <2>3. CASE effect' = [effect EXCEPT ![x] = @ + 1] /\ Kind(x) # "update"
    BY <2>1, <2>3 DEF UpdatesAreBasedApart, Kind
  <2>4. CASE effect' = [effect EXCEPT ![x] = @ + 1] /\ Kind(x) = "update"
    <3>1. minted[x] = token[target[x]] /\ token[target[x]] # 0
      BY <1>3, <2>4 DEF Server, ServeUpdate, ServeDelete, ServeCreate,
                        CarryOut, Refuse, Answer, Collides
    <3>2. \A y \in Items : effect[y] = 1 /\ Kind(y) = "update"
                              /\ target[y] = target[x]
                              => minted[y] # minted[x]
      BY <3>1 DEF TokensAgree, TokenAgrees
    <3>3. \A y \in Items \ {x} : effect'[y] = effect[y]
      BY <2>4
    <3> SUFFICES ASSUME NEW y \in Items, NEW z \in Items, y # z,
                        target[y] = target[z],
                        Kind(y) = "update", effect'[y] = 1,
                        Kind(z) = "update", effect'[z] = 1
                 PROVE  minted[y] # minted[z]
      BY <2>1 DEF UpdatesAreBasedApart, Kind
    <3>4. CASE y = x  BY <3>2, <3>3, <3>4
    <3>5. CASE z = x  BY <3>2, <3>3, <3>5
    <3>6. CASE y # x /\ z # x
      BY <3>3, <3>6 DEF UpdatesAreBasedApart
    <3> QED BY <3>4, <3>5, <3>6
  <2> QED BY <1>3, <2>2, <2>3, <2>4 DEF Server, ServeUpdate, ServeDelete,
                                        ServeCreate, CarryOut, Refuse
<1>4. ASSUME UNCHANGED <<kind, target, minted, effect>>
      PROVE  UpdatesAreBasedApart'
  BY <1>4 DEF UpdatesAreBasedApart, Kind
<1>5. ASSUME NEW b \in Batches, Respond(b) \/ Cancel(b)
      PROVE  UpdatesAreBasedApart'
  BY <1>4, <1>5 DEF Respond, Cancel, serverVars
<1>6. ASSUME NEW x \in Items,
             Coroutine(x) \/ Receive(x) \/ TimeOut(x)
      PROVE  UpdatesAreBasedApart'
  BY <1>4, <1>6 DEF Coroutine, Gate, Acquire, Receive, TimeOut, serverVars
<1>7. CASE (\E t \in Tickets : OtherUpdate(t)) \/ UNCHANGED vars
  BY <1>4, <1>7 DEF OtherUpdate, vars, serverVars
<1> QED BY <1>1, <1>2, <1>3, <1>5, <1>6, <1>7 DEF Next, Thread

\* Of the updates of one ticket that were carried out, no two overwrite
\* each other unseen.
THEOREM UpdatesApart == Spec => []UpdatesAreBasedApart
<1>1. Init => UpdatesAreBasedApart
  BY DEF Init, UpdatesAreBasedApart
<1>2. /\ Batched /\ Batched' /\ TokensAgree /\ UpdatesAreBasedApart
      /\ [Next]_vars
      => UpdatesAreBasedApart'
  BY StepKeepsApart
<1> QED BY <1>1, <1>2, BatchesHold, TokensHold, PTL DEF Spec

\* An update that fails as a collision lost to another update that was carried
\* out on the state it had read or a later one, or to anybody else's change.
THEOREM CollisionsWon == Spec => []CollisionsHaveWinners
<1>1. TokensAgree => CollisionsHaveWinners
  BY DEF TokensAgree, TokenAgrees, Moved, CollisionsHaveWinners
<1> QED BY <1>1, TokensHold, PTL

=============================================================================
