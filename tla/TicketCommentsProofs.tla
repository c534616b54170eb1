------------------------- MODULE TicketCommentsProofs -------------------------
(***************************************************************************)
(* Proofs about TicketComments: that the token of an edit pins the comment *)
(* its caller read, and that the answers are true, for any number of       *)
(* callers, tickets and changes.                                           *)
(***************************************************************************)
EXTENDS TicketComments, SequenceTheorems, TLAPS

(***************************************************************************)
(* The inductive invariant.                                                *)
(***************************************************************************)

LogInv ==
    /\ clock \in Nat
    /\ DOMAIN log = Tickets /\ \A t \in Tickets : log[t] \in Seq(ChangeSets)
    /\ InOrder(log, clock)

Domains ==
    /\ DOMAIN pc = Callers /\ DOMAIN request = Callers /\ DOMAIN token = Callers
    /\ DOMAIN seen = Callers /\ DOMAIN loaded = Callers /\ DOMAIN answer = Callers
    /\ DOMAIN served = Callers

\* Ticket t holds no comment under number n but that of time at.
OnlyAt(t, n, at) == \A i \in DOMAIN log[t] : log[t][i].num = n => log[t][i].at = at

AfterCheck == {"gate", "send", "load", "act"}

RequestInv(c) ==
    /\ pc[c] = "idle" \/ request[c] \in Requests
    /\ token[c] \in Nat /\ token[c] <= clock
    /\ loaded[c] \in Nat /\ loaded[c] <= clock

\* The token names a change of the ticket that was read, or of none any more;
\* of the comments no younger than it, only the one seen has its number.
TokenInv(c) ==
    (request[c].op = "edit" /\ pc[c] \in {"reading", "check"}) =>
        /\ token[c] # 0
        /\ \A t \in Tickets \ {request[c].from} :
              \A i \in DOMAIN log[t] : log[t][i].at # token[c]
        /\ pc[c] = "check" =>
              \A i \in DOMAIN log[request[c].from] :
                  LET set == log[request[c].from][i]
                  IN set.at <= token[c] /\ set.num = request[c].num => set.at = seen[c]

\* Once the token was compared, and until the ticket changes, the number on
\* the ticket of the call is the comment that was seen.
PinInv(c) ==
    LET r == request[c]
    IN /\ (r.op = "edit" /\ pc[c] \in AfterCheck /\ ~slipped[c]) =>
             /\ r.to = r.from /\ OnlyAt(r.to, r.num, seen[c])
             /\ pc[c] = "act" => loaded[c] = seen[c]
       /\ pc[c] = "act" => request[c].op = "reply" \/ loaded[c] # 0
       /\ pc[c] = "act" =>
             \A i \in DOMAIN log[r.to] : log[r.to][i].at = loaded[c] =>
                /\ log[r.to][i].num = r.num
                /\ r.op = "delete" => MayDelete(log[r.to][i], r.force)

AnswerInv(c) ==
    LET r == request[c]  s == served[c]
    IN /\ pc[c] # "done" => s = Nothing /\ answer[c] \in {"none", "error"}
       /\ s.reverts => r.force
       /\ answer[c] \in {"edited", "deleted"} =>
             \/ s.ticket = r.to /\ s.num = r.num
             \/ s = Nothing /\ TakenAway(c)
       /\ answer[c] = "posted" => s.ticket = r.to /\ s.parent = r.num
       /\ answer[c] \in {"version_conflict", "link_check_failed", "fault",
                         "bundled_change_refused", "method_not_available"} => s = Nothing
       /\ (r.op = "edit" /\ s # Nothing /\ ~slipped[c]) =>
             s.ticket = r.from /\ s.at = seen[c]

CallInv(c) == RequestInv(c) /\ TokenInv(c) /\ PinInv(c) /\ AnswerInv(c)
IInv == LogInv /\ Domains /\ \A c \in Callers : CallInv(c)

LEMMA NothingReverts == ~Nothing.reverts
<1>1. Nothing.reverts = FALSE
  BY DEF Nothing
<1> QED
  BY <1>1

LEMMA InitHolds == Init => IInv
<1> SUFFICES ASSUME Init PROVE IInv
  OBVIOUS
<1>1. LogInv
  BY CommentsAssumption DEF Init, LogInv
<1>2. Domains
  BY DEF Init, Domains
<1>3. ASSUME NEW c \in Callers PROVE CallInv(c)
  <2>1. /\ pc[c] = "idle" /\ request[c].op = "none" /\ token[c] = 0 /\ loaded[c] = 0
        /\ answer[c] = "none" /\ served[c] = Nothing /\ clock = Start
    BY <1>3 DEF Init, NoRequest
  <2>2. 0 \in Nat /\ Start \in Nat /\ 0 <= Start
    BY CommentsAssumption
  <2> QED
    <3>1. RequestInv(c) /\ TokenInv(c) /\ PinInv(c)
      BY <2>1, <2>2 DEF RequestInv, TokenInv, PinInv, AfterCheck
    <3>2. AnswerInv(c)
      <4>1. ~served[c].reverts
        BY <2>1, NothingReverts
      <4> QED
        BY <2>1, <4>1 DEF AnswerInv
    <3> QED
      BY <3>1, <3>2 DEF CallInv
<1> QED
  BY <1>1, <1>2, <1>3 DEF IInv

LEMMA InvariantImplies == IInv => EditIsOfWhatWasRead /\ AnswersAreTrue
  BY DEF IInv, CallInv, AnswerInv, EditIsOfWhatWasRead, AnswersAreTrue

(***************************************************************************)
(* What a step may do to the tickets.                                      *)
(***************************************************************************)

\* Ticket t alone changes: what it holds it held before, or is new.
Moves(t) ==
    /\ LogInv' /\ clock <= clock' /\ Slips(t)
    /\ \A u \in Tickets \ {t} : log'[u] = log[u]
    /\ \A j \in DOMAIN log'[t] :
          log'[t][j].at > clock \/ \E i \in DOMAIN log[t] : log'[t][j] = log[t][i]

LEMMA Elements ==
    ASSUME LogInv
    PROVE  \A t \in Tickets :
              /\ Len(log[t]) \in Nat /\ DOMAIN log[t] = 1 .. Len(log[t])
              /\ \A i \in DOMAIN log[t] :
                    /\ log[t][i] \in ChangeSets /\ log[t][i].num \in Nat \ {0}
                    /\ log[t][i].at \in Nat \ {0} /\ log[t][i].at <= clock
              /\ log[t] # <<>> => Len(log[t]) \in DOMAIN log[t] /\ Last(log[t]) = log[t][Len(log[t])]
<1> SUFFICES ASSUME NEW t \in Tickets
             PROVE  /\ Len(log[t]) \in Nat /\ DOMAIN log[t] = 1 .. Len(log[t])
                    /\ \A i \in DOMAIN log[t] :
                          /\ log[t][i] \in ChangeSets /\ log[t][i].num \in Nat \ {0}
                          /\ log[t][i].at \in Nat \ {0} /\ log[t][i].at <= clock
                    /\ log[t] # <<>> => Len(log[t]) \in DOMAIN log[t]
                                        /\ Last(log[t]) = log[t][Len(log[t])]
  OBVIOUS
<1>1. log[t] \in Seq(ChangeSets)
  BY DEF LogInv
<1>2. /\ Len(log[t]) \in Nat /\ DOMAIN log[t] = 1 .. Len(log[t])
      /\ \A i \in DOMAIN log[t] : log[t][i] \in ChangeSets
      /\ log[t] # <<>> => Len(log[t]) \in DOMAIN log[t]
  BY <1>1
<1>3. \A i \in DOMAIN log[t] : log[t][i].at <= clock
  BY DEF LogInv, InOrder
<1> QED
  BY <1>2, <1>3 DEF ChangeSets, Last

LEMMA Addition ==
    ASSUME NEW t \in Tickets, NEW fields \in BOOLEAN, NEW parent \in Nat, LogInv,
           clock' = clock + 1, Slips(t),
           Append1(t, ChangeSet(NextNumber(t), clock + 1, fields, parent))
    PROVE  Moves(t)
<1> DEFINE set == ChangeSet(NextNumber(t), clock + 1, fields, parent)
<1>1. log[t] \in Seq(ChangeSets) /\ clock \in Nat
  BY DEF LogInv
<1>2. set \in ChangeSets /\ set.at = clock + 1
  <2>1. NextNumber(t) \in Nat \ {0}
    BY Elements DEF NextNumber
  <2> QED
    BY <1>1, <2>1 DEF ChangeSets, ChangeSet
<1>3. \A i \in DOMAIN log[t] : log[t][i].num < set.num /\ log[t][i].at < set.at
  <2> SUFFICES ASSUME NEW i \in DOMAIN log[t]
               PROVE  log[t][i].num < set.num /\ log[t][i].at < set.at
    OBVIOUS
  <2> DEFINE n == Len(log[t])
  <2>1. /\ log[t] # <<>> /\ n \in DOMAIN log[t] /\ Last(log[t]) = log[t][n]
        /\ i \in 1 .. n /\ n \in Nat
        /\ log[t][i].at \in Nat /\ log[t][i].at <= clock /\ log[t][i].num \in Nat
        /\ log[t][n].num \in Nat
    BY <1>1, Elements
  <2>2. i = n \/ log[t][i].num < log[t][n].num
    BY <2>1 DEF LogInv, InOrder
  <2>3. set.num = log[t][n].num + 1
    BY <2>1 DEF ChangeSet, NextNumber
  <2> HIDE DEF set, n
  <2>4. log[t][i].num < set.num
    BY <2>1, <2>2, <2>3
  <2>5. log[t][i].at < set.at
    BY <1>1, <1>2, <2>1
  <2> QED
    BY <2>4, <2>5
<1>4. /\ log' = [log EXCEPT ![t] = Append(log[t], set)]
      /\ DOMAIN log' = Tickets /\ log'[t] = Append(log[t], set)
      /\ \A u \in Tickets \ {t} : log'[u] = log[u]
  BY DEF Append1, LogInv
<1>5. /\ DOMAIN log'[t] = 1 .. Len(log[t]) + 1
      /\ \A i \in 1 .. Len(log[t]) : log'[t][i] = log[t][i]
      /\ log'[t][Len(log[t]) + 1] = set
      /\ log'[t] \in Seq(ChangeSets)
      /\ DOMAIN log[t] = 1 .. Len(log[t]) /\ Len(log[t]) \in Nat
  BY <1>1, <1>2, <1>4
<1>6. \A u \in Tickets : log'[u] \in Seq(ChangeSets)
  BY <1>4, <1>5 DEF LogInv
<1>7. InOrder(log', clock')
  <2> HIDE DEF set
  <2>1. \A u \in Tickets : \A i \in DOMAIN log[u] : log[u][i].at \in Nat /\ log[u][i].at <= clock
    BY Elements
  <2>2. \A u \in Tickets : \A i \in DOMAIN log'[u] : log'[u][i].at <= clock'
    BY <1>1, <1>2, <1>4, <1>5, <2>1
  <2>3. ASSUME NEW u \in Tickets, NEW i \in DOMAIN log'[u], NEW j \in DOMAIN log'[u], i < j
        PROVE  log'[u][i].at < log'[u][j].at /\ log'[u][i].num < log'[u][j].num
    BY <1>3, <1>4, <1>5, <2>3 DEF LogInv, InOrder
  <2>4. ASSUME NEW u \in Tickets, NEW v \in Tickets \ {u},
               NEW i \in DOMAIN log'[u], NEW j \in DOMAIN log'[v]
        PROVE  log'[u][i].at # log'[v][j].at
    <3>1. CASE u # t /\ v # t
      BY <1>4, <3>1 DEF LogInv, InOrder
    <3>2. CASE u = t
      <4>1. CASE i \in DOMAIN log[t]
        BY <1>4, <1>5, <3>2, <4>1 DEF LogInv, InOrder
      <4>2. CASE i = Len(log[t]) + 1
        <5>1. log'[u][i].at = clock + 1 /\ log'[v][j].at \in Nat /\ log'[v][j].at <= clock
          BY <1>2, <1>4, <1>5, <2>1, <3>2, <4>2
        <5> QED
          BY <1>1, <5>1
      <4> QED
        BY <1>5, <3>2, <4>1, <4>2
    <3>3. CASE v = t
      <4>1. CASE j \in DOMAIN log[t]
        BY <1>4, <1>5, <3>3, <4>1 DEF LogInv, InOrder
      <4>2. CASE j = Len(log[t]) + 1
        <5>1. log'[v][j].at = clock + 1 /\ log'[u][i].at \in Nat /\ log'[u][i].at <= clock
          BY <1>2, <1>4, <1>5, <2>1, <3>3, <4>2
        <5> QED
          BY <1>1, <5>1
      <4> QED
        BY <1>5, <3>3, <4>1, <4>2
    <3> QED
      BY <3>1, <3>2, <3>3
  <2> QED
    BY <2>2, <2>3, <2>4 DEF InOrder
<1> QED
  BY <1>1, <1>2, <1>4, <1>5, <1>6, <1>7 DEF Moves, LogInv

LEMMA Removal ==
    ASSUME NEW t \in Tickets, NEW k \in DOMAIN log[t], LogInv, clock' = clock, Slips(t),
           Remove1(t, k)
    PROVE  Moves(t)
<1>1. log[t] \in Seq(ChangeSets) /\ clock \in Nat /\ DOMAIN log[t] = 1 .. Len(log[t])
  BY DEF LogInv
<1>2. /\ DOMAIN log' = Tickets /\ log'[t] = RemoveAt(log[t], k)
      /\ \A u \in Tickets \ {t} : log'[u] = log[u]
  BY DEF Remove1, LogInv
<1> DEFINE old(j) == IF j < k THEN j ELSE j + 1
<1>3. /\ log'[t] \in Seq(ChangeSets) /\ DOMAIN log'[t] = 1 .. Len(log[t]) - 1
      /\ \A j \in DOMAIN log'[t] : old(j) \in DOMAIN log[t] /\ log'[t][j] = log[t][old(j)]
  <2> DEFINE head == SubSeq(log[t], 1, k - 1)  tail == SubSeq(log[t], k + 1, Len(log[t]))
  <2>1. /\ head \in Seq(ChangeSets) /\ Len(head) = k - 1
        /\ \A j \in 1 .. k - 1 : head[j] = log[t][j]
    BY <1>1
  <2>2. /\ tail \in Seq(ChangeSets) /\ Len(tail) = Len(log[t]) - k
        /\ \A j \in 1 .. Len(log[t]) - k : tail[j] = log[t][j + k]
    BY <1>1
  <2>3. log'[t] = head \o tail
    BY <1>2 DEF RemoveAt
  <2> HIDE DEF head, tail
  <2>4. /\ log'[t] \in Seq(ChangeSets) /\ Len(log'[t]) = Len(log[t]) - 1
        /\ \A j \in 1 .. Len(log[t]) - 1 :
              log'[t][j] = IF j <= k - 1 THEN head[j] ELSE tail[j - (k - 1)]
    <3>1. k \in 1 .. Len(log[t]) /\ Len(log[t]) \in Nat
      BY <1>1
    <3>2. /\ head \o tail \in Seq(ChangeSets) /\ Len(head \o tail) = Len(head) + Len(tail)
          /\ \A j \in 1 .. Len(head) + Len(tail) :
                (head \o tail)[j] = IF j <= Len(head) THEN head[j] ELSE tail[j - Len(head)]
      BY <2>1, <2>2, ConcatProperties
    <3>3. Len(head) + Len(tail) = Len(log[t]) - 1
      BY <2>1, <2>2, <3>1
    <3>4. log'[t] \in Seq(ChangeSets) /\ Len(log'[t]) = Len(log[t]) - 1
      BY <2>3, <3>2, <3>3
    <3>5. ASSUME NEW j \in 1 .. Len(log[t]) - 1
          PROVE  log'[t][j] = IF j <= k - 1 THEN head[j] ELSE tail[j - (k - 1)]
      <4>1. (head \o tail)[j] = IF j <= Len(head) THEN head[j] ELSE tail[j - Len(head)]
        BY <3>2, <3>3, <3>5
      <4>2. (head \o tail)[j] = IF j <= k - 1 THEN head[j] ELSE tail[j - (k - 1)]
        BY <2>1, <4>1
      <4> QED
        BY <2>3, <4>2
    <3> QED
      BY <3>4, <3>5
  <2>5. DOMAIN log'[t] = 1 .. Len(log[t]) - 1
    BY <2>4
  <2>6. ASSUME NEW j \in 1 .. Len(log[t]) - 1
        PROVE  old(j) \in DOMAIN log[t] /\ log'[t][j] = log[t][old(j)]
    <3>1. k \in 1 .. Len(log[t]) /\ Len(log[t]) \in Nat
      BY <1>1
    <3>2. CASE j <= k - 1
      BY <1>1, <2>1, <2>4, <2>6, <3>1, <3>2
    <3>3. CASE ~(j <= k - 1)
      <4>1. j - (k - 1) \in 1 .. Len(log[t]) - k /\ (j - (k - 1)) + k = j + 1 /\ ~(j < k)
        BY <2>6, <3>1, <3>3
      <4>2. log'[t][j] = tail[j - (k - 1)]
        BY <2>4, <2>6, <3>3
      <4>3. log'[t][j] = log[t][j + 1] /\ j + 1 \in 1 .. Len(log[t])
        <5>1. tail[j - (k - 1)] = log[t][(j - (k - 1)) + k]
          BY <2>2, <4>1
        <5>2. j + 1 \in 1 .. Len(log[t])
          BY <2>6, <3>1
        <5> QED
          BY <4>1, <4>2, <5>1, <5>2
      <4> QED
        BY <1>1, <4>1, <4>3
    <3> QED
      BY <3>2, <3>3
  <2> QED
    BY <2>4, <2>5, <2>6
<1>4. \A u \in Tickets : log'[u] \in Seq(ChangeSets)
  BY <1>2, <1>3 DEF LogInv
<1>5. \A j \in DOMAIN log'[t] : \E i \in DOMAIN log[t] : log'[t][j] = log[t][i]
  BY <1>3
<1>6. InOrder(log', clock')
  <2>1. \A u \in Tickets : \A j \in DOMAIN log'[u] : log'[u][j].at <= clock'
    BY <1>2, <1>5 DEF LogInv, InOrder
  <2>2. ASSUME NEW u \in Tickets, NEW i \in DOMAIN log'[u], NEW j \in DOMAIN log'[u], i < j
        PROVE  log'[u][i].at < log'[u][j].at /\ log'[u][i].num < log'[u][j].num
    <3>1. CASE u = t
      <4>1. old(i) < old(j)
        BY <1>1, <1>3, <2>2, <3>1
      <4>2. /\ old(i) \in DOMAIN log[t] /\ log'[t][i] = log[t][old(i)]
            /\ old(j) \in DOMAIN log[t] /\ log'[t][j] = log[t][old(j)]
        BY <1>3, <3>1
      <4> HIDE DEF old
      <4> QED
        BY <3>1, <4>1, <4>2 DEF LogInv, InOrder
    <3>2. CASE u # t
      BY <1>2, <2>2, <3>2 DEF LogInv, InOrder
    <3> QED
      BY <3>1, <3>2
  <2>3. ASSUME NEW u \in Tickets, NEW v \in Tickets \ {u},
               NEW i \in DOMAIN log'[u], NEW j \in DOMAIN log'[v]
        PROVE  log'[u][i].at # log'[v][j].at
    <3>1. \E m \in DOMAIN log[u] : log'[u][i] = log[u][m]
      BY <1>2, <1>5
    <3>2. \E m \in DOMAIN log[v] : log'[v][j] = log[v][m]
      BY <1>2, <1>5
    <3> QED
      BY <3>1, <3>2 DEF LogInv, InOrder
  <2> QED
    BY <2>1, <2>2, <2>3 DEF InOrder
<1> QED
  BY <1>1, <1>2, <1>4, <1>5, <1>6 DEF Moves, LogInv

(***************************************************************************)
(* A call that does not act keeps its part of the invariant.               *)
(***************************************************************************)

Still(c) ==
    /\ pc'[c] = pc[c] /\ request'[c] = request[c] /\ token'[c] = token[c]
    /\ seen'[c] = seen[c] /\ loaded'[c] = loaded[c] /\ answer'[c] = answer[c]
    /\ served'[c] = served[c]

LEMMA QuietBystander ==
    ASSUME NEW c \in Callers, CallInv(c), Still(c), UNCHANGED <<log, clock, slipped>>
    PROVE  CallInv(c)'
  BY DEF Still, CallInv, RequestInv, TokenInv, PinInv, AnswerInv, OnlyAt, TakenAway, Timed

LEMMA Bystander ==
    ASSUME NEW c \in Callers, NEW t \in Tickets, LogInv, CallInv(c), Still(c), Moves(t)
    PROVE  CallInv(c)'
<1>1. slipped'[c] = (slipped[c] \/ (pc[c] \in AfterCheck /\ request[c].op = "edit" /\ request[c].to = t))
  BY DEF Moves, Slips, AfterCheck
<1>2. clock \in Nat /\ clock' \in Nat /\ clock <= clock'
  BY DEF Moves, LogInv
<1>3. RequestInv(c)'
  BY <1>2 DEF Still, CallInv, RequestInv
<1>4. \A u \in Tickets : \A j \in DOMAIN log'[u] :
         log'[u][j].at > clock \/ \E i \in DOMAIN log[u] : log'[u][j] = log[u][i]
  BY DEF Moves
<1>5. \A u \in Tickets : \A j \in DOMAIN log'[u] : log'[u][j].at \in Nat
  <2>1. ASSUME NEW u \in Tickets PROVE \A j \in DOMAIN log'[u] : log'[u][j].at \in Nat
    <3>1. log'[u] \in Seq(ChangeSets)
      BY DEF Moves, LogInv
    <3>2. \A j \in DOMAIN log'[u] : log'[u][j] \in ChangeSets
      BY <3>1
    <3> QED
      BY <3>2 DEF ChangeSets
  <2> QED
    BY <2>1
<1>6. TokenInv(c)'
  <2> SUFFICES ASSUME request[c].op = "edit", pc[c] \in {"reading", "check"}
               PROVE  TokenInv(c)'
    BY DEF Still, TokenInv
  <2>1. request[c].from \in Tickets /\ token[c] \in Nat /\ token[c] <= clock
    BY CommentsAssumption DEF CallInv, RequestInv, Requests
  <2>2. \A u \in Tickets \ {request[c].from} : \A j \in DOMAIN log'[u] : log'[u][j].at # token[c]
    BY <1>2, <1>4, <1>5, <2>1 DEF CallInv, TokenInv
  <2>3. ASSUME pc[c] = "check", NEW j \in DOMAIN log'[request[c].from],
               log'[request[c].from][j].at <= token[c], log'[request[c].from][j].num = request[c].num
        PROVE  log'[request[c].from][j].at = seen[c]
    <3>1. ~(log'[request[c].from][j].at > clock)
      BY <1>2, <1>5, <2>1, <2>3
    <3> QED
      BY <1>4, <2>1, <2>3, <3>1 DEF CallInv, TokenInv
  <2> QED
    BY <2>2, <2>3 DEF Still, CallInv, TokenInv
<1>7. PinInv(c)'
  <2>1. ASSUME request[c].op = "edit", pc[c] \in AfterCheck, ~slipped'[c]
        PROVE  /\ request[c].to = request[c].from /\ ~slipped[c] /\ request[c].to # t
               /\ log'[request[c].to] = log[request[c].to]
    <3>1. ~slipped[c] /\ request[c].to # t
      BY <1>1, <2>1
    <3>2. request[c].to \in Tickets
      BY <2>1 DEF CallInv, RequestInv, Requests, AfterCheck
    <3> QED
      BY <2>1, <3>1, <3>2 DEF Moves, CallInv, PinInv
  <2>2. ASSUME pc[c] = "act", NEW j \in DOMAIN log'[request[c].to],
               log'[request[c].to][j].at = loaded[c]
        PROVE  /\ log'[request[c].to][j].num = request[c].num
               /\ request[c].op = "delete" =>
                     MayDelete(log'[request[c].to][j], request[c].force)
    <3>1. request[c].to \in Tickets /\ loaded[c] \in Nat /\ loaded[c] <= clock
      BY <2>2 DEF CallInv, RequestInv, Requests
    <3>2. ~(log'[request[c].to][j].at > clock)
      BY <1>2, <2>2, <3>1
    <3> QED
      BY <1>4, <2>2, <3>1, <3>2 DEF CallInv, PinInv
  <2> QED
    BY <2>1, <2>2 DEF Still, CallInv, PinInv, OnlyAt
<1>8. AnswerInv(c)'
  <2>1. ASSUME pc[c] = "done", TakenAway(c) PROVE TakenAway(c)'
    <3>1. request[c].to \in Tickets /\ loaded[c] \in Nat /\ loaded[c] <= clock
      BY <2>1 DEF CallInv, RequestInv, Requests
    <3>2. ASSUME NEW j \in DOMAIN log'[request[c].to],
                 log'[request[c].to][j].at = loaded[c]
          PROVE  FALSE
      <4>1. ~(log'[request[c].to][j].at > clock)
        BY <1>2, <3>1, <3>2
      <4> QED
        BY <1>4, <2>1, <3>1, <3>2, <4>1 DEF TakenAway, Timed
    <3> QED
      BY <2>1, <3>2 DEF TakenAway, Timed, Still
  <2> QED
    BY <1>1, <2>1 DEF Still, CallInv, AnswerInv, AfterCheck
<1> QED
  BY <1>3, <1>6, <1>7, <1>8 DEF CallInv

LEMMA Together ==
    ASSUME NEW c \in Callers, IInv, Domains', CallInv(c)', \A d \in Callers \ {c} : Still(d),
           UNCHANGED <<log, clock, slipped>> \/ \E t \in Tickets : Moves(t)
    PROVE  IInv'
<1>1. LogInv'
  BY DEF IInv, LogInv, InOrder, Moves
<1>2. ASSUME NEW d \in Callers \ {c} PROVE CallInv(d)'
  BY <1>2, QuietBystander, Bystander DEF IInv
<1> QED
  BY <1>1, <1>2 DEF IInv

(***************************************************************************)
(* The steps.                                                              *)
(***************************************************************************)

LEMMA OtherKeeps == ASSUME NEW t \in Tickets, IInv, Other(t) PROVE IInv'
<1>1. Moves(t)
  <2>1. CASE /\ clock' = clock + 1
             /\ \E fields \in BOOLEAN : Append1(t, ChangeSet(NextNumber(t), clock + 1, fields, 0))
    BY <2>1, Addition DEF Other, IInv
  <2>2. CASE clock' = clock /\ \E i \in DOMAIN log[t] : Remove1(t, i)
    BY <2>2, Removal DEF Other, IInv
  <2> QED
    BY <2>1, <2>2 DEF Other
<1>2. UNCHANGED <<pc, request, token, seen, answer, loaded, served>>
  BY DEF Other, callVars
<1>3. \A c \in Callers : Still(c)
  BY <1>2 DEF Still
<1>4. \A c \in Callers : CallInv(c)'
  BY <1>1, <1>3, Bystander DEF IInv
<1> QED
  BY <1>1, <1>2, <1>4 DEF IInv, Moves, Domains

Quiet == UNCHANGED <<log, clock, slipped>>

\* A step of one call leaves the others alone and the variables functions.
Alone(c) == Domains' /\ \A d \in Callers \ {c} : Still(d)

LEMMA CallIsAlone ==
    ASSUME NEW c \in Callers, IInv,
           \/ ReadTicket(c) \/ ReadChangelog(c)
           \/ check_base_ts(c) \/ gate_or_refuse(c) \/ send(c) \/ GiveUp(c)
           \/ require_change(c) \/ Gone(c)
           \/ editComment(c) \/ deleteComment(c) \/ replyToComment(c)
    PROVE  Alone(c)
<1> USE DEF IInv, Domains, Alone, Still, Goto, Finish, Reply, Done
<1>1. CASE ReadTicket(c)
  BY <1>1 DEF ReadTicket
<1>2. CASE ReadChangelog(c)
  BY <1>2 DEF ReadChangelog
<1>3. CASE check_base_ts(c)
  BY <1>3 DEF check_base_ts
<1>4. CASE gate_or_refuse(c)
  BY <1>4 DEF gate_or_refuse
<1>5. CASE send(c)
  BY <1>5 DEF send
<1>6. CASE GiveUp(c)
  BY <1>6 DEF GiveUp
<1>7. CASE require_change(c)
  BY <1>7 DEF require_change
<1>8. CASE Gone(c)
  BY <1>8 DEF Gone
<1>9. CASE editComment(c)
  BY <1>9 DEF editComment
<1>10. CASE deleteComment(c)
  BY <1>10 DEF deleteComment
<1>11. CASE replyToComment(c)
  BY <1>11 DEF replyToComment
<1> QED
  BY <1>1, <1>2, <1>3, <1>4, <1>5, <1>6, <1>7, <1>8, <1>9, <1>10, <1>11

\* A call that has not come to the plugin has nothing to show.
LEMMA StillNothing ==
    ASSUME NEW c \in Callers, IInv, pc[c] # "done"
    PROVE  served[c] = Nothing /\ answer[c] \in {"none", "error"}
  BY DEF IInv, CallInv, AnswerInv, Nothing

\* Whatever is not a success may be answered by a call with nothing to show.
LEMMA NothingToShow ==
    ASSUME NEW c \in Callers, served'[c] = Nothing,
           answer'[c] \notin {"edited", "deleted", "posted"},
           pc'[c] # "done" => answer'[c] \in {"none", "error"}
    PROVE  AnswerInv(c)'
<1>1. ~served'[c].reverts
  BY NothingReverts
<1> QED
  BY <1>1 DEF AnswerInv

LEMMA ReadTicketKeeps == ASSUME NEW c \in Callers, IInv, ReadTicket(c) PROVE IInv'
<1>1. Alone(c) /\ Quiet
  BY CallIsAlone DEF ReadTicket, Quiet, serverVars
<1>2. PICK r \in Requests :
         /\ log[r.from] # <<>> /\ request'[c] = r
         /\ token'[c] = IF r.op = "edit" THEN TokenOf(r.from) ELSE 0
  BY DEF ReadTicket, IInv, Domains
<1>3. r.from \in Tickets
  BY CommentsAssumption DEF Requests
<1>4. /\ pc'[c] = "reading" /\ log' = log /\ clock' = clock /\ clock \in Nat
      /\ loaded'[c] = loaded[c] /\ answer'[c] = answer[c] /\ served'[c] = served[c]
  BY DEF ReadTicket, Goto, IInv, Domains, serverVars, LogInv
<1>5. /\ TokenOf(r.from) \in Nat \ {0} /\ TokenOf(r.from) <= clock
      /\ \E i \in DOMAIN log[r.from] : log[r.from][i].at = TokenOf(r.from)
  BY <1>2, <1>3, Elements DEF IInv, TokenOf
<1>6. RequestInv(c)'
  BY <1>2, <1>4, <1>5 DEF IInv, CallInv, RequestInv
<1>7. TokenInv(c)'
  <2>1. ASSUME r.op = "edit", NEW t \in Tickets \ {r.from}, NEW j \in DOMAIN log[t]
        PROVE  log[t][j].at # token'[c]
    BY <1>2, <1>3, <1>5, <2>1 DEF IInv, LogInv, InOrder
  <2> QED
    BY <1>2, <1>4, <1>5, <2>1 DEF TokenInv
<1>8. PinInv(c)'
  BY <1>4 DEF PinInv, AfterCheck
<1>9. AnswerInv(c)'
  <2>1. pc[c] # "done"
    BY DEF ReadTicket
  <2> QED
    BY <1>4, <2>1, StillNothing, NothingToShow
<1> QED
  BY <1>1, <1>6, <1>7, <1>8, <1>9, Together DEF Alone, Quiet, CallInv

LEMMA ReadChangelogKeeps == ASSUME NEW c \in Callers, IInv, ReadChangelog(c) PROVE IInv'
<1> DEFINE r == request[c]
<1>1. Alone(c) /\ Quiet
  BY CallIsAlone DEF ReadChangelog, Quiet, serverVars
<1>2. /\ log' = log /\ clock' = clock /\ request'[c] = r /\ token'[c] = token[c]
      /\ loaded'[c] = loaded[c] /\ answer'[c] = answer[c] /\ served'[c] = served[c]
      /\ slipped' = slipped /\ pc[c] = "reading" /\ pc'[c] = First(r.op)
      /\ Numbered(r.from, r.num) # {}
      /\ seen'[c] = IF r.op = "edit" THEN TimeOf(r.from, r.num) ELSE 0
  BY DEF ReadChangelog, Goto, serverVars, IInv, Domains
<1>3. r \in Requests /\ r.from \in Tickets /\ First(r.op) \in {"check", "gate", "send"}
  BY <1>2, CommentsAssumption DEF IInv, CallInv, RequestInv, Requests, First
<1>4. RequestInv(c)'
  BY <1>2, <1>3 DEF IInv, CallInv, RequestInv
<1>5. ASSUME r.op = "edit", NEW i \in DOMAIN log[r.from], log[r.from][i].num = r.num
      PROVE  log[r.from][i].at = seen'[c]
  <2>1. \A j \in DOMAIN log[r.from] : log[r.from][j].num = r.num => j = i
    <3>1. ASSUME NEW j \in DOMAIN log[r.from], log[r.from][j].num = r.num, j # i PROVE FALSE
      <4>1. /\ i \in Nat /\ j \in Nat
            /\ log[r.from][i].num \in Nat /\ log[r.from][j].num \in Nat
        BY <1>3, <1>5, <3>1, Elements DEF IInv
      <4>2. CASE i < j
        BY <1>3, <1>5, <3>1, <4>1, <4>2 DEF IInv, LogInv, InOrder
      <4>3. CASE j < i
        BY <1>3, <1>5, <3>1, <4>1, <4>3 DEF IInv, LogInv, InOrder
      <4> QED
        BY <3>1, <4>1, <4>2, <4>3
    <3> QED
      BY <3>1
  <2>2. Numbered(r.from, r.num) = {i}
    BY <1>5, <2>1 DEF Numbered
  <2>3. TimeOf(r.from, r.num) = log[r.from][i].at
    BY <2>2 DEF TimeOf
  <2> QED
    BY <1>2, <1>5, <2>3
<1>6. TokenInv(c)'
  <2> SUFFICES ASSUME r.op = "edit" PROVE TokenInv(c)'
    BY <1>2 DEF TokenInv
  <2>1. /\ token[c] # 0
        /\ \A t \in Tickets \ {r.from} : \A i \in DOMAIN log[t] : log[t][i].at # token[c]
    BY <1>2 DEF IInv, CallInv, TokenInv
  <2> QED
    BY <1>2, <1>5, <2>1 DEF TokenInv
<1>7. PinInv(c)'
  <2>1. r.op = "edit" => pc'[c] = "check"
    BY <1>2 DEF First
  <2> QED
    BY <1>2, <1>3, <2>1 DEF PinInv, AfterCheck
<1>8. AnswerInv(c)'
  BY <1>2, StillNothing, NothingToShow
<1> QED
  BY <1>1, <1>4, <1>6, <1>7, <1>8, Together DEF Alone, Quiet, CallInv

LEMMA check_base_tsKeeps == ASSUME NEW c \in Callers, IInv, check_base_ts(c) PROVE IInv'
<1> DEFINE r == request[c]
<1>1. Alone(c) /\ Quiet
  BY CallIsAlone DEF check_base_ts, Quiet, serverVars
<1>2. /\ log' = log /\ clock' = clock /\ request'[c] = r /\ token'[c] = 0
      /\ loaded'[c] = loaded[c] /\ served'[c] = served[c] /\ seen'[c] = seen[c]
      /\ slipped' = slipped /\ pc[c] = "check"
      /\ \/ IsCurrent(c) /\ pc'[c] = "gate" /\ answer'[c] = answer[c]
         \/ ~IsCurrent(c) /\ pc'[c] = "done" /\ answer'[c] = "version_conflict"
  BY DEF check_base_ts, Goto, Finish, serverVars, IInv, Domains
<1>3. r \in Requests /\ r.from \in Tickets /\ r.to \in Tickets
  BY <1>2, CommentsAssumption DEF IInv, CallInv, RequestInv, Requests
<1>4. RequestInv(c)'
  BY <1>2, <1>3 DEF IInv, CallInv, RequestInv, LogInv
<1>5. TokenInv(c)'
  BY <1>2 DEF TokenInv
<1>6. ASSUME r.op = "edit", IsCurrent(c) PROVE r.to = r.from /\ OnlyAt(r.to, r.num, seen[c])
  <2> DEFINE n == Len(log[r.to])
  <2>1. token[c] # 0 /\ TokenOf(r.to) = token[c] /\ token[c] \in Nat
    BY <1>2, <1>6 DEF IInv, CallInv, RequestInv, TokenInv, IsCurrent
  <2>2. log[r.to] # <<>> /\ n \in DOMAIN log[r.to] /\ log[r.to][n].at = token[c]
    BY <1>3, <2>1, Elements DEF TokenOf, IInv
  <2>3. r.to = r.from
    BY <1>2, <1>3, <1>6, <2>2 DEF IInv, CallInv, TokenInv
  <2>4. ASSUME NEW i \in DOMAIN log[r.to], log[r.to][i].num = r.num
        PROVE  log[r.to][i].at = seen[c]
    <3>1. i \in Nat /\ n \in Nat /\ i <= n /\ log[r.to][i].at \in Nat
      BY <1>3, <2>4, Elements DEF IInv
    <3>2. i = n \/ log[r.to][i].at < log[r.to][n].at
      BY <1>3, <2>2, <2>4, <3>1 DEF IInv, LogInv, InOrder
    <3>3. log[r.to][i].at <= token[c]
      BY <2>1, <2>2, <3>1, <3>2
    <3> QED
      BY <1>2, <1>6, <2>3, <2>4, <3>3 DEF IInv, CallInv, TokenInv
  <2> QED
    BY <2>3, <2>4 DEF OnlyAt
<1>7. PinInv(c)'
  BY <1>2, <1>6 DEF PinInv, OnlyAt, AfterCheck
<1>8. AnswerInv(c)'
  BY <1>2, StillNothing, NothingToShow
<1> QED
  BY <1>1, <1>4, <1>5, <1>7, <1>8, Together DEF Alone, Quiet, CallInv

LEMMA gate_or_refuseKeeps == ASSUME NEW c \in Callers, IInv, gate_or_refuse(c) PROVE IInv'
<1> DEFINE r == request[c]
<1>1. Alone(c) /\ Quiet
  BY CallIsAlone DEF gate_or_refuse, Quiet, serverVars
<1>2. /\ log' = log /\ clock' = clock /\ request'[c] = r /\ token'[c] = token[c]
      /\ loaded'[c] = loaded[c] /\ served'[c] = served[c] /\ seen'[c] = seen[c]
      /\ slipped' = slipped /\ pc[c] = "gate"
      /\ \/ pc'[c] = "send" /\ answer'[c] = answer[c]
         \/ pc'[c] = "done" /\ answer'[c] = "link_check_failed"
  BY DEF gate_or_refuse, Goto, Finish, serverVars, IInv, Domains
<1>3. RequestInv(c)' /\ TokenInv(c)' /\ PinInv(c)'
  BY <1>2 DEF IInv, CallInv, RequestInv, TokenInv, PinInv, OnlyAt, AfterCheck
<1>4. AnswerInv(c)'
  BY <1>2, StillNothing, NothingToShow
<1> QED
  BY <1>1, <1>3, <1>4, Together DEF Alone, Quiet, CallInv

LEMMA sendKeeps == ASSUME NEW c \in Callers, IInv, send(c) PROVE IInv'
<1> DEFINE r == request[c]
<1>1. Alone(c) /\ Quiet
  BY CallIsAlone DEF send, Quiet, serverVars
<1>2. /\ log' = log /\ clock' = clock /\ request'[c] = r /\ token'[c] = token[c]
      /\ loaded'[c] = loaded[c] /\ served'[c] = served[c] /\ seen'[c] = seen[c]
      /\ slipped' = slipped /\ pc[c] = "send"
      /\ \/ pc'[c] = "load" /\ answer'[c] = answer[c]
         \/ pc'[c] = "done" /\ answer'[c] = "method_not_available"
  BY DEF send, Goto, Finish, serverVars, IInv, Domains
<1>3. RequestInv(c)' /\ TokenInv(c)' /\ PinInv(c)'
  BY <1>2 DEF IInv, CallInv, RequestInv, TokenInv, PinInv, OnlyAt, AfterCheck
<1>4. AnswerInv(c)'
  BY <1>2, StillNothing, NothingToShow
<1> QED
  BY <1>1, <1>3, <1>4, Together DEF Alone, Quiet, CallInv

LEMMA GiveUpKeeps == ASSUME NEW c \in Callers, IInv, GiveUp(c) PROVE IInv'
<1>1. Alone(c) /\ Quiet
  BY CallIsAlone DEF GiveUp, Quiet, serverVars
<1>2. /\ log' = log /\ clock' = clock /\ slipped' = slipped /\ pc' = pc /\ request' = request
      /\ token' = token /\ loaded' = loaded /\ served' = served /\ seen' = seen
      /\ pc[c] # "done" /\ answer'[c] = "error"
  BY DEF GiveUp, serverVars, IInv, Domains
<1>3. RequestInv(c)' /\ TokenInv(c)' /\ PinInv(c)'
  BY <1>2 DEF IInv, CallInv, RequestInv, TokenInv, PinInv, OnlyAt, AfterCheck
<1>4. AnswerInv(c)'
  BY <1>2, StillNothing, NothingToShow
<1> QED
  BY <1>1, <1>3, <1>4, Together DEF Alone, Quiet, CallInv

LEMMA require_changeKeeps == ASSUME NEW c \in Callers, IInv, require_change(c) PROVE IInv'
<1> DEFINE r == request[c]
<1>1. Alone(c) /\ Quiet
  BY CallIsAlone DEF require_change, Quiet, serverVars
<1>2. /\ log' = log /\ clock' = clock /\ request'[c] = r /\ token'[c] = token[c]
      /\ served'[c] = served[c] /\ seen'[c] = seen[c] /\ slipped' = slipped /\ pc[c] = "load"
      /\ \/ /\ pc'[c] = "act" /\ answer'[c] = answer[c]
            /\ \E i \in Numbered(r.to, r.num) :
                  /\ r.op = "delete" => MayDelete(log[r.to][i], r.force)
                  /\ loaded'[c] = log[r.to][i].at
         \/ /\ pc'[c] = "done" /\ loaded'[c] = loaded[c]
            /\ answer'[c] \in {"error", "fault", "bundled_change_refused"}
  BY DEF require_change, Goto, Reply, serverVars, IInv, Domains
<1>3. r \in Requests /\ r.to \in Tickets
  BY <1>2 DEF IInv, CallInv, RequestInv, Requests
<1>4. ASSUME pc'[c] = "act"
      PROVE  \E i \in DOMAIN log[r.to] :
                /\ log[r.to][i].num = r.num /\ loaded'[c] = log[r.to][i].at
                /\ r.op = "delete" => MayDelete(log[r.to][i], r.force)
  BY <1>2, <1>4 DEF Numbered
<1>5. RequestInv(c)'
  BY <1>2, <1>3, <1>4, Elements DEF IInv, CallInv, RequestInv
<1>6. TokenInv(c)'
  BY <1>2 DEF TokenInv
<1>7. PinInv(c)'
  <2>1. CASE pc'[c] = "act"
    <3>1. PICK i \in DOMAIN log[r.to] :
             /\ log[r.to][i].num = r.num /\ loaded'[c] = log[r.to][i].at
             /\ r.op = "delete" => MayDelete(log[r.to][i], r.force)
      BY <1>4, <2>1
    <3>2. ASSUME NEW j \in DOMAIN log[r.to], log[r.to][j].at = loaded'[c]
          PROVE  /\ log[r.to][j].num = r.num
                 /\ r.op = "delete" => MayDelete(log[r.to][j], r.force)
      <4>1. i \in Nat /\ j \in Nat /\ log[r.to][i].at \in Nat /\ log[r.to][j].at \in Nat
        BY <1>3, <3>1, <3>2, Elements DEF IInv
      <4>2. ~(i < j) /\ ~(j < i)
        BY <1>3, <3>1, <3>2, <4>1 DEF IInv, LogInv, InOrder
      <4> QED
        BY <3>1, <4>1, <4>2
    <3>3. (r.op = "edit" /\ ~slipped[c]) =>
             r.to = r.from /\ OnlyAt(r.to, r.num, seen[c]) /\ loaded'[c] = seen[c]
      BY <1>2, <3>1 DEF IInv, CallInv, PinInv, OnlyAt, AfterCheck
    <3>4. loaded'[c] # 0
      BY <1>3, <3>1, Elements DEF IInv
    <3>5. \A j \in DOMAIN log'[r.to] : log'[r.to][j].at = loaded'[c] =>
             /\ log'[r.to][j].num = r.num
             /\ r.op = "delete" => MayDelete(log'[r.to][j], r.force)
      BY <1>2, <3>2
    <3> QED
      BY <1>2, <3>3, <3>4, <3>5 DEF PinInv, OnlyAt
  <2>2. CASE pc'[c] = "done"
    BY <2>2 DEF PinInv, AfterCheck
  <2> QED
    BY <1>2, <2>1, <2>2
<1>8. AnswerInv(c)'
  BY <1>2, StillNothing, NothingToShow
<1> QED
  BY <1>1, <1>5, <1>6, <1>7, <1>8, Together DEF Alone, Quiet, CallInv

\* The plugin is done with a call: nothing is asked of it any more but that
\* what it did fits what it answers.
LEMMA DoneKeeps ==
    ASSUME NEW c \in Callers, IInv, pc[c] = "act", pc'[c] = "done",
           request'[c] = request[c], token'[c] = token[c], loaded'[c] \in {0, loaded[c]},
           clock \in Nat, clock' \in Nat, clock <= clock'
    PROVE  RequestInv(c)' /\ TokenInv(c)' /\ PinInv(c)'
  BY DEF IInv, CallInv, RequestInv, TokenInv, PinInv, AfterCheck

LEMMA GoneKeeps == ASSUME NEW c \in Callers, IInv, Gone(c) PROVE IInv'
<1>1. Alone(c) /\ Quiet
  BY CallIsAlone DEF Gone, Quiet, serverVars
<1>2. /\ pc[c] = "act" /\ pc'[c] = "done" /\ request'[c] = request[c] /\ token'[c] = token[c]
      /\ loaded'[c] = loaded[c] /\ served'[c] = served[c]
      /\ answer'[c] \in {"error", "fault", "edited", "deleted"}
  BY StillNothing DEF Gone, Goto, Reply, serverVars, IInv, Domains
<1>3. RequestInv(c)' /\ TokenInv(c)' /\ PinInv(c)'
  <2>1. clock \in Nat /\ clock' \in Nat /\ clock <= clock'
    <3>1. clock \in Nat
      BY DEF IInv, LogInv
    <3>2. clock' = clock
      BY DEF Gone, serverVars
    <3> QED
      BY <3>1, <3>2
  <2> QED
    BY <1>2, <2>1, DoneKeeps
<1>4. AnswerInv(c)'
  <2>1. served'[c] = Nothing /\ ~served'[c].reverts
    BY <1>2, StillNothing, NothingReverts
  <2>2. CASE answer'[c] \in {"error", "fault"}
    BY <1>2, <2>1, <2>2, NothingToShow
  <2>3. CASE answer'[c] \in {"edited", "deleted"}
    <3>1. loaded[c] # 0
      BY <1>2 DEF Gone, IInv, CallInv, PinInv
    <3>2. TakenAway(c)'
      BY <1>2, <3>1 DEF Gone, TakenAway, Timed, serverVars
    <3> QED
      BY <1>2, <2>1, <2>3, <3>2 DEF AnswerInv
  <2> QED
    BY <1>2, <2>2, <2>3
<1> QED
  BY <1>1, <1>3, <1>4, Together DEF Alone, Quiet, CallInv

LEMMA editCommentKeeps == ASSUME NEW c \in Callers, IInv, editComment(c) PROVE IInv'
<1> DEFINE r == request[c]
<1>1. Alone(c) /\ Quiet
  BY CallIsAlone DEF editComment, Quiet, serverVars
<1>2. /\ pc[c] = "act" /\ r.op = "edit" /\ pc'[c] = "done" /\ request'[c] = r
      /\ token'[c] = token[c] /\ seen'[c] = seen[c] /\ loaded'[c] = 0
      /\ slipped' = slipped /\ clock' = clock /\ clock \in Nat
      /\ answer'[c] = IF answer[c] = "error" THEN "error" ELSE "edited"
  BY DEF editComment, Goto, Reply, serverVars, IInv, Domains, LogInv
<1>3. PICK i \in Timed(r.to, loaded[c]) : Done(c, r.to, log[r.to][i], FALSE)
  BY DEF editComment
<1>4. /\ served'[c].ticket = r.to /\ served'[c].at = loaded[c] /\ served'[c].num = r.num
      /\ served'[c].reverts = FALSE
  BY <1>2, <1>3 DEF Done, Timed, IInv, Domains, CallInv, PinInv
<1>5. RequestInv(c)' /\ TokenInv(c)' /\ PinInv(c)'
  BY <1>2, DoneKeeps
<1>6. ~slipped[c] => r.to = r.from /\ loaded[c] = seen[c]
  BY <1>2 DEF IInv, CallInv, PinInv, AfterCheck
<1>7. AnswerInv(c)'
  BY <1>2, <1>4, <1>6 DEF AnswerInv
<1> QED
  BY <1>1, <1>5, <1>7, Together DEF Alone, Quiet, CallInv

LEMMA deleteCommentKeeps == ASSUME NEW c \in Callers, IInv, deleteComment(c) PROVE IInv'
<1> DEFINE r == request[c]
<1>1. Alone(c)
  BY CallIsAlone
<1>2. /\ pc[c] = "act" /\ r.op = "delete" /\ pc'[c] = "done" /\ request'[c] = r
      /\ token'[c] = token[c] /\ loaded'[c] = 0 /\ clock' = clock /\ clock \in Nat
  BY DEF deleteComment, Goto, Reply, IInv, Domains, LogInv
<1>3. r \in Requests /\ r.to \in Tickets
  BY <1>2 DEF IInv, CallInv, RequestInv, Requests
<1>4. PICK i \in Timed(r.to, loaded[c]) :
         Remove1(r.to, i) /\ Done(c, r.to, log[r.to][i], log[r.to][i].fields) /\ Slips(r.to)
  BY DEF deleteComment
<1>5. i \in DOMAIN log[r.to] /\ log[r.to][i].num = r.num /\ MayDelete(log[r.to][i], r.force)
  BY <1>2, <1>4 DEF Timed, IInv, CallInv, PinInv
<1>6. RequestInv(c)' /\ TokenInv(c)' /\ PinInv(c)'
  BY <1>2, DoneKeeps
<1>7. Moves(r.to)
  BY <1>2, <1>3, <1>4, <1>5, Removal DEF IInv
<1>8. /\ served'[c].ticket = r.to /\ served'[c].num = r.num
      /\ served'[c].reverts = log[r.to][i].fields
      /\ answer'[c] \in {"error", "deleted"}
  BY <1>4, <1>5 DEF Done, deleteComment, Reply, IInv, Domains
<1>9. log[r.to][i].fields \in BOOLEAN /\ (log[r.to][i].fields => r.force)
  BY <1>3, <1>5, Elements DEF MayDelete, ChangeSets, IInv
<1>10. AnswerInv(c)'
  BY <1>2, <1>8, <1>9 DEF AnswerInv
<1> QED
  BY <1>1, <1>3, <1>6, <1>7, <1>10, Together DEF Alone, CallInv

LEMMA replyToCommentKeeps == ASSUME NEW c \in Callers, IInv, replyToComment(c) PROVE IInv'
<1> DEFINE r   == request[c]
           set == ChangeSet(NextNumber(r.to), clock + 1, FALSE, r.num)
<1>1. Alone(c)
  BY CallIsAlone
<1>2. /\ pc[c] = "act" /\ r.op = "reply" /\ pc'[c] = "done" /\ request'[c] = r
      /\ token'[c] = token[c] /\ loaded'[c] = 0 /\ clock' = clock + 1 /\ clock \in Nat
      /\ answer'[c] \in {"error", "posted"}
      /\ Append1(r.to, set) /\ Done(c, r.to, set, FALSE) /\ Slips(r.to)
  BY DEF replyToComment, Goto, Reply, IInv, Domains, LogInv
<1>3. r.to \in Tickets /\ r.num \in Nat
  BY <1>2, CommentsAssumption DEF IInv, CallInv, RequestInv, Requests
<1>4. Moves(r.to)
  BY <1>2, <1>3, Addition DEF IInv
<1>5. RequestInv(c)' /\ TokenInv(c)' /\ PinInv(c)'
  BY <1>2, DoneKeeps
<1>6. served'[c].ticket = r.to /\ served'[c].parent = r.num /\ served'[c].reverts = FALSE
  BY <1>2 DEF Done, ChangeSet, IInv, Domains
<1>7. AnswerInv(c)'
  BY <1>2, <1>6 DEF AnswerInv
<1> QED
  BY <1>1, <1>3, <1>4, <1>5, <1>7, Together DEF Alone, CallInv

LEMMA NextKeeps == IInv /\ [Next]_vars => IInv'
<1> SUFFICES ASSUME IInv, [Next]_vars PROVE IInv'
  OBVIOUS
<1>1. CASE UNCHANGED vars
  <2>1. /\ UNCHANGED <<log, clock, slipped, pc, request, token, seen, answer, loaded, served>>
    BY <1>1 DEF vars, serverVars, callVars
  <2>2. \A c \in Callers : CallInv(c)'
    BY <2>1, QuietBystander DEF IInv, Still
  <2> QED
    BY <2>1, <2>2 DEF IInv, LogInv, InOrder, Domains
<1>2. ASSUME NEW t \in Tickets, Other(t) PROVE IInv'
  BY <1>2, OtherKeeps
<1>3. ASSUME NEW c \in Callers,
             \/ ReadTicket(c) \/ ReadChangelog(c)
             \/ check_base_ts(c) \/ gate_or_refuse(c) \/ send(c) \/ GiveUp(c)
             \/ require_change(c) \/ Gone(c)
             \/ editComment(c) \/ deleteComment(c) \/ replyToComment(c)
      PROVE  IInv'
  BY <1>3, ReadTicketKeeps, ReadChangelogKeeps, check_base_tsKeeps, gate_or_refuseKeeps,
     sendKeeps, GiveUpKeeps, require_changeKeeps, GoneKeeps, editCommentKeeps,
     deleteCommentKeeps, replyToCommentKeeps
<1> QED
  BY <1>1, <1>2, <1>3 DEF Next

LEMMA Invariant == Spec => []IInv
  BY InitHolds, NextKeeps, PTL DEF Spec

\* An edit changes the comment its caller read, on the ticket he read it on,
\* whatever is deleted and numbered again meanwhile, unless the ticket
\* changes between _check_base_ts and the edit.
THEOREM EditsAreOfWhatWasRead == Spec => []EditIsOfWhatWasRead
  BY Invariant, InvariantImplies, PTL

\* What ticket_comment_edit, _delete and a reply say was done was done, but
\* for an edit or a deletion of a comment that somebody deletes in the middle
\* of it; what they refuse was not; fields are taken back only with force.
THEOREM AnswersTrue == Spec => []AnswersAreTrue
  BY Invariant, InvariantImplies, PTL

===============================================================================
