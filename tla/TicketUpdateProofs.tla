-------------------------- MODULE TicketUpdateProofs --------------------------
(***************************************************************************)
(* Proofs about TicketUpdate, for any calls, texts and changes by anybody  *)
(* else, and any length of a second: that the token is a lock, that a      *)
(* refusal and "nothing stored" are true, that a conflict names every      *)
(* change since the token, and what the verdict about the posted comment   *)
(* is worth.                                                               *)
(***************************************************************************)
EXTENDS TicketUpdate, FiniteSetTheorems, TLAPS

(***************************************************************************)
(* The inductive invariant.                                                *)
(***************************************************************************)

\* Times rise, and Trac stores no comment that is blank.
LogInv ==
    /\ \A i \in 1 .. Len(log) : log[i].ts > 1 /\ log[i].text # Blank
    /\ \A i, j \in 1 .. Len(log) : i < j => log[i].ts < log[j].ts

\* The token of the state that has the first n changes.
TimeOf(n) == IF n = 0 THEN 1 ELSE log[n].ts

\* The tokens: what they were read from.
TokenInv(c) ==
    /\ given[c] => base[c] = TimeOf(basis[c])
    /\ newTs[c] # NoTs => newTs[c] = TimeOf(covers[c])
    /\ srv[c] = "queued" => lock[c] = TimeOf(basis[c])
    /\ reply[c] = "collision" => Len(log) > basis[c]

\* Where the request is, and whether it has stored a change.
RequestInv(c) ==
    /\ pc[c] \in {"idle", "ready", "mint"} => srv[c] = "idle" /\ reply[c] = "none" /\ own[c] = 0
    /\ srv[c] = "queued" => own[c] = 0
    /\ srv[c] # "idle" => reply[c] = "none"
    /\ srv[c] = "saved" \/ reply[c] = "ok" => (own[c] # 0 <=> Changes(update[c]))
    /\ own[c] # 0 => srv[c] = "saved" \/ reply[c] = "ok"

\* The change it has stored.
OwnInv(c) ==
    own[c] # 0 =>
        /\ log[own[c]].text = update[c].text /\ log[own[c]].author = Me /\ ~log[own[c]].threaded
        /\ own[c] = basis[c] + 1
        /\ reply[c] = "ok" => log[own[c]].ts <= newTs[c]

\* What the caller is told, and on which answer.
ToldInv(c) ==
    /\ pc[c] = "done" <=> result[c] # "none"
    /\ pc[c] = "explain" => reply[c] = "collision" /\ given[c]
    /\ pc[c] \in {"plugin", "scan"} \/ result[c] \in {"matched", "mismatched"} => reply[c] = "ok"
    /\ result[c] \in {"nothing", "refused", "conflict", "error"} => srv[c] = "idle" /\ own[c] = 0
    /\ result[c] = "matched" =>
         /\ number[c] # 0 /\ log[number[c]].text = update[c].text /\ update[c].text # NoText
    /\ result[c] = "mismatched" /\ own[c] # 0 => newTs[c] # log[own[c]].ts
    /\ pc[c] \in {"plugin", "scan"} => update[c].text # NoText
    /\ explained[c] # 0 => pc[c] = "done"

\* What a conflict names, once it could be explained.
NamedInv(c) ==
    explained[c] # 0 =>
        /\ explained[c] > basis[c]
        /\ basis[c] + 1 .. explained[c] \subseteq named[c]

CallInv(c) == RequestInv(c) /\ TokenInv(c) /\ OwnInv(c) /\ ToldInv(c) /\ NamedInv(c)
IInv == TypeOK /\ LogInv /\ \A c \in Calls : CallInv(c)

(***************************************************************************)
(* Seconds.                                                                *)
(***************************************************************************)

LEMMA Division ==
    ASSUME NEW n \in Nat \ {0, 1}, NEW x \in Nat
    PROVE  x \div n \in Int /\ x % n \in 0 .. n - 1 /\ x = n * (x \div n) + (x % n)
  BY SMTT(20)

LEMMA SecondEnds == ASSUME NEW x \in Nat PROVE (Second(x) + 1) * TicksPerSecond > x
<1> DEFINE n == TicksPerSecond  q == x \div n  r == x % n
<1>1. n \in Nat \ {0, 1} /\ q \in Int /\ r \in 0 .. n - 1 /\ x = n * q + r
  BY TicketUpdateAssumption, Division
<1> HIDE DEF n, q, r
<1>2. (q + 1) * n = n * q + n
  BY <1>1, SMTT(20)
<1>3. n * q \in Int
  BY <1>1
<1>4. (q + 1) * n > x
  BY <1>1, <1>2, <1>3
<1> QED
  BY <1>4 DEF Second, q, n

LEMMA SecondsRise ==
    ASSUME NEW x \in Nat, NEW y \in Nat, x <= y PROVE Second(x) <= Second(y)
<1> DEFINE n == TicksPerSecond  q == x \div n  p == y \div n
<1>1. /\ n \in Nat \ {0, 1} /\ q \in Int /\ p \in Int
      /\ \E r \in 0 .. n - 1 : x = n * q + r
      /\ \E r \in 0 .. n - 1 : y = n * p + r
  BY TicketUpdateAssumption, Division
<1> HIDE DEF n, q, p
<1>2. ASSUME p < q PROVE FALSE
  <2>1. p + 1 <= q
    BY <1>1, <1>2
  <2>2. n * (p + 1) <= n * q
    BY <1>1, <2>1, SMTT(20)
  <2>3. n * (p + 1) = n * p + n
    BY <1>1, SMTT(20)
  <2>4. n * p \in Int /\ n * q \in Int
    BY <1>1
  <2> QED
    BY <1>1, <2>2, <2>3, <2>4
<1>3. q <= p
  BY <1>1, <1>2
<1> QED
  BY <1>3 DEF Second, q, p, n

LEMMA SecondType == ASSUME NEW x \in Nat PROVE Second(x) \in Nat
<1>1. Second(0) <= Second(x) /\ Second(x) \in Int
  BY SecondsRise, Division, TicketUpdateAssumption DEF Second
<1>2. (Second(0) + 1) * TicksPerSecond > 0 /\ Second(0) \in Int
  BY SecondEnds, Division, TicketUpdateAssumption DEF Second
<1>3. ASSUME Second(0) < 0 PROVE FALSE
  <2>1. Second(0) + 1 <= 0 /\ TicksPerSecond \in Nat
    BY <1>2, <1>3, TicketUpdateAssumption
  <2>2. (Second(0) + 1) * TicksPerSecond <= 0
    BY <1>2, <2>1, SMTT(20)
  <2> QED
    BY <1>2, <2>1, <2>2
<1> QED
  BY <1>1, <1>2, <1>3

LEMMA TimesRise ==
    ASSUME TypeOK, LogInv
    PROVE  /\ Token \in Nat /\ Token >= 1
           /\ \A ts \in Times : ts \in Nat /\ ts > Token
<1>1. Len(log) \in Nat /\ \A i \in 1 .. Len(log) : log[i] \in Change
  BY DEF TypeOK
<1>2. Token \in Nat /\ Token >= 1
  <2>1. CASE log = <<>>
    BY <2>1 DEF Token
  <2>2. CASE log # <<>>
    <3>1. Len(log) \in 1 .. Len(log)
      BY <1>1, <2>2 DEF TypeOK
    <3>2. log[Len(log)].ts \in Nat /\ log[Len(log)].ts > 1
      BY <1>1, <3>1 DEF Change, LogInv
    <3> QED
      BY <2>2, <3>2 DEF Token
  <2> QED
    BY <2>1, <2>2
<1>3. (Second(Token) + 1) * TicksPerSecond > Token
  BY <1>2, SecondEnds
<1>4. (Second(Token) + 1) * TicksPerSecond \in Nat
  BY <1>2, SecondType, TicketUpdateAssumption, SMTT(20)
<1> QED
  BY <1>2, <1>3, <1>4 DEF Times

(***************************************************************************)
(* What a step may do to the ticket.                                       *)
(***************************************************************************)

LEMMA Elements ==
    ASSUME TypeOK
    PROVE  /\ Len(log) \in Nat /\ DOMAIN log = 1 .. Len(log)
           /\ \A i \in 1 .. Len(log) :
                 /\ log[i] \in Change /\ log[i].ts \in Nat
                 /\ log[i].text \in Texts \cup {NoText, Blank}
<1>1. Len(log) \in Nat /\ DOMAIN log = 1 .. Len(log) /\ \A i \in 1 .. Len(log) : log[i] \in Change
  BY DEF TypeOK
<1> QED
  BY <1>1 DEF Change

Extends ==
    /\ Len(log') \in Nat /\ Len(log) <= Len(log')
    /\ \A i \in 1 .. Len(log) : log'[i] = log[i]

\* A change is stored: the log grows by it, at a later time.
LEMMA Growth ==
    ASSUME TypeOK, LogInv, NEW author \in {Me, Other}, NEW text \in Texts \cup {NoText},
           NEW threaded \in BOOLEAN, Stored(author, text, threaded)
    PROVE  /\ log' \in Seq(Change) /\ LogInv' /\ Extends /\ Len(log') = Len(log) + 1
           /\ log'[Len(log) + 1].author = author /\ log'[Len(log) + 1].text = text
           /\ log'[Len(log) + 1].threaded = threaded
           /\ log'[Len(log) + 1].ts > Token
<1>1. PICK ts \in Times : log' = Append(log, [ts |-> ts, author |-> author, text |-> text,
                                              threaded |-> threaded])
  BY DEF Stored
<1> DEFINE set == [ts |-> ts, author |-> author, text |-> text, threaded |-> threaded]
<1>2. ts \in Nat /\ ts > Token /\ Token \in Nat /\ Token >= 1
  BY TimesRise
<1>3. /\ set \in Change /\ set.ts = ts /\ set.author = author /\ set.text = text
      /\ set.threaded = threaded
  BY <1>2 DEF Change
<1> HIDE DEF set
<1>4. /\ log' \in Seq(Change) /\ Len(log') = Len(log) + 1 /\ Len(log) \in Nat
      /\ \A i \in 1 .. Len(log) : log'[i] = log[i]
      /\ log'[Len(log) + 1] = set
  BY <1>1, <1>3 DEF TypeOK, set
<1>5. text # Blank
  BY TicketUpdateAssumption DEF NoText, Blank
<1>6. \A i \in 1 .. Len(log) : log[i].ts \in Nat /\ log[i].ts <= Token
  <2> SUFFICES ASSUME NEW i \in 1 .. Len(log) PROVE log[i].ts \in Nat /\ log[i].ts <= Token
    OBVIOUS
  <2>1. log[i].ts \in Nat /\ log[Len(log)].ts \in Nat /\ Len(log) \in 1 .. Len(log)
    BY <1>4, Elements
  <2>2. i = Len(log) \/ log[i].ts < log[Len(log)].ts
    BY <1>4, <2>1 DEF LogInv
  <2>3. Token = log[Len(log)].ts
    BY <1>4 DEF Token
  <2> QED
    BY <2>1, <2>2, <2>3
<1>7. LogInv'
  <2>1. ASSUME NEW i \in 1 .. Len(log') PROVE log'[i].ts > 1 /\ log'[i].text # Blank
    <3>1. CASE i \in 1 .. Len(log)
      BY <1>4, <3>1 DEF LogInv
    <3>2. CASE i = Len(log) + 1
      BY <1>2, <1>3, <1>4, <1>5, <3>2
    <3> QED
      BY <1>4, <2>1, <3>1, <3>2
  <2>2. ASSUME NEW i \in 1 .. Len(log'), NEW j \in 1 .. Len(log'), i < j
        PROVE  log'[i].ts < log'[j].ts
    <3>1. i \in 1 .. Len(log)
      BY <1>4, <2>2
    <3>2. CASE j \in 1 .. Len(log)
      BY <1>4, <2>2, <3>1, <3>2 DEF LogInv
    <3>3. CASE j = Len(log) + 1
      <4>1. log'[i].ts \in Nat /\ log'[i].ts <= Token /\ log'[j].ts = ts
        BY <1>3, <1>4, <1>6, <3>1, <3>3
      <4> QED
        BY <1>2, <4>1
    <3> QED
      BY <1>4, <2>2, <3>2, <3>3
  <2> QED
    BY <2>1, <2>2 DEF LogInv
<1>8. Extends
  BY <1>4 DEF Extends
<1> QED
  BY <1>2, <1>3, <1>4, <1>7, <1>8

\* The ticket's token is that of all its changes, and no earlier state's.
LEMMA TokenIsUnique ==
    ASSUME IInv
    PROVE  /\ Token = TimeOf(Len(log)) /\ Len(log) \in Nat
           /\ \A n \in 0 .. Len(log) : TimeOf(n) = Token => n = Len(log)
<1>1. Len(log) \in Nat /\ Token = TimeOf(Len(log))
  <2>1. Len(log) \in Nat /\ (log = <<>> <=> Len(log) = 0)
    BY Elements DEF IInv, TypeOK
  <2> QED
    BY <2>1 DEF Token, TimeOf
<1>2. ASSUME NEW n \in 0 .. Len(log), n # Len(log) PROVE TimeOf(n) # Token
  <2>1. Len(log) \in 1 .. Len(log) /\ (n = 0 \/ n \in 1 .. Len(log)) /\ n < Len(log)
    BY <1>1, <1>2
  <2>2. log[Len(log)].ts \in Nat /\ log[Len(log)].ts > 1 /\ Token = log[Len(log)].ts
    BY <1>1, <2>1, Elements DEF IInv, LogInv, TimeOf
  <2>3. CASE n = 0
    BY <2>2, <2>3 DEF TimeOf
  <2>4. CASE n \in 1 .. Len(log)
    <3>1. log[n].ts < log[Len(log)].ts /\ log[n].ts \in Nat /\ n # 0
      BY <2>1, <2>4, Elements DEF IInv, LogInv
    <3> QED
      BY <2>2, <3>1 DEF TimeOf
  <2> QED
    BY <2>1, <2>3, <2>4
<1> QED
  BY <1>1, <1>2

(***************************************************************************)
(* A call that does nothing keeps its part of the invariant.               *)
(***************************************************************************)

Still(c) ==
    /\ pc'[c] = pc[c] /\ update'[c] = update[c] /\ base'[c] = base[c] /\ given'[c] = given[c]
    /\ lock'[c] = lock[c] /\ srv'[c] = srv[c] /\ reply'[c] = reply[c] /\ newTs'[c] = newTs[c]
    /\ result'[c] = result[c] /\ number'[c] = number[c] /\ named'[c] = named[c]
    /\ own'[c] = own[c] /\ basis'[c] = basis[c] /\ covers'[c] = covers[c]
    /\ explained'[c] = explained[c]

\* The tokens read of the ticket as it was stay those of its first changes.
LEMMA TimesKeep ==
    ASSUME TypeOK, Extends
    PROVE  \A n \in 0 .. Len(log) : TimeOf(n)' = TimeOf(n)
<1> SUFFICES ASSUME NEW n \in 0 .. Len(log) PROVE TimeOf(n)' = TimeOf(n)
  OBVIOUS
<1>1. n = 0 \/ n \in 1 .. Len(log)
  BY Elements
<1> QED
  BY <1>1 DEF Extends, TimeOf

LEMMA Bystander ==
    ASSUME NEW c \in Calls, TypeOK, CallInv(c), Still(c), Extends
    PROVE  CallInv(c)'
<1>1. own[c] \in 0 .. Len(log) /\ number[c] \in 0 .. Len(log) /\ Len(log) \in Nat
  BY Elements DEF TypeOK
<1>2. \A i \in 0 .. Len(log) : i # 0 => log'[i] = log[i]
  BY <1>1 DEF Extends
<1>3. RequestInv(c)'
  BY DEF Still, CallInv, RequestInv
<1>4. OwnInv(c)'
  BY <1>1, <1>2 DEF Still, CallInv, OwnInv
<1>5. ToldInv(c)'
  BY <1>1, <1>2 DEF Still, CallInv, ToldInv
<1>6. NamedInv(c)'
  BY DEF Still, CallInv, NamedInv
<1>7. TokenInv(c)'
  <2>1. TimeOf(basis[c])' = TimeOf(basis[c]) /\ TimeOf(covers[c])' = TimeOf(covers[c])
    <3>1. basis[c] \in 0 .. Len(log) /\ covers[c] \in 0 .. Len(log)
      BY DEF TypeOK
    <3>2. basis'[c] = basis[c] /\ covers'[c] = covers[c]
      BY DEF Still
    <3> QED
      BY <3>1, <3>2, TimesKeep DEF TimeOf
  <2>2. Len(log') \in Nat /\ Len(log) <= Len(log') /\ basis[c] \in Nat /\ Len(log) \in Nat
    BY <1>1 DEF Extends, TypeOK
  <2> QED
    BY <2>1, <2>2 DEF Still, CallInv, TokenInv
<1> QED
  BY <1>3, <1>4, <1>5, <1>6, <1>7 DEF CallInv

LEMMA Together ==
    ASSUME NEW c \in Calls, IInv, TypeOK', LogInv', CallInv(c)', Extends,
           \A d \in Calls \ {c} : Still(d)
    PROVE  IInv'
<1>1. ASSUME NEW d \in Calls \ {c} PROVE CallInv(d)'
  BY Bystander DEF IInv
<1> QED
  BY <1>1 DEF IInv

LEMMA InitHolds == Init => IInv
<1> SUFFICES ASSUME Init PROVE IInv
  OBVIOUS
<1>1. TypeOK
  BY DEF Init, TypeOK, Results, NoTs, NoUpdate
<1>2. LogInv
  BY DEF Init, LogInv
<1>3. ASSUME NEW c \in Calls PROVE CallInv(c)
  BY <1>3 DEF Init, CallInv, RequestInv, TokenInv, OwnInv, ToldInv, NamedInv
<1> QED
  BY <1>1, <1>2, <1>3 DEF IInv

LEMMA InvariantImplies ==
    IInv => LockIsExact /\ NotStoredWhenSaid /\ VerdictsAreTrue /\ ConflictNamesAll
<1> SUFFICES ASSUME IInv
             PROVE  LockIsExact /\ NotStoredWhenSaid /\ VerdictsAreTrue /\ ConflictNamesAll
  OBVIOUS
<1>1. LockIsExact
  BY DEF IInv, CallInv, OwnInv, TokenInv, LockIsExact
<1>2. NotStoredWhenSaid
  BY DEF IInv, CallInv, ToldInv, NotStoredWhenSaid
<1>3. ConflictNamesAll
  BY DEF IInv, CallInv, NamedInv, ConflictNamesAll
<1>4. ASSUME NEW c \in Calls, result[c] = "matched"
      PROVE  own[c] # 0 /\ log[number[c]].text = log[own[c]].text
  <2>1. number[c] \in 1 .. Len(log) /\ log[number[c]].text = update[c].text /\ update[c].text # NoText
    BY <1>4, Elements DEF IInv, TypeOK, CallInv, ToldInv
  <2>2. update[c].text \in Texts
    BY <2>1, Elements DEF IInv, LogInv
  <2>3. own[c] # 0
    BY <1>4, <2>2 DEF IInv, CallInv, ToldInv, RequestInv, Changes
  <2> QED
    BY <2>1, <2>3 DEF IInv, CallInv, OwnInv
<1>5. ASSUME NEW c \in Calls, result[c] \in {"matched", "mismatched"}, own[c] # 0,
             newTs[c] = log[own[c]].ts,
             \A i \in 1 .. Len(log) : log[i].text = update[c].text => i = own[c]
      PROVE  result[c] = "matched" /\ number[c] = own[c]
  <2>1. result[c] = "matched"
    BY <1>5 DEF IInv, CallInv, ToldInv
  <2>2. number[c] \in 1 .. Len(log) /\ log[number[c]].text = update[c].text
    BY <2>1, Elements DEF IInv, TypeOK, CallInv, ToldInv
  <2> QED
    BY <1>5, <2>1, <2>2
<1>6. VerdictsAreTrue
  BY <1>4, <1>5 DEF VerdictsAreTrue, MatchedIsOwnOrTwin, VerdictIsOwn
<1> QED
  BY <1>1, <1>2, <1>3, <1>6

(***************************************************************************)
(* The steps.                                                              *)
(***************************************************************************)

\* A step of one call is of that call only, and leaves the log alone but when
\* the server stores the change.
Alone(c) == \A d \in Calls \ {c} : Still(d)

Step(c) ==
    \/ Begin(c) \/ Gate(c) \/ Handler(c) \/ Serve(c) \/ Reread(c)

LEMMA StepIsAlone == ASSUME NEW c \in Calls, TypeOK, Step(c) PROVE Alone(c)
<1> USE DEF TypeOK, Alone, Still, callVars, replyVars, toldVars, pastVars
<1>1. CASE Begin(c)
  BY <1>1 DEF Begin, Goto
<1>2. CASE Gate(c)
  BY <1>2 DEF Gate, Finish, Goto
<1>3. CASE SendUpdate(c)
  BY <1>3 DEF SendUpdate, Finish, Goto
<1>4. CASE Serve(c)
  BY <1>4 DEF Serve
<1>5. CASE Reread(c)
  BY <1>5 DEF Reread
<1>6. CASE GiveUp(c)
  BY <1>6 DEF GiveUp, Finish
<1>7. CASE Receive(c)
  BY <1>7 DEF Receive, Finish, Goto
<1>8. CASE Explain(c)
  BY <1>8 DEF Explain, Finish
<1>9. CASE AskPlugin(c)
  BY <1>9 DEF AskPlugin, Tell, Finish
<1>10. CASE PluginDoesNotTell(c)
  BY <1>10 DEF PluginDoesNotTell, Goto
<1>11. CASE Scan(c)
  BY <1>11 DEF Scan, Tell, Finish
<1>12. CASE ScanFails(c)
  BY <1>12 DEF ScanFails, Tell, Finish
<1> QED
  BY <1>1, <1>2, <1>3, <1>4, <1>5, <1>6, <1>7, <1>8, <1>9, <1>10, <1>11, <1>12 DEF Step, Handler

LEMMA QuietTypes ==
    ASSUME NEW c \in Calls, IInv, Step(c), ~Serve(c)
    PROVE  log' = log /\ TypeOK'
<1> USE DEF TypeOK, callVars, replyVars, toldVars, pastVars, Results
<1>1. TypeOK
  BY DEF IInv
<1>2. CASE Begin(c)
  <2>1. Token \in Nat
    BY TimesRise DEF IInv
  <2> QED
    <3>1. given' \in [Calls -> BOOLEAN] /\ update' \in [Calls -> Updates \cup {NoUpdate}]
      <4>1. \E b \in BOOLEAN : given' = given \/ given' = [given EXCEPT ![c] = b]
        BY <1>2 DEF Begin
      <4>2. \E u \in Updates : update' = [update EXCEPT ![c] = u]
        BY <1>2 DEF Begin
      <4>3. given' \in [Calls -> BOOLEAN]
        BY <1>1, <4>1
      <4>4. update' \in [Calls -> Updates \cup {NoUpdate}]
        BY <1>1, <4>2
      <4> QED
        BY <4>3, <4>4
    <3>2. \A read \in TokensRead : read.ts \in Nat /\ read.changes \in 0 .. Len(log)
      <4>1. Len(log) \in 0 .. Len(log)
        BY <1>1, Elements
      <4>2. \A d \in Calls : newTs[d] \in Nat /\ covers[d] \in 0 .. Len(log)
        BY <1>1
      <4> QED
        BY <2>1, <4>1, <4>2 DEF TokensRead
    <3>3. base' \in [Calls -> Nat] /\ basis' \in [Calls -> 0 .. Len(log)]
      BY <1>1, <1>2, <3>2 DEF Begin
    <3> QED
      BY <1>1, <1>2, <3>1, <3>3 DEF Begin, Goto
<1>3. CASE Gate(c)
  BY <1>1, <1>3 DEF Gate, Finish, Goto
<1>4. CASE SendUpdate(c)
  <2>1. LockToken(c) \in Nat
    BY <1>1, TimesRise DEF IInv, LockToken
  <2> QED
    <3>1. lock' \in [Calls -> Nat]
      BY <1>1, <1>4, <2>1 DEF SendUpdate
    <3>2. srv' \in [Calls -> {"idle", "queued", "saved"}]
      BY <1>1, <1>4 DEF SendUpdate
    <3>3. basis' \in [Calls -> 0 .. Len(log)]
      <4>1. Len(log) \in 0 .. Len(log)
        BY <1>1, Elements
      <4>2. \E n \in 0 .. Len(log) : basis' = basis \/ basis' = [basis EXCEPT ![c] = n]
        BY <1>1, <1>4, <4>1 DEF SendUpdate
      <4> QED
        BY <1>1, <4>2
    <3> QED
      BY <1>1, <1>4, <3>1, <3>2, <3>3 DEF SendUpdate, Goto, Finish
<1>6. CASE Reread(c)
  <2>1. Token \in Nat
    BY TimesRise DEF IInv
  <2>2. covers' \in [Calls -> 0 .. Len(log)]
    BY <1>1, <1>6, Elements DEF Reread
  <2> QED
    BY <1>1, <1>6, <2>1, <2>2 DEF Reread
<1>7. CASE GiveUp(c)
  BY <1>1, <1>7 DEF GiveUp, Finish
<1>8. CASE Receive(c)
  BY <1>1, <1>8 DEF Receive, Finish, Goto
<1>9. CASE Explain(c)
  <2>1. named' \in [Calls -> SUBSET (1 .. Len(log))]
    <3> DEFINE since == {i \in 1 .. Len(log) : Since(i, base[c])}
    <3>1. since \in SUBSET (1 .. Len(log))
      OBVIOUS
    <3> HIDE DEF since
    <3>2. named' = named \/ named' = [named EXCEPT ![c] = since]
      BY <1>9 DEF Explain, since
    <3> QED
      BY <1>1, <3>1, <3>2
  <2>2. explained' \in [Calls -> 0 .. Len(log)]
    <3>1. Len(log) \in 0 .. Len(log)
      BY <1>1, Elements
    <3>2. explained' = explained \/ explained' = [explained EXCEPT ![c] = Len(log)]
      BY <1>9 DEF Explain
    <3> QED
      BY <1>1, <3>1, <3>2
  <2> QED
    BY <1>1, <1>9, <2>1, <2>2 DEF Explain, Finish
<1>10. CASE AskPlugin(c)
  <2>1. PICK n \in 1 .. Len(log) : Tell(c, n, "matched")
    BY <1>10 DEF AskPlugin
  <2>2. n \in 0 .. Len(log)
    BY <1>1, Elements
  <2> QED
    BY <1>1, <1>10, <2>1, <2>2 DEF AskPlugin, Tell, Finish
<1>11. CASE PluginDoesNotTell(c)
  BY <1>1, <1>11 DEF PluginDoesNotTell, Goto
<1>12. CASE Scan(c)
  <2>1. PICK n \in 0 .. Len(log), v \in {"matched", "mismatched", "unnumbered"} : Tell(c, n, v)
    <3>1. 0 \in 0 .. Len(log) /\ \A n \in 1 .. Len(log) : n \in 0 .. Len(log)
      BY <1>1, Elements
    <3>2. Chosen(c) \subseteq 1 .. Len(log)
      BY DEF Chosen, Candidates
    <3> QED
      BY <1>12, <3>1, <3>2 DEF Scan
  <2> QED
    BY <1>1, <1>12, <2>1 DEF Scan, Tell, Finish
<1>13. CASE ScanFails(c)
  <2>1. 0 \in 0 .. Len(log)
    BY <1>1, Elements
  <2> QED
    BY <1>1, <1>13, <2>1 DEF ScanFails, Tell, Finish
<1> QED
  BY <1>2, <1>3, <1>4, <1>6, <1>7, <1>8, <1>9, <1>10, <1>11, <1>12, <1>13 DEF Step, Handler

\* The log as it is extends itself, and is in order as it was.
LEMMA NoGrowth == ASSUME IInv, log' = log PROVE Extends /\ LogInv'
  BY Elements DEF IInv, Extends, LogInv


LEMMA QuietStep ==
    ASSUME NEW c \in Calls, IInv, Step(c), ~Serve(c), CallInv(c)'
    PROVE  IInv'
<1>1. TypeOK' /\ LogInv' /\ Extends /\ Alone(c)
  BY QuietTypes, NoGrowth, StepIsAlone DEF IInv
<1> QED
  BY <1>1, Together DEF Alone

\* What a token says it was read from, it was read from.
LEMMA TokensReadAreTrue ==
    ASSUME IInv PROVE \A read \in TokensRead : read.ts = TimeOf(read.changes)
  BY TokenIsUnique DEF TokensRead, IInv, CallInv, TokenInv

LEMMA BeginKeeps == ASSUME NEW c \in Calls, IInv, Begin(c) PROVE CallInv(c)'
<1>1. /\ pc[c] = "idle" /\ pc'[c] = "ready" /\ log' = log
      /\ UNCHANGED <<srv, reply, own, result, named, newTs, covers, explained>>
      /\ \/ given'[c] = given[c] /\ base'[c] = base[c] /\ basis'[c] = basis[c]
         \/ \E read \in TokensRead : base'[c] = read.ts /\ basis'[c] = read.changes
  BY DEF Begin, Goto, replyVars, toldVars, IInv, TypeOK
<1>2. /\ srv[c] = "idle" /\ reply[c] = "none" /\ own[c] = 0 /\ result[c] = "none"
      /\ explained[c] = 0
  BY <1>1 DEF IInv, CallInv, RequestInv, ToldInv
<1>3. TokenInv(c)'
  <2>1. given'[c] => base'[c] = TimeOf(basis'[c])
    BY <1>1, TokensReadAreTrue DEF IInv, CallInv, TokenInv
  <2> QED
    BY <1>1, <1>2, <2>1 DEF IInv, CallInv, TokenInv, TimeOf
<1> QED
  BY <1>1, <1>2, <1>3 DEF CallInv, RequestInv, OwnInv, ToldInv, NamedInv

LEMMA GateKeeps == ASSUME NEW c \in Calls, IInv, Gate(c) PROVE CallInv(c)'
<1>1. /\ pc[c] = "ready"
      /\ UNCHANGED <<log, update, base, given, lock, srv, reply, newTs, number, named, own, basis,
                     covers, explained>>
      /\ \/ pc'[c] = "done" /\ result'[c] = "refused"
         \/ pc'[c] = "mint" /\ result' = result
  BY DEF Gate, Goto, Finish, callVars, replyVars, toldVars, pastVars, IInv, TypeOK
<1>2. /\ srv[c] = "idle" /\ reply[c] = "none" /\ own[c] = 0 /\ result[c] = "none"
      /\ explained[c] = 0
  BY <1>1 DEF IInv, CallInv, RequestInv, ToldInv
<1>3. TokenInv(c)'
  BY <1>1 DEF IInv, CallInv, TokenInv, TimeOf
<1> QED
  BY <1>1, <1>2, <1>3 DEF CallInv, RequestInv, OwnInv, ToldInv, NamedInv

\* The token sent is that of the state the call goes by.
LEMMA SendUpdateKeeps == ASSUME NEW c \in Calls, IInv, SendUpdate(c) PROVE CallInv(c)'
<1>1. /\ pc[c] = "mint"
      /\ UNCHANGED <<log, update, base, given, reply, newTs, own, number, named, covers, explained>>
      /\ \/ /\ pc'[c] = "wait" /\ result' = result /\ srv'[c] = "queued"
            /\ lock'[c] = LockToken(c) /\ basis'[c] = IF given[c] THEN basis[c] ELSE Len(log)
         \/ pc'[c] = "done" /\ result'[c] = "error" /\ UNCHANGED <<srv, lock, basis>>
  BY DEF SendUpdate, Goto, Finish, toldVars, IInv, TypeOK
<1>2. /\ srv[c] = "idle" /\ reply[c] = "none" /\ own[c] = 0 /\ result[c] = "none"
      /\ explained[c] = 0
  BY <1>1 DEF IInv, CallInv, RequestInv, ToldInv
<1>3. TokenInv(c)'
  <2>1. srv'[c] = "queued" => lock'[c] = TimeOf(basis'[c])
    BY <1>1, <1>2, TokenIsUnique DEF LockToken, IInv, CallInv, TokenInv
  <2>2. given[c] => basis'[c] = basis[c]
    BY <1>1
  <2> QED
    BY <1>1, <1>2, <2>1, <2>2 DEF IInv, CallInv, TokenInv, TimeOf
<1> QED
  BY <1>1, <1>2, <1>3 DEF CallInv, RequestInv, OwnInv, ToldInv, NamedInv

LEMMA RereadKeeps == ASSUME NEW c \in Calls, IInv, Reread(c) PROVE CallInv(c)'
<1>1. /\ srv[c] = "saved" /\ srv'[c] = "idle" /\ reply'[c] = "ok" /\ newTs'[c] = Token
      /\ covers'[c] = Len(log)
      /\ UNCHANGED <<log, pc, update, base, given, lock, result, number, named, own, basis,
                     explained>>
  BY DEF Reread, callVars, toldVars, IInv, TypeOK
<1>2. reply[c] = "none" /\ (own[c] # 0 <=> Changes(update[c])) /\ pc[c] \notin {"idle", "ready", "mint"}
  BY <1>1 DEF IInv, CallInv, RequestInv
<1>3. own[c] # 0 => log[own[c]].ts <= Token
  <2> SUFFICES ASSUME own[c] # 0 PROVE log[own[c]].ts <= Token
    OBVIOUS
  <2>1. own[c] \in 1 .. Len(log) /\ Len(log) \in Nat
    BY Elements DEF IInv, TypeOK
  <2>2. Token = log[Len(log)].ts /\ Len(log) \in 1 .. Len(log)
    BY <2>1 DEF Token
  <2>3. own[c] = Len(log) \/ log[own[c]].ts < log[Len(log)].ts
    BY <2>1, <2>2 DEF IInv, LogInv
  <2>4. log[own[c]].ts \in Nat /\ log[Len(log)].ts \in Nat
    BY <2>1, <2>2, Elements DEF IInv
  <2> QED
    BY <2>2, <2>3, <2>4
<1>4. RequestInv(c)'
  BY <1>1, <1>2 DEF RequestInv
<1>5. OwnInv(c)'
  BY <1>1, <1>3 DEF IInv, CallInv, OwnInv
<1>6. ToldInv(c)'
  BY <1>1, <1>2 DEF IInv, CallInv, ToldInv
<1>7. NamedInv(c)'
  BY <1>1 DEF IInv, CallInv, NamedInv
<1>8. TokenInv(c)'
  BY <1>1, TokenIsUnique DEF IInv, CallInv, TokenInv, TimeOf
<1> QED
  BY <1>4, <1>5, <1>6, <1>7, <1>8 DEF CallInv

\* The handler's part: what is stored and answered stays as it is.
Handles(c) ==
    /\ UNCHANGED <<log, update, base, given, lock, srv, reply, newTs, own, basis, covers>>
    /\ pc[c] \in {"wait", "explain", "plugin", "scan"}
    /\ pc'[c] \in {"explain", "plugin", "scan", "done"}

LEMMA HandlerKeeps ==
    ASSUME NEW c \in Calls, IInv, Handles(c) PROVE RequestInv(c)' /\ TokenInv(c)' /\ OwnInv(c)'
<1>1. TokenInv(c)'
  BY DEF Handles, IInv, CallInv, TokenInv, TimeOf
<1> QED
  BY <1>1 DEF Handles, IInv, CallInv, RequestInv, OwnInv

LEMMA GiveUpKeeps == ASSUME NEW c \in Calls, IInv, GiveUp(c) PROVE CallInv(c)'
<1>1. /\ Handles(c) /\ pc'[c] = "done" /\ result'[c] = "timeout" /\ named' = named
      /\ explained' = explained
  BY DEF GiveUp, Finish, Handles, callVars, replyVars, pastVars, IInv, TypeOK
<1>2. ToldInv(c)' /\ NamedInv(c)'
  BY <1>1 DEF Handles, IInv, CallInv, ToldInv, NamedInv
<1> QED
  BY <1>1, <1>2, HandlerKeeps DEF CallInv

\* Trac stored nothing if the token did not move, or if there was nothing
\* to store.
LEMMA NothingIsNothing ==
    ASSUME NEW c \in Calls, IInv, reply[c] = "ok", SaysNothingStored(c) PROVE own[c] = 0
<1> SUFFICES ASSUME own[c] # 0 PROVE FALSE
  OBVIOUS
<1>1. own[c] \in 1 .. Len(log) /\ Len(log) \in Nat
  BY Elements DEF IInv, TypeOK
<1>2. CASE Unmoved(c)
  <2>1. /\ base[c] = TimeOf(basis[c]) /\ log[own[c]].ts <= newTs[c] /\ newTs[c] = base[c]
        /\ own[c] = basis[c] + 1 /\ basis[c] \in Nat /\ log[own[c]].ts \in Nat
    <3>1. basis[c] \in 0 .. Len(log) /\ log[own[c]].ts \in Nat
      BY <1>1, Elements DEF IInv, TypeOK
    <3>2. base[c] = TimeOf(basis[c]) /\ own[c] = basis[c] + 1 /\ log[own[c]].ts <= newTs[c]
      BY <1>2 DEF Unmoved, IInv, CallInv, TokenInv, OwnInv
    <3> QED
      BY <1>1, <1>2, <3>1, <3>2 DEF Unmoved
  <2>2. CASE basis[c] = 0
    <3>1. log[own[c]].ts > 1
      BY <1>1 DEF IInv, LogInv
    <3> QED
      BY <2>1, <2>2, <3>1 DEF TimeOf
  <2>3. CASE basis[c] # 0
    <3>1. basis[c] \in 1 .. Len(log) /\ basis[c] < own[c]
      BY <1>1, <2>1, <2>3
    <3>2. log[basis[c]].ts < log[own[c]].ts /\ log[basis[c]].ts \in Nat
      BY <1>1, <3>1, Elements DEF IInv, LogInv
    <3> QED
      BY <2>1, <2>3, <3>2 DEF TimeOf
  <2> QED
    BY <2>2, <2>3
<1>3. CASE update[c] = [text |-> Blank, fields |-> "none"]
  <2>1. ~Changes(update[c])
    BY <1>3, TicketUpdateAssumption DEF Changes
  <2> QED
    BY <2>1 DEF IInv, CallInv, RequestInv
<1> QED
  BY <1>2, <1>3 DEF SaysNothingStored

LEMMA ReceiveKeeps == ASSUME NEW c \in Calls, IInv, Receive(c) PROVE CallInv(c)'
<1>1. /\ Handles(c) /\ pc[c] = "wait" /\ named' = named /\ explained' = explained
      /\ \/ reply[c] = "collision" /\ given[c] /\ pc'[c] = "explain" /\ result' = result
         \/ reply[c] \in {"fault", "collision"} /\ pc'[c] = "done" /\ result'[c] = "error"
         \/ reply[c] = "ok" /\ SaysNothingStored(c) /\ pc'[c] = "done" /\ result'[c] = "nothing"
         \/ reply[c] = "ok" /\ pc'[c] = "done" /\ result'[c] = "updated"
         \/ /\ reply[c] = "ok" /\ update[c].text # NoText
            /\ pc'[c] = "plugin" /\ result' = result
  BY DEF Receive, Finish, Goto, toldVars, Handles, callVars, replyVars, pastVars, IInv, TypeOK
<1>2. /\ result[c] = "none" /\ explained[c] = 0
      /\ reply[c] # "none" => srv[c] = "idle"
      /\ reply[c] \in {"fault", "collision"} => own[c] = 0
  BY <1>1 DEF IInv, CallInv, RequestInv, ToldInv
<1>3. ToldInv(c)'
  <2>1. UNCHANGED <<log, update, given, srv, reply, newTs, own>>
    BY <1>1 DEF Handles
  <2> QED
    BY <1>1, <1>2, <2>1, NothingIsNothing DEF ToldInv
<1>4. NamedInv(c)'
  BY <1>1 DEF Handles, IInv, CallInv, NamedInv
<1> QED
  BY <1>1, <1>3, <1>4, HandlerKeeps DEF CallInv

LEMMA ExplainKeeps == ASSUME NEW c \in Calls, IInv, Explain(c) PROVE CallInv(c)'
<1> DEFINE since == {i \in 1 .. Len(log) : Since(i, base[c])}
<1>1. /\ Handles(c) /\ pc[c] = "explain" /\ pc'[c] = "done" /\ result'[c] = "conflict"
      /\ number' = number
      /\ \/ named'[c] = since /\ explained'[c] = Len(log)
         \/ named'[c] = named[c] /\ explained'[c] = explained[c]
  BY DEF Explain, Finish, Handles, callVars, replyVars, IInv, TypeOK
<1>2. reply[c] = "collision" /\ srv[c] = "idle" /\ own[c] = 0 /\ given[c]
  BY <1>1 DEF IInv, CallInv, RequestInv, ToldInv
<1>3. ToldInv(c)'
  BY <1>1, <1>2 DEF Handles, ToldInv
<1>4. ASSUME NEW i \in basis[c] + 1 .. Len(log) PROVE i \in since
  <2>1. /\ basis[c] \in 0 .. Len(log) /\ Len(log) \in Nat
        /\ i \in 1 .. Len(log) /\ basis[c] < i
    BY Elements DEF IInv, TypeOK
  <2>2. base[c] = TimeOf(basis[c]) /\ log[i].ts \in Nat /\ log[i].ts > 1
    BY <1>2, <2>1, Elements DEF IInv, CallInv, TokenInv, LogInv
  <2>3. base[c] \in Nat /\ base[c] <= log[i].ts
    <3>1. CASE basis[c] = 0
      BY <2>2, <3>1 DEF TimeOf
    <3>2. CASE basis[c] \in 1 .. Len(log)
      <4>1. log[basis[c]].ts < log[i].ts /\ log[basis[c]].ts \in Nat
        BY <2>1, <3>2, Elements DEF IInv, LogInv
      <4> QED
        BY <2>1, <2>2, <3>2, <4>1 DEF TimeOf
    <3> QED
      BY <2>1, <3>1, <3>2
  <2>4. Second(base[c]) <= Second(log[i].ts)
    BY <2>2, <2>3, SecondsRise
  <2>5. Second(base[c]) \in Nat /\ Second(log[i].ts) \in Nat
    BY <2>2, <2>3, SecondType
  <2> QED
    BY <2>1, <2>4, <2>5 DEF Since
<1>5. basis[c] < Len(log)
  BY <1>2, Elements DEF IInv, TypeOK, CallInv, TokenInv
<1> HIDE DEF since
<1>6. NamedInv(c)'
  BY <1>1, <1>4, <1>5 DEF Handles, IInv, CallInv, NamedInv
<1> QED
  BY <1>1, <1>3, <1>6, HandlerKeeps DEF CallInv

LEMMA AskPluginKeeps == ASSUME NEW c \in Calls, IInv, AskPlugin(c) PROVE CallInv(c)'
<1>1. PICK n \in 1 .. Len(log) : HasSentText(c, n) /\ Tell(c, n, "matched")
  BY DEF AskPlugin
<1>2. /\ Handles(c) /\ pc[c] = "plugin" /\ pc'[c] = "done" /\ result'[c] = "matched"
      /\ number'[c] = n /\ named' = named /\ n # 0 /\ explained' = explained
  BY <1>1, Elements DEF AskPlugin, Tell, Finish, Handles, callVars, replyVars, pastVars, IInv, TypeOK
<1>3. reply[c] = "ok" /\ update[c].text # NoText
  BY <1>2 DEF IInv, CallInv, ToldInv
<1>4. ToldInv(c)' /\ NamedInv(c)'
  BY <1>1, <1>2, <1>3 DEF Handles, HasSentText, IInv, CallInv, ToldInv, NamedInv
<1> QED
  BY <1>2, <1>4, HandlerKeeps DEF CallInv

LEMMA PluginDoesNotTellKeeps ==
    ASSUME NEW c \in Calls, IInv, PluginDoesNotTell(c) PROVE CallInv(c)'
<1>1. /\ Handles(c) /\ pc[c] = "plugin" /\ pc'[c] = "scan"
      /\ result' = result /\ number' = number /\ named' = named /\ explained' = explained
  BY DEF PluginDoesNotTell, Goto, toldVars, Handles, callVars, replyVars, pastVars, IInv, TypeOK
<1>2. ToldInv(c)' /\ NamedInv(c)'
  BY <1>1 DEF Handles, IInv, CallInv, ToldInv, NamedInv
<1> QED
  BY <1>1, <1>2, HandlerKeeps DEF CallInv

\* Of one candidate that is not this call's comment, the call's own was not
\* of the second the token names.
LEMMA OnlyCandidate ==
    ASSUME NEW c \in Calls, IInv, own[c] # 0, newTs[c] = log[own[c]].ts,
           NEW n \in Chosen(c)
    PROVE  HasSentText(c, n)
<1> SUFFICES ASSUME ~HasSentText(c, n) PROVE FALSE
  OBVIOUS
<1>1. own[c] \in 1 .. Len(log) /\ Len(log) \in Nat
  BY Elements DEF IInv, TypeOK
<1>2. log[own[c]].text = update[c].text /\ own[c] \in Candidates(c)
  BY <1>1 DEF IInv, CallInv, OwnInv, Candidates, MayBeOwn
<1>3. Cardinality(Candidates(c)) = 1 /\ n \in Candidates(c)
  BY DEF Chosen
<1>4. IsFiniteSet(Candidates(c))
  <2>1. IsFiniteSet(1 .. Len(log))
    <3>1. 1 \in Int /\ Len(log) \in Int
      BY <1>1
    <3> QED
      BY <3>1, FS_Interval, Zenon
  <2>2. Candidates(c) \in SUBSET (1 .. Len(log))
    BY DEF Candidates
  <2> QED
    BY <2>1, <2>2, FS_Subset
<1>5. n = own[c]
  BY <1>2, <1>3, <1>4, FS_Singleton
<1> QED
  BY <1>2, <1>5 DEF HasSentText

LEMMA ScanKeeps == ASSUME NEW c \in Calls, IInv, Scan(c) PROVE CallInv(c)'
<1>1. /\ Handles(c) /\ pc[c] = "scan" /\ pc'[c] = "done" /\ named' = named
      /\ explained' = explained
  BY DEF Scan, Tell, Finish, Handles, callVars, replyVars, pastVars, IInv, TypeOK
<1>2. reply[c] = "ok" /\ update[c].text # NoText
  BY <1>1 DEF IInv, CallInv, ToldInv
<1>3. UNCHANGED <<log, update, srv, reply, newTs, own>>
  BY <1>1 DEF Handles
<1>4. CASE \E n \in Chosen(c) : Tell(c, n, IF HasSentText(c, n) THEN "matched" ELSE "mismatched")
  <2>1. PICK n \in Chosen(c) : Tell(c, n, IF HasSentText(c, n) THEN "matched" ELSE "mismatched")
    BY <1>4
  <2>2. /\ number'[c] = n /\ n # 0
        /\ result'[c] = IF HasSentText(c, n) THEN "matched" ELSE "mismatched"
    BY <2>1, Elements DEF Tell, Finish, IInv, TypeOK, Chosen, Candidates
  <2>3. ToldInv(c)'
    BY <1>1, <1>2, <1>3, <2>2, OnlyCandidate DEF HasSentText, ToldInv
  <2> QED
    BY <1>1, <2>3, HandlerKeeps DEF Handles, IInv, CallInv, NamedInv
<1>5. CASE Tell(c, 0, "unnumbered")
  <2>1. result'[c] = "unnumbered"
    BY <1>5 DEF Tell, Finish, IInv, TypeOK
  <2>2. ToldInv(c)'
    BY <1>1, <1>2, <1>3, <2>1 DEF ToldInv
  <2> QED
    BY <1>1, <2>2, HandlerKeeps DEF Handles, IInv, CallInv, NamedInv
<1> QED
  BY <1>4, <1>5 DEF Scan

LEMMA ScanFailsKeeps == ASSUME NEW c \in Calls, IInv, ScanFails(c) PROVE CallInv(c)'
<1>1. /\ Handles(c) /\ pc'[c] = "done" /\ named' = named /\ result'[c] = "unnumbered"
      /\ explained' = explained
  BY DEF ScanFails, Tell, Finish, Handles, callVars, replyVars, pastVars, IInv, TypeOK
<1>2. ToldInv(c)' /\ NamedInv(c)'
  BY <1>1 DEF Handles, IInv, CallInv, ToldInv, NamedInv
<1> QED
  BY <1>1, <1>2, HandlerKeeps DEF CallInv

\* The server stores a change on the state the token names, and on no other.
LEMMA ServeKeeps == ASSUME NEW c \in Calls, IInv, Serve(c) PROVE IInv'
<1>1. Alone(c)
  BY StepIsAlone DEF IInv, Step
<1>2. /\ srv[c] = "queued"
      /\ UNCHANGED <<others, pc, update, base, given, lock, newTs, result, number, named, basis,
                     covers, explained>>
  BY DEF Serve, callVars, toldVars
<1>3. /\ own[c] = 0 /\ reply[c] = "none" /\ lock[c] = TimeOf(basis[c])
      /\ pc[c] \notin {"idle", "ready", "mint", "explain", "plugin", "scan"}
      /\ result[c] \notin {"nothing", "refused", "conflict", "error", "matched", "mismatched"}
  BY <1>2 DEF IInv, CallInv, RequestInv, TokenInv, ToldInv
<1>4. CASE /\ UNCHANGED <<log, own>> /\ srv'[c] = "idle"
           /\ reply'[c] \in {"collision", "fault"}
           /\ reply'[c] = "collision" => lock[c] # Token
  <2>1. TypeOK'
    <3>1. UNCHANGED <<log, others, pc, update, base, given, lock, newTs, result, number, named,
                      own, basis, covers, explained>>
      BY <1>2, <1>4
    <3>2. srv' \in [Calls -> {"idle", "queued", "saved"}]
      <4>1. srv' = [srv EXCEPT ![c] = "idle"] \/ srv' = [srv EXCEPT ![c] = "saved"]
        BY DEF Serve
      <4> QED
        BY <4>1 DEF IInv, TypeOK
    <3>3. reply' \in [Calls -> {"none", "ok", "collision", "fault"}]
      BY <1>4 DEF Serve, IInv, TypeOK
    <3> QED
      BY <3>1, <3>2, <3>3 DEF IInv, TypeOK
  <2>2. TokenInv(c)'
    <3>1. reply'[c] = "collision" => Len(log) > basis[c]
      BY <1>3, <1>4, TokenIsUnique DEF IInv, TypeOK
    <3> QED
      BY <1>2, <1>4, <3>1 DEF IInv, CallInv, TokenInv, TimeOf
  <2>3. CallInv(c)'
    BY <1>2, <1>3, <1>4, <2>2 DEF IInv, CallInv, RequestInv, OwnInv, ToldInv, NamedInv
  <2> QED
    BY <1>1, <1>4, <2>1, <2>3, NoGrowth, Together DEF Alone
<1>5. CASE ~Changes(update[c]) /\ UNCHANGED <<log, own, reply>> /\ srv'[c] = "saved"
  <2>1. TypeOK'
    BY <1>5 DEF Serve, callVars, toldVars, IInv, TypeOK
  <2>2. CallInv(c)'
    BY <1>2, <1>3, <1>5 DEF IInv, CallInv, RequestInv, TokenInv, TimeOf, OwnInv, ToldInv, NamedInv
  <2> QED
    BY <1>1, <1>5, <2>1, <2>2, NoGrowth, Together DEF Alone
<1>6. CASE /\ lock[c] = Token /\ Changes(update[c]) /\ Stored(Me, update[c].text, FALSE)
           /\ own' = [own EXCEPT ![c] = Len(log) + 1]
           /\ srv' = [srv EXCEPT ![c] = "saved"] /\ UNCHANGED reply
  <2> DEFINE n == Len(log) + 1
  <2>1. /\ Len(log) \in Nat /\ own'[c] = n /\ n # 0 /\ srv'[c] = "saved" /\ reply'[c] = "none"
        /\ n - 1 = Len(log)
    BY <1>3, <1>6, Elements DEF IInv, TypeOK
  <2>2. update[c].text \in Texts \cup {NoText}
    <3>1. update[c] \in Updates \cup {NoUpdate}
      BY DEF IInv, TypeOK
    <3>2. CASE update[c] = NoUpdate
      BY <3>2 DEF NoUpdate
    <3>3. CASE update[c] \in Updates
      BY <1>6, <3>3, TicketUpdateAssumption DEF Changes
    <3> QED
      BY <3>1, <3>2, <3>3
  <2>3. /\ log' \in Seq(Change) /\ LogInv' /\ Extends /\ Len(log') = n
        /\ log'[n].author = Me /\ log'[n].text = update[c].text /\ log'[n].threaded = FALSE
    BY <1>6, <2>2, Growth DEF IInv
  <2>4. TypeOK'
    <3>1. 0 .. Len(log) \subseteq 0 .. Len(log') /\ 1 .. Len(log) \subseteq 1 .. Len(log')
      BY <2>1, <2>3
    <3>2. n \in 0 .. Len(log')
      BY <2>1, <2>3
    <3>3. own' \in [Calls -> 0 .. Len(log')]
      BY <1>6, <3>1, <3>2 DEF IInv, TypeOK
    <3>4. /\ number' \in [Calls -> 0 .. Len(log')] /\ named' \in [Calls -> SUBSET (1 .. Len(log'))]
          /\ basis' \in [Calls -> 0 .. Len(log')] /\ covers' \in [Calls -> 0 .. Len(log')]
          /\ explained' \in [Calls -> 0 .. Len(log')]
      BY <1>2, <3>1 DEF IInv, TypeOK
    <3> QED
      BY <1>2, <1>6, <2>3, <3>3, <3>4 DEF IInv, TypeOK
  <2>5. basis[c] = Len(log)
    BY <1>3, <1>6, TokenIsUnique DEF IInv, TypeOK
  <2> HIDE DEF n
  <2>6. RequestInv(c)'
    BY <1>2, <1>3, <1>6, <2>1 DEF RequestInv, Changes
  <2>7. OwnInv(c)'
    <3>1. /\ own'[c] = n /\ update'[c] = update[c] /\ basis'[c] = basis[c]
          /\ reply'[c] = "none" /\ n = basis[c] + 1
      BY <1>2, <2>1, <2>5 DEF n
    <3> QED
      BY <2>3, <3>1 DEF OwnInv
  <2>8. ToldInv(c)'
    BY <1>2, <1>3, <2>1 DEF IInv, CallInv, ToldInv
  <2>9. NamedInv(c)'
    BY <1>2 DEF IInv, CallInv, NamedInv
  <2>10. TokenInv(c)'
    <3>1. basis[c] \in 0 .. Len(log) /\ covers[c] \in 0 .. Len(log)
      BY DEF IInv, TypeOK
    <3>2. \A k \in 0 .. Len(log) : TimeOf(k)' = TimeOf(k)
      BY <2>3, TimesKeep DEF IInv
    <3> QED
      BY <1>2, <2>1, <3>1, <3>2 DEF IInv, CallInv, TokenInv, TimeOf
  <2> QED
    BY <1>1, <2>3, <2>4, <2>6, <2>7, <2>8, <2>9, <2>10, Together DEF Alone, CallInv
<1> QED
  BY <1>4, <1>5, <1>6 DEF Serve, IInv, TypeOK

LEMMA OtherChangeKeeps == ASSUME IInv, OtherChange PROVE IInv'
<1>1. /\ UNCHANGED <<pc, update, base, given, lock, srv, reply, newTs, result, number, named, own,
                     basis, covers, explained>>
      /\ others' = others + 1
  BY DEF OtherChange, callVars, replyVars, toldVars, pastVars
<1>2. PICK o \in OtherChanges : Stored(o.author, o.text, o.threaded)
  BY DEF OtherChange
<1>3. o.author \in {Me, Other} /\ o.text \in Texts \cup {NoText} /\ o.threaded \in BOOLEAN
  BY TicketUpdateAssumption
<1>4. log' \in Seq(Change) /\ LogInv' /\ Extends /\ Len(log') = Len(log) + 1
  BY <1>2, <1>3, Growth DEF IInv
<1>5. TypeOK'
  <2>1. 0 .. Len(log) \subseteq 0 .. Len(log') /\ 1 .. Len(log) \subseteq 1 .. Len(log')
    BY <1>4, Elements DEF IInv
  <2>2. /\ own' \in [Calls -> 0 .. Len(log')] /\ number' \in [Calls -> 0 .. Len(log')]
        /\ named' \in [Calls -> SUBSET (1 .. Len(log'))] /\ basis' \in [Calls -> 0 .. Len(log')]
        /\ covers' \in [Calls -> 0 .. Len(log')] /\ explained' \in [Calls -> 0 .. Len(log')]
    BY <1>1, <2>1 DEF IInv, TypeOK
  <2> QED
    BY <1>1, <1>4, <2>2 DEF IInv, TypeOK
<1>6. \A c \in Calls : CallInv(c)'
  BY <1>1, <1>4, Bystander DEF IInv, Still
<1> QED
  BY <1>4, <1>5, <1>6 DEF IInv

LEMMA NextKeeps == IInv /\ [Next]_vars => IInv'
<1> SUFFICES ASSUME IInv, [Next]_vars PROVE IInv'
  OBVIOUS
<1>1. CASE UNCHANGED vars
  <2>1. UNCHANGED <<log, others, pc, update, base, given, lock, srv, reply, newTs, result,
                    number, named, own, basis, covers, explained>>
    BY <1>1 DEF vars, callVars, replyVars, toldVars, pastVars
  <2>2. \A c \in Calls : CallInv(c)'
    BY <2>1, NoGrowth, Bystander DEF IInv, Still
  <2>3. TypeOK'
    BY <2>1 DEF IInv, TypeOK
  <2> QED
    BY <2>1, <2>2, <2>3, NoGrowth DEF IInv
<1>2. ASSUME NEW c \in Calls, Step(c) PROVE IInv'
  <2>1. CASE Serve(c)
    BY <2>1, ServeKeeps
  <2>2. CASE ~Serve(c)
    <3>1. CallInv(c)'
      BY <1>2, <2>2, BeginKeeps, GateKeeps, SendUpdateKeeps, RereadKeeps, GiveUpKeeps,
         ReceiveKeeps, ExplainKeeps, AskPluginKeeps, PluginDoesNotTellKeeps, ScanKeeps,
         ScanFailsKeeps DEF Step, Handler
    <3> QED
      BY <1>2, <2>2, <3>1, QuietStep
  <2> QED
    BY <2>1, <2>2
<1> QED
  BY <1>1, <1>2, OtherChangeKeeps DEF Next, Step

LEMMA Invariant == Spec => []IInv
  BY InitHolds, NextKeeps, PTL DEF Spec

\* Every variable keeps its type, the ticket's changes and the comment
\* numbers told included.
THEOREM TypeCorrect == Spec => []TypeOK
  BY Invariant, PTL DEF IInv

\* A ticket_update is stored on the very state its token was read from, by
\* its caller or by the client itself, also when it is carried out after its
\* caller gave up; and it is refused only for a change stored since.
THEOREM TokenIsALock == Spec => []LockIsExact
  BY Invariant, InvariantImplies, PTL

\* Whatever ticket_update answers but success and a timeout, nothing was
\* stored, nor will be.
THEOREM RefusalsStoreNothing == Spec => []NotStoredWhenSaid
  BY Invariant, InvariantImplies, PTL

\* A version_conflict that could read the change log names every change since
\* the state its caller read, at least one, although the log knows whole
\* seconds only.
THEOREM ConflictsNameAll == Spec => []ConflictNamesAll
  BY Invariant, InvariantImplies, PTL

\* The comment reported as posted and matching is the call's own or has its
\* very text, and only a lost race makes the verdict another one.
THEOREM VerdictsTrue == Spec => []VerdictsAreTrue
  BY Invariant, InvariantImplies, PTL

===============================================================================
