--------------------------- MODULE WikiWriteProofs ---------------------------
(***************************************************************************)
(* Proofs about WikiWrite, for any number of calls, any bound on the saves *)
(* of other users, and any choice of tools and deployments.                *)
(***************************************************************************)
EXTENDS WikiWrite, TLAPS

\* A row is built from a version and a revision number.
LEMMA RowType ==
    /\ NoRow \in Row
    /\ \A v, n \in Nat : [version |-> v, rev |-> n] \in Row
    /\ \A r \in Row : r.version \in Nat /\ r.rev \in Nat
BY DEF NoRow, Row

\* The latest row, or the absence of one, is a row.
LEMMA LatestType == rows \subseteq Row => Latest \subseteq Row
BY RowType DEF Latest

\* The variables keep their types: the typing every other proof starts from.
THEOREM TypeCorrect == Spec => []TypeOK
<1>1. Init => TypeOK
  <2> SUFFICES ASSUME Init PROVE TypeOK
    OBVIOUS
  <2>1. rows \subseteq Row
    <3>1. rows = {} \/ rows = {[version |-> 1, rev |-> 1]}
      BY DEF Init
    <3>2. [version |-> 1, rev |-> 1] \in Row
      BY RowType
    <3> QED BY <3>1, <3>2
  <2> QED
    BY <2>1, RowType, WikiWriteAssumption
       DEF Init, TypeOK, PC, Replies, Results, Refusals, Successes
<1>2. TypeOK /\ [Next]_vars => TypeOK'
  <2> SUFFICES ASSUME TypeOK, [Next]_vars
               PROVE  TypeOK'
    OBVIOUS
  <2>0. Latest \subseteq Row
    BY LatestType DEF TypeOK
  <2> USE WikiWriteAssumption
      DEF TypeOK, PC, Replies, Results, Refusals, Successes, Finish, Goto,
          pageVars, serverVars, historyVars
  <2>1. ASSUME NEW c \in Calls, Caller(c) PROVE TypeOK'
    <3>1. CASE ReadForUpdate(c)  BY <3>1, <2>0 DEF ReadForUpdate
    <3>2. CASE UpdateGate(c)     BY <3>2 DEF UpdateGate
    <3>3. CASE CreateProbe(c)    BY <3>3 DEF CreateProbe
    <3>4. CASE PushProbe(c)
      <4>1. base' \in [Calls -> Row]
        BY <3>4, <2>0 DEF PushProbe
      <4> QED BY <3>4, <4>1 DEF PushProbe
    <3>5. CASE DeleteProbe(c)    BY <3>5 DEF DeleteProbe
    <3> QED BY <2>1, <3>1, <3>2, <3>3, <3>4, <3>5 DEF Caller
  <2>2. ASSUME NEW c \in Calls, Handler(c) PROVE TypeOK'
    <3>1. CASE PutIfVersion(c)    BY <3>1 DEF PutIfVersion, Send
    <3>2. CASE PutUnversioned(c)  BY <3>2 DEF PutUnversioned, Send
    <3>3. CASE Precheck(c)
      <4>1. \/ Finish(c, "conflict") /\ UNCHANGED <<path, serverVars>>
            \/ Finish(c, "error") /\ UNCHANGED <<path, serverVars>>
            \/ Send(c, "put")
        BY <3>3 DEF Precheck
      <4>2. UNCHANGED <<pageVars, plugin, absent, base, readback,
                        historyVars>>
        BY <3>3 DEF Precheck
      <4> QED BY <4>1, <4>2 DEF Send
    <3>4. CASE Receive(c)         BY <3>4 DEF Receive
    <3>5. CASE GiveUp(c)          BY <3>5 DEF GiveUp
    <3>6. CASE Readback(c)
      <4>1. readback' \in [Calls -> Nat]
        BY <3>6, <2>0, RowType DEF Readback
      <4>2. /\ pc' \in [Calls -> PC]
            /\ result' \in [Calls -> Results]
        BY <3>6 DEF Readback, ReadbackFailure
      <4> QED BY <3>6, <4>1, <4>2 DEF Readback
    <3>7. CASE DeletePage(c)
      <4>1. /\ rows' \subseteq Row
            /\ everDeleted' \in BOOLEAN
        BY <3>7 DEF DeletePage
      <4>2. /\ pc' \in [Calls -> PC]
            /\ result' \in [Calls -> Results]
        BY <3>7 DEF DeletePage
      <4> QED BY <3>7, <4>1, <4>2 DEF DeletePage
    <3> QED BY <2>2, <3>1, <3>2, <3>3, <3>4, <3>5, <3>6, <3>7 DEF Handler
  <2>3. ASSUME NEW c \in Calls, Server(c) PROVE TypeOK'
    <3>1. CASE ServeNoMethod(c)  BY <3>1 DEF ServeNoMethod, Answer
    <3>2. CASE ServeLoad(c)
      <4>1. /\ srv' \in [Calls -> {"idle", "queued", "loaded", "recheck"}]
            /\ reply' \in [Calls -> Replies]
        BY <3>2 DEF ServeLoad, Answer
      <4>2. loaded' \in [Calls -> Row]
        BY <3>2, <2>0 DEF ServeLoad
      <4> QED BY <3>2, <4>1, <4>2 DEF ServeLoad
    <3>3. CASE ServeSave(c)
      <4>1. loaded[c].version + 1 \in Nat
        BY RowType
      <4>2. /\ srv' \in [Calls -> {"idle", "queued", "loaded", "recheck"}]
            /\ reply' \in [Calls -> Replies]
        BY <3>3 DEF ServeSave, Answer
      <4>3. /\ rows' \subseteq Row
            /\ lastRev' \in Nat
        BY <3>3, <4>1, RowType DEF ServeSave, Save
      <4>4. stored' \in [Calls -> Row]
        <5>1. [version |-> loaded[c].version + 1, rev |-> lastRev + 1] \in Row
          BY <4>1, RowType
        <5> QED BY <3>3, <5>1 DEF ServeSave
      <4>5. over' \in [Calls -> Row]
        BY <3>3, <2>0 DEF ServeSave
      <4>6. UNCHANGED <<webSaves, everDeleted, plugin, absent, pc, base,
                        path, loaded, readback, result>>
        BY <3>3 DEF ServeSave
      <4> QED BY <4>2, <4>3, <4>4, <4>5, <4>6
    <3>4. CASE ServeRecheck(c)   BY <3>4 DEF ServeRecheck, Answer
    <3> QED BY <2>3, <3>1, <3>2, <3>3, <3>4 DEF Server
  <2>4. CASE ForgetAbsence  BY <2>4 DEF ForgetAbsence, Forget
  <2>5. CASE WebSave        BY <2>5, <2>0, RowType DEF WebSave, Save
  <2>6. CASE WebDelete      BY <2>6 DEF WebDelete
  <2>7. CASE DeployPlugin   BY <2>7 DEF DeployPlugin
  <2>8. CASE UNCHANGED vars BY <2>8 DEF vars
  <2> QED BY <2>1, <2>2, <2>3, <2>4, <2>5, <2>6, <2>7, <2>8 DEF Next
<1> QED BY <1>1, <1>2, PTL DEF Spec

\* Calls, requests and answers agree in every reachable state.
THEOREM ProtocolHolds == Spec => []Protocol
<1>1. Init => Protocol
  BY DEF Init, Protocol, Refusals, Successes
<1>2. TypeOK /\ Protocol /\ [Next]_vars => Protocol'
  <2> SUFFICES ASSUME TypeOK, Protocol, [Next]_vars
               PROVE  Protocol'
    OBVIOUS
  <2> USE DEF TypeOK, Protocol, Refusals, Successes, Finish, Goto,
              pageVars, serverVars, historyVars
  <2>1. ASSUME NEW c \in Calls, Caller(c) PROVE Protocol'
    <3>1. CASE ReadForUpdate(c)  BY <3>1 DEF ReadForUpdate
    <3>2. CASE UpdateGate(c)     BY <3>2 DEF UpdateGate
    <3>3. CASE CreateProbe(c)    BY <3>3 DEF CreateProbe
    <3>4. CASE PushProbe(c)      BY <3>4 DEF PushProbe
    <3>5. CASE DeleteProbe(c)    BY <3>5 DEF DeleteProbe
    <3> QED BY <2>1, <3>1, <3>2, <3>3, <3>4, <3>5 DEF Caller
  <2>2. ASSUME NEW c \in Calls, Handler(c) PROVE Protocol'
    <3>1. CASE PutIfVersion(c)    BY <3>1 DEF PutIfVersion, Send
    <3>2. CASE PutUnversioned(c)  BY <3>2 DEF PutUnversioned, Send
    <3>3. CASE Precheck(c)        BY <3>3 DEF Precheck, Send
    <3>4. CASE Receive(c)         BY <3>4 DEF Receive, IsStored
    <3>5. CASE GiveUp(c)          BY <3>5 DEF GiveUp
    <3>6. CASE Readback(c)        BY <3>6 DEF Readback, ReadbackFailure
    <3>7. CASE DeletePage(c)      BY <3>7 DEF DeletePage
    <3> QED BY <2>2, <3>1, <3>2, <3>3, <3>4, <3>5, <3>6, <3>7 DEF Handler
  <2>3. ASSUME NEW c \in Calls, Server(c) PROVE Protocol'
    <3>1. CASE ServeNoMethod(c)  BY <3>1 DEF ServeNoMethod, Answer
    <3>2. CASE ServeLoad(c)      BY <3>2 DEF ServeLoad, Answer
    <3>3. CASE ServeSave(c)      BY <3>3, RowType DEF ServeSave, Answer, NoRow
    <3>4. CASE ServeRecheck(c)   BY <3>4 DEF ServeRecheck, Answer
    <3> QED BY <2>3, <3>1, <3>2, <3>3, <3>4 DEF Server
  <2>4. CASE ForgetAbsence  BY <2>4 DEF ForgetAbsence, Forget
  <2>5. CASE WebSave        BY <2>5 DEF WebSave
  <2>6. CASE WebDelete      BY <2>6 DEF WebDelete
  <2>7. CASE DeployPlugin   BY <2>7 DEF DeployPlugin
  <2>8. CASE UNCHANGED vars BY <2>8 DEF vars
  <2> QED BY <2>1, <2>2, <2>3, <2>4, <2>5, <2>6, <2>7, <2>8 DEF Next
<1> QED BY <1>1, <1>2, TypeCorrect, PTL DEF Spec

\* Whatever a caller is told that reads "not stored" is true.
THEOREM RefusalsStoreNothing == Spec => []NothingStoredOnRefusal
<1>1. Protocol => NothingStoredOnRefusal
  BY DEF Protocol, NothingStoredOnRefusal
<1> QED BY <1>1, ProtocolHolds, PTL

\* Whatever a caller is told that reads "stored" is true.
THEOREM SuccessesAreStored == Spec => []StoredWhenSaid
<1>1. Protocol => StoredWhenSaid
  BY DEF Protocol, StoredWhenSaid
<1> QED BY <1>1, ProtocolHolds, PTL

-----------------------------------------------------------------------------

\* The latest row is a row, or none where there are no rows, and no row is
\* above it.
LEMMA LatestFacts ==
    ASSUME rows \subseteq Row, NEW r \in Latest
    PROVE  /\ r \in Row
           /\ r \in rows \/ (r = NoRow /\ rows = {})
           /\ \A q \in rows : q.version <= r.version
BY RowType DEF Latest, IsLatest

\* On a page whose rows are versions 1 .. n, a save that finds the version
\* after the one it loaded free puts its row on top of that very version.
LEMMA SaveOnTop ==
    ASSUME TypeOK, Lineage, ~everDeleted, NEW r \in Latest, NEW l \in Row,
           l = NoRow \/ l \in rows, ~Occupied(l.version + 1)
    PROVE  r = l
<1>1. /\ r \in Row
      /\ r \in rows \/ (r = NoRow /\ rows = {})
      /\ \A q \in rows : q.version <= r.version
  BY LatestFacts DEF TypeOK
<1>2. r.version \in Nat /\ l.version \in Nat
  BY <1>1, RowType
<1>3. CASE r = NoRow /\ rows = {}
  BY <1>3
<1>4. CASE r \in rows
  <2>1. r.version <= l.version
    <3>1. SUFFICES ASSUME l.version + 1 <= r.version PROVE FALSE
      BY <1>2
    <3>2. l.version + 1 \in 1 .. r.version
      BY <1>2, <3>1
    <3> QED BY <3>2, <1>4 DEF Lineage, RowsInLine
  <2>2. l # NoRow
    BY <2>1, <1>4, <1>2 DEF Lineage, RowsInLine, NoRow
  <2>3. l.version = r.version
    BY <2>1, <2>2, <1>1, <1>2
  <2> QED BY <2>2, <2>3, <1>4 DEF Lineage, RowsInLine
<1> QED BY <1>1, <1>3, <1>4

\* A new row on top keeps the rows 1 .. n, once each, and keeps them all.
LEMMA SaveKeepsLine ==
    ASSUME TypeOK, RowsInLine, NEW r \in Latest, Save(r.version + 1)
    PROVE  RowsInLine' /\ rows \subseteq rows'
<1>1. /\ r \in Row
      /\ r \in rows \/ (r = NoRow /\ rows = {})
      /\ \A q \in rows : q.version <= r.version
  BY LatestFacts DEF TypeOK
<1>2. /\ r.version \in Nat
      /\ \A q \in rows : q.version \in Nat
  BY <1>1, RowType DEF TypeOK
<1> DEFINE new == [version |-> r.version + 1, rev |-> lastRev + 1]
<1>3. rows' = rows \cup {new}
  BY DEF Save
<1>4. \A q \in rows : q.version < new.version
  BY <1>1, <1>2
<1>5. \A p \in rows' : p.version > 0
  BY <1>2, <1>3 DEF RowsInLine
<1>6. ASSUME NEW p \in rows', NEW v \in 1 .. p.version PROVE Occupied(v)'
  <2>1. CASE p \in rows
    BY <2>1, <1>3 DEF RowsInLine, Occupied
  <2>2. CASE p = new /\ v = new.version
    BY <2>2, <1>3 DEF Occupied
  <2>3. CASE p = new /\ v # new.version
    <3>1. v \in 1 .. r.version
      BY <2>3, <1>2
    <3>2. r \in rows
      BY <3>1, <1>1 DEF NoRow
    <3> QED BY <3>1, <3>2, <1>3 DEF RowsInLine, Occupied
  <2> QED BY <2>1, <2>2, <2>3, <1>3
<1>7. ASSUME NEW p \in rows', NEW q \in rows', p.version = q.version
      PROVE  p = q
  BY <1>2, <1>3, <1>4, <1>7 DEF RowsInLine
<1> QED BY <1>3, <1>5, <1>6, <1>7 DEF RowsInLine

\* A step that leaves the page alone keeps the lineage of every call whose
\* own variables it leaves alone.
LEMMA OtherCalls ==
    ASSUME NEW d \in Calls, CallInLine(d), rows \subseteq rows',
           base'[d] = base[d], srv'[d] = srv[d], loaded'[d] = loaded[d],
           path'[d] = path[d], stored'[d] = stored[d], over'[d] = over[d],
           result'[d] = result[d], readback'[d] = readback[d]
    PROVE  CallInLine(d)'
BY DEF CallInLine

\* A versioned write is only ever put on top of its base on a page nobody
\* deletes, or its result is flagged.
THEOREM LineageHolds == Spec => []Lineage
<1>1. Init => Lineage
  <2> SUFFICES ASSUME Init PROVE RowsInLine /\ \A c \in Calls : CallInLine(c)
    BY DEF Lineage
  <2>1. rows = {} \/ rows = {[version |-> 1, rev |-> 1]}
    BY DEF Init
  <2>2. RowsInLine
    BY <2>1 DEF RowsInLine, Occupied
  <2>3. \A c \in Calls : CallInLine(c)
    BY DEF Init, CallInLine
  <2> QED BY <2>2, <2>3
<1>2. TypeOK /\ Protocol /\ Lineage /\ [Next]_vars => Lineage'
  <2> SUFFICES ASSUME TypeOK, Protocol, Lineage, [Next]_vars, ~everDeleted'
               PROVE  RowsInLine' /\ \A d \in Calls : CallInLine(d)'
    BY DEF Lineage
  <2>0. Latest \subseteq Row
    BY LatestType DEF TypeOK
  <2>1. ASSUME NEW c \in Calls, Caller(c)
        PROVE  RowsInLine' /\ \A d \in Calls : CallInLine(d)'
    <3>1. UNCHANGED <<pageVars, path, serverVars, readback, historyVars>>
      BY <2>1 DEF Caller, ReadForUpdate, UpdateGate, CreateProbe, PushProbe,
                  DeleteProbe
    <3>2. ~everDeleted /\ RowsInLine /\ \A d \in Calls : CallInLine(d)
      BY <3>1 DEF Lineage, pageVars
    <3>3. RowsInLine'
      BY <3>1, <3>2 DEF RowsInLine, Occupied, pageVars
    <3>4. ASSUME NEW d \in Calls, d # c PROVE CallInLine(d)'
      <4>1. base'[d] = base[d] /\ result'[d] = result[d]
        BY <2>1, <3>4 DEF Caller, ReadForUpdate, UpdateGate, CreateProbe,
             PushProbe, DeleteProbe, TypeOK, Finish, Goto
      <4> QED BY <3>1, <3>2, <4>1, OtherCalls
              DEF pageVars, serverVars, historyVars
    <3>5. CallInLine(c)'
      <4>1. srv[c] = "idle" /\ stored[c] = NoRow
        BY <2>1 DEF Caller, ReadForUpdate, UpdateGate, CreateProbe,
             PushProbe, DeleteProbe, Protocol
      <4>2. result'[c] # "ok"
        BY <2>1 DEF Caller, ReadForUpdate, UpdateGate, CreateProbe,
             PushProbe, DeleteProbe, Protocol, TypeOK, Finish, Goto
      <4>3. base'[c] = base[c] \/ base'[c] \in Latest
        BY <2>1 DEF Caller, ReadForUpdate, UpdateGate, CreateProbe,
             PushProbe, DeleteProbe, TypeOK
      <4>4. base'[c] # NoRow => base'[c] \in rows
        BY <4>3, <3>2, LatestFacts DEF CallInLine, TypeOK
      <4> QED BY <4>1, <4>2, <4>4, <3>1
              DEF CallInLine, pageVars, serverVars, historyVars
    <3> QED BY <3>3, <3>4, <3>5
  <2>2. ASSUME NEW c \in Calls, Handler(c)
        PROVE  RowsInLine' /\ \A d \in Calls : CallInLine(d)'
    <3>1. UNCHANGED <<rows, everDeleted, base, loaded, historyVars>>
      <4>1. CASE DeletePage(c)
        BY <4>1 DEF DeletePage, serverVars, historyVars
      <4>2. CASE ~DeletePage(c)
        BY <2>2, <4>2 DEF Handler, PutIfVersion, PutUnversioned, Precheck,
             Receive, GiveUp, Readback, Send, pageVars, serverVars,
             historyVars
      <4> QED BY <4>1, <4>2
    <3>2. ~everDeleted /\ RowsInLine /\ \A d \in Calls : CallInLine(d)
      BY <3>1 DEF Lineage
    <3>3. RowsInLine'
      BY <3>1, <3>2 DEF RowsInLine, Occupied
    <3>4. ASSUME NEW d \in Calls, d # c PROVE CallInLine(d)'
      <4>1. result'[d] = result[d]
        BY <2>2, <3>4 DEF Handler, PutIfVersion, PutUnversioned, Precheck,
             Receive, GiveUp, Readback, DeletePage, Send, TypeOK, Finish, Goto
      <4>2. path'[d] = path[d] /\ srv'[d] = srv[d]
        BY <2>2, <3>4 DEF Handler, PutIfVersion, PutUnversioned, Precheck,
             Receive, GiveUp, Readback, DeletePage, Send, TypeOK, serverVars
      <4>3. readback'[d] = readback[d]
        BY <2>2, <3>4 DEF Handler, PutIfVersion, PutUnversioned, Precheck,
             Receive, GiveUp, Readback, DeletePage, TypeOK
      <4> QED BY <3>1, <3>2, <4>1, <4>2, <4>3, OtherCalls DEF historyVars
    <3>5. CallInLine(c)'
      <4>0. CallInLine(c)
        BY <3>2
      <4>1. CASE PutIfVersion(c) \/ PutUnversioned(c) \/ Precheck(c)
        <5>1. stored[c] = NoRow
          BY <4>1 DEF PutIfVersion, PutUnversioned, Precheck, Protocol
        <5>2. srv'[c] # "loaded"
          BY <4>1 DEF PutIfVersion, PutUnversioned, Precheck, Protocol, Send,
               serverVars, TypeOK
        <5>3. result'[c] # "ok"
          BY <4>1 DEF PutIfVersion, PutUnversioned, Precheck, Protocol, Send,
               Finish, Goto, TypeOK
        <5> QED BY <3>1, <4>0, <5>1, <5>2, <5>3 DEF CallInLine, historyVars
      <4>2. CASE Receive(c) \/ GiveUp(c) \/ DeletePage(c)
        <5>1. result'[c] # "ok"
          BY <4>2 DEF Receive, GiveUp, DeletePage, Protocol, Finish, Goto,
               TypeOK
        <5>2. UNCHANGED <<path, srv>>
          BY <4>2 DEF Receive, GiveUp, DeletePage, serverVars
        <5> QED BY <3>1, <4>0, <5>1, <5>2 DEF CallInLine, historyVars
      <4>3. CASE Readback(c)
        <5>1. UNCHANGED <<path, srv>>
          BY <4>3 DEF Readback, serverVars
        <5>2. ASSUME result'[c] = "ok", base[c] # NoRow
              PROVE  /\ readback'[c] = base[c].version + 1
                     /\ stored[c].version <= readback'[c]
          <6>1. PICK r \in Latest :
                  /\ readback' = [readback EXCEPT ![c] = r.version]
                  /\ Finish(c, IF Unexpected(c, r.version)
                               THEN "flagged" ELSE "ok")
            BY <4>3, <5>2
               DEF Readback, Finish, Goto, ReadbackFailure, TypeOK
          <6>2. readback'[c] = r.version
            BY <6>1 DEF TypeOK
          <6>3. ~Unexpected(c, r.version)
            BY <6>1, <5>2 DEF Finish, TypeOK
          <6>4. stored[c] \in rows
            BY <4>3, <4>0 DEF Readback, Protocol, CallInLine
          <6>5. stored[c].version <= r.version
            BY <6>4, LatestFacts DEF TypeOK
          <6> QED BY <6>2, <6>3, <6>5, <5>2 DEF Unexpected
        <5> QED BY <3>1, <4>0, <5>1, <5>2 DEF CallInLine, historyVars
      <4> QED BY <2>2, <4>1, <4>2, <4>3 DEF Handler
    <3> QED BY <3>3, <3>4, <3>5
  <2>3. ASSUME NEW c \in Calls, Server(c)
        PROVE  RowsInLine' /\ \A d \in Calls : CallInLine(d)'
    <3>1. UNCHANGED <<everDeleted, base, path, readback, result>>
      BY <2>3 DEF Server, ServeNoMethod, ServeLoad, ServeSave, ServeRecheck,
                  pageVars
    <3>2. ~everDeleted /\ RowsInLine /\ \A d \in Calls : CallInLine(d)
      BY <3>1 DEF Lineage
    <3>3. RowsInLine' /\ rows \subseteq rows'
      <4>1. CASE UNCHANGED rows
        BY <4>1, <3>2 DEF RowsInLine, Occupied
      <4>2. CASE rows' # rows
        <5>1. /\ ~Occupied(loaded[c].version + 1)
              /\ Save(loaded[c].version + 1)
              /\ srv[c] = "loaded"
          BY <2>3, <4>2 DEF Server, ServeNoMethod, ServeLoad, ServeSave,
                            ServeRecheck, pageVars
        <5>2. PICK r \in Latest : over' = [over EXCEPT ![c] = r]
          BY <2>3, <4>2 DEF Server, ServeNoMethod, ServeLoad, ServeSave,
                            ServeRecheck, pageVars
        <5>3. r = loaded[c]
          BY <5>1, <3>2, SaveOnTop DEF CallInLine, TypeOK
        <5> QED BY <5>1, <5>3, <3>2, SaveKeepsLine
      <4> QED BY <4>1, <4>2
    <3>4. ASSUME NEW d \in Calls, d # c PROVE CallInLine(d)'
      <4>1. srv'[d] = srv[d] /\ loaded'[d] = loaded[d]
        BY <2>3, <3>4 DEF Server, ServeNoMethod, ServeLoad, ServeSave,
             ServeRecheck, Answer, TypeOK
      <4>2. stored'[d] = stored[d] /\ over'[d] = over[d]
        BY <2>3, <3>4 DEF Server, ServeNoMethod, ServeLoad, ServeSave,
             ServeRecheck, historyVars, TypeOK
      <4> QED BY <3>1, <3>2, <3>3, <4>1, <4>2, OtherCalls
    <3>5. CallInLine(c)'
      <4>0. CallInLine(c)
        BY <3>2
      <4>1. CASE ServeNoMethod(c) \/ ServeRecheck(c)
        <5>1. srv'[c] # "loaded"
          BY <4>1 DEF ServeNoMethod, ServeRecheck, Answer, TypeOK
        <5>2. UNCHANGED historyVars
          BY <4>1 DEF ServeNoMethod, ServeRecheck
        <5> QED BY <4>0, <3>1, <3>3, <5>1, <5>2 DEF CallInLine, historyVars
      <4>2. CASE ServeLoad(c)
        <5>1. stored[c] = NoRow /\ UNCHANGED <<rows, historyVars>>
          BY <4>2 DEF ServeLoad, Protocol, pageVars
        <5>2. CASE srv'[c] # "loaded"
          BY <4>0, <3>1, <5>1, <5>2 DEF CallInLine, historyVars
        <5>3. CASE srv'[c] = "loaded"
          <6>1. PICK r \in Latest :
                  /\ ~(path[c] = "cas" /\ Stale(c, r))
                  /\ loaded' = [loaded EXCEPT ![c] = r]
            BY <4>2, <5>3 DEF ServeLoad, Answer, TypeOK
          <6>2. loaded'[c] = r
            BY <6>1 DEF TypeOK
          <6>3. /\ r \in Row
                /\ r \in rows \/ (r = NoRow /\ rows = {})
                /\ \A q \in rows : q.version <= r.version
            BY LatestFacts DEF TypeOK
          <6>4. base[c].version <= r.version
            BY <6>3, <4>0, RowType DEF CallInLine, NoRow
          <6>5. path[c] = "cas" => r = base[c]
            <7>1. path[c] = "cas" => base[c] \in rows
              BY <4>0 DEF CallInLine, Protocol
            <7> QED BY <6>1, <6>3, <7>1, <3>2 DEF Stale, RowsInLine
          <6> QED BY <4>0, <3>1, <5>1, <6>2, <6>3, <6>4, <6>5
                  DEF CallInLine, historyVars
        <5> QED BY <5>2, <5>3
      <4>3. CASE ServeSave(c)
        <5>1. /\ UNCHANGED loaded
              /\ srv'[c] # "loaded"
          BY <4>3 DEF ServeSave, Answer, TypeOK
        <5>2. CASE UNCHANGED historyVars
          BY <4>0, <3>1, <3>3, <5>1, <5>2 DEF CallInLine, historyVars
        <5>3. CASE ~UNCHANGED historyVars
          <6>1. /\ srv[c] = "loaded"
                /\ ~Occupied(loaded[c].version + 1)
                /\ Save(loaded[c].version + 1)
                /\ stored' = [stored EXCEPT ![c] =
                     [version |-> loaded[c].version + 1, rev |-> lastRev + 1]]
            BY <4>3, <5>3 DEF ServeSave
          <6>2. PICK r \in Latest : over' = [over EXCEPT ![c] = r]
            BY <4>3, <5>3 DEF ServeSave
          <6>3. r = loaded[c]
            BY <6>1, <3>2, SaveOnTop DEF CallInLine, TypeOK
          <6>4. over'[c] = loaded[c]
            BY <6>2, <6>3 DEF TypeOK
          <6>5. /\ stored'[c] \in rows'
                /\ stored'[c].version = loaded[c].version + 1
            BY <6>1 DEF Save, TypeOK
          <6>6. result[c] # "ok"
            BY <6>1 DEF Protocol, Successes
          <6> QED BY <4>0, <3>1, <3>3, <5>1, <6>1, <6>4, <6>5, <6>6
                  DEF CallInLine
        <5> QED BY <5>2, <5>3
      <4> QED BY <2>3, <4>1, <4>2, <4>3 DEF Server
    <3> QED BY <3>3, <3>4, <3>5
  <2>4. CASE WebSave
    <3>1. UNCHANGED <<everDeleted, base, path, serverVars, readback, result,
                      historyVars>>
      BY <2>4 DEF WebSave
    <3>2. ~everDeleted /\ RowsInLine /\ \A d \in Calls : CallInLine(d)
      BY <3>1 DEF Lineage
    <3>3. RowsInLine' /\ rows \subseteq rows'
      BY <2>4, <3>2, SaveKeepsLine DEF WebSave
    <3>4. \A d \in Calls : CallInLine(d)'
      BY <3>1, <3>2, <3>3, OtherCalls DEF serverVars, historyVars
    <3> QED BY <3>3, <3>4
  <2>5. CASE WebDelete
    BY <2>5 DEF WebDelete
  <2>6. CASE ForgetAbsence \/ DeployPlugin \/ UNCHANGED vars
    <3>1. UNCHANGED <<pageVars, base, path, serverVars, readback, result,
                      historyVars>>
      BY <2>6 DEF ForgetAbsence, DeployPlugin, vars
    <3> QED BY <3>1 DEF Lineage, RowsInLine, Occupied, CallInLine, pageVars,
                        serverVars, historyVars
  <2> QED BY <2>1, <2>2, <2>3, <2>4, <2>5, <2>6 DEF Next
<1> QED BY <1>1, <1>2, TypeCorrect, ProtocolHolds, PTL DEF Spec

\* A versioned write that comes back unflagged replaced the revision its
\* caller read, and no other, for any number of callers and other users.
THEOREM UnflaggedWritesReplaceTheirBase == Spec => []UnflaggedReplacedBase
<1>1. TypeOK /\ Protocol /\ Lineage => UnflaggedReplacedBase
  <2> SUFFICES ASSUME TypeOK, Protocol, Lineage, NEW c \in Calls,
                      result[c] = "ok", base[c] # NoRow, ~everDeleted
               PROVE  over[c] = base[c]
    BY DEF UnflaggedReplacedBase
  <2>1. RowsInLine /\ CallInLine(c)
    BY DEF Lineage
  <2>2. stored[c] # NoRow
    BY DEF Protocol, Successes
  <2>3. /\ base[c] \in rows
        /\ stored[c].version <= base[c].version + 1
        /\ stored[c].version = over[c].version + 1
        /\ base[c].version <= over[c].version
    BY <2>1, <2>2 DEF CallInLine
  <2>4. over[c].version = base[c].version
    <3>1. over[c].version \in Nat /\ base[c].version \in Nat
      BY RowType DEF TypeOK
    <3> QED BY <2>3, <3>1
  <2>5. over[c] # NoRow
    BY <2>1, <2>3, <2>4 DEF RowsInLine, NoRow
  <2> QED BY <2>1, <2>2, <2>3, <2>4, <2>5 DEF RowsInLine, CallInLine
<1> QED BY <1>1, TypeCorrect, ProtocolHolds, LineageHolds, PTL

\* A write through putPageIfVersion replaces the revision its caller read,
\* and no other, however late it lands.
THEOREM ConditionalWritesReplaceTheirBase == Spec => []ConditionalReplacedBase
<1>1. Lineage => ConditionalReplacedBase
  BY DEF Lineage, CallInLine, ConditionalReplacedBase
<1> QED BY <1>1, LineageHolds, PTL

\* What a flagged call read back stays true of it: its result is final, and
\* the page only grows.
LEMMA FlagsStayInLine ==
    ASSUME TypeOK, Protocol, Lineage, FlagsInLine, [Next]_vars
    PROVE  FlagsInLine'
<1> USE DEF pageVars, serverVars, historyVars
<1>1. ~everDeleted' => ~everDeleted /\ rows \subseteq rows'
  <2>1. CASE \E c \in Calls : DeletePage(c)
    BY <2>1 DEF DeletePage, TypeOK
  <2>2. CASE ~\E c \in Calls : DeletePage(c)
    BY <2>2 DEF Next, Caller, Handler, Server, ReadForUpdate, UpdateGate, CreateProbe,
         PushProbe, DeleteProbe, PutIfVersion, PutUnversioned, Precheck, Receive, GiveUp,
         Readback, ServeNoMethod, ServeLoad, ServeSave, ServeRecheck, ForgetAbsence,
         WebSave, WebDelete, DeployPlugin, Save, vars
  <2> QED BY <2>1, <2>2
<1> SUFFICES ASSUME NEW c \in Calls, result'[c] = "flagged", ~everDeleted'
             PROVE  /\ base'[c] # NoRow
                    /\ Occupied(readback[c])' /\ stored'[c].version <= readback'[c]
                    /\ readback'[c] # base'[c].version + 1
  BY DEF FlagsInLine
<1>2. ASSUME UNCHANGED <<base[c], readback[c], stored[c], result[c]>>
      PROVE  /\ base'[c] # NoRow
             /\ Occupied(readback[c])' /\ stored'[c].version <= readback'[c]
             /\ readback'[c] # base'[c].version + 1
  BY <1>1, <1>2 DEF FlagsInLine, Occupied
<1>3. CASE result[c] = "flagged"
  <2>1. pc[c] = "done" /\ srv[c] = "idle"
    BY <1>3 DEF Protocol, Successes
  <2>2. UNCHANGED <<base[c], readback[c], result[c]>>
    BY <2>1 DEF Next, Caller, Handler, Server, ReadForUpdate, UpdateGate, CreateProbe,
         PushProbe, DeleteProbe, DeletePage, PutIfVersion, PutUnversioned, Precheck,
         Receive, GiveUp, Readback, ServeNoMethod, ServeLoad, ServeSave, ServeRecheck,
         ForgetAbsence, WebSave, WebDelete, DeployPlugin, Finish, Goto, Send, vars, TypeOK
  <2>3. UNCHANGED stored[c]
    BY <2>1 DEF Next, Caller, Handler, Server, ReadForUpdate, UpdateGate, CreateProbe,
         PushProbe, DeleteProbe, DeletePage, PutIfVersion, PutUnversioned, Precheck,
         Receive, GiveUp, Readback, ServeNoMethod, ServeLoad, ServeSave, ServeRecheck,
         ForgetAbsence, WebSave, WebDelete, DeployPlugin, vars, TypeOK
  <2> QED BY <1>2, <2>2, <2>3
<1>4. CASE result[c] # "flagged"
  <2>1. Readback(c)
    BY <1>4 DEF Next, Caller, Handler, Server, ReadForUpdate, UpdateGate, CreateProbe,
         PushProbe, DeleteProbe, DeletePage, PutIfVersion, PutUnversioned, Precheck,
         Receive, GiveUp, Readback, ServeNoMethod, ServeLoad, ServeSave, ServeRecheck,
         ForgetAbsence, WebSave, WebDelete, DeployPlugin, Finish, Goto, Send, vars, TypeOK
  <2>2. UNCHANGED <<rows, base, stored>> /\ pc[c] = "readback"
    BY <2>1 DEF Readback
  <2>3. PICK r \in Latest :
           /\ r # NoRow
           /\ readback' = [readback EXCEPT ![c] = r.version]
           /\ Finish(c, IF Unexpected(c, r.version) THEN "flagged" ELSE "ok")
    BY <2>1, <1>4 DEF Readback, Finish, ReadbackFailure, TypeOK
  <2>4. readback'[c] = r.version /\ Unexpected(c, r.version)
    BY <2>3, <1>4 DEF Finish, TypeOK
  <2>5. r \in rows /\ \A q \in rows : q.version <= r.version
    BY <2>3, LatestFacts DEF TypeOK
  <2>6. stored[c] \in rows
    BY <1>1, <2>2 DEF Lineage, CallInLine, Protocol
  <2> QED BY <2>2, <2>4, <2>5, <2>6 DEF Unexpected, Occupied
<1> QED BY <1>3, <1>4

\* The flag is no false alarm: between the base and what was read back there
\* is a revision that is not the call's own.
THEOREM FlagsMeanContention == Spec => []FlaggedOnlyOnContention
<1>1. Init => FlagsInLine
  BY DEF Init, FlagsInLine
<1>2. TypeOK /\ Protocol /\ Lineage /\ FlagsInLine /\ [Next]_vars => FlagsInLine'
  BY FlagsStayInLine
<1>3. TypeOK /\ Protocol /\ Lineage /\ FlagsInLine => FlaggedOnlyOnContention
  <2> SUFFICES ASSUME TypeOK, Protocol, Lineage, FlagsInLine, NEW c \in Calls,
                      result[c] = "flagged", ~everDeleted
               PROVE  \E q \in rows : /\ base[c].version < q.version
                                      /\ q.version <= readback[c]
                                      /\ q # stored[c]
    BY DEF FlaggedOnlyOnContention
  <2>1. /\ Occupied(readback[c]) /\ stored[c].version <= readback[c]
        /\ readback[c] # base[c].version + 1
    BY DEF FlagsInLine
  <2>2. stored[c] \in rows /\ base[c].version + 1 <= stored[c].version
    <3>1. stored[c] # NoRow
      BY DEF Protocol, Successes
    <3>2. /\ stored[c] \in rows /\ stored[c].version = over[c].version + 1
          /\ base[c].version <= over[c].version
      BY <3>1 DEF Lineage, CallInLine
    <3>3. over[c].version \in Nat /\ base[c].version \in Nat
      BY RowType DEF TypeOK
    <3> QED BY <3>2, <3>3
  <2>3. base[c].version \in Nat /\ stored[c].version \in Nat /\ readback[c] \in Nat
    BY RowType DEF TypeOK
  <2>4. CASE stored[c].version = readback[c]
    <3>1. base[c].version + 1 \in 1 .. stored[c].version
          /\ base[c].version + 1 < stored[c].version
      BY <2>1, <2>2, <2>3, <2>4
    <3>2. PICK q \in rows : q.version = base[c].version + 1
      BY <2>2, <3>1 DEF Lineage, RowsInLine, Occupied
    <3> QED BY <2>3, <2>4, <3>1, <3>2
  <2>5. CASE stored[c].version # readback[c]
    <3>1. PICK q \in rows : q.version = readback[c]
      BY <2>1 DEF Occupied
    <3> QED BY <2>1, <2>2, <2>3, <2>5, <3>1
  <2> QED BY <2>4, <2>5
<1> QED BY <1>1, <1>2, <1>3, TypeCorrect, ProtocolHolds, LineageHolds, PTL DEF Spec

(***************************************************************************)
(* On a page nobody deletes, WikiWrite implements ConditionalStore: every  *)
(* write through putPageIfVersion is one atomic compare-and-store, for any *)
(* number of callers and of other users' saves.                            *)
(***************************************************************************)

\* Where neither a tool nor another user deletes, nothing is ever deleted.
NothingDeleted == ~everDeleted /\ \A c \in Calls : pc[c] # "delete"

\* No step deletes, with no tool and no user that does.
LEMMA NeverDeleted ==
    ASSUME ~WebDeletes, "delete" \notin Tools
    PROVE  Spec => []NothingDeleted
<1>1. Init => NothingDeleted
  BY DEF Init, NothingDeleted
<1>2. TypeOK /\ NothingDeleted /\ [Next]_vars => NothingDeleted'
  <2> SUFFICES ASSUME TypeOK, NothingDeleted, [Next]_vars
               PROVE  NothingDeleted'
    OBVIOUS
  <2> USE DEF NothingDeleted, TypeOK, Finish, Goto, pageVars
  <2>1. ASSUME NEW c \in Calls, Caller(c) PROVE NothingDeleted'
    BY <2>1 DEF Caller, ReadForUpdate, UpdateGate, CreateProbe, PushProbe,
                DeleteProbe
  <2>2. ASSUME NEW c \in Calls, Handler(c) PROVE NothingDeleted'
    BY <2>2 DEF Handler, PutIfVersion, PutUnversioned, Precheck, Receive,
                GiveUp, Readback, DeletePage, Send
  <2>3. ASSUME NEW c \in Calls, Server(c) PROVE NothingDeleted'
    BY <2>3 DEF Server, ServeNoMethod, ServeLoad, ServeSave, ServeRecheck
  <2>4. CASE ForgetAbsence \/ WebSave \/ WebDelete \/ DeployPlugin
    BY <2>4 DEF ForgetAbsence, WebSave, WebDelete, DeployPlugin
  <2>5. CASE UNCHANGED vars
    BY <2>5 DEF vars
  <2> QED BY <2>1, <2>2, <2>3, <2>4, <2>5 DEF Next
<1> QED BY <1>1, <1>2, TypeCorrect, PTL DEF Spec

\* Revisions are numbered in the order they are stored.
RevisionsNumbered == \A p \in rows : p.rev <= lastRev

\* No row has a number above the last one given.
LEMMA RevisionsAreNumbered == Spec => []RevisionsNumbered
<1>1. Init => RevisionsNumbered
  BY DEF Init, RevisionsNumbered
<1>2. TypeOK /\ RevisionsNumbered /\ [Next]_vars => RevisionsNumbered'
  <2> SUFFICES ASSUME TypeOK, RevisionsNumbered, [Next]_vars
               PROVE  RevisionsNumbered'
    OBVIOUS
  <2>1. CASE UNCHANGED <<rows, lastRev>>
    BY <2>1 DEF RevisionsNumbered
  <2>2. ASSUME NEW v, Save(v) PROVE RevisionsNumbered'
    BY <2>2, RowType DEF Save, RevisionsNumbered, TypeOK
  <2>3. CASE rows' = {}
    BY <2>3 DEF RevisionsNumbered
  <2>4. \/ UNCHANGED <<rows, lastRev>>
        \/ \E v : Save(v)
        \/ rows' = {}
    <3>1. ASSUME NEW c \in Calls, Caller(c)
          PROVE  UNCHANGED <<rows, lastRev>>
      BY <3>1 DEF Caller, ReadForUpdate, UpdateGate, CreateProbe, PushProbe,
                  DeleteProbe, pageVars
    <3>2. ASSUME NEW c \in Calls, Handler(c)
          PROVE  UNCHANGED <<rows, lastRev>> \/ rows' = {}
      BY <3>2 DEF Handler, PutIfVersion, PutUnversioned, Precheck, Receive,
                  GiveUp, Readback, DeletePage, pageVars
    <3>3. ASSUME NEW c \in Calls, Server(c)
          PROVE  UNCHANGED <<rows, lastRev>> \/ \E v : Save(v)
      BY <3>3 DEF Server, ServeNoMethod, ServeLoad, ServeSave, ServeRecheck,
                  pageVars
    <3>4. CASE ForgetAbsence \/ DeployPlugin \/ UNCHANGED vars
      BY <3>4 DEF ForgetAbsence, DeployPlugin, vars, pageVars
    <3>5. CASE WebSave
      BY <3>5 DEF WebSave
    <3>6. CASE WebDelete
      BY <3>6 DEF WebDelete
    <3> QED BY <3>1, <3>2, <3>3, <3>4, <3>5, <3>6 DEF Next
  <2> QED BY <2>1, <2>2, <2>3, <2>4
<1> QED BY <1>1, <1>2, TypeCorrect, PTL DEF Spec

\* Where versions are 1 .. n, once each, there is one latest row at most.
LEMMA LatestIsCurrent ==
    ASSUME TypeOK, RowsInLine, NEW r \in Latest
    PROVE  CurrentRow = r
<1>1. ASSUME NEW q \in Latest PROVE q = r
  <2>1. /\ q \in Row /\ r \in Row
        /\ q \in rows \/ (q = NoRow /\ rows = {})
        /\ r \in rows \/ (r = NoRow /\ rows = {})
        /\ \A p \in rows : p.version <= q.version
        /\ \A p \in rows : p.version <= r.version
    BY <1>1, LatestFacts DEF TypeOK
  <2>2. q.version \in Nat /\ r.version \in Nat
    BY <2>1, RowType
  <2>3. CASE q \in rows /\ r \in rows
    BY <2>1, <2>2, <2>3 DEF RowsInLine
  <2> QED BY <2>1, <2>3
<1>2. CurrentRow \in Latest
  BY DEF CurrentRow
<1> QED BY <1>1, <1>2

\* A row saved on top of the latest one is its successor, and the latest.
LEMMA SavedIsSuccessor ==
    ASSUME TypeOK, TypeOK', RowsInLine, RowsInLine', RevisionsNumbered,
           NEW r \in Latest, Save(r.version + 1)
    PROVE  /\ CurrentRow = r
           /\ CurrentRow' = [version |-> r.version + 1, rev |-> lastRev + 1]
           /\ CurrentRow' \in Conditional!Revision
           /\ Conditional!Successor(CurrentRow')
<1> DEFINE new == [version |-> r.version + 1, rev |-> lastRev + 1]
<1>1. /\ r \in Row
      /\ r \in rows \/ (r = NoRow /\ rows = {})
      /\ \A q \in rows : q.version <= r.version
  BY LatestFacts DEF TypeOK
<1>2. /\ r.version \in Nat /\ lastRev \in Nat /\ new \in Row
      /\ \A q \in rows : q.version \in Nat
  BY <1>1, RowType DEF TypeOK
<1>3. CurrentRow = r
  BY LatestIsCurrent
<1>4. CurrentRow' = new
  <2>1. new \in Latest'
    BY <1>1, <1>2 DEF Latest, IsLatest, Save
  <2>2. ASSUME NEW q \in Latest' PROVE q = new
    <3>1. q \in rows' /\ (\A p \in rows' : p.version <= q.version)
      BY <2>2 DEF Latest, IsLatest, Save
    <3>2. q.version \in Nat /\ new \in rows'
      BY <3>1, RowType DEF TypeOK, Save
    <3>3. q = new \/ q \in rows
      BY <3>1 DEF Save
    <3> QED BY <1>1, <1>2, <3>1, <3>2, <3>3
  <2> QED BY <2>1, <2>2 DEF CurrentRow
<1>5. r.rev <= lastRev /\ r.rev \in Nat
  BY <1>1, <1>2, RowType DEF RevisionsNumbered, NoRow
<1>6. new \in Conditional!Revision
  BY <1>2 DEF Row, Conditional!Revision
<1>7. Conditional!Successor(new)
  BY <1>2, <1>3, <1>5 DEF Conditional!Successor
<1> QED BY <1>3, <1>4, <1>6, <1>7

\* A step that stores nothing and reads nothing is a stutter of the store.
LEMMA Stutters ==
    ASSUME UNCHANGED <<rows, base, stored>>,
           \A c \in Calls : path'[c] = path[c] \/ stored[c] = NoRow
    PROVE  UNCHANGED Conditional!vars
<1>1. CurrentRow' = CurrentRow
  BY DEF CurrentRow, Latest, IsLatest
<1>2. StoredByPlugin' = StoredByPlugin
  BY DEF StoredByPlugin
<1> QED BY <1>1, <1>2 DEF Conditional!vars

\* With the plugin or through a fallback, whatever the order of requests,
\* replies and timeouts: the versioned writes of WikiWrite implement the
\* compare-and-store that wiki_update promises its callers.
THEOREM ImplementsConditionalStore ==
    ASSUME ~WebDeletes, "delete" \notin Tools
    PROVE  Spec => IsConditionalStore
<1>1. Init => Conditional!Init
  <2> SUFFICES ASSUME Init PROVE Conditional!Init
    OBVIOUS
  <2>1. CurrentRow \in {NoRow, [version |-> 1, rev |-> 1]}
    <3>1. CASE rows = {}
      <4>1. Latest = {NoRow}
        BY <3>1 DEF Latest, IsLatest
      <4> QED BY <4>1 DEF CurrentRow
    <3>2. CASE rows = {[version |-> 1, rev |-> 1]}
      <4> DEFINE one == [version |-> 1, rev |-> 1]
      <4>0. one # NoRow /\ one.version = 1
        BY DEF NoRow
      <4> HIDE DEF one
      <4>1. Latest = {one}
        <5>1. rows = {one}
          BY <3>2 DEF one
        <5>2. one \in Latest
          BY <4>0, <5>1 DEF Latest, IsLatest
        <5>3. \A r \in Latest : r = one
          BY <4>0, <5>1 DEF Latest, IsLatest
        <5> QED BY <5>2, <5>3
      <4> QED BY <4>1 DEF CurrentRow, one
    <3> QED BY <3>1, <3>2 DEF Init
  <2> QED BY <2>1 DEF Init, NoRow, StoredByPlugin, Conditional!Init,
                      Conditional!None
<1>2. /\ TypeOK /\ TypeOK' /\ Protocol /\ Lineage /\ Lineage'
      /\ NothingDeleted /\ NothingDeleted' /\ RevisionsNumbered
      /\ [Next]_vars
      => [Conditional!Next]_(Conditional!vars)
  <2> SUFFICES ASSUME TypeOK, TypeOK', Protocol, Lineage, Lineage',
                      NothingDeleted, NothingDeleted', RevisionsNumbered,
                      [Next]_vars
               PROVE  [Conditional!Next]_(Conditional!vars)
    OBVIOUS
  <2>0. RowsInLine /\ RowsInLine' /\ \A c \in Calls : CallInLine(c)
    BY DEF Lineage, NothingDeleted
  <2>1. ASSUME NEW c \in Calls, Caller(c)
        PROVE  Conditional!Read(c) \/ UNCHANGED Conditional!vars
    <3>1. UNCHANGED <<rows, path, stored>>
      BY <2>1 DEF Caller, ReadForUpdate, UpdateGate, CreateProbe, PushProbe,
                  DeleteProbe, pageVars, historyVars
    <3>2. CASE UNCHANGED base
      BY <3>1, <3>2, Stutters
    <3>3. CASE ~UNCHANGED base
      <4>1. /\ pc[c] = "idle"
            /\ \E r \in Latest : base' = [base EXCEPT ![c] = r]
        BY <2>1, <3>3 DEF Caller, ReadForUpdate, UpdateGate, CreateProbe,
                          PushProbe, DeleteProbe
      <4>2. PICK r \in Latest : base' = [base EXCEPT ![c] = r]
        BY <4>1
      <4>3. base[c] = NoRow
        BY <4>1 DEF Protocol
      <4>4. r # NoRow
        BY <3>3, <4>2, <4>3 DEF TypeOK
      <4>5. CurrentRow = r
        BY <2>0, LatestIsCurrent
      <4>6. CurrentRow' = CurrentRow /\ StoredByPlugin' = StoredByPlugin
        BY <3>1 DEF CurrentRow, Latest, IsLatest, StoredByPlugin
      <4> QED BY <4>2, <4>3, <4>4, <4>5, <4>6
              DEF NoRow, Conditional!Read, Conditional!None
    <3> QED BY <3>2, <3>3
  <2>2. ASSUME NEW c \in Calls, Handler(c)
        PROVE  UNCHANGED Conditional!vars
    <3>1. UNCHANGED <<rows, base, stored>>
      BY <2>2 DEF Handler, PutIfVersion, PutUnversioned, Precheck, Receive,
                  GiveUp, Readback, DeletePage, Send, NothingDeleted,
                  pageVars, historyVars
    <3>2. ASSUME NEW d \in Calls PROVE path'[d] = path[d] \/ stored[d] = NoRow
      <4>1. CASE PutIfVersion(c) \/ PutUnversioned(c) \/ Precheck(c)
        <5>1. stored[c] = NoRow
          BY <4>1 DEF PutIfVersion, PutUnversioned, Precheck, Protocol
        <5>2. d # c => path'[d] = path[d]
          BY <4>1 DEF PutIfVersion, PutUnversioned, Precheck, Send, TypeOK
        <5> QED BY <5>1, <5>2
      <4>2. CASE Receive(c) \/ GiveUp(c) \/ Readback(c) \/ DeletePage(c)
        BY <4>2 DEF Receive, GiveUp, Readback, DeletePage
      <4> QED BY <2>2, <4>1, <4>2 DEF Handler
    <3> QED BY <3>1, <3>2, Stutters
  <2>3. ASSUME NEW c \in Calls, Server(c)
        PROVE  \/ Conditional!Write(c)
               \/ Conditional!OtherWrite
               \/ UNCHANGED Conditional!vars
    <3>1. UNCHANGED <<base, path>>
      BY <2>3 DEF Server, ServeNoMethod, ServeLoad, ServeSave, ServeRecheck
    <3>2. CASE UNCHANGED <<rows, stored>>
      BY <3>1, <3>2, Stutters
    <3>3. CASE ~UNCHANGED <<rows, stored>>
      <4>1. /\ srv[c] = "loaded"
            /\ ~Occupied(loaded[c].version + 1)
            /\ Save(loaded[c].version + 1)
            /\ stored' = [stored EXCEPT ![c] =
                 [version |-> loaded[c].version + 1, rev |-> lastRev + 1]]
            /\ \E r \in Latest : over' = [over EXCEPT ![c] = r]
        BY <2>3, <3>3 DEF Server, ServeNoMethod, ServeLoad, ServeSave,
                          ServeRecheck, pageVars, historyVars
      <4>2. PICK r \in Latest : over' = [over EXCEPT ![c] = r]
        BY <4>1
      <4>3. r = loaded[c]
        BY <4>1, <2>0, SaveOnTop DEF CallInLine, TypeOK, NothingDeleted
      <4>4. /\ CurrentRow = r
            /\ CurrentRow' = [version |-> r.version + 1, rev |-> lastRev + 1]
            /\ CurrentRow' \in Conditional!Revision
            /\ Conditional!Successor(CurrentRow')
        BY <4>1, <4>3, <2>0, SavedIsSuccessor
      <4>5. stored' = [stored EXCEPT ![c] = CurrentRow']
        BY <4>1, <4>3, <4>4
      <4>6. CASE path[c] = "cas"
        <5>1. base[c] = CurrentRow
          BY <4>1, <4>3, <4>4, <4>6, <2>0 DEF CallInLine
        <5>2. StoredByPlugin[c] = Conditional!None
          BY <4>1 DEF Protocol, StoredByPlugin, NoRow, Conditional!None
        <5>3. StoredByPlugin' = [StoredByPlugin EXCEPT ![c] = CurrentRow']
          BY <3>1, <4>5, <4>6 DEF StoredByPlugin, TypeOK
        <5> QED BY <3>1, <4>4, <5>1, <5>2, <5>3 DEF Conditional!Write
      <4>7. CASE path[c] # "cas"
        <5>1. StoredByPlugin' = StoredByPlugin
          BY <3>1, <4>5, <4>7 DEF StoredByPlugin, TypeOK
        <5> QED BY <3>1, <4>4, <5>1 DEF Conditional!OtherWrite
      <4> QED BY <4>6, <4>7
    <3> QED BY <3>2, <3>3
  <2>4. CASE WebSave
    <3>1. UNCHANGED <<base, path, stored>>
      BY <2>4 DEF WebSave, historyVars
    <3>2. PICK r \in Latest : Save(r.version + 1)
      BY <2>4 DEF WebSave
    <3>3. /\ CurrentRow' \in Conditional!Revision
          /\ Conditional!Successor(CurrentRow')
      BY <3>2, <2>0, SavedIsSuccessor
    <3>4. StoredByPlugin' = StoredByPlugin
      BY <3>1 DEF StoredByPlugin
    <3>5. Conditional!OtherWrite
      BY <3>1, <3>3, <3>4 DEF Conditional!OtherWrite
    <3> QED BY <3>5 DEF Conditional!Next
  <2>5. CASE WebDelete
    BY <2>5 DEF WebDelete
  <2>6. CASE ForgetAbsence \/ DeployPlugin \/ UNCHANGED vars
    <3>1. UNCHANGED <<rows, base, path, stored>>
      BY <2>6 DEF ForgetAbsence, DeployPlugin, vars, pageVars, historyVars
    <3> QED BY <3>1, Stutters
  <2> QED BY <2>1, <2>2, <2>3, <2>4, <2>5, <2>6 DEF Next, Conditional!Next
<1> QED
  BY <1>1, <1>2, TypeCorrect, ProtocolHolds, LineageHolds, NeverDeleted,
     RevisionsAreNumbered, PTL
     DEF Spec, IsConditionalStore, Conditional!Spec

===============================================================================
